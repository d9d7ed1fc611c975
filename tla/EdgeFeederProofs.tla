--------------------------- MODULE EdgeFeederProofs ---------------------------
(***************************************************************************)
(* What EdgeFeeder promises for every camera, tracker, threshold and queue *)
(* size, proved from one inductive invariant.                              *)
(***************************************************************************)
EXTENDS EdgeFeeder, TLAPS

-------------------------------------------------------------------------------
(* The inductive invariant *)

\* What TrackManager.update keeps true of one track: a crop is held exactly when the best
\* score reached the threshold, and only accepted detections, 1..n, are
\* aggregated.
TrackInv(t, n) ==
    /\ t.total = 0 => t = NoTrack
    /\ t.crops > 0 <=> t.best >= Threshold
    /\ t.dets \subseteq 1..n

\* The triage put a queued track where its best score belongs.
RoutedTo(q, t) == IF q = "fast" THEN t.best > Threshold ELSE t.best <= Threshold

TracksInv == \A i \in Ids : TrackInv(tracks[i], accepted) /\ TrackInv(pending[i], accepted)

QueuesInv ==
    \A q \in Queues : \A k \in 1..Len(queue[q]) :
        TrackInv(queue[q][k], accepted) /\ RoutedTo(q, queue[q][k])

\* How long ago a live track was last seen, wherever the loop is.
AgeInv ==
    \A i \in Live(tracks) :
        /\ pc \in {"read", "boxes"}
        /\ tracks[i].last <= frame
        /\ frame - tracks[i].last <= IF pc = "boxes" THEN StaleAfter + 1 ELSE StaleAfter

IInv == TypeOK /\ TracksInv /\ QueuesInv /\ AgeInv

-------------------------------------------------------------------------------
(* Lemmas about the helpers *)

LEMMA NoTrackIsTrack == NoTrack \in Tracks /\ \A n : TrackInv(NoTrack, n)
  BY FeederAssumption DEF NoTrack, Tracks, TrackInv

\* Keep takes each entry from the old map or leaves the slot empty.
LEMMA KeepTyped ==
    ASSUME NEW ts \in [Ids -> Tracks], NEW S
    PROVE  /\ Keep(ts, S) \in [Ids -> Tracks]
           /\ \A i \in Ids : Keep(ts, S)[i] = IF i \in S THEN ts[i] ELSE NoTrack
  BY NoTrackIsTrack DEF Keep

LEMMA UpdatedTyped ==
    ASSUME TypeOK, NEW t \in Tracks, NEW veh \in Vehicles, NEW score \in Scores
    PROVE  Updated(t, veh, score) \in Tracks
  BY FeederAssumption DEF TypeOK, Tracks, Updated, IsSharp

\* update keeps a crop if and only if the best score says there is one.
LEMMA UpdatedInv ==
    ASSUME TypeOK, NEW t \in Tracks, TrackInv(t, accepted),
           NEW veh \in Vehicles, NEW score \in Scores
    PROVE  TrackInv(Updated(t, veh, score), accepted + 1)
  <1> DEFINE u == Updated(t, veh, score)
  <1>1. t.total \in Nat /\ t.crops \in Nat /\ t.best \in Nat /\ score \in Nat
    BY FeederAssumption DEF Tracks
  <1>2. u.total # 0
    BY <1>1 DEF Updated
  <1>3. u.crops > 0 <=> u.best >= Threshold
    BY <1>1, FeederAssumption DEF TrackInv, Updated, IsSharp
  <1>4. u.dets \subseteq 1..(accepted + 1)
    BY DEF TypeOK, TrackInv, Updated
  <1> QED
    BY <1>2, <1>3, <1>4 DEF TrackInv

-------------------------------------------------------------------------------
(* The invariant holds initially and every step preserves it *)

LEMMA InitInv == Init => IInv
  <1> SUFFICES ASSUME Init PROVE IInv
    OBVIOUS
  <1>1. TypeOK
    <2>1. \A q \in Queues : queue[q] = <<>>
      BY DEF Init
    <2>2. queue \in [Queues -> Seq(Tracks)]
      BY DEF Init
    <2>3. \A q \in Queues : Len(queue[q]) <= QueueMax
      BY <2>1, FeederAssumption
    <2>4. tracks \in [Ids -> Tracks] /\ pending \in [Ids -> Tracks]
      BY NoTrackIsTrack DEF Init
    <2>5. frame = 0 /\ accepted = 0 /\ gone = {} /\ stopEvent = FALSE
      BY DEF Init
    <2>6. 0 \in 0..MaxFrame
      BY FeederAssumption
    <2>7. /\ pc = "read" /\ boxes \subseteq Addresses /\ box \in Addresses \cup {NoAddress}
          /\ oldBoxes \subseteq Addresses \cup {NoAddress}
      BY DEF Init
    <2> QED
      BY <2>2, <2>3, <2>4, <2>5, <2>6, <2>7 DEF TypeOK
  <1>2. TracksInv /\ QueuesInv
    BY NoTrackIsTrack DEF Init, TracksInv, QueuesInv, Queues
  <1>3. AgeInv
    BY DEF Init, AgeInv, Live, NoTrack
  <1> QED
    BY <1>1, <1>2, <1>3 DEF IInv

\* finalize_stale and flush_all: the maps stay well-formed, and what is live afterwards
\* was live before and is not in S.
LEMMA FinalizeStep ==
    ASSUME IInv, NEW S, Finalize(S)
    PROVE  /\ tracks' \in [Ids -> Tracks]
           /\ pending' \in [Ids -> Tracks]
           /\ \A i \in Ids : TrackInv(tracks'[i], accepted) /\ TrackInv(pending'[i], accepted)
           /\ \A i \in Live(tracks') : i \in Live(tracks) /\ i \notin S /\ tracks'[i] = tracks[i]
  <1>1. tracks \in [Ids -> Tracks]
    BY DEF IInv, TypeOK
  <1>2. /\ tracks' \in [Ids -> Tracks]
        /\ \A i \in Ids : tracks'[i] = IF i \in Ids \ S THEN tracks[i] ELSE NoTrack
    BY <1>1, KeepTyped DEF Finalize
  <1>3. /\ pending' \in [Ids -> Tracks]
        /\ \A i \in Ids : pending'[i] = IF i \in S THEN tracks[i] ELSE NoTrack
    BY <1>1, KeepTyped DEF Finalize
  <1>4. \A i \in Ids : TrackInv(tracks'[i], accepted) /\ TrackInv(pending'[i], accepted)
    BY <1>2, <1>3, NoTrackIsTrack DEF IInv, TracksInv
  <1>5. \A i \in Live(tracks') : i \in Live(tracks) /\ i \notin S /\ tracks'[i] = tracks[i]
    BY <1>2 DEF Live, NoTrack
  <1> QED
    BY <1>2, <1>3, <1>4, <1>5

\* What a step that changes neither the queues nor the counters has to show.
LEMMA QueuesKept ==
    ASSUME IInv, UNCHANGED <<queue, accepted>>
    PROVE  QueuesInv'
  BY DEF IInv, QueuesInv

LEMMA SkipFrameInv == IInv /\ SkipFrame => IInv'
  <1> SUFFICES ASSUME IInv, SkipFrame PROVE IInv'
    OBVIOUS
  <1> DEFINE S == Stale(frame')
  <1>1. Finalize(S) /\ UNCHANGED <<pc, queue, stopEvent, oldBoxes, boxes, box, accepted, gone>>
    BY DEF SkipFrame, heap
  <1>2. frame \in Nat /\ frame' = frame + 1 /\ frame' \in 0..MaxFrame
    BY FeederAssumption DEF SkipFrame, IInv, TypeOK
  <1>3. TypeOK'
    BY <1>1, <1>2, FinalizeStep DEF IInv, TypeOK
  <1>4. TracksInv' /\ QueuesInv'
    BY <1>1, FinalizeStep, QueuesKept DEF TracksInv
  <1>5. AgeInv'
    <2> SUFFICES ASSUME NEW i \in Live(tracks')
                 PROVE  /\ tracks'[i].last <= frame'
                        /\ frame' - tracks'[i].last <= StaleAfter
      BY <1>1 DEF AgeInv, Live, SkipFrame, AtTop
    <2>1. i \in Live(tracks) /\ i \notin S /\ tracks'[i] = tracks[i]
      BY <1>1, FinalizeStep
    <2>2. tracks[i].last \in Nat
      BY <2>1 DEF IInv, TypeOK, Live, Tracks
    <2>3. tracks[i].last <= frame /\ ~(frame' - tracks[i].last > StaleAfter)
      BY <2>1 DEF Stale, IInv, AgeInv
    <2> QED
      BY <1>2, <2>1, <2>2, <2>3, FeederAssumption
  <1> QED
    BY <1>3, <1>4, <1>5 DEF IInv

LEMMA ReadFrameInv == IInv /\ ReadFrame => IInv'
  <1> SUFFICES ASSUME IInv, ReadFrame PROVE IInv'
    OBVIOUS
  <1>1. UNCHANGED <<tracks, pending, queue, stopEvent, box, accepted, gone>>
    BY DEF ReadFrame
  <1>2. frame \in Nat /\ frame' = frame + 1 /\ frame' \in 0..MaxFrame
    BY FeederAssumption DEF ReadFrame, IInv, TypeOK
  <1>3. TypeOK'
    BY <1>1, <1>2 DEF IInv, TypeOK, ReadFrame
  <1>4. TracksInv' /\ QueuesInv'
    BY <1>1, QueuesKept DEF IInv, TracksInv
  <1>5. AgeInv'
    <2> SUFFICES ASSUME NEW i \in Live(tracks)
                 PROVE  /\ tracks[i].last <= frame'
                        /\ frame' - tracks[i].last <= StaleAfter + 1
      BY <1>1 DEF AgeInv, Live, ReadFrame
    <2>1. tracks[i].last \in Nat
      BY DEF IInv, TypeOK, Live, Tracks
    <2>2. tracks[i].last <= frame /\ frame - tracks[i].last <= StaleAfter
      BY DEF IInv, AgeInv, ReadFrame, AtTop
    <2> QED
      BY <1>2, <2>1, <2>2, FeederAssumption
  <1> QED
    BY <1>3, <1>4, <1>5 DEF IInv

LEMMA DetectInv ==
    ASSUME IInv, NEW veh \in Vehicles, NEW addr \in Addresses, NEW score \in Scores,
           Detect(veh, addr, score)
    PROVE  IInv'
  <1>1. PICK id \in Ids : tracks' = [tracks EXCEPT ![id] = Updated(@, veh, score)]
    BY DEF Detect, TrackIds, Ids
  <1>2. /\ UNCHANGED <<pc, frame, pending, queue, stopEvent, oldBoxes, gone>>
        /\ pc = "boxes" /\ accepted' = accepted + 1
        /\ boxes' = boxes \cup {addr} /\ box' = addr
    BY DEF Detect
  <1>3. tracks \in [Ids -> Tracks] /\ accepted \in Nat /\ frame \in Nat
    BY FeederAssumption DEF IInv, TypeOK
  <1>4. Updated(tracks[id], veh, score) \in Tracks
    BY <1>3, UpdatedTyped DEF IInv
  <1>5. TrackInv(Updated(tracks[id], veh, score), accepted + 1)
    BY <1>3, UpdatedInv DEF IInv, TracksInv
  <1>6. \A t : TrackInv(t, accepted) => TrackInv(t, accepted + 1)
    BY <1>3 DEF TrackInv
  <1>7. TypeOK'
    <2>1. tracks' \in [Ids -> Tracks]
      BY <1>1, <1>3, <1>4
    <2>2. accepted' \in Nat /\ gone' \subseteq 1..accepted'
      BY <1>2, <1>3 DEF IInv, TypeOK
    <2> QED
      BY <1>2, <2>1, <2>2 DEF IInv, TypeOK
  <1>8. TracksInv'
    BY <1>1, <1>2, <1>3, <1>5, <1>6 DEF IInv, TracksInv
  <1>9. QueuesInv'
    BY <1>2, <1>6 DEF IInv, QueuesInv
  <1>10. AgeInv'
    BY <1>1, <1>2, <1>3, FeederAssumption DEF IInv, AgeInv, Live, Updated
  <1> QED
    BY <1>7, <1>8, <1>9, <1>10 DEF IInv

LEMMA EndFrameInv == IInv /\ EndFrame => IInv'
  <1> SUFFICES ASSUME IInv, EndFrame PROVE IInv'
    OBVIOUS
  <1> DEFINE S == Stale(frame)
  <1>1. Finalize(S) /\ UNCHANGED <<frame, queue, stopEvent, oldBoxes, boxes, box, accepted, gone>>
    BY DEF EndFrame, heap
  <1>2. TypeOK'
    BY <1>1, FinalizeStep DEF IInv, TypeOK, EndFrame
  <1>3. TracksInv' /\ QueuesInv'
    BY <1>1, FinalizeStep, QueuesKept DEF TracksInv
  <1>4. AgeInv'
    <2> SUFFICES ASSUME NEW i \in Live(tracks')
                 PROVE  /\ tracks'[i].last <= frame
                        /\ frame - tracks'[i].last <= StaleAfter
      BY <1>1 DEF AgeInv, Live, EndFrame
    <2>1. i \in Live(tracks) /\ i \notin S /\ tracks'[i] = tracks[i]
      BY <1>1, FinalizeStep
    <2>2. tracks[i].last \in Nat /\ frame \in Nat
      BY <2>1, FeederAssumption DEF IInv, TypeOK, Live, Tracks
    <2>3. tracks[i].last <= frame /\ ~(frame - tracks[i].last > StaleAfter)
      BY <2>1 DEF Stale, IInv, AgeInv
    <2> QED
      BY <2>1, <2>2, <2>3, FeederAssumption
  <1> QED
    BY <1>2, <1>3, <1>4 DEF IInv

LEMMA FlushInv == IInv /\ Flush => IInv'
  <1> SUFFICES ASSUME IInv, Flush PROVE IInv'
    OBVIOUS
  <1>1. /\ Finalize(Ids) /\ pc' = "flush"
        /\ UNCHANGED <<frame, queue, stopEvent, oldBoxes, boxes, box, accepted, gone>>
    BY DEF Flush, heap
  <1>2. TypeOK'
    BY <1>1, FinalizeStep DEF IInv, TypeOK
  <1>3. TracksInv' /\ QueuesInv'
    BY <1>1, FinalizeStep, QueuesKept DEF TracksInv
  <1>4. AgeInv'
    BY <1>1, FinalizeStep DEF AgeInv, Live
  <1> QED
    BY <1>2, <1>3, <1>4 DEF IInv

\* Only pc changes: the feeder had already flushed, so no track is live.
LEMMA ReleaseInv == IInv /\ Release => IInv'
  <1> SUFFICES ASSUME IInv, Release PROVE IInv'
    OBVIOUS
  <1>1. /\ pc = "flush" /\ pc' = "done"
        /\ UNCHANGED <<frame, tracks, pending, queue, stopEvent, oldBoxes, boxes, box,
                       accepted, gone>>
    BY DEF Release, heap
  <1> QED
    BY <1>1 DEF IInv, TypeOK, TracksInv, QueuesInv, AgeInv, Live

LEMMA PutInv == ASSUME IInv, NEW id \in Ids, Put(id) PROVE IInv'
  <1> DEFINE q == Route(pending[id])
  <1>1. /\ id \in Live(pending) /\ Len(queue[q]) < QueueMax
        /\ queue' = [queue EXCEPT ![q] = Append(@, pending[id])]
        /\ pending' = [pending EXCEPT ![id] = NoTrack]
        /\ UNCHANGED <<pc, frame, tracks, stopEvent, oldBoxes, boxes, box, accepted, gone>>
    BY DEF Put, heap
  <1>2. /\ pending \in [Ids -> Tracks] /\ queue \in [Queues -> Seq(Tracks)]
        /\ pending[id] \in Tracks /\ q \in Queues
    BY DEF IInv, TypeOK, Route, Queues
  <1> HIDE DEF q
  <1>3. /\ \A p \in Queues \ {q} : queue'[p] = queue[p]
        /\ queue'[q] = Append(queue[q], pending[id])
        /\ Len(queue'[q]) = Len(queue[q]) + 1
        /\ queue' \in [Queues -> Seq(Tracks)]
    BY <1>1, <1>2
  <1>4. pending' \in [Ids -> Tracks]
    BY <1>1, <1>2, NoTrackIsTrack
  <1>5. TypeOK'
    <2>1. \A p \in Queues : Len(queue'[p]) <= QueueMax
      BY <1>1, <1>2, <1>3, FeederAssumption DEF IInv, TypeOK
    <2> QED
      BY <1>1, <1>3, <1>4, <2>1 DEF IInv, TypeOK
  <1>6. TracksInv'
    BY <1>1, <1>2, NoTrackIsTrack DEF IInv, TracksInv
  <1>7. QueuesInv'
    <2>1. TrackInv(pending[id], accepted)
      BY DEF IInv, TracksInv
    <2>2. RoutedTo(q, pending[id])
      BY <1>2, FeederAssumption DEF q, Route, RoutedTo, Tracks
    <2>3. \A k \in 1..Len(queue'[q]) :
             queue'[q][k] = IF k <= Len(queue[q]) THEN queue[q][k] ELSE pending[id]
      BY <1>2, <1>3
    <2>4. \A k \in 1..Len(queue'[q]) :
             TrackInv(queue'[q][k], accepted) /\ RoutedTo(q, queue'[q][k])
      BY <1>2, <1>3, <2>1, <2>2, <2>3 DEF IInv, QueuesInv
    <2> QED
      BY <1>1, <1>3, <2>4 DEF IInv, QueuesInv
  <1>8. AgeInv'
    BY <1>1 DEF IInv, AgeInv, Live
  <1> QED
    BY <1>5, <1>6, <1>7, <1>8 DEF IInv

LEMMA PutTimesOutInv == ASSUME IInv, NEW id \in Ids, PutTimesOut(id) PROVE IInv'
  <1>1. /\ pending' = [pending EXCEPT ![id] = NoTrack]
        /\ gone' = gone \cup pending[id].dets
        /\ UNCHANGED <<pc, frame, tracks, queue, stopEvent, oldBoxes, boxes, box, accepted>>
    BY DEF PutTimesOut, heap
  <1>2. pending \in [Ids -> Tracks] /\ TrackInv(pending[id], accepted)
    BY DEF IInv, TypeOK, TracksInv
  <1>3. pending' \in [Ids -> Tracks] /\ gone' \subseteq 1..accepted
    BY <1>1, <1>2, NoTrackIsTrack DEF IInv, TypeOK, TrackInv
  <1>4. TypeOK'
    BY <1>1, <1>3 DEF IInv, TypeOK
  <1>5. TracksInv' /\ QueuesInv' /\ AgeInv'
    BY <1>1, <1>2, NoTrackIsTrack, QueuesKept DEF IInv, TracksInv, AgeInv, Live
  <1> QED
    BY <1>4, <1>5 DEF IInv

LEMMA RequestStopInv == IInv /\ RequestStop => IInv'
  <1> SUFFICES ASSUME IInv, RequestStop PROVE IInv'
    OBVIOUS
  <1>1. /\ stopEvent' = TRUE
        /\ UNCHANGED <<pc, frame, tracks, pending, queue, oldBoxes, boxes, box, accepted, gone>>
    BY DEF RequestStop, heap
  <1> QED
    BY <1>1 DEF IInv, TypeOK, TracksInv, QueuesInv, AgeInv, Live

LEMMA TerminateInv == IInv /\ Terminate => IInv'
  <1> SUFFICES ASSUME IInv, Terminate PROVE IInv'
    OBVIOUS
  <1>1. /\ pc' = "killed"
        /\ tracks' = [i \in Ids |-> NoTrack] /\ pending' = [i \in Ids |-> NoTrack]
        /\ gone' = gone \cup Detections(tracks) \cup Detections(pending)
        /\ UNCHANGED <<frame, queue, stopEvent, oldBoxes, boxes, box, accepted>>
    BY DEF Terminate, heap
  <1>2. gone' \subseteq 1..accepted
    BY <1>1 DEF IInv, TypeOK, TracksInv, TrackInv, Detections
  <1>3. TypeOK'
    BY <1>1, <1>2, NoTrackIsTrack DEF IInv, TypeOK
  <1>4. TracksInv' /\ QueuesInv'
    BY <1>1, NoTrackIsTrack, QueuesKept DEF IInv, TracksInv
  <1>5. AgeInv'
    BY <1>1 DEF AgeInv, Live, NoTrack
  <1> QED
    BY <1>3, <1>4, <1>5 DEF IInv

LEMMA TakeInv == ASSUME IInv, NEW q \in Queues, Take(q) PROVE IInv'
  <1>1. /\ queue[q] # <<>>
        /\ queue' = [queue EXCEPT ![q] = Tail(@)]
        /\ gone' = gone \cup Head(queue[q]).dets
        /\ UNCHANGED <<pc, frame, tracks, pending, stopEvent, oldBoxes, boxes, box, accepted>>
    BY DEF Take, heap
  <1>2. queue \in [Queues -> Seq(Tracks)] /\ queue[q] \in Seq(Tracks) /\ Len(queue[q]) > 0
    BY <1>1 DEF IInv, TypeOK
  <1>3. /\ \A p \in Queues \ {q} : queue'[p] = queue[p]
        /\ queue'[q] = Tail(queue[q])
        /\ Len(queue'[q]) = Len(queue[q]) - 1
        /\ \A k \in 1..Len(queue'[q]) : queue'[q][k] = queue[q][k + 1]
        /\ queue' \in [Queues -> Seq(Tracks)]
    BY <1>1, <1>2
  <1>4. gone' \subseteq 1..accepted
    <2>1. TrackInv(queue[q][1], accepted)
      BY <1>2 DEF IInv, QueuesInv
    <2>2. Head(queue[q]) = queue[q][1] /\ gone \subseteq 1..accepted
      BY <1>2 DEF IInv, TypeOK
    <2> QED
      BY <1>1, <2>1, <2>2 DEF TrackInv
  <1>5. TypeOK'
    <2>1. \A p \in Queues : Len(queue'[p]) <= QueueMax
      BY <1>2, <1>3, FeederAssumption DEF IInv, TypeOK
    <2> QED
      BY <1>1, <1>3, <1>4, <2>1 DEF IInv, TypeOK
  <1>6. TracksInv' /\ AgeInv'
    BY <1>1 DEF IInv, TracksInv, AgeInv, Live
  <1>7. QueuesInv'
    BY <1>1, <1>2, <1>3 DEF IInv, QueuesInv
  <1> QED
    BY <1>5, <1>6, <1>7 DEF IInv

-------------------------------------------------------------------------------
(* The theorems *)

LEMMA NextInv == IInv /\ [Next]_vars => IInv'
  <1> SUFFICES ASSUME IInv, [Next]_vars PROVE IInv'
    OBVIOUS
  <1>1. CASE SkipFrame
    BY <1>1, SkipFrameInv
  <1>2. CASE ReadFrame
    BY <1>2, ReadFrameInv
  <1>3. CASE \E veh \in Vehicles, addr \in Addresses, score \in Scores :
                Detect(veh, addr, score)
    BY <1>3, DetectInv
  <1>4. CASE EndFrame
    BY <1>4, EndFrameInv
  <1>5. CASE Flush
    BY <1>5, FlushInv
  <1>6. CASE Release
    BY <1>6, ReleaseInv
  <1>7. CASE \E id \in Ids : Put(id) \/ PutTimesOut(id)
    BY <1>7, PutInv, PutTimesOutInv
  <1>8. CASE RequestStop
    BY <1>8, RequestStopInv
  <1>9. CASE Terminate
    BY <1>9, TerminateInv
  <1>10. CASE \E q \in Queues : Take(q)
    BY <1>10, TakeInv
  <1>11. CASE UNCHANGED vars
    BY <1>11 DEF vars, heap, IInv, TypeOK, TracksInv, QueuesInv, AgeInv, Live
  <1> QED
    BY <1>1, <1>2, <1>3, <1>4, <1>5, <1>6, <1>7, <1>8, <1>9, <1>10, <1>11 DEF Next, Feeder

\* The inductive invariant holds in every reachable state.
THEOREM Invariance == Spec => []IInv
  <1> QED
    BY InitInv, NextInv, PTL DEF Spec

\* Every variable keeps its type and no OCR queue exceeds its maxsize.
THEOREM TypeCorrect == Spec => []TypeOK
  <1>1. IInv => TypeOK
    BY DEF IInv
  <1> QED
    BY <1>1, Invariance, PTL

\* What the triage says of a track's crops.
LEMMA RoutedCrops ==
    ASSUME NEW t \in Tracks, NEW n, TrackInv(t, n)
    PROVE  /\ RoutedTo("fast", t) => t.crops > 0
           /\ RoutedTo("heavy", t) /\ t.crops > 0 => t.best = Threshold
  <1>1. t.best \in Nat /\ Threshold \in Nat
    BY FeederAssumption DEF Tracks
  <1>2. t.crops > 0 <=> t.best >= Threshold
    BY DEF TrackInv
  <1>3. RoutedTo("fast", t) => t.best > Threshold
    BY DEF RoutedTo
  <1>4. RoutedTo("heavy", t) => t.best <= Threshold
    BY DEF RoutedTo
  <1> QED
    BY <1>1, <1>2, <1>3, <1>4

\* For every threshold and any sharpness: the fast workers always get a crop to read.
THEOREM FastTracksRead == Spec => []FastTracksCarryCrops
  <1>1. IInv => FastTracksCarryCrops
    <2> SUFFICES ASSUME IInv, NEW k \in 1..Len(queue["fast"]) PROVE queue["fast"][k].crops > 0
      BY DEF FastTracksCarryCrops, Queued
    <2>1. TrackInv(queue["fast"][k], accepted) /\ RoutedTo("fast", queue["fast"][k])
      BY DEF IInv, QueuesInv, Queues
    <2>2. queue["fast"][k] \in Tracks
      BY DEF IInv, TypeOK, Queues
    <2> QED
      BY <2>1, <2>2, RoutedCrops
  <1> QED
    BY <1>1, Invariance, PTL

\* How far BlurryTracksAreRead is from true: is_sharp uses >= and the triage uses >, so the
\* only tracks of the heavy queue with a crop are those whose best crop scores exactly the
\* threshold.
CropsOnlyAtThreshold == \A t \in Queued("heavy") : t.crops > 0 => t.best = Threshold

\* For every threshold and any sharpness, no other blurry plate is ever read.
THEOREM BlurryTracksUnread == Spec => []CropsOnlyAtThreshold
  <1>1. IInv => CropsOnlyAtThreshold
    <2> SUFFICES ASSUME IInv, NEW k \in 1..Len(queue["heavy"]), queue["heavy"][k].crops > 0
                 PROVE  queue["heavy"][k].best = Threshold
      BY DEF CropsOnlyAtThreshold, Queued
    <2>1. TrackInv(queue["heavy"][k], accepted) /\ RoutedTo("heavy", queue["heavy"][k])
      BY DEF IInv, QueuesInv, Queues
    <2>2. queue["heavy"][k] \in Tracks
      BY DEF IInv, TypeOK, Queues
    <2> QED
      BY <2>1, <2>2, RoutedCrops
  <1> QED
    BY <1>1, Invariance, PTL

\* At the top of the loop TrackManager holds no overdue track.
THEOREM NeverOverdue == Spec => []NoOverdueTrack
  <1>1. IInv => NoOverdueTrack
    BY DEF IInv, AgeInv, NoOverdueTrack
  <1> QED
    BY <1>1, Invariance, PTL

\* No track ever bridges a gap of more than StaleAfter + 1 frames.
THEOREM GapBounded == Spec => NoLongGap
  <1> DEFINE Gap ==
        \A i \in Live(tracks) :
           tracks[i].total < tracks'[i].total
              => tracks'[i].last - tracks[i].last <= StaleAfter + 1
  <1>1. IInv /\ [Next]_vars => [Gap]_vars
    <2> SUFFICES ASSUME IInv, Next, NEW i \in Live(tracks),
                        tracks[i].total < tracks'[i].total
                 PROVE  tracks'[i].last - tracks[i].last <= StaleAfter + 1
      OBVIOUS
    <2>1. i \in Ids /\ tracks \in [Ids -> Tracks] /\ tracks[i] \in Tracks
      BY DEF Live, IInv, TypeOK
    <2>2. tracks[i].total \in Nat
      BY <2>1 DEF Tracks
    <2>3. CASE \E veh \in Vehicles, addr \in Addresses, score \in Scores :
                  Detect(veh, addr, score)
      <3>1. PICK veh \in Vehicles, addr \in Addresses, score \in Scores :
                   Detect(veh, addr, score)
        BY <2>3
      <3>2. PICK id \in Ids : tracks' = [tracks EXCEPT ![id] = Updated(@, veh, score)]
        BY <3>1 DEF Detect, TrackIds, Ids
      <3>3. i = id
        BY <2>1, <2>2, <3>2
      <3>4. tracks'[i].last = frame
        BY <2>1, <3>2, <3>3 DEF Updated
      <3> QED
        BY <3>1, <3>4 DEF IInv, AgeInv, Detect
    <2>4. CASE \E S : Finalize(S)
      <3>1. PICK S : Finalize(S)
        BY <2>4
      <3>2. tracks'[i] = tracks[i] \/ tracks'[i] = NoTrack
        BY <2>1, <3>1 DEF Finalize, Keep
      <3> QED
        BY <2>2, <3>2 DEF NoTrack
    <2>5. CASE Terminate
      BY <2>1, <2>2, <2>5 DEF Terminate, NoTrack
    <2>6. CASE UNCHANGED tracks
      BY <2>2, <2>6
    <2>7. SkipFrame \/ EndFrame \/ Flush => \E S : Finalize(S)
      BY DEF SkipFrame, EndFrame, Flush
    <2>8. /\ ReadFrame \/ Release \/ RequestStop => UNCHANGED tracks
          /\ \A id \in Ids : Put(id) \/ PutTimesOut(id) => UNCHANGED tracks
          /\ \A q \in Queues : Take(q) => UNCHANGED tracks
      BY DEF ReadFrame, Release, RequestStop, Put, PutTimesOut, Take
    <2> QED
      BY <2>3, <2>4, <2>5, <2>6, <2>7, <2>8 DEF Next, Feeder
  <1> QED
    BY <1>1, Invariance, PTL DEF Spec, NoLongGap

-------------------------------------------------------------------------------
(* Every detection is in one place *)

\* Where detection d is.
InLive(d, i) == d \in tracks[i].dets
InPending(d, i) == d \in pending[i].dets
InQueue(d, q, k) == k \in 1..Len(queue[q]) /\ d \in queue[q][k].dets
InGone(d) == d \in gone

Somewhere(d) ==
    \/ \E i \in Ids : InLive(d, i) \/ InPending(d, i)
    \/ \E q \in Queues, k \in Nat : InQueue(d, q, k)
    \/ InGone(d)

Once(d) ==
    /\ \A i, j \in Ids : InLive(d, i) /\ InLive(d, j) => i = j
    /\ \A i, j \in Ids : InPending(d, i) /\ InPending(d, j) => i = j
    /\ \A q, p \in Queues, k, l \in Nat : InQueue(d, q, k) /\ InQueue(d, p, l) => q = p /\ k = l
    /\ \A i, j \in Ids : InLive(d, i) => ~InPending(d, j)
    /\ \A i \in Ids, q \in Queues, k \in Nat :
          InQueue(d, q, k) => ~InLive(d, i) /\ ~InPending(d, i)
    /\ \A q \in Queues, k \in Nat : InQueue(d, q, k) => ~InGone(d)
    /\ \A i \in Ids : InGone(d) => ~InLive(d, i) /\ ~InPending(d, i)

\* Nothing is left to push when a new list is finalized.
PushedInv == pc = "boxes" => \A i \in Ids : pending[i] = NoTrack

PlaceInv == PushedInv /\ \A d \in 1..accepted : Somewhere(d) /\ Once(d)

\* What a step does to detection d, in terms of where it was.
LEMMA FinalizePlaces ==
    ASSUME IInv, PlaceInv, NEW S, Finalize(S), UNCHANGED <<queue, accepted, gone>>,
           \A i \in Ids : pending[i] = NoTrack, pc' # "boxes"
    PROVE  PlaceInv'
  <1>1. /\ \A i \in Ids : tracks'[i] = IF i \in Ids \ S THEN tracks[i] ELSE NoTrack
        /\ \A i \in Ids : pending'[i] = IF i \in S THEN tracks[i] ELSE NoTrack
    BY KeepTyped DEF Finalize, IInv, TypeOK
  <1>2. PushedInv'
    BY DEF PushedInv
  <1>3. ASSUME NEW d \in 1..accepted
        PROVE  Somewhere(d)' /\ Once(d)'
    <2>1. \A i \in Ids : InLive(d, i)' <=> InLive(d, i) /\ i \notin S
      BY <1>1 DEF InLive, NoTrack
    <2>2. \A i \in Ids : InPending(d, i)' <=> InLive(d, i) /\ i \in S
      BY <1>1 DEF InPending, InLive, NoTrack
    <2>3. \A i \in Ids : ~InPending(d, i)
      BY DEF InPending, NoTrack
    <2>4. (InGone(d)' <=> InGone(d)) /\ \A q \in Queues, k \in Nat : InQueue(d, q, k)' <=> InQueue(d, q, k)
      BY DEF InGone, InQueue
    <2>5. Somewhere(d) /\ Once(d)
      BY DEF PlaceInv
    <2>6. Somewhere(d)'
      BY <2>1, <2>2, <2>3, <2>4, <2>5 DEF Somewhere
    <2>7. Once(d)'
      BY <2>1, <2>2, <2>3, <2>4, <2>5 DEF Once
    <2> QED
      BY <2>6, <2>7
  <1> QED
    BY <1>2, <1>3 DEF PlaceInv

\* A new detection joins one live track and is nowhere else.
LEMMA DetectPlaces ==
    ASSUME IInv, PlaceInv, NEW veh \in Vehicles, NEW addr \in Addresses, NEW score \in Scores,
           Detect(veh, addr, score)
    PROVE  PlaceInv'
  <1>1. PICK id \in Ids : tracks' = [tracks EXCEPT ![id] = Updated(@, veh, score)]
    BY DEF Detect, TrackIds, Ids
  <1>2. UNCHANGED <<pc, pending, queue, gone>> /\ accepted' = accepted + 1 /\ accepted \in Nat
    BY DEF Detect, IInv, TypeOK
  <1>3. PushedInv'
    BY <1>2 DEF PushedInv, PlaceInv
  <1>4. /\ tracks'[id].dets = tracks[id].dets \cup {accepted + 1}
        /\ \A i \in Ids \ {id} : tracks'[i] = tracks[i]
    BY <1>1 DEF Updated, IInv, TypeOK
  <1>5. PICK new : new = accepted + 1
    OBVIOUS
  <1>6. ASSUME NEW d \in 1..accepted'
        PROVE  Somewhere(d)' /\ Once(d)'
    <2>1. \A i \in Ids : InLive(d, i)' <=> InLive(d, i) \/ (i = id /\ d = new)
      BY <1>4, <1>5 DEF InLive
    <2>2. /\ \A i \in Ids : InPending(d, i)' <=> InPending(d, i)
          /\ InGone(d)' <=> InGone(d)
          /\ \A q \in Queues, k \in Nat : InQueue(d, q, k)' <=> InQueue(d, q, k)
      BY <1>2 DEF InPending, InGone, InQueue
    <2>3. CASE d = new
      <3>1. d \notin 1..accepted
        BY <1>2, <1>5, <2>3
      <3>2. /\ \A i \in Ids : ~InLive(d, i) /\ ~InPending(d, i)
            /\ \A q \in Queues, k \in Nat : ~InQueue(d, q, k)
            /\ ~InGone(d)
        BY <3>1 DEF IInv, TypeOK, TracksInv, QueuesInv, TrackInv, InLive, InPending, InQueue, InGone
      <3> QED
        BY <2>1, <2>2, <2>3, <3>2 DEF Somewhere, Once
    <2>4. CASE d # new
      <3>1. d \in 1..accepted
        BY <1>2, <1>5, <2>4
      <3>2. Somewhere(d) /\ Once(d)
        BY <3>1 DEF PlaceInv
      <3>3. Somewhere(d)'
        BY <2>1, <2>2, <3>2 DEF Somewhere
      <3>4. Once(d)'
        BY <2>1, <2>2, <2>4, <3>2 DEF Once
      <3> QED
        BY <3>3, <3>4
    <2> QED
      BY <2>3, <2>4
  <1> QED
    BY <1>3, <1>6 DEF PlaceInv

LEMMA PutPlaces ==
    ASSUME IInv, PlaceInv, NEW id \in Ids, Put(id)
    PROVE  PlaceInv'
  <1>1. PICK q \in Queues : q = Route(pending[id])
    BY DEF Route, Queues
  <1>2. /\ queue' = [queue EXCEPT ![q] = Append(@, pending[id])]
        /\ pending' = [pending EXCEPT ![id] = NoTrack]
        /\ UNCHANGED <<pc, tracks, accepted, gone>> /\ pc # "boxes"
    BY <1>1 DEF Put, Pushing
  <1>3. /\ pending \in [Ids -> Tracks] /\ queue \in [Queues -> Seq(Tracks)]
        /\ queue[q] \in Seq(Tracks) /\ pending[id] \in Tracks
    BY DEF IInv, TypeOK
  <1>4. PICK n \in Nat : n = Len(queue[q])
    BY <1>3
  <1>5. /\ \A p \in Queues \ {q} : queue'[p] = queue[p]
        /\ Len(queue'[q]) = n + 1
        /\ queue'[q][n + 1] = pending[id]
        /\ \A k \in 1..n : queue'[q][k] = queue[q][k]
    BY <1>2, <1>3, <1>4
  <1>6. PushedInv'
    BY <1>2 DEF PushedInv
  <1>7. ASSUME NEW d \in 1..accepted
        PROVE  Somewhere(d)' /\ Once(d)'
    <2>1. \A i \in Ids : /\ InLive(d, i)' <=> InLive(d, i)
                         /\ InPending(d, i)' <=> InPending(d, i) /\ i # id
      BY <1>2, <1>3 DEF InLive, InPending, NoTrack
    <2>2. \A k \in Nat : InQueue(d, q, k)' <=> InQueue(d, q, k) \/ (k = n + 1 /\ InPending(d, id))
      BY <1>4, <1>5 DEF InQueue, InPending
    <2>3. \A p \in Queues, k \in Nat :
             InQueue(d, p, k)' <=> InQueue(d, p, k) \/ (p = q /\ k = n + 1 /\ InPending(d, id))
      <3>1. \A p \in Queues \ {q}, k \in Nat : InQueue(d, p, k)' <=> InQueue(d, p, k)
        BY <1>5 DEF InQueue
      <3> QED
        BY <2>2, <3>1
    <2>4. (InGone(d)' <=> InGone(d)) /\ n + 1 \in Nat
      BY <1>2 DEF InGone
    <2>5. Somewhere(d) /\ Once(d)
      BY DEF PlaceInv
    <2>6. Somewhere(d)'
      BY <2>1, <2>3, <2>4, <2>5 DEF Somewhere
    <2>7. Once(d)'
      BY <2>1, <2>3, <2>4, <2>5 DEF Once
    <2> QED
      BY <2>6, <2>7
  <1> QED
    BY <1>2, <1>6, <1>7 DEF PlaceInv

LEMMA PutTimesOutPlaces ==
    ASSUME IInv, PlaceInv, NEW id \in Ids, PutTimesOut(id)
    PROVE  PlaceInv'
  <1>1. /\ pending' = [pending EXCEPT ![id] = NoTrack]
        /\ gone' = gone \cup pending[id].dets
        /\ UNCHANGED <<pc, tracks, queue, accepted>> /\ pc # "boxes"
    BY DEF PutTimesOut, Pushing
  <1>2. PushedInv' /\ pending \in [Ids -> Tracks]
    BY <1>1 DEF PushedInv, IInv, TypeOK
  <1>3. ASSUME NEW d \in 1..accepted
        PROVE  Somewhere(d)' /\ Once(d)'
    <2>1. \A i \in Ids : /\ InLive(d, i)' <=> InLive(d, i)
                         /\ InPending(d, i)' <=> InPending(d, i) /\ i # id
      BY <1>1, <1>2 DEF InLive, InPending, NoTrack
    <2>2. InGone(d)' <=> InGone(d) \/ InPending(d, id)
      BY <1>1 DEF InGone, InPending
    <2>3. \A q \in Queues, k \in Nat : InQueue(d, q, k)' <=> InQueue(d, q, k)
      BY <1>1 DEF InQueue
    <2>4. Somewhere(d) /\ Once(d)
      BY DEF PlaceInv
    <2>5. Somewhere(d)'
      BY <2>1, <2>2, <2>3, <2>4 DEF Somewhere
    <2>6. Once(d)'
      BY <2>1, <2>2, <2>3, <2>4 DEF Once
    <2> QED
      BY <2>5, <2>6
  <1> QED
    BY <1>1, <1>2, <1>3 DEF PlaceInv

LEMMA TerminatePlaces ==
    ASSUME IInv, PlaceInv, Terminate
    PROVE  PlaceInv'
  <1>1. /\ pc' = "killed" /\ UNCHANGED <<queue, accepted>>
        /\ tracks' = [i \in Ids |-> NoTrack] /\ pending' = [i \in Ids |-> NoTrack]
        /\ gone' = gone \cup Detections(tracks) \cup Detections(pending)
    BY DEF Terminate
  <1>2. ASSUME NEW d \in 1..accepted
        PROVE  Somewhere(d)' /\ Once(d)'
    <2>1. \A i \in Ids : ~InLive(d, i)' /\ ~InPending(d, i)'
      BY <1>1 DEF InLive, InPending, NoTrack
    <2>2. InGone(d)' <=> InGone(d) \/ \E i \in Ids : InLive(d, i) \/ InPending(d, i)
      BY <1>1 DEF InGone, InLive, InPending, Detections
    <2>3. \A q \in Queues, k \in Nat : InQueue(d, q, k)' <=> InQueue(d, q, k)
      BY <1>1 DEF InQueue
    <2>4. Somewhere(d) /\ Once(d)
      BY DEF PlaceInv
    <2>5. Somewhere(d)'
      BY <2>1, <2>2, <2>3, <2>4 DEF Somewhere
    <2>6. Once(d)'
      BY <2>1, <2>2, <2>3, <2>4 DEF Once
    <2> QED
      BY <2>5, <2>6
  <1> QED
    BY <1>1, <1>2 DEF PlaceInv, PushedInv

LEMMA TakePlaces ==
    ASSUME IInv, PlaceInv, NEW q \in Queues, Take(q)
    PROVE  PlaceInv'
  <1>1. /\ queue[q] # <<>>
        /\ queue' = [queue EXCEPT ![q] = Tail(@)]
        /\ gone' = gone \cup Head(queue[q]).dets
        /\ UNCHANGED <<pc, tracks, pending, accepted>>
    BY DEF Take
  <1>2. queue \in [Queues -> Seq(Tracks)] /\ queue[q] \in Seq(Tracks) /\ Len(queue[q]) > 0
    BY <1>1 DEF IInv, TypeOK
  <1>3. PICK n \in Nat : n = Len(queue'[q])
    <2>1. queue'[q] = Tail(queue[q])
      BY <1>1, <1>2
    <2>2. Len(Tail(queue[q])) \in Nat
      BY <1>2
    <2> QED
      BY <2>1, <2>2
  <1>4. /\ \A p \in Queues \ {q} : queue'[p] = queue[p]
        /\ Len(queue[q]) = n + 1
        /\ Head(queue[q]) = queue[q][1]
        /\ \A k \in 1..n : queue'[q][k] = queue[q][k + 1]
    BY <1>1, <1>2, <1>3
  <1>5. ASSUME NEW d \in 1..accepted
        PROVE  Somewhere(d)' /\ Once(d)'
    <2>1. \A i \in Ids : /\ InLive(d, i)' <=> InLive(d, i)
                         /\ InPending(d, i)' <=> InPending(d, i)
      BY <1>1 DEF InLive, InPending
    <2>2. InGone(d)' <=> InGone(d) \/ InQueue(d, q, 1)
      BY <1>1, <1>4 DEF InGone, InQueue
    <2>3. /\ \A p \in Queues \ {q}, k \in Nat : InQueue(d, p, k)' <=> InQueue(d, p, k)
          /\ \A k \in Nat \ {0} : InQueue(d, q, k)' <=> InQueue(d, q, k + 1)
          /\ ~InQueue(d, q, 0)' /\ ~InQueue(d, q, 0)
      BY <1>3, <1>4 DEF InQueue
    <2>4. Somewhere(d) /\ Once(d)
      BY DEF PlaceInv
    <2>5. \A k \in Nat \ {0, 1} : \E l \in Nat \ {0} : k = l + 1
      <3> SUFFICES ASSUME NEW k \in Nat \ {0, 1}
                   PROVE  k - 1 \in Nat \ {0} /\ k = (k - 1) + 1
        OBVIOUS
      <3> QED
        OBVIOUS
    <2>6. Somewhere(d)'
      BY <2>1, <2>2, <2>3, <2>4, <2>5 DEF Somewhere
    <2>7. \A p \in Queues, k \in Nat :
             InQueue(d, p, k)' => \E l \in Nat \ {0} :
                InQueue(d, p, l) /\ (p # q => l = k) /\ (p = q => l = k + 1 /\ l # 1)
      <3> SUFFICES ASSUME NEW p \in Queues, NEW k \in Nat, InQueue(d, p, k)'
                   PROVE  \E l \in Nat \ {0} :
                             InQueue(d, p, l) /\ (p # q => l = k) /\ (p = q => l = k + 1 /\ l # 1)
        OBVIOUS
      <3>1. k # 0
        BY DEF InQueue
      <3>2. k \in Nat \ {0} /\ k + 1 \in Nat \ {0}
        BY <3>1
      <3>3. CASE p = q
        <4>1. InQueue(d, p, k + 1)
          BY <2>3, <3>2, <3>3
        <4> QED
          BY <3>2, <3>3, <4>1
      <3>4. CASE p # q
        <4>1. InQueue(d, p, k)
          BY <2>3, <3>4
        <4> QED
          BY <3>2, <3>4, <4>1
      <3> QED
        BY <3>3, <3>4
    <2>8. \A p, r \in Queues, k, l \in Nat :
             InQueue(d, p, k)' /\ InQueue(d, r, l)' => p = r /\ k = l
      BY <2>4, <2>7 DEF Once
    <2>9. \A p \in Queues, k \in Nat :
             InQueue(d, p, k)' => ~InGone(d)' /\ \A i \in Ids : ~InLive(d, i)' /\ ~InPending(d, i)'
      BY <2>1, <2>2, <2>4, <2>7 DEF Once
    <2>10. Once(d)'
      BY <2>1, <2>2, <2>4, <2>8, <2>9 DEF Once
    <2> QED
      BY <2>6, <2>10
  <1> QED
    BY <1>1, <1>5 DEF PlaceInv, PushedInv

\* The steps that move no detection.
LEMMA SamePlaces ==
    ASSUME PlaceInv, UNCHANGED <<tracks, pending, queue, accepted, gone>>, PushedInv'
    PROVE  PlaceInv'
  BY DEF PlaceInv, Somewhere, Once, InLive, InPending, InQueue, InGone

LEMMA NextPlaces == IInv /\ PlaceInv /\ [Next]_vars => PlaceInv'
  <1> SUFFICES ASSUME IInv, PlaceInv, [Next]_vars PROVE PlaceInv'
    OBVIOUS
  <1>1. AtTop \/ pc = "boxes" => \A i \in Ids : pending[i] = NoTrack
    <2>1. ASSUME AtTop, NEW i \in Ids
          PROVE  pending[i] = NoTrack
      <3>1. pending[i].total \in Nat /\ ~(pending[i].total > 0)
        BY <2>1 DEF AtTop, Live, IInv, TypeOK, Tracks
      <3> QED
        BY <3>1 DEF IInv, TracksInv, TrackInv
    <2> QED
      BY <2>1 DEF PlaceInv, PushedInv
  <1>2. CASE SkipFrame
    BY <1>1, <1>2, FinalizePlaces DEF SkipFrame, AtTop
  <1>3. CASE ReadFrame
    <2>1. PushedInv'
      BY <1>1, <1>3 DEF ReadFrame, PushedInv
    <2> QED
      BY <1>3, <2>1, SamePlaces DEF ReadFrame
  <1>4. CASE EndFrame
    BY <1>1, <1>4, FinalizePlaces DEF EndFrame
  <1>5. CASE Flush
    BY <1>1, <1>5, FinalizePlaces DEF Flush
  <1>6. CASE Release
    BY <1>6, SamePlaces DEF Release, PushedInv
  <1>7. CASE RequestStop \/ UNCHANGED vars
    <2>1. UNCHANGED <<pc, tracks, pending, queue, accepted, gone>>
      BY <1>7 DEF RequestStop, vars
    <2>2. PushedInv'
      BY <2>1 DEF PlaceInv, PushedInv
    <2> QED
      BY <2>1, <2>2, SamePlaces
  <1> QED
    BY <1>2, <1>3, <1>4, <1>5, <1>6, <1>7, DetectPlaces, PutPlaces, PutTimesOutPlaces,
       TerminatePlaces, TakePlaces DEF Next, Feeder

\* The explicit form says what EveryDetectionInOnePlace says of Places.
LEMMA PlacesMeant == IInv /\ PlaceInv => EveryDetectionInOnePlace
  <1> SUFFICES ASSUME IInv, PlaceInv, NEW d \in 1..accepted
               PROVE  \E here \in Places : /\ d \in At(here)
                                           /\ \A there \in Places \ {here} : d \notin At(there)
    BY DEF EveryDetectionInOnePlace
  <1>1. Somewhere(d) /\ Once(d)
    BY DEF PlaceInv
  <1>2. \A i \in Ids : /\ <<"live", i>> \in Places /\ At(<<"live", i>>) = tracks[i].dets
                       /\ <<"pending", i>> \in Places /\ At(<<"pending", i>>) = pending[i].dets
    BY DEF Places, At
  <1>3. <<"gone", 0>> \in Places /\ At(<<"gone", 0>>) = gone
    BY DEF Places, At
  <1>4. \A q \in Queues : queue[q] \in Seq(Tracks) /\ Len(queue[q]) \in Nat /\ Len(queue[q]) <= QueueMax
    BY DEF IInv, TypeOK
  <1>5. \A q \in Queues, k \in 1..QueueMax :
           d \in At(<<q, k>>) <=> InQueue(d, q, k)
    <2> SUFFICES ASSUME NEW q \in Queues, NEW k \in 1..QueueMax
                 PROVE  d \in At(<<q, k>>) <=> InQueue(d, q, k)
      OBVIOUS
    <2>1. q # "live" /\ q # "pending" /\ q # "gone"
      BY DEF Queues
    <2>2. At(<<q, k>>) = IF k <= Len(queue[q]) THEN queue[q][k].dets ELSE {}
      BY <2>1 DEF At
    <2>3. k \in 1..Len(queue[q]) <=> k <= Len(queue[q])
      BY <1>4, FeederAssumption
    <2> QED
      BY <2>2, <2>3 DEF InQueue
  <1>6. \A q \in Queues, k \in Nat : InQueue(d, q, k) => k \in 1..QueueMax /\ <<q, k>> \in Places
    <2> SUFFICES ASSUME NEW q \in Queues, NEW k \in Nat, InQueue(d, q, k)
                 PROVE  k \in 1..QueueMax /\ <<q, k>> \in Places
      OBVIOUS
    <2>1. k \in 1..QueueMax
      BY <1>4, FeederAssumption DEF InQueue
    <2> QED
      BY <2>1 DEF Places
  <1>7. ASSUME NEW there \in Places, d \in At(there)
        PROVE  \/ \E i \in Ids : there = <<"live", i>> /\ InLive(d, i)
               \/ \E i \in Ids : there = <<"pending", i>> /\ InPending(d, i)
               \/ \E q \in Queues, k \in Nat : there = <<q, k>> /\ InQueue(d, q, k)
               \/ there = <<"gone", 0>> /\ InGone(d)
    <2>1. CASE there \in {<<"live", i>> : i \in Ids}
      BY <1>2, <1>7, <2>1 DEF InLive
    <2>2. CASE there \in {<<"pending", i>> : i \in Ids}
      BY <1>2, <1>7, <2>2 DEF InPending
    <2>3. CASE there \in {<<q, k>> : q \in Queues, k \in 1..QueueMax}
      <3>1. PICK q \in Queues, k \in 1..QueueMax : there = <<q, k>>
        BY <2>3
      <3>2. k \in Nat /\ InQueue(d, q, k)
        BY <1>5, <1>7, <3>1, FeederAssumption
      <3> QED
        BY <3>1, <3>2
    <2>4. CASE there = <<"gone", 0>>
      BY <1>3, <1>7, <2>4 DEF InGone
    <2> QED
      BY <2>1, <2>2, <2>3, <2>4 DEF Places
  <1>8. PICK here \in Places : d \in At(here)
    BY <1>1, <1>2, <1>3, <1>5, <1>6 DEF Somewhere, InLive, InPending, InGone
  <1>9. ASSUME NEW there \in Places, d \in At(there)
        PROVE  there = here
    <2>1. CASE \E i \in Ids : here = <<"live", i>> /\ InLive(d, i)
      BY <1>1, <1>7, <1>9, <2>1 DEF Once
    <2>2. CASE \E i \in Ids : here = <<"pending", i>> /\ InPending(d, i)
      BY <1>1, <1>7, <1>9, <2>2 DEF Once
    <2>3. CASE \E q \in Queues, k \in Nat : here = <<q, k>> /\ InQueue(d, q, k)
      BY <1>1, <1>7, <1>9, <2>3 DEF Once
    <2>4. CASE here = <<"gone", 0>> /\ InGone(d)
      BY <1>1, <1>7, <1>9, <2>4 DEF Once
    <2> QED
      BY <1>7, <1>8, <2>1, <2>2, <2>3, <2>4
  <1> QED
    BY <1>8, <1>9

\* No detection is lost or counted twice, for any number of tracks and any queue size.
THEOREM OneDetectionOnePlace == Spec => []EveryDetectionInOnePlace
  <1>1. Init => PlaceInv
    <2> SUFFICES ASSUME Init PROVE PlaceInv
      OBVIOUS
    <2> QED
      BY DEF Init, PlaceInv, PushedInv
  <1> QED
    BY <1>1, NextPlaces, PlacesMeant, Invariance, PTL DEF Spec
===============================================================================
