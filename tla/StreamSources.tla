---------------------------- MODULE StreamSources ----------------------------
(***************************************************************************)
(* The sources behind the live streams (api/routes_streams.py): the reader *)
(* thread of an MJPEG source, the ffmpeg process of an HLS source, their   *)
(* stop, which runs under the manager's lock and waits for them, the MJPEG *)
(* generators that poll a source's latest frame, and the playlist requests *)
(* that wait for ffmpeg's first playlist.                                  *)
(*                                                                         *)
(* The handlers of the manager are those of StreamManager, here behind the *)
(* lock. In StreamManager a source disappears in one step; Manager is that *)
(* view, and Implements says that this system has it.                      *)
(***************************************************************************)
EXTENDS StreamManager

CONSTANTS
    Kinds,    \* what stream_urls name: "rtsp" cameras, video "file"s, "images" directories
    Faults,   \* what the system refuses: to "start" ffmpeg, to "remove" a directory
    MaxWait   \* ticks that a playlist request waits, the 10 seconds of hls_playlist

ASSUME SourcesAssumption ==
    /\ Kinds \subseteq {"rtsp", "file", "images"}
    /\ Faults \subseteq {"start", "remove"}
    /\ MaxWait \in 1..IdleTimeout

Ids == 1..MaxRequests

VARIABLES
    source,    \* the state of each MJPEGStreamSource and HLSStreamSource
    stopping,  \* the sources that the holder of the lock has yet to stop
    gone,      \* the MJPEG responses whose client has disconnected
    waits,     \* the playlist requests that wait for their source's first playlist
    strays,    \* the cameras of which a segment directory is on the disk that no source knows
    late       \* ghost: the readers whose stop did not wait for their end

sourceVars == <<source, stopping, gone, waits, strays, late>>
allVars == <<vars, sourceVars>>

(* on is _running; at is where the reader thread is, or ffmpeg; ready says that there is  *)
(* a frame, or a playlist; held that there is an open capture, or a segment directory.    *)
Unmade == [kind |-> "none", on |-> FALSE, at |-> "ended", ready |-> FALSE, held |-> FALSE]

SourcesInit ==
    /\ Init
    /\ source = [i \in Ids |-> Unmade]
    /\ stopping = {}
    /\ gone = {}
    /\ waits = {}
    /\ strays = {}
    /\ late = {}

Free == stopping = {}

-------------------------------------------------------------------------------
(* start, and the threads and processes it starts *)

Opening(kind) == [kind |-> kind, on |-> TRUE, at |-> "opening", ready |-> FALSE, held |-> FALSE]
Encoding == [kind |-> "ffmpeg", on |-> TRUE, at |-> "encoding", ready |-> FALSE, held |-> TRUE]

\* The source that a request finds, or the new one it starts.
Started(i, new) == IF i > made THEN [source EXCEPT ![i] = new] ELSE source

\* VideoCapture opens; a directory of images has nothing to open.
OpenSource(i) ==
    /\ source[i].at = "opening"
    /\ source' = [source EXCEPT ![i].at = IF source[i].on THEN "reading" ELSE "ended",
                                ![i].held = source[i].kind # "images"]
    /\ UNCHANGED <<stopping, gone, waits, strays, late, vars>>

\* It does not: the reader ends, and the source stays registered.
OpenFails(i) ==
    /\ source[i].at = "opening"
    /\ source[i].kind # "images"
    /\ source' = [source EXCEPT ![i].at = "ended", ![i].on = FALSE]
    /\ UNCHANGED <<stopping, gone, waits, strays, late, vars>>

\* A frame, or None when it cannot be encoded, a tenth of a second of sleep, and the loop's
\* condition again.
ReadFrame(i) ==
    /\ source[i].at = "reading"
    /\ \E ok \in BOOLEAN :
           source' = [source EXCEPT ![i].ready = ok,
                                    ![i].at = IF source[i].on THEN "reading" ELSE "ended"]
    /\ UNCHANGED <<stopping, gone, waits, strays, late, vars>>

\* The file is over: the reader ends with _running set and its last frame in place. A camera
\* is tried again after two seconds.
ReadFails(i) ==
    /\ source[i].at = "reading"
    /\ source[i].kind # "images"
    /\ source' = [source EXCEPT ![i].at = IF source[i].kind = "rtsp" THEN "retrying" ELSE "ended"]
    /\ UNCHANGED <<stopping, gone, waits, strays, late, vars>>

\* One attempt, made even when the source has been stopped meanwhile.
Reconnect(i) ==
    /\ source[i].at = "retrying"
    /\ \E opened \in BOOLEAN :
           source' = [source EXCEPT ![i].held = opened,
                                    ![i].at = IF opened /\ source[i].on THEN "reading" ELSE "ended"]
    /\ UNCHANGED <<stopping, gone, waits, strays, late, vars>>

WritePlaylist(i) ==
    /\ source[i].at = "encoding"
    /\ ~source[i].ready
    /\ source' = [source EXCEPT ![i].ready = TRUE]
    /\ UNCHANGED <<stopping, gone, waits, strays, late, vars>>

\* ffmpeg ends: terminated, or by itself, which nobody notices (is_alive has no caller).
FfmpegExits(i) ==
    /\ source[i].at = "encoding"
    /\ source' = [source EXCEPT ![i].at = "ended"]
    /\ UNCHANGED <<stopping, gone, waits, strays, late, vars>>

Run(i) ==
    \/ OpenSource(i) \/ OpenFails(i) \/ ReadFrame(i) \/ ReadFails(i) \/ Reconnect(i)
    \/ WritePlaylist(i) \/ FfmpegExits(i)

-------------------------------------------------------------------------------
(* stop, under the lock *)

IdsOf(m, cams) == {streams[m][c].id : c \in cams}

\* HLS sources are stopped before MJPEG sources, each in the order of its start.
Before(i, j) ==
    \/ source[i].kind = "ffmpeg" /\ source[j].kind # "ffmpeg"
    \/ (source[i].kind = "ffmpeg") = (source[j].kind = "ffmpeg") /\ i < j

First(ids) == {i \in ids : \A j \in ids \ {i} : Before(i, j)}

\* stop begins with the flag, or with terminate.
Signalled(s, ids) == [i \in Ids |-> IF i \in First(ids) THEN [s[i] EXCEPT !.on = FALSE] ELSE s[i]]

\* Cleanup and shutdown take the lock and stop one source after the other.
StartStopping(ids) ==
    /\ Free
    /\ stopping' = ids
    /\ source' = Signalled(source, ids)
    /\ UNCHANGED <<streams, made, responses, cells, releases, requests, sinceGet, leaked>>
    /\ UNCHANGED <<gone, waits, strays, late>>

CleanupStops ==
    /\ \E m \in Modes : Abandoned(m) # {}
    /\ StartStopping(UNION {IdsOf(m, Abandoned(m)) : m \in Modes})
    /\ UNCHANGED down

ShutdownStops ==
    /\ ~down
    /\ down' = TRUE
    /\ StartStopping(UNION {IdsOf(m, Registered(m)) : m \in Modes})

\* The source leaves its dictionary. The code deletes the stopped ones when the loop over
\* their mode is over, and lets go of the lock only then: nobody can tell.
Forget(i) ==
    streams' = [m \in Modes |-> [c \in Cameras |->
                   IF streams[m][c].id = i THEN NoStream ELSE streams[m][c]]]

Stopped(i, s) ==
    /\ Forget(i)
    /\ stopping' = stopping \ {i}
    /\ source' = Signalled([source EXCEPT ![i] = s], stopping \ {i})
    /\ UNCHANGED <<made, down, responses, cells, releases, requests, sinceGet, leaked>>
    /\ UNCHANGED <<gone, waits>>

\* The capture is released, or the directory removed with its playlist. When rmtree raises,
\* before or after that, the source forgets the directory all the same.
CleansUp(i, at) ==
    LET ended == [source[i] EXCEPT !.at = at, !.held = FALSE]
    IN  IF source[i].kind # "ffmpeg" THEN Stopped(i, ended) /\ UNCHANGED strays
        ELSE \E playlist \in {source[i].ready, FALSE} :
                /\ Stopped(i, [ended EXCEPT !.ready = playlist])
                /\ \/ ~playlist /\ UNCHANGED strays
                   \/ /\ "remove" \in Faults
                      /\ strays' = strays \cup {c \in Cameras : streams["hls"][c].id = i}

\* join returns, or wait does.
StopEnds(i) ==
    /\ i \in First(stopping)
    /\ source[i].at = "ended"
    /\ CleansUp(i, "ended")
    /\ UNCHANGED late

\* Mutant: a join without timeout.
StopWaits(i) == FALSE /\ UNCHANGED allVars

\* Mutant: the wait for ffmpeg times out, and nobody kills it.
StopTimesOutOnly(i) ==
    /\ i \in First(stopping)
    /\ source[i].at # "ended"
    /\ CleansUp(i, source[i].at)
    /\ late' = IF source[i].kind = "ffmpeg" THEN late ELSE late \cup {i}

\* The reader is still at it after 3 seconds: its capture is released under it. ffmpeg is
\* killed after 5, and rmtree does not wait for it to be gone.
StopTimesOut(i) ==
    /\ i \in First(stopping)
    /\ source[i].at # "ended"
    /\ CleansUp(i, IF source[i].kind = "ffmpeg" THEN "ended" ELSE source[i].at)
    /\ late' = IF source[i].kind = "ffmpeg" THEN late ELSE late \cup {i}

-------------------------------------------------------------------------------
(* The handlers, behind the lock *)

Open(r, c) ==
    /\ Free
    /\ OpenMjpeg(r, c)
    /\ \E kind \in Kinds : source' = Started(made', Opening(kind))
    /\ UNCHANGED <<stopping, gone, waits, strays, late>>

Begin(r) == StartBody(r) /\ UNCHANGED sourceVars

Leave(r) ==
    /\ responses[r] # Closed
    /\ r \notin gone
    /\ gone' = gone \cup {r}
    /\ UNCHANGED <<source, stopping, waits, strays, late, vars>>

\* Mutant: only a frame that the response has not had yet is sent.
YieldsNewFrames(i) == source[i].ready /\ source[i].at # "ended"

\* The generator yields whatever the latest frame is, and nothing while there is none: it
\* then never returns to the server, which could close it.
Yields(i) == source[i].ready

\* The server meets the disconnect at the next frame; the finally block waits for the lock.
Close(r) ==
    /\ r \in gone
    /\ Yields(responses[r].id)
    /\ Free
    /\ CloseMjpeg(r)
    /\ gone' = gone \ {r}
    /\ UNCHANGED <<source, stopping, waits, strays, late>>

Abort(r) ==
    /\ r \in gone
    /\ AbortMjpeg(r)
    /\ gone' = gone \ {r}
    /\ UNCHANGED <<source, stopping, waits, strays, late>>

Cell(v) ==
    /\ (\E c \in Cameras : Mount(v, c)) \/ Play(v) \/ Unmount(v)
    /\ UNCHANGED sourceVars

Fetch(v) ==
    /\ Free
    /\ FetchPlaylist(v)
    /\ source' = Started(made', Encoding)
    /\ LET cam == cells[v].cam
       IN  waits' = waits \cup {[id |-> Acquired("hls", cam).id, cam |-> cam, age |-> 0]}
    /\ UNCHANGED <<stopping, gone, strays, late>>

\* start makes the directory and raises: nobody has the directory's name.
FetchRaises(v) ==
    /\ "start" \in Faults
    /\ Free
    /\ PlaylistFails(v)
    /\ strays' = strays \cup {cells[v].cam}
    /\ UNCHANGED <<source, stopping, gone, waits, late>>

\* The playlist is there.
AnswerPlaylist(w) ==
    /\ source[w.id].ready
    /\ waits' = waits \ {w}
    /\ UNCHANGED <<source, stopping, gone, strays, late, vars>>

\* 503: the viewer it counted as stays.
PlaylistLate(w) ==
    /\ w.age = MaxWait
    /\ waits' = waits \ {w}
    /\ UNCHANGED <<source, stopping, gone, strays, late, vars>>

ReleaseHls(c) ==
    /\ Free /\ HlsRelease(c)
    /\ UNCHANGED sourceVars

LoseRelease(c) == ReleaseLost(c) /\ UNCHANGED sourceVars

\* A request gives up on its hundredth look, however slow the others are.
Clock ==
    /\ \A w \in waits : w.age < MaxWait
    /\ Tick
    /\ waits' = {[w EXCEPT !.age = @ + 1] : w \in waits}
    /\ UNCHANGED <<source, stopping, gone, strays, late>>

SourcesNext ==
    \/ \E i \in Ids : Run(i) \/ StopEnds(i) \/ StopTimesOut(i)
    \/ CleanupStops \/ ShutdownStops \/ Clock
    \/ \E r \in Responses, c \in Cameras : Open(r, c)
    \/ \E r \in Responses : Begin(r) \/ Leave(r) \/ Close(r) \/ Abort(r)
    \/ \E v \in Cells : Cell(v) \/ Fetch(v) \/ FetchRaises(v)
    \/ \E c \in Cameras : ReleaseHls(c) \/ LoseRelease(c)
    \/ \E w \in waits : AnswerPlaylist(w) \/ PlaylistLate(w)

\* As for the manager; and timed waits end, the server runs a
\* generator that has something to yield. A read, an open or ffmpeg may hang for ever.
SourcesSpec ==
    /\ SourcesInit /\ [][SourcesNext]_allVars
    /\ WF_allVars(Clock) /\ WF_allVars(CleanupStops)
    /\ \A c \in Cameras : WF_allVars(ReleaseHls(c))
    /\ WF_allVars(\E i \in Ids : StopEnds(i) \/ StopTimesOut(i))
    /\ \A r \in Responses : WF_allVars(Begin(r) \/ Close(r) \/ Abort(r))
    /\ WF_allVars(\E w \in waits : PlaylistLate(w))

-------------------------------------------------------------------------------
(* Properties *)

\* A source that the lock's holder is going to stop is as good as gone.
Served == [m \in Modes |-> [c \in Cameras |->
              IF streams[m][c].id \in stopping THEN NoStream ELSE streams[m][c]]]

Manager == INSTANCE StreamManager WITH streams <- Served

\* The manager with its sources behaves as StreamManager does, whose properties it inherits:
\* no source that hangs, dies or has to be given up while the lock is held keeps the
\* cleanup, a release or the clock from going on.
Implements == Manager!Spec

ServedIds == {streams[m][c].id : m \in Modes, c \in Cameras}

\* What still runs of a source that the manager no longer has: no ffmpeg ever, and a reader
\* thread only when its join was given up, and then one that ends as soon as its read or
\* its reconnect returns. No order of starts, stops, dying cameras and reconnects makes
\* another orphan. (Directories may be left, see strays.)
NothingLeftRunning ==
    \A i \in Ids \ ServedIds :
        /\ source[i].at # "encoding"
        /\ source[i].at # "ended" => i \in late /\ ~source[i].on

\* While a playlist request waits for ffmpeg, the cleanup does not take its source: the 10
\* seconds it waits are less than STREAM_IDLE_TIMEOUT, also when every viewer was released.
WaitersKeepSource == ~down => \A w \in waits : streams["hls"][w.cam].id = w.id

\* "When the last viewer disconnects, the source is released": the response of a client that
\* has left is closed, and its viewer released, also when the source has died or the lock was
\* taken, as long as the source has a frame. (Without one its generator loops for ever.)
LeaverIsReleased ==
    \A r \in Responses : []<>(r \notin gone \/ ~source[responses[r].id].ready)

===============================================================================
