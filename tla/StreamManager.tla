---------------------------- MODULE StreamManager ----------------------------
(***************************************************************************)
(* The live video streams of the API server (api/routes_streams.py): the   *)
(* StreamManager, which keeps one source per camera and mode and counts    *)
(* its viewers, its cleanup thread, the MJPEG responses, the HLS playlist  *)
(* requests, and the video cells of the frontend that make those requests. *)
(*                                                                         *)
(* Every method of the manager runs under one lock, so it is one action.   *)
(* The clock is kept as ages: how long a stream has had no viewer.         *)
(***************************************************************************)
EXTENDS Integers, FiniteSets

CONSTANTS
    Cameras,       \* camera ids
    Responses,     \* MJPEG responses that can be open at once
    Cells,         \* HLS video cells of the frontends
    MaxStreams,    \* MAX_CONCURRENT_STREAMS
    IdleTimeout,   \* STREAM_IDLE_TIMEOUT, in ticks of the model's clock
    Lossy,         \* can a release request get lost?
    MaxRequests,   \* bound of the model: requests for a stream
    MaxInFlight    \* bound of the model: release requests under way per camera

ASSUME StreamAssumption ==
    /\ IsFiniteSet(Responses)
    /\ MaxStreams \in Nat \ {0}
    /\ IdleTimeout \in Nat \ {0}
    /\ Lossy \in BOOLEAN
    /\ MaxRequests \in Nat
    /\ MaxInFlight \in Nat

Modes == {"hls", "mjpeg"}
Never == -1
NoStream == [id |-> 0, viewers |-> 0, idle |-> Never]
Closed == [at |-> "closed", cam |-> 0, id |-> 0]
Away == [at |-> "away", cam |-> 0]

VARIABLES
    streams,    \* _hls_streams and _mjpeg_streams; idle is the age of last_viewer_left_at
    made,       \* sources created so far, each with an id
    down,       \* has shutdown() run?
    responses,  \* the open MJPEG responses: camera and source, body not started or started
    cells,      \* the HLS cells: the camera they show and whether the user started it
    releases,   \* hls/release requests under way, per camera
    requests,   \* requests for a stream so far, for the bound
    sinceGet,   \* ghost: the age of the last get_*_stream, capped
    leaked      \* ghost: MJPEG viewers that nobody will ever release, per camera

vars == <<streams, made, down, responses, cells, releases, requests, sinceGet, leaked>>

Init ==
    /\ streams = [m \in Modes |-> [c \in Cameras |-> NoStream]]
    /\ made = 0
    /\ down = FALSE
    /\ responses = [r \in Responses |-> Closed]
    /\ cells = [v \in Cells |-> Away]
    /\ releases = [c \in Cameras |-> 0]
    /\ requests = 0
    /\ sinceGet = [m \in Modes |-> [c \in Cameras |-> 0]]
    /\ leaked = [c \in Cameras |-> 0]

-------------------------------------------------------------------------------
(* StreamManager *)

Registered(m) == {c \in Cameras : streams[m][c].id # 0}

\* The cap counts the cameras of one mode; a camera that streams already is never refused.
Admits(m, c) == c \in Registered(m) \/ Cardinality(Registered(m)) < MaxStreams

\* Mutant: a viewer that comes back does not clear last_viewer_left_at.
AcquiredKeepsMark(m, c) ==
    IF c \in Registered(m)
    THEN [streams[m][c] EXCEPT !.viewers = @ + 1]
    ELSE [id |-> made + 1, viewers |-> 1, idle |-> Never]

\* The camera's stream, started if need be, with one more viewer.
Acquired(m, c) ==
    IF c \in Registered(m)
    THEN [streams[m][c] EXCEPT !.viewers = @ + 1, !.idle = Never]
    ELSE [id |-> made + 1, viewers |-> 1, idle |-> Never]

Get(m, c) ==
    /\ ~down
    /\ requests < MaxRequests
    /\ Admits(m, c)
    /\ streams' = [streams EXCEPT ![m][c] = Acquired(m, c)]
    /\ made' = IF c \in Registered(m) THEN made ELSE made + 1
    /\ requests' = requests + 1
    /\ sinceGet' = [sinceGet EXCEPT ![m][c] = 0]

\* Mutant: the count is not clamped at zero.
ReleasedUnclamped(s) ==
    IF s.viewers = 1 THEN [s EXCEPT !.viewers = 0, !.idle = 0]
                     ELSE [s EXCEPT !.viewers = @ - 1]

\* One viewer less, down to zero; each release that finds or makes it zero sets the mark.
Released(s) ==
    IF s.viewers <= 1 THEN [s EXCEPT !.viewers = 0, !.idle = 0]
                      ELSE [s EXCEPT !.viewers = @ - 1]

\* A release for a camera that does not stream is ignored.
Release(m, c) ==
    streams' = IF c \in Registered(m)
               THEN [streams EXCEPT ![m][c] = Released(@)] ELSE streams

\* Mutant: a stream without viewers is removed at the next round.
AbandonedAtOnce(m) ==
    {c \in Registered(m) : streams[m][c].viewers = 0 /\ streams[m][c].idle # Never}

Abandoned(m) ==
    {c \in Registered(m) :
        /\ streams[m][c].viewers = 0
        /\ streams[m][c].idle # Never
        /\ streams[m][c].idle > IdleTimeout}

\* One round of _cleanup_loop that finds something.
Cleanup ==
    /\ \E m \in Modes : Abandoned(m) # {}
    /\ streams' = [m \in Modes |-> [c \in Cameras |->
                      IF c \in Abandoned(m) THEN NoStream ELSE streams[m][c]]]
    /\ UNCHANGED <<made, down, responses, cells, releases, requests, sinceGet, leaked>>

\* The lifespan of the application ends.
Shutdown ==
    /\ ~down
    /\ down' = TRUE
    /\ streams' = [m \in Modes |-> [c \in Cameras |-> NoStream]]
    /\ UNCHANGED <<made, responses, cells, releases, requests, sinceGet, leaked>>

Older(age) == IF age = Never \/ age > IdleTimeout THEN age ELSE age + 1

Tick ==
    /\ streams' = [m \in Modes |-> [c \in Cameras |->
                      [streams[m][c] EXCEPT !.idle = Older(@)]]]
    /\ sinceGet' = [m \in Modes |-> [c \in Cameras |-> Older(sinceGet[m][c])]]
    /\ UNCHANGED <<made, down, responses, cells, releases, requests, leaked>>

-------------------------------------------------------------------------------
(* GET /streams/{id}/mjpeg *)

OpenMjpeg(r, c) ==
    /\ responses[r] = Closed
    /\ Get("mjpeg", c)
    /\ responses' = [responses EXCEPT
           ![r] = [at |-> "asked", cam |-> c, id |-> Acquired("mjpeg", c).id]]
    /\ UNCHANGED <<down, cells, releases, leaked>>

\* The server asks the generator for its first chunk: from now on its finally block runs.
StartBody(r) ==
    /\ responses[r].at = "asked"
    /\ responses' = [responses EXCEPT ![r].at = "body"]
    /\ UNCHANGED <<streams, made, down, cells, releases, requests, sinceGet, leaked>>

\* Mutant: the generator ends without its finally block.
CloseWithoutRelease(r) ==
    /\ responses[r].at = "body"
    /\ responses' = [responses EXCEPT ![r] = Closed]
    /\ UNCHANGED <<streams, made, down, cells, releases, requests, sinceGet, leaked>>

\* The client disconnects: the generator is closed and releases its viewer.
CloseMjpeg(r) ==
    /\ responses[r].at = "body"
    /\ responses' = [responses EXCEPT ![r] = Closed]
    /\ Release("mjpeg", responses[r].cam)
    /\ UNCHANGED <<made, down, cells, releases, requests, sinceGet, leaked>>

\* The client is gone before the first chunk: a generator that never ran has no finally
\* block to run.
AbortMjpeg(r) ==
    /\ responses[r].at = "asked"
    /\ responses' = [responses EXCEPT ![r] = Closed]
    /\ leaked' = [leaked EXCEPT ![responses[r].cam] = @ + 1]
    /\ UNCHANGED <<streams, made, down, cells, releases, requests, sinceGet>>

-------------------------------------------------------------------------------
(* The HLS endpoints and the video cells *)

Mount(v, c) ==
    /\ cells[v] = Away
    /\ cells' = [cells EXCEPT ![v] = [at |-> "mounted", cam |-> c]]
    /\ UNCHANGED <<streams, made, down, responses, releases, requests, sinceGet, leaked>>

\* hasUserStarted: the player loads the playlist, and reloads it for as long as it plays.
Play(v) ==
    /\ cells[v].at = "mounted"
    /\ cells' = [cells EXCEPT ![v].at = "playing"]
    /\ UNCHANGED <<streams, made, down, responses, releases, requests, sinceGet, leaked>>

\* GET hls/stream.m3u8: every one counts as a viewer.
FetchPlaylist(v) ==
    /\ cells[v].at = "playing"
    /\ Get("hls", cells[v].cam)
    /\ UNCHANGED <<down, responses, cells, releases, leaked>>

\* The same, but start raises because there is no ffmpeg: nothing is registered.
PlaylistFails(v) ==
    /\ ~down
    /\ requests < MaxRequests
    /\ cells[v].at = "playing"
    /\ cells[v].cam \notin Registered("hls") /\ Admits("hls", cells[v].cam)
    /\ requests' = requests + 1
    /\ UNCHANGED <<streams, made, down, responses, cells, releases, sinceGet, leaked>>

\* The cell goes or changes camera: one releaseStream, whether it ever played or not.
Unmount(v) ==
    /\ cells[v] # Away
    /\ releases[cells[v].cam] < MaxInFlight
    /\ releases' = [releases EXCEPT ![cells[v].cam] = @ + 1]
    /\ cells' = [cells EXCEPT ![v] = Away]
    /\ UNCHANGED <<streams, made, down, responses, requests, sinceGet, leaked>>

\* GET hls/release.
HlsRelease(c) ==
    /\ releases[c] > 0
    /\ releases' = [releases EXCEPT ![c] = @ - 1]
    /\ Release("hls", c)
    /\ UNCHANGED <<made, down, responses, cells, requests, sinceGet, leaked>>

\* "Best-effort release": the request fails and nobody repeats it.
ReleaseLost(c) ==
    /\ Lossy
    /\ releases[c] > 0
    /\ releases' = [releases EXCEPT ![c] = @ - 1]
    /\ UNCHANGED <<streams, made, down, responses, cells, requests, sinceGet, leaked>>

Client ==
    \/ \E r \in Responses, c \in Cameras : OpenMjpeg(r, c)
    \/ \E r \in Responses : StartBody(r) \/ CloseMjpeg(r) \/ AbortMjpeg(r)
    \/ \E v \in Cells, c \in Cameras : Mount(v, c)
    \/ \E v \in Cells : Play(v) \/ FetchPlaylist(v) \/ PlaylistFails(v) \/ Unmount(v)
    \/ \E c \in Cameras : HlsRelease(c) \/ ReleaseLost(c)

Next == Client \/ Cleanup \/ Shutdown \/ Tick

\* Time passes, the cleanup thread runs every 10 seconds, and a release that does not
\* get lost arrives. Clients owe nothing.
Fairness ==
    /\ WF_vars(Tick)
    /\ WF_vars(Cleanup)
    /\ \A c \in Cameras : WF_vars(HlsRelease(c))

Spec == Init /\ [][Next]_vars /\ Fairness

-------------------------------------------------------------------------------
(* Properties *)

Streams == [id : Nat, viewers : Nat, idle : {Never} \cup 0..(IdleTimeout + 1)]

\* The type of every variable.
TypeOK ==
    /\ streams \in [Modes -> [Cameras -> Streams]]
    /\ made \in Nat
    /\ down \in BOOLEAN
    /\ responses \in [Responses ->
           [at : {"asked", "body"}, cam : Cameras, id : Nat \ {0}] \cup {Closed}]
    /\ cells \in [Cells -> [at : {"mounted", "playing"}, cam : Cameras] \cup {Away}]
    /\ releases \in [Cameras -> Nat]
    /\ requests \in 0..MaxRequests
    /\ sinceGet \in [Modes -> [Cameras -> 0..(IdleTimeout + 1)]]
    /\ leaked \in [Cameras -> Nat]

OpenOn(c) == {r \in Responses : responses[r] # Closed /\ responses[r].cam = c}

\* The viewer count of an MJPEG stream is exactly the open responses that read it plus
\* those that aborted before their first chunk; so no source is stopped, or replaced by
\* another, under a response that reads it, and a leaked viewer keeps it for ever.
ViewersAccounted ==
    ~down => \A c \in Cameras :
        /\ streams["mjpeg"][c].viewers = Cardinality(OpenOn(c)) + leaked[c]
        /\ \A r \in OpenOn(c) : responses[r].id = streams["mjpeg"][c].id

\* last_viewer_left_at is set exactly while the count of a registered stream is zero: the
\* cleanup neither forgets a stream without viewers nor has a mark left from before.
IdleMarkMatches ==
    \A m \in Modes : \A c \in Registered(m) :
        streams[m][c].viewers = 0 <=> streams[m][c].idle # Never

\* "Max distinct cameras streamed at once (per mode)": a dropped viewer, a late release
\* or an idle stream that comes back never takes a mode above the cap.
CapPerMode == \A m \in Modes : Cardinality(Registered(m)) <= MaxStreams

\* The cleanup never takes a stream that somebody asked for within IdleTimeout: a player
\* that reloads its playlist in time keeps its stream, whatever stray release requests
\* of other cells do to the count.
RecentlyAskedStays ==
    [][\A m \in Modes : \A c \in Registered(m) \ Registered(m)' :
          down' \/ sinceGet[m][c] > IdleTimeout]_vars

\* An MJPEG stream that nobody watches goes away, unless a viewer leaked.
UnwatchedMjpegGoes ==
    \A c \in Cameras :
        []<>(OpenOn(c) # {} \/ leaked[c] > 0 \/ c \notin Registered("mjpeg"))

ShownIn(c) == {v \in Cells : cells[v] # Away /\ cells[v].cam = c}

\* routes_streams.py: "When the last viewer disconnects, the source is released after a
\* grace period", for HLS: once no cell shows the camera and every release has arrived.
UnwatchedHlsGoes ==
    \A c \in Cameras :
        []<>(ShownIn(c) # {} \/ releases[c] > 0 \/ c \notin Registered("hls"))

===============================================================================
