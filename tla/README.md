# CCTV_Unified in TLA+

A verification project for the ALPR surveillance system of this repository: TLA+ modules
translated from its source, model-checked with TLC on small instances and, for the
properties that matter most, proved with TLAPS for every value of the constants.
`PROJECT.json` is the machine-readable index: components, runs, the source lines of every
definition, a mutant for every property, the findings, the hazards and the theorems.

## 1. The system

Three kinds of process share one MySQL database.

* `main.py` starts, per camera or video, one **feeder** process (`run_edge_feeder`): it reads
  frames, detects plates, collects the crops of one vehicle in a track (`TrackManager`) and
  pushes finalized tracks into one of two bounded queues.
* A fixed set of **OCR workers** (`run_master_ocr`, `CentralOcrWorker`) take tracks from the
  queues, read the plate, drop what is in the shared **cooldown cache**, insert a detection,
  match it against the registry (`RuleEngine`) and insert an alert (`dispatch_alert`). Both
  are posted to the API server.
* The **API server** (`api/main.py`) keeps the managers of those processes, broadcasts alerts
  and detections over **WebSockets** (`ws_alerts.py`), and serves live video through the
  **stream manager** (`routes_streams.py`). The frontend shows cells, alerts and logs.

### Components

State, operations, what makes them hard, and what makes them correct.

| component | state | operations | what is hard | correct when |
|---|---|---|---|---|
| feeder + `TrackManager` (`main.py`, `track_manager.py`, `detection_pipeline.py`) | open tracks, frame index, stop event, two queues | read frame, detect, finalize stale, flush, push with a 5 s timeout, stop, terminate | boundaries (`>` and `>=`), a full queue inside the frame loop, terminate during the flush, `id(box)` as a track number | no detection is lost silently or counted twice; tracks end in time; what a queue is given can be read; a stop ends it |
| OCR workers (`detection_pipeline.py`, `alerting/`) | shared cache `key -> time`, one payload per worker, tables | check, stamp, sweep, insert, alert, push; stop, kill, start | every access to the cache is a separate request to another process; each insert can raise | one row per plate and camera in 30 s; nothing handled twice; a suppressed plate was really seen; alerts refer to rows |
| stream manager (`routes_streams.py`) | per mode: camera -> source, viewer count, time the last viewer left | get, release, cleanup every 10 s, shutdown, the responses' generator | counts kept by clients that may vanish, releases lost or sent without a get, cleanup against a returning viewer | counts match the responses; the cap holds; a used source stays, an unused one goes |
| WebSocket channel (`ws_alerts.py`, `routes_alerts.py`) | list of sockets | connect, disconnect, broadcast | coroutines interleave at every await; the list changes during a broadcast; two paths remove one socket | everyone connected gets each message once; nobody stays registered; every push is answered |
| scan control (`api/main.py`, `multiprocessing_workers.py`, `routes_cameras.py`, `routes_videos.py`) | manager per camera, its URL, camera status and rows | toggle all, toggle one, toggle video, edit, delete | stale URL in a kept manager, status written by three processes, ids shared by videos | what runs is what was asked for, with the current URL; the status says so |
| session (`auth.py`, `rbac.py`, `routes_auth.py`, `dao_users.py`, `services/api.js`) | users, audit log, the client's two tokens, requests under way | login, serve, refresh, retry, sign out, reload | overlapping requests refresh at once, answers arrive after a sign-out, a database call fails between two writes | logins are audited; a session ends; a sign-out lasts; every request settles |
| stream sources (`routes_streams.py`) | reader thread or ffmpeg process of each source, the waits for a first playlist | start, open, read, reconnect, encode, stop under the lock, yield a frame | the stop waits, with a timeout, for something that may hang; a source dies unnoticed; a start or a removal fails halfway | the manager behaves as if sources were simple; nothing is left running or on the disk |
| alert panel, live logs (`AlertPanel.jsx`, `LiveLogs.jsx`) | list of alerts shown | fetch, live message, acknowledge, tab change | a late response replaces what arrived meanwhile | no open alert disappears, none is shown twice |
| connection pool (`connection_pool.py`, `dao_*`) | pooled connections | get with retries, return | error paths that do not return a connection | every connection comes back |
| video sources (`sources/`) | capture, backoff | connect, read, reconnect, release | a stop during a reconnect | a stop is noticed |
| plate text (`paddle_ocr_engine.py`, `indian_plate_formatter.py`, `_vote_consensus`, `PlateCorrector`) | none | parse, extract, normalise, vote, correct, test the format | several stages rewrite confusable characters, each unaware of the others | an ordinary plate is stored as it is; a majority wins; what is stored reads as itself |
| detectors (`yolo_`, `tiled_`, `hierarchical_detector.py`) | boxes found so far in a frame | crop, tile, scale, shift, suppress, merge | seams, slivers, several coordinate systems, chains of near boxes | nothing seen is lost or moved; one plate per vehicle |
| networks, metrics, scripts, copilot, shells | - | - | images, neural nets, external services | not modelled |

Interactions: feeders and workers share two `multiprocessing.Queue`s; workers share the cache
(a `Manager().dict()`, one request per access) and the tables with the API; workers post to
the API, which broadcasts; the frontend calls the API and listens to the socket.

## 2. Modules

| module | models | state and its source |
|---|---|---|
| `EdgeFeeder` | one feeder, its `TrackManager`, both queues, the parent's stop and terminate | `tracks` = `_tracks`; `pending` = the list the current `for` still has to push; `queue` = fast and heavy; `box`, `boxes`, `oldBoxes` = which box objects are alive, because `id(box)` is an address |
| `Detectors` | one frame in each of the three detectors | `tiles`, `vehicles`, `pass` = what is still to scan; `all`, `local` = `all_boxes`, the boxes of a crop; ghosts `sighted`, `whole` |
| `PlateText` | one track's crops, from the lines the OCR library returns to the stored text | `reads` = the list of (text, confidence); `voted`, `stored` |
| `OcrWorkers` | the workers, step by step at each access to shared state | `cooldown` = the cache; `pc`, `job`, `now`, `victims` = where a worker is in `_process_payload`, its payload and local variables; `rows`, `alerts`, `cameras` = tables |
| `StreamManager` | the manager of streams in both modes, MJPEG responses, HLS requests, video cells | `streams[mode][camera]` = `viewer_count` and `last_viewer_left_at` (as an age); `responses` = the open generators; `cells` = the frontends; `releases` = release requests under way |
| `StreamSources` | `StreamManager` with its sources, the lock and its waits; `EXTENDS` the former and implements it | `source` = each source's `_running`, where its thread or ffmpeg is, its frame or playlist, its capture or directory; `stopping` = what the lock's holder has still to stop; `waits` = playlist requests; `gone` = clients that left; `strays` = directories on the disk that no source knows |
| `WsAlerts` | the connection list, the endpoints and the broadcasts | `active` = `active_connections`; `phase` = where each endpoint coroutine is; `cast` = each broadcast's copy of the list and its position |
| `AlertDelivery` | what the channel promises its clients: the abstract specification that `WsAlerts` implements | `conn` = a socket as its client sees it; `due` = who must still be handed each message; `got` = who was |
| `AlertPanel` | the panel's fetch, connection, list and acknowledgements, the alerts table, the clearing of the logs; the channel is an `AlertDelivery` | `list` = `alerts` of the component; `fetch`, `ack`, `clear` = where each request is; `row` = the table; ghosts `early`, `wiped` |
| `ScanControl` | the scan endpoints, the feeders' managers and processes as the cameras table sees them, the camera and video routes that change it | `workers`, `managers` = `app.state.workers` and each `CameraFeederProcess`; `procs` = where each process is between `ensure_camera_row` and the wrapper's last report; `rows`, `nextId` = the table; `stopping` = the stops the event loop is busy with |
| `FeederControl` | what the scan switches promise an operator: the abstract specification that `ScanControl` implements | `feeders` = each target's processes; `due`, `all` = what is being stopped; `ocr` = whether the collected tracks are read |
| `Session` | login, refresh and the role gate of the API, and the client's token store and `authFetch` | `users`, `lastLogin`, `audit` = the users table and audit log; `store` = `localStorage`; `page` = what the window shows, or that it is being left; `form`, `req` = where the login and each request are; ghost `out` = the last sign-out |
| `*Proofs` | inductive invariants, lemmas, theorems of all of them; `StreamProofs` is about both stream modules, `DetectionProofs` about `Detectors` and `PlateText` | |
| `MC*` | instances for TLC | |

An action is what runs without another process, thread or coroutine being able to come in
between: a method under one lock (`StreamManager`), what the lock's holder does between two
waits (`StreamSources`), the code between two awaits (`WsAlerts`),
the code between two accesses to shared state (`OcrWorkers`), a statement on the table or
what the event loop does between two awaits and two joins (`ScanControl`), a handler or what
the client does between two answers (`Session`, `AlertPanel`), one iteration or one push of the
feeder's loop, which shares only queues and the stop event with others (`EdgeFeeder`), one
image through a network (`Detectors`, `PlateText`).
Operators called mutants in their comment are not part of the specifications: each changes
one definition the way a plausible bug would, and shows that a property notices.

How they fit together. What `EdgeFeeder` takes to be a detection is a result of `Detectors`;
what its queues carry is a payload of `OcrWorkers`; what `TakePlate` chooses there is an
outcome of `PlateText`; what the worker pushes is a message of `WsAlerts`, and what
`AlertPanel` lists. `ScanControl` sees
all feeders at once and `EdgeFeeder` one from inside. `StreamSources` and `StreamManager` are
one component at two levels of detail, and TLC and TLAPS check that they agree; so are
`WsAlerts` and `AlertDelivery`, and `ScanControl` and `FeederControl`. `AlertPanel` is composed
with `AlertDelivery`: each of its steps on the channel is an action of it.

### Abstractions

* A crop is its sharpness, the variance of its Laplacian. 0 has no texture at all and leaves
  `best_crop` unset. A track's detections are numbered by a ghost, to follow them.
* What OCR, voting and correction make of a track is any plate, or nothing (`TakePlate`,
  `TakeUnreadable`). There is one queue for all workers: workers of both types share the cache
  and the code after the read, and what the heavy queue carries is `EdgeFeeder`'s question.
* The key of the cache is a pair. `f"{camera_id}_{plate_text}"` separates the number from the
  text, and camera ids are integers, so the string is injective.
* Times. In `OcrWorkers` one tick stands for the 30 seconds of the cooldown; `now` is read
  once per payload, as in the code. `StreamManager` keeps ages that saturate at
  `IdleTimeout + 1`. The cleanup reads its `now` before it takes the lock, which can only
  delay a removal; the age says the same. In `Session` a token carries its time of expiry, and
  as a ghost the time of the login it comes from.
* `multiprocessing.Queue`'s own buffer, which a terminated process may take with it, is not
  modelled, nor is a `read_frame` that blocks: `Terminate` may come at any moment after a stop.
* `StreamManager` takes a registered source to run; `StreamSources` does not: it may fail to
  open, hang, end or die. The dictionary entries of stopped sources are deleted one by one in
  the model and all together, still under the lock, in the code. Which mode a frontend uses is
  the server's choice (`VideoWall.jsx:56-61`), so cells are HLS and responses are MJPEG.
* What the system refuses the stream manager is the constant `Faults` of `StreamSources`: a
  start of ffmpeg (`FetchRaises`, for the manager `PlaylistFails`), which leaves the directory
  that `start` made before, and the removal of a directory (`CleansUp`). What is left is
  whatever it is: the playlist may be there or not.
* In `ScanControl` the frame loop is one place, `run`, which may end for three reasons, and
  the OCR workers are up or down together: `EdgeFeeder` and `OcrWorkers` open those boxes. An
  edit sets the URL or the status. A terminated process is gone at once, and one that has made
  its last report is gone when its queues are flushed, which `StopTerminates` may outrun.
* In `WsAlerts` a send to a client that is gone may raise or vanish. The origin and token
  checks of the endpoint come before `connect` and change nothing.
* In `AlertPanel` an alert is its id and the second in which its row was created, which is
  what `ORDER BY created_at` compares. That a push ends is left out, because no panel sees
  it. A view acknowledges one alert at a time, and a second click on the same alert before
  the answer changes nothing.
* In `Detectors` coordinates and confidences are integers (pixels, per cent). A network reports
  of each plate the part in the image, with some confidence, or nothing; it invents none.
* In `PlateText` a text is a sequence of characters, because its properties are about
  characters; an image is one of the readings that `Seen` gives for its plate: exact, with
  confusable characters, with a stamp glued to it, or with noise.
* In `Session` a password is right or wrong, and a token is a record instead of a signed string:
  that nobody can make one without the key is taken for granted. A sign-out is two steps, since
  `location.reload()` only asks for a navigation: `Logout` empties the store, and until `Reload`
  the page, `leaving`, goes on with what it has under way and may even send more.

## 3. What the runs check

| run | instance | shows |
|---|---|---|
| `EdgeFeeder` | 1 vehicle, 2 addresses, 4 sharpness values around the threshold, `StaleAfter` 1, `SampleInterval` 2, queues of 1, 6 frames of 2 plates | `EveryDetectionInOnePlace`, `FastTracksCarryCrops`, `NoLongGap`, `StopEndsFeeder` |
| `EdgeFeederIds` | 2 vehicles, 2 addresses, no track numbers | finding: `OneVehiclePerTrack` is violated |
| `EdgeFeederHeavy` | the instance of `EdgeFeeder` | finding: `BlurryTracksAreRead` is violated |
| `Detection` | a frame or a track. 19 frames of 1280 to 4608 pixels, plates on and off the seams or in the OCR's window, 3 confidences around the thresholds, the program's tile size, overlap and paddings; 11 registrations of all layouts, up to 3 crops, 4 ways to be read, 2 confidences | `BestSightingSurvives`, `SeamPlatesSeenWhole`, `OnePerVehicle`; `OrdinaryPlatesAreKept`, `MajorityWins`, `StoredIsStable` |
| `OcrWorkers` | 2 workers, 3 payloads, 2 plates of which one is stolen, 1 camera, 2 ticks, 1 stop or kill | `EachPayloadInOnePlace`, `DuplicateNeedsRace`, `SuppressionExplained`, `AlertsHaveDetections`, `QueuedIsHandled` |
| `StreamManager` | 2 cameras for a cap of 1, 2 responses, 1 cell, timeout 1, 3 requests, lossy releases | `ViewersAccounted`, `IdleMarkMatches`, `RecentlyAskedStays`, `UnwatchedMjpegGoes`, no deadlock |
| `StreamManagerHls` | 1 camera, 1 cell, nothing lost | finding: `UnwatchedHlsGoes` is violated |
| `StreamSources` | 1 camera, an RTSP reader and an ffmpeg, 1 response, 1 cell, 2 requests, waits of 1 tick, starts that raise and directories that stay | `NothingLeftRunning`, `WaitersKeepSource`, `LeaverIsReleased`, and the refinement `Implements` |
| `WsAlerts` | 2 sockets for a cap of 1, 2 messages | `BroadcastReachesAll`, `NoGhostConnection`, `CapUnlessOverlap`, and the refinement `Delivers` |
| `AlertPanel` | 1 panel, 3 alerts, two of one second, fetch and list limited to 2, 1 click at a time | `ShownOnce`, `NothingMissed` |
| `ScanControl` | 1 camera with 2 URLs, 1 video, 2 ids, 2 processes, 1 change to the table | `EveryFeederIsManaged`, `StopAllStopsAll`, `StatusTellsExit`, `OwnRow`, and the refinement `Controls` |
| `Session` | 1 user, 2 overlapping requests, lives of 1 and 2 ticks, 3 ticks, 1 login | `LoginsAreAudited`, `SessionBounded`, `SignOutIsBounded`, `RequestSettles` |

`EdgeFeeder` and `StreamManager` also check their type invariant, `TypeOK`, where it carries
bounds of the code (queue sizes, no negative count); those of the other modules with a proof
are proved only.

Why the bounds are enough. In `EdgeFeeder` a track needs three frames to become stale, six
leave room for a second track with the same number; a queue of one place is full after one
push; the program's own numbers (15 frames, 5 crops, sharpness 60, every frame sampled) differ
only in size, except `SampleInterval`, which is 1 in the program and 2 here so that the skip
branch runs. `Detection` puts two modules that share no state into one run: a behaviour is about
one of them. `Detectors` has the program's own numbers; its frames are one tile large, one and
a half (neither is tiled), three (4K, whose last row of tiles are slivers) and a 16
megapixel photograph, of which only the corner is; three confidences lie below, between and above the two thresholds. In one frame, `Queue`,
a car's plate fills the OCR's window of a motorcycle in front of it, and the window takes its
place: without `~hasOcr`, `BestSightingSurvives` fails there. In `PlateText` three
reads are the fewest with a majority against one, and each layout of the formatter's two
regular expressions occurs, also those the corrector mistakes and one on which the tables of
formatter and corrector disagree. In `OcrWorkers` every race on
the cache is between two workers, and the third
payload shows what the race left in the cache. In `StreamManager` a second camera contends for
the only place, and a second response tells a count of one from a count of all. In
`StreamSources` a camera's reader does all that a file's does, and reconnects; two requests are
a source of each mode, or one whose successor serves the same camera; a start that raises uses
up one of them. In `WsAlerts`
two sockets overlap at a cap of one, and two broadcasts work on each
other's sockets; for more of both the safety properties are proved. In
`AlertPanel` three alerts exceed both limits, and are the fewest with an order between two
seconds and none within one; another panel, or another client, is `AckElsewhere`. In `ScanControl` two
processes are a camera's and a video's, or one and its
successor, which are all the pairs there are; two ids are enough for a row that is inserted
beside the first and for an id that is given out again, and one change is enough because the
hazards lie between a change and the feeders' steps, not between changes. In `Session` two
requests are enough for one refresh to overtake another, and three ticks outlive both tokens;
the path is one for administrators, since one for everybody has the same answers but for the 403.
`SYMMETRY` is used in `AlertPanel`, where nothing tells the two alerts of one second apart, and
in `OcrWorkers`, where nothing tells the workers apart. TLC warns of symmetry with a liveness
property; here it is sound, because the only fairness condition is on the disjunction over all
workers and the property is about payloads: every condition the check looks at is the same
before and after a permutation, so a path of the quotient is one of the system. The run also
passes without `SYMMETRY`, on 2.2 million states.

Bounds of the model that the code does not have are named constants: `MaxFrame`, `MaxBoxes`,
`MaxPayloads`, `MaxClock`, `MaxStops`, `MaxRequests`, `MaxInFlight`,
`MaxId`, `MaxStarts`, `MaxAdmin`, `MaxTime`, `MaxLogins`, `MaxAsked`, and `MaxCrops` in `PlateText`. They
stand in guards.

`CHECK_DEADLOCK FALSE` where the system stops for good: a feeder that has ended, a frame or a
track that is done, all payloads
handled, all clients gone, all processes that may be started ended, a server that was shut
down, a clock at its bound. `StreamManager` never stops, and its deadlock is checked.

### Fairness

* `EdgeFeeder`: weak fairness of the feeder's own steps: a process that can run does. Nobody
  owes a `Take`, a stop or a terminate; `put(timeout=5.0)` is what ends the wait on a full queue.
* `OcrWorkers`: while some worker can go on, some worker does, which is less than weak fairness
  of each. A stopped worker is not owed a
  restart, so `QueuedIsHandled` is checked with fewer stops than workers.
* `StreamManager`: time passes, the daemon cleanup thread runs, a release request that is not
  lost arrives. Clients owe nothing: a viewer may stay for ever.
* `StreamSources`: the same, and a stop ends because its `join` and `wait` have timeouts
  (`routes_streams.py:192`, `:293`), a playlist request because it looks a hundred times, a
  response of a client that left because the server calls a generator that yields. A read, an
  open and ffmpeg owe nothing and may hang for ever.
* `WsAlerts`: a broadcast's awaits return and an endpoint whose client left is woken. The code
  has no timeout of its own on a send; that one ends is the work of the server's ping timeout.
* `ScanControl`: weak fairness of the steps of a stop, since its joins have a timeout. A
  feeder owes nothing and may hang anywhere.
* `Session`: each request, its answer and its refresh proceed: `fetch` resolves or rejects, and
  both are steps. Nobody owes a login, a logout or a tick of the clock.

### The refinements

`StreamSources` has `Manager == INSTANCE StreamManager WITH streams <- Served`: to a client, a
source that the lock's holder is going to stop is as good as gone, because every handler waits
for the lock. `Implements == Manager!Spec` says that the detailed system then behaves as
`StreamManager`, its fairness included, so `ViewersAccounted`, `UnwatchedMjpegGoes` and the
rest hold of it too. That a reader or ffmpeg hangs only delays the manager.

`WsAlerts` has `Channel == INSTANCE AlertDelivery`: a socket is `off` from the moment its client
leaves, whatever the server still believes; what a broadcast has to do, `due`, is the rest of
its copy of the list without those. `Delivers == Channel!Spec` says that to its clients the
channel is an `AlertDelivery`: whoever was connected when the push began is handed the message
once unless it leaves, nobody else is, and the push ends. `AlertPanel` relies on no more.

`ScanControl` has `Control == INSTANCE FeederControl`: a target's feeders are the processes of
it that are alive (`Feeding`), and what is still to be switched off is the rest of the list
that the event loop goes through (`Due`). `Controls == Control!Spec` says that an operator sees
switches: a target never has two feeders, keeps the one it has until it ends or is switched
off, nothing is switched while a stop is under way, and that stop comes to its end though a
feeder may hang anywhere. It is the managers' kept processes, the reports, the table and the
administrators that are hidden.

### Findings

1. `EdgeFeederIds`. `main.py:128` uses `id(box)` where the loop's other copy
   (`detection_pipeline.py:64-65`) counts up to "assign a unique ID per detection". An address
   is reused while the old track is still open, so one track can vote over two vehicles.
2. `StreamManagerHls`. Each playlist request adds a viewer, each cell releases one; a player
   reloads its playlist, and the ffmpeg process outlives all its viewers, against
   `routes_streams.py:10-12`.
3. `EdgeFeederHeavy`. The triage (`detection_pipeline.py:120`) and `is_sharp` use the same measure
   and the same threshold 60, so a track goes to the heavy workers when its crops were too blurry
   to be kept, and the heavy workers read only kept crops (`:169`). `Workflow.txt:387-388` promises
   super-resolution and OCR of just those. `BlurryTracksUnread` proves it for every such track
   but one whose best crop scores exactly the threshold.
### What passing properties say about the code

Some properties are weaker than a reader of the documents would write, because the code is.

* `SignOutIsBounded` is what is left of a sign-out: the refresh token is gone for good, so the
  access token that comes back ends within one `AccessLife` and is never renewed. It does come
  back: a refresh that is answered between `logout()` and the end of the page
  (`SettingsPopup.jsx:77`) stores its token (`api.js:123`), and the page that follows the "Sign
  Out" shows the application (`App.jsx:25`).
* `NothingLeftRunning` excepts a reader whose join was given up after 3 seconds. It has been told
  to end, and does when its read or its reconnect returns, which may be never. It says nothing of
  directories: `HLSStreamSource.stop`, "clean up temp files" (`routes_streams.py:288`), logs an
  `OSError` of `rmtree` and forgets the directory all the same (`:302-304`), for which a killed
  ffmpeg that is not waited for (`:295`) may be the reason, and a start that raises (`:278`) has
  made its directory before (`:239`). Nothing removes them later: `strays` only grows.
* `BestSightingSurvives` excepts frames for which an OCR engine is loaded: the bottom of a
  motorcycle's crop, where the OCR found a text, is then a box without a plate's coordinates
  (`hierarchical_detector.py:381-391`), and the suppression may prefer it to the plate's.
* `DuplicateNeedsRace`: the cooldown check and the stamp are two requests, so two workers may both
  pass and both store the plate, against `Workflow.txt:374-376`. The property says that this, or
  a sweep against a stamp, is the only way.
* `ViewersAccounted`: a generator that never started does not release its MJPEG viewer (a
  client that leaves before the first chunk, `AbortMjpeg`); the ghost `leaked` counts it.
* `LeaverIsReleased`: a source that never had a frame keeps its generator looping without a
  yield, and the server cannot close it; its viewer stays.
* `RequestSettles`: after a refresh `authFetch` spreads the headers it computed before the
  first attempt over the new ones (`api.js:146`), so the retry sends the expired token and its
  401 stands, though `api.js:128` says "auto-refreshes expired access tokens". The refreshed token serves
  the next request.
* `NothingMissed` excepts what hides an open alert from a panel that was told of it: a message
  that came before the answer of the fetch, which replaces the list (`AlertPanel.jsx:40`), the
  event `logsCleared` for an alert inserted after the rows were deleted, and the limit of 50.
  It says nothing of acknowledged alerts: one that another operator acknowledged stays, and the
  panel cannot remove it, because MySQL counts changed rows and the second acknowledgement is
  answered with 404; a push or a fetch under way brings an acknowledged one back.
* `OrdinaryPlatesAreKept` excepts what the text path does not keep: a plate of a district 84, which
  the corrector takes for a misread BH (`plate_corrector.py:46-50`) and the format test then
  drops (`detection_pipeline.py:209`), a series with an O, a short number; and a plate that begins with
  D or L behind a glued country stamp, since "DDL01..." is a longer match than "DL01...".

* `StoredIsStable` excepts two things. A C or J before a number of less than four digits: the
  formatter's table has both as digits (`indian_plate_formatter.py:57-58`) and no E, the
  corrector's has E (`plate_corrector.py:10`) and neither, so "MH12ACE12" is stored as
  "MH12AC312", and that text, read without error, is next stored as "MH12A0312", another
  key and another registry entry. And a vote that mixes reads: "MH12A0123" against two weaker
  "MH12AXK12" and "MH12AYK12" votes for "MH12A0K12", stored as "MH12AOK12", an O that the
  formatter turns into a D when it is read again. The weights it takes occur with none of the
  readings of `Seen`, so TLC shows the first exception only.

`ScanControl` has behaviours that no document speaks of, so no run calls them wrong, but a
reader should know them. A manager keeps the URL it was created with, and a restart writes it
back over an edit. A feeder without a row, such as every video's, inserts one at each start and
reports detections under it, but its status under the manager's id, so that row stays `active`;
scanned as a camera, it gives two feeders one id. After all cameras were deleted, ids are given
out again while the old feeders run; `ensure_camera_row` can then overwrite another feeder's
URL, which is why `OwnRow` excepts rows that others changed. A video toggled on while its
deletion sleeps outlives its file. Nothing writes `active` when a camera is started again.

## 4. What is proved

Each proof module has an inductive invariant `IInv`, shown to hold initially, to be kept by
every action (one lemma per action or group), and to imply the properties, for all values of
the constants that satisfy the module's named assumption:

* **`EdgeFeederProofs`** (`TypeOK`, `FastTracksCarryCrops`, `BlurryTracksUnread`, `NoOverdueTrack`,
  `NoLongGap`, `EveryDetectionInOnePlace`).
  `FastTracksCarryCrops` is not inductive: it needs that a track has a crop exactly when its best
  score reaches the threshold, for live and pending tracks too. `NoLongGap` needs the frame
  index to be at most one ahead of the last finalization. `EveryDetectionInOnePlace` follows
  from `PlaceInv`: each numbered detection is somewhere, and only once, among the live tracks,
  the pending ones, the queues and the ghosts of what was dropped, and nothing is pending while
  boxes come in (`PushedInv`). From `FeederAssumption` only:
  a positive threshold and positive sizes, any vehicles, addresses and scores.
* **`OcrWorkersProofs`** (`EachPayloadInOnePlace`, `SuppressionExplained`,
  `AlertsHaveDetections`, `DuplicateNeedsRace`, and the types). `JobsMatch` ties each worker's
  place to its payload's fate, `StampsMatch` every stamp in the cache to the payload that made
  it. `DuplicateNeedsRace` is about pairs of finished payloads; what is inductive is `Apart`:
  for a key without a race, its stamps are a cooldown apart, the cache has the last of them or
  none that still counts, and whoever is about to stamp is a cooldown later than all of them. From `WorkersAssumption`.
* **`StreamProofs`**, part 1, `StreamManager` (`TypeOK`, `ViewersAccounted`, `IdleMarkMatches`, `CapPerMode`,
  `RecentlyAskedStays`). `ViewersAccounted` carries most of it; the idle mark's age is shown to
  be at most the age of the last request, so the cleanup, which looks at the mark, cannot take
  what was asked for since. From `StreamAssumption`: finitely many responses, a positive cap
  and timeout.
* **`StreamProofs`**, part 2, `StreamSources` (`StepsOfTheManager`, `NothingLeftRunning`, `WaitersKeepSource`).
  `StepsOfTheManager` is the safety half of the refinement: `SourcesInit` maps to
  `Manager!Init`, and every step to a step of the manager or a stutter, a start that raises to a failed request. It needs that no source
  is registered twice and none has an id not yet made (`TableInv`), because `Served` forgets
  sources by id. `NothingLeftRunning` needs the states an ffmpeg can be in (`FfmpegInv`) and
  that whoever is being waited for has been told to end (`Told`): the order of the stops depends
  on what the sources are, which never changes, so nobody's turn comes early or goes by.
  `WaitersKeepSource` compares three clocks: a request waits at most
  `MaxWait`, its camera was asked for no earlier, the idle mark is no older than that
  (`AgeInv`), and the cleanup takes only what is older than `IdleTimeout`, which
  `SourcesAssumption` has at least `MaxWait` (30 and 10 seconds in the code).
* **`WsAlertsProofs`** (`TypeOK`, `NoGhostConnection`, `CapUnlessOverlap`,
  `BroadcastReachesAll`, `StepsOfDelivery`). The list has no
  duplicates, so `list.remove` leaves nothing of a socket (`WithoutRemoves`), and that is
  because a socket is appended once, when its endpoint opens. The cap needs that, until two
  accepts overlap, at most one is under way and its place is still free. `BroadcastReachesAll`
  needs what a broadcast has reached at its position in its copy (`Delivered`). `StepsOfDelivery` is
  the safety half of `Delivers`; it needs that a client that is there is in the list
  (`ListedInv`), so that a new copy, without those that are gone, is the abstract channel's `On`.
* **`AlertPanelProofs`** (`ShownOnce`, `NothingMissed`), for any number of panels, alerts and
  limits. What has not been inserted, nobody has heard of (`FreshInv`), an answer "acknowledged"
  stands for a row that is not open (`AckInv`), and a list holds all that its panel knows that
  is open, up to the exceptions (`ViewInv`). That a list cut at the limit excuses what it
  lacks is a pigeonhole argument: its alerts are distinct and all known. From
  `PanelAssumption`: finitely many alerts and positive limits.
* **`ScanControlProofs`** (`TypeOK`, `EveryFeederIsManaged`, `StatusTellsExit`, `OwnRow`,
  `StopAllStopsAll`, `StepsOfControl`, `FeedersAreRead`). A process belongs to the manager it was started for (`PidInv`), the list
  holds exactly the managers there are (`ListInv`), who wrote a status last was of that camera
  (`WriterInv`), an id that was not given out has no row (`RowInv`). `StopAllStopsAll` rests on
  `StopInv`: during "stop all", what is alive still has its stop before it. `StepsOfControl` is the
  safety half of `Controls`: it needs `EveryFeederIsManaged` for the one feeder of a target, and
  that no target is twice in the list of stops (`OnceInv`), because a stop asked twice would be
  two. `FeedersAreRead` follows from `FeederControl` alone, so from the refinement: while a
  feeder is alive the OCR workers have been started and not stopped since. From the assumptions of
  `ScanControl` on ids and URLs; the numbers of starts and changes are arbitrary.
* **`SessionProofs`** (`LoginsAreAudited`, `SessionBounded`, `SignOutIsBounded`, and the types). `SessionBounded`
  speaks of the store; inductive is that every token under way, in a form, a request or an
  answer, is bounded by its login's time (`StoreInv`, `FormInv`, `RequestInv`).
  `SignOutIsBounded` needs that an access token, wherever it is, has no more than `AccessLife`
  to go (`Short`), that no answer brings a refresh token (`RequestInv`), that a page with the
  login form has no request under way (`PageInv`), and that nobody logs in on a page that is
  being left (`LeavingInv`).

* **`DetectionProofs`**, part 1, `Detectors` (`BestSightingSurvives`, `OnePerVehicle`,
  `SeamPlatesSeenWhole`, and `SightingsAnswered`), for every frame, every number of plates and
  vehicles, tile size, overlap, threshold and list of boxes the networks return. The loops of
  the code are functions defined by recursion over `0..n`; `LoopRuns` shows that a loop of
  typed rounds has such a function, `UpTo` is the induction over its rounds, and with them
  `_nms`, `_merge_vehicle_plates` and the list of tiles get one lemma each: `NMSKeeps` (what is
  dropped overlaps something kept that is at least as confident), `MergeKeeps` (no two boxes
  left are close, and the best of each chain is among them), `SeamsAreCovered` (a
  box no longer than the overlap lies in a scanned tile; the last column or row may be a sliver
  that is skipped, and its neighbour then reaches the edge). The
  invariant says that every sighting is answered by a collected box that lies in its plate
  (`SightingsKept`), in the crop's coordinates while a motorcycle is scanned. From
  `SceneAssumption`: plates share no pixel, without which suppression merges two of
  them; and from a stride of at least one. `BestSightingSurvives` is proved for frames without
  the OCR's window: the window is the bottom of a crop and no plate, so a confident window may
  suppress a plate's box; with it, some box that covers some of the plate stays
  (`SightingsStayVisible`).
* **`DetectionProofs`**, part 2, `PlateText` (`MajorityWins`), for every set of plates, every
  reading of them and any number of crops. `VoteOfMajority` is the argument, for
  any list of reads: the majority's length is the commonest, since all others together are
  fewer, and at each place its character outweighs all others together, so no
  tie is ever broken by the order. It needs that reads are texts with confidences, which is
  shown through the stable sort of the lines (`SortedLines`), the parser, the two patterns,
  whose matches end within the text (`BhBounds`, `PlateBounds`), and the choice between the
  images of a crop.

* **`DetectionProofs`**, part 3, `PlateText` (`OrdinaryPlatesAreKept`), for every set of plates,
  reading and number of crops. The argument follows a legible read through the text path. The
  characters that a reading confuses are turned back by their place in the layout
  (`RtoRestored`, `BhKept`); a stamp that the OCR glued to the plate does not change what is
  found (`BhUnstamped`, `RtoUnstamped`); the match of the whole plate is the longest one, so the search takes it
  (`MatchedWhole`, `LongestIsTaken`), and no Bharat match hides in a registration of a state
  (`NoBhSeen`); the corrections then leave the plate alone (`RtoCorrect`, `BhCorrect`), and
  reads that all say the same are the vote (`Unanimous`). The invariant `KeptInv` says
  that while no crop was noisy, each read of an ordinary plate is the plate itself; the
  property speaks of the end only and is not inductive. `OrdinaryTextsStable` says of whatever
  was read, also of a mixed vote, that a stored text of an ordinary layout is a fixed point of
  the corrections (`FixedPoint`).
* **`DetectionProofs`**, part 4, `PlateText` (`StoredIsStable`), for every text that the OCR
  library may return. The argument goes through the path stage by stage and says at each what
  a text can look like: what is extracted is a Bharat plate or starts with a state and has
  digits, or what may stand for them, in the district and at its end (`Found`, `FoundShape`);
  normalised, it has no O left in its series, digits from some place on, and that
  place is the first it can be (`NumberBounds`, `NormalisedShape`); corrected and let pass, it
  is a Bharat plate, or has one to three letters and one to four digits, and the letter before
  a short number is none that the corrector takes for a digit (`MadeBh`, `MadeRto`). Such a
  text is found whole (`StoredFound`) and both tables see its number start at the same place
  (`NumberAgreed`), so nothing is changed any more. That place is where the exception of C
  and J comes from: the proof does not go through without it.

Only model-checked: liveness (`StopEndsFeeder`, `QueuedIsHandled`, `UnwatchedMjpegGoes`,
`LeaverIsReleased`, `RequestSettles`) and the fairness halves of `Implements`, `Delivers` and
`Controls`, which TLAPS cannot do. Every safety property that a passing run checks is a theorem,
and so is the safety half of each refinement. The three properties that runs find violated say
what a document promises, and have no theorem.

## 5. Plan

Done: every component above that runs concurrently in the program's core, its safety proved.
Left, in order of what the system's users would miss most:

1. `LiveLogs`: the table of the log page, whose responses may overtake one another when the tab
   changes, composed with `AlertDelivery` as `AlertPanel` is.
2. `ConnectionPool` and `PerfCounter`: locks and connections on error paths.
3. `RtspSource`: reconnect with backoff against a stop.
4. `fuzzy_lookup` and `_filter_duplicate_standard_plates` against reference definitions.

## 6. Not modelled

* Image processing (`plate_preprocessor.py`), neural networks and the OCR library: what they
  return is a choice. Frame sampling by motion, counters and metrics: the running program does
  not use them.
* Registration of users and the listings of users and audit rows; bulk imports of cameras;
  uploads of videos; the log page and the queries behind it.
* `hls_segment`, `mode` and `snapshot` of the streams: they change no state. A segment that the
  cleanup deletes under a reader is a 404.
* The connection pool: the models take a database call to succeed or raise as a whole.
* The reconnect loop of `rtsp_camera_source.py`: to `EdgeFeeder`, `read_frame` returns a frame
  or the end.
* External services (Sentinel, the copilot's model), maps, forms and layout, the desktop
  shells, scripts, seed data and the superseded `ingestion_pipeline.py`.

Each is listed in `PROJECT.json` with its reason.

## Running

    tlc -config EdgeFeeder.cfg MCEdgeFeeder     # any run of PROJECT.json
    tlapm EdgeFeederProofs.tla                  # any proof module
