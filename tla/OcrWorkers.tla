------------------------------ MODULE OcrWorkers ------------------------------
(***************************************************************************)
(* The central OCR worker processes: CentralOcrWorker._process_payload     *)
(* with everything it calls, the shared cooldown cache, the rows it        *)
(* inserts, the rule engine, the alert dispatcher and the pushes to the    *)
(* API (pipeline/detection_pipeline.py, alerting/, db/).                   *)
(*                                                                         *)
(* The cache is a multiprocessing.Manager().dict(): each access is one     *)
(* request to the manager, so each is one step here, and the steps of      *)
(* several workers interleave.                                             *)
(***************************************************************************)
EXTENDS Integers, Sequences, FiniteSets

CONSTANTS
    Workers,      \* the worker processes
    Cameras,      \* camera ids
    Plates,       \* valid plate texts
    Wanted,       \* the plates the registry knows as stolen or flagged
    Cooldown,     \* 30 seconds, in ticks of the model's clock
    Absent,       \* no entry in the cache
    MaxPayloads,  \* bound of the model: tracks the feeders push
    MaxClock,     \* bound of the model: ticks
    MaxStops      \* bound of the model: workers stopped or killed

ASSUME WorkersAssumption ==
    /\ Wanted \subseteq Plates
    /\ Cooldown \in Nat \ {0}
    /\ Absent \notin Int
    /\ MaxPayloads \in Nat
    /\ MaxClock \in Nat
    /\ MaxStops \in Nat

Payloads == 1..MaxPayloads
Keys == Cameras \X Plates       \* f"{camera_id}_{plate_text}"

VARIABLES
    clock,     \* time.time()
    queue,     \* the payloads in the OCR queue, each <<number, camera>>
    sent,      \* how many payloads the feeders have pushed
    cooldown,  \* the shared cache: key -> time stamped, or Absent
    cameras,   \* the rows of table cameras
    rows,      \* the rows of table detections, each named by its payload
    alerts,    \* the rows of table alerts, each named by the payload it is about
    pc,        \* what each worker does next
    job,       \* the payload each worker holds: [n, key]
    now,       \* its local variable now
    victims,   \* the keys its sweep found expired and has still to delete
    stops,     \* how many workers were stopped or killed
    fate,      \* ghost: what became of each payload
    keyOf,     \* ghost: the key each payload was read as, or Absent
    readAt,    \* ghost: the now of each payload
    stampers,  \* ghost: the payloads that stamped the cache
    raced      \* ghost: the keys that two workers got in each other's way about

tables == <<cameras, rows, alerts>>
locals == <<job, now, victims>>
ghosts == <<keyOf, readAt, stampers, raced>>
vars == <<clock, queue, sent, cooldown, tables, pc, locals, stops, fate, ghosts>>

NoJob == [n |-> 0, key |-> Absent]
Fates == {"unsent", "queued", "working", "unreadable", "suppressed", "stored", "lost"}

Init ==
    /\ clock = 0
    /\ queue = <<>>
    /\ sent = 0
    /\ cooldown = [k \in Keys |-> Absent]
    /\ cameras = Cameras
    /\ rows = {}
    /\ alerts = {}
    /\ pc = [w \in Workers |-> "idle"]
    /\ job = [w \in Workers |-> NoJob]
    /\ now = [w \in Workers |-> 0]
    /\ victims = [w \in Workers |-> {}]
    /\ stops = 0
    /\ fate = [n \in Payloads |-> "unsent"]
    /\ keyOf = [n \in Payloads |-> Absent]
    /\ readAt = [n \in Payloads |-> 0]
    /\ stampers = {}
    /\ raced = {}

-------------------------------------------------------------------------------
(* Around the workers *)

\* _push_to_queue of some feeder; the queue's bound is the business of EdgeFeeder.
Enqueue(cam) ==
    /\ sent < MaxPayloads
    /\ sent' = sent + 1
    /\ queue' = Append(queue, <<sent + 1, cam>>)
    /\ fate' = [fate EXCEPT ![sent + 1] = "queued"]
    /\ UNCHANGED <<clock, cooldown, tables, pc, locals, stops, ghosts>>

Tick ==
    /\ clock < MaxClock
    /\ clock' = clock + 1
    /\ UNCHANGED <<queue, sent, cooldown, tables, pc, locals, stops, fate, ghosts>>

\* DELETE /cameras/{id}: the rows that refer to the camera keep existing, with NULL.
DeleteCamera(cam) ==
    /\ cam \in cameras
    /\ cameras' = cameras \ {cam}
    /\ UNCHANGED <<clock, queue, sent, cooldown, rows, alerts, pc, locals, stops,
                   fate, ghosts>>

\* Mutant: only the detections are deleted.
DeleteDetectionsOnly ==
    /\ rows # {}
    /\ rows' = {}
    /\ UNCHANGED <<clock, queue, sent, cooldown, cameras, alerts, pc, locals, stops,
                   fate, ghosts>>

\* DELETE /detections: both tables, in one transaction.
DeleteAllLogs ==
    /\ rows # {}
    /\ rows' = {}
    /\ alerts' = {}
    /\ UNCHANGED <<clock, queue, sent, cooldown, cameras, pc, locals, stops,
                   fate, ghosts>>

-------------------------------------------------------------------------------
(* One payload *)

\* The worker is done with its payload, whose fate is f.
Finish(w, f) ==
    /\ pc' = [pc EXCEPT ![w] = "idle"]
    /\ job' = [job EXCEPT ![w] = NoJob]
    /\ victims' = [victims EXCEPT ![w] = {}]
    /\ fate' = [fate EXCEPT ![job[w].n] = f]

\* queue.get, the crops read, the vote and the corrector: a text that is no plate is
\* not looked at again.
TakeUnreadable(w) ==
    /\ pc[w] = "idle"
    /\ queue # <<>>
    /\ queue' = Tail(queue)
    /\ fate' = [fate EXCEPT ![Head(queue)[1]] = "unreadable"]
    /\ UNCHANGED <<clock, sent, cooldown, tables, pc, locals, stops, ghosts>>

\* Mutant: the payload is read but stays in the queue.
TakePlatePeeks(w, plate) ==
    LET n == Head(queue)[1]
        key == <<Head(queue)[2], plate>>
    IN  /\ pc[w] = "idle"
        /\ queue # <<>>
        /\ job' = [job EXCEPT ![w] = [n |-> n, key |-> key]]
        /\ now' = [now EXCEPT ![w] = clock]
        /\ pc' = [pc EXCEPT ![w] = "member"]
        /\ fate' = [fate EXCEPT ![n] = "working"]
        /\ keyOf' = [keyOf EXCEPT ![n] = key]
        /\ readAt' = [readAt EXCEPT ![n] = clock]
        /\ UNCHANGED <<clock, queue, sent, cooldown, tables, victims, stops, stampers, raced>>

TakePlate(w, plate) ==
    LET n == Head(queue)[1]
        key == <<Head(queue)[2], plate>>
    IN  /\ pc[w] = "idle"
        /\ queue # <<>>
        /\ queue' = Tail(queue)
        /\ job' = [job EXCEPT ![w] = [n |-> n, key |-> key]]
        /\ now' = [now EXCEPT ![w] = clock]
        /\ pc' = [pc EXCEPT ![w] = "member"]
        /\ fate' = [fate EXCEPT ![n] = "working"]
        /\ keyOf' = [keyOf EXCEPT ![n] = key]
        /\ readAt' = [readAt EXCEPT ![n] = clock]
        /\ UNCHANGED <<clock, sent, cooldown, tables, victims, stops, stampers, raced>>

\* if cache_key in self.cooldown_cache
Member(w) ==
    /\ pc[w] = "member"
    /\ pc' = [pc EXCEPT ![w] = IF cooldown[job[w].key] = Absent THEN "stamp" ELSE "age"]
    /\ UNCHANGED <<clock, queue, sent, cooldown, tables, locals, stops, fate, ghosts>>

Age(w) == now[w] - cooldown[job[w].key]

\* Mutant: the comparison is <=.
SuppressLate(w) ==
    /\ pc[w] = "age"
    /\ cooldown[job[w].key] # Absent
    /\ Age(w) <= Cooldown
    /\ Finish(w, "suppressed")
    /\ UNCHANGED <<clock, queue, sent, cooldown, tables, now, stops, ghosts>>

\* now - self.cooldown_cache[cache_key] < 30
Suppress(w) ==
    /\ pc[w] = "age"
    /\ cooldown[job[w].key] # Absent
    /\ Age(w) < Cooldown
    /\ Finish(w, "suppressed")
    /\ UNCHANGED <<clock, queue, sent, cooldown, tables, now, stops, ghosts>>

Expired(w) ==
    /\ pc[w] = "age"
    /\ cooldown[job[w].key] # Absent
    /\ Age(w) >= Cooldown
    /\ pc' = [pc EXCEPT ![w] = "stamp"]
    /\ UNCHANGED <<clock, queue, sent, cooldown, tables, locals, stops, fate, ghosts>>

\* Another worker's sweep removed the key since: KeyError.
AgeKeyError(w) ==
    /\ pc[w] = "age"
    /\ cooldown[job[w].key] = Absent
    /\ Finish(w, "lost")
    /\ UNCHANGED <<clock, queue, sent, cooldown, tables, now, stops, ghosts>>

\* Mutant: setdefault, which keeps an expired stamp.
StampFirstOnly(w) ==
    /\ pc[w] = "stamp"
    /\ cooldown' = [cooldown EXCEPT ![job[w].key] = IF @ = Absent THEN now[w] ELSE @]
    /\ pc' = [pc EXCEPT ![w] = "items"]
    /\ stampers' = stampers \cup {job[w].n}
    /\ raced' = IF \E v \in Workers \ {w} : pc[v] = "stamp" /\ job[v].key = job[w].key
                THEN raced \cup {job[w].key} ELSE raced
    /\ UNCHANGED <<clock, queue, sent, tables, locals, stops, fate, keyOf, readAt>>

\* self.cooldown_cache[cache_key] = now. Another worker that has decided to stamp the
\* same key will not look again.
Stamp(w) ==
    /\ pc[w] = "stamp"
    /\ cooldown' = [cooldown EXCEPT ![job[w].key] = now[w]]
    /\ pc' = [pc EXCEPT ![w] = "items"]
    /\ stampers' = stampers \cup {job[w].n}
    /\ raced' = IF \E v \in Workers \ {w} : pc[v] = "stamp" /\ job[v].key = job[w].key
                THEN raced \cup {job[w].key} ELSE raced
    /\ UNCHANGED <<clock, queue, sent, tables, locals, stops, fate, keyOf, readAt>>

IsExpired(w, k) == cooldown[k] # Absent /\ now[w] - cooldown[k] > Cooldown

\* list(self.cooldown_cache.items()), and the entries of it that the loop will delete.
Items(w) ==
    /\ pc[w] = "items"
    /\ victims' = [victims EXCEPT ![w] = {k \in Keys : IsExpired(w, k)}]
    /\ pc' = [pc EXCEPT ![w] = "sweep"]
    /\ UNCHANGED <<clock, queue, sent, cooldown, tables, job, now, stops, fate, ghosts>>

\* A payload whose check this deletion of k's stamp decides differently.
Needed(k) ==
    \/ clock - cooldown[k] < Cooldown
    \/ \E v \in Workers : /\ pc[v] \in {"member", "age"}
                          /\ job[v].key = k
                          /\ now[v] - cooldown[k] < Cooldown

\* del self.cooldown_cache[k], whatever k's stamp is by now.
Sweep(w, k) ==
    /\ pc[w] = "sweep"
    /\ k \in victims[w]
    /\ cooldown[k] # Absent
    /\ cooldown' = [cooldown EXCEPT ![k] = Absent]
    /\ victims' = [victims EXCEPT ![w] = @ \ {k}]
    /\ raced' = IF Needed(k) THEN raced \cup {k} ELSE raced
    /\ UNCHANGED <<clock, queue, sent, tables, pc, job, now, stops, fate, keyOf,
                   readAt, stampers>>

\* Two sweeps found the same key: KeyError, after the stamp and before the insert.
SweepKeyError(w, k) ==
    /\ pc[w] = "sweep"
    /\ k \in victims[w]
    /\ cooldown[k] = Absent
    /\ Finish(w, "lost")
    /\ UNCHANGED <<clock, queue, sent, cooldown, tables, now, stops, ghosts>>

ReadyToInsert(w) == pc[w] = "sweep" /\ victims[w] = {}

\* insert_detection, and process_detection as far as fuzzy_lookup.
InsertDetection(w) ==
    /\ ReadyToInsert(w)
    /\ job[w].key[1] \in cameras
    /\ rows' = rows \cup {job[w].n}
    /\ fate' = [fate EXCEPT ![job[w].n] = "stored"]
    /\ pc' = [pc EXCEPT ![w] = IF job[w].key[2] \in Wanted THEN "alert" ELSE "push"]
    /\ UNCHANGED <<clock, queue, sent, cooldown, cameras, alerts, locals, stops, ghosts>>

\* Mutant: a refused row is tried again until it goes in.
InsertFailsRetries(w) == ReadyToInsert(w) /\ UNCHANGED vars

\* The foreign key, the pool or the server refuses: the exception ends the payload.
InsertFails(w) ==
    /\ ReadyToInsert(w)
    /\ Finish(w, "lost")
    /\ UNCHANGED <<clock, queue, sent, cooldown, tables, now, stops, ghosts>>

\* dispatch_alert, when insert_alert succeeds: both foreign keys hold. The post that the
\* broadcast executor then makes is the business of WsAlerts.
InsertAlert(w) ==
    /\ pc[w] = "alert"
    /\ job[w].n \in rows
    /\ job[w].key[1] \in cameras
    /\ alerts' = alerts \cup {job[w].n}
    /\ pc' = [pc EXCEPT ![w] = "push"]
    /\ UNCHANGED <<clock, queue, sent, cooldown, cameras, rows, locals, stops, fate, ghosts>>

\* insert_alert raises MySQLError, or the registry a RuntimeError: logged, no alert.
InsertAlertFails(w) ==
    /\ pc[w] = "alert"
    /\ pc' = [pc EXCEPT ![w] = "push"]
    /\ UNCHANGED <<clock, queue, sent, cooldown, tables, locals, stops, fate, ghosts>>

\* get_camera_by_id raises: nothing catches it before the worker's loop.
DispatchRaises(w) ==
    /\ pc[w] = "alert"
    /\ Finish(w, "stored")
    /\ UNCHANGED <<clock, queue, sent, cooldown, tables, now, stops, ghosts>>

\* The post to /detections/internal/push, delivered or not.
Push(w) ==
    /\ pc[w] = "push"
    /\ Finish(w, "stored")
    /\ UNCHANGED <<clock, queue, sent, cooldown, tables, now, stops, ghosts>>

-------------------------------------------------------------------------------
(* MasterOcrProcess *)

\* The loop sees the stop event between two payloads.
StopWorker(w) ==
    /\ pc[w] = "idle"
    /\ stops < MaxStops
    /\ stops' = stops + 1
    /\ pc' = [pc EXCEPT ![w] = "down"]
    /\ UNCHANGED <<clock, queue, sent, cooldown, tables, locals, fate, ghosts>>

\* join(timeout=3.0) runs out and the process is terminated where it is.
KillWorker(w) ==
    /\ pc[w] \notin {"idle", "down"}
    /\ stops < MaxStops
    /\ stops' = stops + 1
    /\ pc' = [pc EXCEPT ![w] = "down"]
    /\ job' = [job EXCEPT ![w] = NoJob]
    /\ victims' = [victims EXCEPT ![w] = {}]
    /\ fate' = IF job[w].n \in Payloads /\ fate[job[w].n] = "working"
               THEN [fate EXCEPT ![job[w].n] = "lost"] ELSE fate
    /\ UNCHANGED <<clock, queue, sent, cooldown, tables, now, ghosts>>

StartWorker(w) ==
    /\ pc[w] = "down"
    /\ pc' = [pc EXCEPT ![w] = "idle"]
    /\ UNCHANGED <<clock, queue, sent, cooldown, tables, locals, stops, fate, ghosts>>

Work(w) ==
    \/ TakeUnreadable(w)
    \/ \E plate \in Plates : TakePlate(w, plate)
    \/ Member(w) \/ Suppress(w) \/ Expired(w) \/ AgeKeyError(w)
    \/ Stamp(w) \/ Items(w)
    \/ \E k \in Keys : Sweep(w, k) \/ SweepKeyError(w, k)
    \/ InsertDetection(w) \/ InsertFails(w)
    \/ InsertAlert(w) \/ InsertAlertFails(w) \/ DispatchRaises(w)
    \/ Push(w)

Next ==
    \/ \E cam \in Cameras : Enqueue(cam) \/ DeleteCamera(cam)
    \/ Tick
    \/ DeleteAllLogs
    \/ \E w \in Workers :
          Work(w) \/ StopWorker(w) \/ KillWorker(w) \/ StartWorker(w)

\* While some worker can go on, some worker does; nobody promises to start one that was
\* stopped. That is less than the scheduler gives, and tells no two workers apart.
Spec == Init /\ [][Next]_vars /\ WF_vars(\E w \in Workers : Work(w))

-------------------------------------------------------------------------------
(* Properties *)

\* The type of every variable, and no local time ahead of the clock.
TypeOK ==
    /\ clock \in 0..MaxClock
    /\ queue \in Seq(Payloads \X Cameras)
    /\ sent \in 0..MaxPayloads
    /\ cooldown \in [Keys -> 0..clock \cup {Absent}]
    /\ cameras \subseteq Cameras
    /\ rows \subseteq Payloads
    /\ alerts \subseteq Payloads
    /\ pc \in [Workers -> {"idle", "member", "age", "stamp", "items", "sweep", "alert",
                           "push", "down"}]
    /\ job \in [Workers -> [n : Payloads, key : Keys] \cup {NoJob}]
    /\ now \in [Workers -> 0..clock]
    /\ victims \in [Workers -> SUBSET Keys]
    /\ stops \in 0..MaxStops
    /\ fate \in [Payloads -> Fates]
    /\ keyOf \in [Payloads -> Keys \cup {Absent}]
    /\ readAt \in [Payloads -> 0..clock]
    /\ stampers \subseteq Payloads
    /\ raced \subseteq Keys

\* A payload is queued once or held by one worker or its fate is decided: an exception,
\* a race or a kill can lose it, but never have it handled twice or forgotten.
EachPayloadInOnePlace ==
    /\ \A n \in Payloads :
          /\ fate[n] = "unsent" <=> n > sent
          /\ fate[n] = "queued" <=> \E k \in 1..Len(queue) : queue[k][1] = n
          /\ fate[n] = "working" <=>
                \E w \in Workers : job[w].n = n /\ pc[w] \notin {"alert", "push"}
          /\ (\E w \in Workers : job[w].n = n /\ pc[w] \in {"alert", "push"})
                => fate[n] = "stored"
    /\ \A j, k \in 1..Len(queue) : queue[j][1] = queue[k][1] => j = k
    /\ \A v, w \in Workers : job[v].n = job[w].n /\ job[v] # NoJob => v = w

Distance(s, t) == IF s < t THEN t - s ELSE s - t

Repeats(m, n) ==
    /\ m # n
    /\ fate[m] = "stored" /\ fate[n] = "stored"
    /\ keyOf[m] = keyOf[n]
    /\ Distance(readAt[m], readAt[n]) < Cooldown

\* Two rows for one plate and camera within the cooldown take a race about that key: two
\* workers past the check at once, or a sweep that deletes a stamp still needed.
DuplicateNeedsRace ==
    \A m, n \in Payloads : Repeats(m, n) => keyOf[m] \in raced

\* A plate is suppressed only if another payload of the same plate and camera claimed the
\* cooldown less than Cooldown before: a stamp never outlives its time, moves to another
\* key or suppresses its own payload.
SuppressionExplained ==
    \A n \in Payloads : fate[n] = "suppressed" =>
        \E m \in stampers \ {n} :
            keyOf[m] = keyOf[n] /\ readAt[n] - readAt[m] < Cooldown

\* An alert in the table refers to a detection in the table: clearing the logs leaves no
\* alert behind, and a late dispatch_alert cannot add one.
AlertsHaveDetections == alerts \subseteq rows

\* As long as a worker is up, what a feeder pushed is dealt with, whatever the processing
\* of it or of others raises: time and again nothing waits and nothing is in work. (The
\* payloads are finitely many and what is dealt with stays so.)
QueuedIsHandled == []<>(\A n \in Payloads : fate[n] \notin {"queued", "working"})

===============================================================================
