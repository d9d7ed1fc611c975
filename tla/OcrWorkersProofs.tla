--------------------------- MODULE OcrWorkersProofs ---------------------------
(***************************************************************************)
(* What the OCR workers promise for any number of workers, cameras, plates *)
(* and payloads and any cooldown, proved from one inductive invariant.     *)
(***************************************************************************)
EXTENDS OcrWorkers, TLAPS

-------------------------------------------------------------------------------
(* The inductive invariant *)

Busy(w) == pc[w] \notin {"idle", "down"}

\* A busy worker's payload, key and now are those the ghosts remember, and the payload
\* has stamped the cache exactly if the worker is past that step.
JobsMatch ==
    \A w \in Workers :
        /\ ~Busy(w) => job[w] = NoJob
        /\ Busy(w) => /\ job[w] # NoJob
                      /\ keyOf[job[w].n] = job[w].key
                      /\ readAt[job[w].n] = now[w]
                      /\ (job[w].n \in stampers) <=> pc[w] \notin {"member", "age", "stamp"}

\* Every stamp in the cache was made by a payload that was read, and every row's payload
\* has stamped.
StampsMatch ==
    /\ \A m \in stampers : fate[m] \notin {"unsent", "queued"} /\ keyOf[m] \in Keys
    /\ \A n \in Payloads : fate[n] = "stored" => n \in stampers
    /\ \A k \in Keys : cooldown[k] # Absent =>
          \E m \in stampers : keyOf[m] = k /\ readAt[m] = cooldown[k]

Of(k) == {m \in stampers : keyOf[m] = k}

\* What holds of key k as long as no two workers have got in each other's way about it:
\* its stamps are a Cooldown apart, the cache has the last one or none that still counts,
\* and whoever is about to stamp is a Cooldown later than all of them.
Apart(k) ==
    /\ \A m \in Of(k) : cooldown[k] # Absent => readAt[m] <= cooldown[k]
    /\ \A m \in Of(k) : cooldown[k] = Absent => clock - readAt[m] >= Cooldown
    /\ \A m \in Of(k), w \in Workers :
          /\ job[w].key = k
          /\ \/ pc[w] = "stamp"
             \/ pc[w] \in {"member", "age"} /\ cooldown[k] = Absent
          => now[w] - readAt[m] >= Cooldown
    /\ \A m, n \in Of(k) : m # n => Distance(readAt[m], readAt[n]) >= Cooldown

RaceInv == \A k \in Keys \ raced : Apart(k)

IInv == /\ TypeOK /\ JobsMatch /\ EachPayloadInOnePlace /\ StampsMatch
        /\ SuppressionExplained /\ AlertsHaveDetections /\ RaceInv

-------------------------------------------------------------------------------
(* Types *)

\* A busy worker holds a payload and a key.
LEMMA JobType ==
    ASSUME TypeOK, JobsMatch, NEW w \in Workers, Busy(w)
    PROVE  /\ job[w] \in [n : Payloads, key : Keys]
           /\ job[w].n \in Payloads /\ job[w].key \in Keys
  BY DEF TypeOK, JobsMatch

\* The queue's first payload and the rest.
LEMMA HeadType ==
    ASSUME TypeOK, queue # <<>>
    PROVE  /\ Head(queue) \in Payloads \X Cameras
           /\ Head(queue)[1] \in Payloads /\ Head(queue)[2] \in Cameras
           /\ Tail(queue) \in Seq(Payloads \X Cameras)
           /\ Head(queue) = queue[1] /\ Len(queue) >= 1
           /\ Len(Tail(queue)) = Len(queue) - 1
           /\ \A k \in 1..Len(Tail(queue)) : Tail(queue)[k] = queue[k + 1]
  BY DEF TypeOK

\* The steps that end with a payload done.
LEMMA FinishType ==
    ASSUME TypeOK, JobsMatch, NEW w \in Workers, Busy(w), NEW f \in Fates, Finish(w, f),
           UNCHANGED <<clock, queue, sent, cooldown, tables, now, stops, ghosts>>
    PROVE  TypeOK'
  <1>1. job[w].n \in Payloads
    BY JobType
  <1>2. /\ pc' \in [Workers -> {"idle", "member", "age", "stamp", "items", "sweep", "alert",
                                "push", "down"}]
        /\ job' \in [Workers -> [n : Payloads, key : Keys] \cup {NoJob}]
        /\ victims' \in [Workers -> SUBSET Keys]
        /\ fate' \in [Payloads -> Fates]
    BY <1>1 DEF TypeOK, Finish
  <1> QED
    BY <1>2 DEF TypeOK, tables, ghosts

LEMMA EnvironmentType ==
    ASSUME TypeOK,
           \/ \E cam \in Cameras : Enqueue(cam) \/ DeleteCamera(cam)
           \/ Tick \/ DeleteAllLogs
    PROVE  TypeOK'
  <1>1. ASSUME NEW cam \in Cameras, Enqueue(cam)
        PROVE  TypeOK'
    <2>1. sent' \in 0..MaxPayloads /\ sent + 1 \in Payloads
      BY <1>1, WorkersAssumption DEF Enqueue, TypeOK, Payloads
    <2>2. queue' \in Seq(Payloads \X Cameras)
      BY <1>1, <2>1 DEF Enqueue, TypeOK
    <2>3. fate' \in [Payloads -> Fates]
      BY <1>1 DEF Enqueue, TypeOK, Fates
    <2> QED
      BY <1>1, <2>1, <2>2, <2>3 DEF Enqueue, TypeOK, tables, locals, ghosts
  <1>2. ASSUME NEW cam \in Cameras, DeleteCamera(cam)
        PROVE  TypeOK'
    BY <1>2 DEF DeleteCamera, TypeOK, locals, ghosts
  <1>3. CASE Tick
    <2>1. clock \in Nat /\ clock' \in 0..MaxClock /\ 0..clock \subseteq 0..clock'
      BY <1>3, WorkersAssumption DEF Tick, TypeOK
    <2> QED
      BY <1>3, <2>1 DEF Tick, TypeOK, tables, locals, ghosts
  <1>4. CASE DeleteAllLogs
    BY <1>4 DEF DeleteAllLogs, TypeOK, locals, ghosts
  <1> QED
    BY <1>1, <1>2, <1>3, <1>4

LEMMA WorkType ==
    ASSUME TypeOK, JobsMatch, NEW w \in Workers, Work(w)
    PROVE  TypeOK'
  <1>1. CASE TakeUnreadable(w)
    BY <1>1, HeadType DEF TakeUnreadable, TypeOK, tables, locals, ghosts, Fates
  <1>2. ASSUME NEW plate \in Plates, TakePlate(w, plate)
        PROVE  TypeOK'
    <2> DEFINE n == Head(queue)[1]
               key == <<Head(queue)[2], plate>>
    <2>1. n \in Payloads /\ key \in Keys /\ Tail(queue) \in Seq(Payloads \X Cameras)
      BY <1>2, HeadType DEF TakePlate, Keys
    <2> HIDE DEF n, key
    <2>2. /\ queue' = Tail(queue)
          /\ job' = [job EXCEPT ![w] = [n |-> n, key |-> key]]
          /\ now' = [now EXCEPT ![w] = clock]
          /\ pc' = [pc EXCEPT ![w] = "member"]
          /\ fate' = [fate EXCEPT ![n] = "working"]
          /\ keyOf' = [keyOf EXCEPT ![n] = key]
          /\ readAt' = [readAt EXCEPT ![n] = clock]
          /\ UNCHANGED <<clock, sent, cooldown, tables, victims, stops, stampers, raced>>
      BY <1>2 DEF TakePlate, n, key
    <2>3. clock \in 0..clock
      BY DEF TypeOK
    <2> QED
      BY <2>1, <2>2, <2>3 DEF TypeOK, tables, Fates
  <1>3. CASE Member(w) \/ Expired(w)
    BY <1>3 DEF Member, Expired, TypeOK, tables, locals, ghosts
  <1>4. CASE Stamp(w)
    <2>1. job[w].key \in Keys /\ job[w].n \in Payloads
      BY <1>4, JobType DEF Stamp, Busy
    <2>2. cooldown' \in [Keys -> 0..clock \cup {Absent}]
      BY <1>4, <2>1 DEF Stamp, TypeOK
    <2> QED
      BY <1>4, <2>1, <2>2 DEF Stamp, TypeOK, tables, locals
  <1>5. CASE Items(w)
    BY <1>5 DEF Items, TypeOK, tables, ghosts
  <1>6. ASSUME NEW k \in Keys, Sweep(w, k)
        PROVE  TypeOK'
    BY <1>6 DEF Sweep, TypeOK, tables
  <1>7. CASE InsertDetection(w)
    <2>1. job[w].n \in Payloads
      BY <1>7, JobType DEF InsertDetection, ReadyToInsert, Busy
    <2> QED
      BY <1>7, <2>1 DEF InsertDetection, TypeOK, locals, ghosts, Fates
  <1>8. CASE InsertAlert(w) \/ InsertAlertFails(w)
    <2>1. job[w].n \in Payloads
      BY <1>8, JobType DEF InsertAlert, InsertAlertFails, Busy
    <2> QED
      BY <1>8, <2>1 DEF InsertAlert, InsertAlertFails, TypeOK, tables, locals, ghosts
  <1>9. CASE \/ Suppress(w) \/ AgeKeyError(w) \/ InsertFails(w) \/ DispatchRaises(w)
             \/ Push(w) \/ \E k \in Keys : SweepKeyError(w, k)
    <2>1. /\ Busy(w)
          /\ \E f \in Fates : Finish(w, f)
          /\ UNCHANGED <<clock, queue, sent, cooldown, tables, now, stops, ghosts>>
      BY <1>9 DEF Suppress, AgeKeyError, InsertFails, ReadyToInsert, DispatchRaises, Push,
                  SweepKeyError, Busy, Fates
    <2> QED
      BY <2>1, FinishType
  <1> QED
    BY <1>1, <1>2, <1>3, <1>4, <1>5, <1>6, <1>7, <1>8, <1>9 DEF Work

LEMMA ProcessType ==
    ASSUME TypeOK, JobsMatch, NEW w \in Workers,
           StopWorker(w) \/ KillWorker(w) \/ StartWorker(w)
    PROVE  TypeOK'
  <1>1. CASE StopWorker(w)
    <2>1. stops' \in 0..MaxStops
      BY <1>1, WorkersAssumption DEF StopWorker, TypeOK
    <2> QED
      BY <1>1, <2>1 DEF StopWorker, TypeOK, tables, locals, ghosts
  <1>2. CASE KillWorker(w)
    <2>1. stops' \in 0..MaxStops
      BY <1>2, WorkersAssumption DEF KillWorker, TypeOK
    <2>2. fate' \in [Payloads -> Fates]
      BY <1>2 DEF KillWorker, TypeOK, Fates
    <2> QED
      BY <1>2, <2>1, <2>2 DEF KillWorker, TypeOK, tables, ghosts
  <1>3. CASE StartWorker(w)
    BY <1>3 DEF StartWorker, TypeOK, tables, locals, ghosts
  <1> QED
    BY <1>1, <1>2, <1>3
\* The type of every variable is kept by every step.
LEMMA NextType == TypeOK /\ JobsMatch /\ [Next]_vars => TypeOK'
  <1> SUFFICES ASSUME TypeOK, JobsMatch, [Next]_vars
               PROVE  TypeOK'
    OBVIOUS
  <1>1. CASE UNCHANGED vars
    BY <1>1 DEF vars, tables, locals, ghosts, TypeOK
  <1> QED
    BY <1>1, EnvironmentType, WorkType, ProcessType DEF Next

-------------------------------------------------------------------------------
(* What each worker holds *)

LEMMA NextJobs == TypeOK /\ JobsMatch /\ EachPayloadInOnePlace /\ StampsMatch /\ [Next]_vars
                    => JobsMatch'
  <1> SUFFICES ASSUME TypeOK, JobsMatch, EachPayloadInOnePlace, StampsMatch, [Next]_vars
               PROVE  JobsMatch'
    OBVIOUS
  <1>1. CASE UNCHANGED vars
    BY <1>1 DEF vars, tables, locals, ghosts, JobsMatch, Busy
  <1>2. CASE \/ \E cam \in Cameras : Enqueue(cam) \/ DeleteCamera(cam)
             \/ Tick \/ DeleteAllLogs
    <2>1. UNCHANGED <<pc, locals, ghosts>>
      BY <1>2 DEF Enqueue, DeleteCamera, Tick, DeleteAllLogs
    <2> QED
      BY <2>1 DEF locals, ghosts, JobsMatch, Busy
  <1>3. ASSUME NEW w \in Workers, Work(w)
        PROVE  JobsMatch'
    <2>1. CASE TakeUnreadable(w)
      BY <2>1 DEF TakeUnreadable, locals, ghosts, JobsMatch, Busy
    <2>2. ASSUME NEW plate \in Plates, TakePlate(w, plate)
          PROVE  JobsMatch'
      <3> DEFINE n == Head(queue)[1]
                 key == <<Head(queue)[2], plate>>
      <3>1. /\ n \in Payloads /\ key \in Keys /\ fate[n] = "queued" /\ n \notin stampers
            /\ \A v \in Workers : Busy(v) => job[v].n # n
        <4>1. n \in Payloads /\ key \in Keys /\ queue[1][1] = n /\ 1 \in 1..Len(queue)
          BY <2>2, HeadType DEF TakePlate, Keys, TypeOK
        <4>2. fate[n] = "queued"
          BY <4>1 DEF EachPayloadInOnePlace
        <4>3. n \notin stampers
          BY <4>2 DEF StampsMatch
        <4>4. \A v \in Workers : Busy(v) => job[v].n # n
          BY <4>1, <4>2 DEF EachPayloadInOnePlace, Busy
        <4> QED
          BY <4>1, <4>2, <4>3, <4>4
      <3> HIDE DEF n, key
      <3>2. /\ job' = [job EXCEPT ![w] = [n |-> n, key |-> key]]
            /\ now' = [now EXCEPT ![w] = clock]
            /\ pc' = [pc EXCEPT ![w] = "member"]
            /\ keyOf' = [keyOf EXCEPT ![n] = key]
            /\ readAt' = [readAt EXCEPT ![n] = clock]
            /\ stampers' = stampers
        BY <2>2 DEF TakePlate, n, key
      <3>3. ASSUME NEW v \in Workers, v # w
            PROVE  /\ ~Busy(v)' => job'[v] = NoJob
                   /\ Busy(v)' => /\ job'[v] # NoJob
                                  /\ keyOf'[job'[v].n] = job'[v].key
                                  /\ readAt'[job'[v].n] = now'[v]
                                  /\ (job'[v].n \in stampers')
                                        <=> pc'[v] \notin {"member", "age", "stamp"}
        <4>1. pc'[v] = pc[v] /\ job'[v] = job[v] /\ now'[v] = now[v]
          BY <3>2, <3>3 DEF TypeOK
        <4>2. Busy(v) => keyOf'[job[v].n] = keyOf[job[v].n] /\ readAt'[job[v].n] = readAt[job[v].n]
          BY <3>1, <3>2 DEF TypeOK
        <4> QED
          BY <3>2, <4>1, <4>2 DEF JobsMatch, Busy
      <3>4. job'[w] = [n |-> n, key |-> key] /\ now'[w] = clock /\ pc'[w] = "member"
        BY <3>2 DEF TypeOK
      <3>5. keyOf'[n] = key /\ readAt'[n] = clock /\ n \notin stampers'
        BY <3>1, <3>2 DEF TypeOK
      <3>6. job'[w] # NoJob
        BY <3>1, <3>4 DEF NoJob, Payloads
      <3> QED
        BY <3>3, <3>4, <3>5, <3>6 DEF JobsMatch, Busy
    <2>3. CASE Member(w) \/ Expired(w) \/ Items(w) \/ \E k \in Keys : Sweep(w, k)
      <3>1. /\ UNCHANGED <<job, now, keyOf, readAt, stampers>>
            /\ \A v \in Workers : Busy(v)' = Busy(v)
            /\ \A v \in Workers : pc'[v] \in {"member", "age", "stamp"}
                                     <=> pc[v] \in {"member", "age", "stamp"}
        BY <2>3 DEF Member, Expired, Items, Sweep, locals, ghosts, Busy, TypeOK
      <3> QED
        BY <3>1 DEF JobsMatch, Busy
    <2>4. CASE Stamp(w)
      <3>1. /\ UNCHANGED <<job, now, keyOf, readAt>> /\ stampers' = stampers \cup {job[w].n}
            /\ pc[w] = "stamp" /\ pc' = [pc EXCEPT ![w] = "items"] /\ Busy(w)
        BY <2>4 DEF Stamp, locals, Busy
      <3>2. \A v \in Workers : v # w /\ Busy(v) => job[v].n # job[w].n
        BY <3>1 DEF EachPayloadInOnePlace, JobsMatch
      <3> QED
        BY <3>1, <3>2 DEF JobsMatch, Busy, TypeOK
    <2>5. CASE InsertDetection(w) \/ InsertAlert(w) \/ InsertAlertFails(w)
      <3>1. /\ UNCHANGED <<job, now, keyOf, readAt, stampers>>
            /\ \A v \in Workers : Busy(v)' = Busy(v)
            /\ \A v \in Workers : pc'[v] \in {"member", "age", "stamp"}
                                     <=> pc[v] \in {"member", "age", "stamp"}
        BY <2>5 DEF InsertDetection, ReadyToInsert, InsertAlert, InsertAlertFails, locals,
                    ghosts, Busy, TypeOK
      <3> QED
        BY <3>1 DEF JobsMatch, Busy
    <2>6. CASE \/ Suppress(w) \/ AgeKeyError(w) \/ InsertFails(w) \/ DispatchRaises(w)
               \/ Push(w) \/ \E k \in Keys : SweepKeyError(w, k)
      <3>1. /\ pc' = [pc EXCEPT ![w] = "idle"] /\ job' = [job EXCEPT ![w] = NoJob]
            /\ UNCHANGED <<now, ghosts>>
        BY <2>6 DEF Suppress, AgeKeyError, InsertFails, DispatchRaises, Push, SweepKeyError,
                    Finish
      <3> QED
        BY <3>1 DEF JobsMatch, Busy, TypeOK, ghosts
    <2> QED
      BY <1>3, <2>1, <2>2, <2>3, <2>4, <2>5, <2>6 DEF Work
  <1>4. ASSUME NEW w \in Workers, StopWorker(w) \/ KillWorker(w) \/ StartWorker(w)
        PROVE  JobsMatch'
    <2>1. CASE StopWorker(w) \/ StartWorker(w)
      BY <2>1 DEF StopWorker, StartWorker, JobsMatch, Busy, TypeOK, locals, ghosts
    <2>2. CASE KillWorker(w)
      BY <2>2 DEF KillWorker, JobsMatch, Busy, TypeOK, ghosts
    <2> QED
      BY <1>4, <2>1, <2>2
  <1> QED
    BY <1>1, <1>2, <1>3, <1>4 DEF Next

-------------------------------------------------------------------------------
(* Where each payload is *)

Late(w) == pc[w] \in {"alert", "push"}

\* The steps that move no payload and decide no fate.
LEMMA StillInPlace ==
    ASSUME EachPayloadInOnePlace, UNCHANGED <<queue, sent, fate, job>>,
           \A w \in Workers : Late(w)' = Late(w)
    PROVE  EachPayloadInOnePlace'
  BY DEF EachPayloadInOnePlace, Late

\* A worker lets its payload go, whose fate is then decided.
LEMMA LetGoInPlace ==
    ASSUME TypeOK, JobsMatch, EachPayloadInOnePlace, NEW w \in Workers, Busy(w),
           NEW f \in {"suppressed", "stored", "lost"}, Late(w) => f = "stored",
           UNCHANGED <<queue, sent>>, job' = [job EXCEPT ![w] = NoJob],
           fate' = [fate EXCEPT ![job[w].n] = f],
           \A v \in Workers \ {w} : Late(v)' = Late(v),
           ~Late(w)'
    PROVE  EachPayloadInOnePlace'
  <1> DEFINE n == job[w].n
  <1>1. n \in Payloads /\ job[w] # NoJob
    BY JobType DEF JobsMatch
  <1>2. \A v \in Workers \ {w} : job[v].n # n
    BY <1>1 DEF EachPayloadInOnePlace
  <1>3. fate[n] \notin {"unsent", "queued"}
    BY <1>1 DEF EachPayloadInOnePlace, Late
  <1>4. /\ fate'[n] = f /\ job'[w] = NoJob /\ NoJob.n \notin Payloads
        /\ \A m \in Payloads \ {n} : fate'[m] = fate[m]
        /\ \A v \in Workers \ {w} : job'[v] = job[v]
    BY <1>1 DEF TypeOK, NoJob, Payloads
  <1> HIDE DEF n
  <1>5. ASSUME NEW m \in Payloads
        PROVE  /\ fate'[m] = "unsent" <=> m > sent'
               /\ fate'[m] = "queued" <=> \E k \in 1..Len(queue') : queue'[k][1] = m
    BY <1>3, <1>4 DEF EachPayloadInOnePlace
  <1>6. ASSUME NEW m \in Payloads
        PROVE  /\ fate'[m] = "working" <=> \E v \in Workers : job'[v].n = m /\ ~Late(v)'
               /\ (\E v \in Workers : job'[v].n = m /\ Late(v)') => fate'[m] = "stored"
    <2>1. CASE m = n
      BY <1>2, <1>4, <2>1
    <2>2. CASE m # n
      <3>1. \A v \in Workers : job'[v].n = m <=> v # w /\ job[v].n = m
        BY <1>4
      <3>2. \A v \in Workers : job[v].n = m => v # w
        BY <2>2 DEF n
      <3> QED
        BY <1>4, <2>2, <3>1, <3>2 DEF EachPayloadInOnePlace, Late
    <2> QED
      BY <2>1, <2>2
  <1>7. \A u, v \in Workers : job'[u].n = job'[v].n /\ job'[u] # NoJob => u = v
    <2>1. \A u \in Workers : job'[u] # NoJob => u # w /\ job'[u] = job[u]
      BY <1>4
    <2>2. \A u \in Workers : job[u] # NoJob => job[u].n # 0
      BY DEF TypeOK, Payloads
    <2>3. \A u \in Workers : job'[u] # NoJob => job'[u].n # NoJob.n
      BY <2>1, <2>2 DEF NoJob
    <2> QED
      BY <1>4, <2>1, <2>3 DEF EachPayloadInOnePlace
  <1> QED
    BY <1>5, <1>6, <1>7 DEF EachPayloadInOnePlace, Late

\* The first payload of the queue is taken, and read or found unreadable.
LEMMA TakeInPlace ==
    ASSUME TypeOK, JobsMatch, EachPayloadInOnePlace, queue # <<>>, NEW w \in Workers, ~Busy(w),
           queue' = Tail(queue), UNCHANGED sent,
           \/ /\ fate' = [fate EXCEPT ![Head(queue)[1]] = "unreadable"]
              /\ UNCHANGED <<job, pc>>
           \/ \E key \in Keys :
                 /\ fate' = [fate EXCEPT ![Head(queue)[1]] = "working"]
                 /\ job' = [job EXCEPT ![w] = [n |-> Head(queue)[1], key |-> key]]
                 /\ pc' = [pc EXCEPT ![w] = "member"]
    PROVE  EachPayloadInOnePlace'
  <1> DEFINE n == Head(queue)[1]
  <1>1. /\ n \in Payloads /\ n = queue[1][1] /\ Len(queue) \in Nat /\ Len(queue) >= 1
        /\ Len(queue') = Len(queue) - 1
        /\ \A k \in 1..Len(queue') : queue'[k] = queue[k + 1]
    BY HeadType DEF TypeOK
  <1>2. fate[n] = "queued"
    BY <1>1 DEF EachPayloadInOnePlace
  <1>3. \A v \in Workers : job[v].n # n
    BY <1>1, <1>2 DEF EachPayloadInOnePlace
  <1>4. ASSUME NEW m \in Payloads
        PROVE  (\E k \in 1..Len(queue') : queue'[k][1] = m)
                  <=> m # n /\ \E k \in 1..Len(queue) : queue[k][1] = m
    <2>1. ASSUME NEW k \in 1..Len(queue'), queue'[k][1] = m
          PROVE  m # n /\ \E j \in 1..Len(queue) : queue[j][1] = m
      <3>1. k + 1 \in 1..Len(queue) /\ queue[k + 1][1] = m /\ 1 \in 1..Len(queue) /\ k + 1 # 1
        BY <1>1, <2>1
      <3> QED
        BY <1>1, <3>1 DEF EachPayloadInOnePlace
    <2>2. ASSUME m # n, NEW k \in 1..Len(queue), queue[k][1] = m
          PROVE  \E j \in 1..Len(queue') : queue'[j][1] = m
      <3>1. k # 1
        BY <1>1, <2>2
      <3>2. k - 1 \in 1..Len(queue') /\ queue'[k - 1] = queue[k]
        BY <1>1, <3>1
      <3> QED
        BY <2>2, <3>2
    <2> QED
      BY <2>1, <2>2
  <1>5. \A j, k \in 1..Len(queue') : queue'[j][1] = queue'[k][1] => j = k
    <2> SUFFICES ASSUME NEW j \in 1..Len(queue'), NEW k \in 1..Len(queue'),
                        queue'[j][1] = queue'[k][1]
                 PROVE  j = k
      OBVIOUS
    <2>1. j + 1 \in 1..Len(queue) /\ k + 1 \in 1..Len(queue)
      BY <1>1
    <2>2. queue[j + 1][1] = queue[k + 1][1]
      BY <1>1
    <2>3. j + 1 = k + 1
      BY <2>1, <2>2 DEF EachPayloadInOnePlace
    <2> QED
      BY <2>3
  <1> HIDE DEF n
  <1>6. CASE fate' = [fate EXCEPT ![n] = "unreadable"] /\ UNCHANGED <<job, pc>>
    BY <1>1, <1>2, <1>3, <1>4, <1>5, <1>6 DEF EachPayloadInOnePlace, TypeOK
  <1>7. ASSUME NEW key \in Keys,
               fate' = [fate EXCEPT ![n] = "working"],
               job' = [job EXCEPT ![w] = [n |-> n, key |-> key]],
               pc' = [pc EXCEPT ![w] = "member"]
        PROVE  EachPayloadInOnePlace'
    <2>1. /\ job'[w].n = n /\ job[w] = NoJob /\ NoJob.n \notin Payloads /\ ~Late(w)'
          /\ \A v \in Workers \ {w} : job'[v] = job[v] /\ Late(v)' = Late(v)
          /\ \A m \in Payloads \ {n} : fate'[m] = fate[m]
          /\ fate'[n] = "working"
      BY <1>1, <1>7 DEF JobsMatch, TypeOK, NoJob, Payloads, Late
    <2>2. ASSUME NEW m \in Payloads
          PROVE  /\ fate'[m] = "unsent" <=> m > sent'
                 /\ fate'[m] = "queued" <=> \E k \in 1..Len(queue') : queue'[k][1] = m
      <3>1. fate[m] = "unsent" <=> m > sent
        BY DEF EachPayloadInOnePlace
      <3>2. fate[m] = "queued" <=> \E k \in 1..Len(queue) : queue[k][1] = m
        BY DEF EachPayloadInOnePlace
      <3> QED
        BY <1>2, <1>4, <2>1, <3>1, <3>2
    <2>3. ASSUME NEW m \in Payloads
          PROVE  /\ fate'[m] = "working" <=> \E v \in Workers : job'[v].n = m /\ ~Late(v)'
                 /\ (\E v \in Workers : job'[v].n = m /\ Late(v)') => fate'[m] = "stored"
      <3>1. CASE m = n
        BY <1>3, <2>1, <3>1
      <3>2. CASE m # n
        BY <1>3, <2>1, <3>2 DEF EachPayloadInOnePlace, Late
      <3> QED
        BY <3>1, <3>2
    <2>4. \A u, v \in Workers : job'[u].n = job'[v].n /\ job'[u] # NoJob => u = v
      BY <1>3, <2>1 DEF EachPayloadInOnePlace
    <2> QED
      BY <1>5, <2>2, <2>3, <2>4 DEF EachPayloadInOnePlace, Late
  <1> QED
    BY <1>6, <1>7 DEF n

LEMMA EnqueueInPlace ==
    ASSUME TypeOK, EachPayloadInOnePlace, NEW cam \in Cameras, Enqueue(cam)
    PROVE  EachPayloadInOnePlace'
  <1> DEFINE n == sent + 1
  <1>1. /\ sent \in Nat /\ n \in Payloads /\ queue \in Seq(Payloads \X Cameras)
        /\ queue' = Append(queue, <<n, cam>>)
    BY WorkersAssumption DEF Enqueue, TypeOK, Payloads
  <1>2. fate[n] = "unsent"
    BY <1>1 DEF EachPayloadInOnePlace
  <1>3. \A v \in Workers : job[v].n # n
    BY <1>1, <1>2 DEF EachPayloadInOnePlace
  <1>4. ~ \E k \in 1..Len(queue) : queue[k][1] = n
    BY <1>1, <1>2 DEF EachPayloadInOnePlace
  <1>5. /\ Len(queue') = Len(queue) + 1 /\ Len(queue) \in Nat
        /\ \A k \in 1..Len(queue') : queue'[k][1] = IF k = Len(queue) + 1 THEN n ELSE queue[k][1]
    BY <1>1
  <1>6. \A j, k \in 1..Len(queue') : queue'[j][1] = queue'[k][1] => j = k
    <2>1. \A j, k \in 1..Len(queue) : queue[j][1] = queue[k][1] => j = k
      BY DEF EachPayloadInOnePlace
    <2> HIDE DEF n
    <2> QED
      BY <1>4, <1>5, <2>1
  <1>7. ASSUME NEW m \in Payloads
        PROVE  (\E k \in 1..Len(queue') : queue'[k][1] = m)
                  <=> m = n \/ \E k \in 1..Len(queue) : queue[k][1] = m
    <2> HIDE DEF n
    <2> QED
      BY <1>5
  <1>8. /\ UNCHANGED <<job, pc>> /\ sent' = n /\ fate'[n] = "queued"
        /\ \A m \in Payloads \ {n} : fate'[m] = fate[m]
    BY <1>1 DEF Enqueue, locals, TypeOK
  <1>9. ASSUME NEW m \in Payloads
        PROVE  fate'[m] = "unsent" <=> m > sent'
    <2>1. fate[m] = "unsent" <=> m > sent
      BY DEF EachPayloadInOnePlace
    <2> QED
      BY <1>1, <1>8, <2>1 DEF Payloads
  <1> HIDE DEF n
  <1> QED
    BY <1>2, <1>3, <1>6, <1>7, <1>8, <1>9 DEF EachPayloadInOnePlace

LEMMA NextInPlace == TypeOK /\ JobsMatch /\ EachPayloadInOnePlace /\ [Next]_vars
                       => EachPayloadInOnePlace'
  <1> SUFFICES ASSUME TypeOK, JobsMatch, EachPayloadInOnePlace, [Next]_vars
               PROVE  EachPayloadInOnePlace'
    OBVIOUS
  <1>1. CASE UNCHANGED vars
    BY <1>1, StillInPlace DEF vars, locals, Late
  <1>2. CASE \/ \E cam \in Cameras : DeleteCamera(cam)
             \/ Tick \/ DeleteAllLogs
    BY <1>2, StillInPlace DEF DeleteCamera, Tick, DeleteAllLogs, locals, Late
  <1>3. ASSUME NEW w \in Workers, Work(w)
        PROVE  EachPayloadInOnePlace'
    <2>1. CASE TakeUnreadable(w)
      BY <2>1, TakeInPlace DEF TakeUnreadable, Busy, locals
    <2>2. ASSUME NEW plate \in Plates, TakePlate(w, plate)
          PROVE  EachPayloadInOnePlace'
      <3>1. <<Head(queue)[2], plate>> \in Keys
        BY <2>2, HeadType DEF TakePlate, Keys
      <3> QED
        BY <2>2, <3>1, TakeInPlace DEF TakePlate, Busy
    <2>3. CASE \/ Member(w) \/ Expired(w) \/ Stamp(w) \/ Items(w)
               \/ InsertAlert(w) \/ InsertAlertFails(w) \/ \E k \in Keys : Sweep(w, k)
      <3>1. /\ UNCHANGED <<queue, sent, fate, job>>
            /\ \A v \in Workers : Late(v)' = Late(v)
        BY <2>3 DEF Member, Expired, Stamp, Items, InsertAlert, InsertAlertFails, Sweep,
                    locals, Late, TypeOK
      <3> QED
        BY <3>1, StillInPlace
    <2>4. CASE InsertDetection(w)
      <3> DEFINE n == job[w].n
      <3>1. /\ UNCHANGED <<queue, sent, job>> /\ n \in Payloads
            /\ ~Late(w) /\ Late(w)' /\ job[w] # NoJob
            /\ \A v \in Workers \ {w} : Late(v)' = Late(v)
            /\ fate'[n] = "stored" /\ \A m \in Payloads \ {n} : fate'[m] = fate[m]
        BY <2>4, JobType DEF InsertDetection, ReadyToInsert, locals, Late, Busy, TypeOK, JobsMatch
      <3>2. \A v \in Workers \ {w} : job[v].n # n
        BY <3>1 DEF EachPayloadInOnePlace
      <3>3. fate[n] = "working"
        BY <3>1 DEF EachPayloadInOnePlace, Late
      <3> QED
        BY <3>1, <3>2, <3>3 DEF EachPayloadInOnePlace, Late
    <2>5. CASE \/ Suppress(w) \/ AgeKeyError(w) \/ InsertFails(w) \/ DispatchRaises(w)
               \/ Push(w) \/ \E k \in Keys : SweepKeyError(w, k)
      <3>1. PICK f \in {"suppressed", "stored", "lost"} :
                /\ Finish(w, f) /\ Busy(w)
                /\ Late(w) => f = "stored"
                /\ UNCHANGED <<queue, sent>>
        BY <2>5 DEF Suppress, AgeKeyError, InsertFails, ReadyToInsert, DispatchRaises, Push,
                    SweepKeyError, Busy, Late
      <3>2. /\ job' = [job EXCEPT ![w] = NoJob] /\ fate' = [fate EXCEPT ![job[w].n] = f]
            /\ pc' = [pc EXCEPT ![w] = "idle"]
        BY <3>1 DEF Finish
      <3>3. ~Late(w)' /\ \A v \in Workers \ {w} : Late(v)' = Late(v)
        BY <3>2 DEF Late, TypeOK
      <3> QED
        BY <3>1, <3>2, <3>3, LetGoInPlace
    <2> QED
      BY <1>3, <2>1, <2>2, <2>3, <2>4, <2>5 DEF Work
  <1>4. ASSUME NEW w \in Workers, StopWorker(w) \/ KillWorker(w) \/ StartWorker(w)
        PROVE  EachPayloadInOnePlace'
    <2>1. CASE StopWorker(w) \/ StartWorker(w)
      <3>1. UNCHANGED <<queue, sent, fate, job>> /\ \A v \in Workers : Late(v)' = Late(v)
        BY <2>1 DEF StopWorker, StartWorker, locals, Late, TypeOK
      <3> QED
        BY <3>1, StillInPlace
    <2>2. CASE KillWorker(w)
      <3>1. /\ Busy(w) /\ job[w].n \in Payloads
            /\ UNCHANGED <<queue, sent>> /\ job' = [job EXCEPT ![w] = NoJob]
            /\ ~Late(w)' /\ \A v \in Workers \ {w} : Late(v)' = Late(v)
        BY <2>2, JobType DEF KillWorker, Busy, Late, TypeOK
      <3>2. CASE Late(w)
        <4>1. fate[job[w].n] = "stored"
          BY <3>1, <3>2 DEF EachPayloadInOnePlace, Late
        <4>2. fate' = [fate EXCEPT ![job[w].n] = "stored"]
          BY <2>2, <4>1 DEF KillWorker, TypeOK
        <4> QED
          BY <3>1, <3>2, <4>2, LetGoInPlace
      <3>3. CASE ~Late(w)
        <4>1. fate[job[w].n] = "working"
          BY <3>1, <3>3 DEF EachPayloadInOnePlace, Late
        <4>2. fate' = [fate EXCEPT ![job[w].n] = "lost"]
          BY <2>2, <3>1, <4>1 DEF KillWorker
        <4> QED
          BY <3>1, <3>3, <4>2, LetGoInPlace
      <3> QED
        BY <3>2, <3>3
    <2> QED
      BY <1>4, <2>1, <2>2
  <1> QED
    BY <1>1, <1>2, <1>3, <1>4, EnqueueInPlace DEF Next

-------------------------------------------------------------------------------
(* Stamps and suppressions *)

\* What every step but TakePlate leaves alone, and what a step may make of a fate.
Decides(n) ==
    /\ fate[n] \notin {"unsent", "queued"} => fate'[n] \notin {"unsent", "queued"}
    /\ fate'[n] = "stored" => n \in stampers
    /\ fate'[n] = "suppressed" /\ fate[n] # "suppressed" =>
          \E w \in Workers : Suppress(w) /\ job[w].n = n

\* The steps of one worker on a payload that it holds, but for the first.
LEMMA WorkDecides ==
    ASSUME TypeOK, JobsMatch, StampsMatch, NEW w \in Workers,
           \/ Member(w) \/ Suppress(w) \/ Expired(w) \/ AgeKeyError(w) \/ Stamp(w)
           \/ Items(w) \/ (\E k \in Keys : Sweep(w, k) \/ SweepKeyError(w, k))
           \/ InsertDetection(w) \/ InsertFails(w) \/ InsertAlert(w)
           \/ InsertAlertFails(w) \/ DispatchRaises(w) \/ Push(w) \/ KillWorker(w)
    PROVE  UNCHANGED <<keyOf, readAt>> /\ \A n \in Payloads : Decides(n)
  <1>1. \A n \in Payloads : fate[n] = "stored" => n \in stampers
    BY DEF StampsMatch
  <1>2. CASE \/ Member(w) \/ Expired(w) \/ Stamp(w) \/ Items(w) \/ InsertAlert(w)
             \/ InsertAlertFails(w) \/ \E k \in Keys : Sweep(w, k)
    <2>1. UNCHANGED <<fate, keyOf, readAt>>
      BY <1>2 DEF Member, Expired, Stamp, Items, InsertAlert, InsertAlertFails, Sweep, ghosts
    <2> QED
      BY <1>1, <2>1 DEF Decides
  <1>3. CASE InsertDetection(w)
    <2>1. job[w].n \in stampers /\ fate' = [fate EXCEPT ![job[w].n] = "stored"]
      BY <1>3 DEF InsertDetection, ReadyToInsert, JobsMatch, Busy
    <2>2. UNCHANGED <<keyOf, readAt>>
      BY <1>3 DEF InsertDetection, ghosts
    <2> QED
      BY <1>1, <2>1, <2>2 DEF Decides, TypeOK
  <1>4. CASE Suppress(w)
    <2>1. fate' = [fate EXCEPT ![job[w].n] = "suppressed"] /\ UNCHANGED <<keyOf, readAt>>
      BY <1>4 DEF Suppress, Finish, ghosts
    <2>2. ASSUME NEW n \in Payloads
          PROVE  Decides(n)
      <3>1. CASE n = job[w].n
        BY <1>4, <2>1, <3>1 DEF Decides, TypeOK
      <3>2. CASE n # job[w].n
        BY <1>1, <2>1, <3>2 DEF Decides, TypeOK
      <3> QED
        BY <3>1, <3>2
    <2> QED
      BY <2>1, <2>2
  <1>5. CASE \/ AgeKeyError(w) \/ InsertFails(w) \/ DispatchRaises(w) \/ Push(w)
             \/ KillWorker(w) \/ \E k \in Keys : SweepKeyError(w, k)
    <2>1. UNCHANGED <<keyOf, readAt>>
      BY <1>5 DEF AgeKeyError, InsertFails, DispatchRaises, Push, SweepKeyError, KillWorker,
                  ghosts
    <2>2. \/ fate' = [fate EXCEPT ![job[w].n] = "lost"]
          \/ fate' = fate
          \/ fate' = [fate EXCEPT ![job[w].n] = "stored"] /\ job[w].n \in stampers
      BY <1>5 DEF AgeKeyError, InsertFails, DispatchRaises, Push, SweepKeyError, KillWorker,
                  Finish, JobsMatch, Busy
    <2> QED
      BY <1>1, <2>1, <2>2 DEF Decides, TypeOK
  <1> QED
    BY <1>2, <1>3, <1>4, <1>5

\* Everything else that is not TakePlate.
LEMMA OthersDecide ==
    ASSUME TypeOK, EachPayloadInOnePlace, StampsMatch,
           \/ \E cam \in Cameras : Enqueue(cam) \/ DeleteCamera(cam)
           \/ Tick \/ DeleteAllLogs
           \/ \E w \in Workers : TakeUnreadable(w) \/ StopWorker(w) \/ StartWorker(w)
    PROVE  UNCHANGED <<keyOf, readAt, stampers, cooldown>> /\ \A n \in Payloads : Decides(n)
  <1>1. \A n \in Payloads : fate[n] = "stored" => n \in stampers
    BY DEF StampsMatch
  <1>2. UNCHANGED <<keyOf, readAt, stampers, cooldown>>
    BY DEF Enqueue, DeleteCamera, Tick, DeleteAllLogs, TakeUnreadable, StopWorker,
           StartWorker, ghosts
  <1>3. CASE \E cam \in Cameras : Enqueue(cam)
    <2>1. fate' = [fate EXCEPT ![sent + 1] = "queued"] /\ sent + 1 > sent
      BY <1>3 DEF Enqueue, TypeOK
    <2>2. \A n \in Payloads : fate[n] \notin {"unsent", "queued"} => n # sent + 1
      BY <2>1 DEF EachPayloadInOnePlace
    <2> QED
      BY <1>1, <1>2, <2>1, <2>2 DEF Decides, TypeOK
  <1>4. CASE \E w \in Workers : TakeUnreadable(w)
    <2>1. fate' = [fate EXCEPT ![Head(queue)[1]] = "unreadable"]
      BY <1>4 DEF TakeUnreadable
    <2> QED
      BY <1>1, <1>2, <2>1 DEF Decides, TypeOK
  <1>5. CASE fate' = fate
    BY <1>1, <1>2, <1>5 DEF Decides
  <1> QED
    BY <1>3, <1>4, <1>5 DEF DeleteCamera, Tick, DeleteAllLogs, StopWorker, StartWorker

\* The payload TakePlate reads has stamped nothing and been suppressed by nothing.
LEMMA TakeIsNew ==
    ASSUME TypeOK, EachPayloadInOnePlace, StampsMatch, NEW w \in Workers,
           NEW plate \in Plates, TakePlate(w, plate)
    PROVE  LET n == Head(queue)[1]
               key == <<Head(queue)[2], plate>>
           IN  /\ n \in Payloads /\ key \in Keys /\ n \notin stampers /\ fate[n] = "queued"
               /\ fate' = [fate EXCEPT ![n] = "working"]
               /\ keyOf' = [keyOf EXCEPT ![n] = key]
               /\ readAt' = [readAt EXCEPT ![n] = clock]
               /\ UNCHANGED <<stampers, cooldown, raced, clock>>
  <1> DEFINE n == Head(queue)[1]
             key == <<Head(queue)[2], plate>>
  <1>1. n \in Payloads /\ key \in Keys /\ queue[1][1] = n /\ 1 \in 1..Len(queue)
    BY HeadType DEF TakePlate, Keys, TypeOK
  <1>2. fate[n] = "queued"
    BY <1>1 DEF EachPayloadInOnePlace
  <1>3. n \notin stampers
    BY <1>2 DEF StampsMatch
  <1> QED
    BY <1>1, <1>2, <1>3 DEF TakePlate

LEMMA TakeStamps ==
    ASSUME TypeOK, EachPayloadInOnePlace, StampsMatch, SuppressionExplained,
           NEW w \in Workers, NEW plate \in Plates, TakePlate(w, plate)
    PROVE  StampsMatch' /\ SuppressionExplained'
  <1> DEFINE n == Head(queue)[1]
             key == <<Head(queue)[2], plate>>
  <1>1. /\ n \in Payloads /\ key \in Keys /\ n \notin stampers /\ fate[n] = "queued"
        /\ fate' = [fate EXCEPT ![n] = "working"]
        /\ keyOf' = [keyOf EXCEPT ![n] = key]
        /\ readAt' = [readAt EXCEPT ![n] = clock]
        /\ UNCHANGED <<stampers, cooldown>>
    BY TakeIsNew
  <1> HIDE DEF n, key
  <1>2. \A m \in stampers : keyOf'[m] = keyOf[m] /\ readAt'[m] = readAt[m] /\ fate'[m] = fate[m]
    BY <1>1 DEF TypeOK
  <1>3. StampsMatch'
    <2>1. \A m \in Payloads : fate'[m] = "stored" => fate[m] = "stored"
      BY <1>1 DEF TypeOK
    <2> QED
      BY <1>1, <1>2, <2>1 DEF StampsMatch
  <1>4. SuppressionExplained'
    <2>1. \A m \in Payloads : fate'[m] = "suppressed" =>
              fate[m] = "suppressed" /\ keyOf'[m] = keyOf[m] /\ readAt'[m] = readAt[m]
      BY <1>1 DEF TypeOK
    <2> QED
      BY <1>1, <1>2, <2>1 DEF SuppressionExplained
  <1> QED
    BY <1>3, <1>4

\* What a worker's access to the cache does to it.
LEMMA CacheStamps ==
    ASSUME TypeOK, JobsMatch, EachPayloadInOnePlace, StampsMatch, UNCHANGED <<keyOf, readAt>>,
           \A n \in Payloads : Decides(n),
           \/ UNCHANGED <<cooldown, stampers>>
           \/ \E w \in Workers : Stamp(w)
           \/ \E w \in Workers, k \in Keys : Sweep(w, k)
    PROVE  StampsMatch' /\ stampers \subseteq stampers'
  <1>1. CASE UNCHANGED <<cooldown, stampers>>
    <2>1. stampers \subseteq Payloads
      BY DEF TypeOK
    <2> QED
      BY <1>1, <2>1 DEF StampsMatch, Decides
  <1>2. ASSUME NEW w \in Workers, Stamp(w)
        PROVE  StampsMatch' /\ stampers \subseteq stampers'
    <2> DEFINE n == job[w].n
               key == job[w].key
    <2>1. /\ n \in Payloads /\ key \in Keys /\ keyOf[n] = key /\ readAt[n] = now[w]
          /\ stampers' = stampers \cup {n} /\ fate' = fate
          /\ cooldown' = [cooldown EXCEPT ![key] = now[w]]
      BY <1>2, JobType DEF Stamp, JobsMatch, Busy
    <2>2. fate[n] \notin {"unsent", "queued"}
      BY <1>2, <2>1 DEF Stamp, EachPayloadInOnePlace
    <2> QED
      BY <2>1, <2>2 DEF StampsMatch, TypeOK
  <1>3. ASSUME NEW w \in Workers, NEW k \in Keys, Sweep(w, k)
        PROVE  StampsMatch' /\ stampers \subseteq stampers'
    <2>1. UNCHANGED <<stampers, fate>> /\ cooldown' = [cooldown EXCEPT ![k] = Absent]
      BY <1>3 DEF Sweep
    <2> QED
      BY <2>1 DEF StampsMatch, TypeOK
  <1> QED
    BY <1>1, <1>2, <1>3

\* A payload that is suppressed found a stamp of another payload of its key.
LEMMA SuppressExplains ==
    ASSUME TypeOK, JobsMatch, StampsMatch, SuppressionExplained,
           UNCHANGED <<keyOf, readAt>>, stampers \subseteq stampers',
           \A n \in Payloads : Decides(n)
    PROVE  SuppressionExplained'
  <1> SUFFICES ASSUME NEW n \in Payloads, fate'[n] = "suppressed"
               PROVE  \E m \in stampers' \ {n} :
                          keyOf'[m] = keyOf'[n] /\ readAt'[n] - readAt'[m] < Cooldown
    BY DEF SuppressionExplained
  <1>1. CASE fate[n] = "suppressed"
    BY <1>1 DEF SuppressionExplained
  <1>2. CASE fate[n] # "suppressed"
    <2>1. PICK w \in Workers : Suppress(w) /\ job[w].n = n
      BY <1>2 DEF Decides
    <2>2. /\ pc[w] = "age" /\ cooldown[job[w].key] # Absent
          /\ now[w] - cooldown[job[w].key] < Cooldown
      BY <2>1 DEF Suppress, Age
    <2>3. job[w].key \in Keys /\ keyOf[n] = job[w].key /\ readAt[n] = now[w] /\ n \notin stampers
      BY <2>1, <2>2, JobType DEF JobsMatch, Busy
    <2>4. PICK m \in stampers : keyOf[m] = job[w].key /\ readAt[m] = cooldown[job[w].key]
      BY <2>2, <2>3 DEF StampsMatch
    <2> QED
      BY <2>2, <2>3, <2>4
  <1> QED
    BY <1>1, <1>2

LEMMA NextStamps ==
    TypeOK /\ JobsMatch /\ EachPayloadInOnePlace /\ StampsMatch /\ SuppressionExplained
      /\ [Next]_vars => StampsMatch' /\ SuppressionExplained'
  <1> SUFFICES ASSUME TypeOK, JobsMatch, EachPayloadInOnePlace, StampsMatch,
                      SuppressionExplained, [Next]_vars
               PROVE  StampsMatch' /\ SuppressionExplained'
    OBVIOUS
  <1>1. CASE UNCHANGED vars
    BY <1>1 DEF vars, tables, locals, ghosts, StampsMatch, SuppressionExplained
  <1>2. CASE \/ \E cam \in Cameras : Enqueue(cam) \/ DeleteCamera(cam)
             \/ Tick \/ DeleteAllLogs
             \/ \E w \in Workers : TakeUnreadable(w) \/ StopWorker(w) \/ StartWorker(w)
    <2>1. UNCHANGED <<keyOf, readAt, stampers, cooldown>> /\ \A n \in Payloads : Decides(n)
      BY <1>2, OthersDecide
    <2> QED
      BY <2>1, CacheStamps, SuppressExplains
  <1>3. ASSUME NEW w \in Workers,
               \/ Member(w) \/ Suppress(w) \/ Expired(w) \/ AgeKeyError(w) \/ Stamp(w)
               \/ Items(w) \/ (\E k \in Keys : Sweep(w, k) \/ SweepKeyError(w, k))
               \/ InsertDetection(w) \/ InsertFails(w) \/ InsertAlert(w)
               \/ InsertAlertFails(w) \/ DispatchRaises(w) \/ Push(w) \/ KillWorker(w)
        PROVE  StampsMatch' /\ SuppressionExplained'
    <2>1. UNCHANGED <<keyOf, readAt>> /\ \A n \in Payloads : Decides(n)
      BY <1>3, WorkDecides
    <2>2. \/ UNCHANGED <<cooldown, stampers>>
          \/ \E v \in Workers : Stamp(v)
          \/ \E v \in Workers, k \in Keys : Sweep(v, k)
      BY <1>3 DEF Member, Suppress, Expired, AgeKeyError, Items, SweepKeyError,
                  InsertDetection, InsertFails, InsertAlert, InsertAlertFails,
                  DispatchRaises, Push, KillWorker, ghosts
    <2> QED
      BY <2>1, <2>2, CacheStamps, SuppressExplains
  <1> QED
    BY <1>1, <1>2, <1>3, TakeStamps DEF Next, Work

-------------------------------------------------------------------------------
(* Alerts *)

LEMMA NextAlerts == AlertsHaveDetections /\ [Next]_vars => AlertsHaveDetections'
  <1> SUFFICES ASSUME AlertsHaveDetections, [Next]_vars
               PROVE  AlertsHaveDetections'
    OBVIOUS
  <1>1. CASE UNCHANGED <<rows, alerts>>
    BY <1>1 DEF AlertsHaveDetections
  <1>2. CASE DeleteAllLogs
    BY <1>2 DEF DeleteAllLogs, AlertsHaveDetections
  <1>3. ASSUME NEW w \in Workers, InsertDetection(w) \/ InsertAlert(w)
        PROVE  AlertsHaveDetections'
    BY <1>3 DEF InsertDetection, InsertAlert, AlertsHaveDetections
  <1>4. CASE UNCHANGED vars
    BY <1>1, <1>4 DEF vars, tables
  <1>5. CASE \/ \E cam \in Cameras : Enqueue(cam) \/ DeleteCamera(cam)
             \/ Tick \/ \E w \in Workers : StopWorker(w) \/ KillWorker(w) \/ StartWorker(w)
    BY <1>1, <1>5 DEF Enqueue, DeleteCamera, Tick, StopWorker, KillWorker, StartWorker, tables
  <1>6. ASSUME NEW w \in Workers, Work(w), ~InsertDetection(w), ~InsertAlert(w)
        PROVE  AlertsHaveDetections'
    BY <1>1, <1>6 DEF Work, TakeUnreadable, TakePlate, Member, Suppress, Expired, AgeKeyError,
       Stamp, Items, Sweep, SweepKeyError, InsertFails, InsertAlertFails, DispatchRaises,
       Push, tables
  <1> QED
    BY <1>2, <1>3, <1>4, <1>5, <1>6 DEF Next

-------------------------------------------------------------------------------
(* Races *)

\* Worker w may come to stamp k without having seen a stamp of it.
Hopes(w, k) ==
    /\ job[w].key = k
    /\ \/ pc[w] = "stamp"
       \/ pc[w] \in {"member", "age"} /\ cooldown[k] = Absent

\* The numbers the arguments about time need.
LEMMA SpacedTypes ==
    ASSUME TypeOK
    PROVE  /\ clock \in Int /\ Cooldown \in Int /\ Cooldown > 0
           /\ \A m \in stampers : m \in Payloads /\ readAt[m] \in Int /\ readAt[m] <= clock
           /\ \A w \in Workers : now[w] \in Int /\ now[w] <= clock
           /\ \A k \in Keys : cooldown[k] # Absent => cooldown[k] \in Int /\ cooldown[k] <= clock
  BY WorkersAssumption DEF TypeOK

\* A step that changes neither the stampers of k nor its stamp nor lets a worker hope that
\* is not late enough.
LEMMA StillOf ==
    ASSUME TypeOK, NEW k \in Keys, Apart(k), clock' \in Int, clock <= clock',
           cooldown'[k] = cooldown[k], Of(k)' = Of(k),
           \A m \in Of(k) : readAt'[m] = readAt[m],
           \A w \in Workers : Hopes(w, k)' =>
               \/ Hopes(w, k) /\ now'[w] = now[w]
               \/ \A m \in Of(k) : now'[w] - readAt[m] >= Cooldown
    PROVE  Apart(k)'
  <1>1. \A m \in Of(k) : m \in stampers
    BY DEF Of
  <1>2. \A m \in Of(k), w \in Workers : Hopes(w, k) => now[w] - readAt[m] >= Cooldown
    BY DEF Apart, Hopes
  <1>3. \A m \in Of(k), w \in Workers : Hopes(w, k)' => now'[w] - readAt'[m] >= Cooldown
    BY <1>2
  <1>4. \A m \in Of(k) : cooldown'[k] # Absent => readAt'[m] <= cooldown'[k]
    BY DEF Apart
  <1>5. \A m \in Of(k) : cooldown'[k] = Absent => clock' - readAt'[m] >= Cooldown
    BY <1>1, SpacedTypes DEF Apart
  <1>6. \A m, n \in Of(k) : m # n => Distance(readAt'[m], readAt'[n]) >= Cooldown
    BY DEF Apart
  <1> QED
    BY <1>3, <1>4, <1>5, <1>6 DEF Apart, Hopes

\* The same for a step that stamps nothing.
LEMMA StillApart ==
    ASSUME TypeOK, NEW k \in Keys, Apart(k), clock' \in Int, clock <= clock',
           cooldown'[k] = cooldown[k], UNCHANGED stampers,
           \A m \in stampers : keyOf'[m] = keyOf[m] /\ readAt'[m] = readAt[m],
           \A w \in Workers : Hopes(w, k)' =>
               \/ Hopes(w, k) /\ now'[w] = now[w]
               \/ \A m \in Of(k) : now'[w] - readAt[m] >= Cooldown
    PROVE  Apart(k)'
  <1>1. Of(k)' = Of(k)
    BY DEF Of
  <1>2. \A m \in Of(k) : readAt'[m] = readAt[m]
    BY DEF Of
  <1> QED
    BY <1>1, <1>2, StillOf

\* The steps that leave the cache alone; NextApart treats the others.
LEMMA QuietApart ==
    ASSUME TypeOK, JobsMatch, EachPayloadInOnePlace, StampsMatch, RaceInv,
           NEW k \in Keys \ raced, Next,
           UNCHANGED <<cooldown, stampers, raced>>
    PROVE  Apart(k)'
  <1>0. Apart(k) /\ clock \in Int
    BY SpacedTypes DEF RaceInv
  <1>1. CASE Tick
    <2>1. clock' \in Int /\ clock <= clock'
      BY <1>0, <1>1 DEF Tick
    <2>2. UNCHANGED <<pc, job, now, keyOf, readAt>>
      BY <1>1 DEF Tick, locals, ghosts
    <2>3. \A w \in Workers : Hopes(w, k)' => Hopes(w, k) /\ now'[w] = now[w]
      BY <2>2 DEF Hopes
    <2> QED
      BY <1>0, <2>1, <2>2, <2>3, StillApart
  <1>2. ASSUME NEW w \in Workers, NEW plate \in Plates, TakePlate(w, plate)
        PROVE  Apart(k)'
    <2> DEFINE n == Head(queue)[1]
               key == <<Head(queue)[2], plate>>
    <2>1. /\ n \in Payloads /\ n \notin stampers
          /\ keyOf' = [keyOf EXCEPT ![n] = key] /\ readAt' = [readAt EXCEPT ![n] = clock]
          /\ UNCHANGED clock
      BY <1>2, TakeIsNew
    <2>2. \A m \in stampers : keyOf'[m] = keyOf[m] /\ readAt'[m] = readAt[m]
      BY <2>1 DEF TypeOK
    <2>3. /\ now' = [now EXCEPT ![w] = clock] /\ pc' = [pc EXCEPT ![w] = "member"]
          /\ job' = [job EXCEPT ![w] = [n |-> n, key |-> key]]
      BY <1>2 DEF TakePlate
    <2> HIDE DEF n, key
    <2>4. ASSUME NEW v \in Workers, Hopes(v, k)'
          PROVE  \/ Hopes(v, k) /\ now'[v] = now[v]
                 \/ \A m \in Of(k) : now'[v] - readAt[m] >= Cooldown
      <3>1. CASE v = w
        <4>1. now'[v] = clock /\ cooldown[k] = Absent
          BY <2>3, <2>4, <3>1 DEF Hopes, TypeOK
        <4> QED
          BY <1>0, <4>1 DEF Apart
      <3>2. CASE v # w
        BY <2>3, <2>4, <3>2 DEF Hopes, TypeOK
      <3> QED
        BY <3>1, <3>2
    <2> QED
      BY <1>0, <2>1, <2>2, <2>4, StillApart
  <1>3. ASSUME NEW w \in Workers, Member(w) \/ Expired(w)
        PROVE  Apart(k)'
    <2>1. /\ UNCHANGED <<clock, job, now, keyOf, readAt>>
          /\ pc'[w] \in {"stamp", "age"} /\ \A v \in Workers \ {w} : pc'[v] = pc[v]
      BY <1>3 DEF Member, Expired, locals, ghosts, TypeOK
    <2>2. ASSUME NEW v \in Workers, Hopes(v, k)'
          PROVE  Hopes(v, k) \/ \A m \in Of(k) : now[v] - readAt[m] >= Cooldown
      <3>1. CASE v # w
        BY <2>1, <2>2, <3>1 DEF Hopes
      <3>2. CASE v = w /\ Member(w)
        BY <2>1, <2>2, <3>2 DEF Hopes, Member, TypeOK
      <3>3. CASE v = w /\ Expired(w)
        <4>1. job[w].key = k /\ cooldown[k] # Absent /\ now[w] - cooldown[k] >= Cooldown
          BY <2>1, <2>2, <3>3 DEF Hopes, Expired, Age
        <4>2. ASSUME NEW m \in Of(k)
              PROVE  now[w] - readAt[m] >= Cooldown
          <5>1. readAt[m] <= cooldown[k] /\ m \in stampers
            BY <1>0, <4>1 DEF Apart, Of
          <5>2. readAt[m] \in Int /\ cooldown[k] \in Int /\ now[w] \in Int /\ Cooldown \in Int
            BY <4>1, <5>1, SpacedTypes
          <5> QED
            BY <4>1, <5>1, <5>2
        <4> QED
          BY <3>3, <4>2
      <3> QED
        BY <1>3, <3>1, <3>2, <3>3
    <2> QED
      BY <1>0, <2>1, <2>2, StillApart
  <1>4. ASSUME UNCHANGED <<clock, now, keyOf, readAt>>,
               \A w \in Workers : pc'[w] \in {"member", "age", "stamp"}
                                     => pc'[w] = pc[w] /\ job'[w] = job[w]
        PROVE  Apart(k)'
    <2>1. \A w \in Workers : Hopes(w, k)' => Hopes(w, k) /\ now'[w] = now[w]
      BY <1>4 DEF Hopes
    <2> QED
      BY <1>0, <1>4, <2>1, StillApart
  <1>5. CASE \/ \E cam \in Cameras : Enqueue(cam) \/ DeleteCamera(cam)
             \/ DeleteAllLogs \/ \E w \in Workers : TakeUnreadable(w)
    <2>1. UNCHANGED <<clock, now, keyOf, readAt, pc, job>>
      BY <1>5 DEF Enqueue, DeleteCamera, DeleteAllLogs, TakeUnreadable, locals, ghosts
    <2> QED
      BY <1>4, <2>1
  <1>6. ASSUME NEW w \in Workers,
               \/ Items(w) \/ InsertDetection(w) \/ InsertAlert(w) \/ InsertAlertFails(w)
               \/ StopWorker(w) \/ StartWorker(w) \/ KillWorker(w)
               \/ Suppress(w) \/ AgeKeyError(w) \/ InsertFails(w) \/ DispatchRaises(w)
               \/ Push(w) \/ \E key \in Keys : SweepKeyError(w, key)
        PROVE  Apart(k)'
    <2>1. /\ UNCHANGED <<clock, now, keyOf, readAt>>
          /\ pc'[w] \notin {"member", "age", "stamp"}
      BY <1>6 DEF Items, InsertDetection, InsertAlert, InsertAlertFails, StopWorker,
         StartWorker, KillWorker, Suppress, AgeKeyError, InsertFails, DispatchRaises, Push,
         SweepKeyError, Finish, locals, ghosts, TypeOK
    <2>2. \A v \in Workers \ {w} : pc'[v] = pc[v] /\ job'[v] = job[v]
      BY <1>6 DEF Items, InsertDetection, InsertAlert, InsertAlertFails, StopWorker,
         StartWorker, KillWorker, Suppress, AgeKeyError, InsertFails, DispatchRaises, Push,
         SweepKeyError, Finish, locals, TypeOK
    <2> QED
      BY <1>4, <2>1, <2>2
  <1>7. ASSUME NEW w \in Workers, Stamp(w)
        PROVE  FALSE
    BY <1>7 DEF Stamp, JobsMatch, Busy
  <1>8. ASSUME NEW w \in Workers, NEW key \in Keys, Sweep(w, key)
        PROVE  FALSE
    BY <1>8 DEF Sweep, TypeOK
  <1> QED
    BY <1>1, <1>2, <1>3, <1>5, <1>6, <1>7, <1>8 DEF Next, Work

\* A stamp: only its own key's stamps change, and no other worker still hopes for it.
LEMMA StampApart ==
    ASSUME TypeOK, JobsMatch, RaceInv, NEW w \in Workers, Stamp(w), NEW k \in Keys \ raced'
    PROVE  Apart(k)'
  <1> DEFINE n == job[w].n
             key == job[w].key
  <1>1. /\ pc[w] = "stamp" /\ pc' = [pc EXCEPT ![w] = "items"]
        /\ stampers' = stampers \cup {n} /\ cooldown' = [cooldown EXCEPT ![key] = now[w]]
        /\ UNCHANGED <<clock, job, now, keyOf, readAt>>
    BY DEF Stamp, locals
  <1>2. /\ n \in Payloads /\ key \in Keys /\ keyOf[n] = key /\ readAt[n] = now[w]
        /\ n \notin stampers
    BY <1>1, JobType DEF JobsMatch, Busy
  <1>3. k \notin raced /\ Apart(k)
    BY DEF Stamp, RaceInv
  <1>4. CASE k # key
    <2>1. Of(k)' = Of(k)
      BY <1>1, <1>2, <1>4 DEF Of
    <2>2. cooldown'[k] = cooldown[k] /\ clock \in Int
      BY <1>1, <1>4, SpacedTypes DEF TypeOK
    <2>3. \A v \in Workers : Hopes(v, k)' => Hopes(v, k) /\ now'[v] = now[v]
      BY <1>1, <2>2 DEF Hopes, TypeOK
    <2> QED
      BY <1>1, <1>3, <2>1, <2>2, <2>3, StillOf
  <1>5. CASE k = key
    <2>1. \A v \in Workers \ {w} : ~(pc[v] = "stamp" /\ job[v].key = k)
      BY <1>5 DEF Stamp
    <2>2. cooldown'[k] = now[w] /\ now[w] # Absent
      BY <1>1, <1>5, SpacedTypes, WorkersAssumption DEF TypeOK
    <2>3. \A v \in Workers : ~Hopes(v, k)'
      BY <1>1, <2>1, <2>2 DEF Hopes, TypeOK
    <2>4. Of(k)' = Of(k) \cup {n}
      BY <1>1, <1>2, <1>5 DEF Of
    <2>5. ASSUME NEW m \in Of(k)
          PROVE  /\ now[w] - readAt[m] >= Cooldown /\ readAt[m] \in Int /\ m # n
                 /\ readAt[m] <= now[w]
      <3>1. now[w] - readAt[m] >= Cooldown
        BY <1>1, <1>3, <1>5 DEF Apart
      <3>2. m \in stampers
        BY DEF Of
      <3> QED
        BY <1>2, <3>1, <3>2, SpacedTypes
    <2>6. \A m \in Of(k)' : readAt'[m] <= cooldown'[k]
      BY <1>1, <1>2, <2>2, <2>4, <2>5, SpacedTypes
    <2>7. ASSUME NEW l \in Of(k)', NEW m \in Of(k)', l # m
          PROVE  Distance(readAt'[l], readAt'[m]) >= Cooldown
      <3>1. CASE l \in Of(k) /\ m \in Of(k)
        BY <1>1, <1>3, <2>7, <3>1 DEF Apart
      <3>2. CASE l = n /\ m \in Of(k)
        BY <1>1, <1>2, <2>5, <3>2, SpacedTypes DEF Distance
      <3>3. CASE l \in Of(k) /\ m = n
        BY <1>1, <1>2, <2>5, <3>3, SpacedTypes DEF Distance
      <3> QED
        BY <2>4, <2>7, <3>1, <3>2, <3>3
    <2> QED
      BY <2>2, <2>3, <2>6, <2>7 DEF Apart, Hopes
  <1> QED
    BY <1>4, <1>5

\* A deletion: unless it interferes, nobody needs the stamp it deletes.
LEMMA SweepApart ==
    ASSUME TypeOK, RaceInv, NEW w \in Workers, NEW key \in Keys, Sweep(w, key),
           NEW k \in Keys \ raced'
    PROVE  Apart(k)'
  <1>1. /\ cooldown[key] # Absent /\ cooldown' = [cooldown EXCEPT ![key] = Absent]
        /\ UNCHANGED <<clock, pc, job, now, keyOf, readAt, stampers>>
    BY DEF Sweep
  <1>2. k \notin raced /\ Apart(k)
    BY DEF Sweep, RaceInv
  <1>3. Of(k)' = Of(k) /\ clock \in Int
    BY <1>1, SpacedTypes DEF Of
  <1>4. CASE k # key
    <2>1. cooldown'[k] = cooldown[k]
      BY <1>1, <1>4 DEF TypeOK
    <2>2. \A v \in Workers : Hopes(v, k)' => Hopes(v, k) /\ now'[v] = now[v]
      BY <1>1, <2>1 DEF Hopes
    <2> QED
      BY <1>1, <1>2, <1>3, <2>1, <2>2, StillOf
  <1>5. CASE k = key
    <2>1. ~Needed(k)
      BY <1>5 DEF Sweep
    <2>2. cooldown[k] \in Int /\ cooldown[k] # Absent /\ cooldown'[k] = Absent
      BY <1>1, <1>5, SpacedTypes DEF TypeOK
    <2>3. \A m \in Of(k) : m \in stampers /\ readAt[m] \in Int /\ readAt[m] <= cooldown[k]
      BY <1>2, <2>2, SpacedTypes DEF Apart, Of
    <2>4. ASSUME NEW m \in Of(k)
          PROVE  clock - readAt[m] >= Cooldown
      <3>1. ~(clock - cooldown[k] < Cooldown)
        BY <2>1 DEF Needed
      <3> QED
        BY <2>2, <2>3, <3>1, SpacedTypes
    <2>5. ASSUME NEW m \in Of(k), NEW v \in Workers, Hopes(v, k)'
          PROVE  now[v] - readAt[m] >= Cooldown
      <3>1. CASE pc[v] = "stamp"
        BY <1>1, <1>2, <2>5, <3>1 DEF Apart, Hopes
      <3>2. CASE pc[v] \in {"member", "age"}
        <4>1. ~(now[v] - cooldown[k] < Cooldown)
          BY <1>1, <2>1, <2>5, <3>2 DEF Needed, Hopes
        <4> QED
          BY <2>2, <2>3, <4>1, SpacedTypes
      <3> QED
        BY <1>1, <2>5, <3>1, <3>2 DEF Hopes
    <2>6. \A l, m \in Of(k) : l # m => Distance(readAt[l], readAt[m]) >= Cooldown
      BY <1>2 DEF Apart
    <2> QED
      BY <1>1, <1>3, <2>2, <2>4, <2>5, <2>6 DEF Apart, Hopes
  <1> QED
    BY <1>4, <1>5

LEMMA NextRaces ==
    TypeOK /\ JobsMatch /\ EachPayloadInOnePlace /\ StampsMatch /\ RaceInv /\ [Next]_vars
      => RaceInv'
  <1> SUFFICES ASSUME TypeOK, JobsMatch, EachPayloadInOnePlace, StampsMatch, RaceInv,
                      [Next]_vars, NEW k \in Keys, k \notin raced'
               PROVE  Apart(k)'
    BY DEF RaceInv
  <1>1. CASE UNCHANGED vars
    <2>1. /\ UNCHANGED <<clock, cooldown, stampers, keyOf, readAt, pc, job, now>>
          /\ Apart(k) /\ clock \in Int
      BY <1>1, SpacedTypes DEF vars, tables, locals, ghosts, RaceInv
    <2>2. \A v \in Workers : Hopes(v, k)' => Hopes(v, k) /\ now'[v] = now[v]
      BY <2>1 DEF Hopes
    <2> QED
      BY <2>1, <2>2, StillApart
  <1>2. CASE \E w \in Workers : Stamp(w)
    BY <1>2, StampApart
  <1>3. CASE \E w \in Workers, key \in Keys : Sweep(w, key)
    BY <1>3, SweepApart
  <1>4. CASE Next /\ UNCHANGED <<cooldown, stampers, raced>>
    BY <1>4, QuietApart
  <1>5. CASE \/ \E cam \in Cameras : Enqueue(cam) \/ DeleteCamera(cam)
             \/ Tick \/ DeleteAllLogs
             \/ \E w \in Workers : StopWorker(w) \/ KillWorker(w) \/ StartWorker(w)
    <2>1. UNCHANGED <<cooldown, stampers, raced>>
      BY <1>5 DEF Enqueue, DeleteCamera, Tick, DeleteAllLogs, StopWorker, KillWorker,
                  StartWorker, ghosts
    <2> QED
      BY <1>4, <1>5, <2>1 DEF Next
  <1>6. ASSUME NEW w \in Workers, Work(w), ~Stamp(w), ~ \E key \in Keys : Sweep(w, key)
        PROVE  Apart(k)'
    <2>1. UNCHANGED <<cooldown, stampers, raced>>
      BY <1>6 DEF Work, TakeUnreadable, TakePlate, Member, Suppress, Expired, AgeKeyError,
         Items, SweepKeyError, InsertDetection, InsertFails, InsertAlert, InsertAlertFails,
         DispatchRaises, Push, ghosts
    <2> QED
      BY <1>4, <1>6, <2>1 DEF Next
  <1> QED
    BY <1>1, <1>2, <1>3, <1>5, <1>6 DEF Next

-------------------------------------------------------------------------------
(* The invariant holds *)

LEMMA InitIInv == Init => IInv
  <1> SUFFICES ASSUME Init
               PROVE  IInv
    OBVIOUS
  <1>1. /\ Len(queue) = 0 /\ queue \in Seq(Payloads \X Cameras)
        /\ NoJob.n = 0 /\ 0 \notin Payloads /\ \A n \in Payloads : n > 0
    BY DEF Init, NoJob, Payloads
  <1>2. TypeOK
    BY <1>1, WorkersAssumption DEF Init, TypeOK, Fates
  <1>3. JobsMatch
    BY DEF Init, JobsMatch, Busy
  <1>4. EachPayloadInOnePlace
    BY <1>1 DEF Init, EachPayloadInOnePlace
  <1>5. StampsMatch /\ SuppressionExplained /\ AlertsHaveDetections
    BY DEF Init, StampsMatch, SuppressionExplained, AlertsHaveDetections
  <1>6. RaceInv
    BY DEF Init, RaceInv, Apart, Of
  <1> QED
    BY <1>2, <1>3, <1>4, <1>5, <1>6 DEF IInv

\* The invariant holds in every state of every run.
THEOREM Invariance == Spec => []IInv
  <1>1. Init => IInv
    BY InitIInv
  <1>2. IInv /\ [Next]_vars => IInv'
    BY NextType, NextJobs, NextInPlace, NextStamps, NextAlerts, NextRaces DEF IInv
  <1> QED
    BY <1>1, <1>2, PTL DEF Spec

\* Every variable keeps its type, and no worker's now or stamp is ahead of the clock.
THEOREM TypeCorrect == Spec => []TypeOK
  <1>1. IInv => TypeOK
    BY DEF IInv
  <1> QED
    BY <1>1, Invariance, PTL

\* Exceptions, races and kills lose payloads but never have one handled twice or by two.
THEOREM OnePlace == Spec => []EachPayloadInOnePlace
  <1>1. IInv => EachPayloadInOnePlace
    BY DEF IInv
  <1> QED
    BY <1>1, Invariance, PTL

\* A plate is suppressed only by an earlier claim of its own key within the cooldown.
THEOREM Suppressions == Spec => []SuppressionExplained
  <1>1. IInv => SuppressionExplained
    BY DEF IInv
  <1> QED
    BY <1>1, Invariance, PTL

\* No alert refers to a detection that is not in its table.
THEOREM NoOrphanAlerts == Spec => []AlertsHaveDetections
  <1>1. IInv => AlertsHaveDetections
    BY DEF IInv
  <1> QED
    BY <1>1, Invariance, PTL

\* Without a race about its key, no plate is stored twice within the cooldown.
THEOREM DuplicatesNeedRaces == Spec => []DuplicateNeedsRace
  <1>1. IInv => DuplicateNeedsRace
    <2> SUFFICES ASSUME IInv, NEW m \in Payloads, NEW n \in Payloads, Repeats(m, n),
                        keyOf[m] \notin raced
                 PROVE  FALSE
      BY DEF DuplicateNeedsRace
    <2>1. /\ m \in stampers /\ n \in stampers /\ keyOf[m] \in Keys /\ keyOf[n] = keyOf[m]
          /\ m # n /\ Distance(readAt[m], readAt[n]) < Cooldown
      BY DEF IInv, StampsMatch, Repeats
    <2>2. Distance(readAt[m], readAt[n]) >= Cooldown
      BY <2>1 DEF IInv, RaceInv, Apart, Of
    <2>3. Distance(readAt[m], readAt[n]) \in Int /\ Cooldown \in Int
      BY <2>1, SpacedTypes DEF IInv, Distance
    <2> QED
      BY <2>1, <2>2, <2>3
  <1> QED
    BY <1>1, Invariance, PTL

===============================================================================
