--------------------------- MODULE StreamProofs ------------------------------
(***************************************************************************)
(* Part 1: what StreamManager promises for any number of cameras,          *)
(* responses and cells, any cap and any timeout, proved from one inductive *)
(* invariant.  Part 2: the manager with its sources (StreamSources, which  *)
(* extends StreamManager) does what StreamManager does, step by step, and  *)
(* leaves nothing behind.                                                  *)
(***************************************************************************)
EXTENDS StreamSources, FiniteSetTheorems, TLAPS

-------------------------------------------------------------------------------
(* The inductive invariant *)

\* One entry of the manager, and the age of the last request for it.
StreamInv(s, age) ==
    /\ s \in Streams
    /\ s.id = 0 => s = NoStream
    /\ s.id # 0 => (s.viewers = 0 <=> s.idle # Never)
    /\ s.idle # Never => s.idle <= age

StreamsInv == \A m \in Modes, c \in Cameras : StreamInv(streams[m][c], sinceGet[m][c])

FewRegistered ==
    \A m \in Modes : /\ IsFiniteSet(Registered(m))
                     /\ Cardinality(Registered(m)) <= MaxStreams

IInv == TypeOK /\ StreamsInv /\ FewRegistered /\ ViewersAccounted

-------------------------------------------------------------------------------
(* Lemmas about the helpers *)

LEMMA CountType ==
    ASSUME NEW S \in SUBSET Responses
    PROVE  /\ IsFiniteSet(S)
           /\ Cardinality(S) \in Nat
           /\ Cardinality(S) = 0 => S = {}
  BY FS_Subset, FS_CardinalityType, FS_EmptySet, StreamAssumption

LEMMA NoStreamInv == \A age \in Nat : StreamInv(NoStream, age)
  BY StreamAssumption DEF StreamInv, NoStream, Streams, Never

LEMMA ReleasedInv ==
    ASSUME NEW age \in Nat, NEW s, StreamInv(s, age), s.id # 0
    PROVE  /\ StreamInv(Released(s), age)
           /\ Released(s).id = s.id
           /\ s.viewers > 0 => Released(s).viewers = s.viewers - 1
  <1>1. s \in Streams /\ s.viewers \in Nat
    BY DEF StreamInv, Streams
  <1>2. CASE s.viewers <= 1
    <2>1. Released(s) = [s EXCEPT !.viewers = 0, !.idle = 0]
      BY <1>2 DEF Released
    <2>2. Released(s) \in Streams
      <3>1. 0 \in {Never} \cup 0..(IdleTimeout + 1)
        BY StreamAssumption
      <3>2. Released(s) = [id |-> s.id, viewers |-> 0, idle |-> 0]
        BY <1>1, <2>1 DEF Streams
      <3> QED
        BY <1>1, <3>1, <3>2 DEF Streams
    <2>3. Released(s).id = s.id /\ Released(s).viewers = 0 /\ Released(s).idle = 0
      BY <1>1, <2>1 DEF Streams
    <2> QED
      BY <1>1, <1>2, <2>2, <2>3 DEF StreamInv, Never
  <1>3. CASE s.viewers > 1
    <2>1. Released(s) = [s EXCEPT !.viewers = @ - 1]
      BY <1>1, <1>3 DEF Released
    <2>2. Released(s) \in Streams
      BY <1>1, <1>3, <2>1 DEF Streams
    <2>3. Released(s).id = s.id /\ Released(s).viewers = s.viewers - 1 /\ Released(s).idle = s.idle
      BY <1>1, <2>1 DEF Streams
    <2> QED
      BY <1>1, <1>3, <2>2, <2>3 DEF StreamInv, Never
  <1> QED
    BY <1>1, <1>2, <1>3

LEMMA AcquiredInv ==
    ASSUME IInv, NEW m \in Modes, NEW c \in Cameras
    PROVE  /\ StreamInv(Acquired(m, c), 0)
           /\ Acquired(m, c).viewers = streams[m][c].viewers + 1
           /\ Acquired(m, c).id # 0
           /\ streams[m][c].id # 0 => Acquired(m, c).id = streams[m][c].id
  <1>1. StreamInv(streams[m][c], sinceGet[m][c]) /\ streams[m][c] \in Streams /\ made \in Nat
    BY DEF IInv, StreamsInv, TypeOK
  <1>2. CASE c \in Registered(m)
    <2>1. streams[m][c].id # 0
      BY <1>2 DEF Registered
    <2>2. Acquired(m, c) = [streams[m][c] EXCEPT !.viewers = @ + 1, !.idle = Never]
      BY <1>2 DEF Acquired
    <2>3. Acquired(m, c) \in Streams
      <3>1. Acquired(m, c) =
               [id |-> streams[m][c].id, viewers |-> streams[m][c].viewers + 1, idle |-> Never]
        BY <1>1, <2>2 DEF Streams
      <3> QED
        BY <1>1, <3>1 DEF Streams
    <2>4. /\ Acquired(m, c).id = streams[m][c].id
          /\ Acquired(m, c).viewers = streams[m][c].viewers + 1
          /\ Acquired(m, c).idle = Never
      BY <1>1, <2>2 DEF Streams
    <2>5. streams[m][c].viewers \in Nat
      BY <1>1 DEF Streams
    <2> QED
      BY <2>1, <2>3, <2>4, <2>5 DEF StreamInv
  <1>3. CASE c \notin Registered(m)
    <2>1. streams[m][c] = NoStream
      BY <1>1, <1>3 DEF Registered, StreamInv
    <2>2. Acquired(m, c) = [id |-> made + 1, viewers |-> 1, idle |-> Never]
      BY <1>3 DEF Acquired
    <2> QED
      BY <1>1, <2>1, <2>2 DEF StreamInv, Streams, NoStream, Never
  <1> QED
    BY <1>2, <1>3

LEMMA OlderInv ==
    ASSUME NEW s, NEW age \in 0..(IdleTimeout + 1), StreamInv(s, age)
    PROVE  /\ StreamInv([s EXCEPT !.idle = Older(@)], Older(age))
           /\ Older(age) \in 0..(IdleTimeout + 1)
           /\ [s EXCEPT !.idle = Older(@)].id = s.id
           /\ [s EXCEPT !.idle = Older(@)].viewers = s.viewers
  BY StreamAssumption DEF StreamInv, Streams, Older, Never, NoStream

\* Fewer registered streams are still few.
LEMMA FewerRegistered ==
    ASSUME FewRegistered, \A m \in Modes : Registered(m)' \subseteq Registered(m)
    PROVE  FewRegistered'
  <1> SUFFICES ASSUME NEW m \in Modes
               PROVE  IsFiniteSet(Registered(m)') /\ Cardinality(Registered(m)') <= MaxStreams
    BY DEF FewRegistered
  <1>1. IsFiniteSet(Registered(m)) /\ Cardinality(Registered(m)) <= MaxStreams
    BY DEF FewRegistered
  <1>2. /\ IsFiniteSet(Registered(m)')
        /\ Cardinality(Registered(m)') <= Cardinality(Registered(m))
    BY <1>1, FS_Subset
  <1>3. Cardinality(Registered(m)) \in Nat /\ Cardinality(Registered(m)') \in Nat
    BY <1>1, <1>2, FS_CardinalityType
  <1> QED
    BY <1>1, <1>2, <1>3, StreamAssumption

\* What one counted request does to the manager.
LEMMA GetInv ==
    ASSUME IInv, NEW m \in Modes, NEW c \in Cameras, Get(m, c)
    PROVE  /\ streams' \in [Modes -> [Cameras -> Streams]]
           /\ sinceGet' \in [Modes -> [Cameras -> 0..(IdleTimeout + 1)]]
           /\ made' \in Nat /\ requests' \in 0..MaxRequests
           /\ StreamsInv'
           /\ FewRegistered'
  <1>1. /\ streams \in [Modes -> [Cameras -> Streams]]
        /\ sinceGet \in [Modes -> [Cameras -> 0..(IdleTimeout + 1)]]
        /\ made \in Nat /\ requests \in 0..MaxRequests
    BY DEF IInv, TypeOK
  <1>2. Acquired(m, c) \in Streams /\ StreamInv(Acquired(m, c), 0) /\ Acquired(m, c).id # 0
    BY AcquiredInv DEF StreamInv
  <1>3. /\ streams' = [streams EXCEPT ![m][c] = Acquired(m, c)]
        /\ sinceGet' = [sinceGet EXCEPT ![m][c] = 0]
    BY DEF Get
  <1>4. /\ streams' \in [Modes -> [Cameras -> Streams]]
        /\ sinceGet' \in [Modes -> [Cameras -> 0..(IdleTimeout + 1)]]
        /\ made' \in Nat /\ requests' \in 0..MaxRequests
    BY <1>1, <1>2, <1>3, StreamAssumption DEF Get
  <1>5. \A n \in Modes, d \in Cameras :
           /\ streams'[n][d] = IF n = m /\ d = c THEN Acquired(m, c) ELSE streams[n][d]
           /\ sinceGet'[n][d] = IF n = m /\ d = c THEN 0 ELSE sinceGet[n][d]
    BY <1>1, <1>3
  <1>6. StreamsInv'
    BY <1>2, <1>5 DEF StreamsInv, IInv
  <1>7. \A n \in Modes : Registered(n)' = IF n = m THEN Registered(m) \cup {c}
                                                  ELSE Registered(n)
    BY <1>2, <1>5 DEF Registered
  <1>8. FewRegistered'
    <2> SUFFICES ASSUME NEW n \in Modes
                 PROVE  /\ IsFiniteSet(Registered(n)')
                        /\ Cardinality(Registered(n)') <= MaxStreams
      BY DEF FewRegistered
    <2>1. IsFiniteSet(Registered(n)) /\ Cardinality(Registered(n)) <= MaxStreams
      BY DEF FewRegistered, IInv
    <2>2. CASE n # m
      BY <1>7, <2>1, <2>2
    <2>3. CASE n = m
      <3>1. /\ IsFiniteSet(Registered(n) \cup {c})
            /\ Cardinality(Registered(n) \cup {c}) =
                  IF c \in Registered(n) THEN Cardinality(Registered(n))
                                         ELSE Cardinality(Registered(n)) + 1
        BY <2>1, FS_AddElement
      <3>2. Cardinality(Registered(n)) \in Nat
        BY <2>1, FS_CardinalityType
      <3>3. c \in Registered(n) \/ Cardinality(Registered(n)) < MaxStreams
        BY <2>3 DEF Get, Admits
      <3>4. Registered(n)' = Registered(n) \cup {c}
        BY <1>7, <2>3
      <3> QED
        BY <2>1, <3>1, <3>2, <3>3, <3>4, StreamAssumption
    <2> QED
      BY <2>2, <2>3
  <1> QED
    BY <1>4, <1>6, <1>8

\* What one release does to the manager.
LEMMA ReleaseInv ==
    ASSUME IInv, NEW m \in Modes, NEW c \in Cameras, Release(m, c), UNCHANGED sinceGet
    PROVE  /\ streams' \in [Modes -> [Cameras -> Streams]]
           /\ StreamsInv'
           /\ FewRegistered'
           /\ \A n \in Modes, d \in Cameras : n # m \/ d # c => streams'[n][d] = streams[n][d]
           /\ streams'[m][c].id = streams[m][c].id
           /\ streams[m][c].id # 0 /\ streams[m][c].viewers > 0
                 => streams'[m][c].viewers = streams[m][c].viewers - 1
  <1>1. /\ streams \in [Modes -> [Cameras -> Streams]]
        /\ \A n \in Modes, d \in Cameras : sinceGet[n][d] \in Nat
        /\ \A n \in Modes, d \in Cameras : StreamInv(streams[n][d], sinceGet[n][d])
    BY StreamAssumption DEF IInv, TypeOK, StreamsInv
  <1>2. CASE c \notin Registered(m)
    <2>1. UNCHANGED streams
      BY <1>2 DEF Release
    <2>2. streams[m][c].id = 0
      BY <1>2 DEF Registered
    <2> QED
      BY <1>1, <2>1, <2>2 DEF IInv, StreamsInv, FewRegistered, Registered
  <1>3. CASE c \in Registered(m)
    <2>1. streams[m][c].id # 0
      BY <1>3 DEF Registered
    <2> DEFINE r == Released(streams[m][c])
    <2>2. /\ StreamInv(r, sinceGet[m][c])
          /\ r.id = streams[m][c].id
          /\ streams[m][c].viewers > 0 => r.viewers = streams[m][c].viewers - 1
      BY <1>1, <2>1, ReleasedInv
    <2>3. streams' = [streams EXCEPT ![m][c] = r]
      BY <1>1, <1>3 DEF Release
    <2>4. r \in Streams
      BY <2>2 DEF StreamInv
    <2> HIDE DEF r
    <2>5. /\ streams' \in [Modes -> [Cameras -> Streams]]
          /\ \A n \in Modes, d \in Cameras :
                streams'[n][d] = IF n = m /\ d = c THEN r ELSE streams[n][d]
      BY <1>1, <2>3, <2>4
    <2>6. StreamsInv'
      BY <1>1, <2>2, <2>5 DEF StreamsInv
    <2>7. \A n \in Modes : Registered(n)' \subseteq Registered(n)
      BY <2>2, <2>5 DEF Registered
    <2>8. FewRegistered'
      BY <2>7, FewerRegistered DEF IInv
    <2> QED
      BY <2>2, <2>5, <2>6, <2>8
  <1> QED
    BY <1>2, <1>3

\* A registered MJPEG stream has every open response on its account, an unregistered one
\* has none.
LEMMA Account ==
    ASSUME IInv, ~down, NEW c \in Cameras
    PROVE  /\ IsFiniteSet(OpenOn(c))
           /\ Cardinality(OpenOn(c)) \in Nat
           /\ leaked[c] \in Nat
           /\ streams["mjpeg"][c].viewers = Cardinality(OpenOn(c)) + leaked[c]
           /\ \A r \in OpenOn(c) : responses[r].id = streams["mjpeg"][c].id
           /\ OpenOn(c) # {} => streams["mjpeg"][c].id # 0
           /\ streams["mjpeg"][c].viewers = 0 => OpenOn(c) = {} /\ leaked[c] = 0
  <1>1. OpenOn(c) \subseteq Responses
    BY DEF OpenOn
  <1>2. /\ IsFiniteSet(OpenOn(c))
        /\ Cardinality(OpenOn(c)) \in Nat
        /\ Cardinality(OpenOn(c)) = 0 => OpenOn(c) = {}
    BY <1>1, CountType
  <1>3. leaked[c] \in Nat
    BY DEF IInv, TypeOK
  <1>4. /\ streams["mjpeg"][c].viewers = Cardinality(OpenOn(c)) + leaked[c]
        /\ \A r \in OpenOn(c) : responses[r].id = streams["mjpeg"][c].id
    BY DEF IInv, ViewersAccounted
  <1>5. \A r \in OpenOn(c) : responses[r].id # 0
    BY DEF OpenOn, IInv, TypeOK
  <1> QED
    BY <1>2, <1>3, <1>4, <1>5

-------------------------------------------------------------------------------
(* Each action preserves the invariant *)

LEMMA InitInv == Init => IInv
  <1> SUFFICES ASSUME Init PROVE IInv
    OBVIOUS
  <1>1. NoStream \in Streams /\ StreamInv(NoStream, 0)
    BY NoStreamInv DEF StreamInv
  <1>2. TypeOK
    <2>1. /\ streams \in [Modes -> [Cameras -> Streams]]
          /\ sinceGet \in [Modes -> [Cameras -> 0..(IdleTimeout + 1)]]
      BY <1>1, StreamAssumption DEF Init
    <2>2. responses \in [Responses ->
             [at : {"asked", "body"}, cam : Cameras, id : Nat \ {0}] \cup {Closed}]
      BY DEF Init
    <2>3. cells \in [Cells -> [at : {"mounted", "playing"}, cam : Cameras] \cup {Away}]
      BY DEF Init
    <2>4. made \in Nat /\ requests \in 0..MaxRequests
      BY StreamAssumption DEF Init
    <2>5. releases \in [Cameras -> Nat] /\ leaked \in [Cameras -> Nat]
      BY DEF Init
    <2>6. down \in BOOLEAN
      BY DEF Init
    <2> QED
      BY <2>1, <2>2, <2>3, <2>4, <2>5, <2>6 DEF TypeOK
  <1>3. StreamsInv
    BY <1>1 DEF Init, StreamsInv
  <1>4. \A m \in Modes : Registered(m) = {}
    BY DEF Init, Registered, NoStream
  <1>5. FewRegistered
    BY <1>4, FS_EmptySet, StreamAssumption DEF FewRegistered
  <1>6. \A c \in Cameras : OpenOn(c) = {}
    BY DEF Init, OpenOn
  <1>7. \A c \in Cameras : streams["mjpeg"][c].viewers = 0 /\ leaked[c] = 0
    BY DEF Init, NoStream, Modes
  <1>8. ViewersAccounted
    BY <1>6, <1>7, FS_EmptySet DEF ViewersAccounted
  <1> QED
    BY <1>2, <1>3, <1>5, <1>8 DEF IInv

LEMMA OpenMjpegInv ==
    ASSUME IInv, NEW r \in Responses, NEW c \in Cameras, OpenMjpeg(r, c)
    PROVE  IInv'
  <1> DEFINE new == [at |-> "asked", cam |-> c, id |-> Acquired("mjpeg", c).id]
  <1>1. Get("mjpeg", c) /\ "mjpeg" \in Modes /\ ~down /\ ~down'
    BY DEF OpenMjpeg, Modes, Get
  <1>2. /\ streams' \in [Modes -> [Cameras -> Streams]]
        /\ sinceGet' \in [Modes -> [Cameras -> 0..(IdleTimeout + 1)]]
        /\ made' \in Nat /\ requests' \in 0..MaxRequests
        /\ StreamsInv' /\ FewRegistered'
    BY <1>1, GetInv
  <1>3. /\ Acquired("mjpeg", c).id \in Nat \ {0}
        /\ Acquired("mjpeg", c).viewers = streams["mjpeg"][c].viewers + 1
        /\ streams["mjpeg"][c].id # 0 => Acquired("mjpeg", c).id = streams["mjpeg"][c].id
    <2>1. /\ StreamInv(Acquired("mjpeg", c), 0)
          /\ Acquired("mjpeg", c).viewers = streams["mjpeg"][c].viewers + 1
          /\ Acquired("mjpeg", c).id # 0
          /\ streams["mjpeg"][c].id # 0 => Acquired("mjpeg", c).id = streams["mjpeg"][c].id
      BY <1>1, AcquiredInv
    <2>2. Acquired("mjpeg", c).id \in Nat
      BY <2>1 DEF StreamInv, Streams
    <2> QED
      BY <2>1, <2>2
  <1>4. /\ responses' = [responses EXCEPT ![r] = new]
        /\ new \in [at : {"asked", "body"}, cam : Cameras, id : Nat \ {0}]
        /\ new # Closed
    BY <1>3 DEF OpenMjpeg, Closed
  <1>5. TypeOK'
    BY <1>2, <1>4 DEF OpenMjpeg, IInv, TypeOK
  <1>6. streams'["mjpeg"][c] = Acquired("mjpeg", c)
    BY <1>1 DEF Get, IInv, TypeOK
  <1>7. \A d \in Cameras \ {c} : streams'["mjpeg"][d] = streams["mjpeg"][d]
    BY <1>1 DEF Get, IInv, TypeOK
  <1>8. /\ OpenOn(c)' = OpenOn(c) \cup {r} /\ r \notin OpenOn(c)
        /\ \A d \in Cameras \ {c} : OpenOn(d)' = OpenOn(d)
        /\ responses'[r].id = Acquired("mjpeg", c).id
        /\ \A q \in Responses \ {r} : responses'[q] = responses[q]
    BY <1>4 DEF OpenOn, OpenMjpeg, IInv, TypeOK, Closed
  <1>9. ViewersAccounted'
    <2> SUFFICES ASSUME NEW d \in Cameras
                 PROVE  /\ streams'["mjpeg"][d].viewers = Cardinality(OpenOn(d)') + leaked'[d]
                        /\ \A q \in OpenOn(d)' : responses'[q].id = streams'["mjpeg"][d].id
      BY DEF ViewersAccounted
    <2>1. /\ IsFiniteSet(OpenOn(d)) /\ Cardinality(OpenOn(d)) \in Nat /\ leaked[d] \in Nat
          /\ streams["mjpeg"][d].viewers = Cardinality(OpenOn(d)) + leaked[d]
          /\ \A q \in OpenOn(d) : responses[q].id = streams["mjpeg"][d].id
          /\ OpenOn(d) # {} => streams["mjpeg"][d].id # 0
      BY <1>1, Account
    <2>2. leaked' = leaked
      BY DEF OpenMjpeg
    <2>3. r \notin OpenOn(d) /\ OpenOn(d) \subseteq Responses
      BY <1>8 DEF OpenOn, OpenMjpeg
    <2>4. CASE d # c
      BY <1>7, <1>8, <2>1, <2>2, <2>3, <2>4
    <2>5. CASE d = c
      <3>1. Cardinality(OpenOn(d)') = Cardinality(OpenOn(d)) + 1
        BY <1>8, <2>1, <2>3, <2>5, FS_AddElement
      <3>2. streams'["mjpeg"][d].viewers = streams["mjpeg"][d].viewers + 1
        BY <1>3, <1>6, <2>5
      <3>3. \A q \in OpenOn(d)' : responses'[q].id = streams'["mjpeg"][d].id
        BY <1>3, <1>6, <1>8, <2>1, <2>3, <2>5
      <3> QED
        BY <2>1, <2>2, <3>1, <3>2, <3>3
    <2> QED
      BY <2>4, <2>5
  <1> QED
    BY <1>2, <1>5, <1>9 DEF IInv

LEMMA StartBodyInv ==
    ASSUME IInv, NEW r \in Responses, StartBody(r)
    PROVE  IInv'
  <1>1. /\ responses[r] \in [at : {"asked", "body"}, cam : Cameras, id : Nat \ {0}]
        /\ responses[r] # Closed
    BY DEF StartBody, IInv, TypeOK, Closed
  <1> DEFINE new == [responses[r] EXCEPT !.at = "body"]
  <1>2. /\ new \in [at : {"asked", "body"}, cam : Cameras, id : Nat \ {0}]
        /\ new # Closed /\ new.cam = responses[r].cam /\ new.id = responses[r].id
    BY <1>1 DEF Closed
  <1>3. responses' = [responses EXCEPT ![r] = new]
    BY DEF StartBody
  <1> HIDE DEF new
  <1>4. /\ \A q \in Responses : responses'[q] = IF q = r THEN new ELSE responses[q]
        /\ responses' \in [Responses ->
              [at : {"asked", "body"}, cam : Cameras, id : Nat \ {0}] \cup {Closed}]
    BY <1>2, <1>3 DEF IInv, TypeOK
  <1>5. \A c \in Cameras : OpenOn(c)' = OpenOn(c)
    BY <1>1, <1>2, <1>4 DEF OpenOn
  <1>6. \A q \in Responses : responses'[q].id = responses[q].id
    BY <1>2, <1>4
  <1>7. TypeOK'
    BY <1>4 DEF StartBody, IInv, TypeOK
  <1>8. StreamsInv' /\ FewRegistered'
    BY DEF StartBody, IInv, StreamsInv, FewRegistered, Registered
  <1>9. ViewersAccounted'
    <2> SUFFICES ASSUME ~down, NEW c \in Cameras
                 PROVE  /\ streams["mjpeg"][c].viewers = Cardinality(OpenOn(c)) + leaked[c]
                        /\ \A q \in OpenOn(c) : responses'[q].id = streams["mjpeg"][c].id
      BY <1>5 DEF StartBody, ViewersAccounted
    <2> QED
      BY <1>6 DEF IInv, ViewersAccounted, OpenOn
  <1> QED
    BY <1>7, <1>8, <1>9 DEF IInv

\* A response that closes leaves its camera's set, and no other.
LEMMA ClosedOpenOn ==
    ASSUME IInv, NEW r \in Responses, responses[r] # Closed,
           responses' = [responses EXCEPT ![r] = Closed]
    PROVE  /\ responses[r].cam \in Cameras
           /\ responses' \in [Responses ->
                 [at : {"asked", "body"}, cam : Cameras, id : Nat \ {0}] \cup {Closed}]
           /\ \A c \in Cameras : OpenOn(c)' = OpenOn(c) \ {r}
           /\ \A c \in Cameras : r \in OpenOn(c) <=> c = responses[r].cam
           /\ \A q \in Responses \ {r} : responses'[q] = responses[q]
  <1>1. responses \in [Responses ->
           [at : {"asked", "body"}, cam : Cameras, id : Nat \ {0}] \cup {Closed}]
    BY DEF IInv, TypeOK
  <1>2. responses[r].cam \in Cameras
    BY <1>1
  <1>3. \A q \in Responses : responses'[q] = IF q = r THEN Closed ELSE responses[q]
    BY <1>1
  <1>4. \A c \in Cameras : OpenOn(c)' = OpenOn(c) \ {r}
    BY <1>3 DEF OpenOn
  <1>5. \A c \in Cameras : r \in OpenOn(c) <=> c = responses[r].cam
    BY DEF OpenOn
  <1> QED
    BY <1>1, <1>2, <1>3, <1>4, <1>5

LEMMA CloseMjpegInv ==
    ASSUME IInv, NEW r \in Responses, CloseMjpeg(r)
    PROVE  IInv'
  <1> DEFINE cam == responses[r].cam
  <1>1. /\ responses[r] # Closed
        /\ responses' = [responses EXCEPT ![r] = Closed]
        /\ Release("mjpeg", cam) /\ UNCHANGED sinceGet /\ "mjpeg" \in Modes
        /\ UNCHANGED <<made, down, cells, releases, requests, sinceGet, leaked>>
    BY DEF CloseMjpeg, Closed, Modes
  <1>2. /\ cam \in Cameras
        /\ responses' \in [Responses ->
              [at : {"asked", "body"}, cam : Cameras, id : Nat \ {0}] \cup {Closed}]
        /\ \A c \in Cameras : OpenOn(c)' = OpenOn(c) \ {r}
        /\ \A c \in Cameras : r \in OpenOn(c) <=> c = cam
        /\ \A q \in Responses \ {r} : responses'[q] = responses[q]
    BY <1>1, ClosedOpenOn
  <1> HIDE DEF cam
  <1>3. /\ streams' \in [Modes -> [Cameras -> Streams]]
        /\ StreamsInv' /\ FewRegistered'
        /\ \A n \in Modes, d \in Cameras :
              n # "mjpeg" \/ d # cam => streams'[n][d] = streams[n][d]
        /\ streams'["mjpeg"][cam].id = streams["mjpeg"][cam].id
        /\ streams["mjpeg"][cam].id # 0 /\ streams["mjpeg"][cam].viewers > 0
              => streams'["mjpeg"][cam].viewers = streams["mjpeg"][cam].viewers - 1
    BY <1>1, <1>2, ReleaseInv
  <1>4. TypeOK'
    BY <1>1, <1>2, <1>3 DEF IInv, TypeOK
  <1>5. ViewersAccounted'
    <2> SUFFICES ASSUME ~down, NEW d \in Cameras
                 PROVE  /\ streams'["mjpeg"][d].viewers = Cardinality(OpenOn(d)') + leaked[d]
                        /\ \A q \in OpenOn(d)' : responses'[q].id = streams'["mjpeg"][d].id
      BY <1>1 DEF ViewersAccounted
    <2>1. /\ IsFiniteSet(OpenOn(d)) /\ Cardinality(OpenOn(d)) \in Nat /\ leaked[d] \in Nat
          /\ streams["mjpeg"][d].viewers = Cardinality(OpenOn(d)) + leaked[d]
          /\ \A q \in OpenOn(d) : responses[q].id = streams["mjpeg"][d].id
          /\ OpenOn(d) # {} => streams["mjpeg"][d].id # 0
          /\ streams["mjpeg"][d].viewers = 0 => OpenOn(d) = {}
      BY Account
    <2>2. Cardinality(OpenOn(d)') =
             IF d = cam THEN Cardinality(OpenOn(d)) - 1 ELSE Cardinality(OpenOn(d))
      BY <1>2, <2>1, FS_RemoveElement
    <2>3. streams'["mjpeg"][d].id = streams["mjpeg"][d].id
      BY <1>1, <1>3
    <2>4. \A q \in OpenOn(d)' : responses'[q].id = streams'["mjpeg"][d].id
      BY <1>2, <2>1, <2>3 DEF OpenOn
    <2>5. CASE d # cam
      BY <1>1, <1>3, <2>1, <2>2, <2>4, <2>5
    <2>6. CASE d = cam
      <3>1. r \in OpenOn(d)
        BY <1>2, <2>6
      <3>2. streams["mjpeg"][d].viewers \in Nat
        BY <2>1
      <3>3. streams["mjpeg"][cam].id # 0 /\ streams["mjpeg"][cam].viewers > 0
        BY <2>1, <2>6, <3>1, <3>2
      <3> QED
        BY <1>3, <2>1, <2>2, <2>4, <2>6, <3>3
    <2> QED
      BY <2>5, <2>6
  <1> QED
    BY <1>3, <1>4, <1>5 DEF IInv

LEMMA AbortMjpegInv ==
    ASSUME IInv, NEW r \in Responses, AbortMjpeg(r)
    PROVE  IInv'
  <1> DEFINE cam == responses[r].cam
  <1>1. /\ responses[r] # Closed
        /\ responses' = [responses EXCEPT ![r] = Closed]
        /\ leaked' = [leaked EXCEPT ![cam] = @ + 1]
        /\ UNCHANGED <<streams, made, down, cells, releases, requests, sinceGet>>
    BY DEF AbortMjpeg, Closed
  <1>2. /\ cam \in Cameras
        /\ responses' \in [Responses ->
              [at : {"asked", "body"}, cam : Cameras, id : Nat \ {0}] \cup {Closed}]
        /\ \A c \in Cameras : OpenOn(c)' = OpenOn(c) \ {r}
        /\ \A c \in Cameras : r \in OpenOn(c) <=> c = cam
        /\ \A q \in Responses \ {r} : responses'[q] = responses[q]
    BY <1>1, ClosedOpenOn
  <1> HIDE DEF cam
  <1>3. /\ leaked' \in [Cameras -> Nat]
        /\ \A d \in Cameras : leaked'[d] = IF d = cam THEN leaked[d] + 1 ELSE leaked[d]
    <2>1. leaked \in [Cameras -> Nat]
      BY DEF IInv, TypeOK
    <2>2. leaked' = [leaked EXCEPT ![cam] = leaked[cam] + 1]
      BY <1>1
    <2> QED
      BY <1>2, <2>1, <2>2
  <1>4. TypeOK'
    BY <1>1, <1>2, <1>3 DEF IInv, TypeOK
  <1>5. StreamsInv' /\ FewRegistered'
    BY <1>1 DEF IInv, StreamsInv, FewRegistered, Registered
  <1>6. ViewersAccounted'
    <2> SUFFICES ASSUME ~down, NEW d \in Cameras
                 PROVE  /\ streams["mjpeg"][d].viewers = Cardinality(OpenOn(d)') + leaked'[d]
                        /\ \A q \in OpenOn(d)' : responses'[q].id = streams["mjpeg"][d].id
      BY <1>1 DEF ViewersAccounted
    <2>1. /\ IsFiniteSet(OpenOn(d)) /\ Cardinality(OpenOn(d)) \in Nat /\ leaked[d] \in Nat
          /\ streams["mjpeg"][d].viewers = Cardinality(OpenOn(d)) + leaked[d]
          /\ \A q \in OpenOn(d) : responses[q].id = streams["mjpeg"][d].id
      BY Account
    <2>2. Cardinality(OpenOn(d)') =
             IF d = cam THEN Cardinality(OpenOn(d)) - 1 ELSE Cardinality(OpenOn(d))
      BY <1>2, <2>1, FS_RemoveElement
    <2>3. \A q \in OpenOn(d)' : responses'[q].id = streams["mjpeg"][d].id
      BY <1>2, <2>1 DEF OpenOn
    <2> QED
      BY <1>3, <2>1, <2>2, <2>3
  <1> QED
    BY <1>4, <1>5, <1>6 DEF IInv

\* A step of the clients that the manager does not see.
LEMMA ManagerUntouched ==
    ASSUME IInv, TypeOK', UNCHANGED <<streams, down, responses, sinceGet, leaked>>
    PROVE  IInv'
  BY DEF IInv, StreamsInv, FewRegistered, Registered, ViewersAccounted, OpenOn

LEMMA MountInv ==
    ASSUME IInv, NEW v \in Cells, NEW c \in Cameras, Mount(v, c)
    PROVE  IInv'
  <1>1. TypeOK'
    BY DEF Mount, IInv, TypeOK
  <1> QED
    BY <1>1, ManagerUntouched DEF Mount

\* A cell that is not away shows a camera.
LEMMA ShownType ==
    ASSUME IInv, NEW v \in Cells, cells[v] # Away
    PROVE  /\ cells[v] \in [at : {"mounted", "playing"}, cam : Cameras]
           /\ cells[v].cam \in Cameras
  <1>1. cells[v] \in [at : {"mounted", "playing"}, cam : Cameras]
    BY DEF IInv, TypeOK
  <1> QED
    BY <1>1

LEMMA PlayInv ==
    ASSUME IInv, NEW v \in Cells, Play(v)
    PROVE  IInv'
  <1>1. cells[v] \in [at : {"mounted", "playing"}, cam : Cameras]
    BY ShownType DEF Play, Away
  <1>2. [cells[v] EXCEPT !.at = "playing"] \in [at : {"mounted", "playing"}, cam : Cameras]
    BY <1>1
  <1>3. cells' = [cells EXCEPT ![v] = [cells[v] EXCEPT !.at = "playing"]]
    BY DEF Play
  <1>4. TypeOK'
    BY <1>2, <1>3 DEF Play, IInv, TypeOK
  <1> QED
    BY <1>4, ManagerUntouched DEF Play

LEMMA UnmountInv ==
    ASSUME IInv, NEW v \in Cells, Unmount(v)
    PROVE  IInv'
  <1> DEFINE cam == cells[v].cam
  <1>1. cam \in Cameras
    BY ShownType DEF Unmount
  <1>2. releases' = [releases EXCEPT ![cam] = releases[cam] + 1]
    BY DEF Unmount
  <1> HIDE DEF cam
  <1>3. releases' \in [Cameras -> Nat]
    BY <1>1, <1>2 DEF IInv, TypeOK
  <1>4. TypeOK'
    BY <1>3 DEF Unmount, IInv, TypeOK
  <1> QED
    BY <1>4, ManagerUntouched DEF Unmount

LEMMA ReleaseLostInv ==
    ASSUME IInv, NEW c \in Cameras, ReleaseLost(c)
    PROVE  IInv'
  <1>1. releases' \in [Cameras -> Nat]
    BY DEF ReleaseLost, IInv, TypeOK
  <1>2. TypeOK'
    BY <1>1 DEF ReleaseLost, IInv, TypeOK
  <1> QED
    BY <1>2, ManagerUntouched DEF ReleaseLost

LEMMA HlsReleaseInv ==
    ASSUME IInv, NEW c \in Cameras, HlsRelease(c)
    PROVE  IInv'
  <1>1. /\ Release("hls", c) /\ "hls" \in Modes
        /\ UNCHANGED <<made, down, responses, cells, requests, sinceGet, leaked>>
    BY DEF HlsRelease, Modes
  <1>2. /\ streams' \in [Modes -> [Cameras -> Streams]]
        /\ StreamsInv' /\ FewRegistered'
        /\ \A n \in Modes, d \in Cameras : n # "hls" \/ d # c => streams'[n][d] = streams[n][d]
    BY <1>1, ReleaseInv
  <1>3. releases' \in [Cameras -> Nat]
    BY DEF HlsRelease, IInv, TypeOK
  <1>4. TypeOK'
    BY <1>1, <1>2, <1>3 DEF IInv, TypeOK
  <1>5. \A d \in Cameras : streams'["mjpeg"][d] = streams["mjpeg"][d]
    BY <1>2 DEF Modes
  <1>6. ViewersAccounted'
    BY <1>1, <1>5 DEF IInv, ViewersAccounted, OpenOn
  <1> QED
    BY <1>2, <1>4, <1>6 DEF IInv

LEMMA PlaylistFailsInv ==
    ASSUME IInv, NEW v \in Cells, PlaylistFails(v)
    PROVE  IInv'
  <1>1. requests' \in 0..MaxRequests
    BY StreamAssumption DEF PlaylistFails, IInv, TypeOK
  <1>2. TypeOK'
    BY <1>1 DEF PlaylistFails, IInv, TypeOK
  <1> QED
    BY <1>2, ManagerUntouched DEF PlaylistFails

LEMMA FetchPlaylistInv ==
    ASSUME IInv, NEW v \in Cells, FetchPlaylist(v)
    PROVE  IInv'
  <1> DEFINE cam == cells[v].cam
  <1>1. cam \in Cameras /\ Get("hls", cam) /\ "hls" \in Modes
    BY ShownType DEF FetchPlaylist, Away, Modes
  <1>2. UNCHANGED <<down, responses, cells, releases, leaked>>
    BY DEF FetchPlaylist
  <1> HIDE DEF cam
  <1>3. /\ streams' \in [Modes -> [Cameras -> Streams]]
        /\ sinceGet' \in [Modes -> [Cameras -> 0..(IdleTimeout + 1)]]
        /\ made' \in Nat /\ requests' \in 0..MaxRequests
        /\ StreamsInv' /\ FewRegistered'
    BY <1>1, GetInv
  <1>4. TypeOK'
    BY <1>2, <1>3 DEF IInv, TypeOK
  <1>5. \A d \in Cameras : streams'["mjpeg"][d] = streams["mjpeg"][d]
    BY <1>1 DEF Get, IInv, TypeOK, Modes
  <1>6. ViewersAccounted'
    BY <1>2, <1>5 DEF IInv, ViewersAccounted, OpenOn
  <1> QED
    BY <1>3, <1>4, <1>6 DEF IInv

LEMMA CleanupInv ==
    ASSUME IInv, Cleanup
    PROVE  IInv'
  <1>1. /\ \A m \in Modes, c \in Cameras :
              streams'[m][c] = IF c \in Abandoned(m) THEN NoStream ELSE streams[m][c]
        /\ streams' \in [Modes -> [Cameras -> Streams]]
    <2>1. NoStream \in Streams
      BY NoStreamInv DEF StreamInv
    <2> QED
      BY <2>1 DEF Cleanup, IInv, TypeOK
  <1>2. TypeOK'
    BY <1>1 DEF Cleanup, IInv, TypeOK
  <1>3. StreamsInv'
    <2>1. \A m \in Modes, c \in Cameras : sinceGet'[m][c] = sinceGet[m][c] /\ sinceGet[m][c] \in Nat
      BY StreamAssumption DEF Cleanup, IInv, TypeOK
    <2> QED
      BY <1>1, <2>1, NoStreamInv DEF IInv, StreamsInv
  <1>4. \A m \in Modes : Registered(m)' \subseteq Registered(m)
    BY <1>1 DEF Registered, NoStream
  <1>5. FewRegistered'
    BY <1>4, FewerRegistered DEF IInv
  <1>6. ViewersAccounted'
    <2> SUFFICES ASSUME ~down, NEW d \in Cameras
                 PROVE  /\ streams'["mjpeg"][d].viewers = Cardinality(OpenOn(d)) + leaked[d]
                        /\ \A q \in OpenOn(d) : responses[q].id = streams'["mjpeg"][d].id
      BY DEF Cleanup, ViewersAccounted, OpenOn
    <2>1. /\ streams["mjpeg"][d].viewers = Cardinality(OpenOn(d)) + leaked[d]
          /\ \A q \in OpenOn(d) : responses[q].id = streams["mjpeg"][d].id
          /\ streams["mjpeg"][d].viewers = 0 => OpenOn(d) = {}
      BY Account
    <2>2. "mjpeg" \in Modes
      BY DEF Modes
    <2>3. CASE d \in Abandoned("mjpeg")
      <3>1. streams["mjpeg"][d].viewers = 0
        BY <2>3 DEF Abandoned
      <3>2. streams'["mjpeg"][d].viewers = 0
        BY <1>1, <2>2, <2>3 DEF NoStream
      <3> QED
        BY <2>1, <3>1, <3>2
    <2>4. CASE d \notin Abandoned("mjpeg")
      BY <1>1, <2>1, <2>2, <2>4
    <2> QED
      BY <2>3, <2>4
  <1> QED
    BY <1>2, <1>3, <1>5, <1>6 DEF IInv

LEMMA ShutdownInv ==
    ASSUME IInv, Shutdown
    PROVE  IInv'
  <1>1. /\ \A m \in Modes, c \in Cameras : streams'[m][c] = NoStream
        /\ streams' \in [Modes -> [Cameras -> Streams]]
    <2>1. NoStream \in Streams
      BY NoStreamInv DEF StreamInv
    <2> QED
      BY <2>1 DEF Shutdown
  <1>2. TypeOK'
    BY <1>1 DEF Shutdown, IInv, TypeOK
  <1>3. StreamsInv'
    <2>1. \A m \in Modes, c \in Cameras : sinceGet'[m][c] = sinceGet[m][c] /\ sinceGet[m][c] \in Nat
      BY StreamAssumption DEF Shutdown, IInv, TypeOK
    <2> QED
      BY <1>1, <2>1, NoStreamInv DEF StreamsInv
  <1>4. \A m \in Modes : Registered(m)' \subseteq Registered(m)
    BY <1>1 DEF Registered, NoStream
  <1>5. FewRegistered'
    BY <1>4, FewerRegistered DEF IInv
  <1>6. ViewersAccounted'
    BY DEF Shutdown, ViewersAccounted
  <1> QED
    BY <1>2, <1>3, <1>5, <1>6 DEF IInv

LEMMA TickInv ==
    ASSUME IInv, Tick
    PROVE  IInv'
  <1>1. /\ \A m \in Modes, c \in Cameras :
              /\ streams'[m][c] = [streams[m][c] EXCEPT !.idle = Older(@)]
              /\ sinceGet'[m][c] = Older(sinceGet[m][c])
        /\ \A m \in Modes, c \in Cameras :
              /\ StreamInv(streams[m][c], sinceGet[m][c])
              /\ sinceGet[m][c] \in 0..(IdleTimeout + 1)
    BY DEF Tick, IInv, TypeOK, StreamsInv
  <1>2. \A m \in Modes, c \in Cameras :
           /\ StreamInv(streams'[m][c], sinceGet'[m][c])
           /\ sinceGet'[m][c] \in 0..(IdleTimeout + 1)
           /\ streams'[m][c].id = streams[m][c].id
           /\ streams'[m][c].viewers = streams[m][c].viewers
    <2> TAKE m \in Modes, c \in Cameras
    <2> DEFINE s == streams[m][c]
               age == sinceGet[m][c]
    <2>1. StreamInv(s, age) /\ age \in 0..(IdleTimeout + 1)
      BY <1>1
    <2>2. streams'[m][c] = [s EXCEPT !.idle = Older(@)] /\ sinceGet'[m][c] = Older(age)
      BY <1>1
    <2> HIDE DEF s, age
    <2>3. /\ StreamInv([s EXCEPT !.idle = Older(@)], Older(age))
          /\ Older(age) \in 0..(IdleTimeout + 1)
          /\ [s EXCEPT !.idle = Older(@)].id = s.id
          /\ [s EXCEPT !.idle = Older(@)].viewers = s.viewers
      BY <2>1, OlderInv
    <2> QED
      BY <2>2, <2>3 DEF s, age
  <1>3. StreamsInv'
    BY <1>2 DEF StreamsInv
  <1>4. /\ streams' \in [Modes -> [Cameras -> Streams]]
        /\ sinceGet' \in [Modes -> [Cameras -> 0..(IdleTimeout + 1)]]
    BY <1>2 DEF Tick, StreamInv
  <1>5. TypeOK'
    BY <1>4 DEF Tick, IInv, TypeOK
  <1>6. FewRegistered'
    <2>1. \A m \in Modes : Registered(m)' = Registered(m)
      BY <1>2 DEF Registered
    <2> QED
      BY <2>1, FewerRegistered DEF IInv
  <1>7. ViewersAccounted'
    BY <1>2 DEF Tick, IInv, ViewersAccounted, OpenOn, Modes
  <1> QED
    BY <1>3, <1>5, <1>6, <1>7 DEF IInv

LEMMA NextInv == IInv /\ [Next]_vars => IInv'
  <1> SUFFICES ASSUME IInv, [Next]_vars PROVE IInv'
    OBVIOUS
  <1>1. CASE UNCHANGED vars
    BY <1>1 DEF vars, IInv, TypeOK, StreamsInv, FewRegistered, Registered, ViewersAccounted,
                OpenOn
  <1>2. CASE Client
    BY <1>2, OpenMjpegInv, StartBodyInv, CloseMjpegInv, AbortMjpegInv, MountInv, PlayInv,
       FetchPlaylistInv, PlaylistFailsInv, UnmountInv, HlsReleaseInv, ReleaseLostInv DEF Client
  <1> QED
    BY <1>1, <1>2, CleanupInv, ShutdownInv, TickInv DEF Next

-------------------------------------------------------------------------------
(* The theorems *)

\* The inductive invariant holds in every reachable state.
THEOREM Invariance == Spec => []IInv
  BY InitInv, NextInv, PTL DEF Spec

\* Every variable of the stream manager keeps its type.
THEOREM TypeCorrect == Spec => []TypeOK
  <1>1. IInv => TypeOK
    BY DEF IInv
  <1> QED
    BY <1>1, Invariance, PTL

\* An MJPEG source's viewer count is its open responses plus the leaked ones, and every
\* open response reads the registered source: however clients come, go and abort, no
\* source is stopped or replaced under a response.
THEOREM ViewerAccounting == Spec => []ViewersAccounted
  <1>1. IInv => ViewersAccounted
    BY DEF IInv
  <1> QED
    BY <1>1, Invariance, PTL

\* A registered stream carries the idle mark exactly while nobody is counted.
THEOREM IdleMarks == Spec => []IdleMarkMatches
  <1>1. IInv => IdleMarkMatches
    BY DEF IInv, StreamsInv, StreamInv, IdleMarkMatches, Registered
  <1> QED
    BY <1>1, Invariance, PTL

\* No mode ever streams more cameras than the cap, whatever the number of cameras.
THEOREM CapHolds == Spec => []CapPerMode
  <1>1. IInv => CapPerMode
    BY DEF IInv, FewRegistered, CapPerMode
  <1> QED
    BY <1>1, Invariance, PTL

\* The cleanup takes no stream that was asked for within IdleTimeout.
THEOREM RecentSurvives == Spec => RecentlyAskedStays
  <1> DEFINE Kept == \A m \in Modes : \A c \in Registered(m) \ Registered(m)' :
                        down' \/ sinceGet[m][c] > IdleTimeout
  <1>1. IInv /\ [Next]_vars => [Kept]_vars
    <2> SUFFICES ASSUME IInv, Next, NEW m \in Modes,
                        NEW c \in Registered(m), c \notin Registered(m)', ~down'
                 PROVE  sinceGet[m][c] > IdleTimeout
      OBVIOUS
    <2>1. /\ c \in Cameras
          /\ StreamInv(streams[m][c], sinceGet[m][c])
          /\ sinceGet[m][c] \in Nat
      BY StreamAssumption DEF Registered, IInv, TypeOK, StreamsInv
    <2>2. streams'[m][c].id # streams[m][c].id
      BY <2>1 DEF Registered
    <2>3. CASE Cleanup
      <3>1. c \in Abandoned(m)
        BY <2>1, <2>2, <2>3 DEF Cleanup
      <3>2. streams[m][c].idle # Never /\ streams[m][c].idle > IdleTimeout
        BY <3>1 DEF Abandoned
      <3>3. streams[m][c].idle <= sinceGet[m][c] /\ streams[m][c].idle \in Int
        BY <2>1, <3>2, StreamAssumption DEF StreamInv, Streams, Never
      <3> QED
        BY <2>1, <3>2, <3>3, StreamAssumption
    <2>4. CASE Shutdown
      BY <2>4 DEF Shutdown
    <2>5. CASE Tick
      <3>1. streams'[m][c] = [streams[m][c] EXCEPT !.idle = Older(@)]
        BY <2>1, <2>5 DEF Tick
      <3>2. streams[m][c] \in Streams
        BY <2>1 DEF StreamInv
      <3> QED
        BY <2>2, <3>1, <3>2 DEF Streams
    <2>6. ASSUME NEW n \in Modes, NEW d \in Cameras, Get(n, d) PROVE FALSE
      <3>1. streams'[m][c] = IF n = m /\ d = c THEN Acquired(n, d) ELSE streams[m][c]
        BY <2>1, <2>6 DEF Get, IInv, TypeOK
      <3> QED
        BY <2>1, <2>2, <2>6, <3>1, AcquiredInv DEF Registered
    <2>7. ASSUME NEW n \in Modes, NEW d \in Cameras, Release(n, d), UNCHANGED sinceGet
          PROVE  FALSE
      BY <2>1, <2>2, <2>7, ReleaseInv
    <2>8. CASE UNCHANGED streams
      BY <2>2, <2>8
    <2>9. CASE Client
      <3>1. ASSUME NEW r \in Responses, NEW d \in Cameras, OpenMjpeg(r, d) PROVE FALSE
        BY <2>6, <3>1 DEF OpenMjpeg, Modes
      <3>2. ASSUME NEW r \in Responses, CloseMjpeg(r) PROVE FALSE
        <4>1. responses[r].cam \in Cameras
          BY <3>2 DEF CloseMjpeg, Closed, IInv, TypeOK
        <4> QED
          BY <2>7, <3>2, <4>1 DEF CloseMjpeg, Modes
      <3>3. ASSUME NEW v \in Cells, FetchPlaylist(v) PROVE FALSE
        BY <2>6, <3>3, ShownType DEF FetchPlaylist, Modes, Away
      <3>4. ASSUME NEW d \in Cameras, HlsRelease(d) PROVE FALSE
        BY <2>7, <3>4 DEF HlsRelease, Modes
      <3>5. /\ \A r \in Responses : StartBody(r) \/ AbortMjpeg(r) => UNCHANGED streams
            /\ \A v \in Cells, d \in Cameras : Mount(v, d) => UNCHANGED streams
            /\ \A v \in Cells : Play(v) \/ PlaylistFails(v) \/ Unmount(v) => UNCHANGED streams
            /\ \A d \in Cameras : ReleaseLost(d) => UNCHANGED streams
        BY DEF StartBody, AbortMjpeg, Mount, Play, PlaylistFails, Unmount, ReleaseLost
      <3> QED
        BY <2>8, <2>9, <3>1, <3>2, <3>3, <3>4, <3>5 DEF Client
    <2> QED
      BY <2>3, <2>4, <2>5, <2>9 DEF Next
  <1> QED
    BY <1>1, Invariance, PTL DEF Spec, RecentlyAskedStays

-------------------------------------------------------------------------------
(* Part 2: the manager with its sources *)

-------------------------------------------------------------------------------
(* The table of streams: ids are given out once, so a source is in one place *)

Known ==
    \A m \in Modes, c \in Cameras :
        /\ streams[m][c].id = 0 => streams[m][c] = NoStream
        /\ streams[m][c].id <= made

Distinct ==
    \A m, n \in Modes, c, d \in Cameras :
        streams[m][c].id # 0 /\ streams[m][c].id = streams[n][d].id => m = n /\ c = d

TableInv ==
    /\ streams \in [Modes -> [Cameras -> Streams]]
    /\ made \in Nat
    /\ Known
    /\ Distinct

StoppingInv == stopping \subseteq Nat \ {0}

SInv == TableInv /\ StoppingInv

LEMMA NoStreamIsStream == NoStream \in Streams /\ NoStream.id = 0
  BY DEF NoStream, Streams

\* What is true of each place of the table makes it a table of streams.
LEMMA OnePlaceChanges ==
    ASSUME TableInv, NEW m \in Modes, NEW c \in Cameras, NEW s \in Streams,
           streams' = [streams EXCEPT ![m][c] = s],
           made' \in Nat, made' >= made, s.id <= made',
           s.id # 0, s.id = streams[m][c].id \/ s.id > made
    PROVE  TableInv'
  <1>1. /\ streams' \in [Modes -> [Cameras -> Streams]]
        /\ streams'[m][c] = s
        /\ \A n \in Modes, d \in Cameras : n # m \/ d # c => streams'[n][d] = streams[n][d]
    BY DEF TableInv
  <1>2. \A n \in Modes, d \in Cameras : streams[n][d].id \in Nat /\ streams[n][d].id <= made
    BY DEF TableInv, Known, Streams
  <1>3. Known'
    <2> SUFFICES ASSUME NEW n \in Modes, NEW d \in Cameras
                 PROVE  /\ streams'[n][d].id = 0 => streams'[n][d] = NoStream
                        /\ streams'[n][d].id <= made'
      BY DEF Known
    <2>1. CASE n = m /\ d = c
      BY <1>1, <2>1
    <2>2. CASE ~(n = m /\ d = c)
      <3>1. streams'[n][d] = streams[n][d]
        BY <1>1, <2>2
      <3> QED
        BY <1>2, <3>1 DEF TableInv, Known
    <2> QED
      BY <2>1, <2>2
  <1>4. \A n \in Modes, d \in Cameras : streams[n][d].id = s.id => n = m /\ d = c
    <2> TAKE n \in Modes, d \in Cameras
    <2>1. s.id \in Nat /\ made \in Nat
      BY DEF Streams, TableInv
    <2>2. CASE s.id > made
      BY <1>2, <2>1, <2>2
    <2>3. CASE s.id = streams[m][c].id
      BY <2>3 DEF TableInv, Distinct
    <2> QED
      BY <2>2, <2>3
  <1>5. Distinct'
    <2> SUFFICES ASSUME NEW n \in Modes, NEW k \in Modes, NEW d \in Cameras, NEW e \in Cameras,
                        streams'[n][d].id # 0, streams'[n][d].id = streams'[k][e].id
                 PROVE  n = k /\ d = e
      BY DEF Distinct
    <2>1. CASE n = m /\ d = c
      <3>1. CASE k = m /\ e = c
        BY <2>1, <3>1
      <3>2. CASE ~(k = m /\ e = c)
        <4>1. streams[k][e].id = s.id
          BY <1>1, <2>1, <3>2
        <4> QED
          BY <1>4, <2>1, <3>2, <4>1
      <3> QED
        BY <3>1, <3>2
    <2>2. CASE ~(n = m /\ d = c)
      <3>1. CASE k = m /\ e = c
        <4>1. streams[n][d].id = s.id
          BY <1>1, <2>2, <3>1
        <4> QED
          BY <1>4, <2>2, <3>1, <4>1
      <3>2. CASE ~(k = m /\ e = c)
        BY <1>1, <2>2, <3>2 DEF TableInv, Distinct
      <3> QED
        BY <3>1, <3>2
    <2> QED
      BY <2>1, <2>2
  <1> QED
    BY <1>1, <1>3, <1>5 DEF TableInv

LEMMA GetKeepsTable ==
    ASSUME TableInv, NEW m \in Modes, NEW c \in Cameras, Get(m, c)
    PROVE  TableInv' /\ made' >= made
  <1>1. streams[m][c] \in Streams /\ made \in Nat
    BY DEF TableInv
  <1>2. /\ streams' = [streams EXCEPT ![m][c] = Acquired(m, c)]
        /\ made' = IF c \in Registered(m) THEN made ELSE made + 1
    BY DEF Get
  <1>3. PICK s : s = Acquired(m, c)
    OBVIOUS
  <1>4. CASE c \in Registered(m)
    <2>1. s = [streams[m][c] EXCEPT !.viewers = @ + 1, !.idle = Never]
      BY <1>3, <1>4 DEF Acquired
    <2>2. s \in Streams /\ s.id = streams[m][c].id
      <3>1. s = [id |-> streams[m][c].id, viewers |-> streams[m][c].viewers + 1,
                 idle |-> Never]
        BY <1>1, <2>1 DEF Streams
      <3> QED
        BY <1>1, <3>1 DEF Streams
    <2>3. s.id # 0 /\ made' = made
      BY <1>2, <1>4, <2>2 DEF Registered
    <2>4. s.id <= made' /\ made' \in Nat /\ made' >= made
      BY <1>1, <2>2, <2>3 DEF TableInv, Known
    <2> QED
      BY <1>2, <1>3, <2>2, <2>3, <2>4, OnePlaceChanges
  <1>5. CASE c \notin Registered(m)
    <2>1. s = [id |-> made + 1, viewers |-> 1, idle |-> Never] /\ made' = made + 1
      BY <1>2, <1>3, <1>5 DEF Acquired
    <2>2. s \in Streams /\ s.id = made + 1
      BY <1>1, <2>1 DEF Streams
    <2>3. s.id <= made' /\ made' \in Nat /\ made' >= made /\ s.id > made /\ s.id # 0
      BY <1>1, <2>1, <2>2
    <2> QED
      BY <1>2, <1>3, <2>2, <2>3, OnePlaceChanges
  <1> QED
    BY <1>4, <1>5

LEMMA ReleaseKeepsTable ==
    ASSUME TableInv, NEW m \in Modes, NEW c \in Cameras, Release(m, c), made' = made
    PROVE  TableInv'
  <1>1. streams[m][c] \in Streams /\ made \in Nat
    BY DEF TableInv
  <1>2. CASE c \in Registered(m)
    <2>1. streams' = [streams EXCEPT ![m][c] = Released(streams[m][c])]
      BY <1>2 DEF Release, TableInv
    <2>2. PICK s : s = Released(streams[m][c])
      OBVIOUS
    <2>3. s \in Streams /\ s.id = streams[m][c].id
      <3>1. CASE streams[m][c].viewers <= 1
        <4>1. s = [id |-> streams[m][c].id, viewers |-> 0, idle |-> 0]
          BY <1>1, <2>2, <3>1 DEF Released, Streams
        <4> QED
          BY <1>1, <4>1, StreamAssumption DEF Streams
      <3>2. CASE ~(streams[m][c].viewers <= 1)
        <4>1. streams[m][c].viewers \in Nat /\ streams[m][c].viewers - 1 \in Nat
          BY <1>1, <3>2 DEF Streams
        <4>2. s = [id |-> streams[m][c].id, viewers |-> streams[m][c].viewers - 1,
                   idle |-> streams[m][c].idle]
          BY <1>1, <2>2, <3>2 DEF Released, Streams
        <4> QED
          BY <1>1, <4>1, <4>2 DEF Streams
      <3> QED
        BY <3>1, <3>2
    <2>4. streams[m][c].id <= made /\ streams[m][c].id # 0 /\ made' \in Nat /\ made' >= made
      BY <1>1, <1>2 DEF TableInv, Known, Registered
    <2> QED
      BY <2>1, <2>2, <2>3, <2>4, OnePlaceChanges
  <1>3. CASE c \notin Registered(m)
    BY <1>3 DEF Release, TableInv, Known, Distinct
  <1> QED
    BY <1>2, <1>3

\* Nobody's id changes, but streams may leave: what aging and forgetting do.
LEMMA IdsStay ==
    ASSUME TableInv, made' = made,
           streams' \in [Modes -> [Cameras -> Streams]],
           \A m \in Modes, c \in Cameras : \/ streams'[m][c] = NoStream
                                           \/ /\ streams'[m][c].id = streams[m][c].id
                                              /\ streams[m][c].id # 0
    PROVE  TableInv'
  <1>1. Known'
    BY NoStreamIsStream DEF TableInv, Known
  <1>2. Distinct'
    BY NoStreamIsStream DEF TableInv, Distinct
  <1> QED
    BY <1>1, <1>2 DEF TableInv

LEMMA OlderNever == Older(Never) = Never
  BY DEF Older

LEMMA TickAges ==
    ASSUME TableInv, Tick
    PROVE  /\ TableInv'
           /\ \A m \in Modes, c \in Cameras :
                 /\ streams'[m][c] = [streams[m][c] EXCEPT !.idle = Older(@)]
                 /\ streams'[m][c].id = streams[m][c].id
  <1>1. streams' = [m \in Modes |-> [c \in Cameras |->
                       [streams[m][c] EXCEPT !.idle = Older(@)]]]
        /\ made' = made
    BY DEF Tick
  <1>2. ASSUME NEW m \in Modes, NEW c \in Cameras
        PROVE  /\ streams'[m][c] = [streams[m][c] EXCEPT !.idle = Older(@)]
               /\ streams'[m][c] \in Streams
               /\ streams'[m][c].id = streams[m][c].id
               /\ streams[m][c].id = 0 => streams'[m][c] = NoStream
    <2>1. streams[m][c] \in Streams
      BY DEF TableInv
    <2>2. streams'[m][c] = [streams[m][c] EXCEPT !.idle = Older(@)]
      BY <1>1
    <2>3. Older(streams[m][c].idle) \in {Never} \cup 0..(IdleTimeout + 1)
      BY <2>1, StreamAssumption DEF Older, Streams, Never
    <2>4. streams'[m][c] \in Streams /\ streams'[m][c].id = streams[m][c].id
      BY <2>1, <2>2, <2>3 DEF Streams
    <2>5. ASSUME streams[m][c].id = 0
          PROVE  streams'[m][c] = NoStream
      <3>1. streams[m][c] = NoStream
        BY <2>5 DEF TableInv, Known
      <3> QED
        BY <2>2, <3>1, OlderNever DEF NoStream
    <2> QED
      BY <2>2, <2>4, <2>5
  <1>3. streams' \in [Modes -> [Cameras -> Streams]]
    BY <1>1, <1>2
  <1>4. TableInv'
    BY <1>1, <1>2, <1>3, IdsStay
  <1> QED
    BY <1>2, <1>4

-------------------------------------------------------------------------------
(* What the manager's view has to do with the table *)

LEMMA ServedTable ==
    ASSUME SInv
    PROVE  /\ DOMAIN Served = Modes
           /\ \A m \in Modes : DOMAIN Served[m] = Cameras
           /\ \A m \in Modes, c \in Cameras :
                 Served[m][c] = IF streams[m][c].id \in stopping THEN NoStream ELSE streams[m][c]
  BY DEF Served

\* A view that leaves out nothing is the table.
LEMMA WholeView ==
    ASSUME NEW t \in [Modes -> [Cameras -> Streams]], NEW out, out = {}
    PROVE  [m \in Modes |-> [c \in Cameras |->
               IF t[m][c].id \in out THEN NoStream ELSE t[m][c]]] = t
  <1> DEFINE view == [m \in Modes |-> [c \in Cameras |->
                         IF t[m][c].id \in out THEN NoStream ELSE t[m][c]]]
  <1>1. ASSUME NEW m \in Modes
        PROVE  view[m] = t[m]
    <2>1. t[m] \in [Cameras -> Streams]
      OBVIOUS
    <2>2. view[m] = [c \in Cameras |-> IF t[m][c].id \in out THEN NoStream ELSE t[m][c]]
      OBVIOUS
    <2>3. \A c \in Cameras : t[m][c].id \notin out
      OBVIOUS
    <2> HIDE DEF view
    <2> QED
      BY <2>1, <2>2, <2>3
  <1>2. view = [m \in Modes |-> view[m]]
    OBVIOUS
  <1> HIDE DEF view
  <1>3. view = t
    BY <1>1, <1>2
  <1> QED
    BY <1>3 DEF view

\* While nothing is being stopped, before and after a step, the view is the table.
LEMMA FreeView ==
    ASSUME SInv, TableInv', Free, stopping' = stopping
    PROVE  Served = streams /\ Served' = streams'
  <1>1. Served = streams
    BY WholeView DEF Served, SInv, TableInv, Free
  <1>2. Served' = streams'
    BY WholeView DEF Served, SInv, TableInv, Free
  <1> QED
    BY <1>1, <1>2

LEMMA ViewUnchanged ==
    ASSUME UNCHANGED <<streams, stopping>>
    PROVE  Served' = Served
  BY DEF Served

-------------------------------------------------------------------------------
(* Each step of the system is a step of the manager, or none *)

\* The reader threads and ffmpeg are out of the manager's sight.
LEMMA RunMaps ==
    ASSUME SInv, NEW i \in Ids, Run(i)
    PROVE  SInv' /\ UNCHANGED Manager!vars
  <1>1. UNCHANGED <<vars, stopping>>
    BY DEF Run, OpenSource, OpenFails, ReadFrame, ReadFails, Reconnect, WritePlaylist, FfmpegExits
  <1>2. SInv'
    BY <1>1 DEF SInv, TableInv, Known, Distinct, StoppingInv, vars
  <1>3. Served' = Served
    BY <1>1, ViewUnchanged DEF vars
  <1> QED
    BY <1>1, <1>2, <1>3 DEF vars, Manager!vars

\* The handlers that wait for the lock are the manager's own.
LEMMA AdmitsMaps ==
    ASSUME Served = streams, NEW m, NEW c
    PROVE  Manager!Registered(m) = Registered(m) /\ (Manager!Admits(m, c) <=> Admits(m, c))
  <1>1. Manager!Registered(m) = Registered(m)
    BY DEF Manager!Registered, Registered
  <1>2. \A S : Manager!Cardinality(S) = Cardinality(S)
    BY Zenon DEF Manager!Cardinality, Cardinality
  <1> QED
    BY <1>1, <1>2 DEF Manager!Admits, Admits

LEMMA GetMaps ==
    ASSUME Served = streams, Served' = streams', NEW m, NEW c, Get(m, c)
    PROVE  Manager!Get(m, c) /\ Manager!Acquired(m, c) = Acquired(m, c)
  <1>1. Manager!Registered(m) = Registered(m)
    BY AdmitsMaps
  <1>2. Manager!Admits(m, c) <=> Admits(m, c)
    BY AdmitsMaps
  <1>3. Manager!Acquired(m, c) = Acquired(m, c)
    BY <1>1 DEF Manager!Acquired, Acquired, Manager!Never, Never
  <1>4. /\ ~down /\ requests < MaxRequests /\ Manager!Admits(m, c)
        /\ Served' = [Served EXCEPT ![m][c] = Manager!Acquired(m, c)]
        /\ made' = IF c \in Manager!Registered(m) THEN made ELSE made + 1
        /\ requests' = requests + 1
        /\ sinceGet' = [sinceGet EXCEPT ![m][c] = 0]
    BY <1>1, <1>2, <1>3 DEF Get
  <1> QED
    BY <1>3, <1>4 DEF Manager!Get

LEMMA OpenMaps ==
    ASSUME SInv, NEW r \in Responses, NEW c \in Cameras, Open(r, c)
    PROVE  SInv' /\ Manager!OpenMjpeg(r, c)
  <1>1. OpenMjpeg(r, c) /\ Free /\ stopping' = stopping
    BY DEF Open
  <1>2. TableInv'
    BY <1>1, GetKeepsTable DEF OpenMjpeg, SInv, Modes
  <1>3. Served = streams /\ Served' = streams'
    BY <1>1, <1>2, FreeView
  <1>4. Manager!OpenMjpeg(r, c)
    <2>1. Manager!Get("mjpeg", c) /\ Manager!Acquired("mjpeg", c) = Acquired("mjpeg", c)
      BY <1>1, <1>3, GetMaps DEF OpenMjpeg
    <2> QED
      BY <1>1, <2>1 DEF OpenMjpeg, Manager!OpenMjpeg, Closed, Manager!Closed
  <1> QED
    BY <1>1, <1>2, <1>4 DEF SInv, StoppingInv

LEMMA FetchMaps ==
    ASSUME SInv, NEW v \in Cells, Fetch(v), cells[v].cam \in Cameras
    PROVE  SInv' /\ Manager!FetchPlaylist(v)
  <1>1. FetchPlaylist(v) /\ Free /\ stopping' = stopping
    BY DEF Fetch
  <1>2. TableInv'
    BY <1>1, GetKeepsTable DEF FetchPlaylist, SInv, Modes
  <1>3. Served = streams /\ Served' = streams'
    BY <1>1, <1>2, FreeView
  <1>4. Manager!FetchPlaylist(v)
    BY <1>1, <1>3, GetMaps DEF FetchPlaylist, Manager!FetchPlaylist
  <1> QED
    BY <1>1, <1>2, <1>4 DEF SInv, StoppingInv

LEMMA CloseMaps ==
    ASSUME SInv, NEW r \in Responses, Close(r), responses[r].cam \in Cameras
    PROVE  SInv' /\ Manager!CloseMjpeg(r)
  <1>1. CloseMjpeg(r) /\ Free /\ stopping' = stopping
    BY DEF Close
  <1>2. TableInv'
    BY <1>1, ReleaseKeepsTable DEF CloseMjpeg, SInv, Modes
  <1>3. Served = streams /\ Served' = streams'
    BY <1>1, <1>2, FreeView
  <1>4. Manager!CloseMjpeg(r)
    BY <1>1, <1>3
       DEF CloseMjpeg, Release, Registered, Released, Closed,
           Manager!CloseMjpeg, Manager!Release, Manager!Registered, Manager!Released,
           Manager!Closed
  <1> QED
    BY <1>1, <1>2, <1>4 DEF SInv, StoppingInv

LEMMA ReleaseHlsMaps ==
    ASSUME SInv, NEW c \in Cameras, ReleaseHls(c)
    PROVE  SInv' /\ Manager!HlsRelease(c)
  <1>1. HlsRelease(c) /\ Free /\ stopping' = stopping
    BY DEF ReleaseHls, sourceVars
  <1>2. TableInv'
    BY <1>1, ReleaseKeepsTable DEF HlsRelease, SInv, Modes
  <1>3. Served = streams /\ Served' = streams'
    BY <1>1, <1>2, FreeView
  <1>4. Manager!HlsRelease(c)
    BY <1>1, <1>3
       DEF HlsRelease, Release, Registered, Released,
           Manager!HlsRelease, Manager!Release, Manager!Registered, Manager!Released
  <1> QED
    BY <1>1, <1>2, <1>4 DEF SInv, StoppingInv

\* What does not touch the table does the same to the view.
LEMMA UntouchedMaps ==
    ASSUME SInv, UNCHANGED <<streams, stopping, made>>
    PROVE  SInv' /\ Served' = Served
  <1>1. SInv'
    BY DEF SInv, TableInv, Known, Distinct, StoppingInv
  <1> QED
    BY <1>1, ViewUnchanged

LEMMA ResponseMaps ==
    ASSUME SInv, NEW r \in Responses, Begin(r) \/ Leave(r) \/ Abort(r)
    PROVE  SInv' /\ (Manager!StartBody(r) \/ UNCHANGED Manager!vars \/ Manager!AbortMjpeg(r))
  <1>1. UNCHANGED <<streams, stopping, made>>
    BY DEF Begin, StartBody, Leave, Abort, AbortMjpeg, sourceVars, vars
  <1>2. SInv' /\ Served' = Served
    BY <1>1, UntouchedMaps
  <1>3. CASE Begin(r)
    BY <1>2, <1>3 DEF Begin, StartBody, Manager!StartBody
  <1>4. CASE Leave(r)
    BY <1>2, <1>4 DEF Leave, vars, Manager!vars
  <1>5. CASE Abort(r)
    BY <1>2, <1>5 DEF Abort, AbortMjpeg, Manager!AbortMjpeg, Closed, Manager!Closed
  <1> QED
    BY <1>2, <1>3, <1>4, <1>5

LEMMA CellMaps ==
    ASSUME SInv, NEW v \in Cells, Cell(v)
    PROVE  SInv' /\ ((\E c \in Cameras : Manager!Mount(v, c)) \/ Manager!Play(v)
                     \/ Manager!Unmount(v))
  <1>1. UNCHANGED <<streams, stopping, made>>
    BY DEF Cell, Mount, Play, Unmount, sourceVars
  <1>2. SInv' /\ Served' = Served
    BY <1>1, UntouchedMaps
  <1>3. ASSUME NEW c \in Cameras, Mount(v, c)
        PROVE  Manager!Mount(v, c)
    BY <1>2, <1>3 DEF Mount, Manager!Mount, Away, Manager!Away
  <1>4. CASE Play(v)
    BY <1>2, <1>4 DEF Play, Manager!Play
  <1>5. CASE Unmount(v)
    BY <1>2, <1>5 DEF Unmount, Manager!Unmount, Away, Manager!Away
  <1> QED
    BY <1>2, <1>3, <1>4, <1>5 DEF Cell

LEMMA LoseReleaseMaps ==
    ASSUME SInv, NEW c \in Cameras, LoseRelease(c)
    PROVE  SInv' /\ Manager!ReleaseLost(c)
  <1>1. UNCHANGED <<streams, stopping, made>>
    BY DEF LoseRelease, ReleaseLost, sourceVars
  <1>2. SInv' /\ Served' = Served
    BY <1>1, UntouchedMaps
  <1> QED
    BY <1>2 DEF LoseRelease, ReleaseLost, Manager!ReleaseLost

\* A playlist request that has its answer, or gives up, is out of the manager's sight.
LEMMA AnswerMaps ==
    ASSUME SInv, NEW w, AnswerPlaylist(w) \/ PlaylistLate(w)
    PROVE  SInv' /\ UNCHANGED Manager!vars
  <1>1. UNCHANGED <<vars, stopping>>
    BY DEF AnswerPlaylist, PlaylistLate
  <1>2. SInv' /\ Served' = Served
    BY <1>1, UntouchedMaps DEF vars
  <1> QED
    BY <1>1, <1>2 DEF vars, Manager!vars

\* The start that raises is the manager's failed request: no source was registered.
LEMMA RaisesMaps ==
    ASSUME SInv, NEW v \in Cells, FetchRaises(v)
    PROVE  SInv' /\ Manager!PlaylistFails(v)
  <1>1. PlaylistFails(v) /\ Free /\ UNCHANGED <<streams, made, stopping>>
    BY DEF FetchRaises, PlaylistFails
  <1>2. SInv' /\ Served' = Served
    BY <1>1, UntouchedMaps
  <1>3. Served = streams
    BY <1>1, <1>2, FreeView DEF SInv
  <1>4. Manager!Registered("hls") = Registered("hls")
        /\ (Manager!Admits("hls", cells[v].cam) <=> Admits("hls", cells[v].cam))
    BY <1>3, AdmitsMaps
  <1> QED
    BY <1>1, <1>2, <1>4 DEF PlaylistFails, Manager!PlaylistFails

\* The clock ages what is in the table; a missing stream has no age.
LEMMA ClockMaps ==
    ASSUME SInv, Clock
    PROVE  SInv' /\ Manager!Tick
  <1>1. Tick /\ stopping' = stopping
    BY DEF Clock
  <1>2. /\ TableInv'
        /\ \A m \in Modes, c \in Cameras :
              /\ streams'[m][c] = [streams[m][c] EXCEPT !.idle = Older(@)]
              /\ streams'[m][c].id = streams[m][c].id
    BY <1>1, TickAges DEF SInv
  <1>3. \A age : Manager!Older(age) = Older(age)
    BY DEF Manager!Older, Older, Manager!Never, Never
  <1>4. [NoStream EXCEPT !.idle = Older(@)] = NoStream
    BY OlderNever DEF NoStream
  <1>5. ASSUME NEW m \in Modes, NEW c \in Cameras
        PROVE  Served'[m][c] = [Served[m][c] EXCEPT !.idle = Manager!Older(@)]
    <2>1. Served'[m][c] = IF streams'[m][c].id \in stopping THEN NoStream ELSE streams'[m][c]
      BY <1>1 DEF Served
    <2>2. Served[m][c] = IF streams[m][c].id \in stopping THEN NoStream ELSE streams[m][c]
      BY DEF Served
    <2>3. CASE streams[m][c].id \in stopping
      BY <1>2, <1>3, <1>4, <2>1, <2>2, <2>3
    <2>4. CASE streams[m][c].id \notin stopping
      BY <1>2, <1>3, <2>1, <2>2, <2>4
    <2> QED
      BY <2>3, <2>4
  <1>6. Served' = [m \in Modes |-> [c \in Cameras |->
                      [Served[m][c] EXCEPT !.idle = Manager!Older(@)]]]
    <2>1. Served' = [m \in Modes |-> [c \in Cameras |-> Served'[m][c]]]
      BY DEF Served
    <2> QED
      BY <1>5, <2>1
  <1>7. Manager!Modes = Modes
    BY DEF Manager!Modes, Modes
  <1>8. sinceGet' = [m \in Modes |-> [c \in Cameras |-> Manager!Older(sinceGet[m][c])]]
    BY <1>1, <1>3 DEF Tick
  <1>9. Manager!Tick
    BY <1>1, <1>6, <1>7, <1>8 DEF Tick, Manager!Tick
  <1> QED
    BY <1>1, <1>2, <1>9 DEF SInv, StoppingInv

\* Taking the lock to stop registered sources takes them out of the view, all at once.
LEMMA StartStoppingHides ==
    ASSUME SInv, NEW out \in [Modes -> SUBSET Cameras],
           \A m \in Modes : out[m] \subseteq Registered(m),
           Free, streams' = streams,
           stopping' = UNION {IdsOf(m, out[m]) : m \in Modes}
    PROVE  /\ stopping' \subseteq Nat \ {0}
           /\ Served = streams
           /\ Served' = [m \in Modes |-> [c \in Cameras |->
                            IF c \in out[m] THEN NoStream ELSE streams[m][c]]]
  <1>1. \A i : i \in stopping' <=> \E m \in Modes : \E c \in out[m] : i = streams[m][c].id
    BY DEF IdsOf
  <1>2. \A m \in Modes : \A c \in out[m] : c \in Cameras /\ streams[m][c].id # 0
                                           /\ streams[m][c].id \in Nat
    BY DEF Registered, SInv, TableInv, Streams
  <1>3. ASSUME NEW m \in Modes, NEW c \in Cameras
        PROVE  streams[m][c].id \in stopping' <=> c \in out[m]
    <2>1. ASSUME streams[m][c].id \in stopping'
          PROVE  c \in out[m]
      <3>1. PICK n \in Modes : \E d \in out[n] : streams[m][c].id = streams[n][d].id
        BY <1>1, <2>1
      <3>2. PICK d \in out[n] : streams[m][c].id = streams[n][d].id
        BY <3>1
      <3>3. d \in Cameras /\ streams[n][d].id # 0
        BY <1>2
      <3>4. m = n /\ c = d
        BY <3>2, <3>3 DEF SInv, TableInv, Distinct
      <3> QED
        BY <3>4
    <2>2. ASSUME c \in out[m]
          PROVE  streams[m][c].id \in stopping'
      BY <1>1, <2>2
    <2> QED
      BY <2>1, <2>2
  <1>4. stopping' \subseteq Nat \ {0}
    BY <1>1, <1>2
  <1>5. Served = streams
    BY WholeView DEF Served, SInv, TableInv, Free
  <1>6. Served' = [m \in Modes |-> [c \in Cameras |->
                      IF streams[m][c].id \in stopping' THEN NoStream ELSE streams[m][c]]]
    BY DEF Served
  <1>7. Served' = [m \in Modes |-> [c \in Cameras |->
                      IF c \in out[m] THEN NoStream ELSE streams[m][c]]]
    BY <1>3, <1>6
  <1> QED
    BY <1>4, <1>5, <1>7

LEMMA CleanupMaps ==
    ASSUME SInv, CleanupStops
    PROVE  SInv' /\ Manager!Cleanup
  <1> DEFINE out == [m \in Modes |-> Abandoned(m)]
  <1>1. /\ \E m \in Modes : Abandoned(m) # {}
        /\ Free /\ stopping' = UNION {IdsOf(m, Abandoned(m)) : m \in Modes}
        /\ UNCHANGED <<streams, made, down, responses, cells, releases, requests, sinceGet, leaked>>
    BY DEF CleanupStops, StartStopping
  <1>2. /\ out \in [Modes -> SUBSET Cameras]
        /\ \A m \in Modes : out[m] \subseteq Registered(m)
    BY DEF Abandoned, Registered
  <1>3. \A m \in Modes : out[m] = Abandoned(m)
    OBVIOUS
  <1> HIDE DEF out
  <1>4. stopping' = UNION {IdsOf(m, out[m]) : m \in Modes}
    BY <1>1, <1>3
  <1>5. /\ stopping' \subseteq Nat \ {0}
        /\ Served = streams
        /\ Served' = [m \in Modes |-> [c \in Cameras |->
                         IF c \in out[m] THEN NoStream ELSE streams[m][c]]]
    BY <1>1, <1>2, <1>4, StartStoppingHides
  <1>6. \A m : Manager!Abandoned(m) = Abandoned(m)
    BY <1>5 DEF Manager!Abandoned, Manager!Registered, Manager!Never, Abandoned, Registered, Never
  <1>7. Manager!Modes = Modes /\ Manager!NoStream = NoStream
    BY DEF Manager!Modes, Modes, Manager!NoStream, NoStream, Manager!Never, Never
  <1>8. Served' = [m \in Modes |-> [c \in Cameras |->
                      IF c \in Manager!Abandoned(m) THEN NoStream ELSE Served[m][c]]]
    BY <1>3, <1>5, <1>6
  <1>9. \E m \in Modes : Manager!Abandoned(m) # {}
    BY <1>1, <1>6
  <1>10. Manager!Cleanup
    BY <1>1, <1>7, <1>8, <1>9 DEF Manager!Cleanup
  <1>11. SInv'
    BY <1>1, <1>5 DEF SInv, TableInv, Known, Distinct, StoppingInv
  <1> QED
    BY <1>10, <1>11

LEMMA ShutdownMaps ==
    ASSUME SInv, ShutdownStops
    PROVE  SInv' /\ Manager!Shutdown
  <1> DEFINE out == [m \in Modes |-> Registered(m)]
  <1>1. /\ ~down /\ down' = TRUE
        /\ Free /\ stopping' = UNION {IdsOf(m, Registered(m)) : m \in Modes}
        /\ UNCHANGED <<streams, made, responses, cells, releases, requests, sinceGet, leaked>>
    BY DEF ShutdownStops, StartStopping
  <1>2. out \in [Modes -> SUBSET Cameras] /\ \A m \in Modes : out[m] \subseteq Registered(m)
    BY DEF Registered
  <1>3. \A m \in Modes : out[m] = Registered(m)
    OBVIOUS
  <1> HIDE DEF out
  <1>4. stopping' = UNION {IdsOf(m, out[m]) : m \in Modes}
    BY <1>1, <1>3
  <1>5. /\ stopping' \subseteq Nat \ {0}
        /\ Served' = [m \in Modes |-> [c \in Cameras |->
                         IF c \in out[m] THEN NoStream ELSE streams[m][c]]]
    BY <1>1, <1>2, <1>4, StartStoppingHides
  <1>6. \A m \in Modes, c \in Cameras : c \notin out[m] => streams[m][c] = NoStream
    BY <1>3 DEF Registered, SInv, TableInv, Known
  <1>7. Served' = [m \in Modes |-> [c \in Cameras |-> NoStream]]
    BY <1>5, <1>6
  <1>8. Manager!Modes = Modes /\ Manager!NoStream = NoStream
    BY DEF Manager!Modes, Modes, Manager!NoStream, NoStream, Manager!Never, Never
  <1>9. Manager!Shutdown
    BY <1>1, <1>7, <1>8 DEF Manager!Shutdown
  <1>10. SInv'
    BY <1>1, <1>5 DEF SInv, TableInv, Known, Distinct, StoppingInv
  <1> QED
    BY <1>9, <1>10

\* The end of one stop: the source leaves the table, and the view had it gone already.
LEMMA StopMaps ==
    ASSUME SInv, NEW i \in Ids, StopEnds(i) \/ StopTimesOut(i)
    PROVE  SInv' /\ UNCHANGED Manager!vars
  <1>1. /\ i \in stopping /\ Forget(i) /\ stopping' = stopping \ {i}
        /\ UNCHANGED <<made, down, responses, cells, releases, requests, sinceGet, leaked>>
    BY DEF StopEnds, StopTimesOut, CleansUp, Stopped, First
  <1>2. i # 0
    BY <1>1 DEF SInv, StoppingInv
  <1>3. \A m \in Modes, c \in Cameras :
           streams'[m][c] = IF streams[m][c].id = i THEN NoStream ELSE streams[m][c]
    BY <1>1 DEF Forget
  <1>4. streams' \in [Modes -> [Cameras -> Streams]]
    BY <1>1, NoStreamIsStream DEF Forget, SInv, TableInv
  <1>5. \A m \in Modes, c \in Cameras : \/ streams'[m][c] = NoStream
                                        \/ /\ streams'[m][c].id = streams[m][c].id
                                           /\ streams[m][c].id # 0
    BY <1>3 DEF SInv, TableInv, Known
  <1>6. SInv'
    <2>1. TableInv'
      BY <1>1, <1>4, <1>5, IdsStay DEF SInv
    <2> QED
      BY <1>1, <2>1 DEF SInv, StoppingInv
  <1>7. ASSUME NEW m \in Modes, NEW c \in Cameras
        PROVE  (IF streams'[m][c].id \in stopping' THEN NoStream ELSE streams'[m][c]) =
               (IF streams[m][c].id \in stopping THEN NoStream ELSE streams[m][c])
    <2>1. CASE streams[m][c].id = i
      BY <1>1, <1>3, <2>1
    <2>2. CASE streams[m][c].id # i
      BY <1>1, <1>3, <2>2
    <2> QED
      BY <2>1, <2>2
  <1>8. Served' = Served
    BY <1>7 DEF Served
  <1> QED
    BY <1>1, <1>6, <1>8 DEF Manager!vars

-------------------------------------------------------------------------------
(* The clients: cameras of responses and cells *)

ClientInv ==
    /\ responses \in [Responses ->
           [at : {"asked", "body"}, cam : Cameras, id : Nat] \cup {Closed}]
    /\ cells \in [Cells -> [at : {"mounted", "playing"}, cam : Cameras] \cup {Away}]

LEMMA ClientTypes ==
    ASSUME ClientInv
    PROVE  /\ \A r \in Responses : responses[r].at = "body" => responses[r].cam \in Cameras
           /\ \A v \in Cells : cells[v].at = "playing" => cells[v].cam \in Cameras
  BY DEF ClientInv, Closed, Away

LEMMA ClientsKept ==
    ASSUME UNCHANGED <<responses, cells>>, ClientInv
    PROVE  ClientInv'
  BY DEF ClientInv

LEMMA ClientStep ==
    ASSUME SInv, ClientInv, [SourcesNext]_allVars
    PROVE  ClientInv'
  <1> DEFINE Response == [at : {"asked", "body"}, cam : Cameras, id : Nat]
             CellState == [at : {"mounted", "playing"}, cam : Cameras]
  <1>1. ASSUME NEW r \in Responses, NEW c \in Cameras, Open(r, c)
        PROVE  ClientInv'
    <2>1. Acquired("mjpeg", c).id \in Nat
      <3>1. streams["mjpeg"][c] \in Streams /\ made \in Nat
        BY DEF SInv, TableInv, Modes
      <3> QED
        BY <3>1 DEF Acquired, Streams
    <2>2. /\ responses' = [responses EXCEPT
                ![r] = [at |-> "asked", cam |-> c, id |-> Acquired("mjpeg", c).id]]
          /\ cells' = cells
      BY <1>1 DEF Open, OpenMjpeg
    <2> QED
      BY <2>1, <2>2 DEF ClientInv
  <1>2. ASSUME NEW r \in Responses, Begin(r)
        PROVE  ClientInv'
    <2>1. /\ responses[r].at = "asked" /\ cells' = cells
          /\ responses' = [responses EXCEPT ![r].at = "body"]
      BY <1>2 DEF Begin, StartBody
    <2>2. responses[r] \in Response
      BY <2>1 DEF ClientInv, Closed
    <2>3. [responses[r] EXCEPT !.at = "body"] \in Response
      BY <2>2
    <2> QED
      BY <2>1, <2>3 DEF ClientInv
  <1>3. ASSUME NEW r \in Responses, Close(r) \/ Abort(r)
        PROVE  ClientInv'
    <2>1. responses' = [responses EXCEPT ![r] = Closed] /\ cells' = cells
      BY <1>3 DEF Close, CloseMjpeg, Abort, AbortMjpeg
    <2> QED
      BY <2>1 DEF ClientInv
  <1>4. ASSUME NEW v \in Cells, Cell(v)
        PROVE  ClientInv'
    <2>1. ASSUME NEW c \in Cameras, Mount(v, c)
          PROVE  ClientInv'
      BY <2>1 DEF Mount, ClientInv
    <2>2. CASE Play(v)
      <3>1. /\ cells[v].at = "mounted" /\ responses' = responses
            /\ cells' = [cells EXCEPT ![v].at = "playing"]
        BY <2>2 DEF Play
      <3>2. cells[v] \in CellState
        BY <3>1 DEF ClientInv, Away
      <3>3. [cells[v] EXCEPT !.at = "playing"] \in CellState
        BY <3>2
      <3> QED
        BY <3>1, <3>3 DEF ClientInv
    <2>3. CASE Unmount(v)
      BY <2>3 DEF Unmount, ClientInv
    <2> QED
      BY <1>4, <2>1, <2>2, <2>3 DEF Cell
  <1>5. ASSUME NEW i \in Ids, Run(i) \/ StopEnds(i) \/ StopTimesOut(i)
        PROVE  ClientInv'
    <2>1. UNCHANGED <<responses, cells>>
      BY <1>5 DEF Run, OpenSource, OpenFails, ReadFrame, ReadFails, Reconnect, WritePlaylist,
                  FfmpegExits, StopEnds, StopTimesOut, CleansUp, Stopped, vars
    <2> QED
      BY <2>1, ClientsKept
  <1>6. CASE CleanupStops \/ ShutdownStops \/ Clock
    <2>1. UNCHANGED <<responses, cells>>
      BY <1>6 DEF CleanupStops, ShutdownStops, StartStopping, Clock, Tick
    <2> QED
      BY <2>1, ClientsKept
  <1>7. ASSUME NEW r \in Responses, Leave(r)
        PROVE  ClientInv'
    BY <1>7, ClientsKept DEF Leave, vars
  <1>8. ASSUME NEW v \in Cells, Fetch(v)
        PROVE  ClientInv'
    BY <1>8, ClientsKept DEF Fetch, FetchPlaylist
  <1>9. ASSUME NEW c \in Cameras, ReleaseHls(c) \/ LoseRelease(c)
        PROVE  ClientInv'
    BY <1>9, ClientsKept DEF ReleaseHls, HlsRelease, LoseRelease, ReleaseLost
  <1>10. ASSUME NEW w \in waits, AnswerPlaylist(w) \/ PlaylistLate(w)
         PROVE  ClientInv'
    BY <1>10, ClientsKept DEF AnswerPlaylist, PlaylistLate, vars
  <1>11. ASSUME NEW v \in Cells, FetchRaises(v)
         PROVE  ClientInv'
    BY <1>11, ClientsKept DEF FetchRaises, PlaylistFails
  <1>12. CASE UNCHANGED allVars
    BY <1>12, ClientsKept DEF allVars, vars
  <1> QED
    BY <1>1, <1>2, <1>3, <1>4, <1>5, <1>6, <1>7, <1>8, <1>9, <1>10, <1>11, <1>12 DEF SourcesNext

-------------------------------------------------------------------------------
(* The refinement *)

LEMMA InitMaps == SourcesInit => SInv /\ ClientInv /\ Manager!Init
  <1> SUFFICES ASSUME SourcesInit
               PROVE  SInv /\ ClientInv /\ Manager!Init
    OBVIOUS
  <1>1. /\ streams = [m \in Modes |-> [c \in Cameras |-> NoStream]]
        /\ made = 0 /\ stopping = {} /\ Init
    BY DEF SourcesInit, Init
  <1>2. TableInv
    <2>1. streams \in [Modes -> [Cameras -> Streams]]
      BY <1>1, NoStreamIsStream
    <2>2. \A m \in Modes, c \in Cameras : streams[m][c] = NoStream
      BY <1>1
    <2> QED
      BY <1>1, <2>1, <2>2, NoStreamIsStream DEF TableInv, Known, Distinct
  <1>3. SInv
    BY <1>1, <1>2 DEF SInv, StoppingInv
  <1>4. Served = streams
    BY <1>1, <1>2, WholeView DEF Served, TableInv
  <1>5. Manager!Init
    BY <1>1, <1>4 DEF Init, Modes, NoStream, Never, Closed, Away, Manager!Init, Manager!Modes,
                      Manager!NoStream, Manager!Never, Manager!Closed, Manager!Away
  <1>6. ClientInv
    BY <1>1 DEF Init, ClientInv
  <1> QED
    BY <1>3, <1>5, <1>6

LEMMA StepMaps ==
    ASSUME SInv, ClientInv, [SourcesNext]_allVars
    PROVE  SInv' /\ [Manager!Next]_(Manager!vars)
  <1> USE DEF Manager!Next, Manager!Client
  <1>1. ASSUME NEW i \in Ids, Run(i) \/ StopEnds(i) \/ StopTimesOut(i)
        PROVE  SInv' /\ [Manager!Next]_(Manager!vars)
    BY <1>1, RunMaps, StopMaps
  <1>2. CASE CleanupStops
    BY <1>2, CleanupMaps
  <1>3. CASE ShutdownStops
    BY <1>3, ShutdownMaps
  <1>4. CASE Clock
    BY <1>4, ClockMaps
  <1>5. ASSUME NEW r \in Responses, NEW c \in Cameras, Open(r, c)
        PROVE  SInv' /\ [Manager!Next]_(Manager!vars)
    BY <1>5, OpenMaps
  <1>6. ASSUME NEW r \in Responses, Begin(r) \/ Leave(r) \/ Abort(r)
        PROVE  SInv' /\ [Manager!Next]_(Manager!vars)
    BY <1>6, ResponseMaps
  <1>7. ASSUME NEW r \in Responses, Close(r)
        PROVE  SInv' /\ [Manager!Next]_(Manager!vars)
    <2>1. responses[r].cam \in Cameras
      BY <1>7, ClientTypes DEF Close, CloseMjpeg
    <2> QED
      BY <1>7, <2>1, CloseMaps
  <1>8. ASSUME NEW v \in Cells, Cell(v)
        PROVE  SInv' /\ [Manager!Next]_(Manager!vars)
    BY <1>8, CellMaps
  <1>9. ASSUME NEW v \in Cells, Fetch(v)
        PROVE  SInv' /\ [Manager!Next]_(Manager!vars)
    <2>1. cells[v].cam \in Cameras
      BY <1>9, ClientTypes DEF Fetch, FetchPlaylist
    <2> QED
      BY <1>9, <2>1, FetchMaps
  <1>10. ASSUME NEW c \in Cameras, ReleaseHls(c) \/ LoseRelease(c)
         PROVE  SInv' /\ [Manager!Next]_(Manager!vars)
    BY <1>10, ReleaseHlsMaps, LoseReleaseMaps
  <1>11. ASSUME NEW w \in waits, AnswerPlaylist(w) \/ PlaylistLate(w)
         PROVE  SInv' /\ [Manager!Next]_(Manager!vars)
    BY <1>11, AnswerMaps
  <1>12. ASSUME NEW v \in Cells, FetchRaises(v)
         PROVE  SInv' /\ [Manager!Next]_(Manager!vars)
    BY <1>12, RaisesMaps DEF Manager!Next, Manager!Client
  <1>13. CASE UNCHANGED allVars
    <2>1. SInv' /\ Served' = Served
      BY <1>13, UntouchedMaps DEF allVars, vars, sourceVars
    <2> QED
      BY <1>13, <2>1 DEF allVars, vars, Manager!vars
  <1> QED
    BY <1>1, <1>2, <1>3, <1>4, <1>5, <1>6, <1>7, <1>8, <1>9, <1>10, <1>11, <1>12, <1>13
       DEF SourcesNext

LEMMA TableAndClients == SourcesSpec => [](SInv /\ ClientInv)
  <1>1. SourcesInit => SInv /\ ClientInv
    BY InitMaps
  <1>2. (SInv /\ ClientInv) /\ [SourcesNext]_allVars => (SInv /\ ClientInv)'
    BY StepMaps, ClientStep
  <1> QED
    BY <1>1, <1>2, PTL DEF SourcesSpec

\* The manager with its sources is the manager: it starts as StreamManager does, and each of
\* its steps, whoever hangs and whatever waits for the lock, is a step of StreamManager or
\* none. (Implements has the fairness too, which only the run checks.)
THEOREM StepsOfTheManager ==
    SourcesSpec => Manager!Init /\ [][Manager!Next]_(Manager!vars)
  <1>1. SourcesInit => Manager!Init
    BY InitMaps
  <1>2. (SInv /\ ClientInv) /\ [SourcesNext]_allVars => [Manager!Next]_(Manager!vars)
    BY StepMaps
  <1> QED
    BY <1>1, <1>2, TableAndClients, PTL DEF SourcesSpec

-------------------------------------------------------------------------------
(* Nothing is left behind *)

States == {"opening", "reading", "retrying", "encoding", "ended"}
Source == [kind : {"none", "rtsp", "file", "images", "ffmpeg"}, on : BOOLEAN, at : States,
           ready : BOOLEAN, held : BOOLEAN]

\* ffmpeg runs for HLS sources only, and they have no reader thread.
FfmpegInv ==
    /\ source \in [Ids -> Source]
    /\ \A i \in Ids : /\ source[i].at = "encoding" => source[i].kind = "ffmpeg"
                      /\ source[i].kind = "ffmpeg" => source[i].at \in {"encoding", "ended"}

\* NothingLeftRunning for one source.
Tidy(i, s, l) ==
    /\ s[i].at # "encoding"
    /\ s[i].at # "ended" => i \in l /\ ~s[i].on

\* A source is told to end before its stop waits for it.
Told == \A i \in First(stopping) : ~source[i].on

OrphanInv == FfmpegInv /\ NothingLeftRunning /\ Told

LEMMA TidyMeans == NothingLeftRunning <=> \A i \in Ids \ ServedIds : Tidy(i, source, late)
  BY DEF NothingLeftRunning, Tidy

LEMMA TidyMeansNext ==
    NothingLeftRunning' <=> \A i \in Ids \ ServedIds' : Tidy(i, source', late')
  BY DEF NothingLeftRunning, Tidy

\* Every id is one of the bounded number of requests.
BoundInv ==
    /\ requests \in 0..MaxRequests
    /\ made \in 0..requests
    /\ stopping \subseteq Ids

LEMMA BoundStep ==
    ASSUME SInv, SInv', BoundInv, [SourcesNext]_allVars
    PROVE  BoundInv'
  <1> USE StreamAssumption
  <1>1. ASSUME UNCHANGED <<requests, made>>, stopping' \subseteq stopping
        PROVE  BoundInv'
    BY <1>1 DEF BoundInv
  <1>2. ASSUME NEW m, NEW c, Get(m, c), stopping' = stopping
        PROVE  BoundInv'
    BY <1>2 DEF Get, BoundInv
  <1>3. CASE CleanupStops \/ ShutdownStops
    <2>1. UNCHANGED <<requests, made>>
      BY <1>3 DEF CleanupStops, ShutdownStops, StartStopping
    <2>2. ASSUME NEW i \in stopping'
          PROVE  i \in Ids
      <3>1. PICK m \in Modes, c \in Cameras : i = streams[m][c].id
        BY <1>3, <2>2 DEF CleanupStops, ShutdownStops, StartStopping, IdsOf, Abandoned, Registered
      <3>2. i \in Nat \ {0} /\ i <= made
        BY <2>2, <3>1 DEF SInv, TableInv, Known, StoppingInv
      <3> QED
        BY <3>2 DEF BoundInv, Ids
    <2> QED
      BY <2>1, <2>2 DEF BoundInv
  <1>4. ASSUME NEW i \in Ids, Run(i) \/ StopEnds(i) \/ StopTimesOut(i)
        PROVE  BoundInv'
    <2>1. UNCHANGED <<requests, made>> /\ stopping' \subseteq stopping
      BY <1>4 DEF Run, OpenSource, OpenFails, ReadFrame, ReadFails, Reconnect, WritePlaylist,
                  FfmpegExits, StopEnds, StopTimesOut, CleansUp, Stopped, vars
    <2> QED
      BY <1>1, <2>1
  <1>5. ASSUME NEW r \in Responses, NEW c \in Cameras, Open(r, c)
        PROVE  BoundInv'
    BY <1>2, <1>5 DEF Open, OpenMjpeg
  <1>6. ASSUME NEW v \in Cells, Fetch(v)
        PROVE  BoundInv'
    BY <1>2, <1>6 DEF Fetch, FetchPlaylist
  <1>7. \/ Clock \/ \E r \in Responses : Begin(r) \/ Leave(r) \/ Close(r) \/ Abort(r)
        \/ \E v \in Cells : Cell(v)
        \/ \E c \in Cameras : ReleaseHls(c) \/ LoseRelease(c)
        \/ \E w \in waits : AnswerPlaylist(w) \/ PlaylistLate(w)
        \/ UNCHANGED allVars
        => UNCHANGED <<requests, made, stopping>>
    BY DEF Clock, Tick, Begin, StartBody, Leave, Close, CloseMjpeg, Abort, AbortMjpeg, Cell, Mount,
           Play, Unmount, ReleaseHls, HlsRelease, LoseRelease, ReleaseLost,
           AnswerPlaylist, PlaylistLate, sourceVars, allVars, vars
  <1>8. ASSUME NEW v \in Cells, FetchRaises(v)
        PROVE  BoundInv'
    BY <1>8 DEF FetchRaises, PlaylistFails, BoundInv
  <1> QED
    BY <1>1, <1>3, <1>4, <1>5, <1>6, <1>7, <1>8 DEF SourcesNext

LEMMA Bounded == SourcesSpec => []BoundInv
  <1>1. SourcesInit => BoundInv
    BY StreamAssumption DEF SourcesInit, Init, BoundInv
  <1>2. SInv /\ SInv' /\ BoundInv /\ [SourcesNext]_allVars => BoundInv'
    BY BoundStep
  <1> QED
    BY <1>1, <1>2, TableAndClients, PTL DEF SourcesSpec

\* Whose stop comes first depends on the kinds of the sources, which never change.
LEMMA SameTurn ==
    ASSUME NEW ids, ids \subseteq Ids, stopping' = ids,
           \A i \in Ids : source'[i].kind = source[i].kind
    PROVE  \A i \in First(stopping)' : i \in First(ids) /\ i \in Ids
  BY DEF First, Before

\* A source that changes only what no property looks at, while the same ones are stopped.
LEMMA SameSource ==
    ASSUME OrphanInv, BoundInv, source' \in [Ids -> Source],
           \A i \in Ids : /\ source'[i].at = source[i].at /\ source'[i].kind = source[i].kind
                          /\ source'[i].on => source[i].on,
           ServedIds' = ServedIds, late' = late, Told'
    PROVE  OrphanInv'
  <1>1. FfmpegInv'
    BY DEF OrphanInv, FfmpegInv
  <1>2. \A i \in Ids \ ServedIds' : Tidy(i, source', late')
    BY TidyMeans DEF OrphanInv, Tidy
  <1> QED
    BY <1>1, <1>2, TidyMeansNext DEF OrphanInv

\* What was told to end stays told, as long as nothing starts it again.
LEMMA StaysTold ==
    ASSUME Told, BoundInv, stopping' = stopping,
           \A i \in Ids : /\ source'[i].kind = source[i].kind
                          /\ source'[i].on => source[i].on
    PROVE  Told'
  <1>1. \A i \in First(stopping)' : i \in First(stopping) /\ i \in Ids
    BY DEF First, Before, BoundInv
  <1> QED
    BY <1>1 DEF Told

LEMMA SameTable ==
    ASSUME UNCHANGED streams
    PROVE  ServedIds' = ServedIds
  BY DEF ServedIds

LEMMA RunTidy ==
    ASSUME OrphanInv, BoundInv, NEW i \in Ids, Run(i)
    PROVE  OrphanInv'
  <1>1. source[i] \in Source /\ late' = late /\ UNCHANGED <<streams, stopping>>
    BY DEF OrphanInv, FfmpegInv, Run, OpenSource, OpenFails, ReadFrame, ReadFails, Reconnect,
           WritePlaylist, FfmpegExits, vars
  <1>2. PICK s : /\ s \in Source /\ s.kind = source[i].kind /\ (s.on => source[i].on)
                 /\ source' = [source EXCEPT ![i] = s]
                 /\ \/ source[i].at = "encoding" /\ s.at \in {"encoding", "ended"}
                    \/ source[i].at \in {"opening", "reading", "retrying"} /\ s.at # "encoding"
    <2>1. CASE OpenSource(i)
      <3> DEFINE s == [source[i] EXCEPT !.at = IF source[i].on THEN "reading" ELSE "ended",
                                        !.held = source[i].kind # "images"]
      <3>1. /\ s \in Source /\ s.kind = source[i].kind /\ (s.on => source[i].on) /\ s.at # "encoding"
            /\ source' = [source EXCEPT ![i] = s] /\ source[i].at = "opening"
        BY <1>1, <2>1 DEF OpenSource, Source, States, OrphanInv, FfmpegInv
      <3> QED
        BY <3>1
    <2>2. CASE OpenFails(i)
      <3> DEFINE s == [source[i] EXCEPT !.at = "ended", !.on = FALSE]
      <3>1. /\ s \in Source /\ s.kind = source[i].kind /\ (s.on => source[i].on) /\ s.at # "encoding"
            /\ source' = [source EXCEPT ![i] = s] /\ source[i].at = "opening"
        BY <1>1, <2>2 DEF OpenFails, Source, States, OrphanInv, FfmpegInv
      <3> QED
        BY <3>1
    <2>3. CASE ReadFrame(i)
      <3>1. PICK ok \in BOOLEAN :
               source' = [source EXCEPT ![i].ready = ok,
                                        ![i].at = IF source[i].on THEN "reading" ELSE "ended"]
        BY <2>3 DEF ReadFrame
      <3> DEFINE s == [source[i] EXCEPT !.ready = ok,
                                        !.at = IF source[i].on THEN "reading" ELSE "ended"]
      <3>2. /\ s \in Source /\ s.kind = source[i].kind /\ (s.on => source[i].on) /\ s.at # "encoding"
            /\ source' = [source EXCEPT ![i] = s] /\ source[i].at = "reading"
        BY <1>1, <2>3, <3>1 DEF ReadFrame, Source, States, OrphanInv, FfmpegInv
      <3> QED
        BY <3>2
    <2>4. CASE ReadFails(i)
      <3> DEFINE s == [source[i] EXCEPT !.at = IF source[i].kind = "rtsp" THEN "retrying"
                                                                          ELSE "ended"]
      <3>1. /\ s \in Source /\ s.kind = source[i].kind /\ (s.on => source[i].on) /\ s.at # "encoding"
            /\ source' = [source EXCEPT ![i] = s] /\ source[i].at = "reading"
        BY <1>1, <2>4 DEF ReadFails, Source, States, OrphanInv, FfmpegInv
      <3> QED
        BY <3>1
    <2>5. CASE Reconnect(i)
      <3>1. PICK opened \in BOOLEAN :
               source' = [source EXCEPT
                   ![i].held = opened,
                   ![i].at = IF opened /\ source[i].on THEN "reading" ELSE "ended"]
        BY <2>5 DEF Reconnect
      <3> DEFINE s == [source[i] EXCEPT
                   !.held = opened,
                   !.at = IF opened /\ source[i].on THEN "reading" ELSE "ended"]
      <3>2. /\ s \in Source /\ s.kind = source[i].kind /\ (s.on => source[i].on) /\ s.at # "encoding"
            /\ source' = [source EXCEPT ![i] = s] /\ source[i].at = "retrying"
        BY <1>1, <2>5, <3>1 DEF Reconnect, Source, States, OrphanInv, FfmpegInv
      <3> QED
        BY <3>2
    <2>6. CASE WritePlaylist(i)
      <3> DEFINE s == [source[i] EXCEPT !.ready = TRUE]
      <3>1. /\ s \in Source /\ s.kind = source[i].kind /\ (s.on => source[i].on) /\ s.at = "encoding"
            /\ source' = [source EXCEPT ![i] = s] /\ source[i].at = "encoding"
        BY <1>1, <2>6 DEF WritePlaylist, Source, States, OrphanInv, FfmpegInv
      <3> QED
        BY <3>1
    <2>7. CASE FfmpegExits(i)
      <3> DEFINE s == [source[i] EXCEPT !.at = "ended"]
      <3>1. /\ s \in Source /\ s.kind = source[i].kind /\ (s.on => source[i].on) /\ s.at = "ended"
            /\ source' = [source EXCEPT ![i] = s] /\ source[i].at = "encoding"
        BY <1>1, <2>7 DEF FfmpegExits, Source, States, OrphanInv, FfmpegInv
      <3> QED
        BY <3>1
    <2> QED
      BY <2>1, <2>2, <2>3, <2>4, <2>5, <2>6, <2>7 DEF Run
  <1>3. /\ source' \in [Ids -> Source] /\ source'[i] = s
        /\ \A j \in Ids \ {i} : source'[j] = source[j]
    BY <1>2 DEF OrphanInv, FfmpegInv
  <1>4. FfmpegInv'
    BY <1>2, <1>3 DEF OrphanInv, FfmpegInv
  <1>5. \A j \in Ids \ ServedIds' : Tidy(j, source', late')
    BY <1>1, <1>2, <1>3, TidyMeans, SameTable DEF OrphanInv, Tidy
  <1>6. Told'
    BY <1>1, <1>2, <1>3, StaysTold DEF OrphanInv
  <1> QED
    BY <1>4, <1>5, <1>6, TidyMeansNext DEF OrphanInv

\* Asking for a camera registers what it starts.
LEMMA GetServes ==
    ASSUME TableInv, NEW m \in Modes, NEW c \in Cameras, Get(m, c)
    PROVE  /\ ServedIds \ {0} \subseteq ServedIds'
           /\ made' = made \/ (made' = made + 1 /\ made + 1 \in ServedIds')
  <1>1. /\ streams' = [streams EXCEPT ![m][c] = Acquired(m, c)]
        /\ made' = IF c \in Registered(m) THEN made ELSE made + 1
    BY DEF Get
  <1>2. streams[m][c] \in Streams
    BY DEF TableInv
  <1>3. /\ streams'[m][c] = Acquired(m, c)
        /\ \A n \in Modes, d \in Cameras : n # m \/ d # c => streams'[n][d] = streams[n][d]
    BY <1>1 DEF TableInv
  <1>4. \A i : i \in ServedIds' <=> \E n \in Modes, d \in Cameras : streams'[n][d].id = i
    BY DEF ServedIds
  <1>5. \A i : i \in ServedIds <=> \E n \in Modes, d \in Cameras : streams[n][d].id = i
    BY DEF ServedIds
  <1>6. Acquired(m, c).id \in ServedIds'
    BY <1>3, <1>4
  <1>7. IF c \in Registered(m) THEN Acquired(m, c).id = streams[m][c].id
                               ELSE Acquired(m, c).id = made + 1 /\ streams[m][c].id = 0
    BY <1>2 DEF Acquired, Registered, Streams
  <1>8. ASSUME NEW i \in ServedIds, i # 0
        PROVE  i \in ServedIds'
    <2>1. PICK n \in Modes, d \in Cameras : streams[n][d].id = i
      BY <1>5
    <2>2. CASE n = m /\ d = c
      BY <1>6, <1>7, <1>8, <2>1, <2>2
    <2>3. CASE ~(n = m /\ d = c)
      BY <1>3, <1>4, <2>1, <2>3
    <2> QED
      BY <2>2, <2>3
  <1> QED
    BY <1>1, <1>6, <1>7, <1>8

LEMMA StartTidy ==
    ASSUME SInv, OrphanInv, NEW m \in Modes, NEW c \in Cameras, Get(m, c),
           NEW new \in Source,
           new.at = "encoding" => new.kind = "ffmpeg",
           new.kind = "ffmpeg" => new.at \in {"encoding", "ended"},
           source' = Started(made', new), late' = late, Free, stopping' = stopping
    PROVE  OrphanInv'
  <1>0. Told'
    BY DEF Told, First, Free
  <1>1. /\ ServedIds \ {0} \subseteq ServedIds'
        /\ made' = made \/ (made' = made + 1 /\ made + 1 \in ServedIds')
        /\ made \in Nat /\ 0 \notin Ids
    BY GetServes DEF SInv, TableInv, Ids
  <1>2. source \in [Ids -> Source]
    BY DEF OrphanInv, FfmpegInv
  <1>3. CASE made' = made
    <2>1. source' = source
      BY <1>1, <1>3 DEF Started
    <2>2. FfmpegInv'
      BY <2>1 DEF OrphanInv, FfmpegInv
    <2>3. \A j \in Ids \ ServedIds' : Tidy(j, source', late')
      BY <1>1, <2>1, TidyMeans DEF OrphanInv
    <2> QED
      BY <1>0, <2>2, <2>3, TidyMeansNext DEF OrphanInv
  <1>4. CASE made' = made + 1 /\ made + 1 \in ServedIds'
    <2>1. source' = [source EXCEPT ![made + 1] = new]
      BY <1>1, <1>4 DEF Started
    <2>2. /\ source' \in [Ids -> Source]
          /\ \A j \in Ids : j # made + 1 => source'[j] = source[j]
          /\ made + 1 \in Ids => source'[made + 1] = new
      BY <1>2, <2>1
    <2>3. FfmpegInv'
      BY <2>2 DEF OrphanInv, FfmpegInv
    <2>4. \A j \in Ids \ ServedIds' : Tidy(j, source', late')
      BY <1>1, <1>4, <2>2, TidyMeans DEF OrphanInv, Tidy
    <2> QED
      BY <1>0, <2>3, <2>4, TidyMeansNext DEF OrphanInv
  <1> QED
    BY <1>1, <1>3, <1>4

LEMMA OpenTidy ==
    ASSUME SInv, OrphanInv, NEW r \in Responses, NEW c \in Cameras, Open(r, c)
    PROVE  OrphanInv'
  <1>1. PICK kind \in Kinds : source' = Started(made', Opening(kind))
    BY DEF Open
  <1>2. /\ Opening(kind) \in Source /\ Opening(kind).at = "opening"
        /\ Opening(kind).kind # "ffmpeg"
    BY SourcesAssumption DEF Opening, Source, States
  <1>3. Get("mjpeg", c) /\ late' = late /\ "mjpeg" \in Modes /\ Free /\ stopping' = stopping
    BY DEF Open, OpenMjpeg, Modes
  <1> QED
    BY <1>1, <1>2, <1>3, StartTidy

LEMMA FetchTidy ==
    ASSUME SInv, OrphanInv, NEW v \in Cells, Fetch(v), cells[v].cam \in Cameras
    PROVE  OrphanInv'
  <1>1. source' = Started(made', Encoding)
    BY DEF Fetch
  <1>2. Encoding \in Source /\ Encoding.at = "encoding" /\ Encoding.kind = "ffmpeg"
    BY DEF Encoding, Source, States
  <1>3. Get("hls", cells[v].cam) /\ late' = late /\ "hls" \in Modes /\ Free /\ stopping' = stopping
    BY DEF Fetch, FetchPlaylist, Modes
  <1> QED
    BY <1>1, <1>2, <1>3, StartTidy

\* Signalling changes only the flag.
LEMMA SignalledKeeps ==
    ASSUME NEW s \in [Ids -> Source], NEW ids
    PROVE  /\ Signalled(s, ids) \in [Ids -> Source]
           /\ \A i \in Ids : /\ Signalled(s, ids)[i].at = s[i].at
                             /\ Signalled(s, ids)[i].kind = s[i].kind
                             /\ Signalled(s, ids)[i].on => s[i].on /\ i \notin First(ids)
  <1>1. ASSUME NEW i \in Ids
        PROVE  /\ Signalled(s, ids)[i] \in Source
               /\ Signalled(s, ids)[i].at = s[i].at
               /\ Signalled(s, ids)[i].kind = s[i].kind
               /\ Signalled(s, ids)[i].on => s[i].on /\ i \notin First(ids)
    <2>1. s[i] \in Source
      OBVIOUS
    <2>2. Signalled(s, ids)[i] = IF i \in First(ids) THEN [s[i] EXCEPT !.on = FALSE] ELSE s[i]
      BY DEF Signalled
    <2>3. CASE i \in First(ids)
      BY <2>1, <2>2, <2>3 DEF Source
    <2>4. CASE i \notin First(ids)
      BY <2>1, <2>2, <2>4
    <2> QED
      BY <2>3, <2>4
  <1>2. Signalled(s, ids) \in [Ids -> Source]
    BY <1>1 DEF Signalled
  <1> QED
    BY <1>1, <1>2

LEMMA StartStoppingTidy ==
    ASSUME OrphanInv, BoundInv, BoundInv', CleanupStops \/ ShutdownStops
    PROVE  OrphanInv'
  <1>1. PICK ids : /\ source' = Signalled(source, ids) /\ stopping' = ids
                   /\ late' = late /\ streams' = streams
    BY DEF CleanupStops, ShutdownStops, StartStopping
  <1>2. source \in [Ids -> Source] /\ ids \subseteq Ids
    BY <1>1 DEF OrphanInv, FfmpegInv, BoundInv
  <1>3. /\ source' \in [Ids -> Source]
        /\ \A i \in Ids : /\ source'[i].at = source[i].at /\ source'[i].kind = source[i].kind
                          /\ source'[i].on => source[i].on /\ i \notin First(ids)
    BY <1>1, <1>2, SignalledKeeps
  <1>4. Told'
    <2>1. \A i \in First(stopping)' : i \in First(ids) /\ i \in Ids
      BY <1>1, <1>2, <1>3, SameTurn
    <2> QED
      BY <1>3, <2>1 DEF Told
  <1> QED
    BY <1>1, <1>3, <1>4, SameTable, SameSource

\* A stop leaves an orphan only when it does not wait for the end.
LEMMA StopTidy ==
    ASSUME SInv, OrphanInv, BoundInv, NEW i \in Ids, StopEnds(i) \/ StopTimesOut(i)
    PROVE  OrphanInv'
  <1>1. source[i] \in Source /\ source \in [Ids -> Source]
    BY DEF OrphanInv, FfmpegInv
  <1>2. PICK s : /\ s \in Source /\ s.kind = source[i].kind /\ ~s.on /\ Stopped(i, s)
                 /\ s.at = "encoding" => s.kind = "ffmpeg"
                 /\ s.kind = "ffmpeg" => s.at = "ended"
                 /\ late' = late \/ late' = late \cup {i}
                 /\ i \in late' \/ s.at = "ended"
    <2>1. i \in First(stopping) /\ ~source[i].on
      BY DEF StopEnds, StopTimesOut, OrphanInv, Told
    <2>2. ASSUME NEW at, CleansUp(i, at),
                 at \in {source[i].at, "ended"}, source[i].kind = "ffmpeg" => at = "ended"
          PROVE  \E t \in Source : /\ t.kind = source[i].kind /\ ~t.on /\ Stopped(i, t)
                                   /\ t.at = at
      <3>1. PICK t : /\ Stopped(i, t)
                     /\ \/ t = [source[i] EXCEPT !.at = at, !.held = FALSE]
                        \/ \E playlist \in BOOLEAN :
                              t = [source[i] EXCEPT !.at = at, !.held = FALSE, !.ready = playlist]
        BY <1>1, <2>2 DEF CleansUp, Source
      <3>2. t \in Source /\ t.kind = source[i].kind /\ ~t.on /\ t.at = at
        BY <1>1, <2>1, <2>2, <3>1 DEF Source, States
      <3> QED
        BY <3>1, <3>2
    <2>3. CASE StopEnds(i)
      <3>1. PICK t \in Source : /\ t.kind = source[i].kind /\ ~t.on /\ Stopped(i, t)
                                /\ t.at = "ended"
        BY <2>2, <2>3 DEF StopEnds
      <3>2. late' = late
        BY <2>3 DEF StopEnds
      <3> QED
        BY <3>1, <3>2
    <2>4. CASE StopTimesOut(i)
      <3> DEFINE at == IF source[i].kind = "ffmpeg" THEN "ended" ELSE source[i].at
      <3>1. PICK t \in Source : /\ t.kind = source[i].kind /\ ~t.on /\ Stopped(i, t)
                                /\ t.at = at
        BY <2>2, <2>4 DEF StopTimesOut
      <3>2. t.at = "encoding" => t.kind = "ffmpeg"
        BY <3>1 DEF OrphanInv, FfmpegInv
      <3>3. late' = IF t.kind = "ffmpeg" THEN late ELSE late \cup {i}
        BY <2>4, <3>1 DEF StopTimesOut
      <3> QED
        BY <3>1, <3>2, <3>3
    <2> QED
      BY <2>3, <2>4
  <1>3. source' = Signalled([source EXCEPT ![i] = s], stopping \ {i}) /\ Forget(i)
        /\ stopping' = stopping \ {i}
    BY <1>2 DEF Stopped
  <1>4. PICK between : between = [source EXCEPT ![i] = s]
    OBVIOUS
  <1>5. /\ between \in [Ids -> Source] /\ between[i] = s
        /\ \A j \in Ids \ {i} : between[j] = source[j]
    BY <1>1, <1>2, <1>4
  <1>6. /\ source' \in [Ids -> Source]
        /\ \A j \in Ids : /\ source'[j].at = between[j].at /\ source'[j].kind = between[j].kind
                          /\ source'[j].on => between[j].on /\ j \notin First(stopping \ {i})
    <2>1. source' = Signalled(between, stopping \ {i})
      BY <1>3, <1>4
    <2>2. between \in [Ids -> Source]
      BY <1>5
    <2> QED
      BY <2>1, <2>2, SignalledKeeps
  <1>7. FfmpegInv'
    BY <1>2, <1>5, <1>6 DEF OrphanInv, FfmpegInv
  <1>8. \A j \in Ids : j \in ServedIds /\ j # i => j \in ServedIds'
    <2>1. \A m \in Modes, c \in Cameras :
             streams'[m][c] = IF streams[m][c].id = i THEN NoStream ELSE streams[m][c]
      BY <1>3 DEF Forget
    <2> QED
      BY <2>1 DEF ServedIds
  <1>9. \A j \in Ids \ ServedIds' : Tidy(j, source', late')
    <2> SUFFICES ASSUME NEW j \in Ids \ ServedIds'
                 PROVE  Tidy(j, source', late')
      OBVIOUS
    <2>1. CASE j = i
      BY <1>2, <1>5, <1>6, <2>1 DEF Tidy
    <2>2. CASE j # i
      <3>1. Tidy(j, source, late)
        BY <1>8, <2>2, TidyMeans DEF OrphanInv
      <3>2. between[j] = source[j]
        BY <1>5, <2>2
      <3> QED
        BY <1>2, <1>6, <3>1, <3>2 DEF Tidy
    <2> QED
      BY <2>1, <2>2
  <1>10. Told'
    <2>1. PICK ids : ids = stopping \ {i}
      OBVIOUS
    <2>2. ids \subseteq Ids /\ stopping' = ids
      BY <1>3, <2>1 DEF BoundInv
    <2>3. \A j \in Ids : source'[j].kind = source[j].kind
      BY <1>2, <1>5, <1>6
    <2>4. \A j \in First(stopping)' : j \in First(ids) /\ j \in Ids
      BY <2>2, <2>3, SameTurn
    <2> QED
      BY <1>6, <2>1, <2>4 DEF Told
  <1> QED
    BY <1>7, <1>9, <1>10, TidyMeansNext DEF OrphanInv

\* Handlers that start nothing leave every id where it is.
LEMMA IdsServed ==
    ASSUME \A m \in Modes, c \in Cameras : streams'[m][c].id = streams[m][c].id
    PROVE  ServedIds' = ServedIds
  BY DEF ServedIds

LEMMA ReleaseServes ==
    ASSUME TableInv, NEW m \in Modes, NEW c \in Cameras, Release(m, c)
    PROVE  \A n \in Modes, d \in Cameras : streams'[n][d].id = streams[n][d].id
  <1>1. streams[m][c] \in Streams /\ Released(streams[m][c]).id = streams[m][c].id
    BY DEF TableInv, Streams, Released
  <1>2. streams' = streams \/ streams' = [streams EXCEPT ![m][c] = Released(streams[m][c])]
    BY DEF Release, TableInv
  <1> QED
    BY <1>1, <1>2 DEF TableInv

LEMMA OtherTidy ==
    ASSUME SInv, ClientInv, OrphanInv, BoundInv,
           \/ Clock \/ \E r \in Responses : Begin(r) \/ Leave(r) \/ Close(r) \/ Abort(r)
           \/ \E v \in Cells : Cell(v) \/ FetchRaises(v)
           \/ \E c \in Cameras : ReleaseHls(c) \/ LoseRelease(c)
           \/ \E w \in waits : AnswerPlaylist(w) \/ PlaylistLate(w)
           \/ UNCHANGED allVars
    PROVE  OrphanInv'
  <1>1. source' = source /\ late' = late /\ stopping' = stopping
    BY DEF Clock, Begin, Leave, Close, Abort, Cell, FetchRaises, ReleaseHls, LoseRelease, AnswerPlaylist,
           PlaylistLate, sourceVars, allVars
  <1>2. \A m \in Modes, c \in Cameras : streams'[m][c].id = streams[m][c].id
    <2>1. CASE Clock
      BY <2>1, TickAges DEF Clock, SInv
    <2>2. ASSUME NEW r \in Responses, Close(r)
          PROVE  \A m \in Modes, c \in Cameras : streams'[m][c].id = streams[m][c].id
      <3>1. responses[r].cam \in Cameras /\ Release("mjpeg", responses[r].cam) /\ "mjpeg" \in Modes
        BY <2>2, ClientTypes DEF Close, CloseMjpeg, Modes
      <3> QED
        BY <3>1, ReleaseServes DEF SInv
    <2>3. ASSUME NEW c \in Cameras, ReleaseHls(c)
          PROVE  \A m \in Modes, d \in Cameras : streams'[m][d].id = streams[m][d].id
      <3>1. Release("hls", c) /\ "hls" \in Modes
        BY <2>3 DEF ReleaseHls, HlsRelease, Modes
      <3> QED
        BY <3>1, ReleaseServes DEF SInv
    <2>4. \/ \E r \in Responses : Begin(r) \/ Leave(r) \/ Abort(r)
          \/ \E v \in Cells : Cell(v) \/ FetchRaises(v)
          \/ \E c \in Cameras : LoseRelease(c)
          \/ \E w \in waits : AnswerPlaylist(w) \/ PlaylistLate(w)
          \/ UNCHANGED allVars
          => streams' = streams
      BY DEF Begin, StartBody, Leave, Abort, AbortMjpeg, Cell, Mount, Play, Unmount,
             FetchRaises, PlaylistFails, LoseRelease, ReleaseLost, AnswerPlaylist, PlaylistLate,
             allVars, vars
    <2> QED
      BY <2>1, <2>2, <2>3, <2>4
  <1>3. source' \in [Ids -> Source]
    BY <1>1 DEF OrphanInv, FfmpegInv
  <1>4. Told'
    BY <1>1, StaysTold DEF OrphanInv
  <1> QED
    BY <1>1, <1>2, <1>3, <1>4, IdsServed, SameSource

\* Of a source that the manager no longer has no ffmpeg runs, and a reader thread only when
\* its join was given up; it was told to end, and does so when its read returns, whatever
\* the cameras, the disk and the clients do.
THEOREM NothingLeft == SourcesSpec => []NothingLeftRunning
  <1>1. SourcesInit => OrphanInv
    <2> SUFFICES ASSUME SourcesInit
                 PROVE  OrphanInv
      OBVIOUS
    <2>1. \A i \in Ids : source[i] = Unmade
      BY DEF SourcesInit
    <2>2. Unmade \in Source
      BY DEF Unmade, Source, States
    <2>3. FfmpegInv
      BY <2>1, <2>2 DEF SourcesInit, FfmpegInv, Unmade
    <2>4. NothingLeftRunning /\ Told
      BY <2>1 DEF SourcesInit, NothingLeftRunning, Told, First, Unmade
    <2> QED
      BY <2>3, <2>4 DEF OrphanInv
  <1>2. (SInv /\ ClientInv) /\ BoundInv /\ BoundInv' /\ OrphanInv /\ [SourcesNext]_allVars
        => OrphanInv'
    <2> SUFFICES ASSUME SInv, ClientInv, BoundInv, BoundInv', OrphanInv, [SourcesNext]_allVars
                 PROVE  OrphanInv'
      OBVIOUS
    <2>1. ASSUME NEW v \in Cells, Fetch(v)
          PROVE  OrphanInv'
      <3>1. cells[v].cam \in Cameras
        BY <2>1, ClientTypes DEF Fetch, FetchPlaylist
      <3> QED
        BY <2>1, <3>1, FetchTidy
    <2> QED
      BY <2>1, RunTidy, StopTidy, StartStoppingTidy, OpenTidy, OtherTidy DEF SourcesNext
  <1>3. OrphanInv => NothingLeftRunning
    BY DEF OrphanInv
  <1> QED
    BY <1>1, <1>2, <1>3, TableAndClients, Bounded, PTL DEF SourcesSpec

-------------------------------------------------------------------------------
(* A playlist request keeps its source while it waits *)

\* The mark of an idle stream is no older than the last request for it.
AgeInv ==
    /\ sinceGet \in [Modes -> [Cameras -> 0..(IdleTimeout + 1)]]
    /\ \A m \in Modes, c \in Cameras :
          streams[m][c].idle # Never => streams[m][c].idle <= sinceGet[m][c]

\* The request that waits was one for its camera, so the mark is no older than its wait.
Kept(w) ==
    /\ streams["hls"][w.cam].id = w.id
    /\ w.id \notin stopping
    /\ sinceGet["hls"][w.cam] <= w.age

WaitInv ==
    /\ AgeInv
    /\ \A w \in waits : w \in [id : Nat \ {0}, cam : Cameras, age : 0..MaxWait]
    /\ ~down => \A w \in waits : Kept(w)

LEMMA QuietWaits ==
    ASSUME WaitInv, UNCHANGED <<streams, sinceGet, stopping, down>>, waits' \subseteq waits
    PROVE  WaitInv'
  BY DEF WaitInv, AgeInv, Kept

LEMMA ReleaseWaits ==
    ASSUME SInv, WaitInv, NEW m \in Modes, NEW c \in Cameras, Release(m, c),
           UNCHANGED <<sinceGet, stopping, down, waits>>
    PROVE  WaitInv'
  <1>1. \A n \in Modes, d \in Cameras : streams'[n][d].id = streams[n][d].id
    BY ReleaseServes DEF SInv
  <1>2. streams[m][c] \in Streams /\ streams \in [Modes -> [Cameras -> Streams]]
    BY DEF SInv, TableInv
  <1>3. Released(streams[m][c]).idle \in {0, streams[m][c].idle}
    BY <1>2 DEF Released, Streams
  <1>4. streams' = streams \/ streams' = [streams EXCEPT ![m][c] = Released(streams[m][c])]
    BY <1>2 DEF Release
  <1>5. \A n \in Modes, d \in Cameras : streams'[n][d].idle \in {0, streams[n][d].idle}
    BY <1>2, <1>3, <1>4
  <1>6. AgeInv'
    <2>1. \A n \in Modes, d \in Cameras : sinceGet[n][d] >= 0
      BY StreamAssumption DEF WaitInv, AgeInv
    <2> QED
      BY <1>5, <2>1 DEF WaitInv, AgeInv
  <1>7. "hls" \in Modes
    BY DEF Modes
  <1> QED
    BY <1>1, <1>6, <1>7 DEF WaitInv, Kept

LEMMA GetWaits ==
    ASSUME SInv, WaitInv, NEW m \in Modes, NEW c \in Cameras, Get(m, c),
           UNCHANGED <<stopping, down>>, Free,
           \/ waits' = waits
           \/ m = "hls" /\ waits' = waits \cup {[id |-> Acquired("hls", c).id, cam |-> c, age |-> 0]}
    PROVE  WaitInv'
  <1>1. /\ streams' = [streams EXCEPT ![m][c] = Acquired(m, c)]
        /\ sinceGet' = [sinceGet EXCEPT ![m][c] = 0]
        /\ ~down
    BY DEF Get
  <1>2. streams[m][c] \in Streams /\ streams \in [Modes -> [Cameras -> Streams]] /\ made \in Nat
        /\ sinceGet \in [Modes -> [Cameras -> 0..(IdleTimeout + 1)]]
    BY DEF SInv, TableInv, WaitInv, AgeInv
  <1>3. /\ Acquired(m, c).idle = Never /\ Acquired(m, c).id \in Nat \ {0}
        /\ streams[m][c].id # 0 => Acquired(m, c).id = streams[m][c].id
    BY <1>2 DEF Acquired, Registered, Streams
  <1>4. /\ streams'[m][c] = Acquired(m, c)
        /\ \A n \in Modes, d \in Cameras : n # m \/ d # c => streams'[n][d] = streams[n][d]
    BY <1>1, <1>2
  <1>5. /\ sinceGet' \in [Modes -> [Cameras -> 0..(IdleTimeout + 1)]]
        /\ sinceGet'[m][c] = 0
        /\ \A n \in Modes, d \in Cameras : n # m \/ d # c => sinceGet'[n][d] = sinceGet[n][d]
    BY <1>1, <1>2, StreamAssumption
  <1>6. AgeInv'
    BY <1>3, <1>4, <1>5 DEF WaitInv, AgeInv
  <1>7. "hls" \in Modes /\ 0 \in 0..MaxWait
    BY SourcesAssumption, StreamAssumption DEF Modes
  <1>8. ASSUME NEW w \in waits
        PROVE  w \in [id : Nat \ {0}, cam : Cameras, age : 0..MaxWait] /\ Kept(w)'
    <2>1. w \in [id : Nat \ {0}, cam : Cameras, age : 0..MaxWait] /\ Kept(w)
      BY <1>1, <1>8 DEF WaitInv
    <2>2. CASE m = "hls" /\ w.cam = c
      <3>1. streams'["hls"][w.cam].id = w.id
        BY <1>3, <1>4, <2>1, <2>2 DEF Kept
      <3>2. sinceGet'["hls"][w.cam] <= w.age
        BY <1>5, <2>1, <2>2
      <3> QED
        BY <2>1, <3>1, <3>2 DEF Kept
    <2>3. CASE ~(m = "hls" /\ w.cam = c)
      BY <1>4, <1>5, <1>7, <2>1, <2>3 DEF Kept
    <2> QED
      BY <2>1, <2>2, <2>3
  <1>9. PICK new : new = [id |-> Acquired("hls", c).id, cam |-> c, age |-> 0]
    OBVIOUS
  <1>10. new.id = Acquired("hls", c).id /\ new.cam = c /\ new.age = 0
    BY <1>9
  <1>11. ASSUME m = "hls"
         PROVE  new \in [id : Nat \ {0}, cam : Cameras, age : 0..MaxWait] /\ Kept(new)'
    <2>1. new \in [id : Nat \ {0}, cam : Cameras, age : 0..MaxWait]
      BY <1>3, <1>7, <1>9, <1>11
    <2>2. streams'["hls"][c].id = Acquired("hls", c).id /\ sinceGet'["hls"][c] = 0
      BY <1>4, <1>5, <1>11
    <2>3. stopping' = {}
      BY DEF Free
    <2>4. streams'["hls"][new.cam].id = new.id
      BY <1>10, <2>2
    <2>5. new.id \notin stopping' /\ sinceGet'["hls"][new.cam] <= new.age
      BY <1>10, <2>2, <2>3
    <2> QED
      BY <2>1, <2>4, <2>5 DEF Kept
  <1>12. ASSUME NEW w \in waits'
         PROVE  w \in [id : Nat \ {0}, cam : Cameras, age : 0..MaxWait] /\ Kept(w)'
    <2>1. w \in waits \/ (m = "hls" /\ w = new)
      BY <1>9, <1>12
    <2> QED
      BY <2>1, <1>8, <1>11
  <1> QED
    BY <1>6, <1>12 DEF WaitInv

LEMMA ClockWaits ==
    ASSUME SInv, WaitInv, Clock
    PROVE  WaitInv'
  <1>1. /\ \A w \in waits : w.age < MaxWait
        /\ Tick /\ stopping' = stopping /\ down' = down
        /\ waits' = {[w EXCEPT !.age = @ + 1] : w \in waits}
        /\ sinceGet' = [m \in Modes |-> [c \in Cameras |-> Older(sinceGet[m][c])]]
    BY DEF Clock, Tick
  <1>2. \A m \in Modes, c \in Cameras :
           /\ streams'[m][c] = [streams[m][c] EXCEPT !.idle = Older(@)]
           /\ streams'[m][c].id = streams[m][c].id
    BY <1>1, TickAges DEF SInv
  <1>3. \A age \in 0..(IdleTimeout + 1) :
           /\ Older(age) \in 0..(IdleTimeout + 1) /\ Older(age) <= age + 1
           /\ \A a \in 0..age : Older(a) <= Older(age)
    BY StreamAssumption DEF Older, Never
  <1>4. \A m \in Modes, c \in Cameras : sinceGet[m][c] \in 0..(IdleTimeout + 1)
    BY DEF WaitInv, AgeInv
  <1>5. AgeInv'
    <2>1. sinceGet' \in [Modes -> [Cameras -> 0..(IdleTimeout + 1)]]
      BY <1>1, <1>3, <1>4
    <2>2. ASSUME NEW m \in Modes, NEW c \in Cameras, streams'[m][c].idle # Never
          PROVE  streams'[m][c].idle <= sinceGet'[m][c]
      <3>1. streams[m][c] \in Streams
        BY DEF SInv, TableInv
      <3>2. streams'[m][c].idle = Older(streams[m][c].idle)
        BY <1>2, <3>1 DEF Streams
      <3>3. streams[m][c].idle # Never
        BY <2>2, <3>2, OlderNever
      <3>4. streams[m][c].idle <= sinceGet[m][c]
        BY <3>3 DEF WaitInv, AgeInv
      <3>5. streams[m][c].idle \in 0..sinceGet[m][c]
        <4>1. streams[m][c].idle \in Nat
          BY <3>1, <3>3, StreamAssumption DEF Streams
        <4>2. sinceGet[m][c] \in Nat
          BY <1>4, StreamAssumption
        <4> QED
          BY <3>4, <4>1, <4>2
      <3>6. sinceGet'[m][c] = Older(sinceGet[m][c])
        BY <1>1
      <3> QED
        BY <1>3, <1>4, <3>2, <3>5, <3>6
    <2> QED
      BY <2>1, <2>2 DEF AgeInv
  <1>6. ASSUME NEW v \in waits'
        PROVE  v \in [id : Nat \ {0}, cam : Cameras, age : 0..MaxWait] /\ (~down => Kept(v)')
    <2>1. PICK w \in waits : v = [w EXCEPT !.age = w.age + 1]
      BY <1>1
    <2>2. w \in [id : Nat \ {0}, cam : Cameras, age : 0..MaxWait] /\ w.age < MaxWait
      BY <1>1 DEF WaitInv
    <2>3. /\ v \in [id : Nat \ {0}, cam : Cameras, age : 0..MaxWait]
          /\ v.id = w.id /\ v.cam = w.cam /\ v.age = w.age + 1
      BY <2>1, <2>2, SourcesAssumption
    <2>4. ASSUME ~down
          PROVE  Kept(v)'
      <3>1. Kept(w) /\ "hls" \in Modes
        BY <2>4 DEF WaitInv, Modes
      <3>2. sinceGet'["hls"][w.cam] <= sinceGet["hls"][w.cam] + 1
        BY <1>1, <1>3, <1>4, <2>2, <3>1
      <3>3. sinceGet["hls"][w.cam] \in Nat /\ sinceGet'["hls"][w.cam] \in Nat /\ w.age \in Nat
        BY <1>3, <1>4, <1>5, <2>2, <3>1, StreamAssumption DEF AgeInv
      <3>4. sinceGet'["hls"][w.cam] <= v.age
        BY <2>3, <3>1, <3>2, <3>3 DEF Kept
      <3>5. streams'["hls"][v.cam].id = v.id
        <4>1. w.cam \in Cameras
          BY <2>2
        <4>2. streams'["hls"][w.cam].id = streams["hls"][w.cam].id
          BY <1>2, <3>1, <4>1
        <4> QED
          BY <2>3, <3>1, <4>2 DEF Kept
      <3>6. v.id \notin stopping'
        BY <1>1, <2>3, <3>1 DEF Kept
      <3>7. sinceGet'["hls"][v.cam] <= v.age
        BY <2>3, <3>4
      <3> QED
        BY <3>5, <3>6, <3>7 DEF Kept
    <2> QED
      BY <2>3, <2>4
  <1> QED
    BY <1>1, <1>5, <1>6 DEF WaitInv

\* The cleanup takes what has been idle for longer than any request waits.
LEMMA CleanupWaits ==
    ASSUME SInv, WaitInv, CleanupStops
    PROVE  WaitInv'
  <1>1. /\ stopping' = UNION {IdsOf(m, Abandoned(m)) : m \in Modes}
        /\ UNCHANGED <<streams, sinceGet, down, waits>>
    BY DEF CleanupStops, StartStopping
  <1>2. ASSUME ~down, NEW w \in waits
        PROVE  w.id \notin stopping'
    <2>1. w \in [id : Nat \ {0}, cam : Cameras, age : 0..MaxWait] /\ Kept(w) /\ "hls" \in Modes
      BY <1>2 DEF WaitInv, Modes
    <2> SUFFICES ASSUME w.id \in stopping'
                 PROVE  FALSE
      OBVIOUS
    <2>2. PICK m \in Modes : w.id \in IdsOf(m, Abandoned(m))
      BY <1>1
    <2>3. PICK c \in Abandoned(m) : w.id = streams[m][c].id
      BY <2>2 DEF IdsOf
    <2>4. c \in Cameras /\ streams[m][c].idle # Never /\ streams[m][c].idle > IdleTimeout
      BY <2>3 DEF Abandoned, Registered
    <2>5. m = "hls" /\ c = w.cam
      BY <2>1, <2>3, <2>4 DEF SInv, TableInv, Distinct, Kept
    <2>6. streams[m][c].idle <= sinceGet[m][c] /\ sinceGet[m][c] <= w.age
      BY <2>1, <2>4, <2>5 DEF WaitInv, AgeInv, Kept
    <2>7. /\ streams[m][c].idle \in Nat
          /\ sinceGet[m][c] \in Nat /\ w.age \in Nat /\ w.age <= MaxWait /\ MaxWait <= IdleTimeout
      <3>1. streams[m][c] \in Streams
        BY <2>4 DEF SInv, TableInv
      <3>2. streams[m][c].idle \in Nat
        BY <2>4, <3>1, StreamAssumption DEF Streams
      <3>3. sinceGet[m][c] \in 0..(IdleTimeout + 1)
        BY <2>4 DEF WaitInv, AgeInv
      <3> QED
        BY <2>1, <3>2, <3>3, SourcesAssumption, StreamAssumption
    <2>8. IdleTimeout \in Nat /\ MaxWait \in Nat
      BY SourcesAssumption, StreamAssumption
    <2>9. PICK idle, since, age \in Nat :
             idle = streams[m][c].idle /\ since = sinceGet[m][c] /\ age = w.age
      BY <2>7
    <2>10. idle > IdleTimeout /\ idle <= since /\ since <= age /\ age <= MaxWait /\ MaxWait <= IdleTimeout
      BY <2>4, <2>6, <2>7, <2>9
    <2> QED
      BY <2>8, <2>9, <2>10
  <1> QED
    BY <1>1, <1>2 DEF WaitInv, AgeInv, Kept

LEMMA ShutdownWaits ==
    ASSUME WaitInv, ShutdownStops
    PROVE  WaitInv'
  BY DEF ShutdownStops, StartStopping, WaitInv, AgeInv

LEMMA StopWaitsStep ==
    ASSUME SInv, WaitInv, NEW i \in Ids, StopEnds(i) \/ StopTimesOut(i)
    PROVE  WaitInv'
  <1>1. /\ i \in stopping /\ Forget(i) /\ stopping' = stopping \ {i}
        /\ UNCHANGED <<down, sinceGet, waits>>
    BY DEF StopEnds, StopTimesOut, CleansUp, Stopped, First
  <1>2. \A m \in Modes, c \in Cameras :
           streams'[m][c] = IF streams[m][c].id = i THEN NoStream ELSE streams[m][c]
    BY <1>1 DEF Forget
  <1>3. AgeInv'
    BY <1>1, <1>2 DEF WaitInv, AgeInv, NoStream
  <1>4. ASSUME ~down, NEW w \in waits
        PROVE  Kept(w)'
    <2>1. Kept(w) /\ w.cam \in Cameras /\ "hls" \in Modes
      BY <1>4 DEF WaitInv, Modes
    <2>2. w.id # i
      BY <1>1, <2>1 DEF Kept
    <2> QED
      BY <1>1, <1>2, <2>1, <2>2 DEF Kept
  <1> QED
    BY <1>1, <1>3, <1>4 DEF WaitInv

LEMMA WaitStep ==
    ASSUME SInv, ClientInv, WaitInv, [SourcesNext]_allVars
    PROVE  WaitInv'
  <1>1. ASSUME NEW i \in Ids, Run(i)
        PROVE  WaitInv'
    <2>1. UNCHANGED <<vars, stopping, waits>>
      BY <1>1 DEF Run, OpenSource, OpenFails, ReadFrame, ReadFails, Reconnect, WritePlaylist,
                  FfmpegExits
    <2> QED
      BY <2>1, QuietWaits DEF vars
  <1>2. ASSUME NEW r \in Responses, Begin(r) \/ Leave(r) \/ Abort(r)
        PROVE  WaitInv'
    <2>1. UNCHANGED <<streams, sinceGet, stopping, down, waits>>
      BY <1>2 DEF Begin, StartBody, Leave, Abort, AbortMjpeg, sourceVars, vars
    <2> QED
      BY <2>1, QuietWaits
  <1>3. ASSUME NEW v \in Cells, Cell(v)
        PROVE  WaitInv'
    <2>1. UNCHANGED <<streams, sinceGet, stopping, down, waits>>
      BY <1>3 DEF Cell, Mount, Play, Unmount, sourceVars
    <2> QED
      BY <2>1, QuietWaits
  <1>4. ASSUME NEW c \in Cameras, LoseRelease(c)
        PROVE  WaitInv'
    <2>1. UNCHANGED <<streams, sinceGet, stopping, down, waits>>
      BY <1>4 DEF LoseRelease, ReleaseLost, sourceVars
    <2> QED
      BY <2>1, QuietWaits
  <1>5. ASSUME NEW w \in waits, AnswerPlaylist(w) \/ PlaylistLate(w)
        PROVE  WaitInv'
    <2>1. UNCHANGED <<streams, sinceGet, stopping, down>> /\ waits' \subseteq waits
      BY <1>5 DEF AnswerPlaylist, PlaylistLate, vars
    <2> QED
      BY <2>1, QuietWaits
  <1>6. CASE UNCHANGED allVars
    BY <1>6, QuietWaits DEF allVars, vars, sourceVars
  <1>7. ASSUME NEW r \in Responses, Close(r)
        PROVE  WaitInv'
    <2>1. /\ responses[r].cam \in Cameras /\ Release("mjpeg", responses[r].cam) /\ "mjpeg" \in Modes
          /\ UNCHANGED <<sinceGet, stopping, down, waits>>
      BY <1>7, ClientTypes DEF Close, CloseMjpeg, Modes
    <2> QED
      BY <2>1, ReleaseWaits
  <1>8. ASSUME NEW c \in Cameras, ReleaseHls(c)
        PROVE  WaitInv'
    <2>1. Release("hls", c) /\ "hls" \in Modes /\ UNCHANGED <<sinceGet, stopping, down, waits>>
      BY <1>8 DEF ReleaseHls, HlsRelease, Modes, sourceVars
    <2> QED
      BY <2>1, ReleaseWaits
  <1>9. ASSUME NEW r \in Responses, NEW c \in Cameras, Open(r, c)
        PROVE  WaitInv'
    <2>1. Get("mjpeg", c) /\ "mjpeg" \in Modes /\ Free /\ UNCHANGED <<stopping, down, waits>>
      BY <1>9 DEF Open, OpenMjpeg, Modes
    <2> QED
      BY <2>1, GetWaits
  <1>10. ASSUME NEW v \in Cells, Fetch(v)
         PROVE  WaitInv'
    <2>1. PICK c \in Cameras : c = cells[v].cam
      BY <1>10, ClientTypes DEF Fetch, FetchPlaylist
    <2>2. /\ Get("hls", c) /\ "hls" \in Modes /\ Free /\ UNCHANGED <<stopping, down>>
          /\ waits' = waits \cup {[id |-> Acquired("hls", c).id, cam |-> c, age |-> 0]}
      BY <1>10, <2>1 DEF Fetch, FetchPlaylist, Modes
    <2> QED
      BY <2>2, GetWaits
  <1>11. ASSUME NEW v \in Cells, FetchRaises(v)
         PROVE  WaitInv'
    <2>1. UNCHANGED <<streams, sinceGet, stopping, down, waits>>
      BY <1>11 DEF FetchRaises, PlaylistFails
    <2> QED
      BY <2>1, QuietWaits
  <1> QED
    BY <1>1, <1>2, <1>3, <1>4, <1>5, <1>6, <1>7, <1>8, <1>9, <1>10, <1>11, ClockWaits,
       CleanupWaits, ShutdownWaits, StopWaitsStep DEF SourcesNext

\* No playlist request loses the source it waits for, since it waits for less than
\* STREAM_IDLE_TIMEOUT, whatever stray releases arrive meanwhile.
THEOREM WaitersKept == SourcesSpec => []WaitersKeepSource
  <1>1. SourcesInit => WaitInv
    <2> SUFFICES ASSUME SourcesInit
                 PROVE  WaitInv
      OBVIOUS
    <2>1. /\ waits = {} /\ sinceGet = [m \in Modes |-> [c \in Cameras |-> 0]]
          /\ \A m \in Modes, c \in Cameras : streams[m][c] = NoStream
      BY DEF SourcesInit, Init
    <2> QED
      BY <2>1, StreamAssumption DEF WaitInv, AgeInv, NoStream
  <1>2. (SInv /\ ClientInv) /\ WaitInv /\ [SourcesNext]_allVars => WaitInv'
    BY WaitStep
  <1>3. WaitInv => WaitersKeepSource
    BY DEF WaitInv, Kept, WaitersKeepSource
  <1> QED
    BY <1>1, <1>2, <1>3, TableAndClients, PTL DEF SourcesSpec

===============================================================================
