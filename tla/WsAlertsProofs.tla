---------------------------- MODULE WsAlertsProofs ----------------------------
(***************************************************************************)
(* What the alert channel promises for any number of clients, messages and *)
(* any cap, proved from one inductive invariant.                           *)
(***************************************************************************)
EXTENDS WsAlerts, SequenceTheorems, TLAPS

-------------------------------------------------------------------------------
(* The inductive invariant *)

\* Until two accepts overlap there is at most one under way, and the place it was promised
\* is still free.
CapInv ==
    ~overlapped =>
        /\ Len(active) <= MaxConnections
        /\ \A s, t \in In("accepting") : s = t
        /\ In("accepting") # {} => Len(active) < MaxConnections

\* A loop that closes a socket is at one of its copy's sockets.
LoopInv == \A m \in Messages : cast[m].at = "close" => cast[m].pos <= Len(cast[m].copy)

IInv == TypeOK /\ NoGhostConnection /\ CapInv /\ LoopInv

-------------------------------------------------------------------------------
(* Lemmas about the list of connections *)

\* What list.remove leaves of a list without duplicates.
LEMMA WithoutRemoves ==
    ASSUME NEW list \in Seq(Sockets), RegisteredOnce(list), NEW s
    PROVE  /\ Without(list, s) \in Seq(Sockets)
           /\ RegisteredOnce(Without(list, s))
           /\ Len(Without(list, s)) <= Len(list)
           /\ \A k \in 1..Len(Without(list, s)) :
                  /\ Without(list, s)[k] # s
                  /\ \E j \in 1..Len(list) : Without(list, s)[k] = list[j]
           /\ \A j \in 1..Len(list) : list[j] # s =>
                  \E k \in 1..Len(Without(list, s)) : Without(list, s)[k] = list[j]
  <1>1. CASE ~ \E i \in 1..Len(list) : list[i] = s
    <2>1. Without(list, s) = list
      BY <1>1 DEF Without, RemoveFirst
    <2> QED
      BY <1>1, <2>1
  <1>2. ASSUME NEW i \in 1..Len(list), list[i] = s
        PROVE  /\ Without(list, s) \in Seq(Sockets)
               /\ RegisteredOnce(Without(list, s))
               /\ Len(Without(list, s)) <= Len(list)
               /\ \A k \in 1..Len(Without(list, s)) :
                      /\ Without(list, s)[k] # s
                      /\ \E j \in 1..Len(list) : Without(list, s)[k] = list[j]
               /\ \A j \in 1..Len(list) : list[j] # s =>
                      \E k \in 1..Len(Without(list, s)) : Without(list, s)[k] = list[j]
    <2> DEFINE front == SubSeq(list, 1, i - 1)
               back == SubSeq(list, i + 1, Len(list))
    <2>1. Without(list, s) = front \o back
      <3>1. {k \in 1..Len(list) : list[k] = s} = {i}
        BY <1>2 DEF RegisteredOnce
      <3>2. Min({i}) = i
        BY DEF Min
      <3>3. SelectInSeq(list, LAMBDA v : v = s) = i
        BY <3>1, <3>2 DEF SelectInSeq
      <3>4. Without(list, s) = RemoveAt(list, i)
        BY <1>2, <3>3 DEF Without, RemoveFirst
      <3> QED
        BY <3>4 DEF RemoveAt
    <2>2. /\ front \in Seq(Sockets) /\ Len(front) = i - 1
          /\ \A k \in 1..(i - 1) : front[k] = list[k]
      BY <1>2
    <2>3. /\ back \in Seq(Sockets) /\ Len(back) = Len(list) - i
          /\ \A k \in 1..(Len(list) - i) : back[k] = list[i + k]
      BY <1>2
    <2> DEFINE rest == front \o back
    <2> HIDE DEF front, back
    <2>4. /\ rest \in Seq(Sockets) /\ Len(rest) = Len(list) - 1
          /\ \A k \in 1..Len(rest) : rest[k] = IF k < i THEN list[k] ELSE list[k + 1]
      <3>1. rest \in Seq(Sockets) /\ Len(rest) = Len(front) + Len(back)
        BY <2>2, <2>3, ConcatProperties
      <3>2. \A k \in 1..(Len(front) + Len(back)) :
                rest[k] = IF k <= Len(front) THEN front[k] ELSE back[k - Len(front)]
        BY <2>2, <2>3, ConcatProperties
      <3> HIDE DEF rest
      <3>3. Len(rest) = Len(list) - 1
        BY <1>2, <2>2, <2>3, <3>1
      <3>4. ASSUME NEW k \in 1..Len(rest)
            PROVE  rest[k] = IF k < i THEN list[k] ELSE list[k + 1]
        <4>1. CASE k < i
          BY <1>2, <2>2, <3>1, <3>2, <3>3, <4>1
        <4>2. CASE k >= i
          <5>1. k - (i - 1) \in 1..(Len(list) - i)
            BY <1>2, <3>3, <4>2
          <5>2. rest[k] = back[k - (i - 1)]
            BY <1>2, <2>2, <3>1, <3>2, <4>2
          <5>3. back[k - (i - 1)] = list[i + (k - (i - 1))]
            BY <2>3, <5>1
          <5> QED
            BY <1>2, <4>2, <5>2, <5>3
        <4> QED
          BY <1>2, <4>1, <4>2
      <3> QED
        BY <3>1, <3>3, <3>4
    <2> HIDE DEF rest
    <2>5. \A k \in 1..Len(rest) : rest[k] # s /\ \E j \in 1..Len(list) : rest[k] = list[j]
      BY <1>2, <2>4 DEF RegisteredOnce
    <2>6. RegisteredOnce(rest)
      BY <1>2, <2>4 DEF RegisteredOnce
    <2>7. ASSUME NEW j \in 1..Len(list), list[j] # s
          PROVE  \E k \in 1..Len(rest) : rest[k] = list[j]
      <3>1. CASE j < i
        BY <1>2, <2>4, <3>1
      <3>2. CASE j > i
        <4>1. j - 1 \in 1..Len(rest) /\ ~(j - 1 < i) /\ (j - 1) + 1 = j
          BY <1>2, <2>4, <3>2
        <4>2. rest[j - 1] = list[j]
          BY <2>4, <4>1
        <4> QED
          BY <4>1, <4>2
      <3> QED
        BY <1>2, <2>7, <3>1, <3>2
    <2>8. Without(list, s) = rest
      BY <2>1 DEF rest
    <2> QED
      BY <1>2, <2>4, <2>5, <2>6, <2>7, <2>8
  <1> QED
    BY <1>1, <1>2

\* What disconnect leaves of the invariant's parts about the list.
LEMMA DisconnectKeeps ==
    ASSUME IInv, NEW s \in Sockets, active' = Without(active, s)
    PROVE  /\ active' \in Seq(Sockets)
           /\ RegisteredOnce(active')
           /\ Len(active') <= Len(active)
           /\ Active' \subseteq Active \ {s}
  <1>1. active \in Seq(Sockets) /\ RegisteredOnce(active)
    BY DEF IInv, TypeOK
  <1> DEFINE rest == Without(active, s)
  <1>2. /\ rest \in Seq(Sockets) /\ RegisteredOnce(rest) /\ Len(rest) <= Len(active)
        /\ \A k \in 1..Len(rest) : rest[k] # s /\ \E j \in 1..Len(active) : rest[k] = active[j]
    BY <1>1, WithoutRemoves
  <1>3. active' = rest
    OBVIOUS
  <1> HIDE DEF rest
  <1>4. Active' = {rest[k] : k \in 1..Len(rest)}
    BY <1>3 DEF Active
  <1>5. Active' \subseteq Active \ {s}
    BY <1>2, <1>4 DEF Active
  <1>6. RegisteredOnce(active')
    BY <1>2, <1>3
  <1> QED
    BY <1>2, <1>3, <1>5, <1>6

-------------------------------------------------------------------------------
(* The invariant holds *)

\* The actions that leave the list, the phases and the ghost alone.
LEMMA ListUnchanged ==
    ASSUME IInv, UNCHANGED <<phase, active, overlapped>>
    PROVE  NoGhostConnection' /\ CapInv' /\ RegisteredOnce(active)'
  BY DEF IInv, TypeOK, NoGhostConnection, CapInv, Active, In, RegisteredOnce

\* A step that gives one broadcast the record c.
LEMMA CastStep ==
    ASSUME IInv, NEW m \in Messages, NEW c \in Casts, cast' = [cast EXCEPT ![m] = c],
           c.at = "close" => c.pos <= Len(c.copy)
    PROVE  cast' \in [Messages -> Casts] /\ LoopInv'
  BY DEF IInv, TypeOK, LoopInv

LEMMA InitIInv == Init => IInv
  <1> SUFFICES ASSUME Init
               PROVE  IInv
    OBVIOUS
  <1>1. Unsent \in Casts /\ Unsent.at = "unsent"
    BY DEF Unsent, Casts
  <1>2. Active = {} /\ RegisteredOnce(active) /\ active \in Seq(Sockets) /\ Len(active) = 0
    BY DEF Init, Active, RegisteredOnce
  <1>3. TypeOK
    BY <1>1, <1>2 DEF Init, TypeOK
  <1>4. NoGhostConnection
    BY <1>2 DEF NoGhostConnection
  <1>5. CapInv
    BY <1>2, WsAssumption DEF Init, CapInv, In
  <1>6. LoopInv
    BY <1>1 DEF Init, LoopInv
  <1> QED
    BY <1>3, <1>4, <1>5, <1>6 DEF IInv

\* connect, its two awaits, and the endpoint's end.
LEMMA EndpointKeeps ==
    ASSUME IInv, NEW s \in Sockets, Endpoint(s)
    PROVE  IInv'
  <1>1. CASE ConnectAccept(s)
    <2>1. TypeOK' /\ LoopInv'
      BY <1>1 DEF ConnectAccept, IInv, TypeOK, RegisteredOnce, LoopInv
    <2>2. NoGhostConnection'
      BY <1>1 DEF ConnectAccept, IInv, TypeOK, NoGhostConnection, Active, In
    <2>3. CapInv'
      <3>1. SUFFICES ASSUME ~overlapped'
                     PROVE  CapInv'
        BY DEF CapInv
      <3>2. In("accepting") = {} /\ In("accepting")' = {s}
        BY <1>1, <3>1 DEF ConnectAccept, IInv, TypeOK, In
      <3>3. Len(active) < MaxConnections
        BY <1>1 DEF ConnectAccept, Room
      <3> QED
        BY <1>1, <3>2, <3>3, WsAssumption DEF ConnectAccept, CapInv, IInv, TypeOK
    <2> QED
      BY <2>1, <2>2, <2>3 DEF IInv
  <1>2. CASE ConnectRefuse(s) \/ AcceptFails(s)
    <2>1. TypeOK' /\ LoopInv'
      BY <1>2 DEF ConnectRefuse, AcceptFails, IInv, TypeOK, RegisteredOnce, LoopInv
    <2>2. In("open") \subseteq In("open")' /\ In("accepting")' \subseteq In("accepting")
      BY <1>2 DEF ConnectRefuse, AcceptFails, IInv, TypeOK, In
    <2>3. UNCHANGED <<active, overlapped>>
      BY <1>2 DEF ConnectRefuse, AcceptFails
    <2>4. NoGhostConnection'
      BY <2>2, <2>3 DEF IInv, NoGhostConnection, Active
    <2>5. CapInv'
      BY <2>2, <2>3 DEF IInv, CapInv
    <2> QED
      BY <2>1, <2>4, <2>5 DEF IInv
  <1>3. CASE Register(s)
    <2>1. active \in Seq(Sockets) /\ active' = Append(active, s)
      BY <1>3 DEF Register, IInv, TypeOK
    <2>2. s \notin Active /\ s \in In("accepting")
      BY <1>3 DEF Register, IInv, NoGhostConnection, In
    <2>3. /\ active' \in Seq(Sockets) /\ Len(active') = Len(active) + 1
          /\ \A k \in 1..Len(active') :
                 active'[k] = IF k <= Len(active) THEN active[k] ELSE s
      BY <2>1
    <2>4. RegisteredOnce(active)'
      BY <2>1, <2>2, <2>3 DEF RegisteredOnce, IInv, TypeOK, Active
    <2>5. TypeOK' /\ LoopInv'
      BY <1>3, <2>3, <2>4 DEF Register, IInv, TypeOK, LoopInv
    <2>6. NoGhostConnection'
      <3>1. Active' \subseteq Active \cup {s}
        BY <2>1, <2>3 DEF Active
      <3>2. In("open")' = In("open") \cup {s}
        BY <1>3 DEF Register, IInv, TypeOK, In
      <3> QED
        BY <3>1, <3>2 DEF IInv, NoGhostConnection
    <2>7. CapInv'
      <3>1. In("accepting")' = In("accepting") \ {s}
        BY <1>3 DEF Register, IInv, TypeOK, In
      <3>2. overlapped' = overlapped
        BY <1>3 DEF Register
      <3> QED
        BY <2>1, <2>2, <2>3, <3>1, <3>2, WsAssumption DEF IInv, CapInv
    <2> QED
      BY <2>5, <2>6, <2>7 DEF IInv
  <1>4. CASE EndpointEnds(s)
    <2>1. /\ active' \in Seq(Sockets) /\ RegisteredOnce(active')
          /\ Len(active') <= Len(active) /\ Active' \subseteq Active \ {s}
      BY <1>4, DisconnectKeeps DEF EndpointEnds
    <2>2. RegisteredOnce(active)'
      BY <2>1 DEF RegisteredOnce
    <2>3. TypeOK' /\ LoopInv'
      BY <1>4, <2>1, <2>2 DEF EndpointEnds, IInv, TypeOK, LoopInv
    <2>4. NoGhostConnection'
      <3>1. In("open")' = In("open") \ {s}
        BY <1>4 DEF EndpointEnds, IInv, TypeOK, In
      <3> QED
        BY <2>1, <3>1 DEF IInv, NoGhostConnection
    <2>5. CapInv'
      <3>1. In("accepting")' = In("accepting") /\ overlapped' = overlapped
        BY <1>4 DEF EndpointEnds, IInv, TypeOK, In
      <3> QED
        BY <2>1, <3>1, WsAssumption DEF IInv, CapInv, TypeOK
    <2> QED
      BY <2>3, <2>4, <2>5 DEF IInv
  <1> QED
    BY <1>1, <1>2, <1>3, <1>4 DEF Endpoint

\* One step of one broadcast.
LEMMA BroadcastKeeps ==
    ASSUME IInv, NEW m \in Messages, Broadcast(m)
    PROVE  IInv'
  <1> DEFINE c == cast[m]
             next == [at |-> "send", copy |-> c.copy, pos |-> c.pos + 1]
  <1>0. /\ cast \in [Messages -> Casts] /\ c \in Casts
        /\ c.copy \in Seq(Sockets) /\ c.pos \in Nat \ {0}
    BY DEF IInv, TypeOK, Casts
  <1>1. next \in Casts /\ next.at = "send"
    BY <1>0 DEF Casts
  <1>2. CASE Send(m) \/ SendLost(m)
    <2>1. c.at = "send" /\ Target(m) \in Sockets
      BY <1>0, <1>2 DEF Send, SendLost, Sending, Target, Targets
    <2>2. cast' = [cast EXCEPT ![m] = next]
      <3>1. next = [c EXCEPT !.pos = @ + 1]
        BY <1>0, <2>1 DEF Casts
      <3> QED
        BY <1>2, <3>1 DEF Send, SendLost
    <2>3. cast' \in [Messages -> Casts] /\ LoopInv'
      BY <1>1, <2>2, CastStep
    <2>4. received' \in [Sockets -> [Messages -> Nat]]
      <3>1. received \in [Sockets -> [Messages -> Nat]]
        BY DEF IInv, TypeOK
      <3>2. CASE Send(m)
        <4>1. received' = [received EXCEPT ![Target(m)][m] = @ + 1]
          BY <3>2 DEF Send
        <4> QED
          BY <2>1, <3>1, <4>1
      <3>3. CASE SendLost(m)
        BY <3>1, <3>3 DEF SendLost
      <3> QED
        BY <1>2, <3>2, <3>3
    <2>5. UNCHANGED <<phase, broken, active, overlapped>>
      BY <1>2 DEF Send, SendLost
    <2> QED
      BY <2>3, <2>4, <2>5, ListUnchanged DEF IInv, TypeOK
  <1>3. CASE SendRaises(m)
    <2> DEFINE closing == [c EXCEPT !.at = "close"]
    <2>1. /\ closing \in Casts /\ closing.pos = c.pos /\ closing.copy = c.copy
          /\ c.pos <= Len(c.copy) /\ cast' = [cast EXCEPT ![m] = closing]
      BY <1>0, <1>3 DEF SendRaises, Sending, Targets, Casts
    <2>2. cast' \in [Messages -> Casts] /\ LoopInv'
      BY <2>1, CastStep
    <2>3. UNCHANGED <<phase, broken, active, received, overlapped>>
      BY <1>3 DEF SendRaises
    <2> QED
      BY <2>2, <2>3, ListUnchanged DEF IInv, TypeOK
  <1>4. CASE Disconnect(m)
    <2>1. Target(m) \in Sockets
      BY <1>0, <1>4 DEF Disconnect, IInv, LoopInv, Target, Targets
    <2>2. /\ active' \in Seq(Sockets) /\ RegisteredOnce(active')
          /\ Len(active') <= Len(active) /\ Active' \subseteq Active
      BY <1>4, <2>1, DisconnectKeeps DEF Disconnect
    <2>3. RegisteredOnce(active)'
      BY <2>2 DEF RegisteredOnce
    <2>4. cast' = [cast EXCEPT ![m] = next]
      BY <1>4 DEF Disconnect
    <2>5. cast' \in [Messages -> Casts] /\ LoopInv'
      BY <1>1, <2>4, CastStep
    <2>6. UNCHANGED <<phase, broken, received, overlapped>>
      BY <1>4 DEF Disconnect
    <2>7. NoGhostConnection' /\ CapInv'
      BY <2>2, <2>6, WsAssumption DEF IInv, TypeOK, NoGhostConnection, CapInv, In
    <2> QED
      BY <2>2, <2>3, <2>5, <2>6, <2>7 DEF IInv, TypeOK
  <1>5. CASE Broadcasted(m)
    <2> DEFINE over == [c EXCEPT !.at = "done"]
    <2>1. over \in Casts /\ over.at = "done" /\ cast' = [cast EXCEPT ![m] = over]
      BY <1>0, <1>5 DEF Broadcasted, Casts
    <2>2. cast' \in [Messages -> Casts] /\ LoopInv'
      BY <2>1, CastStep
    <2>3. UNCHANGED <<phase, broken, active, received, overlapped>>
      BY <1>5 DEF Broadcasted
    <2> QED
      BY <2>2, <2>3, ListUnchanged DEF IInv, TypeOK
  <1> QED
    BY <1>2, <1>3, <1>4, <1>5 DEF Broadcast

LEMMA NextKeeps == IInv /\ [Next]_vars => IInv'
  <1> SUFFICES ASSUME IInv, [Next]_vars
               PROVE  IInv'
    OBVIOUS
  <1>1. CASE UNCHANGED vars
    <2>1. TypeOK' /\ LoopInv'
      BY <1>1 DEF vars, IInv, TypeOK, RegisteredOnce, LoopInv
    <2> QED
      BY <1>1, <2>1, ListUnchanged DEF vars, IInv
  <1>2. ASSUME NEW s \in Sockets, ClientLeaves(s)
        PROVE  IInv'
    <2>1. TypeOK' /\ LoopInv'
      BY <1>2 DEF ClientLeaves, IInv, TypeOK, RegisteredOnce, LoopInv
    <2> QED
      BY <1>2, <2>1, ListUnchanged DEF ClientLeaves, IInv
  <1>3. ASSUME NEW m \in Messages, Push(m)
        PROVE  IInv'
    <2> DEFINE started == [at |-> "send", copy |-> active, pos |-> 1]
    <2>1. started \in Casts /\ cast' = [cast EXCEPT ![m] = started]
      BY <1>3 DEF Push, IInv, TypeOK, Casts
    <2>2. cast' \in [Messages -> Casts] /\ LoopInv'
      BY <2>1, CastStep
    <2>3. UNCHANGED <<phase, broken, active, received, overlapped>>
      BY <1>3 DEF Push
    <2> QED
      BY <2>2, <2>3, ListUnchanged DEF IInv, TypeOK
  <1> QED
    BY <1>1, <1>2, <1>3, EndpointKeeps, BroadcastKeeps DEF Next

\* The invariant holds in every state of every run.
THEOREM Invariance == Spec => []IInv
  <1>1. Init => IInv
    BY InitIInv
  <1>2. IInv /\ [Next]_vars => IInv'
    BY NextKeeps
  <1> QED
    BY <1>1, <1>2, PTL DEF Spec

\* Every variable keeps its type, and no socket is registered twice.
THEOREM TypeCorrect == Spec => []TypeOK
  <1>1. IInv => TypeOK
    BY DEF IInv
  <1> QED
    BY <1>1, Invariance, PTL

\* The endpoint and the broadcasts that remove the same socket leave no socket registered
\* whose endpoint has ended.
THEOREM NoGhosts == Spec => []NoGhostConnection
  <1>1. IInv => NoGhostConnection
    BY DEF IInv
  <1> QED
    BY <1>1, Invariance, PTL

\* Only overlapping accepts can take the list beyond MAX_WS_CONNECTIONS.
THEOREM CapUnlessOverlapped == Spec => []CapUnlessOverlap
  <1>1. IInv => CapUnlessOverlap
    BY DEF IInv, CapInv, CapUnlessOverlap
  <1> QED
    BY <1>1, Invariance, PTL

-------------------------------------------------------------------------------
(* Delivery *)

\* Behind its position a loop has served exactly those clients of its copy that are still
\* there, each once; ahead of it nobody. The socket it closes has gone.
Delivered(m) ==
    LET c == cast[m] IN
    /\ RegisteredOnce(c.copy)
    /\ c.at = "close" => c.pos <= Len(c.copy) /\ c.copy[c.pos] \in broken
    /\ c.at = "done" => c.pos > Len(c.copy)
    /\ \A s \in Sockets : received[s][m] <= 1
    /\ \A s \in Sockets :
          received[s][m] = 1 => \E k \in 1..Len(c.copy) : k < c.pos /\ c.copy[k] = s
    /\ \A k \in 1..Len(c.copy) :
          k < c.pos /\ c.copy[k] \notin broken => received[c.copy[k]][m] = 1

DInv == \A m \in Messages : Delivered(m)

LEMMA InitDelivered == Init => DInv
  <1> SUFFICES ASSUME Init, NEW m \in Messages
               PROVE  Delivered(m)
    BY DEF DInv
  <1>1. /\ cast[m].at = "unsent" /\ cast[m].copy = <<>> /\ cast[m].pos = 1
        /\ \A s \in Sockets : received[s][m] = 0
    BY DEF Init, Unsent
  <1> QED
    BY <1>1 DEF Delivered, RegisteredOnce

\* A step of the broadcast of m leaves the others as they are.
LEMMA OthersDelivered ==
    ASSUME TypeOK, DInv, NEW m \in Messages, NEW n \in Messages, m # n,
           cast'[n] = cast[n], UNCHANGED broken,
           \A s \in Sockets : received'[s][n] = received[s][n]
    PROVE  Delivered(n)'
  <1>1. Delivered(n) /\ cast[n].copy \in Seq(Sockets)
    BY DEF DInv, TypeOK, Casts
  <1>2. \A k \in 1..Len(cast[n].copy) : cast[n].copy[k] \in Sockets
    BY <1>1
  <1> QED
    BY <1>1, <1>2 DEF Delivered, RegisteredOnce

\* The loop of m passes its position, having sent once if the client is still there.
LEMMA PassKeeps ==
    ASSUME TypeOK, DInv, NEW m \in Messages, NEW b \in Nat,
           cast[m].pos <= Len(cast[m].copy),
           cast'[m] = [at |-> "send", copy |-> cast[m].copy, pos |-> cast[m].pos + 1],
           UNCHANGED broken,
           \A s \in Sockets :
               received'[s][m] = IF s = Target(m) THEN received[s][m] + b ELSE received[s][m],
           b = IF Target(m) \in broken THEN 0 ELSE 1
    PROVE  Delivered(m)'
  <1> DEFINE copy == cast[m].copy
             p == cast[m].pos
  <1>1. /\ copy \in Seq(Sockets) /\ p \in Nat \ {0} /\ p \in 1..Len(copy)
        /\ Target(m) = copy[p] /\ Target(m) \in Sockets
        /\ \A k \in 1..Len(copy) : copy[k] \in Sockets
        /\ \A s \in Sockets : received[s][m] \in Nat
    BY DEF TypeOK, Casts, Target, Targets
  <1>2. Delivered(m)
    BY DEF DInv
  <1>3. received[copy[p]][m] = 0
    <2>1. ~ \E k \in 1..Len(copy) : k < p /\ copy[k] = copy[p]
      BY <1>1, <1>2 DEF Delivered, RegisteredOnce
    <2>2. received[copy[p]][m] # 1
      BY <1>1, <1>2, <2>1 DEF Delivered
    <2>3. received[copy[p]][m] <= 1 /\ received[copy[p]][m] \in Nat
      BY <1>1, <1>2 DEF Delivered
    <2> HIDE DEF copy, p
    <2> QED
      BY <2>2, <2>3
  <1>4. cast'[m].at = "send" /\ cast'[m].copy = copy /\ cast'[m].pos = p + 1
    OBVIOUS
  <1>5. ASSUME NEW s \in Sockets
        PROVE  received'[s][m] <= 1
    <2>1. received[s][m] <= 1
      BY <1>2 DEF Delivered
    <2>2. b <= 1
      OBVIOUS
    <2>3. s = Target(m) => received[s][m] = 0
      BY <1>1, <1>3
    <2>4. received'[s][m] = IF s = Target(m) THEN received[s][m] + b ELSE received[s][m]
      OBVIOUS
    <2> QED
      BY <2>1, <2>2, <2>3, <2>4
  <1>6. ASSUME NEW s \in Sockets, received'[s][m] = 1
        PROVE  \E k \in 1..Len(copy) : k < p + 1 /\ copy[k] = s
    <2>1. CASE s = copy[p]
      BY <1>1, <2>1
    <2>2. CASE s # copy[p]
      BY <1>1, <1>2, <1>6, <2>2 DEF Delivered
    <2> QED
      BY <2>1, <2>2
  <1>7. ASSUME NEW k \in 1..Len(copy), k < p + 1, copy[k] \notin broken
        PROVE  received'[copy[k]][m] = 1
    <2>1. CASE k = p
      BY <1>1, <1>3, <1>7, <2>1
    <2>2. CASE k < p
      <3>1. copy[k] # copy[p]
        BY <1>1, <1>2, <2>2 DEF Delivered, RegisteredOnce
      <3> QED
        BY <1>1, <1>2, <1>7, <2>2, <3>1 DEF Delivered
    <2> QED
      BY <1>1, <1>7, <2>1, <2>2
  <1> HIDE DEF copy, p
  <1>8. RegisteredOnce(cast'[m].copy)
    BY <1>2, <1>4 DEF Delivered, copy
  <1> QED
    BY <1>4, <1>5, <1>6, <1>7, <1>8 DEF Delivered, RegisteredOnce

\* One step of one broadcast.
LEMMA BroadcastDelivers ==
    ASSUME TypeOK, DInv, NEW m \in Messages, Broadcast(m)
    PROVE  DInv'
  <1>0. /\ cast[m] \in Casts /\ cast[m].copy \in Seq(Sockets) /\ cast[m].pos \in Nat \ {0}
        /\ cast \in [Messages -> Casts]
        /\ \A s \in Sockets : received[s] \in [Messages -> Nat]
        /\ received \in [Sockets -> [Messages -> Nat]]
    BY DEF TypeOK, Casts
  <1>1. Delivered(m)
    BY DEF DInv
  <1>2. /\ UNCHANGED broken
        /\ \A n \in Messages \ {m} : cast'[n] = cast[n]
    BY <1>0 DEF Broadcast, Send, SendLost, SendRaises, Disconnect, Broadcasted
  <1>3. \A n \in Messages \ {m}, s \in Sockets : received'[s][n] = received[s][n]
    BY <1>0 DEF Broadcast, Send, SendLost, SendRaises, Disconnect, Broadcasted
  <1>4. \A n \in Messages \ {m} : Delivered(n)'
    BY <1>2, <1>3, OthersDelivered
  <1> DEFINE next == [at |-> "send", copy |-> cast[m].copy, pos |-> cast[m].pos + 1]
  <1>5. CASE Send(m)
    <2>1. cast[m].at = "send" /\ cast[m].pos <= Len(cast[m].copy) /\ Target(m) \notin broken
      BY <1>5 DEF Send, Sending, Targets
    <2>2. Target(m) \in Sockets
      BY <1>0, <2>1 DEF Target, Targets
    <2>3. cast'[m] = next
      <3>1. cast[m].at = "send"
        BY <2>1
      <3>2. [cast[m] EXCEPT !.pos = @ + 1] = next
        BY <1>0, <3>1 DEF Casts
      <3> QED
        BY <1>0, <1>5, <3>2 DEF Send
    <2>4. \A s \in Sockets :
              received'[s][m] = IF s = Target(m) THEN received[s][m] + 1 ELSE received[s][m]
      BY <1>0, <1>5 DEF Send
    <2>5. Delivered(m)'
      BY <1>2, <2>1, <2>3, <2>4, PassKeeps
    <2> QED
      BY <1>4, <2>5 DEF DInv
  <1>6. CASE SendLost(m) \/ Disconnect(m)
    <2>1. cast[m].pos <= Len(cast[m].copy) /\ Target(m) \in broken
      BY <1>1, <1>6 DEF SendLost, Disconnect, Sending, Target, Targets, Delivered
    <2>2. cast'[m] = next
      <3>1. CASE SendLost(m)
        <4>1. cast[m].at = "send"
          BY <3>1 DEF SendLost, Sending
        <4>2. [cast[m] EXCEPT !.pos = @ + 1] = next
          BY <1>0, <4>1 DEF Casts
        <4> QED
          BY <1>0, <3>1, <4>2 DEF SendLost
      <3>2. CASE Disconnect(m)
        BY <1>0, <3>2 DEF Disconnect
      <3> QED
        BY <1>6, <3>1, <3>2
    <2>3. \A s \in Sockets :
              received'[s][m] = IF s = Target(m) THEN received[s][m] + 0 ELSE received[s][m]
      BY <1>0, <1>6 DEF SendLost, Disconnect
    <2>4. Delivered(m)'
      BY <1>2, <2>1, <2>2, <2>3, PassKeeps
    <2> QED
      BY <1>4, <2>4 DEF DInv
  <1>7. CASE SendRaises(m)
    <2>1. /\ cast'[m].at = "close" /\ cast'[m].copy = cast[m].copy
          /\ cast'[m].pos = cast[m].pos
      BY <1>0, <1>7 DEF SendRaises, Casts
    <2>2. UNCHANGED <<broken, received>>
      BY <1>7 DEF SendRaises
    <2>3. cast[m].pos <= Len(cast[m].copy) /\ cast[m].copy[cast[m].pos] \in broken
      BY <1>7 DEF SendRaises, Sending, Target, Targets
    <2>4. Delivered(m)'
      BY <1>1, <2>1, <2>2, <2>3 DEF Delivered, RegisteredOnce
    <2> QED
      BY <1>4, <2>4 DEF DInv
  <1>8. CASE Broadcasted(m)
    <2>1. /\ cast'[m].at = "done" /\ cast'[m].copy = cast[m].copy
          /\ cast'[m].pos = cast[m].pos
      BY <1>0, <1>8 DEF Broadcasted, Casts
    <2>2. UNCHANGED <<broken, received>>
      BY <1>8 DEF Broadcasted
    <2>3. cast[m].pos > Len(cast[m].copy)
      BY <1>0, <1>8 DEF Broadcasted, Sending, Targets
    <2>4. Delivered(m)'
      BY <1>1, <2>1, <2>2, <2>3 DEF Delivered, RegisteredOnce
    <2> QED
      BY <1>4, <2>4 DEF DInv
  <1> QED
    BY <1>5, <1>6, <1>7, <1>8 DEF Broadcast

\* A step that starts no broadcast and moves none: at most a client goes.
LEMMA StillDelivered ==
    ASSUME DInv, UNCHANGED <<cast, received>>, broken \subseteq broken'
    PROVE  DInv'
  BY DEF DInv, Delivered, RegisteredOnce

LEMMA NextDelivers == TypeOK /\ DInv /\ [Next]_vars => DInv'
  <1> SUFFICES ASSUME TypeOK, DInv, [Next]_vars
               PROVE  DInv'
    OBVIOUS
  <1>1. CASE UNCHANGED vars
    BY <1>1, StillDelivered DEF vars
  <1>2. ASSUME NEW s \in Sockets, Endpoint(s) \/ ClientLeaves(s)
        PROVE  DInv'
    <2>1. UNCHANGED <<cast, received>> /\ broken \subseteq broken'
      BY <1>2 DEF Endpoint, ConnectAccept, ConnectRefuse, Register, AcceptFails,
                  EndpointEnds, ClientLeaves
    <2> QED
      BY <2>1, StillDelivered
  <1>3. ASSUME NEW m \in Messages, Push(m)
        PROVE  DInv'
    <2>1. /\ cast \in [Messages -> Casts] /\ UNCHANGED <<broken, received>>
          /\ active \in Seq(Sockets) /\ RegisteredOnce(active)
          /\ \A s \in Sockets : received[s][m] \in Nat
      BY <1>3 DEF Push, TypeOK
    <2>2. ASSUME NEW n \in Messages, n # m
          PROVE  Delivered(n)'
      BY <1>3, <2>1, <2>2, OthersDelivered DEF Push
    <2>3. Delivered(m)'
      <3>1. cast[m].copy = <<>> /\ Delivered(m)
        BY <1>3 DEF Push, Unsent, DInv
      <3>2. \A s \in Sockets : received[s][m] # 1 /\ received[s][m] <= 1
        BY <3>1 DEF Delivered
      <3>3. cast'[m].at = "send" /\ cast'[m].copy = active /\ cast'[m].pos = 1
        BY <1>3, <2>1 DEF Push
      <3>4. RegisteredOnce(cast'[m].copy)
        BY <2>1, <3>3
      <3> QED
        BY <2>1, <3>2, <3>3, <3>4 DEF Delivered, RegisteredOnce
    <2> QED
      BY <2>2, <2>3 DEF DInv
  <1> QED
    BY <1>1, <1>2, <1>3, BroadcastDelivers DEF Next

\* Whatever connects, leaves and is broadcast meanwhile, a broadcast that is over has
\* reached each client of its copy that is still there exactly once, and nobody else.
THEOREM BroadcastsReachAll == Spec => []BroadcastReachesAll
  <1>1. Init => DInv
    BY InitDelivered
  <1>2. TypeOK /\ DInv /\ [Next]_vars => DInv'
    BY NextDelivers
  <1>3. TypeOK /\ DInv => BroadcastReachesAll
    <2> SUFFICES ASSUME TypeOK, DInv, NEW m \in Messages, NEW s \in Sockets
                 PROVE  /\ received[s][m] <= 1
                        /\ received[s][m] = 1 => s \in Copies(m)
                        /\ cast[m].at = "done" /\ s \in Copies(m) \ broken
                              => received[s][m] = 1
      BY DEF BroadcastReachesAll
    <2>1. Delivered(m) /\ cast[m].pos \in Nat /\ Len(cast[m].copy) \in Nat
      BY DEF DInv, TypeOK, Casts
    <2> QED
      BY <2>1 DEF Delivered, Copies
  <1> QED
    BY <1>1, <1>2, <1>3, TypeCorrect, PTL DEF Spec

-------------------------------------------------------------------------------
(* The channel is an AlertDelivery *)

\* An endpoint whose client is there is registered, and no broadcast has a socket in its
\* copy that is still to be registered.
ListedInv ==
    /\ In("open") \ broken \subseteq Active
    /\ \A m \in Messages : Copies(m) \subseteq In("open") \cup In("ended")

MInv == IInv /\ DInv /\ ListedInv

LEMMA InitListed == Init => ListedInv
  BY DEF Init, ListedInv, In, Copies, Unsent

LEMMA CopiesTyped ==
    ASSUME TypeOK, NEW m \in Messages
    PROVE  /\ cast[m] \in Casts /\ cast[m].copy \in Seq(Sockets) /\ cast[m].pos \in Nat \ {0}
           /\ Copies(m) \subseteq Sockets
  <1>1. cast[m] \in Casts
    BY DEF TypeOK
  <1> QED
    BY <1>1 DEF Casts, Copies

\* What disconnecting t does to the list, for the others.
LEMMA OthersStay ==
    ASSUME TypeOK, NEW t \in Sockets, active' = Without(active, t)
    PROVE  Active \ {t} \subseteq Active'
  <1>1. active \in Seq(Sockets) /\ RegisteredOnce(active)
    BY DEF TypeOK
  <1> DEFINE rest == Without(active, t)
  <1>2. \A j \in 1..Len(active) : active[j] # t =>
            \E k \in 1..Len(rest) : rest[k] = active[j]
    BY <1>1, WithoutRemoves
  <1>3. active' = rest
    OBVIOUS
  <1> HIDE DEF rest
  <1> QED
    BY <1>2, <1>3 DEF Active

\* The copies of the broadcasts that do not start stay as they are.
LEMMA SameCopies ==
    ASSUME TypeOK, NEW m \in Messages, Broadcast(m)
    PROVE  /\ \A n \in Messages : Copies(n)' = Copies(n)
           /\ UNCHANGED <<phase, broken>>
  <1>1. cast \in [Messages -> Casts] /\ cast[m] \in Casts
    BY DEF TypeOK
  <1>2. \A n \in Messages \ {m} : cast'[n] = cast[n]
    BY <1>1 DEF Broadcast, Send, SendLost, SendRaises, Disconnect, Broadcasted
  <1>3. cast'[m].copy = cast[m].copy
    <2>1. CASE Send(m) \/ SendLost(m)
      BY <1>1, <2>1 DEF Send, SendLost, Casts
    <2>2. CASE SendRaises(m) \/ Broadcasted(m)
      BY <1>1, <2>2 DEF SendRaises, Broadcasted, Casts
    <2>3. CASE Disconnect(m)
      BY <1>1, <2>3 DEF Disconnect
    <2> QED
      BY <2>1, <2>2, <2>3 DEF Broadcast
  <1> QED
    BY <1>2, <1>3 DEF Copies, Broadcast, Send, SendLost, SendRaises, Disconnect, Broadcasted

LEMMA NextListed == MInv /\ [Next]_vars => ListedInv'
  <1> SUFFICES ASSUME MInv, [Next]_vars
               PROVE  ListedInv'
    OBVIOUS
  <1> USE DEF MInv
  <1>0. /\ TypeOK /\ phase \in [Sockets -> {"new", "accepting", "open", "ended"}]
        /\ active \in Seq(Sockets)
    BY DEF IInv, TypeOK
  <1>1. CASE UNCHANGED vars
    BY <1>1 DEF vars, ListedInv, In, Active, Copies
  <1>2. ASSUME NEW s \in Sockets, Endpoint(s) \/ ClientLeaves(s)
        PROVE  ListedInv'
    <2>1. \A m \in Messages : Copies(m)' = Copies(m)
      BY <1>2 DEF Copies, Endpoint, ConnectAccept, ConnectRefuse, Register, AcceptFails,
                  EndpointEnds, ClientLeaves
    <2>2. In("open") \cup In("ended") \subseteq (In("open") \cup In("ended"))'
      BY <1>0, <1>2 DEF In, Endpoint, ConnectAccept, ConnectRefuse, Register, AcceptFails,
                  EndpointEnds, ClientLeaves
    <2>3. (In("open") \ broken \subseteq Active)'
      <3>1. CASE Register(s)
        <4>1. In("open")' = In("open") \cup {s} /\ UNCHANGED broken
          BY <1>0, <3>1 DEF Register, In
        <4>2. Active' = Active \cup {s}
          BY <1>0, <3>1 DEF Register, Active
        <4> QED
          BY <4>1, <4>2 DEF ListedInv
      <3>2. CASE EndpointEnds(s)
        <4>1. In("open")' = In("open") \ {s} /\ UNCHANGED broken
          BY <1>0, <3>2 DEF EndpointEnds, In
        <4>2. Active \ {s} \subseteq Active'
          BY <1>0, <3>2, OthersStay DEF EndpointEnds
        <4> QED
          BY <4>1, <4>2 DEF ListedInv
      <3>3. CASE ConnectAccept(s) \/ ConnectRefuse(s) \/ AcceptFails(s) \/ ClientLeaves(s)
        <4>1. In("open")' = In("open") /\ broken \subseteq broken' /\ UNCHANGED active
          BY <1>0, <3>3 DEF ConnectAccept, ConnectRefuse, AcceptFails, ClientLeaves, In
        <4> QED
          BY <4>1 DEF ListedInv, Active
      <3> QED
        BY <1>2, <3>1, <3>2, <3>3 DEF Endpoint
    <2> QED
      BY <2>1, <2>2, <2>3 DEF ListedInv
  <1>3. ASSUME NEW m \in Messages, Push(m)
        PROVE  ListedInv'
    <2>1. UNCHANGED <<phase, broken, active>>
      BY <1>3 DEF Push
    <2>2. cast' = [cast EXCEPT ![m] = [at |-> "send", copy |-> active, pos |-> 1]]
      BY <1>3 DEF Push
    <2>3. Copies(m)' = Active
      BY <1>0, <2>2 DEF Copies, Active, TypeOK
    <2>4. \A n \in Messages \ {m} : Copies(n)' = Copies(n)
      BY <1>0, <2>2 DEF Copies, TypeOK
    <2>5. Active \subseteq In("open")
      BY DEF IInv, NoGhostConnection
    <2> QED
      BY <2>1, <2>3, <2>4, <2>5 DEF ListedInv, In, Active
  <1>4. ASSUME NEW m \in Messages, Broadcast(m)
        PROVE  ListedInv'
    <2>1. (\A n \in Messages : Copies(n)' = Copies(n)) /\ UNCHANGED <<phase, broken>>
      BY <1>0, <1>4, SameCopies
    <2>2. Active \ broken \subseteq Active'
      <3>1. CASE Disconnect(m)
        <4>1. cast[m].at = "close" /\ active' = Without(active, Target(m))
          BY <3>1 DEF Disconnect
        <4>2. Target(m) \in broken
          BY <4>1 DEF DInv, Delivered, Target, Targets
        <4>3. Target(m) \in Sockets
          BY <1>0, <4>2 DEF TypeOK
        <4> QED
          BY <1>0, <4>1, <4>2, <4>3, OthersStay
      <3>2. CASE Send(m) \/ SendLost(m) \/ SendRaises(m) \/ Broadcasted(m)
        BY <3>2 DEF Send, SendLost, SendRaises, Broadcasted, Active
      <3> QED
        BY <1>4, <3>1, <3>2 DEF Broadcast
    <2> QED
      BY <2>1, <2>2 DEF ListedInv, In
  <1> QED
    BY <1>1, <1>2, <1>3, <1>4 DEF Next

\* The sockets that the channel has on: the registered ones whose client is there.
LEMMA OnIsListed ==
    ASSUME MInv
    PROVE  Channel!On = Active \ broken
  <1>1. phase \in [Sockets -> {"new", "accepting", "open", "ended"}]
    BY DEF MInv, IInv, TypeOK
  <1>2. Active \subseteq In("open") /\ In("open") \ broken \subseteq Active
    BY DEF MInv, IInv, NoGhostConnection, ListedInv
  <1>3. Channel!On = In("open") \ broken
    BY <1>1 DEF Channel!On, Conn, In
  <1> QED
    BY <1>2, <1>3

\* What is due to nobody but the sockets of a copy.
LEMMA DueInCopies == \A m \in Messages : Due(m) \subseteq Copies(m) \/ cast[m] \notin Casts
  BY DEF Due, Copies, Casts

LEMMA InitMaps == Init => Channel!Init
  BY DEF Init, Channel!Init, Conn, Stage, Due, Unsent

\* The endpoints' steps, and the clients'.
LEMMA EndpointMaps ==
    ASSUME MInv, NEW s \in Sockets, Endpoint(s) \/ ClientLeaves(s)
    PROVE  [Channel!Next]_(Channel!vars)
  <1>1. /\ phase \in [Sockets -> {"new", "accepting", "open", "ended"}]
        /\ UNCHANGED <<cast, received>>
    BY DEF MInv, IInv, TypeOK, Endpoint, ConnectAccept, ConnectRefuse, Register, AcceptFails,
           EndpointEnds, ClientLeaves
  <1>2. /\ \A m \in Messages : Stage(m)' = Stage(m)
        /\ \A t \in Sockets, m \in Messages : received'[t][m] = received[t][m]
    BY <1>1 DEF Stage
  <1>3. CASE ConnectAccept(s) \/ AcceptFails(s) \/ EndpointEnds(s) \/ (Register(s) /\ s \in broken)
    <2>1. UNCHANGED broken
      BY <1>3 DEF ConnectAccept, AcceptFails, EndpointEnds, Register
    <2>2. \A t \in Sockets : Conn(t)' = Conn(t)
      BY <1>1, <1>3 DEF Conn, ConnectAccept, AcceptFails, EndpointEnds, Register
    <2>3. \A m \in Messages : Due(m)' = Due(m)
      BY <1>1, <2>1 DEF Due
    <2> QED
      BY <1>1, <1>2, <2>2, <2>3 DEF Channel!vars
  <1>4. CASE Register(s) /\ s \notin broken
    <2>1. UNCHANGED broken
      BY <1>4 DEF Register
    <2>2. /\ Conn(s) = "new" /\ Conn(s)' = "on"
          /\ \A t \in Sockets \ {s} : Conn(t)' = Conn(t)
      BY <1>1, <1>4 DEF Conn, Register
    <2>3. \A m \in Messages : Due(m)' = Due(m)
      BY <1>1, <2>1 DEF Due
    <2>4. Channel!Join(s)
      BY <1>1, <1>2, <2>2, <2>3 DEF Channel!Join
    <2> QED
      BY <2>4 DEF Channel!Next
  <1>5. CASE (ConnectRefuse(s) /\ s \notin broken) \/ ClientLeaves(s)
    <2>1. /\ Conn(s) # "off" /\ Conn(s)' = "off"
          /\ \A t \in Sockets \ {s} : Conn(t)' = Conn(t)
      BY <1>1, <1>5 DEF Conn, ConnectRefuse, ClientLeaves
    <2>2. ASSUME NEW m \in Messages
          PROVE  Due(m)' = Due(m) \ {s}
      <3>1. CASE ClientLeaves(s)
        BY <1>1, <3>1 DEF Due, ClientLeaves
      <3>2. CASE ConnectRefuse(s)
        <4>1. s \notin Copies(m)
          BY <1>1, <3>2 DEF ConnectRefuse, MInv, ListedInv, In
        <4>2. Due(m) \subseteq Copies(m)
          BY DueInCopies DEF MInv, IInv, TypeOK
        <4>3. Due(m)' = Due(m)
          BY <1>1, <3>2 DEF Due, ConnectRefuse
        <4> QED
          BY <4>1, <4>2, <4>3
      <3> QED
        BY <1>5, <3>1, <3>2
    <2>3. Channel!Leave(s)
      BY <1>1, <1>2, <2>1, <2>2 DEF Channel!Leave
    <2> QED
      BY <2>3 DEF Channel!Next
  <1>6. CASE ConnectRefuse(s) /\ s \in broken
    <2>1. /\ \A t \in Sockets : Conn(t)' = Conn(t)
          /\ \A m \in Messages : Due(m)' = Due(m)
      BY <1>1, <1>6 DEF Conn, Due, ConnectRefuse
    <2> QED
      BY <1>1, <1>2, <2>1 DEF Channel!vars
  <1> QED
    BY <1>3, <1>4, <1>5, <1>6 DEF Endpoint

LEMMA PushMaps ==
    ASSUME MInv, NEW m \in Messages, Push(m)
    PROVE  Channel!Push(m)
  <1>1. /\ cast \in [Messages -> Casts] /\ active \in Seq(Sockets)
        /\ UNCHANGED <<phase, broken, received>>
        /\ cast[m] = Unsent
        /\ cast' = [cast EXCEPT ![m] = [at |-> "send", copy |-> active, pos |-> 1]]
    BY DEF MInv, IInv, TypeOK, Push
  <1>2. Stage(m) = "unsent" /\ Stage(m)' = "send" /\ Due(m)' = Active \ broken
    BY <1>1 DEF Stage, Unsent, Due, Active
  <1>3. \A n \in Messages \ {m} : Stage(n)' = Stage(n) /\ Due(n)' = Due(n)
    BY <1>1 DEF Stage, Due
  <1>4. \A s \in Sockets : Conn(s)' = Conn(s)
    BY <1>1 DEF Conn
  <1> QED
    BY <1>1, <1>2, <1>3, <1>4, OnIsListed DEF Channel!Push

\* What remains due to a broadcast that passes its position.
LEMMA PassesDue ==
    ASSUME MInv, NEW m \in Messages, UNCHANGED broken,
           cast[m].at \in {"send", "close"}, cast[m].pos <= Len(cast[m].copy),
           cast'[m] = [at |-> "send", copy |-> cast[m].copy, pos |-> cast[m].pos + 1]
    PROVE  /\ Due(m)' = Due(m) \ {Target(m)}
           /\ Target(m) \in Sockets
           /\ Target(m) \notin broken => Target(m) \in Due(m)
  <1>1. /\ cast[m].copy \in Seq(Sockets) /\ cast[m].pos \in Nat \ {0}
        /\ RegisteredOnce(cast[m].copy)
    BY CopiesTyped DEF MInv, IInv, DInv, Delivered
  <1> DEFINE copy == cast[m].copy
             p == cast[m].pos
  <1>2. /\ p \in 1..Len(copy) /\ Target(m) = copy[p] /\ Target(m) \in Sockets
    BY <1>1 DEF Target, Targets
  <1>3. /\ Due(m) = {copy[k] : k \in p..Len(copy)} \ broken
        /\ Due(m)' = {copy[k] : k \in (p + 1)..Len(copy)} \ broken
    BY DEF Due
  <1> HIDE DEF copy, p
  <1>4. {copy[k] : k \in (p + 1)..Len(copy)} = {copy[k] : k \in p..Len(copy)} \ {copy[p]}
    BY <1>1, <1>2 DEF RegisteredOnce, copy
  <1> QED
    BY <1>2, <1>3, <1>4

LEMMA BroadcastMaps ==
    ASSUME MInv, NEW m \in Messages, Broadcast(m)
    PROVE  [Channel!Next]_(Channel!vars)
  <1>1. /\ cast \in [Messages -> Casts] /\ cast[m] \in Casts
        /\ received \in [Sockets -> [Messages -> Nat]]
        /\ UNCHANGED <<phase, broken>>
        /\ \A n \in Messages \ {m} : cast'[n] = cast[n]
    BY DEF MInv, IInv, TypeOK, Broadcast, Send, SendLost, SendRaises, Disconnect, Broadcasted
  <1>2. /\ \A s \in Sockets : Conn(s)' = Conn(s)
        /\ \A n \in Messages \ {m} : Stage(n)' = Stage(n) /\ Due(n)' = Due(n)
    BY <1>1 DEF Conn, Stage, Due
  <1> DEFINE next == [at |-> "send", copy |-> cast[m].copy, pos |-> cast[m].pos + 1]
             Got(s) == {n \in Messages : received[s][n] > 0}
  <1>3. CASE Send(m)
    <2>1. cast[m].at = "send" /\ cast[m].pos <= Len(cast[m].copy) /\ Target(m) \notin broken
      BY <1>3 DEF Send, Sending, Targets
    <2>2. cast'[m] = next
      BY <1>1, <1>3, <2>1 DEF Send, Casts
    <2>3. Due(m)' = Due(m) \ {Target(m)} /\ Target(m) \in Due(m) /\ Target(m) \in Sockets
      BY <1>1, <2>1, <2>2, PassesDue
    <2>4. Stage(m)' = Stage(m)
      BY <2>1, <2>2 DEF Stage
    <2>5. PICK t \in Sockets : t = Target(m)
      BY <2>3
    <2>6. \A s \in Sockets : Got(s)' = IF s = t THEN Got(s) \cup {m} ELSE Got(s)
      <3>1. received' = [received EXCEPT ![t][m] = @ + 1]
        BY <1>3, <2>5 DEF Send
      <3> QED
        BY <1>1, <3>1
    <2>7. Channel!Hand(m, t)
      BY <1>2, <2>3, <2>4, <2>5, <2>6 DEF Channel!Hand
    <2>8. Channel!Progress(m)
      BY <2>7 DEF Channel!Progress
    <2> QED
      BY <2>8 DEF Channel!Next
  <1>4. CASE SendLost(m) \/ Disconnect(m)
    <2>1. /\ cast[m].at \in {"send", "close"} /\ cast[m].pos <= Len(cast[m].copy)
          /\ Target(m) \in broken
      BY <1>4 DEF SendLost, Disconnect, Sending, Target, Targets, MInv, DInv, Delivered
    <2>2. cast'[m] = next
      BY <1>1, <1>4, <2>1 DEF SendLost, Disconnect, Sending, Casts
    <2>3. Due(m)' = Due(m)
      <3>1. Due(m)' = Due(m) \ {Target(m)}
        BY <1>1, <2>1, <2>2, PassesDue
      <3> QED
        BY <2>1, <3>1 DEF Due
    <2>4. Stage(m)' = Stage(m) /\ UNCHANGED received
      BY <1>4, <2>1, <2>2 DEF Stage, SendLost, Disconnect
    <2> QED
      BY <1>2, <2>3, <2>4 DEF Channel!vars
  <1>5. CASE SendRaises(m)
    <2>1. /\ cast[m].at = "send" /\ cast'[m].at = "close"
          /\ cast'[m].copy = cast[m].copy /\ cast'[m].pos = cast[m].pos
          /\ UNCHANGED received
      BY <1>1, <1>5 DEF SendRaises, Sending, Casts
    <2>2. Stage(m)' = Stage(m) /\ Due(m)' = Due(m)
      BY <1>1, <2>1 DEF Stage, Due
    <2> QED
      BY <1>2, <2>1, <2>2 DEF Channel!vars
  <1>6. CASE Broadcasted(m)
    <2>1. /\ cast[m].at = "send" /\ cast'[m].at = "done"
          /\ ~(cast[m].pos <= Len(cast[m].copy))
          /\ UNCHANGED received
      BY <1>1, <1>6 DEF Broadcasted, Sending, Targets, Casts
    <2>2. Due(m) = {} /\ Due(m)' = {}
      BY <1>1, <2>1, CopiesTyped DEF Due, MInv, IInv
    <2>3. Stage(m) = "send" /\ Stage(m)' = "done"
      BY <2>1 DEF Stage
    <2>4. Channel!Done(m)
      BY <1>2, <2>1, <2>2, <2>3 DEF Channel!Done
    <2> QED
      BY <2>4 DEF Channel!Next, Channel!Progress
  <1> QED
    BY <1>3, <1>4, <1>5, <1>6 DEF Broadcast

LEMMA StepMaps == MInv /\ [Next]_vars => [Channel!Next]_(Channel!vars)
  <1> SUFFICES ASSUME MInv, [Next]_vars
               PROVE  [Channel!Next]_(Channel!vars)
    OBVIOUS
  <1>1. CASE UNCHANGED vars
    <2>1. /\ \A s \in Sockets : Conn(s)' = Conn(s)
          /\ \A m \in Messages : Stage(m)' = Stage(m) /\ Due(m)' = Due(m)
      BY <1>1 DEF vars, Conn, Stage, Due
    <2> QED
      BY <1>1, <2>1 DEF vars, Channel!vars
  <1>2. ASSUME NEW m \in Messages, Push(m)
        PROVE  [Channel!Next]_(Channel!vars)
    BY <1>2, PushMaps DEF Channel!Next
  <1> QED
    BY <1>1, <1>2, EndpointMaps, BroadcastMaps DEF Next

\* The coroutines of the server are a channel to their clients: each step of an endpoint, a
\* client or a broadcast is one of AlertDelivery's or none, so nothing that was promised to
\* a client that stays is skipped, repeated or sent to another. (Delivers has the fairness
\* too, which only the run checks.)
THEOREM StepsOfDelivery == Spec => Channel!Init /\ [][Channel!Next]_(Channel!vars)
  <1>1. Init => ListedInv /\ DInv /\ Channel!Init
    BY InitListed, InitDelivered, InitMaps
  <1>2. IInv /\ (DInv /\ ListedInv) /\ [Next]_vars => (DInv /\ ListedInv)'
    BY NextDelivers, NextListed DEF MInv, IInv
  <1>3. IInv /\ (DInv /\ ListedInv) /\ [Next]_vars => [Channel!Next]_(Channel!vars)
    BY StepMaps DEF MInv
  <1> QED
    BY <1>1, <1>2, <1>3, Invariance, PTL DEF Spec

===============================================================================
