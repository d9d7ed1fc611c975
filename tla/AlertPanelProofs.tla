--------------------------- MODULE AlertPanelProofs ---------------------------
(***************************************************************************)
(* What the alert panel shows, for any views, alerts and limits, proved    *)
(* from one inductive invariant.                                           *)
(***************************************************************************)
EXTENDS AlertPanel, SequenceTheorems, FiniteSetTheorems, TLAPS

-------------------------------------------------------------------------------
(* The inductive invariant *)

Fetches == [at : {"none", "asked", "read", "done", "failed"}, rows : Seq(Alerts)]

TypeInv ==
    /\ row \in [Alerts -> {"none", "open", "acked", "deleted"}]
    /\ page \in [Views -> {"new", "open", "closed"}]
    /\ fetch \in [Views -> Fetches]
    /\ list \in [Views -> Seq(Alerts)]
    /\ ack \in [Views -> [Alerts -> {"no", "asked", "changed"}]]
    /\ due \in [Alerts -> SUBSET Views]
    /\ got \in [Views -> SUBSET Alerts]
    /\ early \in [Views -> SUBSET Alerts]
    /\ wiped \in [Views -> SUBSET Alerts]

\* What has not been inserted, nobody has heard of.
FreshInv ==
    \A a \in Alerts : row[a] = "none" =>
        /\ due[a] = {}
        /\ \A v \in Views : a \notin got[v] /\ a \notin Elems(fetch[v].rows)

\* An acknowledgement that changed the row has left it closed: no row is opened again.
AckInv ==
    \A v \in Views, a \in Alerts : ack[v][a] = "changed" => row[a] \in {"acked", "deleted"}

\* NothingMissed for one view, at any time of its fetch.
Complete(v) ==
    \/ Cardinality(Known(v)) > ShowLimit
    \/ In("open") \cap Known(v) \subseteq Elems(list[v]) \cup wiped[v] \cup Replaced(v)

ViewInv(v) ==
    /\ Distinct(list[v]) /\ Distinct(fetch[v].rows)
    /\ Elems(list[v]) \subseteq Known(v)
    /\ page[v] = "new" => got[v] = {} /\ list[v] = <<>> /\ fetch[v].at = "none"
    /\ page[v] = "open" /\ fetch[v].at \in {"asked", "read"} => got[v] \subseteq early[v]
    /\ page[v] = "open" => Complete(v)

ViewsInv == \A v \in Views : ViewInv(v)

IInv == TypeInv /\ FreshInv /\ AckInv /\ ViewsInv

-------------------------------------------------------------------------------
(* Lemmas about lists *)

LEMMA ElemsOfSeq ==
    ASSUME NEW S, NEW s \in Seq(S)
    PROVE  Elems(s) \subseteq S
  BY DEF Elems

LEMMA EmptyList == Elems(<<>>) = {} /\ Distinct(<<>>)
  BY DEF Elems, Distinct

\* Acknowledging takes the alert from a list that shows it once, and nothing else.
LEMMA WithoutRemoves ==
    ASSUME NEW shown \in Seq(Alerts), Distinct(shown), NEW s
    PROVE  /\ Without(shown, s) \in Seq(Alerts)
           /\ Distinct(Without(shown, s))
           /\ Len(Without(shown, s)) <= Len(shown)
           /\ \A k \in 1..Len(Without(shown, s)) :
                  /\ Without(shown, s)[k] # s
                  /\ \E j \in 1..Len(shown) : Without(shown, s)[k] = shown[j]
           /\ \A j \in 1..Len(shown) : shown[j] # s =>
                  \E k \in 1..Len(Without(shown, s)) : Without(shown, s)[k] = shown[j]
  <1>1. CASE ~ \E i \in 1..Len(shown) : shown[i] = s
    <2>1. Without(shown, s) = shown
      BY <1>1 DEF Without, RemoveFirst
    <2> QED
      BY <1>1, <2>1
  <1>2. ASSUME NEW i \in 1..Len(shown), shown[i] = s
        PROVE  /\ Without(shown, s) \in Seq(Alerts)
               /\ Distinct(Without(shown, s))
               /\ Len(Without(shown, s)) <= Len(shown)
               /\ \A k \in 1..Len(Without(shown, s)) :
                      /\ Without(shown, s)[k] # s
                      /\ \E j \in 1..Len(shown) : Without(shown, s)[k] = shown[j]
               /\ \A j \in 1..Len(shown) : shown[j] # s =>
                      \E k \in 1..Len(Without(shown, s)) : Without(shown, s)[k] = shown[j]
    <2> DEFINE front == SubSeq(shown, 1, i - 1)
               back == SubSeq(shown, i + 1, Len(shown))
    <2>1. Without(shown, s) = front \o back
      <3>1. {k \in 1..Len(shown) : shown[k] = s} = {i}
        BY <1>2 DEF Distinct
      <3>2. Min({i}) = i
        BY DEF Min
      <3>3. SelectInSeq(shown, LAMBDA v : v = s) = i
        BY <3>1, <3>2 DEF SelectInSeq
      <3>4. Without(shown, s) = RemoveAt(shown, i)
        BY <1>2, <3>3 DEF Without, RemoveFirst
      <3> QED
        BY <3>4 DEF RemoveAt
    <2>2. /\ front \in Seq(Alerts) /\ Len(front) = i - 1
          /\ \A k \in 1..(i - 1) : front[k] = shown[k]
      BY <1>2
    <2>3. /\ back \in Seq(Alerts) /\ Len(back) = Len(shown) - i
          /\ \A k \in 1..(Len(shown) - i) : back[k] = shown[i + k]
      BY <1>2
    <2> DEFINE rest == front \o back
    <2> HIDE DEF front, back
    <2>4. /\ rest \in Seq(Alerts) /\ Len(rest) = Len(shown) - 1
          /\ \A k \in 1..Len(rest) : rest[k] = IF k < i THEN shown[k] ELSE shown[k + 1]
      <3>1. rest \in Seq(Alerts) /\ Len(rest) = Len(front) + Len(back)
        BY <2>2, <2>3, ConcatProperties
      <3>2. \A k \in 1..(Len(front) + Len(back)) :
                rest[k] = IF k <= Len(front) THEN front[k] ELSE back[k - Len(front)]
        BY <2>2, <2>3, ConcatProperties
      <3> HIDE DEF rest
      <3>3. Len(rest) = Len(shown) - 1
        BY <1>2, <2>2, <2>3, <3>1
      <3>4. ASSUME NEW k \in 1..Len(rest)
            PROVE  rest[k] = IF k < i THEN shown[k] ELSE shown[k + 1]
        <4>1. CASE k < i
          BY <1>2, <2>2, <3>1, <3>2, <3>3, <4>1
        <4>2. CASE k >= i
          <5>1. k - (i - 1) \in 1..(Len(shown) - i)
            BY <1>2, <3>3, <4>2
          <5>2. rest[k] = back[k - (i - 1)]
            BY <1>2, <2>2, <3>1, <3>2, <4>2
          <5>3. back[k - (i - 1)] = shown[i + (k - (i - 1))]
            BY <2>3, <5>1
          <5> QED
            BY <1>2, <4>2, <5>2, <5>3
        <4> QED
          BY <1>2, <4>1, <4>2
      <3> QED
        BY <3>1, <3>3, <3>4
    <2> HIDE DEF rest
    <2>5. \A k \in 1..Len(rest) : rest[k] # s /\ \E j \in 1..Len(shown) : rest[k] = shown[j]
      BY <1>2, <2>4 DEF Distinct
    <2>6. Distinct(rest)
      BY <1>2, <2>4 DEF Distinct
    <2>7. ASSUME NEW j \in 1..Len(shown), shown[j] # s
          PROVE  \E k \in 1..Len(rest) : rest[k] = shown[j]
      <3>1. CASE j < i
        BY <1>2, <2>4, <3>1
      <3>2. CASE j > i
        <4>1. j - 1 \in 1..Len(rest) /\ ~(j - 1 < i) /\ (j - 1) + 1 = j
          BY <1>2, <2>4, <3>2
        <4>2. rest[j - 1] = shown[j]
          BY <2>4, <4>1
        <4> QED
          BY <4>1, <4>2
      <3> QED
        BY <1>2, <2>7, <3>1, <3>2
    <2>8. Without(shown, s) = rest
      BY <2>1 DEF rest
    <2> QED
      BY <1>2, <2>4, <2>5, <2>6, <2>7, <2>8
  <1> QED
    BY <1>1, <1>2

\* The filter of handleAcknowledge.
LEMMA FilterRemoves ==
    ASSUME NEW shown \in Seq(Alerts), Distinct(shown), NEW a
    PROVE  /\ Without(shown, a) \in Seq(Alerts)
           /\ Distinct(Without(shown, a))
           /\ Elems(Without(shown, a)) = Elems(shown) \ {a}
  <1> DEFINE rest == Without(shown, a)
  <1>1. /\ rest \in Seq(Alerts) /\ Distinct(rest)
        /\ \A k \in 1..Len(rest) : rest[k] # a /\ \E j \in 1..Len(shown) : rest[k] = shown[j]
        /\ \A j \in 1..Len(shown) : shown[j] # a => \E k \in 1..Len(rest) : rest[k] = shown[j]
    BY WithoutRemoves
  <1> HIDE DEF rest
  <1>2. Elems(rest) = Elems(shown) \ {a}
    <2>1. ASSUME NEW k \in 1..Len(rest)
          PROVE  rest[k] \in Elems(shown) \ {a}
      BY <1>1 DEF Elems
    <2>2. ASSUME NEW j \in 1..Len(shown), shown[j] # a
          PROVE  shown[j] \in Elems(rest)
      <3>1. PICK k \in 1..Len(rest) : rest[k] = shown[j]
        BY <1>1, <2>2
      <3> QED
        BY <3>1 DEF Elems
    <2> QED
      BY <2>1, <2>2 DEF Elems
  <1> QED
    BY <1>1, <1>2 DEF rest

\* A list of n alerts has n elements.
LEMMA DistinctCounts ==
    ASSUME NEW s \in Seq(Alerts), Distinct(s), NEW T \in SUBSET Alerts, Elems(s) \subseteq T
    PROVE  Cardinality(T) \in Nat /\ Len(s) <= Cardinality(T)
  <1>1. IsFiniteSet(T)
    BY PanelAssumption, FS_Subset
  <1>2. s \in Injection(1..Len(s), T)
    BY DEF Injection, IsInjective, Distinct, Elems
  <1>3. Cardinality(1..Len(s)) <= Cardinality(T)
    BY <1>1, <1>2, FS_Injection
  <1>4. Cardinality(1..Len(s)) = Len(s)
    <2>1. Len(s) \in Nat /\ Len(s) \in Int /\ 1 \in Int
      OBVIOUS
    <2>2. Cardinality(1..Len(s)) = IF 1 > Len(s) THEN 0 ELSE Len(s) - 1 + 1
      BY <2>1, FS_Interval, Zenon
    <2> QED
      BY <2>1, <2>2
  <1> QED
    BY <1>1, <1>3, <1>4, FS_CardinalityType

\* More is not fewer.
LEMMA MoreKnown ==
    ASSUME NEW T \in SUBSET Alerts, NEW S \in SUBSET T, Cardinality(S) > ShowLimit
    PROVE  Cardinality(T) > ShowLimit
  <1>1. IsFiniteSet(T) /\ IsFiniteSet(S)
    BY PanelAssumption, FS_Subset
  <1>2. Cardinality(S) <= Cardinality(T) /\ Cardinality(S) \in Nat /\ Cardinality(T) \in Nat
    BY <1>1, FS_Subset, FS_CardinalityType
  <1> QED
    BY <1>2, PanelAssumption

\* The update of onmessage: the alert is there, and another goes only at the limit.
LEMMA PrependedList ==
    ASSUME NEW shown \in Seq(Alerts), Distinct(shown), NEW a \in Alerts,
           NEW T \in SUBSET Alerts, Elems(shown) \cup {a} \subseteq T
    PROVE  /\ Prepended(a, shown) \in Seq(Alerts)
           /\ Distinct(Prepended(a, shown))
           /\ Elems(Prepended(a, shown)) \subseteq T
           /\ \/ Cardinality(T) > ShowLimit
              \/ Elems(Prepended(a, shown)) = Elems(shown) \cup {a}
  <1> DEFINE longer == <<a>> \o shown
  <1>1. CASE a \in Elems(shown)
    BY <1>1 DEF Prepended
  <1>2. CASE a \notin Elems(shown)
    <2>1. /\ longer \in Seq(Alerts) /\ Len(longer) = Len(shown) + 1
          /\ longer[1] = a
          /\ \A k \in 2..Len(longer) : longer[k] = shown[k - 1]
      <3>1. <<a>> \in Seq(Alerts) /\ Len(<<a>>) = 1 /\ <<a>>[1] = a
        OBVIOUS
      <3>2. /\ longer \in Seq(Alerts) /\ Len(longer) = 1 + Len(shown)
            /\ \A k \in 1..(1 + Len(shown)) :
                  longer[k] = IF k <= 1 THEN <<a>>[k] ELSE shown[k - 1]
        BY <3>1, ConcatProperties
      <3> HIDE DEF longer
      <3> QED
        BY <3>1, <3>2
    <2> HIDE DEF longer
    <2>2. \A k \in 2..Len(longer) : longer[k] \in Elems(shown) /\ k - 1 \in 1..Len(shown)
      BY <2>1 DEF Elems
    <2>3. Distinct(longer)
      <3> SUFFICES ASSUME NEW j \in 1..Len(longer), NEW k \in 1..Len(longer),
                          longer[j] = longer[k], j # k
                   PROVE  FALSE
        BY DEF Distinct
      <3>1. CASE j = 1 \/ k = 1
        BY <1>2, <2>1, <2>2, <3>1
      <3>2. CASE j # 1 /\ k # 1
        <4>1. j \in 2..Len(longer) /\ k \in 2..Len(longer)
          BY <2>1, <3>2
        <4>2. /\ j - 1 \in 1..Len(shown) /\ k - 1 \in 1..Len(shown)
              /\ shown[j - 1] = shown[k - 1] /\ j - 1 # k - 1
          BY <2>1, <2>2, <4>1
        <4> QED
          BY <4>2 DEF Distinct
      <3> QED
        BY <3>1, <3>2
    <2>4. Elems(longer) = Elems(shown) \cup {a}
      <3>1. Elems(longer) \subseteq Elems(shown) \cup {a}
        <4>1. ASSUME NEW k \in 1..Len(longer)
              PROVE  longer[k] \in Elems(shown) \cup {a}
          <5>1. k = 1 \/ k \in 2..Len(longer)
            BY <2>1
          <5> QED
            BY <2>1, <2>2, <5>1
        <4> QED
          BY <4>1 DEF Elems
      <3>2. a \in Elems(longer)
        BY <2>1 DEF Elems
      <3>3. ASSUME NEW k \in 1..Len(shown)
            PROVE  shown[k] \in Elems(longer)
        <4>1. k + 1 \in 2..Len(longer) /\ longer[k + 1] = shown[k]
          BY <2>1
        <4> QED
          BY <2>1, <4>1 DEF Elems
      <3> QED
        BY <3>1, <3>2, <3>3 DEF Elems
    <2>5. Prepended(a, shown) =
              IF Len(longer) <= ShowLimit THEN longer ELSE SubSeq(longer, 1, ShowLimit)
      BY <1>2 DEF Prepended, longer
    <2>6. CASE Len(longer) <= ShowLimit
      BY <2>1, <2>3, <2>4, <2>5, <2>6
    <2>7. CASE ~(Len(longer) <= ShowLimit)
      <3> DEFINE cut == SubSeq(longer, 1, ShowLimit)
      <3>1. /\ cut \in Seq(Alerts) /\ Len(cut) = ShowLimit
            /\ \A k \in 1..ShowLimit : cut[k] = longer[k]
        BY <2>1, <2>7, PanelAssumption
      <3>2. Cardinality(T) > ShowLimit
        <4>1. Cardinality(T) \in Nat /\ Len(longer) <= Cardinality(T)
          BY <2>1, <2>3, <2>4, DistinctCounts
        <4> QED
          BY <2>1, <2>7, <4>1, PanelAssumption
      <3>3. cut = Prepended(a, shown)
        BY <2>5, <2>7
      <3> HIDE DEF cut
      <3>4. 1..Len(cut) \subseteq 1..Len(longer) /\ \A k \in 1..Len(cut) : cut[k] = longer[k]
        BY <2>1, <2>7, <3>1, PanelAssumption
      <3> HIDE DEF longer
      <3>5. Distinct(cut)
        BY <2>3, <3>4 DEF Distinct
      <3>6. Elems(cut) \subseteq Elems(longer)
        BY <3>4 DEF Elems
      <3> QED
        BY <2>4, <3>1, <3>2, <3>3, <3>5, <3>6
    <2> QED
      BY <2>6, <2>7
  <1> QED
    BY <1>1, <1>2

-------------------------------------------------------------------------------
(* The invariant holds *)

LEMMA AnswersAre ==
    ASSUME NEW q \in Answers
    PROVE  q \in Seq(Alerts) /\ Distinct(q) /\ Elems(q) \subseteq In("open")
  <1>1. PICK n \in 0..FetchLimit : q \in [1..n -> In("open")]
    BY DEF Answers
  <1>2. In("open") \subseteq Alerts /\ n \in Nat
    BY PanelAssumption DEF In
  <1>3. q \in Seq(In("open"))
    BY <1>1, <1>2
  <1>4. Elems(q) \subseteq In("open")
    BY <1>3, ElemsOfSeq
  <1>5. q \in Seq(Alerts)
    BY <1>1, <1>2
  <1> QED
    BY <1>4, <1>5 DEF Answers

LEMMA InitIInv == Init => IInv
  <1> SUFFICES ASSUME Init
               PROVE  IInv
    OBVIOUS
  <1>1. NoFetch \in Fetches /\ NoFetch.at = "none" /\ NoFetch.rows = <<>>
    BY DEF NoFetch, Fetches
  <1>2. TypeInv
    BY <1>1 DEF Init, TypeInv, Channel!Init
  <1>3. FreshInv /\ AckInv
    BY <1>1, EmptyList DEF Init, FreshInv, AckInv, Channel!Init
  <1>4. ViewsInv
    BY <1>1, EmptyList DEF Init, Channel!Init, ViewsInv, ViewInv, Known, Fetched
  <1> QED
    BY <1>2, <1>3, <1>4 DEF IInv

\* What a view shows stays right if nothing of it changes and none of its alerts is opened.
LEMMA Untouched ==
    ASSUME NEW v \in Views, ViewInv(v),
           list'[v] = list[v], fetch'[v] = fetch[v], page'[v] = page[v], got'[v] = got[v],
           early'[v] = early[v], wiped'[v] = wiped[v],
           In("open")' \cap Known(v) \subseteq In("open")
    PROVE  ViewInv(v)'
  <1>1. Known(v)' = Known(v) /\ Replaced(v)' = Replaced(v)
    BY DEF Known, Fetched, Replaced
  <1>2. Complete(v) => Complete(v)'
    BY <1>1 DEF Complete
  <1> QED
    BY <1>1, <1>2 DEF ViewInv

\* So a step of one view leaves the others' lists right.
LEMMA OneViewChanges ==
    ASSUME ViewsInv, NEW v \in Views, ViewInv(v)', In("open")' \subseteq In("open"),
           \A w \in Views \ {v} :
               /\ list'[w] = list[w] /\ fetch'[w] = fetch[w] /\ page'[w] = page[w]
               /\ got'[w] = got[w] /\ early'[w] = early[w] /\ wiped'[w] = wiped[w]
    PROVE  ViewsInv'
  <1>1. \A w \in Views \ {v} : ViewInv(w)'
    BY Untouched DEF ViewsInv
  <1> QED
    BY <1>1 DEF ViewsInv

\* The steps that no list, row or fetch takes part in.
LEMMA QuietKeeps ==
    ASSUME IInv, UNCHANGED <<row, page, fetch, list, got, early, wiped>>,
           due' \in [Alerts -> SUBSET Views], \A a \in Alerts : row[a] = "none" => due'[a] = {},
           ack' \in [Views -> [Alerts -> {"no", "asked", "changed"}]],
           \A v \in Views, a \in Alerts : ack'[v][a] = "changed" => ack[v][a] = "changed"
    PROVE  IInv'
  <1>1. TypeInv' /\ FreshInv' /\ AckInv'
    BY DEF IInv, TypeInv, FreshInv, AckInv
  <1>2. In("open")' = In("open")
    BY DEF In
  <1>3. ViewsInv'
    BY <1>2, Untouched DEF IInv, ViewsInv
  <1> QED
    BY <1>1, <1>3 DEF IInv

LEMMA InsertKeeps ==
    ASSUME IInv, NEW a \in Alerts, Insert(a)
    PROVE  IInv'
  <1>1. /\ row[a] = "none" /\ row' = [row EXCEPT ![a] = "open"]
        /\ UNCHANGED <<due, got, page, fetch, list, ack, early, wiped>>
    BY DEF Insert, channel, ghosts
  <1>2. TypeInv' /\ FreshInv' /\ AckInv'
    <2>1. TypeInv'
      BY <1>1 DEF IInv, TypeInv
    <2>2. \A b \in Alerts : row'[b] = IF b = a THEN "open" ELSE row[b]
      BY <1>1 DEF IInv, TypeInv
    <2>3. FreshInv'
      <3>1. \A b \in Alerts : row'[b] = "none" => row[b] = "none"
        BY <2>2
      <3> QED
        BY <1>1, <3>1 DEF IInv, FreshInv
    <2>4. AckInv'
      <3>1. \A b \in Alerts : row[b] \in {"acked", "deleted"} => row'[b] = row[b]
        BY <1>1, <2>2
      <3>2. \A v \in Views, b \in Alerts : ack[v][b] = "changed" => row[b] \in {"acked", "deleted"}
        BY DEF IInv, AckInv
      <3> QED
        BY <1>1, <3>1, <3>2 DEF AckInv
    <2> QED
      BY <2>1, <2>3, <2>4
  <1>3. In("open")' = In("open") \cup {a}
    BY <1>1 DEF IInv, TypeInv, In
  <1>4. \A v \in Views : a \notin Known(v)
    BY <1>1 DEF IInv, FreshInv, Known, Fetched
  <1>5. ViewsInv'
    BY <1>1, <1>3, <1>4, Untouched DEF IInv, ViewsInv
  <1> QED
    BY <1>2, <1>5 DEF IInv

\* The steps that only close rows.
LEMMA ClosingKeeps ==
    ASSUME IInv, UNCHANGED <<due, got, page, fetch, list, early, wiped>>,
           row' \in [Alerts -> {"none", "open", "acked", "deleted"}],
           \A a \in Alerts : row'[a] # row[a] => row[a] # "none" /\ row'[a] \in {"acked", "deleted"},
           ack' \in [Views -> [Alerts -> {"no", "asked", "changed"}]],
           \A v \in Views, a \in Alerts :
               ack'[v][a] = "changed" => ack[v][a] = "changed" \/ row'[a] \in {"acked", "deleted"}
    PROVE  IInv'
  <1>1. TypeInv' /\ FreshInv' /\ AckInv'
    BY DEF IInv, TypeInv, FreshInv, AckInv
  <1>2. In("open")' \subseteq In("open")
    BY DEF In
  <1>3. ViewsInv'
    BY <1>2, Untouched DEF IInv, ViewsInv
  <1> QED
    BY <1>1, <1>3 DEF IInv

LEMMA LogsClearedKeeps ==
    ASSUME IInv, LogsCleared
    PROVE  IInv'
  <1> DEFINE shown == {v \in LogViews : page[v] = "open"}
  <1>1. /\ UNCHANGED <<due, got, row, page, fetch, ack, early>>
        /\ wiped' = [v \in Views |-> IF v \in shown THEN wiped[v] \cup (Elems(list[v]) \cap In("open"))
                                                    ELSE wiped[v]]
        /\ list' = [v \in Views |-> IF v \in shown THEN <<>> ELSE list[v]]
    BY DEF LogsCleared, channel
  <1> HIDE DEF shown
  <1>2. In("open") \subseteq Alerts /\ In("open")' = In("open")
    BY <1>1 DEF In
  <1>3. TypeInv' /\ FreshInv' /\ AckInv'
    BY <1>1, <1>2 DEF IInv, TypeInv, FreshInv, AckInv
  <1>4. ASSUME NEW v \in Views
        PROVE  ViewInv(v)'
    <2>1. ViewInv(v)
      BY DEF IInv, ViewsInv
    <2>2. Known(v)' = Known(v) /\ Replaced(v)' = Replaced(v)
      BY <1>1 DEF Known, Fetched, Replaced
    <2>3. CASE v \notin shown
      BY <1>1, <1>2, <2>1, <2>3, Untouched
    <2>4. CASE v \in shown
      <3>1. /\ list'[v] = <<>>
            /\ wiped'[v] = wiped[v] \cup (Elems(list[v]) \cap In("open"))
        BY <1>1, <2>4
      <3>2. Complete(v) => Complete(v)'
        BY <1>2, <2>2, <3>1 DEF Complete
      <3> QED
        BY <1>1, <2>1, <2>2, <3>1, <3>2, EmptyList DEF ViewInv
    <2> QED
      BY <2>3, <2>4
  <1> QED
    BY <1>3, <1>4 DEF IInv, ViewsInv

\* A step of one view that leaves the rows alone: what it has heard of has been inserted.
OwnStep(v) ==
    /\ UNCHANGED row
    /\ page' \in [Views -> {"new", "open", "closed"}]
    /\ fetch' \in [Views -> Fetches]
    /\ list' \in [Views -> Seq(Alerts)]
    /\ ack' \in [Views -> [Alerts -> {"no", "asked", "changed"}]]
    /\ got' \in [Views -> SUBSET Alerts]
    /\ early' \in [Views -> SUBSET Alerts]
    /\ wiped' \in [Views -> SUBSET Alerts]
    /\ due' \in [Alerts -> SUBSET Views]
    /\ \A a \in Alerts : due'[a] \subseteq due[a]
    /\ \A w \in Views, a \in Alerts : ack'[w][a] = "changed" => ack[w][a] = "changed"
    /\ \A a \in got'[v] \ got[v] : due[a] # {}
    /\ Elems(fetch'[v].rows) \subseteq Elems(fetch[v].rows) \cup In("open")
    /\ \A w \in Views \ {v} :
          /\ list'[w] = list[w] /\ fetch'[w] = fetch[w] /\ page'[w] = page[w]
          /\ got'[w] = got[w] /\ early'[w] = early[w] /\ wiped'[w] = wiped[w]

LEMMA OwnStepKeeps ==
    ASSUME IInv, NEW v \in Views, OwnStep(v), ViewInv(v)'
    PROVE  IInv'
  <1>1. TypeInv' /\ AckInv'
    BY DEF OwnStep, IInv, TypeInv, AckInv
  <1>2. FreshInv'
    <2> SUFFICES ASSUME NEW a \in Alerts, row[a] = "none"
                 PROVE  /\ due'[a] = {}
                        /\ \A w \in Views : a \notin got'[w] /\ a \notin Elems(fetch'[w].rows)
      BY DEF FreshInv, OwnStep
    <2>1. /\ due[a] = {} /\ a \notin In("open")
          /\ \A w \in Views : a \notin got[w] /\ a \notin Elems(fetch[w].rows)
      BY DEF IInv, FreshInv, In
    <2> QED
      BY <2>1 DEF OwnStep
  <1>3. In("open")' = In("open")
    BY DEF OwnStep, In
  <1>4. ViewsInv'
    BY <1>3, OneViewChanges DEF IInv, OwnStep
  <1> QED
    BY <1>1, <1>2, <1>4 DEF IInv

LEMMA MountKeeps ==
    ASSUME IInv, NEW v \in Views, Mount(v)
    PROVE  IInv'
  <1>1. /\ page[v] = "new" /\ page' = [page EXCEPT ![v] = "open"]
        /\ fetch' = [fetch EXCEPT ![v].at = "asked"]
        /\ UNCHANGED <<due, got, row, list, ack, early, wiped>>
    BY DEF Mount, channel, ghosts
  <1>2. TypeInv /\ ViewInv(v) /\ fetch[v] \in Fetches
    BY DEF IInv, TypeInv, ViewsInv
  <1>3. fetch'[v].at = "asked" /\ fetch'[v].rows = fetch[v].rows /\ fetch'[v] \in Fetches
    BY <1>1, <1>2 DEF TypeInv, Fetches
  <1>4. OwnStep(v)
    BY <1>1, <1>2, <1>3 DEF OwnStep, TypeInv
  <1>5. ViewInv(v)'
    <2>1. got'[v] = {} /\ list'[v] = <<>> /\ page'[v] = "open"
      BY <1>1, <1>2 DEF TypeInv, ViewInv
    <2>2. Known(v)' = {}
      BY <1>3, <2>1 DEF Known, Fetched
    <2> QED
      BY <1>2, <1>3, <2>1, <2>2, EmptyList DEF ViewInv, Complete
  <1> QED
    BY <1>4, <1>5, OwnStepKeeps

LEMMA UnmountKeeps ==
    ASSUME IInv, NEW v \in Views, Unmount(v)
    PROVE  IInv'
  <1>1. /\ page' = [page EXCEPT ![v] = "closed"]
        /\ fetch' = [fetch EXCEPT ![v] = NoFetch]
        /\ list' = [list EXCEPT ![v] = <<>>]
        /\ early' = [early EXCEPT ![v] = {}] /\ wiped' = [wiped EXCEPT ![v] = {}]
        /\ UNCHANGED <<got, row, ack>>
        /\ due' = [a \in Alerts |-> due[a] \ {v}] \/ due' = due
    BY DEF Unmount, channel, Channel!Leave
  <1>2. TypeInv
    BY DEF IInv
  <1>3. NoFetch \in Fetches /\ NoFetch.at = "none" /\ NoFetch.rows = <<>> /\ Elems(<<>>) = {}
    BY EmptyList DEF NoFetch, Fetches
  <1>4. OwnStep(v)
    BY <1>1, <1>2, <1>3 DEF OwnStep, TypeInv
  <1>5. ViewInv(v)'
    <2>1. page'[v] = "closed" /\ fetch'[v] = NoFetch /\ list'[v] = <<>>
      BY <1>1, <1>2 DEF TypeInv
    <2> QED
      BY <1>3, <2>1, EmptyList DEF ViewInv
  <1> QED
    BY <1>4, <1>5, OwnStepKeeps

\* The query runs, or the fetch fails: the view shows what it showed.
LEMMA FetchGoesOn ==
    ASSUME IInv, NEW v \in Views, FetchRead(v) \/ FetchFails(v)
    PROVE  IInv'
  <1>1. /\ page[v] = "open" /\ fetch[v].at \in {"asked", "read"}
        /\ UNCHANGED <<due, got, row, page, list, ack, early, wiped>>
        /\ \A w \in Views \ {v} : fetch'[w] = fetch[w]
        /\ DOMAIN fetch' = Views
    BY DEF FetchRead, FetchFails, channel, ghosts, IInv, TypeInv
  <1>2. TypeInv /\ ViewInv(v) /\ fetch[v] \in Fetches
    BY DEF IInv, TypeInv, ViewsInv
  <1>3. /\ fetch' \in [Views -> Fetches] /\ fetch'[v].at \in {"read", "failed"}
        /\ Distinct(fetch'[v].rows)
        /\ Elems(fetch'[v].rows) \subseteq Elems(fetch[v].rows) \cup In("open")
    <2>1. CASE FetchRead(v)
      <3>1. PICK q \in Answers : fetch' = [fetch EXCEPT ![v] = [at |-> "read", rows |-> q]]
        BY <2>1 DEF FetchRead
      <3>2. q \in Seq(Alerts) /\ Distinct(q) /\ Elems(q) \subseteq In("open")
        BY AnswersAre
      <3> QED
        BY <1>2, <3>1, <3>2 DEF TypeInv, Fetches
    <2>2. CASE FetchFails(v)
      <3>1. fetch' = [fetch EXCEPT ![v].at = "failed"]
        BY <2>2 DEF FetchFails
      <3>2. fetch'[v].rows = fetch[v].rows /\ fetch'[v].at = "failed" /\ fetch'[v] \in Fetches
        BY <1>2, <3>1 DEF TypeInv, Fetches
      <3> QED
        BY <1>2, <3>1, <3>2 DEF TypeInv, ViewInv
    <2> QED
      BY <2>1, <2>2
  <1>4. OwnStep(v)
    BY <1>1, <1>2, <1>3 DEF OwnStep, TypeInv
  <1>5. ViewInv(v)'
    <2>1. Known(v)' = Known(v) /\ Replaced(v)' = Replaced(v) /\ In("open")' = In("open")
      BY <1>1, <1>3 DEF Known, Fetched, Replaced, In
    <2>2. Complete(v)'
      BY <1>1, <1>2, <2>1 DEF ViewInv, Complete
    <2> QED
      BY <1>1, <1>2, <1>3, <2>1, <2>2 DEF ViewInv
  <1> QED
    BY <1>4, <1>5, OwnStepKeeps

\* What the answer replaces came before it.
LEMMA FetchAnsweredKeeps ==
    ASSUME IInv, NEW v \in Views, FetchAnswered(v)
    PROVE  IInv'
  <1>1. /\ page[v] = "open" /\ fetch[v].at = "read"
        /\ fetch' = [fetch EXCEPT ![v].at = "done"]
        /\ list' = [list EXCEPT ![v] = fetch[v].rows]
        /\ UNCHANGED <<due, got, row, page, ack, early, wiped>>
    BY DEF FetchAnswered, channel, ghosts
  <1>2. TypeInv /\ ViewInv(v) /\ fetch[v] \in Fetches /\ fetch[v].rows \in Seq(Alerts)
    BY DEF IInv, TypeInv, ViewsInv, Fetches
  <1>3. fetch'[v].at = "done" /\ fetch'[v].rows = fetch[v].rows /\ fetch'[v] \in Fetches
    BY <1>1, <1>2 DEF TypeInv, Fetches
  <1>4. OwnStep(v)
    BY <1>1, <1>2, <1>3 DEF OwnStep, TypeInv
  <1>5. ViewInv(v)'
    <2> DEFINE rows == Elems(fetch[v].rows)
    <2>1. /\ Known(v)' = rows \cup got[v] /\ Replaced(v)' = early[v] \ rows
          /\ list'[v] = fetch[v].rows
      BY <1>1, <1>2, <1>3 DEF Known, Fetched, Replaced, TypeInv
    <2>2. got[v] \subseteq early[v]
      BY <1>1, <1>2 DEF ViewInv
    <2>3. Complete(v)'
      BY <2>1, <2>2 DEF Complete
    <2> QED
      BY <1>1, <1>2, <1>3, <2>1, <2>3 DEF ViewInv
  <1> QED
    BY <1>4, <1>5, OwnStepKeeps

LEMMA OnMessageKeeps ==
    ASSUME IInv, NEW v \in Views, NEW a \in Alerts, OnMessage(v, a)
    PROVE  IInv'
  <1>1. /\ page[v] = "open" /\ v \in due[a]
        /\ due' = [due EXCEPT ![a] = @ \ {v}]
        /\ got' = [got EXCEPT ![v] = @ \cup {a}]
        /\ list' = [list EXCEPT ![v] = Prepended(a, @)]
        /\ early' = IF fetch[v].at \in {"asked", "read"}
                    THEN [early EXCEPT ![v] = @ \cup {a}] ELSE early
        /\ UNCHANGED <<row, page, fetch, ack, wiped>>
    BY DEF OnMessage, Channel!Hand
  <1>2. TypeInv /\ ViewInv(v) /\ fetch[v] \in Fetches /\ list[v] \in Seq(Alerts)
    BY DEF IInv, TypeInv, ViewsInv
  <1>3. /\ got'[v] = got[v] \cup {a} /\ list'[v] = Prepended(a, list[v])
        /\ early[v] \subseteq early'[v]
        /\ fetch[v].at \in {"asked", "read"} => early'[v] = early[v] \cup {a}
    BY <1>1, <1>2 DEF TypeInv
  <1>4. /\ Known(v)' = Known(v) \cup {a} /\ Known(v) \subseteq Known(v)'
        /\ Known(v)' \in SUBSET Alerts
    BY <1>1, <1>2, <1>3, ElemsOfSeq DEF Known, Fetched, TypeInv, Fetches
  <1>5. /\ list'[v] \in Seq(Alerts) /\ Distinct(list'[v]) /\ Elems(list'[v]) \subseteq Known(v)'
        /\ \/ Cardinality(Known(v)') > ShowLimit
           \/ Elems(list'[v]) = Elems(list[v]) \cup {a}
    <2>1. Distinct(list[v]) /\ Elems(list[v]) \cup {a} \subseteq Known(v)'
      BY <1>2, <1>4 DEF ViewInv
    <2> DEFINE shown == list[v]
               T == Known(v)'
    <2>2. /\ shown \in Seq(Alerts) /\ Distinct(shown) /\ T \in SUBSET Alerts
          /\ Elems(shown) \cup {a} \subseteq T
      BY <1>2, <1>4, <2>1
    <2> HIDE DEF shown, T
    <2>3. /\ Prepended(a, shown) \in Seq(Alerts) /\ Distinct(Prepended(a, shown))
          /\ Elems(Prepended(a, shown)) \subseteq T
          /\ \/ Cardinality(T) > ShowLimit
             \/ Elems(Prepended(a, shown)) = Elems(shown) \cup {a}
      BY <2>2, PrependedList
    <2> QED
      BY <1>3, <2>3 DEF shown, T
  <1>6. OwnStep(v)
    BY <1>1, <1>2, <1>5 DEF OwnStep, TypeInv
  <1>7. Complete(v)'
    <2>1. Complete(v) /\ In("open")' = In("open")
      BY <1>1, <1>2 DEF ViewInv, In
    <2>2. Replaced(v) \subseteq Replaced(v)'
      BY <1>1, <1>3 DEF Replaced, Fetched
    <2>3. Cardinality(Known(v)) > ShowLimit => Cardinality(Known(v)') > ShowLimit
      BY <1>4, MoreKnown
    <2>4. wiped'[v] = wiped[v]
      BY <1>1
    <2> QED
      BY <1>4, <1>5, <2>1, <2>2, <2>3, <2>4 DEF Complete
  <1>8. ViewInv(v)'
    BY <1>1, <1>2, <1>3, <1>5, <1>7 DEF ViewInv
  <1> QED
    BY <1>6, <1>8, OwnStepKeeps

\* What leaves the list is no longer open.
LEMMA AckAnsweredKeeps ==
    ASSUME IInv, NEW v \in Views, NEW a \in Alerts, AckAnswered(v, a)
    PROVE  IInv'
  <1>1. /\ page[v] = "open" /\ ack[v][a] = "changed"
        /\ ack' = [ack EXCEPT ![v][a] = "no"]
        /\ list' = [list EXCEPT ![v] = Without(@, a)]
        /\ UNCHANGED <<due, got, row, page, fetch, early, wiped>>
    BY DEF AckAnswered, channel, ghosts
  <1>2. TypeInv /\ ViewInv(v) /\ list[v] \in Seq(Alerts) /\ Distinct(list[v])
    BY DEF IInv, TypeInv, ViewsInv, ViewInv
  <1>3. /\ list'[v] = Without(list[v], a) /\ list'[v] \in Seq(Alerts) /\ Distinct(list'[v])
        /\ Elems(list'[v]) = Elems(list[v]) \ {a}
    BY <1>1, <1>2, FilterRemoves DEF TypeInv
  <1>4. OwnStep(v)
    BY <1>1, <1>2, <1>3 DEF OwnStep, TypeInv
  <1>5. a \notin In("open") /\ In("open")' = In("open")
    BY <1>1 DEF IInv, AckInv, In
  <1>6. Known(v)' = Known(v) /\ Replaced(v)' = Replaced(v)
    BY <1>1 DEF Known, Fetched, Replaced
  <1>7. Complete(v)'
    BY <1>1, <1>2, <1>3, <1>5, <1>6 DEF ViewInv, Complete
  <1>8. ViewInv(v)'
    BY <1>1, <1>2, <1>3, <1>6, <1>7 DEF ViewInv
  <1> QED
    BY <1>4, <1>8, OwnStepKeeps

LEMMA PanelKeeps ==
    ASSUME IInv, NEW v \in Views, Panel(v)
    PROVE  IInv'
  <1>0. TypeInv
    BY DEF IInv
  <1>1. CASE Connect(v) \/ Disconnect(v)
    <2>1. /\ UNCHANGED <<row, page, fetch, list, got, ack, early, wiped>>
          /\ due' = [a \in Alerts |-> due[a] \ {v}] \/ due' = due
      BY <1>1 DEF Connect, Disconnect, Channel!Join, Channel!Leave, ghosts
    <2>2. due' \in [Alerts -> SUBSET Views] /\ \A a \in Alerts : row[a] = "none" => due'[a] = {}
      BY <1>0, <2>1 DEF TypeInv, IInv, FreshInv
    <2> QED
      BY <1>0, <2>1, <2>2, QuietKeeps DEF TypeInv
  <1>2. ASSUME NEW a \in Alerts, Click(v, a) \/ AckFails(v, a)
        PROVE  IInv'
    <2>1. /\ UNCHANGED <<row, page, fetch, list, got, due, early, wiped>>
          /\ ack' = [ack EXCEPT ![v][a] = "asked"] \/ ack' = [ack EXCEPT ![v][a] = "no"]
      BY <1>2 DEF Click, AckFails, channel, ghosts
    <2>2. /\ ack' \in [Views -> [Alerts -> {"no", "asked", "changed"}]]
          /\ \A w \in Views, b \in Alerts : ack'[w][b] = "changed" => ack[w][b] = "changed"
      <3>1. CASE ack' = [ack EXCEPT ![v][a] = "asked"]
        BY <1>0, <3>1 DEF TypeInv
      <3>2. CASE ack' = [ack EXCEPT ![v][a] = "no"]
        BY <1>0, <3>2 DEF TypeInv
      <3> QED
        BY <2>1, <3>1, <3>2
    <2> QED
      BY <1>0, <2>1, <2>2, QuietKeeps DEF TypeInv, IInv, FreshInv
  <1>3. ASSUME NEW a \in Alerts, Acknowledge(v, a)
        PROVE  IInv'
    <2>1. /\ row[a] = "open" /\ row' = [row EXCEPT ![a] = "acked"]
          /\ ack' = [ack EXCEPT ![v][a] = "changed"]
          /\ UNCHANGED <<due, got, page, fetch, list, early, wiped>>
      BY <1>3 DEF Acknowledge, channel, ghosts
    <2>2. /\ row' \in [Alerts -> {"none", "open", "acked", "deleted"}]
          /\ \A b \in Alerts :
                row'[b] # row[b] => row[b] # "none" /\ row'[b] \in {"acked", "deleted"}
          /\ ack' \in [Views -> [Alerts -> {"no", "asked", "changed"}]]
          /\ \A w \in Views, b \in Alerts :
                ack'[w][b] = "changed" => ack[w][b] = "changed" \/ row'[b] \in {"acked", "deleted"}
      BY <1>0, <2>1 DEF TypeInv
    <2> QED
      BY <2>1, <2>2, ClosingKeeps
  <1> QED
    BY <1>1, <1>2, <1>3, MountKeeps, UnmountKeeps, FetchGoesOn, FetchAnsweredKeeps,
       OnMessageKeeps, AckAnsweredKeeps DEF Panel

LEMMA NextKeeps == IInv /\ [Next]_vars => IInv'
  <1> SUFFICES ASSUME IInv, [Next]_vars
               PROVE  IInv'
    OBVIOUS
  <1>0. TypeInv /\ FreshInv
    BY DEF IInv
  <1>1. CASE UNCHANGED vars
    BY <1>0, <1>1, QuietKeeps DEF vars, channel, ghosts, TypeInv, FreshInv
  <1>2. ASSUME NEW a \in Alerts, Broadcast(a)
        PROVE  IInv'
    <2>1. /\ row[a] # "none" /\ due' = [due EXCEPT ![a] = Channel!On]
          /\ UNCHANGED <<row, page, fetch, list, got, ack, early, wiped>>
      BY <1>2 DEF Broadcast, Channel!Push, ghosts
    <2>2. Channel!On \subseteq Views
      BY DEF Channel!On
    <2> QED
      BY <1>0, <2>1, <2>2, QuietKeeps DEF TypeInv, FreshInv
  <1>3. ASSUME NEW a \in Alerts, AckElsewhere(a)
        PROVE  IInv'
    <2>1. /\ row[a] = "open" /\ row' = [row EXCEPT ![a] = "acked"]
          /\ UNCHANGED <<due, got, page, fetch, list, ack, early, wiped>>
      BY <1>3 DEF AckElsewhere, channel, ghosts
    <2>2. /\ row' \in [Alerts -> {"none", "open", "acked", "deleted"}]
          /\ \A b \in Alerts :
                row'[b] # row[b] => row[b] # "none" /\ row'[b] \in {"acked", "deleted"}
      BY <1>0, <2>1 DEF TypeInv
    <2> QED
      BY <1>0, <2>1, <2>2, ClosingKeeps DEF TypeInv
  <1>4. CASE ClearLogs
    <2>1. /\ row' = [a \in Alerts |-> IF row[a] = "none" THEN "none" ELSE "deleted"]
          /\ UNCHANGED <<due, got, page, fetch, list, ack, early, wiped>>
      BY <1>4 DEF ClearLogs, channel, ghosts
    <2>2. /\ row' \in [Alerts -> {"none", "open", "acked", "deleted"}]
          /\ \A b \in Alerts :
                row'[b] # row[b] => row[b] # "none" /\ row'[b] \in {"acked", "deleted"}
      BY <1>0, <2>1 DEF TypeInv
    <2> QED
      BY <1>0, <2>1, <2>2, ClosingKeeps DEF TypeInv
  <1>5. CASE ClearFails
    BY <1>0, <1>5, QuietKeeps DEF ClearFails, channel, ghosts, TypeInv, FreshInv
  <1> QED
    BY <1>1, <1>2, <1>3, <1>4, <1>5, InsertKeeps, LogsClearedKeeps, PanelKeeps DEF Next

LEMMA Invariance == Spec => []IInv
  <1>1. Init => IInv
    BY InitIInv
  <1>2. IInv /\ [Next]_vars => IInv'
    BY NextKeeps
  <1> QED
    BY <1>1, <1>2, PTL DEF Spec

-------------------------------------------------------------------------------
(* Theorems *)

\* However the answer of the fetch, the messages and the acknowledgements interleave, no
\* alert is listed twice.
THEOREM NoneTwice == Spec => []ShownOnce
  <1>1. IInv => ShownOnce
    BY DEF IInv, ViewsInv, ViewInv, ShownOnce
  <1> QED
    BY <1>1, Invariance, PTL

\* An open alert that a view knows is listed, but for the answer that replaced the list, the
\* event that emptied it and the limit.
THEOREM NoneMissed == Spec => []NothingMissed
  <1>1. IInv => NothingMissed
    BY DEF IInv, ViewsInv, ViewInv, Complete, NothingMissed
  <1> QED
    BY <1>1, Invariance, PTL

===============================================================================
