---------------------------- MODULE DetectionProofs ----------------------------
(***************************************************************************)
(* Theorems on how the plates of one frame are found (part 1, Detectors)   *)
(* and on what their reads amount to (parts 2 and 3, PlateText).           *)
(*                                                                         *)
(* The loops of both are functions defined by recursion over an            *)
(* interval.  LoopRuns shows that a loop of N typed rounds has such a      *)
(* function; UpTo is the induction over the rounds.  With them the         *)
(* suppression, the merge of the vehicles' plates and the list of tiles    *)
(* get the lemmas NMSKeeps, MergeKeeps and SeamsAreCovered, which hold for *)
(* every list of boxes and every frame, and from which the invariant of    *)
(* the three detectors follows step by step.  For the texts, the sum of a  *)
(* list, the stable sort, the parser, the extraction and the vote get      *)
(* theirs, for every list of lines and of reads.  Part 3 follows a         *)
(* registration through all of it: what a match of each format consists    *)
(* of, which texts are matched whole, what normalising and correcting make *)
(* of them, and the reads of every legible image.                          *)
(***************************************************************************)
EXTENDS Detectors, PlateText, WellFoundedInduction, FunctionTheorems, FiniteSetTheorems,
        SequenceTheorems, TLAPS

-------------------------------------------------------------------------------
(* Loops *)

\* Induction over the rounds of a loop, as a statement on sets.
LEMMA UpTo ==
    ASSUME NEW N \in Nat, NEW T, 0 \in T, \A n \in 1..N : n - 1 \in T => n \in T
    PROVE  0..N \subseteq T
  <1> DEFINE bad == (0..N) \ T
             less == {p \in Nat \X Nat : p[1] < p[2]}
  <1> SUFFICES ASSUME bad # {} PROVE FALSE
    OBVIOUS
  <1>1. IsWellFoundedOn(less, Nat)
    <2>1. less = OpToRel(<, Nat)
      BY DEF OpToRel
    <2> QED
      BY <2>1, NatLessThanWellFounded
  <1>2. PICK m \in bad : \A k \in bad : ~(<<k, m>> \in less)
    <2> bad \subseteq Nat
      OBVIOUS
    <2> HIDE DEF bad, less
    <2> QED
      BY <1>1, WFMin
  <1>3. m \in 1..N /\ m - 1 \in 0..N
    OBVIOUS
  <1>4. m - 1 \notin bad
    <2>1. m - 1 \in Nat /\ m \in Nat /\ m - 1 < m
      BY <1>3
    <2>2. <<m - 1, m>> \in less
      BY <2>1
    <2> HIDE DEF less
    <2> QED
      BY <1>2, <2>2
  <1> QED
    BY <1>3, <1>4

\* A loop of N rounds, from base, the n-th round being the function G[n].
IsRun(f, N, V, base, G) ==
    f \in [0..N -> V] /\ f[0] = base /\ \A n \in 1..N : f[n] = G[n][f[n - 1]]

\* There is a function that runs the loop: what the CHOOSE of a recursive function needs.
LEMMA LoopRuns ==
    ASSUME NEW N \in Nat, NEW V, NEW base \in V, NEW G \in [1..N -> [V -> V]]
    PROVE  \E f : IsRun(f, N, V, base, G)
  <1> DEFINE T == {k \in 0..N : \E f : IsRun(f, k, V, base, G)}
  <1>1. 0 \in T
    <2>1. IsRun([i \in 0..0 |-> base], 0, V, base, G)
      BY DEF IsRun
    <2> QED
      BY <2>1
  <1>2. ASSUME NEW k \in 1..N, k - 1 \in T
        PROVE  k \in T
    <2>1. PICK f : IsRun(f, k - 1, V, base, G)
      BY <1>2
    <2>2. /\ f \in [0..(k - 1) -> V] /\ f[0] = base
          /\ \A n \in 1..(k - 1) : f[n] = G[n][f[n - 1]]
      BY <2>1 DEF IsRun
    <2> DEFINE g == [i \in 0..k |-> IF i = k THEN G[k][f[k - 1]] ELSE f[i]]
    <2>3. f[k - 1] \in V /\ G[k][f[k - 1]] \in V
      BY <2>2
    <2>4. g \in [0..k -> V]
      BY <2>2, <2>3
    <2>5. g[0] = base
      BY <2>2
    <2>6. ASSUME NEW n \in 1..k
          PROVE  g[n] = G[n][g[n - 1]]
      <3>1. CASE n = k
        <4>1. g[n - 1] = f[n - 1]
          BY <3>1
        <4> QED
          BY <3>1, <4>1
      <3>2. CASE n # k
        <4>1. n \in 1..(k - 1) /\ g[n] = f[n] /\ g[n - 1] = f[n - 1]
          BY <3>2
        <4> QED
          BY <2>2, <4>1
      <3> QED
        BY <3>1, <3>2
    <2>7. IsRun(g, k, V, base, G)
      BY <2>4, <2>5, <2>6 DEF IsRun
    <2> QED
      BY <2>7
  <1>3. \A k \in 1..N : k - 1 \in T => k \in T
    BY <1>2
  <1> HIDE DEF T
  <1>4. 0..N \subseteq T
    BY <1>1, <1>3, UpTo
  <1>5. N \in T
    BY <1>4
  <1> QED
    BY <1>5 DEF T

\* The list of a finite set: every element once.
LEMMA ListOf ==
    ASSUME NEW S, IsFiniteSet(S)
    PROVE  /\ Cardinality(S) \in Nat
           /\ SetToSeq(S) \in [1..Cardinality(S) -> S]
           /\ \A a, b \in 1..Cardinality(S) : SetToSeq(S)[a] = SetToSeq(S)[b] => a = b
           /\ \A x \in S : \E n \in 1..Cardinality(S) : SetToSeq(S)[n] = x
  <1> DEFINE n == Cardinality(S)
  <1>1. n \in Nat /\ ExistsBijection(1..n, S)
    BY FS_CardinalityType
  <1>2. PICK g \in Bijection(1..n, S) : TRUE
    BY <1>1 DEF ExistsBijection
  <1>3. g \in [1..n -> S] /\ IsInjective(g)
    BY <1>2 DEF Bijection, Injection, IsInjective
  <1>4. SetToSeq(S) \in [1..n -> S] /\ IsInjective(SetToSeq(S))
    BY <1>3 DEF SetToSeq
  <1>5. SetToSeq(S) \in Injection(1..n, S)
    BY <1>4 DEF Injection, IsInjective
  <1>6. IsFiniteSet(1..n) /\ Cardinality(1..n) = n
    BY <1>1, FS_Interval
  <1>7. SetToSeq(S) \in Surjection(1..n, S)
    BY <1>5, <1>6, FS_Injection
  <1> QED
    BY <1>1, <1>4, <1>7 DEF IsInjective, Surjection

-------------------------------------------------------------------------------
(* Lists of boxes *)

\* A reported box.
Box == [x1 : Int, y1 : Int, x2 : Int, y2 : Int, conf : Int]

\* What is known of every list of boxes.
LEMMA BoxesTyped ==
    ASSUME NEW bs \in Seq(Box)
    PROVE  /\ Len(bs) \in Nat /\ DOMAIN bs = 1..Len(bs)
           /\ \A i \in DOMAIN bs : bs[i] \in Box /\ bs[i].conf \in Int
  <1>1. Len(bs) \in Nat /\ DOMAIN bs = 1..Len(bs)
    OBVIOUS
  <1>2. \A i \in DOMAIN bs : bs[i] \in Box
    BY <1>1
  <1> QED
    BY <1>1, <1>2 DEF Box

\* Some box of a set is before all others.
LEMMA FirstExists ==
    ASSUME NEW bs \in Seq(Box), NEW S \in SUBSET DOMAIN bs, S # {}
    PROVE  \E i \in S : \A j \in S \ {i} : Before(bs, i, j)
  <1>1. /\ Len(bs) \in Nat /\ DOMAIN bs = 1..Len(bs)
        /\ \A i \in DOMAIN bs : bs[i].conf \in Int
    BY BoxesTyped
  <1> DEFINE Least(U, i) == i \in U /\ \A j \in U \ {i} : Before(bs, i, j)
             T == {n \in 0..Len(bs) : S \cap 1..n = {} \/ \E i \in S : Least(S \cap 1..n, i)}
  <1>2. 0 \in T
    <2>1. S \cap 1..0 = {} /\ 0 \in 0..Len(bs)
      BY <1>1
    <2> HIDE DEF Least
    <2> QED
      BY <2>1
  <1>3. ASSUME NEW n \in 1..Len(bs), n - 1 \in T
        PROVE  n \in T
    <2>1. S \cap 1..n = (S \cap 1..(n - 1)) \cup (S \cap {n})
      OBVIOUS
    <2>2. CASE n \notin S
      <3>1. S \cap 1..n = S \cap 1..(n - 1)
        BY <2>1, <2>2
      <3> QED
        BY <1>3, <3>1
    <2>3. CASE n \in S /\ S \cap 1..(n - 1) = {}
      <3>1. S \cap 1..n = {n}
        BY <2>1, <2>3
      <3> QED
        BY <2>3, <3>1
    <2>4. CASE n \in S /\ S \cap 1..(n - 1) # {}
      <3>1. PICK i \in S : Least(S \cap 1..(n - 1), i)
        BY <1>3, <2>4
      <3>2. i \in 1..(n - 1) /\ i \in DOMAIN bs /\ n \in DOMAIN bs
        BY <1>1, <3>1
      <3>3. CASE bs[n].conf > bs[i].conf
        <4>1. ASSUME NEW j \in (S \cap 1..n) \ {n}
              PROVE  Before(bs, n, j)
          <5>1. j \in S \cap 1..(n - 1) /\ j \in DOMAIN bs
            BY <1>1, <2>1
          <5>2. j = i \/ Before(bs, i, j)
            BY <3>1, <5>1
          <5>3. bs[j].conf \in Int /\ bs[i].conf \in Int /\ bs[n].conf \in Int
            BY <1>1, <3>2, <5>1
          <5>4. bs[i].conf >= bs[j].conf
            BY <5>2, <5>3 DEF Before
          <5> QED
            BY <3>3, <5>3, <5>4 DEF Before
        <4>2. n \in S \cap 1..n
          BY <2>4
        <4>3. Least(S \cap 1..n, n)
          BY <4>1, <4>2
        <4> HIDE DEF Least
        <4> QED
          BY <2>4, <4>3
      <3>4. CASE ~(bs[n].conf > bs[i].conf)
        <4>1. Least(S \cap 1..n, i)
          BY <1>1, <2>1, <2>4, <3>1, <3>2, <3>4 DEF Before
        <4> QED
          BY <4>1
      <3> QED
        BY <3>3, <3>4
    <2> QED
      BY <2>2, <2>3, <2>4
  <1> HIDE DEF T
  <1>4. \A n \in 1..Len(bs) : n - 1 \in T => n \in T
    BY <1>3
  <1>a. 0..Len(bs) \subseteq T
    BY <1>1, <1>2, <1>4, UpTo
  <1>5. Len(bs) \in T
    BY <1>1, <1>a
  <1>6. S \cap 1..Len(bs) = S
    BY <1>1
  <1> QED
    BY <1>5, <1>6 DEF T

-------------------------------------------------------------------------------
(* Non-maximum suppression *)

\* Box k is reason enough to leave out box b.
Stands(k, b) == k.conf >= b.conf /\ (k = b \/ Same(k, b))

\* The states of the loop of _nms.
States(bs) == [left : SUBSET DOMAIN bs, keep : Seq(Box)]

\* A round keeps the first box left and takes away those like it.
LEMMA KeepFirstType ==
    ASSUME NEW bs \in Seq(Box), NEW st \in States(bs), st.left # {}
    PROVE  \E best \in st.left :
              /\ \A j \in st.left \ {best} : Before(bs, best, j)
              /\ KeepFirst(bs, st) =
                    [left |-> {j \in st.left : j # best /\ ~Same(bs[best], bs[j])},
                     keep |-> Append(st.keep, bs[best])]
  <1> DEFINE best == CHOOSE i \in st.left : \A j \in st.left \ {i} : Before(bs, i, j)
  <1>1. st.left \in SUBSET DOMAIN bs
    BY DEF States
  <1>2. best \in st.left /\ \A j \in st.left \ {best} : Before(bs, best, j)
    BY <1>1, FirstExists
  <1>3. KeepFirst(bs, st) = [left |-> {j \in st.left : j # best /\ ~Same(bs[best], bs[j])},
                             keep |-> Append(st.keep, bs[best])]
    BY DEF KeepFirst
  <1> HIDE DEF best
  <1> QED
    BY <1>2, <1>3

\* A round ends in a state of the loop.
LEMMA KeepFirstStates ==
    ASSUME NEW bs \in Seq(Box), NEW st \in States(bs)
    PROVE  KeepFirst(bs, st) \in States(bs)
  <1>1. CASE st.left = {}
    BY <1>1 DEF KeepFirst
  <1>2. CASE st.left # {}
    <2>1. PICK best \in st.left :
              KeepFirst(bs, st) =
                    [left |-> {j \in st.left : j # best /\ ~Same(bs[best], bs[j])},
                     keep |-> Append(st.keep, bs[best])]
      BY <1>2, KeepFirstType
    <2>2. best \in DOMAIN bs /\ bs[best] \in Box /\ st.keep \in Seq(Box)
      BY DEF States
    <2>3. Append(st.keep, bs[best]) \in Seq(Box)
      BY <2>2
    <2> QED
      BY <2>1, <2>3 DEF States
  <1> QED
    BY <1>1, <1>2

\* What the kept boxes are at any time of the loop.
Kept(bs, st) ==
    /\ \A k \in DOMAIN st.keep : \E i \in DOMAIN bs : st.keep[k] = bs[i]
    /\ \A i \in DOMAIN bs \ st.left : \E k \in DOMAIN st.keep : Stands(st.keep[k], bs[i])

\* A round leaves no box out that does not give way to a better one.
LEMMA KeepFirstKeeps ==
    ASSUME NEW bs \in Seq(Box), NEW st \in States(bs), Kept(bs, st)
    PROVE  Kept(bs, KeepFirst(bs, st))
  <1>1. CASE st.left = {}
    BY <1>1 DEF KeepFirst
  <1>2. CASE st.left # {}
    <2>1. PICK best \in st.left :
              /\ \A j \in st.left \ {best} : Before(bs, best, j)
              /\ KeepFirst(bs, st) =
                    [left |-> {j \in st.left : j # best /\ ~Same(bs[best], bs[j])},
                     keep |-> Append(st.keep, bs[best])]
      BY <1>2, KeepFirstType
    <2> DEFINE new == KeepFirst(bs, st)
    <2>2. best \in DOMAIN bs /\ bs[best] \in Box /\ st.keep \in Seq(Box)
      BY DEF States
    <2>3. /\ Len(st.keep) \in Nat
          /\ DOMAIN st.keep = 1..Len(st.keep)
          /\ new.keep = Append(st.keep, bs[best])
          /\ DOMAIN new.keep = 1..(Len(st.keep) + 1)
          /\ new.keep[Len(st.keep) + 1] = bs[best]
          /\ \A k \in DOMAIN st.keep : k \in DOMAIN new.keep /\ new.keep[k] = st.keep[k]
      BY <2>1, <2>2
    <2>4. new.left = {j \in st.left : j # best /\ ~Same(bs[best], bs[j])}
      BY <2>1
    <2> HIDE DEF new
    <2>5. ASSUME NEW k \in DOMAIN new.keep
          PROVE  \E i \in DOMAIN bs : new.keep[k] = bs[i]
      <3>1. CASE k = Len(st.keep) + 1
        BY <2>2, <2>3, <3>1
      <3>2. CASE k # Len(st.keep) + 1
        <4>1. k \in DOMAIN st.keep
          BY <2>3, <3>2
        <4> QED
          BY <2>3, <4>1 DEF Kept
      <3> QED
        BY <3>1, <3>2
    <2>6. ASSUME NEW i \in DOMAIN bs \ new.left
          PROVE  \E k \in DOMAIN new.keep : Stands(new.keep[k], bs[i])
      <3>1. CASE i \notin st.left
        BY <2>3, <3>1 DEF Kept
      <3>2. CASE i \in st.left
        <4>1. i = best \/ Same(bs[best], bs[i])
          BY <2>4, <3>2 DEF Same
        <4>2. bs[best].conf >= bs[i].conf
          <5>1. bs[best].conf \in Int /\ bs[i].conf \in Int
            BY <2>2, BoxesTyped
          <5> QED
            BY <2>1, <3>2, <5>1 DEF Before
        <4>3. Stands(bs[best], bs[i])
          BY <4>1, <4>2 DEF Stands
        <4>4. Len(st.keep) + 1 \in DOMAIN new.keep
          BY <2>3
        <4> QED
          BY <2>3, <4>3, <4>4
      <3> QED
        BY <3>1, <3>2
    <2> QED
      BY <2>5, <2>6 DEF Kept, new
  <1> QED
    BY <1>1, <1>2

\* Every round takes away a box.
LEMMA KeepFirstShrinks ==
    ASSUME NEW bs \in Seq(Box), NEW st \in States(bs), NEW n \in Nat,
           IsFiniteSet(st.left), Cardinality(st.left) <= n + 1
    PROVE  IsFiniteSet(KeepFirst(bs, st).left) /\ Cardinality(KeepFirst(bs, st).left) <= n
  <1>1. CASE st.left = {}
    <2>1. KeepFirst(bs, st).left = {}
      BY <1>1 DEF KeepFirst
    <2> QED
      BY <2>1, FS_EmptySet
  <1>2. CASE st.left # {}
    <2>1. PICK best \in st.left :
              KeepFirst(bs, st) =
                    [left |-> {j \in st.left : j # best /\ ~Same(bs[best], bs[j])},
                     keep |-> Append(st.keep, bs[best])]
      BY <1>2, KeepFirstType
    <2>2. KeepFirst(bs, st).left \in SUBSET (st.left \ {best})
      BY <2>1
    <2>a. Cardinality(st.left) \in Nat
      BY FS_CardinalityType
    <2>b. /\ IsFiniteSet(st.left \ {best})
          /\ Cardinality(st.left \ {best}) = Cardinality(st.left) - 1
      BY FS_RemoveElement
    <2>3. IsFiniteSet(st.left \ {best}) /\ Cardinality(st.left \ {best}) <= n
      BY <2>a, <2>b
    <2>4. /\ IsFiniteSet(KeepFirst(bs, st).left)
          /\ Cardinality(KeepFirst(bs, st).left) <= Cardinality(st.left \ {best})
      BY <2>2, <2>3, FS_Subset
    <2> QED
      BY <2>3, <2>4, FS_CardinalityType
  <1> QED
    BY <1>1, <1>2

\* Every box that is left out gives way to one at least as good that is like it.
LEMMA NMSKeeps ==
    ASSUME NEW bs \in Seq(Box)
    PROVE  /\ NMS(bs) \in Seq(Box)
           /\ \A k \in DOMAIN NMS(bs) : \E i \in DOMAIN bs : NMS(bs)[k] = bs[i]
           /\ \A i \in DOMAIN bs : \E k \in DOMAIN NMS(bs) : Stands(NMS(bs)[k], bs[i])
  <1> DEFINE N == Len(bs)
             base == [left |-> DOMAIN bs, keep |-> <<>>]
             V == States(bs)
             G == [n \in 1..N |-> [st \in V |-> KeepFirst(bs, st)]]
             round == CHOOSE g : g = [n \in 0..N |-> IF n = 0 THEN base
                                                     ELSE KeepFirst(bs, g[n - 1])]
  <1>1. N \in Nat /\ DOMAIN bs = 1..N
    OBVIOUS
  <1>2. base \in V
    BY DEF States
  <1>3. G \in [1..N -> [V -> V]]
    BY KeepFirstStates
  <1>4. PICK f : IsRun(f, N, V, base, G)
    <2>1. N \in Nat
      BY <1>1
    <2> HIDE DEF N, base, V, G
    <2> QED
      BY <1>2, <1>3, <2>1, LoopRuns
  <1>a. f \in [0..N -> V] /\ f[0] = base /\ \A n \in 1..N : f[n] = G[n][f[n - 1]]
    BY <1>4 DEF IsRun
  <1>5. \A n \in 1..N : f[n] = KeepFirst(bs, f[n - 1])
    <2> TAKE n \in 1..N
    <2>1. f[n - 1] \in V
      BY <1>1, <1>a
    <2> QED
      BY <1>a, <2>1
  <1>6. f = [n \in 0..N |-> IF n = 0 THEN base ELSE KeepFirst(bs, f[n - 1])]
    BY <1>1, <1>5, <1>a
  <1>7. round = [n \in 0..N |-> IF n = 0 THEN base ELSE KeepFirst(bs, round[n - 1])]
    BY <1>6
  <1>8. NMS(bs) = round[N].keep
    BY DEF NMS
  <1> HIDE DEF round, base, G
  <1>9. /\ round[0] = base
        /\ \A n \in 1..N : round[n] = KeepFirst(bs, round[n - 1])
    BY <1>1, <1>7
  <1> DEFINE T == {n \in 0..N : /\ round[n] \in V
                                /\ Kept(bs, round[n])
                                /\ IsFiniteSet(round[n].left)
                                /\ Cardinality(round[n].left) <= N - n}
  <1>10. 0 \in T
    <2>1. IsFiniteSet(DOMAIN bs) /\ Cardinality(DOMAIN bs) = N
      <3>1. IsFiniteSet(1..N) /\ Cardinality(1..N) = IF 1 > N THEN 0 ELSE N - 1 + 1
        BY <1>1, FS_Interval
      <3> QED
        BY <1>1, <3>1
    <2>2. Kept(bs, base)
      BY DEF Kept, base
    <2>3. base.left = DOMAIN bs
      BY DEF base
    <2>4. N <= N - 0
      BY <1>1
    <2> QED
      BY <1>1, <1>2, <1>9, <2>1, <2>2, <2>3, <2>4
  <1>11. \A n \in 1..N : n - 1 \in T => n \in T
    <2> SUFFICES ASSUME NEW n \in 1..N, n - 1 \in T
                 PROVE  n \in T
      OBVIOUS
    <2> DEFINE st == round[n - 1]
    <2>1. /\ st \in V /\ Kept(bs, st) /\ IsFiniteSet(st.left)
          /\ Cardinality(st.left) <= N - (n - 1)
      OBVIOUS
    <2>2. round[n] = KeepFirst(bs, st)
      BY <1>9
    <2> HIDE DEF st
    <2>3. N - n \in Nat /\ Cardinality(st.left) <= (N - n) + 1
      BY <1>1, <2>1
    <2>4. KeepFirst(bs, st) \in V /\ Kept(bs, KeepFirst(bs, st))
      BY <2>1, KeepFirstStates, KeepFirstKeeps
    <2>5. /\ IsFiniteSet(KeepFirst(bs, st).left)
          /\ Cardinality(KeepFirst(bs, st).left) <= N - n
      BY <2>1, <2>3, KeepFirstShrinks
    <2> QED
      BY <1>1, <2>2, <2>4, <2>5
  <1>12. N \in T
    <2> HIDE DEF T
    <2>1. 0..N \subseteq T
      BY <1>1, <1>10, <1>11, UpTo
    <2> QED
      BY <1>1, <2>1
  <1>13. round[N] \in States(bs) /\ Kept(bs, round[N]) /\ round[N].left = {}
    <2>1. IsFiniteSet(round[N].left) /\ Cardinality(round[N].left) <= 0
      BY <1>1, <1>12
    <2>2. round[N].left = {}
      BY <2>1, FS_CardinalityType, FS_EmptySet
    <2> QED
      BY <1>12, <2>2
  <1> QED
    BY <1>8, <1>13 DEF Kept, States

-------------------------------------------------------------------------------
(* The merge of the vehicles' plates *)

\* The clusters of the boxes, by their roots.
Roots(bs) == [DOMAIN bs -> DOMAIN bs]

\* The boxes up to n are joined with all that are close to them.
Linked(bs, root, n) ==
    \A i \in 1..n, j \in DOMAIN bs : i < j /\ Close(bs[i], bs[j]) => root[i] = root[j]

\* A row of the pairs joins its box with all that are close, and parts none.
LEMMA JoinedLinks ==
    ASSUME NEW bs \in Seq(Box), NEW n \in 1..Len(bs), NEW root \in Roots(bs),
           Linked(bs, root, n - 1)
    PROVE  Joined(bs, root, n) \in Roots(bs) /\ Linked(bs, Joined(bs, root, n), n)
  <1> DEFINE new == Joined(bs, root, n)
             Moved(k) == \E j \in Near(bs, n) : root[k] = root[j]
  <1>1. Len(bs) \in Nat /\ DOMAIN bs = 1..Len(bs) /\ n \in DOMAIN bs
    BY BoxesTyped
  <1>2. \A k \in DOMAIN bs : new[k] = IF Moved(k) THEN root[n] ELSE root[k]
    BY DEF Joined
  <1>3. new \in Roots(bs)
    <2>1. \A k \in DOMAIN bs : root[k] \in DOMAIN bs
      BY DEF Roots
    <2> QED
      BY <1>1, <2>1 DEF Joined, Roots
  <1>4. \A i, j \in DOMAIN bs : root[i] = root[j] => new[i] = new[j]
    <2> SUFFICES ASSUME NEW i \in DOMAIN bs, NEW j \in DOMAIN bs, root[i] = root[j]
                 PROVE  new[i] = new[j]
      OBVIOUS
    <2>1. Moved(i) <=> Moved(j)
      OBVIOUS
    <2> HIDE DEF Moved, new
    <2> QED
      BY <1>2, <2>1
  <1>5. \A j \in Near(bs, n) : j \in DOMAIN bs /\ new[j] = root[n]
    <2> TAKE j \in Near(bs, n)
    <2>1. j \in DOMAIN bs /\ Moved(j)
      BY DEF Near
    <2> HIDE DEF Moved, new
    <2> QED
      BY <1>2, <2>1
  <1>6. n \in Near(bs, n)
    BY <1>1 DEF Near
  <1> HIDE DEF new, Moved
  <1>7. Linked(bs, new, n)
    <2> SUFFICES ASSUME NEW i \in 1..n, NEW j \in DOMAIN bs, i < j, Close(bs[i], bs[j])
                 PROVE  new[i] = new[j]
      BY DEF Linked
    <2>1. CASE i = n
      <3>1. j \in Near(bs, n)
        BY <2>1 DEF Near
      <3> QED
        BY <1>5, <1>6, <2>1, <3>1
    <2>2. CASE i # n
      <3>1. i \in 1..(n - 1) /\ i \in DOMAIN bs
        BY <1>1, <2>2
      <3>2. root[i] = root[j]
        BY <3>1 DEF Linked
      <3> QED
        BY <1>4, <3>1, <3>2
    <2> QED
      BY <2>1, <2>2
  <1> QED
    BY <1>3, <1>7 DEF new

\* Close is symmetric, so that the pairs (i, j) with i < j are enough.
LEMMA CloseIsMutual ==
    ASSUME NEW a \in Box, NEW b \in Box, Close(a, b)
    PROVE  Close(b, a)
  <1> DEFINE diag2(c) == (c.x2 - c.x1) * (c.x2 - c.x1) + (c.y2 - c.y1) * (c.y2 - c.y1)
             dx(p, q) == (p.x1 + p.x2) - (q.x1 + q.x2)
             dy(p, q) == (p.y1 + p.y2) - (q.y1 + q.y2)
  <1>1. \A p \in Box : p.x1 \in Int /\ p.y1 \in Int /\ p.x2 \in Int /\ p.y2 \in Int
    BY DEF Box
  <1>2. /\ dx(a, b) \in Int /\ dy(a, b) \in Int /\ dx(b, a) = -dx(a, b) /\ dy(b, a) = -dy(a, b)
    BY <1>1
  <1>3. \A x \in Int : (-x) * (-x) = x * x
    OBVIOUS
  <1>4. dx(b, a) * dx(b, a) + dy(b, a) * dy(b, a) = dx(a, b) * dx(a, b) + dy(a, b) * dy(a, b)
    <2> HIDE DEF dx, dy
    <2> QED
      BY <1>2, <1>3
  <1>5. diag2(a) \in Int /\ diag2(b) \in Int
    BY <1>1
  <1>6. Upper(diag2(a), diag2(b)) = Upper(diag2(b), diag2(a))
    <2> HIDE DEF diag2
    <2> QED
      BY <1>5 DEF Upper
  <1>7. Close(a, b) <=> dx(a, b) * dx(a, b) + dy(a, b) * dy(a, b)
                           < 16 * Upper(diag2(a), diag2(b))
    BY DEF Close
  <1>8. Close(b, a) <=> dx(b, a) * dx(b, a) + dy(b, a) * dy(b, a)
                           < 16 * Upper(diag2(b), diag2(a))
    BY DEF Close
  <1> QED
    BY <1>4, <1>6, <1>7, <1>8

\* No two of the merged boxes are close, and none of the boxes was better than all of them.
LEMMA MergeKeeps ==
    ASSUME NEW bs \in Seq(Box)
    PROVE  /\ MergeVehiclePlates(bs) \in Seq(Box)
           /\ \A i, j \in DOMAIN MergeVehiclePlates(bs) :
                 i # j => ~Close(MergeVehiclePlates(bs)[i], MergeVehiclePlates(bs)[j])
           /\ \A i \in DOMAIN bs : \E k \in DOMAIN MergeVehiclePlates(bs) :
                 MergeVehiclePlates(bs)[k].conf >= bs[i].conf
  <1> DEFINE N == Len(bs)
             base == [i \in DOMAIN bs |-> i]
             V == Roots(bs)
             G == [n \in 1..N |-> [r \in V |-> Joined(bs, r, n)]]
             root == CHOOSE g : g = [n \in 0..N |-> IF n = 0 THEN base
                                                    ELSE Joined(bs, g[n - 1], n)]
             final == root[N]
             cluster(i) == {j \in DOMAIN bs : final[j] = final[i]}
             keep == {i \in DOMAIN bs : \A j \in cluster(i) \ {i} : Before(bs, i, j)}
             out == [n \in 1..Cardinality(keep) |-> bs[SetToSeq(keep)[n]]]
  <1>1. /\ N \in Nat /\ DOMAIN bs = 1..N
        /\ \A i \in DOMAIN bs : bs[i] \in Box /\ bs[i].conf \in Int
    BY BoxesTyped
  <1>2. base \in V
    BY DEF Roots
  <1>3. \A n \in 1..N, r \in V : Joined(bs, r, n) \in V
    <2> TAKE n \in 1..N, r \in V
    <2>1. \A k \in DOMAIN bs : r[k] \in DOMAIN bs
      BY DEF Roots
    <2> QED
      BY <1>1, <2>1 DEF Joined, Roots
  <1>4. G \in [1..N -> [V -> V]]
    BY <1>3
  <1>5. PICK f : IsRun(f, N, V, base, G)
    <2>1. N \in Nat
      BY <1>1
    <2> HIDE DEF N, base, V, G
    <2> QED
      BY <1>2, <1>4, <2>1, LoopRuns
  <1>6. f \in [0..N -> V] /\ f[0] = base /\ \A n \in 1..N : f[n] = G[n][f[n - 1]]
    BY <1>5 DEF IsRun
  <1>7. \A n \in 1..N : f[n] = Joined(bs, f[n - 1], n)
    <2> TAKE n \in 1..N
    <2>1. f[n - 1] \in V
      BY <1>1, <1>6
    <2> QED
      BY <1>6, <2>1
  <1>8. f = [n \in 0..N |-> IF n = 0 THEN base ELSE Joined(bs, f[n - 1], n)]
    BY <1>1, <1>6, <1>7
  <1>9. root = [n \in 0..N |-> IF n = 0 THEN base ELSE Joined(bs, root[n - 1], n)]
    BY <1>8
  <1>10. MergeVehiclePlates(bs) = out
    BY DEF MergeVehiclePlates
  <1> HIDE DEF root, base, G
  <1>11. root[0] = base /\ \A n \in 1..N : root[n] = Joined(bs, root[n - 1], n)
    BY <1>1, <1>9
  <1> DEFINE T == {n \in 0..N : root[n] \in V /\ Linked(bs, root[n], n)}
  <1>12. 0 \in T
    <2>1. Linked(bs, base, 0)
      BY DEF Linked
    <2> QED
      BY <1>1, <1>2, <1>11, <2>1
  <1>13. \A n \in 1..N : n - 1 \in T => n \in T
    BY <1>1, <1>11, JoinedLinks
  <1>14. final \in V /\ Linked(bs, final, N)
    <2> HIDE DEF T
    <2>1. 0..N \subseteq T
      BY <1>1, <1>12, <1>13, UpTo
    <2>2. N \in T
      BY <1>1, <2>1
    <2> QED
      BY <2>2 DEF T
  <1> HIDE DEF final
  <1>15. \A i, j \in DOMAIN bs : i # j /\ Close(bs[i], bs[j]) => final[i] = final[j]
    <2> SUFFICES ASSUME NEW i \in DOMAIN bs, NEW j \in DOMAIN bs, i # j, Close(bs[i], bs[j])
                 PROVE  final[i] = final[j]
      OBVIOUS
    <2>1. Close(bs[j], bs[i])
      BY <1>1, CloseIsMutual
    <2> QED
      BY <1>1, <1>14, <2>1 DEF Linked
  <1>16. IsFiniteSet(keep) /\ keep \subseteq DOMAIN bs
    <2>1. IsFiniteSet(DOMAIN bs)
      BY <1>1, FS_Interval
    <2>2. keep \in SUBSET DOMAIN bs
      OBVIOUS
    <2> HIDE DEF keep
    <2> QED
      BY <2>1, <2>2, FS_Subset
  <1>17. /\ Cardinality(keep) \in Nat
         /\ SetToSeq(keep) \in [1..Cardinality(keep) -> keep]
         /\ \A a, b \in 1..Cardinality(keep) : SetToSeq(keep)[a] = SetToSeq(keep)[b] => a = b
         /\ \A x \in keep : \E n \in 1..Cardinality(keep) : SetToSeq(keep)[n] = x
    <2> HIDE DEF keep
    <2> QED
      BY <1>16, ListOf
  <1>18. \A i, j \in keep : i # j => final[i] # final[j]
    <2> SUFFICES ASSUME NEW i \in keep, NEW j \in keep, i # j, final[i] = final[j]
                 PROVE  FALSE
      OBVIOUS
    <2>1. Before(bs, i, j) /\ Before(bs, j, i)
      OBVIOUS
    <2>2. bs[i].conf \in Int /\ bs[j].conf \in Int /\ i \in Nat /\ j \in Nat
      BY <1>1
    <2> QED
      BY <2>1, <2>2 DEF Before
  <1>19. \A i \in DOMAIN bs : \E k \in keep : bs[k].conf >= bs[i].conf
    <2> TAKE i \in DOMAIN bs
    <2>1. cluster(i) \in SUBSET DOMAIN bs /\ i \in cluster(i)
      OBVIOUS
    <2>2. PICK k \in cluster(i) : \A j \in cluster(i) \ {k} : Before(bs, k, j)
      <3> HIDE DEF cluster
      <3> QED
        BY <2>1, FirstExists
    <2>3. cluster(k) = cluster(i) /\ k \in DOMAIN bs
      OBVIOUS
    <2>4. k \in keep
      BY <2>2, <2>3
    <2>5. k = i \/ Before(bs, k, i)
      BY <2>1, <2>2
    <2>6. bs[k].conf >= bs[i].conf
      BY <1>1, <2>3, <2>5 DEF Before
    <2> QED
      BY <2>4, <2>6
  <1> HIDE DEF keep, cluster
  <1>20. out \in Seq(Box) /\ DOMAIN out = 1..Cardinality(keep)
    BY <1>1, <1>16, <1>17
  <1>21. ASSUME NEW i \in DOMAIN out, NEW j \in DOMAIN out, i # j
         PROVE  ~Close(out[i], out[j])
    <2> DEFINE a == SetToSeq(keep)[i]
               b == SetToSeq(keep)[j]
    <2>1. a \in keep /\ b \in keep /\ a # b
      BY <1>17, <1>20, <1>21
    <2>2. a \in DOMAIN bs /\ b \in DOMAIN bs /\ out[i] = bs[a] /\ out[j] = bs[b]
      BY <1>16, <1>20, <2>1
    <2> HIDE DEF a, b
    <2> QED
      BY <1>15, <1>18, <2>1, <2>2
  <1>22. ASSUME NEW i \in DOMAIN bs
         PROVE  \E k \in DOMAIN out : out[k].conf >= bs[i].conf
    <2>1. PICK k \in keep : bs[k].conf >= bs[i].conf
      BY <1>19
    <2>2. PICK n \in 1..Cardinality(keep) : SetToSeq(keep)[n] = k
      BY <1>17
    <2> QED
      BY <1>20, <2>1, <2>2
  <1> QED
    BY <1>10, <1>20, <1>21, <1>22

-------------------------------------------------------------------------------
(* The tiles *)

\* The scanned tiles are those of the grid that are no slivers.
LEMMA ScannedTiles ==
    ASSUME NEW grid \in Seq(Rect)
    PROVE  /\ Scanned(grid) \in Seq(Rect)
           /\ \A t \in Range(Scanned(grid)) : ~IsSliver(t) /\ t \in Range(grid)
           /\ \A t \in Range(grid) : ~IsSliver(t) => t \in Range(Scanned(grid))
  <1> DEFINE N == Len(grid)
             V == Seq(Rect)
             After(n, ts) == IF IsSliver(grid[n]) THEN ts ELSE Append(ts, grid[n])
             G == [n \in 1..N |-> [ts \in V |-> After(n, ts)]]
             upTo == CHOOSE g : g = [n \in 0..N |-> IF n = 0 THEN <<>>
                         ELSE IF IsSliver(grid[n]) THEN g[n - 1] ELSE Append(g[n - 1], grid[n])]
  <1>1. N \in Nat /\ DOMAIN grid = 1..N /\ \A n \in 1..N : grid[n] \in Rect
    OBVIOUS
  <1>2. <<>> \in V
    OBVIOUS
  <1>3. G \in [1..N -> [V -> V]]
    BY <1>1
  <1>4. PICK f : IsRun(f, N, V, <<>>, G)
    <2>1. N \in Nat
      BY <1>1
    <2> HIDE DEF N, V, G
    <2> QED
      BY <1>2, <1>3, <2>1, LoopRuns
  <1>5. f \in [0..N -> V] /\ f[0] = <<>> /\ \A n \in 1..N : f[n] = G[n][f[n - 1]]
    BY <1>4 DEF IsRun
  <1>6. \A n \in 1..N : f[n] = After(n, f[n - 1])
    <2> TAKE n \in 1..N
    <2>1. f[n - 1] \in V
      <3> HIDE DEF V, G
      <3> QED
        BY <1>1, <1>5
    <2> QED
      BY <1>5, <2>1
  <1>7. f = [n \in 0..N |-> IF n = 0 THEN <<>> ELSE After(n, f[n - 1])]
    <2> HIDE DEF After
    <2> QED
      BY <1>1, <1>5, <1>6
  <1>8. upTo = [n \in 0..N |-> IF n = 0 THEN <<>> ELSE After(n, upTo[n - 1])]
    BY <1>7
  <1>9. Scanned(grid) = upTo[N]
    BY DEF Scanned
  <1> HIDE DEF upTo, G, After
  <1>10. upTo[0] = <<>> /\ \A n \in 1..N : upTo[n] = After(n, upTo[n - 1])
    BY <1>1, <1>8
  <1> DEFINE Good(n, ts) ==
                 /\ \A i \in DOMAIN ts : ~IsSliver(ts[i]) /\ \E k \in 1..n : ts[i] = grid[k]
                 /\ \A k \in 1..n : ~IsSliver(grid[k]) => \E i \in DOMAIN ts : ts[i] = grid[k]
             T == {n \in 0..N : upTo[n] \in V /\ Good(n, upTo[n])}
  <1>11. 0 \in T
    <2>1. Good(0, <<>>)
      OBVIOUS
    <2> HIDE DEF Good, V
    <2> QED
      BY <1>1, <1>2, <1>10, <2>1
  <1>12. ASSUME NEW n \in 1..N, n - 1 \in T
         PROVE  n \in T
    <2> DEFINE ts == upTo[n - 1]
    <2>1. ts \in V /\ Good(n - 1, ts) /\ upTo[n] = After(n, ts) /\ grid[n] \in Rect
      BY <1>1, <1>10, <1>12
    <2> HIDE DEF ts
    <2>2. CASE IsSliver(grid[n])
      <3>1. upTo[n] = ts
        BY <2>1, <2>2 DEF After
      <3>2. Good(n, ts)
        BY <2>1, <2>2
      <3>3. n \in 0..N
        BY <1>1
      <3> HIDE DEF Good, V
      <3> QED
        BY <2>1, <3>1, <3>2, <3>3
    <2>3. CASE ~IsSliver(grid[n])
      <3> DEFINE new == Append(ts, grid[n])
      <3>1. /\ new \in V /\ Len(ts) \in Nat /\ DOMAIN ts = 1..Len(ts)
            /\ DOMAIN new = 1..(Len(ts) + 1) /\ new[Len(ts) + 1] = grid[n]
            /\ \A i \in DOMAIN ts : i \in DOMAIN new /\ new[i] = ts[i]
        BY <2>1
      <3>2. upTo[n] = new
        BY <2>1, <2>3 DEF After
      <3> HIDE DEF new
      <3>3. ASSUME NEW i \in DOMAIN new
            PROVE  ~IsSliver(new[i]) /\ \E k \in 1..n : new[i] = grid[k]
        <4>1. CASE i = Len(ts) + 1
          BY <2>3, <3>1, <4>1
        <4>2. CASE i # Len(ts) + 1
          <5>1. i \in DOMAIN ts
            BY <3>1, <4>2
          <5> QED
            BY <2>1, <3>1, <5>1
        <4> QED
          BY <4>1, <4>2
      <3>4. ASSUME NEW k \in 1..n, ~IsSliver(grid[k])
            PROVE  \E i \in DOMAIN new : new[i] = grid[k]
        <4>1. CASE k = n
          <5>1. Len(ts) + 1 \in DOMAIN new
            BY <3>1
          <5> QED
            BY <3>1, <4>1, <5>1
        <4>2. CASE k # n
          <5>1. k \in 1..(n - 1)
            BY <4>2
          <5> QED
            BY <2>1, <3>1, <3>4, <5>1
        <4> QED
          BY <4>1, <4>2
      <3>5. Good(n, new)
        BY <3>3, <3>4
      <3> HIDE DEF Good
      <3> QED
        BY <1>1, <3>1, <3>2, <3>5
    <2> QED
      BY <2>2, <2>3
  <1>13. upTo[N] \in V /\ Good(N, upTo[N])
    <2>1. \A n \in 1..N : n - 1 \in T => n \in T
      BY <1>12
    <2> HIDE DEF T
    <2>2. 0..N \subseteq T
      BY <1>1, <1>11, <2>1, UpTo
    <2>3. N \in T
      BY <1>1, <2>2
    <2> QED
      BY <2>3 DEF T
  <1> DEFINE ts == upTo[N]
  <1>14. \A t \in Range(ts) : ~IsSliver(t) /\ t \in Range(grid)
    <2> TAKE t \in Range(ts)
    <2>1. PICK i \in DOMAIN ts : t = ts[i]
      BY DEF Range
    <2>2. ~IsSliver(ts[i]) /\ \E k \in 1..N : ts[i] = grid[k]
      BY <1>13, <2>1
    <2> QED
      BY <1>1, <2>1, <2>2 DEF Range
  <1>15. \A t \in Range(grid) : ~IsSliver(t) => t \in Range(ts)
    <2> SUFFICES ASSUME NEW t \in Range(grid), ~IsSliver(t)
                 PROVE  t \in Range(ts)
      OBVIOUS
    <2>1. PICK k \in 1..N : t = grid[k]
      BY <1>1 DEF Range
    <2>2. PICK i \in DOMAIN ts : ts[i] = grid[k]
      BY <1>13, <2>1
    <2> QED
      BY <2>1, <2>2 DEF Range
  <1> QED
    BY <1>9, <1>13, <1>14, <1>15

\* The tile in column k and row r.
Tile(k, r) == [x1 |-> Stride * k, y1 |-> Stride * r,
               x2 |-> Lower(Stride * k + TileSize, scene.w),
               y2 |-> Lower(Stride * r + TileSize, scene.h)]
Cols == (scene.w - 1) \div Stride + 1
Rows == (scene.h - 1) \div Stride + 1

\* The stride is a proper one: range() with stride 0 raises.
LEMMA StrideType == Stride \in Nat \ {0} /\ Stride <= TileSize /\ TileSize \in Nat \ {0}
  <1>1. TileSize \in Nat \ {0} /\ Overlap \in 1..99 /\ TileSize * (100 - Overlap) >= 100
    BY DetectorAssumption
  <1>2. TileSize * (100 - Overlap) <= TileSize * 100 /\ TileSize * (100 - Overlap) \in Int
    BY <1>1
  <1> DEFINE a == TileSize * (100 - Overlap)
  <1>3. a \in Int /\ a >= 100 /\ a <= TileSize * 100
    BY <1>1, <1>2
  <1> HIDE DEF a
  <1>4. a \div 100 \in Int /\ a \div 100 >= 1 /\ a \div 100 <= TileSize
    BY <1>1, <1>3
  <1> QED
    BY <1>1, <1>4 DEF Stride, a

\* A quotient and a remainder are the quotient and the remainder.
LEMMA DivUnique ==
    ASSUME NEW b \in Nat \ {0}, NEW q \in Nat, NEW r \in 0..(b - 1)
    PROVE  (q * b + r) \div b = q /\ (q * b + r) % b = r
  OBVIOUS

\* Division with remainder, without which the solver knows nothing of % b.
LEMMA DivMod ==
    ASSUME NEW a \in Nat, NEW b \in Nat \ {0}
    PROVE  \E q \in Nat, r \in 0..(b - 1) : a = q * b + r /\ a \div b = q /\ a % b = r
  <1> DEFINE T == {n \in 0..a : \E q \in Nat, r \in 0..(b - 1) : n = q * b + r}
  <1>1. 0 \in T
    <2>1. 0 = 0 * b + 0
      OBVIOUS
    <2> QED
      BY <2>1
  <1>2. ASSUME NEW n \in 1..a, n - 1 \in T
        PROVE  n \in T
    <2>1. PICK q \in Nat, r \in 0..(b - 1) : n - 1 = q * b + r
      BY <1>2
    <2>2. CASE r + 1 < b
      <3>1. r + 1 \in 0..(b - 1) /\ n = q * b + (r + 1)
        BY <2>1, <2>2
      <3> QED
        BY <3>1
    <2>3. CASE r + 1 = b
      <3>1. q + 1 \in Nat /\ n = (q + 1) * b + 0
        BY <2>1, <2>3
      <3> QED
        BY <3>1
    <2> QED
      BY <2>2, <2>3
  <1>3. a \in T
    <2>1. \A n \in 1..a : n - 1 \in T => n \in T
      BY <1>2
    <2> HIDE DEF T
    <2>2. 0..a \subseteq T
      BY <1>1, <2>1, UpTo
    <2> QED
      BY <2>2
  <1>4. PICK q \in Nat, r \in 0..(b - 1) : a = q * b + r
    BY <1>3
  <1>5. (q * b + r) \div b = q /\ (q * b + r) % b = r
    BY DivUnique
  <1>6. a \div b = q /\ a % b = r
    BY <1>4, <1>5, Zenon
  <1> QED
    BY <1>4, <1>6

\* A larger multiplier makes a larger product.
LEMMA TimesGrows ==
    ASSUME NEW a \in Nat, NEW b \in Nat, NEW c \in Nat, NEW d \in Nat, a <= c, b <= d
    PROVE  a * b <= c * d /\ a * b \in Nat /\ c * d \in Nat
  <1>1. a * b \in Nat /\ c * b \in Nat /\ c * d \in Nat
    OBVIOUS
  <1>2. PICK x \in Nat : c = a + x
    <2>1. c - a \in Nat /\ c = a + (c - a)
      OBVIOUS
    <2> QED
      BY <2>1
  <1>3. c * b = a * b + x * b /\ x * b \in Nat
    BY <1>2
  <1>4. PICK y \in Nat : d = b + y
    <2>1. d - b \in Nat /\ d = b + (d - b)
      OBVIOUS
    <2> QED
      BY <2>1
  <1>5. c * d = c * b + c * y /\ c * y \in Nat
    BY <1>4
  <1> QED
    BY <1>1, <1>3, <1>5

\* The grid has a tile at every column and row.
LEMMA GridTiles ==
    ASSUME scene \in Scenes
    PROVE  /\ Grid(scene.w, scene.h, Stride) \in Seq(Rect)
           /\ Cols \in Nat \ {0} /\ Rows \in Nat \ {0}
           /\ \A t \in Range(Grid(scene.w, scene.h, Stride)) :
                 \E k \in 0..(Cols - 1), r \in 0..(Rows - 1) : t = Tile(k, r)
           /\ \A k \in 0..(Cols - 1), r \in 0..(Rows - 1) :
                Tile(k, r) \in Range(Grid(scene.w, scene.h, Stride))
  <1>1. scene.w \in Nat \ {0} /\ scene.h \in Nat \ {0}
    BY SceneAssumption
  <1>2. Stride \in Nat \ {0} /\ TileSize \in Nat \ {0}
    BY StrideType
  <1>3. scene.w - 1 \in Nat /\ scene.h - 1 \in Nat
    BY <1>1
  <1>4. Cols \in Nat \ {0} /\ Rows \in Nat \ {0}
    <2>1. (scene.w - 1) \div Stride \in Nat /\ (scene.h - 1) \div Stride \in Nat
      BY <1>2, <1>3, DivMod
    <2> QED
      BY <2>1 DEF Cols, Rows
  <1> DEFINE N == Cols * Rows
             col(n) == (n - 1) % Cols
             row(n) == (n - 1) \div Cols
  <1>5. N \in Nat
    BY <1>4
  <1>6. Grid(scene.w, scene.h, Stride) = [n \in 1..N |-> Tile(col(n), row(n))]
    BY DEF Grid, Cols, Rows, Tile
  <1>7. \A n \in 1..N : col(n) \in 0..(Cols - 1) /\ row(n) \in 0..(Rows - 1)
    <2> TAKE n \in 1..N
    <2>1. n - 1 \in Nat /\ n - 1 < Rows * Cols
      BY <1>4, <1>5
    <2>2. row(n) \in Nat /\ col(n) \in 0..(Cols - 1) /\ n - 1 = row(n) * Cols + col(n)
      BY <1>4, <2>1, DivMod
    <2> HIDE DEF row, col
    <2>3. row(n) < Rows
      <3> SUFFICES ASSUME row(n) >= Rows PROVE FALSE
        BY <1>4, <2>2
      <3>1. Rows * Cols <= row(n) * Cols /\ row(n) * Cols \in Nat
        BY <1>4, <2>2, TimesGrows
      <3> QED
        BY <1>4, <2>1, <2>2, <3>1
    <2> QED
      BY <1>4, <2>2, <2>3
  <1>8. \A k \in 0..(Cols - 1), r \in 0..(Rows - 1) :
            \E n \in 1..N : col(n) = k /\ row(n) = r
    <2> TAKE k \in 0..(Cols - 1), r \in 0..(Rows - 1)
    <2> DEFINE n == r * Cols + k + 1
    <2>1. r * Cols \in Nat /\ n - 1 = r * Cols + k
      BY <1>4
    <2>2. (r + 1) * Cols <= Rows * Cols /\ (r + 1) * Cols = r * Cols + Cols
      BY <1>4, TimesGrows
    <2>3. n \in 1..N
      BY <1>4, <1>5, <2>1, <2>2
    <2>4. col(n) = k /\ row(n) = r
      BY <1>4, <2>1, DivUnique
    <2> HIDE DEF n, col, row
    <2> QED
      BY <2>3, <2>4
  <1>9. \A k \in Nat, r \in Nat : Tile(k, r) \in Rect
    BY <1>1, <1>2 DEF Tile, Rect, Lower
  <1> HIDE DEF N, col, row
  <1>10. \A n \in 1..N : Tile(col(n), row(n)) \in Rect
    BY <1>4, <1>7, <1>9
  <1>11. Grid(scene.w, scene.h, Stride) \in Seq(Rect) /\ DOMAIN Grid(scene.w, scene.h, Stride) = 1..N
    BY <1>5, <1>6, <1>10
  <1>12. \A t \in Range(Grid(scene.w, scene.h, Stride)) :
            \E k \in 0..(Cols - 1), r \in 0..(Rows - 1) : t = Tile(k, r)
    <2> TAKE t \in Range(Grid(scene.w, scene.h, Stride))
    <2>1. PICK n \in 1..N : t = Tile(col(n), row(n))
      BY <1>6, <1>11 DEF Range
    <2> QED
      BY <1>7, <2>1
  <1>13. \A k \in 0..(Cols - 1), r \in 0..(Rows - 1) :
           Tile(k, r) \in Range(Grid(scene.w, scene.h, Stride))
    <2> TAKE k \in 0..(Cols - 1), r \in 0..(Rows - 1)
    <2>1. PICK n \in 1..N : col(n) = k /\ row(n) = r
      BY <1>8
    <2>2. Grid(scene.w, scene.h, Stride)[n] = Tile(k, r)
      BY <1>6, <2>1
    <2> QED
      BY <1>11, <2>2 DEF Range
  <1> QED
    BY <1>4, <1>11, <1>12, <1>13

\* So have the scanned tiles, but for the slivers.
LEMMA TilesOfGrid ==
    ASSUME scene \in Scenes
    PROVE  /\ Tiles \in Seq(Rect)
           /\ \A t \in Range(Tiles) :
                 ~IsSliver(t) /\ \E k \in 0..(Cols - 1), r \in 0..(Rows - 1) : t = Tile(k, r)
           /\ \A k \in 0..(Cols - 1), r \in 0..(Rows - 1) :
                 ~IsSliver(Tile(k, r)) => Tile(k, r) \in Range(Tiles)
  BY GridTiles, ScannedTiles DEF Tiles

\* A tile that starts further left and higher is at least as large.
LEMMA EarlierIsLarger ==
    ASSUME scene \in Scenes, NEW k \in Nat, NEW r \in Nat, NEW k2 \in Nat, NEW r2 \in Nat,
           k <= k2, r <= r2, ~IsSliver(Tile(k2, r2))
    PROVE  ~IsSliver(Tile(k, r))
  <1>1. /\ scene.w \in Nat \ {0} /\ scene.h \in Nat \ {0}
        /\ Stride \in Nat \ {0} /\ TileSize \in Nat \ {0}
    BY SceneAssumption, StrideType
  <1> DEFINE Width(n, w) == Upper(0, Lower(Stride * n + TileSize, w) - Stride * n)
  <1>2. \A n \in Nat, m \in Nat, w \in Nat :
            n <= m => Width(m, w) <= Width(n, w) /\ Width(m, w) \in Nat /\ Width(n, w) \in Nat
    <2> SUFFICES ASSUME NEW n \in Nat, NEW m \in Nat, NEW w \in Nat, n <= m
                 PROVE  Width(m, w) <= Width(n, w) /\ Width(m, w) \in Nat /\ Width(n, w) \in Nat
      OBVIOUS
    <2>1. Stride * n <= Stride * m /\ Stride * n \in Nat /\ Stride * m \in Nat
      BY <1>1, TimesGrows
    <2> QED
      BY <1>1, <2>1 DEF Lower, Upper
  <1>3. Area(Tile(k, r)) = Width(k, scene.w) * Width(r, scene.h)
    BY DEF Area, Tile
  <1>4. Area(Tile(k2, r2)) = Width(k2, scene.w) * Width(r2, scene.h)
    BY DEF Area, Tile
  <1>5. /\ Width(k2, scene.w) <= Width(k, scene.w) /\ Width(r2, scene.h) <= Width(r, scene.h)
        /\ Width(k2, scene.w) \in Nat /\ Width(k, scene.w) \in Nat
        /\ Width(r2, scene.h) \in Nat /\ Width(r, scene.h) \in Nat
    BY <1>1, <1>2
  <1> HIDE DEF Width
  <1>6. /\ Area(Tile(k2, r2)) <= Area(Tile(k, r))
        /\ Area(Tile(k2, r2)) \in Nat /\ Area(Tile(k, r)) \in Nat
    BY <1>3, <1>4, <1>5, TimesGrows
  <1>7. TileSize * TileSize \in Int
    BY <1>1
  <1> QED
    BY <1>6, <1>7 DEF IsSliver

\* In one dimension: the last tile that starts at or before a, and none after k2, holds
\* what begins at a, ends at e and is no longer than the overlap, if tile k2 holds the end.
LEMMA OverlapHolds ==
    ASSUME NEW w \in Nat, NEW a \in Nat, NEW e \in Int, NEW k2 \in Nat,
           e - a <= TileSize - Stride,
           e - 1 >= Stride * k2, e <= Stride * k2 + TileSize, e <= w
    PROVE  /\ Lower(a \div Stride, k2) \in 0..k2
           /\ Stride * Lower(a \div Stride, k2) <= a
           /\ e <= Lower(Stride * Lower(a \div Stride, k2) + TileSize, w)
  <1>1. Stride \in Nat \ {0} /\ TileSize \in Nat \ {0} /\ Stride <= TileSize
    BY StrideType
  <1> DEFINE q == a \div Stride
             rest == a % Stride
  <1>2. q \in Nat /\ rest \in 0..(Stride - 1) /\ a = q * Stride + rest
    BY <1>1, DivMod
  <1> HIDE DEF q, rest
  <1>3. Stride * q \in Nat /\ Stride * k2 \in Nat /\ Stride * q = q * Stride
    BY <1>1, <1>2
  <1>4. Stride * q <= a /\ a < Stride * q + Stride
    BY <1>1, <1>2, <1>3
  <1>5. CASE q < k2
    <2>1. Lower(q, k2) = q
      BY <1>5 DEF Lower
    <2>2. e <= Stride * q + TileSize
      BY <1>1, <1>3, <1>4
    <2> QED
      BY <1>1, <1>2, <1>3, <1>4, <1>5, <2>1, <2>2 DEF Lower, q
  <1>6. CASE ~(q < k2)
    <2>1. Lower(q, k2) = k2
      BY <1>6 DEF Lower
    <2>2. Stride * k2 <= Stride * q
      BY <1>1, <1>2, <1>6, TimesGrows
    <2> QED
      BY <1>1, <1>2, <1>3, <1>4, <2>1, <2>2 DEF Lower, q
  <1> QED
    BY <1>5, <1>6

\* A plate no longer than the overlap lies whole in a scanned tile as soon as its first
\* and its last corner lie in scanned tiles: the slivers that are left out cost nothing.
LEMMA SeamsAreCovered ==
    ASSUME scene \in Scenes, NEW p \in Rect,
           p.x2 - p.x1 <= TileSize - Stride, p.y2 - p.y1 <= TileSize - Stride,
           NEW t1 \in Range(Tiles), p.x1 >= t1.x1, p.y1 >= t1.y1,
           NEW t2 \in Range(Tiles),
           p.x2 - 1 >= t2.x1, p.y2 - 1 >= t2.y1, p.x2 <= t2.x2, p.y2 <= t2.y2
    PROVE  \E t \in Range(Tiles) : Inside(p, t)
  <1>1. /\ scene.w \in Nat \ {0} /\ scene.h \in Nat \ {0}
        /\ Stride \in Nat \ {0} /\ TileSize \in Nat \ {0}
    BY SceneAssumption, StrideType
  <1>2. p.x1 \in Int /\ p.y1 \in Int /\ p.x2 \in Int /\ p.y2 \in Int
    BY DEF Rect
  <1>3. PICK k1 \in 0..(Cols - 1), r1 \in 0..(Rows - 1) : t1 = Tile(k1, r1)
    BY TilesOfGrid
  <1>4. PICK k2 \in 0..(Cols - 1), r2 \in 0..(Rows - 1) : t2 = Tile(k2, r2)
    BY TilesOfGrid
  <1>5. Cols \in Nat /\ Rows \in Nat
    BY GridTiles
  <1>6. k1 \in Nat /\ r1 \in Nat /\ k2 \in Nat /\ r2 \in Nat
    BY <1>5
  <1>7. p.x1 \in Nat /\ p.y1 \in Nat
    <2>1. Stride * k1 \in Nat /\ Stride * r1 \in Nat
      BY <1>1, <1>6
    <2>2. p.x1 >= Stride * k1 /\ p.y1 >= Stride * r1
      BY <1>3 DEF Tile
    <2> QED
      BY <1>2, <2>1, <2>2
  <1>8. /\ p.x2 - 1 >= Stride * k2 /\ p.x2 <= Stride * k2 + TileSize /\ p.x2 <= scene.w
        /\ p.y2 - 1 >= Stride * r2 /\ p.y2 <= Stride * r2 + TileSize /\ p.y2 <= scene.h
    <2>1. Stride * k2 \in Nat /\ Stride * r2 \in Nat
      BY <1>1, <1>6
    <2>2. /\ t2.x1 = Stride * k2 /\ t2.x2 = Lower(Stride * k2 + TileSize, scene.w)
          /\ t2.y1 = Stride * r2 /\ t2.y2 = Lower(Stride * r2 + TileSize, scene.h)
      BY <1>4 DEF Tile
    <2> QED
      BY <1>1, <1>2, <2>1, <2>2 DEF Lower
  <1> DEFINE k == Lower(p.x1 \div Stride, k2)
             r == Lower(p.y1 \div Stride, r2)
  <1>9. k \in 0..k2 /\ Stride * k <= p.x1 /\ p.x2 <= Lower(Stride * k + TileSize, scene.w)
    BY <1>1, <1>2, <1>6, <1>7, <1>8, OverlapHolds
  <1>10. r \in 0..r2 /\ Stride * r <= p.y1 /\ p.y2 <= Lower(Stride * r + TileSize, scene.h)
    BY <1>1, <1>2, <1>6, <1>7, <1>8, OverlapHolds
  <1> HIDE DEF k, r
  <1>11. ~IsSliver(Tile(k2, r2))
    BY <1>4, TilesOfGrid
  <1>12. ~IsSliver(Tile(k, r))
    BY <1>6, <1>9, <1>10, <1>11, EarlierIsLarger
  <1>13. k \in 0..(Cols - 1) /\ r \in 0..(Rows - 1)
    BY <1>5, <1>9, <1>10
  <1>14. Tile(k, r) \in Range(Tiles)
    BY <1>12, <1>13, TilesOfGrid
  <1>15. Inside(p, Tile(k, r))
    BY <1>2, <1>9, <1>10 DEF Inside, Tile
  <1> QED
    BY <1>14, <1>15

-------------------------------------------------------------------------------
(* Lists *)

\* What two lists hold, one after the other.
LEMMA JoinedList ==
    ASSUME NEW S, NEW s \in Seq(S), NEW t \in Seq(S)
    PROVE  s \o t \in Seq(S) /\ \A x : x \in Range(s \o t) <=> x \in Range(s) \/ x \in Range(t)
  <1>1. s \o t \in Seq(S) /\ DOMAIN (s \o t) = 1..(Len(s) + Len(t))
    OBVIOUS
  <1>2. \A i \in 1..Len(s) : i \in DOMAIN (s \o t) /\ (s \o t)[i] = s[i]
    OBVIOUS
  <1>3. \A i \in 1..Len(t) : Len(s) + i \in DOMAIN (s \o t) /\ (s \o t)[Len(s) + i] = t[i]
    OBVIOUS
  <1>4. \A i \in DOMAIN (s \o t) : i \in 1..Len(s) \/ \E j \in 1..Len(t) : i = Len(s) + j
    <2> TAKE i \in DOMAIN (s \o t)
    <2>1. i \in 1..Len(s) \/ (i - Len(s) \in 1..Len(t) /\ i = Len(s) + (i - Len(s)))
      BY <1>1
    <2> QED
      BY <2>1
  <1>5. DOMAIN s = 1..Len(s) /\ DOMAIN t = 1..Len(t)
    OBVIOUS
  <1>6. ASSUME NEW x, x \in Range(s \o t)
        PROVE  x \in Range(s) \/ x \in Range(t)
    <2>1. PICK i \in DOMAIN (s \o t) : x = (s \o t)[i]
      BY <1>6 DEF Range
    <2> QED
      BY <1>2, <1>3, <1>4, <1>5, <2>1 DEF Range
  <1>7. ASSUME NEW x, x \in Range(s) \/ x \in Range(t)
        PROVE  x \in Range(s \o t)
    BY <1>2, <1>3, <1>5, <1>7 DEF Range
  <1> QED
    BY <1>1, <1>6, <1>7

\* The lists of a list, one after the other.
LEMMA FlatList ==
    ASSUME NEW S, NEW n \in Nat \ {0}, NEW seqs \in [1..n -> Seq(S)]
    PROVE  /\ FlattenSeq(seqs) \in Seq(S)
           /\ \A x : x \in Range(FlattenSeq(seqs)) <=> \E k \in 1..n : x \in Range(seqs[k])
  <1> DEFINE V == Seq(S)
             N == n - 1
             G == [m \in 1..N |-> [acc \in V |-> acc \o seqs[m + 1]]]
             flat == CHOOSE g : g = [i \in 1..n |-> IF i = 1 THEN seqs[i] ELSE g[i - 1] \o seqs[i]]
  <1>1. \A i \in 1..n : seqs[i] \in V
    OBVIOUS
  <1>2. \A s, t \in V : s \o t \in V
    OBVIOUS
  <1>3. N \in Nat /\ \A m \in 1..N : m + 1 \in 1..n
    OBVIOUS
  <1>4. Len(seqs) = n
    OBVIOUS
  <1> HIDE DEF V
  <1>5. G \in [1..N -> [V -> V]]
    BY <1>1, <1>2, <1>3
  <1>6. PICK f : IsRun(f, N, V, seqs[1], G)
    <2>1. seqs[1] \in V
      BY <1>1
    <2> HIDE DEF N, G
    <2> QED
      BY <1>3, <1>5, <2>1, LoopRuns
  <1>7. f \in [0..N -> V] /\ f[0] = seqs[1] /\ \A m \in 1..N : f[m] = G[m][f[m - 1]]
    BY <1>6 DEF IsRun
  <1>8. \A m \in 1..N : f[m] = f[m - 1] \o seqs[m + 1]
    <2> TAKE m \in 1..N
    <2>1. f[m - 1] \in V
      BY <1>3, <1>7
    <2> QED
      BY <1>7, <2>1
  <1> HIDE DEF G
  <1> DEFINE g == [i \in 1..n |-> f[i - 1]]
  <1>9. \A i \in 1..n : g[i] = IF i = 1 THEN seqs[i] ELSE g[i - 1] \o seqs[i]
    <2> TAKE i \in 1..n
    <2>1. CASE i = 1
      BY <1>7, <2>1
    <2>2. CASE i # 1
      <3>1. i - 1 \in 1..N /\ (i - 1) + 1 = i /\ i - 1 \in 1..n
        BY <2>2
      <3>2. g[i] = f[i - 1] /\ g[i - 1] = f[(i - 1) - 1]
        BY <3>1
      <3> HIDE DEF g, N
      <3> QED
        BY <1>8, <2>2, <3>1, <3>2
    <2> QED
      BY <2>1, <2>2
  <1>10. g = [i \in 1..n |-> IF i = 1 THEN seqs[i] ELSE g[i - 1] \o seqs[i]]
    <2>1. g = [i \in 1..n |-> g[i]]
      OBVIOUS
    <2> HIDE DEF g
    <2> QED
      BY <1>9, <2>1
  <1>11. flat = [i \in 1..n |-> IF i = 1 THEN seqs[i] ELSE flat[i - 1] \o seqs[i]]
    <2> HIDE DEF g
    <2> QED
      BY <1>10
  <1>12. FlattenSeq(seqs) = flat[n]
    BY <1>4 DEF FlattenSeq
  <1> HIDE DEF flat, N, g
  <1>13. flat[1] = seqs[1] /\ \A m \in 1..N : flat[m + 1] = flat[m] \o seqs[m + 1]
    <2>1. 1 \in 1..n
      OBVIOUS
    <2>2. ASSUME NEW m \in 1..N
          PROVE  flat[m + 1] = flat[m] \o seqs[m + 1]
      <3>1. m + 1 \in 1..n /\ m + 1 # 1 /\ (m + 1) - 1 = m
        BY <1>3
      <3> QED
        BY <1>11, <3>1
    <2> QED
      BY <1>11, <2>1, <2>2
  <1> DEFINE Good(m) == /\ flat[m + 1] \in V
                        /\ \A x : x \in Range(flat[m + 1])
                                     <=> \E k \in 1..(m + 1) : x \in Range(seqs[k])
             T == {m \in 0..N : Good(m)}
  <1>14. 0 \in T
    <2>1. flat[0 + 1] = seqs[1] /\ seqs[1] \in V
      BY <1>1, <1>13
    <2>2. 1..(0 + 1) = {1}
      OBVIOUS
    <2> QED
      BY <1>3, <2>1, <2>2
  <1>15. \A m \in 1..N : m - 1 \in T => m \in T
    <2> SUFFICES ASSUME NEW m \in 1..N, m - 1 \in T
                 PROVE  m \in T
      OBVIOUS
    <2>1. (m - 1) + 1 = m /\ m + 1 \in 1..n /\ m \in 0..N
      <3>1. \A k \in 1..N : (k - 1) + 1 = k /\ k \in 0..N
        BY <1>3
      <3> HIDE DEF T
      <3> QED
        BY <1>3, <3>1, Zenon
    <2>2. Good(m - 1)
      OBVIOUS
    <2>3. flat[m] \in V /\ seqs[m + 1] \in V /\ flat[m + 1] = flat[m] \o seqs[m + 1]
      BY <1>1, <1>13, <2>1, <2>2
    <2>4. /\ flat[m + 1] \in V
          /\ \A x : x \in Range(flat[m + 1]) <=> x \in Range(flat[m]) \/ x \in Range(seqs[m + 1])
      BY <2>3, JoinedList DEF V
    <2>5. \A k : k \in 1..(m + 1) <=> k \in 1..m \/ k = m + 1
      BY <2>1
    <2>6. \A x : x \in Range(flat[m]) <=> \E k \in 1..m : x \in Range(seqs[k])
      BY <2>1, <2>2
    <2>7. Good(m)
      BY <2>4, <2>5, <2>6
    <2> HIDE DEF Good
    <2> QED
      BY <2>1, <2>7
  <1>16. Good(N)
    <2> HIDE DEF T
    <2>1. 0..N \subseteq T
      BY <1>3, <1>14, <1>15, UpTo
    <2>2. N \in T
      BY <1>3, <2>1
    <2> QED
      BY <2>2 DEF T
  <1>17. N + 1 = n
    BY DEF N
  <1> QED
    BY <1>12, <1>16, <1>17 DEF V

\* What is left of a list after its first elements.
LEMMA RestOfList ==
    ASSUME NEW S, NEW s \in Seq(S), NEW n \in 0..Len(s)
    PROVE  /\ SubSeq(s, 1, n) \in [1..n -> S] /\ \A i \in 1..n : SubSeq(s, 1, n)[i] = s[i]
           /\ SubSeq(s, n + 1, Len(s)) \in Seq(S)
           /\ \A x \in Range(s) : \/ \E i \in 1..n : x = SubSeq(s, 1, n)[i]
                                  \/ x \in Range(SubSeq(s, n + 1, Len(s)))
           /\ \A x \in Range(SubSeq(s, n + 1, Len(s))) : x \in Range(s)
  <1>1. Len(s) \in Nat /\ DOMAIN s = 1..Len(s) /\ n \in Nat /\ n <= Len(s)
    OBVIOUS
  <1>2. SubSeq(s, 1, n) \in [1..n -> S] /\ \A i \in 1..n : SubSeq(s, 1, n)[i] = s[i]
    <2>1. SubSeq(s, 1, n) = [i \in 1..n |-> s[i]]
      BY <1>1
    <2>2. \A i \in 1..n : s[i] \in S
      BY <1>1
    <2> QED
      BY <2>1, <2>2
  <1> DEFINE rest == SubSeq(s, n + 1, Len(s))
  <1>3. rest = [i \in 1..(Len(s) - n) |-> s[n + i]]
    BY <1>1
  <1>4. DOMAIN rest = 1..(Len(s) - n) /\ \A i \in 1..(Len(s) - n) : rest[i] = s[n + i]
    BY <1>3
  <1>5. rest \in Seq(S)
    <2>1. \A i \in 1..(Len(s) - n) : s[n + i] \in S
      BY <1>1
    <2> QED
      BY <1>1, <1>3, <2>1
  <1> HIDE DEF rest
  <1>6. ASSUME NEW x \in Range(s)
        PROVE  (\E i \in 1..n : x = SubSeq(s, 1, n)[i]) \/ x \in Range(rest)
    <2>1. PICK i \in DOMAIN s : x = s[i]
      BY DEF Range
    <2>2. CASE i \in 1..n
      BY <1>2, <2>1, <2>2
    <2>3. CASE i \notin 1..n
      <3>1. i - n \in 1..(Len(s) - n) /\ n + (i - n) = i
        BY <1>1, <2>3
      <3> QED
        BY <1>4, <2>1, <3>1 DEF Range
    <2> QED
      BY <2>2, <2>3
  <1>7. ASSUME NEW x \in Range(rest)
        PROVE  x \in Range(s)
    <2>1. PICK i \in 1..(Len(s) - n) : x = rest[i]
      BY <1>4 DEF Range
    <2>2. n + i \in DOMAIN s
      BY <1>1
    <2> QED
      BY <1>4, <2>1, <2>2 DEF Range
  <1> QED
    BY <1>2, <1>5, <1>6, <1>7 DEF rest

-------------------------------------------------------------------------------
(* Where boxes lie *)

\* Box b is proper and lies in p.
InPlate(b, p) == b.x1 < b.x2 /\ b.y1 < b.y2 /\ Inside(b, p)

\* Every box lies in a plate.
Within(bs) == \A b \in Range(bs) : \E p \in scene.plates : InPlate(b, p)

\* A box in the sighting's plate is at least as good as the sighting.
Answers(bs, s) == \E b \in Range(bs) : InPlate(b, s[1]) /\ b.conf >= s[2]

\* A box at least as good as the sighting covers some of its plate.
Touches(bs, s) == \E b \in Range(bs) : Area(Meet(b, s[1])) > 0 /\ b.conf >= s[2]

\* A box has an area if it has a width and a height.
LEMMA AreaPositive ==
    ASSUME NEW a, a.x1 \in Int, a.x2 \in Int, a.y1 \in Int, a.y2 \in Int
    PROVE  Area(a) \in Nat /\ (Area(a) > 0 <=> a.x1 < a.x2 /\ a.y1 < a.y2)
  <1> DEFINE w == Upper(0, a.x2 - a.x1)
             h == Upper(0, a.y2 - a.y1)
  <1>1. w \in Nat /\ h \in Nat /\ (w > 0 <=> a.x1 < a.x2) /\ (h > 0 <=> a.y1 < a.y2)
    BY DEF Upper
  <1>2. Area(a) = w * h
    BY DEF Area
  <1> HIDE DEF w, h
  <1>3. \A m, n \in Nat : m * n \in Nat /\ (m * n > 0 <=> m > 0 /\ n > 0)
    <2> TAKE m, n \in Nat
    <2>1. CASE m = 0 \/ n = 0
      BY <2>1
    <2>2. CASE m > 0 /\ n > 0
      <3>1. 1 * n <= m * n /\ m * n \in Nat
        BY <2>2, TimesGrows
      <3> QED
        BY <2>2, <3>1
    <2> QED
      BY <2>1, <2>2
  <1> QED
    BY <1>1, <1>2, <1>3

\* The corners are integers.
Cornered(a) == a.x1 \in Int /\ a.x2 \in Int /\ a.y1 \in Int /\ a.y2 \in Int

\* Two boxes share a pixel if they overlap in both directions.
LEMMA MeetTyped ==
    ASSUME NEW a, NEW b, Cornered(a), Cornered(b)
    PROVE  /\ Cornered(Meet(a, b))
           /\ Area(Meet(a, b)) > 0 <=>
                 /\ a.x1 < a.x2 /\ b.x1 < b.x2 /\ a.x1 < b.x2 /\ b.x1 < a.x2
                 /\ a.y1 < a.y2 /\ b.y1 < b.y2 /\ a.y1 < b.y2 /\ b.y1 < a.y2
  <1>1. Cornered(Meet(a, b))
    BY DEF Meet, Cornered, Upper, Lower
  <1>2. Area(Meet(a, b)) > 0 <=> Meet(a, b).x1 < Meet(a, b).x2 /\ Meet(a, b).y1 < Meet(a, b).y2
    BY <1>1, AreaPositive DEF Cornered
  <1> QED
    BY <1>1, <1>2 DEF Meet, Cornered, Upper, Lower

\* Boxes that share a pixel lie in the same plate.
LEMMA SamePlate ==
    ASSUME scene \in Scenes, NEW p \in scene.plates, NEW q \in scene.plates,
           NEW a \in Box, NEW b \in Box, InPlate(a, p), InPlate(b, q), Area(Meet(a, b)) > 0
    PROVE  p = q
  <1>1. p \in Rect /\ q \in Rect /\ (p # q => Area(Meet(p, q)) = 0)
    BY SceneAssumption
  <1>2. Cornered(p) /\ Cornered(q) /\ Cornered(a) /\ Cornered(b)
    BY <1>1 DEF Cornered, Rect, Box
  <1>3. Area(Meet(p, q)) > 0
    BY <1>2, MeetTyped DEF InPlate, Inside, Cornered
  <1> QED
    BY <1>1, <1>3

\* Whatever shares a pixel with a box in a plate shares one with the plate.
LEMMA TouchesPlate ==
    ASSUME NEW p \in Rect, NEW a \in Box, NEW b \in Box, InPlate(b, p), Area(Meet(a, b)) > 0
    PROVE  Area(Meet(a, p)) > 0
  <1>1. Cornered(p) /\ Cornered(a) /\ Cornered(b)
    BY DEF Cornered, Rect, Box
  <1> QED
    BY <1>1, MeetTyped DEF InPlate, Inside, Cornered

\* A box in a plate covers some of it.
LEMMA InPlateTouches ==
    ASSUME NEW p \in Rect, NEW b \in Box, InPlate(b, p)
    PROVE  Area(Meet(b, p)) > 0
  <1>1. Cornered(p) /\ Cornered(b)
    BY DEF Cornered, Rect, Box
  <1> QED
    BY <1>1, MeetTyped DEF InPlate, Inside, Cornered

-------------------------------------------------------------------------------
(* Moved boxes *)

\* A moved box is a box.
LEMMA ShiftedBox ==
    ASSUME NEW b \in Box, NEW dx \in Int, NEW dy \in Int
    PROVE  /\ Shift(b, dx, dy) = [x1 |-> b.x1 + dx, y1 |-> b.y1 + dy,
                                  x2 |-> b.x2 + dx, y2 |-> b.y2 + dy, conf |-> b.conf]
           /\ Shift(b, dx, dy) \in Box
  BY DEF Shift, Box

\* The moved boxes of a list.
LEMMA ShiftedList ==
    ASSUME NEW bs \in Seq(Box), NEW dx \in Int, NEW dy \in Int
    PROVE  /\ ShiftAll(bs, dx, dy) \in Seq(Box)
           /\ \A c : c \in Range(ShiftAll(bs, dx, dy))
                        <=> \E b \in Range(bs) : c = Shift(b, dx, dy)
  <1>1. /\ Len(bs) \in Nat /\ DOMAIN bs = 1..Len(bs)
        /\ \A i \in DOMAIN bs : bs[i] \in Box
    BY BoxesTyped
  <1>2. ShiftAll(bs, dx, dy) = [i \in 1..Len(bs) |-> Shift(bs[i], dx, dy)]
    BY <1>1 DEF ShiftAll
  <1>3. \A i \in 1..Len(bs) : Shift(bs[i], dx, dy) \in Box
    BY <1>1, ShiftedBox
  <1>4. ShiftAll(bs, dx, dy) \in Seq(Box)
    BY <1>1, <1>2, <1>3
  <1> QED
    BY <1>1, <1>2, <1>4 DEF Range

\* Boxes that are not moved.
LEMMA UnshiftedList ==
    ASSUME NEW bs \in Seq(Box)
    PROVE  ShiftAll(bs, 0, 0) = bs
  <1>1. /\ Len(bs) \in Nat /\ DOMAIN bs = 1..Len(bs)
        /\ \A i \in DOMAIN bs : bs[i] \in Box
    BY BoxesTyped
  <1>2. \A b \in Box : Shift(b, 0, 0) = b
    <2> TAKE b \in Box
    <2>1. b.x1 + 0 = b.x1 /\ b.y1 + 0 = b.y1 /\ b.x2 + 0 = b.x2 /\ b.y2 + 0 = b.y2
      BY DEF Box
    <2>2. Shift(b, 0, 0) = [x1 |-> b.x1, y1 |-> b.y1, x2 |-> b.x2, y2 |-> b.y2, conf |-> b.conf]
      BY <2>1, ShiftedBox
    <2> QED
      BY <2>2 DEF Box
  <1>3. \A i \in DOMAIN bs : Shift(bs[i], 0, 0) = bs[i]
    BY <1>1, <1>2
  <1>4. bs = [i \in DOMAIN bs |-> bs[i]]
    BY <1>1
  <1> QED
    BY <1>3, <1>4 DEF ShiftAll

\* Boxes that share a pixel still do when both are moved.
LEMMA ShiftedMeet ==
    ASSUME NEW a \in Box, NEW b \in Box, NEW dx \in Int, NEW dy \in Int, Area(Meet(a, b)) > 0
    PROVE  Area(Meet(Shift(a, dx, dy), Shift(b, dx, dy))) > 0
  <1> DEFINE c == Shift(a, dx, dy)
             d == Shift(b, dx, dy)
  <1>1. Cornered(a) /\ Cornered(b) /\ Cornered(c) /\ Cornered(d)
    BY ShiftedBox DEF Cornered, Box
  <1>2. /\ c.x1 = a.x1 + dx /\ c.x2 = a.x2 + dx /\ c.y1 = a.y1 + dy /\ c.y2 = a.y2 + dy
        /\ d.x1 = b.x1 + dx /\ d.x2 = b.x2 + dx /\ d.y1 = b.y1 + dy /\ d.y2 = b.y2 + dy
    BY ShiftedBox
  <1> HIDE DEF c, d
  <1>3. Area(Meet(c, d)) > 0
    BY <1>1, <1>2, MeetTyped DEF Cornered
  <1> QED
    BY <1>3 DEF c, d

\* Every box of bs that out leaves out gives way to one of out.
Suppresses(out, bs) ==
    /\ out \in Seq(Box)
    /\ \A k \in Range(out) : k \in Range(bs)
    /\ \A b \in Range(bs) : \E k \in Range(out) : Stands(k, b)

\* _nms suppresses, and so does its call for more than one box.
LEMMA NMSSuppresses ==
    ASSUME NEW bs \in Seq(Box)
    PROVE  Suppresses(NMS(bs), bs) /\ Suppresses(NMSIfMany(bs), bs)
  <1>1. Suppresses(NMS(bs), bs)
    <2> DEFINE out == NMS(bs)
    <2>1. /\ out \in Seq(Box)
          /\ \A k \in DOMAIN out : \E i \in DOMAIN bs : out[k] = bs[i]
          /\ \A i \in DOMAIN bs : \E k \in DOMAIN out : Stands(out[k], bs[i])
      BY NMSKeeps
    <2> HIDE DEF out
    <2>2. \A k \in Range(out) : k \in Range(bs)
      BY <2>1 DEF Range
    <2>3. \A b \in Range(bs) : \E k \in Range(out) : Stands(k, b)
      BY <2>1 DEF Range
    <2>4. Suppresses(out, bs)
      BY <2>1, <2>2, <2>3 DEF Suppresses
    <2> QED
      BY <2>4 DEF out
  <1>2. Suppresses(bs, bs)
    <2>1. \A i \in DOMAIN bs : Stands(bs[i], bs[i])
      BY BoxesTyped DEF Stands
    <2> QED
      BY <2>1 DEF Suppresses, Range
  <1> QED
    BY <1>1, <1>2 DEF NMSIfMany

\* What a suppression does to boxes that will be moved by (dx, dy).
LEMMA SuppressedList ==
    ASSUME scene \in Scenes, NEW bs \in Seq(Box), NEW dx \in Int, NEW dy \in Int,
           NEW out, Suppresses(out, bs)
    PROVE  LET before == ShiftAll(bs, dx, dy)
               after == ShiftAll(out, dx, dy)
           IN  /\ Within(before) => Within(after)
               /\ \A s \in scene.plates \X Int : Answers(before, s) => Touches(after, s)
               /\ Within(before) => \A s \in scene.plates \X Int :
                                       Answers(before, s) => Answers(after, s)
  <1> DEFINE before == ShiftAll(bs, dx, dy)
             after == ShiftAll(out, dx, dy)
  <1>1. /\ out \in Seq(Box)
        /\ \A c \in Range(out) : c \in Range(bs)
        /\ \A b \in Range(bs) : \E k \in Range(out) : k.conf >= b.conf /\ (k = b \/ Same(k, b))
    BY DEF Suppresses, Stands
  <1>2. \A b \in Range(bs) : b \in Box
    BY BoxesTyped DEF Range
  <1>3. /\ before \in Seq(Box) /\ after \in Seq(Box)
        /\ \A c : c \in Range(before) <=> \E b \in Range(bs) : c = Shift(b, dx, dy)
        /\ \A c : c \in Range(after) <=> \E b \in Range(out) : c = Shift(b, dx, dy)
    BY <1>1, ShiftedList
  <1> HIDE DEF before, after
  <1>4. \A c \in Range(after) : c \in Range(before)
    BY <1>1, <1>3
  <1>5. Within(before) => Within(after)
    BY <1>4 DEF Within
  <1>6. ASSUME NEW s \in scene.plates \X Int, NEW c \in Range(before), InPlate(c, s[1]), c.conf >= s[2]
        PROVE  \E d \in Range(after) :
                  /\ d \in Box /\ c \in Box /\ d \in Range(before) /\ d.conf >= s[2]
                  /\ d = c \/ Area(Meet(d, c)) > 0
    <2>1. PICK b \in Range(bs) : c = Shift(b, dx, dy)
      BY <1>3
    <2>2. PICK k \in Range(out) : k.conf >= b.conf /\ (k = b \/ Same(k, b))
      BY <1>1
    <2>3. k \in Box /\ b \in Box
      BY <1>1, <1>2
    <2> DEFINE d == Shift(k, dx, dy)
    <2>4. d \in Range(after) /\ d \in Range(before)
      BY <1>3, <1>4
    <2>5. d.conf = k.conf /\ c.conf = b.conf /\ d \in Box /\ c \in Box
      <3>1. \A a \in Box : Shift(a, dx, dy).conf = a.conf /\ Shift(a, dx, dy) \in Box
        BY ShiftedBox DEF Shift
      <3> QED
        BY <2>1, <2>3, <3>1
    <2>6. d = c \/ Area(Meet(d, c)) > 0
      BY <2>1, <2>2, <2>3, ShiftedMeet DEF Same
    <2>7. d.conf >= s[2]
      <3>1. k.conf \in Int /\ b.conf \in Int /\ s[2] \in Int
        BY <2>3 DEF Box
      <3> HIDE DEF d
      <3> QED
        BY <1>6, <2>2, <2>5, <3>1
    <2> QED
      BY <2>4, <2>5, <2>6, <2>7
  <1>7. ASSUME NEW s \in scene.plates \X Int, Answers(before, s)
        PROVE  Touches(after, s)
    <2>1. PICK c \in Range(before) : InPlate(c, s[1]) /\ c.conf >= s[2]
      BY <1>7 DEF Answers
    <2>2. PICK d \in Range(after) : /\ d \in Box /\ c \in Box /\ d.conf >= s[2]
                                    /\ d = c \/ Area(Meet(d, c)) > 0
      BY <1>6, <2>1
    <2>3. s[1] \in Rect
      BY SceneAssumption
    <2>4. Area(Meet(d, s[1])) > 0
      BY <2>1, <2>2, <2>3, TouchesPlate, InPlateTouches
    <2> QED
      BY <2>2, <2>4 DEF Touches
  <1>8. ASSUME NEW s \in scene.plates \X Int, Within(before), Answers(before, s)
        PROVE  Answers(after, s)
    <2>1. PICK c \in Range(before) : InPlate(c, s[1]) /\ c.conf >= s[2]
      BY <1>8 DEF Answers
    <2>2. PICK d \in Range(after) : /\ d \in Box /\ c \in Box /\ d \in Range(before)
                                    /\ d.conf >= s[2] /\ (d = c \/ Area(Meet(d, c)) > 0)
      BY <1>6, <2>1
    <2>3. PICK q \in scene.plates : InPlate(d, q)
      BY <1>8, <2>2 DEF Within
    <2>4. InPlate(d, s[1])
      BY <2>1, <2>2, <2>3, SamePlate
    <2> QED
      BY <2>2, <2>4 DEF Answers
  <1> QED
    BY <1>5, <1>7, <1>8 DEF before, after

\* The same of boxes of the frame.
LEMMA SuppressedInFrame ==
    ASSUME scene \in Scenes, NEW bs \in Seq(Box), NEW out, Suppresses(out, bs)
    PROVE  /\ \A s \in scene.plates \X Int : Answers(bs, s) => Touches(out, s)
           /\ Within(bs) => \A s \in scene.plates \X Int : Answers(bs, s) => Answers(out, s)
  <1>1. ShiftAll(bs, 0, 0) = bs /\ ShiftAll(out, 0, 0) = out
    BY UnshiftedList DEF Suppresses
  <1>2. \A dx, dy \in Int :
          /\ \A s \in scene.plates \X Int :
                Answers(ShiftAll(bs, dx, dy), s) => Touches(ShiftAll(out, dx, dy), s)
          /\ Within(ShiftAll(bs, dx, dy)) =>
                \A s \in scene.plates \X Int :
                   Answers(ShiftAll(bs, dx, dy), s) => Answers(ShiftAll(out, dx, dy), s)
    BY SuppressedList
  <1>3. 0 \in Int
    OBVIOUS
  <1> QED
    BY <1>1, <1>2, <1>3, Zenon

-------------------------------------------------------------------------------
(* What a model reports *)

\* The box of plate p, seen in the region with confidence c.
BoxOf(region, p, c) ==
    [x1 |-> Meet(p, region).x1 - region.x1, y1 |-> Meet(p, region).y1 - region.y1,
     x2 |-> Meet(p, region).x2 - region.x1, y2 |-> Meet(p, region).y2 - region.y1, conf |-> c]

\* Moved back into the frame it lies in the plate.
LEMMA BoxOfPlate ==
    ASSUME NEW p \in Rect, NEW region \in Rect, NEW c \in Int, Area(Meet(p, region)) > 0
    PROVE  /\ BoxOf(region, p, c) \in Box
           /\ InPlate(Shift(BoxOf(region, p, c), region.x1, region.y1), p)
           /\ Shift(BoxOf(region, p, c), region.x1, region.y1).conf = c
  <1> DEFINE m == Meet(p, region)
             b == BoxOf(region, p, c)
             d == Shift(b, region.x1, region.y1)
  <1>1. Cornered(p) /\ Cornered(region)
    BY DEF Cornered, Rect
  <1>2. Cornered(m) /\ m.x1 < m.x2 /\ m.y1 < m.y2
    BY <1>1, MeetTyped, AreaPositive DEF Cornered
  <1>3. m.x1 >= p.x1 /\ m.y1 >= p.y1 /\ m.x2 <= p.x2 /\ m.y2 <= p.y2
    BY <1>1 DEF Meet, Cornered, Upper, Lower
  <1> HIDE DEF m
  <1>4. b = [x1 |-> m.x1 - region.x1, y1 |-> m.y1 - region.y1,
             x2 |-> m.x2 - region.x1, y2 |-> m.y2 - region.y1, conf |-> c]
    BY DEF BoxOf, m
  <1>5. b \in Box
    BY <1>1, <1>2, <1>4 DEF Box, Cornered
  <1>6. d.x1 = m.x1 /\ d.y1 = m.y1 /\ d.x2 = m.x2 /\ d.y2 = m.y2 /\ d.conf = c
    BY <1>1, <1>2, <1>4 DEF Shift, Cornered
  <1> HIDE DEF d, b
  <1>7. InPlate(d, p)
    BY <1>2, <1>3, <1>6 DEF InPlate, Inside
  <1> QED
    BY <1>5, <1>6, <1>7 DEF d, b

\* The image of a finite set is finite.
LEMMA FiniteImage ==
    ASSUME NEW S, IsFiniteSet(S), NEW T, NEW f \in [S -> T], \A y \in T : \E x \in S : f[x] = y
    PROVE  IsFiniteSet(T)
  <1>1. f \in Surjection(S, T)
    BY DEF Surjection
  <1> QED
    BY <1>1, FS_Surjection

\* The boxes of an image, moved by its corner, lie in their plates.
LEMMA BoxesOfSighting ==
    ASSUME scene \in Scenes, NEW region \in Rect, NEW conf \in Int,
           NEW s \in Sightings(region, conf)
    PROVE  LET moved == ShiftAll(Boxes(region, s), region.x1, region.y1)
           IN  /\ Boxes(region, s) \in Seq(Box) /\ moved \in Seq(Box)
               /\ Within(moved)
               /\ \A g \in Sighted(s) : g \in scene.plates \X Int /\ Answers(moved, g)
  <1> DEFINE seen == {q \in DOMAIN s : s[q] > 0}
             bag == {BoxOf(region, p, s[p]) : p \in seen}
             list == Boxes(region, s)
             moved == ShiftAll(list, region.x1, region.y1)
  <1>1. DOMAIN s = Visible(region) /\ \A p \in Visible(region) : s[p] \in Int
    <2>1. Values(conf) \subseteq Int
      <3>1. Confidences \subseteq 1..100
        BY DetectorAssumption
      <3>2. \A c \in Confidences : c \in Int
        BY <3>1
      <3> QED
        BY <3>2 DEF Values
    <2> QED
      BY <2>1 DEF Sightings
  <1>2. \A p \in Visible(region) :
            p \in scene.plates /\ p \in Rect /\ Area(Meet(p, region)) > 0
    BY SceneAssumption DEF Visible
  <1>3. IsFiniteSet(seen)
    <2>1. IsFiniteSet(scene.plates)
      BY SceneAssumption
    <2>2. seen \in SUBSET scene.plates
      BY <1>1, <1>2
    <2> QED
      BY <2>1, <2>2, FS_Subset
  <1>4. IsFiniteSet(bag)
    <2> DEFINE f == [p \in seen |-> BoxOf(region, p, s[p])]
    <2>1. f \in [seen -> bag] /\ \A y \in bag : \E x \in seen : f[x] = y
      OBVIOUS
    <2> HIDE DEF f, bag, seen
    <2> QED
      BY <1>3, <2>1, FiniteImage
  <1>5. list = SetToSeq(bag)
    BY DEF Boxes, BoxOf
  <1>6. \A p \in seen : /\ p \in scene.plates /\ s[p] \in Int
                        /\ BoxOf(region, p, s[p]) \in Box
                        /\ InPlate(Shift(BoxOf(region, p, s[p]), region.x1, region.y1), p)
                        /\ Shift(BoxOf(region, p, s[p]), region.x1, region.y1).conf = s[p]
    <2> TAKE p \in seen
    <2>1. p \in Rect /\ p \in scene.plates /\ s[p] \in Int /\ Area(Meet(p, region)) > 0
      BY <1>1, <1>2
    <2> QED
      BY <2>1, BoxOfPlate
  <1>7. \A b \in bag : b \in Box
    BY <1>6
  <1> HIDE DEF list
  <1>8. list \in Seq(Box) /\ \A b : b \in Range(list) <=> b \in bag
    <2>1. /\ Cardinality(bag) \in Nat
          /\ list \in [1..Cardinality(bag) -> bag]
          /\ \A x \in bag : \E n \in 1..Cardinality(bag) : list[n] = x
      <3> HIDE DEF bag
      <3> QED
        BY <1>4, <1>5, ListOf
    <2> HIDE DEF bag
    <2>2. list \in [1..Cardinality(bag) -> Box]
      BY <1>7, <2>1
    <2>3. list \in Seq(Box)
      BY <2>1, <2>2
    <2> QED
      BY <2>1, <2>3 DEF Range
  <1>9. region.x1 \in Int /\ region.y1 \in Int
    BY DEF Rect
  <1>10. /\ moved \in Seq(Box)
         /\ \A c : c \in Range(moved) <=> \E b \in Range(list) : c = Shift(b, region.x1, region.y1)
    BY <1>8, <1>9, ShiftedList
  <1> HIDE DEF moved
  <1>11. Within(moved)
    <2> SUFFICES ASSUME NEW c \in Range(moved)
                 PROVE  \E p \in scene.plates : InPlate(c, p)
      BY DEF Within
    <2>1. PICK p \in seen : c = Shift(BoxOf(region, p, s[p]), region.x1, region.y1)
      BY <1>8, <1>10
    <2> QED
      BY <1>6, <2>1
  <1>12. ASSUME NEW g \in Sighted(s)
         PROVE  g \in scene.plates \X Int /\ Answers(moved, g)
    <2>1. PICK p \in seen : g = <<p, s[p]>>
      BY <1>12 DEF Sighted
    <2> DEFINE c == Shift(BoxOf(region, p, s[p]), region.x1, region.y1)
    <2>2. BoxOf(region, p, s[p]) \in bag
      OBVIOUS
    <2>3. c \in Range(moved)
      BY <1>8, <1>10, <2>2
    <2>4. p \in scene.plates /\ s[p] \in Int /\ InPlate(c, p) /\ c.conf = s[p]
      BY <1>6
    <2> HIDE DEF c, seen
    <2>5. InPlate(c, g[1]) /\ c.conf >= g[2] /\ g \in scene.plates \X Int
      BY <2>1, <2>4
    <2> QED
      BY <2>3, <2>5 DEF Answers
  <1> QED
    BY <1>8, <1>10, <1>11, <1>12 DEF list, moved

\* The frame's own boxes need not be moved.
LEMMA BoxesOfFrame ==
    ASSUME scene \in Scenes, NEW conf \in Int, NEW s \in Sightings(Frame, conf)
    PROVE  /\ Boxes(Frame, s) \in Seq(Box)
           /\ Within(Boxes(Frame, s))
           /\ \A g \in Sighted(s) : g \in scene.plates \X Int /\ Answers(Boxes(Frame, s), g)
  <1>1. Frame \in Rect /\ Frame.x1 = 0 /\ Frame.y1 = 0
    BY SceneAssumption DEF Frame, Rect
  <1> DEFINE bs == Boxes(Frame, s)
  <1>2. /\ bs \in Seq(Box) /\ Within(ShiftAll(bs, Frame.x1, Frame.y1))
        /\ \A g \in Sighted(s) : /\ g \in scene.plates \X Int
                                 /\ Answers(ShiftAll(bs, Frame.x1, Frame.y1), g)
    BY <1>1, BoxesOfSighting
  <1> HIDE DEF bs
  <1>3. ShiftAll(bs, Frame.x1, Frame.y1) = bs
    BY <1>1, <1>2, UnshiftedList
  <1> QED
    BY <1>2, <1>3 DEF bs

-------------------------------------------------------------------------------
(* Longer lists *)

\* Further boxes lose no answer.
LEMMA LongerWithin ==
    ASSUME NEW a \in Seq(Box), NEW b \in Seq(Box)
    PROVE  /\ a \o b \in Seq(Box)
           /\ Within(a) /\ Within(b) => Within(a \o b)
           /\ \A s : Answers(a, s) \/ Answers(b, s) => Answers(a \o b, s)
  <1>1. /\ a \o b \in Seq(Box)
        /\ \A x : x \in Range(a \o b) <=> x \in Range(a) \/ x \in Range(b)
    BY JoinedList
  <1> DEFINE c == a \o b
  <1> HIDE DEF c
  <1>2. c \in Seq(Box) /\ \A x : x \in Range(c) <=> x \in Range(a) \/ x \in Range(b)
    BY <1>1 DEF c
  <1>3. Within(a) /\ Within(b) => Within(c)
    BY <1>2 DEF Within
  <1>4. \A s : Answers(a, s) \/ Answers(b, s) => Answers(c, s)
    BY <1>2 DEF Answers
  <1> QED
    BY <1>2, <1>3, <1>4 DEF c

\* Nor does a list of lists of boxes.
LEMMA FlatWithin ==
    ASSUME NEW n \in Nat \ {0}, NEW seqs \in [1..n -> Seq(Box)]
    PROVE  /\ FlattenSeq(seqs) \in Seq(Box)
           /\ (\A i \in 1..n : Within(seqs[i])) => Within(FlattenSeq(seqs))
           /\ \A s : (\E i \in 1..n : Answers(seqs[i], s)) => Answers(FlattenSeq(seqs), s)
  <1> DEFINE c == FlattenSeq(seqs)
  <1>1. c \in Seq(Box) /\ \A x : x \in Range(c) <=> \E k \in 1..n : x \in Range(seqs[k])
    BY FlatList
  <1> HIDE DEF c
  <1>2. (\A i \in 1..n : Within(seqs[i])) => Within(c)
    BY <1>1 DEF Within
  <1>3. \A s : (\E i \in 1..n : Answers(seqs[i], s)) => Answers(c, s)
    BY <1>1 DEF Answers
  <1> QED
    BY <1>1, <1>2, <1>3 DEF c

-------------------------------------------------------------------------------
(* The invariant *)

\* The motorcycle's boxes, moved into the frame.
Here == ShiftAll(local, CropOf(Head(vehicles)).x1, CropOf(Head(vehicles)).y1)

\* Boxes are being collected.
Scanning == pc \in {"batches", "vehicles"}

\* What the variables hold.
DetectTypeOK ==
    /\ pc \in {"detect", "tiled", "batches", "vehicles", "done"}
    /\ scene \in Scenes
    /\ vehicles \in Seq(scene.vehicles)
    /\ tiles \in Seq(Rect)
    /\ all \in Seq(Box) /\ local \in Seq(Box) /\ result \in Seq(Box)
    /\ sighted \subseteq scene.plates \X Int

\* Which variables are in use at which stage.
StagesInOrder ==
    /\ hasOcr => mode = "hierarchical"
    /\ merging => mode = "tiled"
    /\ pc = "vehicles" => mode = "hierarchical"
    /\ pc \in {"detect", "tiled"} => all = <<>> /\ sighted = {}
    /\ local # <<>> => pc = "vehicles" /\ vehicles # <<>> /\ IsMotorcycle(Head(vehicles))

\* The OCR's window is the only box that is not the visible part of a plate.
BoxesInPlates ==
    /\ Scanning /\ ~hasOcr => Within(all)
    /\ local # <<>> => Within(Here)

\* Every sighting is answered by a collected box, or by one of the motorcycle at hand.
SightingsKept ==
    Scanning => \A s \in sighted : Answers(all, s) \/ (local # <<>> /\ Answers(Here, s))

\* Of every tile that is no longer to be scanned, the plates in it were seen whole.
ScannedPlatesAreWhole ==
    pc = "batches" => \A t \in Range(Tiles) : t \in Range(tiles) \/ Whole(t) \subseteq whole

\* Every sighting is answered where the plate is, with at least its confidence, by a box
\* that covers some of the plate: with the OCR too.
SightingsAnswered ==
    Done /\ ~merging => \A s \in sighted : Touches(result, s)

\* What is promised of the result.
Answered ==
    /\ SightingsAnswered
    /\ BestSightingSurvives
    /\ OnePerVehicle

\* The inductive invariant.
IInv ==
    /\ DetectTypeOK
    /\ StagesInOrder
    /\ BoxesInPlates
    /\ SightingsKept
    /\ ScannedPlatesAreWhole
    /\ Answered

-------------------------------------------------------------------------------

\* The thresholds are integers.
LEMMA Confidence == PlateConf \in Int /\ MotorcycleConf \in Int
  BY DetectorAssumption

\* A frame's detection ends well if its boxes answer the sightings.
LEMMA EndsWell ==
    ASSUME DetectTypeOK, StagesInOrder, NEW bs \in Seq(Box),
           UNCHANGED <<options, vehicles, tiles, all, local>>,
           result' = MergeIfMany(bs), pc' = "done", local = <<>>,
           sighted' \subseteq scene.plates \X Int,
           \A s \in sighted' : Touches(bs, s),
           ~hasOcr => \A s \in sighted' : Answers(bs, s)
    PROVE  IInv'
  <1>1. CASE merging /\ Len(bs) > 1
    <2> DEFINE out == MergeVehiclePlates(bs)
    <2>1. result' = out
      BY <1>1 DEF MergeIfMany
    <2>2. /\ out \in Seq(Box)
          /\ \A i, j \in DOMAIN out : i # j => ~Close(out[i], out[j])
          /\ \A i \in DOMAIN bs : \E k \in DOMAIN out : out[k].conf >= bs[i].conf
      BY MergeKeeps
    <2> HIDE DEF out
    <2>3. \A s \in sighted' : \E b \in Range(out) : b.conf >= s[2]
      <3> TAKE s \in sighted'
      <3>1. PICK b \in Range(bs) : b.conf >= s[2]
        BY DEF Touches
      <3>2. PICK i \in DOMAIN bs : bs[i] = b
        BY <3>1 DEF Range
      <3>3. PICK k \in DOMAIN out : out[k].conf >= bs[i].conf
        BY <2>2
      <3>4. out[k].conf \in Int /\ bs[i].conf \in Int /\ s[2] \in Int
        BY <2>2, BoxesTyped
      <3>5. out[k] \in Range(out) /\ out[k].conf >= s[2]
        BY <3>1, <3>2, <3>3, <3>4 DEF Range
      <3> QED
        BY <3>5
    <2>4. OnePerVehicle'
      BY <2>1, <2>2, <2>3 DEF OnePerVehicle
    <2>5. Answered'
      BY <1>1, <2>4 DEF Answered, SightingsAnswered, BestSightingSurvives, options
    <2>6. DetectTypeOK'
      BY <2>1, <2>2 DEF DetectTypeOK, options
    <2> QED
      BY <2>5, <2>6 DEF IInv, StagesInOrder, BoxesInPlates, SightingsKept, Scanning,
                        ScannedPlatesAreWhole, options
  <1>2. CASE ~(merging /\ Len(bs) > 1)
    <2>1. result' = bs
      BY <1>2 DEF MergeIfMany
    <2>2. \A s \in sighted' : \E b \in Range(bs) : b.conf >= s[2]
      BY DEF Touches
    <2>3. ASSUME merging
          PROVE  OnePerVehicle'
      <3>1. \A i, j \in DOMAIN bs : i = j
        BY <1>2, <2>3, BoxesTyped
      <3> QED
        BY <2>1, <2>2, <3>1 DEF OnePerVehicle
    <2>4. SightingsAnswered'
      BY <2>1 DEF SightingsAnswered, Touches, Area, Meet
    <2>5. BestSightingSurvives'
      BY <2>1 DEF BestSightingSurvives, Answers, InPlate, Inside, options
    <2>6. Answered'
      BY <2>3, <2>4, <2>5 DEF Answered, OnePerVehicle, options
    <2>7. DetectTypeOK'
      BY <2>1 DEF DetectTypeOK, options
    <2> QED
      BY <2>6, <2>7 DEF IInv, StagesInOrder, BoxesInPlates, SightingsKept, Scanning,
                        ScannedPlatesAreWhole, options
  <1> QED
    BY <1>1, <1>2

\* While nothing is returned yet, the promises about the result hold.
LEMMA NotDone ==
    ASSUME pc' # "done"
    PROVE  Answered'
  BY DEF Answered, SightingsAnswered, BestSightingSurvives, OnePerVehicle, Done

\* The invariant holds initially.
LEMMA InitHolds == Init => IInv
  <1> SUFFICES ASSUME Init PROVE IInv
    OBVIOUS
  <1>1. DetectTypeOK
    BY DEF Init, DetectTypeOK
  <1>2. StagesInOrder
    BY DEF Init, StagesInOrder
  <1>3. Answered
    BY DEF Init, Answered, SightingsAnswered, BestSightingSurvives, OnePerVehicle, Done
  <1> QED
    BY <1>1, <1>2, <1>3 DEF Init, IInv, BoxesInPlates, SightingsKept, Scanning,
                            ScannedPlatesAreWhole

\* One inference of the whole frame.
LEMMA DetectWholeFrameStep == IInv /\ DetectWholeFrame => IInv'
  <1> SUFFICES ASSUME IInv, DetectWholeFrame PROVE IInv'
    OBVIOUS
  <1>1. PICK s \in Sightings(Frame, PlateConf) :
            result' = MergeIfMany(Boxes(Frame, s)) /\ sighted' = Sighted(s)
    BY DEF DetectWholeFrame
  <1> DEFINE bs == Boxes(Frame, s)
  <1>2. /\ bs \in Seq(Box) /\ Within(bs)
        /\ \A g \in Sighted(s) : g \in scene.plates \X Int /\ Answers(bs, g)
    BY BoxesOfFrame, Confidence DEF IInv, DetectTypeOK
  <1> HIDE DEF bs
  <1>3. \A g \in Sighted(s) : Touches(bs, g)
    <2> TAKE g \in Sighted(s)
    <2>1. PICK b \in Range(bs) : InPlate(b, g[1]) /\ b.conf >= g[2]
      BY <1>2 DEF Answers
    <2>2. g[1] \in Rect /\ b \in Box
      BY <1>2, SceneAssumption, BoxesTyped DEF IInv, DetectTypeOK, Range
    <2> QED
      BY <2>1, <2>2, InPlateTouches DEF Touches
  <1>4. local = <<>> /\ pc' = "done" /\ UNCHANGED <<options, vehicles, tiles, all, local>>
    BY DEF DetectWholeFrame, IInv, StagesInOrder
  <1>5. sighted' \subseteq scene.plates \X Int /\ result' = MergeIfMany(bs)
    BY <1>1, <1>2 DEF bs
  <1> QED
    BY <1>1, <1>2, <1>3, <1>4, <1>5, EndsWell DEF IInv

\* The tiled detector begins.
LEMMA StartTiledStep == IInv /\ StartTiled => IInv'
  <1> SUFFICES ASSUME IInv, StartTiled PROVE IInv'
    OBVIOUS
  <1>1. /\ UNCHANGED <<options, vehicles, tiles, local, all, result, sighted, whole>>
        /\ pc = "detect" /\ pc' = "tiled"
    BY DEF StartTiled
  <1>2. Answered'
    BY <1>1, NotDone
  <1>3. local = <<>>
    BY <1>1 DEF IInv, StagesInOrder
  <1> QED
    BY <1>1, <1>2, <1>3 DEF IInv, DetectTypeOK, StagesInOrder, BoxesInPlates, SightingsKept,
                            Scanning, ScannedPlatesAreWhole, options

\* All tiles are still to scan.
LEMMA SliceFrameStep == IInv /\ SliceFrame => IInv'
  <1> SUFFICES ASSUME IInv, SliceFrame PROVE IInv'
    OBVIOUS
  <1>1. /\ UNCHANGED <<options, vehicles, local, all, result, sighted, whole>>
        /\ pc = "tiled" /\ pc' = "batches" /\ tiles' = Tiles
    BY DEF SliceFrame
  <1>2. local = <<>> /\ all = <<>> /\ sighted = {} /\ scene \in Scenes
    BY <1>1 DEF IInv, StagesInOrder, DetectTypeOK
  <1>3. DetectTypeOK'
    BY <1>1, <1>2, TilesOfGrid DEF IInv, DetectTypeOK, options
  <1>4. StagesInOrder'
    BY <1>1, <1>2 DEF IInv, StagesInOrder, options
  <1>5. BoxesInPlates' /\ SightingsKept'
    BY <1>1, <1>2 DEF BoxesInPlates, SightingsKept, Within, Range
  <1>6. ScannedPlatesAreWhole'
    <2>1. Tiles' = Tiles
      BY <1>1 DEF Tiles, Stride, options
    <2> QED
      BY <1>1, <2>1 DEF ScannedPlatesAreWhole
  <1>7. Answered'
    BY <1>1, NotDone
  <1> QED
    BY <1>3, <1>4, <1>5, <1>6, <1>7 DEF IInv

\* A batch of tiles: its boxes, moved by the corners of their tiles, answer its
\* sightings, and what lies whole in them has been seen whole.
LEMMA ScanBatchStep == IInv /\ ScanBatch => IInv'
  <1> SUFFICES ASSUME IInv, ScanBatch PROVE IInv'
    OBVIOUS
  <1> DEFINE n == Lower(BatchSize, Len(tiles))
             batch == SubSeq(tiles, 1, n)
             rest == SubSeq(tiles, n + 1, Len(tiles))
             views == UNION {{i} \X Visible(batch[i]) : i \in 1..n}
  <1>1. /\ pc = "batches" /\ pc' = "batches" /\ tiles # <<>>
        /\ UNCHANGED <<options, vehicles, local, result>>
    BY DEF ScanBatch
  <1>2. PICK s \in [views -> Values(PlateConf)] :
            LET seen == [i \in 1..n |-> [p \in Visible(batch[i]) |-> s[<<i, p>>]]]
                moved == [i \in 1..n |->
                             ShiftAll(Boxes(batch[i], seen[i]), batch[i].x1, batch[i].y1)]
            IN  /\ all' = all \o FlattenSeq(moved)
                /\ sighted' = sighted \cup UNION {Sighted(seen[i]) : i \in 1..n}
                /\ whole' = whole \cup UNION {Whole(batch[i]) : i \in 1..n}
                /\ tiles' = rest
    BY DEF ScanBatch
  <1> DEFINE seen == [i \in 1..n |-> [p \in Visible(batch[i]) |-> s[<<i, p>>]]]
             moved == [i \in 1..n |->
                          ShiftAll(Boxes(batch[i], seen[i]), batch[i].x1, batch[i].y1)]
  <1>3. /\ scene \in Scenes /\ tiles \in Seq(Rect) /\ all \in Seq(Box)
        /\ local = <<>> /\ scene' = scene
    BY <1>1 DEF IInv, DetectTypeOK, StagesInOrder, options
  <1>4. n \in Nat \ {0} /\ n \in 0..Len(tiles)
    <2>1. BatchSize \in Nat \ {0} /\ Len(tiles) \in Nat /\ Len(tiles) # 0
      BY <1>1, <1>3, DetectorAssumption
    <2> QED
      BY <2>1 DEF Lower
  <1>5. /\ batch \in [1..n -> Rect]
        /\ rest \in Seq(Rect)
        /\ \A t \in Range(tiles) : (\E i \in 1..n : t = batch[i]) \/ t \in Range(rest)
    <2> HIDE DEF n
    <2> QED
      BY <1>3, <1>4, RestOfList
  <1> HIDE DEF n, batch, rest
  <1>6. \A i \in 1..n : seen[i] \in Sightings(batch[i], PlateConf)
    <2> TAKE i \in 1..n
    <2>1. \A p \in Visible(batch[i]) : <<i, p>> \in views
      OBVIOUS
    <2>2. \A p \in Visible(batch[i]) : s[<<i, p>>] \in Values(PlateConf)
      <3> HIDE DEF views
      <3> QED
        BY <1>2, <2>1
    <2> QED
      BY <2>2 DEF Sightings
  <1> HIDE DEF seen, views
  <1>7. \A i \in 1..n :
            /\ moved[i] \in Seq(Box) /\ Within(moved[i])
            /\ \A g \in Sighted(seen[i]) : g \in scene.plates \X Int /\ Answers(moved[i], g)
    <2> TAKE i \in 1..n
    <2>1. batch[i] \in Rect
      BY <1>5
    <2> QED
      BY <1>3, <1>6, <2>1, Confidence, BoxesOfSighting
  <1>8. moved \in [1..n -> Seq(Box)]
    BY <1>7
  <1>9. /\ all' = all \o FlattenSeq(moved)
        /\ sighted' = sighted \cup UNION {Sighted(seen[i]) : i \in 1..n}
        /\ whole' = whole \cup UNION {Whole(batch[i]) : i \in 1..n}
        /\ tiles' = rest
    BY <1>2 DEF seen
  <1> HIDE DEF moved
  <1> DEFINE new == FlattenSeq(moved)
  <1>10. /\ new \in Seq(Box) /\ Within(new)
         /\ \A i \in 1..n : \A g \in Sighted(seen[i]) : Answers(new, g)
    BY <1>4, <1>7, <1>8, FlatWithin
  <1> HIDE DEF new
  <1>11. /\ all' \in Seq(Box)
         /\ Within(all) => Within(all')
         /\ \A g : Answers(all, g) \/ Answers(new, g) => Answers(all', g)
    <2>1. all' = all \o new
      BY <1>9 DEF new
    <2> QED
      BY <1>3, <1>10, <2>1, LongerWithin
  <1>12. sighted' \subseteq scene.plates \X Int
    BY <1>7, <1>9 DEF IInv, DetectTypeOK
  <1>13. DetectTypeOK'
    BY <1>1, <1>5, <1>9, <1>11, <1>12 DEF IInv, DetectTypeOK, options
  <1>14. StagesInOrder'
    BY <1>1, <1>3 DEF IInv, StagesInOrder, options
  <1>15. BoxesInPlates'
    <2>1. ~hasOcr => Within(all)
      BY <1>1 DEF IInv, BoxesInPlates, Scanning
    <2>2. (~hasOcr => Within(all))'
      BY <1>1, <1>3, <1>11, <2>1 DEF Within, options
    <2>3. local' = <<>>
      BY <1>1, <1>3
    <2> QED
      BY <2>2, <2>3 DEF BoxesInPlates
  <1>16. SightingsKept'
    <2>1. \A g \in sighted : Answers(all, g)
      BY <1>1, <1>3 DEF IInv, SightingsKept, Scanning
    <2>2. \A g \in sighted' : Answers(all', g)
      BY <1>9, <1>10, <1>11, <2>1
    <2> QED
      BY <2>2 DEF SightingsKept, Answers, InPlate, Inside
  <1>17. ScannedPlatesAreWhole'
    <2>1. Tiles' = Tiles
      BY <1>3 DEF Tiles, Stride
    <2>2. \A t : Whole(t)' = Whole(t)
      BY <1>3 DEF Whole, Inside
    <2>3. \A t \in Range(Tiles) : t \in Range(tiles) \/ Whole(t) \subseteq whole
      BY <1>1 DEF IInv, ScannedPlatesAreWhole
    <2>4. \A t \in Range(Tiles) : t \in Range(tiles') \/ Whole(t) \subseteq whole'
      <3> TAKE t \in Range(Tiles)
      <3>1. CASE Whole(t) \subseteq whole
        BY <1>9, <3>1
      <3>2. CASE t \in Range(tiles)
        <4>1. CASE t \in Range(rest)
          BY <1>9, <4>1
        <4>2. CASE \E i \in 1..n : t = batch[i]
          BY <1>9, <4>2
        <4> QED
          BY <1>5, <3>2, <4>1, <4>2
      <3> QED
        BY <2>3, <3>1, <3>2
    <2> QED
      BY <2>1, <2>2, <2>4 DEF ScannedPlatesAreWhole
  <1>18. Answered'
    BY <1>1, NotDone
  <1> QED
    BY <1>13, <1>14, <1>15, <1>16, <1>17, <1>18 DEF IInv

\* The full frame and the suppression of all boxes.
LEMMA FullFramePassStep == IInv /\ FullFramePass => IInv'
  <1> SUFFICES ASSUME IInv, FullFramePass PROVE IInv'
    OBVIOUS
  <1>1. PICK s \in Sightings(Frame, PlateConf) :
            /\ result' = MergeIfMany(NMS(all \o Boxes(Frame, s)))
            /\ sighted' = sighted \cup Sighted(s)
    BY DEF FullFramePass
  <1>2. /\ pc = "batches" /\ pc' = "done" /\ local = <<>>
        /\ UNCHANGED <<options, vehicles, tiles, all, local>>
    BY DEF FullFramePass, IInv, StagesInOrder
  <1>3. scene \in Scenes /\ all \in Seq(Box) /\ sighted \subseteq scene.plates \X Int
    BY DEF IInv, DetectTypeOK
  <1> DEFINE new == Boxes(Frame, s)
             bs == all \o new
             out == NMS(bs)
  <1>4. /\ new \in Seq(Box) /\ Within(new)
        /\ \A g \in Sighted(s) : g \in scene.plates \X Int /\ Answers(new, g)
    BY <1>3, BoxesOfFrame, Confidence
  <1>5. result' = MergeIfMany(out)
    BY <1>1
  <1> HIDE DEF new
  <1>6. /\ bs \in Seq(Box) /\ (Within(all) => Within(bs))
        /\ \A g : Answers(all, g) \/ Answers(new, g) => Answers(bs, g)
    BY <1>3, <1>4, LongerWithin
  <1> HIDE DEF bs
  <1>7. Suppresses(out, bs) /\ out \in Seq(Box)
    BY <1>6, NMSSuppresses DEF Suppresses
  <1> HIDE DEF out
  <1>8. sighted' \subseteq scene.plates \X Int
    BY <1>1, <1>3, <1>4
  <1>9. \A g \in sighted' : Answers(bs, g)
    <2>1. \A g \in sighted : Answers(all, g)
      BY <1>2 DEF IInv, SightingsKept, Scanning
    <2> QED
      BY <1>1, <1>4, <1>6, <2>1
  <1>10. \A g \in sighted' : Touches(out, g)
    BY <1>3, <1>6, <1>7, <1>8, <1>9, SuppressedInFrame
  <1>11. ~hasOcr => \A g \in sighted' : Answers(out, g)
    <2>1. ~hasOcr => Within(bs)
      BY <1>2, <1>6 DEF IInv, BoxesInPlates, Scanning
    <2> QED
      BY <1>3, <1>6, <1>7, <1>8, <1>9, <2>1, SuppressedInFrame
  <1> QED
    BY <1>2, <1>5, <1>7, <1>8, <1>10, <1>11, EndsWell DEF IInv

\* The suppression of the boxes of all vehicles.
LEMMA EndVehiclesStep == IInv /\ EndVehicles => IInv'
  <1> SUFFICES ASSUME IInv, EndVehicles PROVE IInv'
    OBVIOUS
  <1>1. /\ pc = "vehicles" /\ pc' = "done" /\ local = <<>> /\ ~merging
        /\ UNCHANGED <<options, vehicles, tiles, all, local, sighted>>
    BY DEF EndVehicles, IInv, StagesInOrder
  <1>2. scene \in Scenes /\ all \in Seq(Box) /\ sighted \subseteq scene.plates \X Int
    BY DEF IInv, DetectTypeOK
  <1> DEFINE out == NMSIfMany(all)
  <1>3. result' = MergeIfMany(out)
    BY <1>1 DEF EndVehicles, MergeIfMany
  <1>4. Suppresses(out, all) /\ out \in Seq(Box)
    BY <1>2, NMSSuppresses DEF Suppresses
  <1> HIDE DEF out
  <1>5. \A g \in sighted : Answers(all, g)
    BY <1>1 DEF IInv, SightingsKept, Scanning
  <1>6. \A g \in sighted' : Touches(out, g)
    BY <1>1, <1>2, <1>4, <1>5, SuppressedInFrame
  <1>7. ~hasOcr => \A g \in sighted' : Answers(out, g)
    <2>1. ~hasOcr => Within(all)
      BY <1>1 DEF IInv, BoxesInPlates, Scanning
    <2> QED
      BY <1>1, <1>2, <1>4, <1>5, <2>1, SuppressedInFrame
  <1>8. sighted' \subseteq scene.plates \X Int
    BY <1>1, <1>2
  <1> QED
    BY <1>1, <1>3, <1>4, <1>6, <1>7, <1>8, EndsWell DEF IInv

\* A vehicle's crop is a rectangle of integers.
LEMMA CropTyped ==
    ASSUME scene \in Scenes, NEW v \in scene.vehicles
    PROVE  CropOf(v) \in Rect
  <1>1. /\ v.x1 \in Int /\ v.x2 \in Int /\ v.y1 \in Int /\ v.y2 \in Int
        /\ scene.w \in Nat /\ scene.h \in Nat
    BY SceneAssumption
  <1>2. Padding \in Nat /\ MotorcyclePadding \in Nat
    BY DetectorAssumption
  <1> DEFINE padding == IF IsMotorcycle(v) THEN MotorcyclePadding ELSE Padding
             px == (v.x2 - v.x1) * padding
             py == (v.y2 - v.y1) * padding
  <1>3. padding \in Nat
    BY <1>2
  <1> HIDE DEF padding
  <1>4. px \in Int /\ py \in Int
    BY <1>1, <1>3
  <1> DEFINE a1 == (100 * v.x1 - px) \div 100
             b1 == (100 * v.y1 - py) \div 100
             a2 == (100 * v.x2 + px) \div 100
             b2 == (100 * v.y2 + py) \div 100
  <1>5. CropOf(v) = [x1 |-> Upper(0, a1), y1 |-> Upper(0, b1),
                     x2 |-> Lower(scene.w, a2), y2 |-> Lower(scene.h, b2)]
    BY DEF CropOf, padding
  <1> HIDE DEF px, py
  <1>6. a1 \in Int /\ b1 \in Int /\ a2 \in Int /\ b2 \in Int
    BY <1>1, <1>4
  <1> HIDE DEF a1, b1, a2, b2
  <1>7. /\ Upper(0, a1) \in Int /\ Upper(0, b1) \in Int
        /\ Lower(scene.w, a2) \in Int /\ Lower(scene.h, b2) \in Int
    BY <1>1, <1>6 DEF Upper, Lower
  <1> QED
    BY <1>5, <1>7 DEF Rect

\* The head of the list is a vehicle of the frame, and so are the others.
LEMMA HeadOfVehicles ==
    ASSUME DetectTypeOK, vehicles # <<>>
    PROVE  /\ Head(vehicles) \in scene.vehicles
           /\ Tail(vehicles) \in Seq(scene.vehicles)
           /\ CropOf(Head(vehicles)) \in Rect
           /\ CropOf(Head(vehicles)).x1 \in Int /\ CropOf(Head(vehicles)).y1 \in Int
  <1>1. Head(vehicles) \in scene.vehicles /\ Tail(vehicles) \in Seq(scene.vehicles)
    BY DEF DetectTypeOK
  <1>2. CropOf(Head(vehicles)) \in Rect
    BY <1>1, CropTyped DEF DetectTypeOK
  <1> QED
    BY <1>1, <1>2 DEF Rect

\* What is moved of two lists.
LEMMA ShiftedLonger ==
    ASSUME NEW a \in Seq(Box), NEW b \in Seq(Box), NEW dx \in Int, NEW dy \in Int
    PROVE  LET both == ShiftAll(a \o b, dx, dy)
           IN  /\ Within(ShiftAll(a, dx, dy)) /\ Within(ShiftAll(b, dx, dy)) => Within(both)
               /\ \A g : Answers(ShiftAll(a, dx, dy), g) \/ Answers(ShiftAll(b, dx, dy), g)
                            => Answers(both, g)
  <1> DEFINE c == a \o b
             sa == ShiftAll(a, dx, dy)
             sb == ShiftAll(b, dx, dy)
             sc == ShiftAll(c, dx, dy)
  <1>1. c \in Seq(Box) /\ \A x : x \in Range(c) <=> x \in Range(a) \/ x \in Range(b)
    BY JoinedList
  <1> HIDE DEF c
  <1>2. /\ \A x : x \in Range(sa) <=> \E y \in Range(a) : x = Shift(y, dx, dy)
        /\ \A x : x \in Range(sb) <=> \E y \in Range(b) : x = Shift(y, dx, dy)
        /\ \A x : x \in Range(sc) <=> \E y \in Range(c) : x = Shift(y, dx, dy)
    BY <1>1, ShiftedList
  <1> HIDE DEF sa, sb, sc
  <1>3. \A x : x \in Range(sc) <=> x \in Range(sa) \/ x \in Range(sb)
    BY <1>1, <1>2
  <1>4. Within(sa) /\ Within(sb) => Within(sc)
    BY <1>3 DEF Within
  <1>5. \A g : Answers(sa, g) \/ Answers(sb, g) => Answers(sc, g)
    BY <1>3 DEF Answers
  <1> QED
    BY <1>4, <1>5 DEF sa, sb, sc, c

\* No box answers nothing.
LEMMA NothingIsEmpty ==
    \A dx, dy : Within(ShiftAll(<<>>, dx, dy)) /\ \A g : ~Answers(ShiftAll(<<>>, dx, dy), g)
  BY DEF Within, Answers, Range, ShiftAll

\* With nothing of a motorcycle at hand, the frame's boxes decide.
LEMMA WithoutLocal ==
    ASSUME pc' = "vehicles", mode' = "hierarchical", local' = <<>>,
           DetectTypeOK', ~merging', ~hasOcr' => Within(all'),
           scene' = scene, \A g \in sighted' : Answers(all', g)
    PROVE  IInv'
  <1>1. StagesInOrder'
    BY DEF StagesInOrder
  <1>2. BoxesInPlates'
    BY DEF BoxesInPlates, Within
  <1>3. SightingsKept'
    BY DEF SightingsKept, Answers, InPlate, Inside
  <1>4. Answered'
    BY NotDone
  <1> QED
    BY <1>1, <1>2, <1>3, <1>4 DEF IInv, ScannedPlatesAreWhole

\* The vehicles are found, or the tiled detector takes over.
LEMMA DetectVehiclesStep == IInv /\ DetectVehicles => IInv'
  <1> SUFFICES ASSUME IInv, DetectVehicles PROVE IInv'
    OBVIOUS
  <1>1. /\ pc = "detect" /\ mode = "hierarchical" /\ pc' \in {"tiled", "vehicles"}
        /\ UNCHANGED <<options, pass, tiles, local, all, result, sighted, whole>>
    BY DEF DetectVehicles
  <1>2. local = <<>> /\ all = <<>> /\ sighted = {} /\ ~merging
    BY <1>1 DEF IInv, StagesInOrder
  <1>3. vehicles' \in Seq(scene.vehicles)
    <2>1. PICK found \in SUBSET scene.vehicles : vehicles' \in SetToSeqs(found)
      BY DEF DetectVehicles
    <2>2. IsFiniteSet(found)
      BY SceneAssumption, FS_Subset DEF IInv, DetectTypeOK
    <2>3. Cardinality(found) \in Nat
      BY <2>2, FS_CardinalityType
    <2>4. vehicles' \in [1..Cardinality(found) -> found]
      BY <2>1 DEF SetToSeqs
    <2>5. vehicles' \in [1..Cardinality(found) -> scene.vehicles]
      BY <2>4
    <2> QED
      BY <2>3, <2>5
  <1>4. DetectTypeOK'
    BY <1>1, <1>3 DEF IInv, DetectTypeOK, options
  <1>5. StagesInOrder' /\ BoxesInPlates' /\ SightingsKept'
    BY <1>1, <1>2 DEF IInv, StagesInOrder, BoxesInPlates, SightingsKept, Within, Range, options
  <1>6. Answered'
    BY <1>1, NotDone
  <1> QED
    BY <1>1, <1>4, <1>5, <1>6 DEF IInv, ScannedPlatesAreWhole

\* One inference of a car's crop.
LEMMA ScanCarStep == IInv /\ ScanCar => IInv'
  <1> SUFFICES ASSUME IInv, ScanCar PROVE IInv'
    OBVIOUS
  <1> DEFINE crop == CropOf(Head(vehicles))
  <1>1. /\ pc = "vehicles" /\ vehicles # <<>> /\ ~IsMotorcycle(Head(vehicles))
        /\ vehicles' = Tail(vehicles)
        /\ UNCHANGED <<pc, options, pass, tiles, local, result, whole>>
    BY DEF ScanCar
  <1>2. PICK s \in Sightings(crop, PlateConf) :
            /\ all' = all \o ShiftAll(Boxes(crop, s), crop.x1, crop.y1)
            /\ sighted' = sighted \cup Sighted(s)
    BY DEF ScanCar
  <1>3. /\ local = <<>> /\ mode = "hierarchical" /\ ~merging
        /\ scene \in Scenes /\ all \in Seq(Box)
    BY <1>1 DEF IInv, DetectTypeOK, StagesInOrder
  <1>4. crop \in Rect /\ Tail(vehicles) \in Seq(scene.vehicles)
    BY <1>1, HeadOfVehicles DEF IInv
  <1> DEFINE new == ShiftAll(Boxes(crop, s), crop.x1, crop.y1)
  <1> HIDE DEF crop
  <1>5. /\ new \in Seq(Box) /\ Within(new)
        /\ \A g \in Sighted(s) : g \in scene.plates \X Int /\ Answers(new, g)
    BY <1>3, <1>4, Confidence, BoxesOfSighting
  <1> HIDE DEF new
  <1>6. /\ all' \in Seq(Box) /\ (Within(all) => Within(all'))
        /\ \A g : Answers(all, g) \/ Answers(new, g) => Answers(all', g)
    <2>1. all' = all \o new
      BY <1>2 DEF new
    <2> QED
      BY <1>3, <1>5, <2>1, LongerWithin
  <1>7. DetectTypeOK'
    BY <1>1, <1>2, <1>4, <1>5, <1>6 DEF IInv, DetectTypeOK, options
  <1>8. ~hasOcr => Within(all')
    BY <1>1, <1>6 DEF IInv, BoxesInPlates, Scanning
  <1>9. \A g \in sighted' : Answers(all', g)
    <2>1. \A g \in sighted : Answers(all, g)
      BY <1>1, <1>3 DEF IInv, SightingsKept, Scanning
    <2> QED
      BY <1>2, <1>5, <1>6, <2>1
  <1> QED
    BY <1>1, <1>3, <1>7, <1>8, <1>9, WithoutLocal DEF options

\* One scale of a motorcycle's crop: its boxes stay in the crop's coordinates.
LEMMA ScanMotorcycleStep == IInv /\ ScanMotorcycle => IInv'
  <1> SUFFICES ASSUME IInv, ScanMotorcycle PROVE IInv'
    OBVIOUS
  <1> DEFINE crop == CropOf(Head(vehicles))
  <1>1. /\ pc = "vehicles" /\ vehicles # <<>> /\ IsMotorcycle(Head(vehicles))
        /\ UNCHANGED <<pc, options, vehicles, tiles, all, result, whole>>
    BY DEF ScanMotorcycle
  <1>2. PICK s \in Sightings(crop, MotorcycleConf) :
            /\ local' = local \o Boxes(crop, s)
            /\ sighted' = sighted \cup Sighted(s)
    BY DEF ScanMotorcycle
  <1>3. mode = "hierarchical" /\ ~merging /\ scene \in Scenes /\ local \in Seq(Box)
    BY <1>1 DEF IInv, DetectTypeOK, StagesInOrder
  <1>4. crop \in Rect /\ crop.x1 \in Int /\ crop.y1 \in Int
    BY <1>1, HeadOfVehicles DEF IInv
  <1>5. Here = ShiftAll(local, crop.x1, crop.y1)
    BY DEF Here
  <1>6. crop' = crop
    BY <1>1 DEF CropOf, IsMotorcycle, options
  <1>7. Here' = ShiftAll(local', crop.x1, crop.y1)
    <2>1. Here' = ShiftAll(local', crop'.x1, crop'.y1)
      BY DEF Here, ShiftAll, Shift
    <2> HIDE DEF crop
    <2> QED
      BY <1>6, <2>1
  <1> HIDE DEF crop
  <1> DEFINE new == Boxes(crop, s)
             moved == ShiftAll(new, crop.x1, crop.y1)
  <1>8. /\ new \in Seq(Box) /\ Within(moved)
        /\ \A g \in Sighted(s) : g \in scene.plates \X Int /\ Answers(moved, g)
    BY <1>3, <1>4, Confidence, BoxesOfSighting
  <1>9. local' = local \o new
    BY <1>2
  <1> HIDE DEF new
  <1>10. local' \in Seq(Box)
    BY <1>3, <1>8, <1>9, LongerWithin
  <1> DEFINE here == ShiftAll(local, crop.x1, crop.y1)
             after == ShiftAll(local', crop.x1, crop.y1)
  <1>11. /\ Within(here) /\ Within(moved) => Within(after)
         /\ \A g : Answers(here, g) \/ Answers(moved, g) => Answers(after, g)
    BY <1>3, <1>4, <1>8, <1>9, ShiftedLonger
  <1>12. Within(here)
    <2>1. CASE local = <<>>
      BY <2>1, NothingIsEmpty
    <2>2. CASE local # <<>>
      BY <1>5, <2>2 DEF IInv, BoxesInPlates
    <2> QED
      BY <2>1, <2>2
  <1>13. \A g : Answers(after, g) => local' # <<>>
    BY NothingIsEmpty
  <1>14. \A g \in sighted : Answers(all, g) \/ Answers(here, g)
    BY <1>1, <1>5 DEF IInv, SightingsKept, Scanning
  <1> HIDE DEF moved, here, after
  <1>15. \A g \in sighted' : Answers(all, g) \/ Answers(after, g)
    BY <1>2, <1>8, <1>11, <1>14
  <1>16. Here' = after
    BY <1>7 DEF after
  <1>17. DetectTypeOK'
    BY <1>1, <1>2, <1>8, <1>10 DEF IInv, DetectTypeOK, options
  <1>18. StagesInOrder'
    BY <1>1, <1>3 DEF IInv, StagesInOrder, IsMotorcycle, options
  <1>19. BoxesInPlates'
    <2>1. Within(after) /\ (~hasOcr => Within(all))
      BY <1>1, <1>8, <1>11, <1>12 DEF IInv, BoxesInPlates, Scanning
    <2>2. Within(Here)'
      BY <1>1, <1>16, <2>1 DEF Within, options
    <2>3. (~hasOcr => Within(all))'
      BY <1>1, <2>1 DEF Within, options
    <2> QED
      BY <2>2, <2>3 DEF BoxesInPlates
  <1>20. SightingsKept'
    <2>1. \A g : Answers(all, g)' <=> Answers(all, g)
      BY <1>1 DEF Answers, InPlate, Inside
    <2>2. \A g : Answers(Here, g)' <=> Answers(after, g)
      BY <1>16 DEF Answers, InPlate, Inside
    <2>3. \A g \in sighted' : Answers(all, g)' \/ (local' # <<>> /\ Answers(Here, g)')
      BY <1>13, <1>15, <2>1, <2>2 DEF after
    <2> QED
      BY <2>3 DEF SightingsKept
  <1>21. Answered'
    BY <1>1, NotDone
  <1> QED
    BY <1>1, <1>17, <1>18, <1>19, <1>20, <1>21 DEF IInv, ScannedPlatesAreWhole

\* The boxes of all scales are merged and moved into the frame.
LEMMA EndMotorcycleStep == IInv /\ EndMotorcycle => IInv'
  <1> SUFFICES ASSUME IInv, EndMotorcycle PROVE IInv'
    OBVIOUS
  <1> DEFINE crop == CropOf(Head(vehicles))
  <1>1. /\ pc = "vehicles" /\ vehicles # <<>>
        /\ vehicles' = Tail(vehicles) /\ local' = <<>>
        /\ UNCHANGED <<pc, options, tiles, result, sighted, whole>>
    BY DEF EndMotorcycle
  <1>2. PICK boxes \in IF local = <<>> /\ hasOcr THEN OcrScan(crop) ELSE {NMSIfMany(local)} :
            all' = all \o ShiftAll(boxes, crop.x1, crop.y1)
    BY DEF EndMotorcycle
  <1>3. /\ mode = "hierarchical" /\ ~merging /\ scene \in Scenes
        /\ local \in Seq(Box) /\ all \in Seq(Box) /\ sighted \subseteq scene.plates \X Int
    BY <1>1 DEF IInv, DetectTypeOK, StagesInOrder
  <1>4. /\ crop \in Rect /\ crop.x1 \in Int /\ crop.y1 \in Int
        /\ Tail(vehicles) \in Seq(scene.vehicles)
    BY <1>1, HeadOfVehicles DEF IInv
  <1>5. local # <<>> => Within(ShiftAll(local, crop.x1, crop.y1))
    BY DEF IInv, BoxesInPlates, Here
  <1>6. \A g \in sighted : \/ Answers(all, g)
                           \/ local # <<>> /\ Answers(ShiftAll(local, crop.x1, crop.y1), g)
    BY <1>1 DEF IInv, SightingsKept, Scanning, Here
  <1> HIDE DEF crop
  <1> DEFINE here == ShiftAll(local, crop.x1, crop.y1)
             new == ShiftAll(boxes, crop.x1, crop.y1)
  <1>7. /\ new \in Seq(Box)
        /\ ~hasOcr => Within(new)
        /\ \A g \in sighted : local # <<>> /\ Answers(here, g) => Answers(new, g)
    <2>1. CASE local = <<>> /\ hasOcr
      <3>1. boxes \in OcrScan(crop)
        BY <1>2, <2>1
      <3>2. boxes \in Seq(Box)
        <4>1. CASE boxes = <<>>
          BY <4>1
        <4>2. CASE boxes # <<>>
          <5>1. PICK c \in Confidences : boxes = Window(crop, c)
            BY <3>1, <4>2 DEF OcrScan
          <5>2. c \in 1..100
            BY DetectorAssumption
          <5>3. c \div 2 \in Int
            BY <5>2
          <5>4. crop.x2 - crop.x1 \in Int /\ crop.y2 - crop.y1 \in Int
            BY <1>4 DEF Rect
          <5>5. (3 * (crop.y2 - crop.y1)) \div 10 \in Int
            BY <5>4
          <5>6. boxes = <<[x1 |-> 0, y1 |-> (3 * (crop.y2 - crop.y1)) \div 10,
                           x2 |-> crop.x2 - crop.x1, y2 |-> crop.y2 - crop.y1,
                           conf |-> c \div 2]>>
            BY <5>1 DEF Window
          <5>7. [x1 |-> 0, y1 |-> (3 * (crop.y2 - crop.y1)) \div 10,
                 x2 |-> crop.x2 - crop.x1, y2 |-> crop.y2 - crop.y1,
                 conf |-> c \div 2] \in Box
            BY <5>3, <5>4, <5>5 DEF Box
          <5> QED
            BY <5>6, <5>7
        <4> QED
          BY <4>1, <4>2
      <3>3. new \in Seq(Box)
        BY <1>4, <3>2, ShiftedList
      <3> QED
        BY <2>1, <3>3
    <2>2. CASE ~(local = <<>> /\ hasOcr)
      <3>1. boxes = NMSIfMany(local)
        BY <1>2, <2>2
      <3>2. Suppresses(boxes, local) /\ boxes \in Seq(Box)
        BY <1>3, <3>1, NMSSuppresses DEF Suppresses
      <3>3. new \in Seq(Box)
        BY <1>4, <3>2, ShiftedList
      <3>4. /\ Within(here) => Within(new)
            /\ Within(here) => \A g \in scene.plates \X Int : Answers(here, g) => Answers(new, g)
        BY <1>3, <1>4, <3>2, SuppressedList
      <3>5. Within(here)
        BY <1>5, NothingIsEmpty
      <3> HIDE DEF here, new
      <3> QED
        BY <1>3, <3>3, <3>4, <3>5
    <2> QED
      BY <2>1, <2>2
  <1> HIDE DEF new, here
  <1>8. /\ all' \in Seq(Box) /\ (Within(all) /\ Within(new) => Within(all'))
        /\ \A g : Answers(all, g) \/ Answers(new, g) => Answers(all', g)
    <2>1. all' = all \o new
      BY <1>2 DEF new
    <2> QED
      BY <1>3, <1>7, <2>1, LongerWithin
  <1>9. DetectTypeOK'
    BY <1>1, <1>4, <1>8 DEF IInv, DetectTypeOK, options
  <1>10. ~hasOcr => Within(all')
    BY <1>1, <1>7, <1>8 DEF IInv, BoxesInPlates, Scanning
  <1>11. \A g \in sighted' : Answers(all', g)
    BY <1>1, <1>6, <1>7, <1>8 DEF here
  <1> QED
    BY <1>1, <1>3, <1>9, <1>10, <1>11, WithoutLocal DEF options

\* A stuttering step.
LEMMA StutterStep == IInv /\ UNCHANGED vars => IInv'
  <1> SUFFICES ASSUME IInv, UNCHANGED vars PROVE IInv'
    OBVIOUS
  <1>1. /\ UNCHANGED <<pc, mode, merging, hasOcr, scene, vehicles, tiles>>
        /\ UNCHANGED <<local, all, result, sighted, whole>>
    BY DEF vars, options
  <1>2. DetectTypeOK' /\ StagesInOrder'
    BY <1>1 DEF IInv, DetectTypeOK, StagesInOrder, IsMotorcycle
  <1>3. Here' = Here
    BY <1>1 DEF Here, CropOf, IsMotorcycle, ShiftAll, Shift
  <1>4. BoxesInPlates'
    BY <1>1, <1>3 DEF IInv, BoxesInPlates, Within, Scanning, InPlate, Inside
  <1>5. SightingsKept'
    BY <1>1, <1>3 DEF IInv, SightingsKept, Answers, Scanning, InPlate, Inside
  <1>6. ScannedPlatesAreWhole'
    <2>1. Tiles' = Tiles /\ \A t : Whole(t)' = Whole(t)
      BY <1>1 DEF Tiles, Stride, Whole, Inside
    <2> QED
      BY <1>1, <2>1 DEF IInv, ScannedPlatesAreWhole
  <1>7. Answered'
    <2>1. SightingsAnswered' /\ BestSightingSurvives' = BestSightingSurvives
      BY <1>1 DEF IInv, Answered, SightingsAnswered, BestSightingSurvives, Touches, Done,
                  Area, Meet, Inside
    <2>2. OnePerVehicle'
      BY <1>1 DEF IInv, Answered, OnePerVehicle, Done, Close
    <2> QED
      BY <1>1, <2>1, <2>2 DEF IInv, Answered
  <1> QED
    BY <1>2, <1>4, <1>5, <1>6, <1>7 DEF IInv

-------------------------------------------------------------------------------
(* Theorems *)

\* The invariant of the plain, the tiled and the hierarchical detector.
THEOREM Invariance == Spec => []IInv
  <1>1. IInv /\ [Next]_vars => IInv'
    BY DetectWholeFrameStep, StartTiledStep, SliceFrameStep, ScanBatchStep, FullFramePassStep,
       DetectVehiclesStep, ScanCarStep, ScanMotorcycleStep, EndMotorcycleStep, EndVehiclesStep,
       StutterStep DEF Next
  <1> QED
    BY <1>1, InitHolds, PTL DEF Spec

\* For every frame whose plates share no pixel: what was seen of a plate in any tile, crop
\* or scale is reported inside the plate, at least as confidently as the best sighting,
\* unless an OCR's window, the bottom of a crop and no plate, may have outdone it.
THEOREM SightingsSurvive == Spec => []BestSightingSurvives
  <1>1. IInv => BestSightingSurvives
    BY DEF IInv, Answered
  <1> QED
    BY <1>1, Invariance, PTL

\* What is left with the OCR too: a reported box with at least that confidence covers some
\* of the plate.
THEOREM SightingsStayVisible == Spec => []SightingsAnswered
  <1>1. IInv => SightingsAnswered
    BY DEF IInv, Answered
  <1> QED
    BY <1>1, Invariance, PTL

\* _merge_vehicle_plates leaves no two boxes close to each other, whatever the order and the
\* chains in which they were joined, and keeps the most confident one.
THEOREM OneBoxPerVehicle == Spec => []OnePerVehicle
  <1>1. IInv => OnePerVehicle
    BY DEF IInv, Answered
  <1> QED
    BY <1>1, Invariance, PTL

\* For every frame and tile size, and every overlap whose stride is not 0: a plate no longer
\* than the overlap lies whole in one of the scanned tiles, the skipped slivers and the
\* rounding of the stride notwithstanding.
THEOREM NoPlateLostOnSeams == Spec => []SeamPlatesSeenWhole
  <1>1. ASSUME IInv, pc = "batches", tiles = <<>>, NEW p \in scene.plates,
               Upper(p.x2 - p.x1, p.y2 - p.y1) <= TileSize - Stride,
               \A c \in Corners(p) : \E t \in Range(Tiles) : Inside(c, t)
        PROVE  p \in whole
    <2>1. scene \in Scenes /\ p \in Rect
      BY <1>1, SceneAssumption DEF IInv, DetectTypeOK
    <2>2. p.x1 \in Int /\ p.y1 \in Int /\ p.x2 \in Int /\ p.y2 \in Int
      BY <2>1 DEF Rect
    <2>3. p.x2 - p.x1 <= TileSize - Stride /\ p.y2 - p.y1 <= TileSize - Stride
      BY <1>1, <2>2, StrideType DEF Upper
    <2> DEFINE first == [x1 |-> p.x1, y1 |-> p.y1, x2 |-> p.x1 + 1, y2 |-> p.y1 + 1]
               last == [x1 |-> p.x2 - 1, y1 |-> p.y2 - 1,
                        x2 |-> (p.x2 - 1) + 1, y2 |-> (p.y2 - 1) + 1]
    <2>4. first \in Corners(p) /\ last \in Corners(p)
      BY DEF Corners
    <2>5. PICK t1 \in Range(Tiles) : Inside(first, t1)
      BY <1>1, <2>4
    <2>6. PICK t2 \in Range(Tiles) : Inside(last, t2)
      BY <1>1, <2>4
    <2>7. p.x1 >= t1.x1 /\ p.y1 >= t1.y1
      BY <2>5 DEF Inside
    <2>8. p.x2 - 1 >= t2.x1 /\ p.y2 - 1 >= t2.y1 /\ p.x2 <= t2.x2 /\ p.y2 <= t2.y2
      BY <2>2, <2>6 DEF Inside
    <2>9. PICK t \in Range(Tiles) : Inside(p, t)
      BY <2>1, <2>3, <2>7, <2>8, SeamsAreCovered
    <2>10. Range(tiles) = {}
      BY <1>1 DEF Range
    <2>11. Whole(t) \subseteq whole
      BY <1>1, <2>10 DEF IInv, ScannedPlatesAreWhole
    <2> QED
      BY <2>9, <2>11 DEF Whole
  <1>2. IInv => SeamPlatesSeenWhole
    BY <1>1 DEF SeamPlatesSeenWhole
  <1> QED
    BY <1>2, Invariance, PTL

-------------------------------------------------------------------------------
(* Part 2: the texts *)

Chars == Digit \cup Letter

\* Places in a list, from 0 to n.
Indices(S, n) == n \in Nat /\ S \subseteq 0..n /\ S # {}

\* after[i] are those that i is before, or as good as.
Orders(after, S) ==
    /\ \A i, j \in S : i # j => j \in after[i] \/ i \in after[j]
    /\ \A i, j, k \in S : j \in after[i] /\ k \in after[j] => k \in after[i]

\* Every finite total order has a first element: the induction is over the indices.
LEMMA FirstOfOrder ==
    ASSUME NEW n, NEW S, Indices(S, n), NEW after, Orders(after, S)
    PROVE  \E i \in S : \A j \in S : j # i => j \in after[i]
  <1> USE DEF Indices, Orders
  <1> DEFINE First(U, i) == i \in U /\ \A j \in U \ {i} : j \in after[i]
             T == {m \in 0..n : S \cap 0..m = {} \/ \E i \in S : First(S \cap 0..m, i)}
  <1>1. 0 \in T
    <2>1. S \cap 0..0 = {} \/ (0 \in S /\ S \cap 0..0 = {0})
      OBVIOUS
    <2> QED
      BY <2>1
  <1>2. ASSUME NEW m \in 1..n, m - 1 \in T
        PROVE  m \in T
    <2>1. S \cap 0..m = (S \cap 0..(m - 1)) \cup (S \cap {m})
      OBVIOUS
    <2>2. CASE m \notin S
      <3>1. S \cap 0..m = S \cap 0..(m - 1)
        BY <2>1, <2>2
      <3>2. m \in 0..n /\ m - 1 \in T
        BY <1>2
      <3> HIDE DEF First
      <3> QED
        BY <3>1, <3>2
    <2>3. CASE m \in S /\ S \cap 0..(m - 1) = {}
      <3>1. S \cap 0..m = {m}
        BY <2>1, <2>3
      <3> QED
        BY <2>3, <3>1
    <2>4. CASE m \in S /\ S \cap 0..(m - 1) # {}
      <3>1. PICK i \in S : First(S \cap 0..(m - 1), i)
        BY <1>2, <2>4
      <3>2. i # m
        BY <3>1
      <3>3. CASE m \in after[i]
        <4>1. First(S \cap 0..m, i)
          BY <2>1, <2>4, <3>1, <3>3
        <4> QED
          BY <4>1
      <3>4. CASE i \in after[m]
        <4>1. \A j \in (S \cap 0..m) \ {m} : j \in after[m]
          BY <2>1, <2>4, <3>1, <3>4
        <4>2. First(S \cap 0..m, m)
          BY <2>1, <2>4, <4>1
        <4> QED
          BY <2>4, <4>2
      <3> QED
        BY <2>4, <3>2, <3>3, <3>4
    <2> QED
      BY <2>2, <2>3, <2>4
  <1> HIDE DEF T
  <1>3. \A m \in 1..n : m - 1 \in T => m \in T
    BY <1>2
  <1>4. 0..n \subseteq T
    BY <1>1, <1>3, UpTo
  <1>5. n \in T
    BY <1>4
  <1>6. S \cap 0..n = S
    OBVIOUS
  <1> QED
    BY <1>5, <1>6 DEF T

\* The least and the greatest of a set of indices.
LEMMA EndsOf ==
    ASSUME NEW n, NEW S, Indices(S, n)
    PROVE  /\ Min(S) \in S /\ \A j \in S : Min(S) <= j
           /\ Max(S) \in S /\ \A j \in S : Max(S) >= j
  <1>0. n \in Nat /\ S \subseteq 0..n
    BY DEF Indices
  <1>1. Min(S) \in S /\ \A j \in S : Min(S) <= j
    <2> DEFINE after == [i \in S |-> {j \in S : i <= j}]
    <2>1. \A i, j \in S : j \in after[i] <=> i <= j
      OBVIOUS
    <2> HIDE DEF after
    <2>2. \E i \in S : \A j \in S : j # i => j \in after[i]
      <3>1. \A i, j \in S : i # j => j \in after[i] \/ i \in after[j]
        BY <1>0, <2>1
      <3>2. \A i, j, k \in S : j \in after[i] /\ k \in after[j] => k \in after[i]
        BY <1>0, <2>1
      <3> QED
        BY <3>1, <3>2, FirstOfOrder DEF Orders
    <2>3. \E i \in S : \A j \in S : i <= j
      <3>1. PICK i \in S : \A j \in S : j # i => j \in after[i]
        BY <2>2
      <3>2. ASSUME NEW j \in S PROVE i <= j
        <4>1. CASE i = j
          BY <1>0, <4>1
        <4>2. CASE i # j
          <5>1. j \in after[i]
            BY <3>1, <4>2
          <5> QED
            BY <2>1, <5>1
        <4> QED
          BY <4>1, <4>2
      <3> QED
        BY <3>2
    <2> QED
      BY <2>3 DEF Min
  <1>2. Max(S) \in S /\ \A j \in S : Max(S) >= j
    <2> DEFINE after == [i \in S |-> {j \in S : i >= j}]
    <2>1. \A i, j \in S : j \in after[i] <=> i >= j
      OBVIOUS
    <2> HIDE DEF after
    <2>2. \E i \in S : \A j \in S : j # i => j \in after[i]
      <3>1. \A i, j \in S : i # j => j \in after[i] \/ i \in after[j]
        <4>1. \A i, j \in S : i >= j \/ j >= i
          BY <1>0
        <4> QED
          BY <2>1, <4>1
      <3>2. \A i, j, k \in S : j \in after[i] /\ k \in after[j] => k \in after[i]
        BY <1>0, <2>1
      <3> QED
        BY <3>1, <3>2, FirstOfOrder DEF Orders
    <2>3. \E i \in S : \A j \in S : i >= j
      <3>1. PICK i \in S : \A j \in S : j # i => j \in after[i]
        BY <2>2
      <3>2. ASSUME NEW j \in S PROVE i >= j
        <4>1. CASE i = j
          BY <1>0, <4>1
        <4>2. CASE i # j
          <5>1. j \in after[i]
            BY <3>1, <4>2
          <5> QED
            BY <2>1, <5>1
        <4> QED
          BY <4>1, <4>2
      <3> QED
        BY <3>2
    <2> QED
      BY <2>3 DEF Max
  <1> QED
    BY <1>1, <1>2

\* A function on a set of indices takes a greatest value.
LEMMA Greatest ==
    ASSUME NEW n, NEW S, Indices(S, n), NEW f, \A i \in S : f[i] \in Int
    PROVE  \E i \in S : \A j \in S : f[i] >= f[j]
  <1> DEFINE after == [i \in S |-> {j \in S : f[i] >= f[j]}]
  <1>0. n \in Nat /\ S \subseteq 0..n
    BY DEF Indices
  <1>1. \A i, j \in S : j \in after[i] <=> f[i] >= f[j]
    OBVIOUS
  <1> HIDE DEF after
  <1>2. \A i, j \in S : i # j => j \in after[i] \/ i \in after[j]
    BY <1>1
  <1>3. \A i, j, k \in S : j \in after[i] /\ k \in after[j] => k \in after[i]
    BY <1>1
  <1>4. \E i \in S : \A j \in S : j # i => j \in after[i]
    BY <1>2, <1>3, FirstOfOrder DEF Orders
  <1> QED
    BY <1>1, <1>4

\* A list of n numbers.
Numbers(s, n) == n \in Nat /\ s \in [1..n -> Nat]

\* What Total adds up to, round by round.
Sums(sum, s, n) ==
    /\ sum \in [0..n -> Nat] /\ sum[0] = 0
    /\ \A k \in 1..n : sum[k] = sum[k - 1] + s[k]

\* The sum of a list runs through partial sums.
LEMMA TotalSums ==
    ASSUME NEW n, NEW s, Numbers(s, n)
    PROVE  \E sum : Sums(sum, s, n) /\ Total(s) = sum[n]
  <1> USE DEF Numbers
  <1> DEFINE G == [k \in 1..n |-> [acc \in Nat |-> acc + s[k]]]
             sum == CHOOSE f : f = [k \in 0..n |-> IF k = 0 THEN 0 ELSE f[k - 1] + s[k]]
  <1>1. \E f : IsRun(f, n, Nat, 0, G)
    <2>1. G \in [1..n -> [Nat -> Nat]]
      OBVIOUS
    <2> HIDE DEF G
    <2> QED
      BY <2>1, LoopRuns
  <1>2. PICK f : IsRun(f, n, Nat, 0, G)
    BY <1>1
  <1>3. Sums(f, s, n)
    <2>1. f \in [0..n -> Nat] /\ f[0] = 0 /\ \A k \in 1..n : f[k] = G[k][f[k - 1]]
      BY <1>2 DEF IsRun
    <2>2. ASSUME NEW k \in 1..n PROVE f[k] = f[k - 1] + s[k]
      <3>1. f[k - 1] \in Nat
        BY <2>1
      <3> QED
        BY <2>1, <3>1
    <2> QED
      BY <2>1, <2>2 DEF Sums
  <1>4. f = [k \in 0..n |-> IF k = 0 THEN 0 ELSE f[k - 1] + s[k]]
    BY <1>3 DEF Sums
  <1>5. sum = [k \in 0..n |-> IF k = 0 THEN 0 ELSE sum[k - 1] + s[k]]
    <2> HIDE DEF G
    <2> QED
      BY <1>4
  <1>6. Total(s) = sum[n]
    <2>1. Len(s) = n
      OBVIOUS
    <2> QED
      BY <2>1 DEF Total
  <1> HIDE DEF sum, G
  <1>7. sum[0] = 0 /\ \A k \in 1..n : k \in 0..n /\ sum[k] = sum[k - 1] + s[k]
    BY <1>5
  <1> DEFINE T == {k \in 0..n : sum[k] = f[k]}
  <1>8. 0 \in T /\ \A k \in 1..n : k - 1 \in T => k \in T
    BY <1>3, <1>7 DEF Sums
  <1>9. 0..n \subseteq T
    <2> HIDE DEF T
    <2> QED
      BY <1>8, UpTo
  <1>10. n \in T
    BY <1>9
  <1> QED
    BY <1>3, <1>6, <1>10

\* Lists that stay below a third one place by place stay below it in total.
LEMMA TotalGrows ==
    ASSUME NEW n, NEW f, NEW g, NEW h, Numbers(f, n), Numbers(g, n), Numbers(h, n),
           \A k \in 1..n : f[k] + g[k] <= h[k]
    PROVE  /\ Total(f) \in Nat /\ Total(g) \in Nat /\ Total(h) \in Nat
           /\ Total(f) + Total(g) <= Total(h)
  <1> USE DEF Numbers
  <1>1. PICK F : Sums(F, f, n) /\ Total(f) = F[n]
    BY TotalSums
  <1>2. PICK J : Sums(J, g, n) /\ Total(g) = J[n]
    BY TotalSums
  <1>3. PICK H : Sums(H, h, n) /\ Total(h) = H[n]
    BY TotalSums
  <1> USE DEF Sums
  <1> DEFINE T == {k \in 0..n : F[k] + J[k] <= H[k]}
  <1>4. 0 \in T
    BY <1>1, <1>2, <1>3
  <1>5. ASSUME NEW k \in 1..n, k - 1 \in T PROVE k \in T
    <2>0. k \in 0..n /\ k - 1 \in 0..n
      OBVIOUS
    <2>1. /\ F[k] = F[k - 1] + f[k] /\ J[k] = J[k - 1] + g[k] /\ H[k] = H[k - 1] + h[k]
          /\ F[k - 1] \in Nat /\ J[k - 1] \in Nat /\ H[k - 1] \in Nat
      BY <1>1, <1>2, <1>3, <2>0
    <2>2. f[k] \in Nat /\ g[k] \in Nat /\ h[k] \in Nat
      OBVIOUS
    <2>3. f[k] + g[k] <= h[k] /\ F[k - 1] + J[k - 1] <= H[k - 1]
      BY <1>5
    <2>4. \A a, b, c, x, y, z \in Nat : a + b <= c /\ x + y <= z => (x + a) + (y + b) <= z + c
      OBVIOUS
    <2> HIDE DEF Sums, Numbers, T
    <2>5. (F[k - 1] + f[k]) + (J[k - 1] + g[k]) <= H[k - 1] + h[k]
      BY <2>1, <2>2, <2>3, <2>4
    <2>6. F[k] + J[k] <= H[k]
      BY <2>1, <2>5
    <2> QED
      BY <2>0, <2>6 DEF T
  <1> HIDE DEF T
  <1>6. 0..n \subseteq T
    BY <1>4, <1>5, UpTo
  <1>7. n \in T
    BY <1>6
  <1>8. F[n] \in Nat /\ J[n] \in Nat /\ H[n] \in Nat
    BY <1>1, <1>2, <1>3
  <1> QED
    BY <1>1, <1>2, <1>3, <1>7, <1>8 DEF T

\* A text of some length.
IsText(t) == \E n \in Nat : t = [k \in 1..n |-> t[k]]

\* A text has a length.
LEMMA TextLength ==
    ASSUME NEW t, IsText(t)
    PROVE  Len(t) \in Nat /\ DOMAIN t = 1..Len(t) /\ t = [k \in 1..Len(t) |-> t[k]]
  <1>1. PICK n \in Nat : t = [k \in 1..n |-> t[k]]
    BY DEF IsText
  <1>2. DOMAIN t = 1..n
    BY <1>1
  <1>3. Len(t) = n
    BY <1>1, <1>2
  <1> QED
    BY <1>1, <1>2, <1>3

\* A read.
IsRead(r) == IsText(r.text) /\ r.conf \in Nat

\* A list of n reads.
IsReads(rs, n) == n \in Nat /\ DOMAIN rs = 1..n /\ \A k \in 1..n : IsRead(rs[k])

\* Sets of places in a list of n, counted.
LEMMA CountBelow ==
    ASSUME NEW n \in Nat, NEW A, NEW B, A \subseteq 1..n, B \subseteq 1..n
    PROVE  /\ Cardinality(A) \in Nat /\ Cardinality(B) \in Nat
           /\ A \subseteq B => Cardinality(A) <= Cardinality(B)
           /\ A \cap B = {} => Cardinality(A) + Cardinality(B) <= n
  <1>1. IsFiniteSet(1..n) /\ Cardinality(1..n) = n
    BY FS_Interval
  <1>2. IsFiniteSet(A) /\ IsFiniteSet(B)
    BY <1>1, FS_Subset
  <1>3. Cardinality(A) \in Nat /\ Cardinality(B) \in Nat
    BY <1>2, FS_CardinalityType
  <1>4. A \subseteq B => Cardinality(A) <= Cardinality(B)
    BY <1>2, FS_Subset
  <1>5. A \cap B = {} => Cardinality(A) + Cardinality(B) <= n
    <2> SUFFICES ASSUME A \cap B = {} PROVE Cardinality(A) + Cardinality(B) <= n
      OBVIOUS
    <2>1. Cardinality(A \cup B) = Cardinality(A) + Cardinality(B) - Cardinality({})
      BY <1>2, FS_Union
    <2>2. Cardinality({}) = 0
      BY FS_EmptySet
    <2>3. Cardinality(A \cup B) <= n
      <3>1. A \cup B \subseteq 1..n
        OBVIOUS
      <3> QED
        BY <1>1, <3>1, FS_Subset
    <2> QED
      BY <1>3, <2>1, <2>2, <2>3
  <1>6. Cardinality(A) = Cardinality(A) /\ Cardinality(B) = Cardinality(B)
    OBVIOUS
  <1> QED
    BY <1>3, <1>4, <1>5, <1>6

\* The confidence of the reads in S.
ConfOf(rs, S) == Total([j \in DOMAIN rs |-> IF j \in S THEN rs[j].conf ELSE 0])

\* The reads with the text of read i.
SameText(rs, i) == {j \in DOMAIN rs : rs[j].text = rs[i].text}

\* A text that more than half of the reads have, with more than half of the confidence, is
\* the vote: its length is the commonest, and at every place its character outweighs the
\* others, even all of them together.
LEMMA VoteOfMajority ==
    ASSUME NEW rs, NEW n, IsReads(rs, n), NEW i \in 1..n,
           2 * Cardinality(SameText(rs, i)) > n, 2 * ConfOf(rs, SameText(rs, i)) > ConfOf(rs, DOMAIN rs)
    PROVE  vote_consensus(rs) = rs[i].text
  <1> DEFINE L(j) == Len(rs[j].text)
             OfLength(m) == {j \in DOMAIN rs : Len(rs[j].text) = m}
             Most == {j \in DOMAIN rs : \A k \in DOMAIN rs :
                        Cardinality(OfLength(Len(rs[j].text)))
                          >= Cardinality(OfLength(Len(rs[k].text)))}
             dominant == Min(Most)
             filtered == OfLength(Len(rs[dominant].text))
             Has(pos, c) == [j \in DOMAIN rs |->
                               IF j \in filtered /\ rs[j].text[pos] = c THEN rs[j].conf ELSE 0]
             Weight(pos, c) == Total(Has(pos, c))
             Heaviest(pos) == {j \in filtered : \A k \in filtered :
                                 Weight(pos, rs[j].text[pos]) >= Weight(pos, rs[k].text[pos])}
             Best(pos) == Min(Heaviest(pos))
             same == SameText(rs, i)
  <1>1. /\ vote_consensus(rs) = [pos \in 1..Len(rs[dominant].text) |-> rs[Best(pos)].text[pos]]
    BY DEF vote_consensus
  <1>2. n \in Nat /\ DOMAIN rs = 1..n /\ \A k \in 1..n : IsRead(rs[k])
    BY DEF IsReads
  <1>3. \A k \in 1..n : rs[k].conf \in Nat /\ L(k) \in Nat
    BY <1>2, TextLength DEF IsRead
  <1>4. same \subseteq OfLength(L(i)) /\ same \subseteq 1..n /\ i \in same
    BY <1>2 DEF SameText
  <1>5. \A m : OfLength(m) \subseteq 1..n
    BY <1>2
  <1>6. ASSUME NEW k \in 1..n, L(k) # L(i)
        PROVE  ~(Cardinality(OfLength(L(k))) >= Cardinality(OfLength(L(i))))
    <2>1. same \cap OfLength(L(k)) = {}
      BY <1>4, <1>6
    <2> DEFINE A == OfLength(L(k))
               B == OfLength(L(i))
    <2>2. A \subseteq 1..n /\ B \subseteq 1..n /\ same \subseteq B /\ same \cap A = {}
      BY <1>4, <1>5, <2>1
    <2> HIDE DEF A, B, same
    <2>3. /\ Cardinality(A) \in Nat /\ Cardinality(B) \in Nat
          /\ Cardinality(same) \in Nat
          /\ Cardinality(same) <= Cardinality(B)
          /\ Cardinality(same) + Cardinality(A) <= n
      BY <1>2, <1>4, <2>2, CountBelow
    <2>4. 2 * Cardinality(same) > n
      BY DEF same
    <2>5. ~(Cardinality(A) >= Cardinality(B))
      BY <1>2, <2>3, <2>4
    <2> QED
      BY <2>5 DEF A, B
  <1>7. i \in Most /\ \A k \in Most : L(k) = L(i)
    <2>1. \A m : Cardinality(OfLength(m)) \in Nat
      <3> TAKE m
      <3> DEFINE A == OfLength(m)
      <3>1. A \subseteq 1..n
        BY <1>5
      <3> HIDE DEF A
      <3>2. Cardinality(A) \in Nat
        BY <1>2, <3>1, CountBelow
      <3> QED
        BY <3>2 DEF A
    <2> DEFINE Count(m) == Cardinality(OfLength(m))
    <2>2. Most = {j \in DOMAIN rs : \A k \in DOMAIN rs : Count(L(j)) >= Count(L(k))}
      OBVIOUS
    <2>3. \A m : Count(m) \in Nat
      BY <2>1
    <2>4. \A k \in 1..n : L(k) # L(i) => ~(Count(L(k)) >= Count(L(i)))
      BY <1>6
    <2> HIDE DEF Most, Count
    <2>5. \A k \in 1..n : Count(L(i)) >= Count(L(k))
      <3> TAKE k \in 1..n
      <3>1. CASE L(k) = L(i)
        BY <2>3, <3>1
      <3>2. CASE L(k) # L(i)
        BY <2>3, <2>4, <3>2
      <3> QED
        BY <3>1, <3>2
    <2>6. i \in Most
      BY <1>2, <2>2, <2>5
    <2>7. \A k \in Most : L(k) = L(i)
      BY <1>2, <2>2, <2>4
    <2> QED
      BY <2>6, <2>7
  <1>8. dominant \in 1..n /\ L(dominant) = L(i)
    <2>2. Most \subseteq 1..n
      BY <1>2
    <2> HIDE DEF Most
    <2>4. Most \subseteq 0..n /\ Most # {}
      BY <1>2, <1>7, <2>2
    <2>1. Indices(Most, n)
      BY <1>2, <2>4 DEF Indices
    <2>3. dominant \in Most
      BY <2>1, EndsOf
    <2> QED
      BY <1>7, <2>2, <2>3
  <1> HIDE DEF dominant
  <1>9. filtered = OfLength(L(i)) /\ filtered \subseteq 1..n /\ i \in filtered
    BY <1>2, <1>4, <1>8
  <1> HIDE DEF filtered
  <1>10. ASSUME NEW pos \in 1..L(i)
         PROVE  Best(pos) \in 1..n /\ rs[Best(pos)].text[pos] = rs[i].text[pos]
    <2> DEFINE char(j) == rs[j].text[pos]
               none == [j \in 1..n |-> 0]
               mine == [j \in DOMAIN rs |-> IF j \in same THEN rs[j].conf ELSE 0]
               every == [j \in DOMAIN rs |-> IF j \in DOMAIN rs THEN rs[j].conf ELSE 0]
    <2>1. \A c : Numbers(Has(pos, c), n)
      BY <1>2, <1>3 DEF Numbers
    <2>2. Numbers(none, n) /\ Numbers(mine, n) /\ Numbers(every, n)
      BY <1>2, <1>3 DEF Numbers
    <2>3. /\ Total(mine) = ConfOf(rs, same) /\ Total(every) = ConfOf(rs, DOMAIN rs)
      BY DEF ConfOf
    <2>4. Total(mine) <= Weight(pos, char(i))
      <3>1. \A k \in 1..n : mine[k] + none[k] <= Has(pos, char(i))[k]
        <4> TAKE k \in 1..n
        <4>1. k \in same => k \in filtered /\ rs[k].text[pos] = char(i)
          BY <1>4, <1>9 DEF SameText
        <4> QED
          BY <1>2, <1>3, <4>1
      <3> DEFINE h == Has(pos, char(i))
      <3>2. Numbers(h, n) /\ \A k \in 1..n : mine[k] + none[k] <= h[k]
        BY <2>1, <3>1
      <3> HIDE DEF h, mine, none
      <3>3. /\ Total(mine) \in Nat /\ Total(none) \in Nat /\ Total(h) \in Nat
            /\ Total(mine) + Total(none) <= Total(h)
        BY <2>2, <3>2, TotalGrows
      <3>4. Total(mine) <= Total(h)
        BY <3>3
      <3> QED
        BY <3>4 DEF h
    <2>5. ASSUME NEW k \in 1..n, char(k) # char(i)
          PROVE  ~(Weight(pos, char(k)) >= Weight(pos, char(i)))
      <3> DEFINE f == Has(pos, char(k))
                 h == Has(pos, char(i))
      <3>1. \A j \in 1..n : f[j] + h[j] <= every[j]
        <4> TAKE j \in 1..n
        <4>1. f[j] = (IF j \in filtered /\ rs[j].text[pos] = char(k) THEN rs[j].conf ELSE 0)
          BY <1>2
        <4>2. h[j] = (IF j \in filtered /\ rs[j].text[pos] = char(i) THEN rs[j].conf ELSE 0)
          BY <1>2
        <4>3. every[j] = rs[j].conf
          BY <1>2
        <4> HIDE DEF f, h, every
        <4> QED
          BY <1>3, <2>5, <4>1, <4>2, <4>3
      <3>2. Numbers(f, n) /\ Numbers(h, n)
        BY <2>1
      <3> HIDE DEF f, h, every, mine
      <3>3. /\ Total(f) \in Nat /\ Total(h) \in Nat /\ Total(every) \in Nat
            /\ Total(f) + Total(h) <= Total(every)
        BY <2>2, <3>1, <3>2, TotalGrows
      <3>4. Total(mine) <= Total(h)
        BY <2>4 DEF h
      <3>5. 2 * Total(mine) > Total(every)
        BY <2>3
      <3>6. Total(mine) \in Nat
        <4>1. \A k1 \in 1..n : mine[k1] + none[k1] <= mine[k1]
          BY <1>2, <1>3 DEF mine
        <4> HIDE DEF none
        <4> QED
          BY <2>2, <4>1, TotalGrows
      <3>7. ~(Total(f) >= Total(h))
        BY <3>3, <3>4, <3>5, <3>6
      <3> QED
        BY <3>7 DEF f, h
    <2> DEFINE weight(c) == Weight(pos, c)
               heaviest == Heaviest(pos)
    <2>6. heaviest = {j \in filtered : \A k \in filtered : weight(char(j)) >= weight(char(k))}
      OBVIOUS
    <2>7. \A c : weight(c) \in Nat
      <3> TAKE c
      <3> DEFINE h == Has(pos, c)
      <3>1. Numbers(h, n)
        BY <2>1
      <3> HIDE DEF h
      <3>2. \E sum : Sums(sum, h, n) /\ Total(h) = sum[n]
        BY <3>1, TotalSums
      <3>3. Total(h) \in Nat
        BY <1>2, <3>2 DEF Sums
      <3> QED
        BY <3>3 DEF h
    <2>8. \A k \in 1..n : char(k) # char(i) => ~(weight(char(k)) >= weight(char(i)))
      BY <2>5
    <2> HIDE DEF heaviest, weight
    <2>9. \A k \in 1..n : weight(char(i)) >= weight(char(k))
      <3> TAKE k \in 1..n
      <3>1. CASE char(k) = char(i)
        BY <2>7, <3>1
      <3>2. CASE char(k) # char(i)
        BY <2>7, <2>8, <3>2
      <3> QED
        BY <3>1, <3>2
    <2>10. i \in heaviest /\ \A k \in heaviest : k \in 1..n /\ char(k) = char(i)
      <3>1. i \in heaviest
        BY <1>9, <2>6, <2>9
      <3>2. \A k \in heaviest : k \in 1..n /\ char(k) = char(i)
        BY <1>9, <2>6, <2>8
      <3> QED
        BY <3>1, <3>2
    <2>11. heaviest \subseteq 0..n /\ heaviest # {}
      BY <1>2, <2>10
    <2>14. Indices(heaviest, n)
      BY <1>2, <2>11 DEF Indices
    <2>12. Min(heaviest) \in heaviest
      BY <2>14, EndsOf
    <2>13. Best(pos) = Min(heaviest)
      BY DEF heaviest
    <2> HIDE DEF Best
    <2> QED
      BY <2>10, <2>12, <2>13
  <1>11. rs[i].text = [pos \in 1..L(i) |-> rs[i].text[pos]]
    BY <1>2, TextLength DEF IsRead
  <1> HIDE DEF Best
  <1>12. vote_consensus(rs) = [pos \in 1..L(i) |-> rs[Best(pos)].text[pos]]
    BY <1>1, <1>8
  <1> QED
    BY <1>10, <1>11, <1>12

\* The integer average of a list is a natural number.
LEMMA Quotient == \A a \in Nat, b \in Nat \ {0} : a \div b \in Nat
  OBVIOUS

\* A match of the BH format ends within the text.
LEMMA BhBounds ==
    ASSUME NEW s, Len(s) \in Nat, NEW b \in 1..Len(s)
    PROVE  BhLength(s, b) \in 0..(Len(s) - b + 1)
  BY DEF BhLength

\* A match of the RTO format ends within the text; its district and its number, which has the
\* digit its series left, are digits or may stand for some.
LEMMA PlateMatch ==
    ASSUME NEW s, Len(s) \in Nat, NEW b \in 1..Len(s)
    PROVE  \/ PlateLength(s, b) = 0
           \/ \E n \in 5..11 : /\ PlateLength(s, b) = n /\ n <= Len(s) - b + 1
                               /\ s[b + 2] \in DClass /\ s[b + 3] \in DClass
                               /\ s[b + n - 1] \in DClass
  <1> DEFINE end == Len(s) - b + 1
             series == {k \in 0..3 : /\ 5 + k <= end
                                     /\ AllIn(s, b + 4, b + 3 + k, LClass)
                                     /\ s[b + 4 + k] \in DClass}
             k == Max(series)
             number == {m \in 1..4 : /\ 4 + k + m <= end
                                     /\ AllIn(s, b + 4 + k, b + 3 + k + m, DClass)}
             m == Max(number)
             starts == /\ end >= 5
                       /\ AllIn(s, b, b + 1, LClass)
                       /\ AllIn(s, b + 2, b + 3, DClass) /\ series # {}
  <1>1. PlateLength(s, b) = IF starts THEN 4 + k + m ELSE 0
    BY DEF PlateLength
  <1>2. CASE starts
    <2>1. series # {} /\ series \subseteq 0..3
      BY <1>2
    <2>2. Indices(series, 3)
      BY <2>1 DEF Indices
    <2>3. k \in series
      <3> HIDE DEF series
      <3> QED
        BY <2>2, EndsOf
    <2>4. k \in 0..3 /\ 5 + k <= end /\ s[b + 4 + k] \in DClass
      BY <2>3
    <2> HIDE DEF k
    <2>5. 1 \in number
      <3>1. \A i \in (b + 4 + k)..(b + 3 + k + 1) : i = b + 4 + k
        BY <2>4
      <3>2. 4 + k + 1 <= end
        BY <2>4
      <3> QED
        BY <2>4, <3>1, <3>2 DEF AllIn
    <2>6. number \subseteq 0..4
      OBVIOUS
    <2>7. Indices(number, 4)
      <3> HIDE DEF number
      <3> QED
        BY <2>5, <2>6 DEF Indices
    <2>8. m \in number
      <3> HIDE DEF number
      <3> QED
        BY <2>7, EndsOf
    <2>9. m \in 1..4 /\ 4 + k + m <= end /\ AllIn(s, b + 4 + k, b + 3 + k + m, DClass)
      BY <2>8
    <2>10. AllIn(s, b + 2, b + 3, DClass)
      BY <1>2
    <2> HIDE DEF number, m
    <2> DEFINE n == 4 + k + m
    <2>11. n \in 5..11 /\ n <= end /\ b + n - 1 \in (b + 4 + k)..(b + 3 + k + m)
      BY <2>4, <2>9
    <2>12. s[b + n - 1] \in DClass
      <3> HIDE DEF n
      <3> QED
        BY <2>9, <2>11 DEF AllIn
    <2>13. s[b + 2] \in DClass /\ s[b + 3] \in DClass
      BY <2>10 DEF AllIn
    <2> HIDE DEF starts
    <2>14. PlateLength(s, b) = n
      BY <1>1, <1>2
    <2> HIDE DEF n
    <2> QED
      BY <2>11, <2>12, <2>13, <2>14
  <1>3. CASE ~starts
    <2> HIDE DEF starts
    <2> QED
      BY <1>1, <1>3
  <1> QED
    BY <1>2, <1>3

\* So the match is no longer than the text.
LEMMA PlateBounds ==
    ASSUME NEW s, Len(s) \in Nat, NEW b \in 1..Len(s)
    PROVE  PlateLength(s, b) \in 0..(Len(s) - b + 1)
  <1>1. 0 \in 0..(Len(s) - b + 1)
    OBVIOUS
  <1>2. \A n \in 5..11 : n <= Len(s) - b + 1 => n \in 0..(Len(s) - b + 1)
    OBVIOUS
  <1> QED
    BY <1>1, <1>2, PlateMatch

\* A match is a part of the text.
LEMMA Cut ==
    ASSUME NEW S, NEW s \in Seq(S), NEW b \in 1..Len(s), NEW n \in 0..(Len(s) - b + 1)
    PROVE  SubSeq(s, b, b + n - 1) \in Seq(S)
  OBVIOUS

\* The part of the text that is taken for the plate.
LEMMA Found ==
    ASSUME NEW S, NEW s \in Seq(S), extract_indian_plate(s) # <<>>
    PROVE  \E b \in 1..Len(s) :
             \/ /\ BhLength(s, b) > 0
                /\ extract_indian_plate(s) = SubSeq(s, b, b + BhLength(s, b) - 1)
             \/ /\ BhLength(s, b) = 0 /\ PlateLength(s, b) >= 6
                /\ FixStateCode(s[b], s[b + 1]) \in INDIAN_STATE_CODES
                /\ extract_indian_plate(s) = SubSeq(s, b, b + PlateLength(s, b) - 1)
  <1> DEFINE bh == {b \in DOMAIN s : BhLength(s, b) > 0}
             valid == {b \in DOMAIN s : /\ PlateLength(s, b) > 0
                         /\ FixStateCode(s[b], s[b + 1]) \in INDIAN_STATE_CODES}
             longest == {b \in valid : \A c \in valid :
                           PlateLength(s, b) >= PlateLength(s, c)}
             first == Min(bh)
             start == Min(longest)
  <1>1. extract_indian_plate(s) =
          IF Len(s) < 6 THEN <<>>
          ELSE IF bh # {} THEN SubSeq(s, first, first + BhLength(s, first) - 1)
          ELSE IF valid = {} \/ PlateLength(s, start) < 6 THEN <<>>
          ELSE SubSeq(s, start, start + PlateLength(s, start) - 1)
    BY DEF extract_indian_plate
  <1>2. Len(s) \in Nat /\ DOMAIN s = 1..Len(s)
    OBVIOUS
  <1>3. CASE bh # {}
    <2>1. bh \subseteq 1..Len(s) /\ \A b \in bh : BhLength(s, b) > 0
      BY <1>2
    <2> HIDE DEF bh
    <2>2. Indices(bh, Len(s))
      BY <1>2, <1>3, <2>1 DEF Indices
    <2>3. first \in bh
      BY <2>2, EndsOf
    <2>4. first \in 1..Len(s) /\ BhLength(s, first) > 0
      BY <2>1, <2>3
    <2>5. extract_indian_plate(s) = SubSeq(s, first, first + BhLength(s, first) - 1)
      <3> HIDE DEF valid, longest, start, first
      <3> QED
        BY <1>1, <1>3
    <2> HIDE DEF first
    <2> QED
      BY <2>4, <2>5
  <1>4. CASE bh = {} /\ valid # {}
    <2>1. /\ valid \subseteq 1..Len(s)
          /\ \A b \in valid : FixStateCode(s[b], s[b + 1]) \in INDIAN_STATE_CODES
      BY <1>2
    <2>2. \A b \in 1..Len(s) : BhLength(s, b) = 0
      <3> TAKE b \in 1..Len(s)
      <3>1. BhLength(s, b) \in 0..(Len(s) - b + 1) /\ ~(BhLength(s, b) > 0)
        BY <1>2, <1>4, BhBounds
      <3> QED
        BY <3>1
    <2> HIDE DEF valid
    <2>3. Indices(valid, Len(s))
      BY <1>2, <1>4, <2>1 DEF Indices
    <2> DEFINE f == [b \in valid |-> PlateLength(s, b)]
    <2>4. \A b \in valid : f[b] = PlateLength(s, b) /\ f[b] \in Int
      BY <1>2, <2>1, PlateBounds
    <2> HIDE DEF f
    <2>5. \E b \in valid : \A c \in valid : f[b] >= f[c]
      BY <2>3, <2>4, Greatest
    <2>6. longest # {} /\ longest \subseteq valid
      BY <2>4, <2>5
    <2> HIDE DEF longest
    <2>7. Indices(longest, Len(s))
      BY <1>2, <2>1, <2>6 DEF Indices
    <2>8. start \in valid
      BY <2>6, <2>7, EndsOf
    <2> HIDE DEF start
    <2>9. start \in 1..Len(s) /\ PlateLength(s, start) \in 0..(Len(s) - start + 1)
      BY <1>2, <2>1, <2>8, PlateBounds
    <2>10. ~(PlateLength(s, start) < 6)
      <3> HIDE DEF bh, first
      <3> QED
        BY <1>1, <1>4
    <2>11. PlateLength(s, start) >= 6
      BY <2>9, <2>10
    <2>12. extract_indian_plate(s) = SubSeq(s, start, start + PlateLength(s, start) - 1)
      <3> HIDE DEF bh, first
      <3> QED
        BY <1>1, <1>4
    <2> QED
      BY <2>1, <2>2, <2>8, <2>9, <2>11, <2>12
  <1> HIDE DEF bh, valid, longest, first, start
  <1> QED
    BY <1>1, <1>3, <1>4

\* What is extracted is a part of the text.
LEMMA ExtractedText ==
    ASSUME NEW S, NEW s \in Seq(S)
    PROVE  extract_indian_plate(s) \in Seq(S)
  <1>1. <<>> \in Seq(S) /\ Len(s) \in Nat
    OBVIOUS
  <1> QED
    BY <1>1, Found, BhBounds, PlateBounds, Cut

\* The normalised plate is a text.
LEMMA NormalisedText ==
    ASSUME NEW S, NEW s \in Seq(S)
    PROVE  IsText(normalize_plate_chars(s))
  <1>1. Len(s) \in Nat /\ DOMAIN s = 1..Len(s) /\ s = [k \in 1..Len(s) |-> s[k]]
    OBVIOUS
  <1> DEFINE state == FixStateCode(s[1], s[2])
             reg == RegStart(s, DIGIT_FIXES)
             fixed == [i \in DOMAIN s |->
                         CASE i <= 2 -> state[i]
                           [] i \in 3..4 -> Fix(DIGIT_FIXES, s[i])
                           [] i >= 5 /\ i < reg -> IF s[i] \in {"O", "0"} THEN "D"
                                                   ELSE Fix(LETTER_FIXES, s[i])
                           [] OTHER -> Fix(DIGIT_FIXES, s[i])]
  <1>2. normalize_plate_chars(s) = IF Len(s) < 6 \/ BhLength(s, 1) > 0 THEN s ELSE fixed
    BY DEF normalize_plate_chars
  <1>3. fixed = [k \in 1..Len(s) |-> fixed[k]]
    <2>1. fixed = [k \in DOMAIN s |-> fixed[k]]
      OBVIOUS
    <2> HIDE DEF fixed
    <2> QED
      BY <1>1, <2>1
  <1> HIDE DEF fixed
  <1> QED
    BY <1>1, <1>2, <1>3 DEF IsText

\* A line of a result.
IsLine(l) == l.text \in Seq(Chars) /\ l.cy \in Int /\ l.cx \in Int /\ l.conf \in Nat

\* A list of n lines.
IsLines(lines, n) ==
    /\ n \in Nat /\ DOMAIN lines = 1..n /\ lines = [k \in 1..n |-> lines[k]]
    /\ \A k \in 1..n : IsLine(lines[k])

\* The row of a line is an integer.
LEMMA RowType == \A cy \in Int : Row(cy) \in Int
  <1> TAKE cy \in Int
  <1> DEFINE q == cy \div 30
             r == cy % 30
  <1>1. q \in Int
    OBVIOUS
  <1>2. Row(cy) = IF r < 15 \/ (r = 15 /\ q % 2 = 0) THEN q ELSE q + 1
    BY DEF Row
  <1> HIDE DEF q, r
  <1> QED
    BY <1>1, <1>2

\* There is a first line among those left: rows, left edges and places order them totally.
LEMMA FirstLineIn ==
    ASSUME NEW lines, NEW n, IsLines(lines, n), NEW U, U \subseteq 1..n, U # {}
    PROVE  FirstLine(lines, U) \in U
  <1> DEFINE row == [i \in 1..n |-> Row(lines[i].cy)]
             cx == [i \in 1..n |-> lines[i].cx]
             after == [i \in U |-> {j \in U : Precedes(lines, i, j)}]
  <1>1. n \in Nat /\ \A i \in 1..n : IsLine(lines[i])
    BY DEF IsLines
  <1>2. \A i \in U : /\ i \in Int /\ row[i] \in Int /\ cx[i] \in Int
                     /\ row[i] = Row(lines[i].cy) /\ cx[i] = lines[i].cx
    <2> TAKE i \in U
    <2>1. i \in 1..n /\ lines[i].cy \in Int /\ lines[i].cx \in Int
      BY <1>1 DEF IsLine
    <2>2. Row(lines[i].cy) \in Int
      BY <2>1, RowType
    <2> QED
      BY <1>1, <2>1, <2>2
  <1> HIDE DEF row, cx
  <1>3. \A i, j \in U : Precedes(lines, i, j) <=>
          \/ row[i] < row[j]
          \/ row[i] = row[j] /\ cx[i] < cx[j]
          \/ row[i] = row[j] /\ cx[i] = cx[j] /\ i < j
    BY <1>2 DEF Precedes, ReadBefore
  <1>4. \A i, j \in U : j \in after[i] <=> Precedes(lines, i, j)
    OBVIOUS
  <1> HIDE DEF after
  <1>5. \A i, j \in U : i # j => j \in after[i] \/ i \in after[j]
    <2> SUFFICES ASSUME NEW i \in U, NEW j \in U, i # j
                 PROVE  Precedes(lines, i, j) \/ Precedes(lines, j, i)
      BY <1>4
    <2>1. /\ i \in Int /\ row[i] \in Int /\ cx[i] \in Int
          /\ j \in Int /\ row[j] \in Int /\ cx[j] \in Int
      BY <1>2
    <2>2. i < j \/ j < i
      BY <2>1
    <2> QED
      BY <1>3, <2>1, <2>2
  <1>6. \A i, j, k \in U : j \in after[i] /\ k \in after[j] => k \in after[i]
    BY <1>2, <1>3, <1>4
  <1>7. Indices(U, n)
    BY <1>1 DEF Indices
  <1>10. Orders(after, U)
    BY <1>5, <1>6 DEF Orders
  <1>8. \E i \in U : \A j \in U : j # i => j \in after[i]
    BY ONLY <1>7, <1>10, FirstOfOrder
  <1>9. \E i \in U : \A j \in U \ {i} : Precedes(lines, i, j)
    BY <1>4, <1>8
  <1> QED
    BY <1>9 DEF FirstLine

\* The sort, round by round: left[k] are the lines it has not taken after k rounds.
SortRounds(left, lines, kept, m) ==
    /\ left[0] = kept
    /\ \A k \in 1..m : left[k] = left[k - 1] \ {FirstLine(lines, left[k - 1])}
    /\ InOrder(lines, kept) = [k \in 1..m |-> lines[FirstLine(lines, left[k - 1])]]

\* Its loop has such rounds, as many as lines are kept.
LEMMA Sorting ==
    ASSUME NEW lines, NEW n \in Nat, NEW kept, kept \subseteq 1..n
    PROVE  /\ Cardinality(kept) \in Nat
           /\ \E left : SortRounds(left, lines, kept, Cardinality(kept))
  <1> DEFINE m == Cardinality(kept)
             left == CHOOSE f : f = [k \in 0..m |->
                       IF k = 0 THEN kept ELSE f[k - 1] \ {FirstLine(lines, f[k - 1])}]
             V == SUBSET (1..n)
             G == [k \in 1..m |-> [U \in V |-> U \ {FirstLine(lines, U)}]]
  <1>2. m \in Nat
    BY CountBelow
  <1>3. InOrder(lines, kept) = [k \in 1..m |-> lines[FirstLine(lines, left[k - 1])]]
    BY DEF InOrder
  <1> HIDE DEF m
  <1>4. PICK f : IsRun(f, m, V, kept, G)
    <2>1. kept \in V
      OBVIOUS
    <2>2. G \in [1..m -> [V -> V]]
      OBVIOUS
    <2> HIDE DEF V, G
    <2> QED
      BY <1>2, <2>1, <2>2, LoopRuns
  <1>5. /\ f \in [0..m -> V] /\ f[0] = kept
        /\ \A k \in 1..m : f[k] = G[k][f[k - 1]]
    BY <1>4 DEF IsRun
  <1>6. \A k \in 1..m : f[k] = f[k - 1] \ {FirstLine(lines, f[k - 1])}
    <2> TAKE k \in 1..m
    <2>1. k - 1 \in 0..m /\ k \in 0..m
      BY <1>2
    <2>2. f[k - 1] \in V
      BY <1>5, <2>1
    <2> QED
      BY <1>5, <2>1, <2>2
  <1> HIDE DEF G
  <1>7. f = [k \in 0..m |-> IF k = 0 THEN kept ELSE f[k - 1] \ {FirstLine(lines, f[k - 1])}]
    <2>1. f = [k \in 0..m |-> f[k]]
      BY <1>5
    <2>2. \A k \in 0..m : f[k] = IF k = 0 THEN kept
                                 ELSE f[k - 1] \ {FirstLine(lines, f[k - 1])}
      <3> TAKE k \in 0..m
      <3>1. k = 0 \/ k \in 1..m
        BY <1>2
      <3> QED
        BY <1>2, <1>5, <1>6, <3>1
    <2> QED
      BY <2>1, <2>2
  <1>8. left = [k \in 0..m |->
                  IF k = 0 THEN kept ELSE left[k - 1] \ {FirstLine(lines, left[k - 1])}]
    BY <1>7
  <1> HIDE DEF left
  <1>9. /\ left[0] = kept
        /\ \A k \in 1..m : left[k] = left[k - 1] \ {FirstLine(lines, left[k - 1])}
    <2>1. left[0] = kept
      BY <1>2, <1>8
    <2>2. ASSUME NEW k \in 1..m
          PROVE  left[k] = left[k - 1] \ {FirstLine(lines, left[k - 1])}
      <3>1. k \in 0..m /\ k # 0
        BY <1>2
      <3> QED
        BY <1>8, <3>1
    <2> QED
      BY <2>1, <2>2
  <1>10. SortRounds(left, lines, kept, m)
    BY <1>3, <1>9 DEF SortRounds
  <1> QED
    BY <1>2, <1>10 DEF m

\* The sort takes one line after the other, and only lines of the list.
LEMMA SortedLines ==
    ASSUME NEW lines, NEW n, IsLines(lines, n), NEW kept, kept \subseteq 1..n
    PROVE  \E m : IsLines(InOrder(lines, kept), m)
  <1> DEFINE m == Cardinality(kept)
  <1>1. n \in Nat /\ \A i \in 1..n : IsLine(lines[i])
    BY DEF IsLines
  <1>2. m \in Nat /\ m = Cardinality(kept)
    BY <1>1, CountBelow
  <1>4. PICK left : SortRounds(left, lines, kept, m)
    BY <1>1, Sorting
  <1> HIDE DEF m
  <1>3. InOrder(lines, kept) = [k \in 1..m |-> lines[FirstLine(lines, left[k - 1])]]
    BY <1>4 DEF SortRounds
  <1>6. \A k \in 1..m : k - 1 \in 0..m /\ k \in 0..m
    BY <1>2
  <1>9. /\ left[0] = kept
        /\ \A k \in 1..m : left[k] = left[k - 1] \ {FirstLine(lines, left[k - 1])}
    BY <1>4 DEF SortRounds
  <1> DEFINE T == {k \in 0..m : left[k] \subseteq 1..n /\ Cardinality(left[k]) = m - k}
  <1>10. ASSUME NEW U, U \subseteq 1..n, Cardinality(U) # 0
         PROVE  /\ FirstLine(lines, U) \in U
                /\ Cardinality(U \ {FirstLine(lines, U)}) = Cardinality(U) - 1
    <2>4. IsFiniteSet(1..n)
      BY <1>1, FS_Interval
    <2>1. IsFiniteSet(U)
      BY <1>10, <2>4, FS_Subset
    <2>2. U # {}
      BY <1>10, FS_EmptySet
    <2>3. FirstLine(lines, U) \in U
      BY <1>10, <2>2, FirstLineIn
    <2> QED
      BY <2>1, <2>3, FS_RemoveElement
  <1>11. 0 \in T
    <2>1. m - 0 = m /\ 0 \in 0..m
      BY <1>2
    <2>2. Cardinality(left[0]) = m
      BY <1>2, <1>9
    <2> QED
      BY <1>9, <2>1, <2>2
  <1>12. ASSUME NEW k \in 1..m, k - 1 \in T PROVE k \in T
    <2> DEFINE U == left[k - 1]
    <2>1. U \subseteq 1..n /\ Cardinality(U) = m - (k - 1) /\ k \in 0..m
      BY <1>2, <1>12
    <2>2. Cardinality(U) # 0 /\ Cardinality(U) - 1 = m - k
      BY <1>2, <2>1
    <2>3. left[k] = U \ {FirstLine(lines, U)}
      BY <1>9
    <2> HIDE DEF U
    <2>4. left[k] \subseteq 1..n /\ Cardinality(left[k]) = m - k
      BY <1>10, <2>1, <2>2, <2>3
    <2> QED
      BY <2>1, <2>4
  <1>13. 0..m \subseteq T
    <2> HIDE DEF T
    <2> QED
      BY <1>2, <1>11, <1>12, UpTo
  <1>14. ASSUME NEW k \in 1..m
         PROVE  FirstLine(lines, left[k - 1]) \in 1..n
    <2> DEFINE U == left[k - 1]
    <2>1. U \subseteq 1..n /\ Cardinality(U) = m - (k - 1)
      BY <1>6, <1>13
    <2>2. Cardinality(U) # 0
      BY <1>2, <2>1
    <2> HIDE DEF U
    <2>3. FirstLine(lines, U) \in 1..n
      BY <1>10, <2>1, <2>2
    <2> QED
      BY <2>3 DEF U
  <1>15. IsLines(InOrder(lines, kept), m)
    <2> DEFINE sorted == InOrder(lines, kept)
    <2>1. sorted = [k \in 1..m |-> lines[FirstLine(lines, left[k - 1])]]
      BY <1>3
    <2> HIDE DEF sorted
    <2>2. DOMAIN sorted = 1..m /\ sorted = [k \in 1..m |-> sorted[k]]
      BY <2>1
    <2>3. \A k \in 1..m : IsLine(sorted[k])
      BY <1>1, <1>14, <2>1
    <2> QED
      BY <1>2, <2>2, <2>3 DEF IsLines, sorted
  <1> QED
    BY <1>15

\* What the parser makes of the lines.
LEMMA ParsedRead ==
    ASSUME NEW lines, NEW n, IsLines(lines, n)
    PROVE  /\ parse_ocr_result(lines).text \in Seq(Chars)
           /\ parse_ocr_result(lines).conf \in Nat
  <1> DEFINE kept == {i \in DOMAIN lines :
                        lines[i].text # <<>> /\ lines[i].text \notin Stamps}
             valid == InOrder(lines, kept)
             texts == [i \in DOMAIN valid |-> valid[i].text]
             confs == [i \in DOMAIN valid |-> valid[i].conf]
  <1>1. parse_ocr_result(lines) =
          IF valid = <<>> THEN None
          ELSE [text |-> FlattenSeq(texts), conf |-> Total(confs) \div Len(valid)]
    BY DEF parse_ocr_result
  <1>2. kept \subseteq 1..n
    BY DEF IsLines
  <1> HIDE DEF kept
  <1>3. PICK m : IsLines(valid, m)
    BY <1>2, SortedLines
  <1> HIDE DEF valid
  <1>4. /\ m \in Nat /\ DOMAIN valid = 1..m /\ \A k \in 1..m : IsLine(valid[k])
        /\ valid = [k \in 1..m |-> valid[k]]
    BY <1>3 DEF IsLines
  <1>5. CASE valid = <<>>
    <2>1. <<>> \in Seq(Chars) /\ 0 \in Nat
      OBVIOUS
    <2> QED
      BY <1>1, <1>5, <2>1 DEF None
  <1>6. CASE valid # <<>>
    <2>1. valid \in [1..m -> {valid[k] : k \in 1..m}]
      BY <1>4
    <2>2. m # 0 /\ Len(valid) = m
      <3> PICK S : valid \in [1..m -> S] /\ S = {valid[k] : k \in 1..m}
        BY <2>1
      <3>1. valid \in Seq(S) /\ Len(valid) = m
        BY <1>4
      <3> QED
        BY <1>4, <1>6, <3>1
    <2>3. texts \in [1..m -> Seq(Chars)]
      BY <1>4 DEF IsLine
    <2>4. Numbers(confs, m)
      BY <1>4 DEF IsLine, Numbers
    <2> HIDE DEF texts, confs
    <2>5. FlattenSeq(texts) \in Seq(Chars)
      <3>1. m \in Nat \ {0}
        BY <1>4, <2>2
      <3> QED
        BY <2>3, <3>1, FlatList
    <2>6. Total(confs) \in Nat
      BY <1>4, <2>4, TotalSums DEF Sums
    <2>7. Total(confs) \div Len(valid) \in Nat
      BY <1>4, <2>2, <2>6, Quotient
    <2> QED
      BY <1>1, <1>6, <2>5, <2>7
  <1> QED
    BY <1>5, <1>6

\* The read of an image is a text and a confidence.
LEMMA ImageRead ==
    ASSUME NEW lines, NEW n, IsLines(lines, n)
    PROVE  IsRead(ReadImage(lines))
  <1> DEFINE parsed == parse_ocr_result(lines)
             found == extract_indian_plate(parsed.text)
  <1>1. ReadImage(lines) =
          IF parsed.text = <<>> \/ found = <<>> THEN None
          ELSE [text |-> normalize_plate_chars(found), conf |-> parsed.conf]
    BY DEF ReadImage
  <1>2. parsed.text \in Seq(Chars) /\ parsed.conf \in Nat
    BY ParsedRead
  <1> HIDE DEF parsed
  <1>3. found \in Seq(Chars)
    BY <1>2, ExtractedText
  <1> HIDE DEF found
  <1>4. IsText(normalize_plate_chars(found))
    BY <1>3, NormalisedText
  <1>5. IsRead(None)
    <2>1. <<>> = [k \in 1..0 |-> (<<>>)[k]]
      OBVIOUS
    <2> QED
      BY <2>1 DEF IsRead, IsText, None
  <1>6. IsRead([text |-> normalize_plate_chars(found), conf |-> parsed.conf])
    BY <1>2, <1>4 DEF IsRead
  <1> QED
    BY <1>1, <1>5, <1>6

\* A line of the library.
LEMMA LineType ==
    ASSUME NEW text \in Seq(Chars), NEW cy \in Nat, NEW cx \in Nat, NEW c \in Nat
    PROVE  IsLine(Line(text, cy, cx, c))
  BY DEF IsLine, Line

\* All the images are lists of lines.
LEMMA LinesSeen ==
    ASSUME NEW p \in Plates, NEW how \in Kinds, NEW c \in OcrConfidences,
           NEW lines \in Seen(p, how, c)
    PROVE  \E n : IsLines(lines, n)
  <1>1. p \in Seq(Chars) /\ Len(p) \in 6..11 /\ c \in Nat
    BY PlateTextAssumption DEF Chars
  <1>2. \A text \in Seq(Chars) : \A cy, cx \in Nat : IsLine(Line(text, cy, cx, c))
    BY <1>1, LineType
  <1>3. ASSUME NEW a, IsLine(a)
        PROVE  IsLines(<<a>>, 1)
    <2>1. <<a>> = [k \in 1..1 |-> (<<a>>)[k]] /\ DOMAIN <<a>> = 1..1
      OBVIOUS
    <2>2. \A k \in 1..1 : IsLine((<<a>>)[k])
      BY <1>3
    <2> QED
      BY <2>1, <2>2 DEF IsLines
  <1>4. ASSUME NEW a, NEW b, IsLine(a), IsLine(b)
        PROVE  IsLines(<<a, b>>, 2)
    <2>1. <<a, b>> = [k \in 1..2 |-> (<<a, b>>)[k]] /\ DOMAIN <<a, b>> = 1..2
      OBVIOUS
    <2>2. \A k \in 1..2 : IsLine((<<a, b>>)[k])
      <3>1. \A k \in 1..2 : k = 1 \/ k = 2
        OBVIOUS
      <3> QED
        BY <1>4, <3>1
    <2> QED
      BY <2>1, <2>2 DEF IsLines
  <1>5. ASSUME NEW i \in 1..Len(p), NEW d \in Chars
        PROVE  [p EXCEPT ![i] = d] \in Seq(Chars)
    BY <1>1, <1>5
  <1>6. Stamp \in Seq(Chars)
    BY DEF Stamp, Chars, Letter
  <1>7. CASE how = "exact"
    <2>1. SubSeq(p, 1, 4) \in Seq(Chars) /\ SubSeq(p, 5, Len(p)) \in Seq(Chars)
      BY <1>1
    <2> DEFINE start == SubSeq(p, 1, 4)
               rest == SubSeq(p, 5, Len(p))
               top == Line(start, 20, 9, c)
               bottom == Line(rest, 80, 5, c)
               one == Line(p, 40, 30, c)
    <2>2. lines \in {<<one>>, <<top, bottom>>, <<bottom, top>>}
      BY <1>7 DEF Seen, Exact
    <2>3. IsLine(top) /\ IsLine(bottom) /\ IsLine(one)
      <3> HIDE DEF start, rest
      <3>1. start \in Seq(Chars) /\ rest \in Seq(Chars)
        BY <2>1 DEF start, rest
      <3> QED
        BY <1>1, <1>2, <3>1
    <2> HIDE DEF top, bottom, one
    <2> QED
      BY <1>3, <1>4, <2>2, <2>3
  <1>8. CASE how = "tolerable"
    <2> DEFINE stamp == Line(Stamp, 40, 2, c)
               one == Line(p, 40, 30, c)
               Wrong(i, d) == Line([p EXCEPT ![i] = d], 40, 30, c)
    <2>1. IsLine(stamp) /\ IsLine(one)
      BY <1>1, <1>2, <1>6
    <2>2. \A i \in 1..Len(p) : \A d \in LooksLike(p[i]) : IsLine(Wrong(i, d))
      <3> TAKE i \in 1..Len(p)
      <3> TAKE d \in LooksLike(p[i])
      <3> DEFINE text == [p EXCEPT ![i] = d]
      <3>1. d \in Chars
        BY DEF LooksLike, Chars
      <3>2. text \in Seq(Chars)
        BY <1>5, <3>1
      <3> HIDE DEF text
      <3>3. IsLine(Line(text, 40, 30, c))
        BY <1>2, <3>2
      <3> QED
        BY <3>3 DEF text
    <2>3. \/ lines = <<stamp, one>>
          \/ \E i \in DOMAIN p : \E d \in LooksLike(p[i]) : lines = <<Wrong(i, d)>>
      BY <1>8 DEF Seen, Tolerable
    <2>4. DOMAIN p = 1..Len(p)
      BY <1>1
    <2> HIDE DEF stamp, one, Wrong
    <2> QED
      BY <1>3, <1>4, <2>1, <2>2, <2>3, <2>4
  <1>9. CASE how = "glued"
    <2> DEFINE text == Stamp \o p
    <2>1. text \in Seq(Chars)
      BY <1>1, <1>6
    <2>2. lines = <<Line(text, 40, 20, c)>>
      BY <1>9 DEF Seen, Glued
    <2> HIDE DEF text
    <2>3. IsLine(Line(text, 40, 20, c))
      BY <1>2, <2>1
    <2> QED
      BY <1>3, <2>2, <2>3
  <1>10. CASE how = "noisy"
    <2> DEFINE short == SubSeq(p, 1, Len(p) - 1)
               other == [p EXCEPT ![Len(p)] = "7"]
               cut == Line(short, 40, 25, c)
               wrong == Line(other, 40, 30, c)
    <2>1. lines = <<>> \/ lines = <<cut>> \/ lines = <<wrong>>
      BY <1>10 DEF Seen, Noisy
    <2>2. IsLine(cut)
      <3>1. short \in Seq(Chars)
        BY <1>1
      <3> HIDE DEF short
      <3> QED
        BY <1>2, <3>1
    <2>3. IsLine(wrong)
      <3>1. "7" \in Chars
        BY DEF Chars, Digit
      <3>2. Len(p) \in 1..Len(p)
        <4>1. \A n \in 6..11 : n \in 1..n
          OBVIOUS
        <4> QED
          BY <1>1, <4>1
      <3>3. other \in Seq(Chars)
        BY <1>5, <3>1, <3>2
      <3> HIDE DEF other
      <3> QED
        BY <1>2, <3>3
    <2>4. IsLines(<<>>, 0)
      <3>1. <<>> = [k \in 1..0 |-> (<<>>)[k]] /\ DOMAIN <<>> = 1..0
        OBVIOUS
      <3> QED
        BY <3>1 DEF IsLines
    <2> HIDE DEF cut, wrong
    <2> QED
      BY <1>3, <2>1, <2>2, <2>3, <2>4
  <1> QED
    BY <1>7, <1>8, <1>9, <1>10 DEF Kinds

\* The reads of all images of all plates.
Reads == UNION {Readings[ph] : ph \in Plates \X Kinds}

\* All the reads are texts with confidences.
LEMMA ReadsTyped ==
    ASSUME NEW r \in Reads
    PROVE  IsRead(r)
  <1>1. PICK ph \in Plates \X Kinds : r \in Readings[ph]
    BY DEF Reads
  <1>2. PICK c \in OcrConfidences : \E lines \in Seen(ph[1], ph[2], c) : r = ReadImage(lines)
    <2>1. Readings[ph] = {ReadImage(lines) : lines \in
                                 UNION {Seen(ph[1], ph[2], c) : c \in OcrConfidences}}
      BY DEF Readings
    <2> QED
      BY <1>1, <2>1
  <1>3. PICK lines \in Seen(ph[1], ph[2], c) : r = ReadImage(lines)
    BY <1>2
  <1>4. ph[1] \in Plates /\ ph[2] \in Kinds
    OBVIOUS
  <1>5. \E n : IsLines(lines, n)
    BY <1>4, LinesSeen
  <1> QED
    BY <1>3, <1>5, ImageRead

\* read_text returns one of its reads.
LEMMA OneOfThem ==
    ASSUME NEW given, NEW n, IsReads(given, n), n > 0
    PROVE  \E i \in 1..n : read_text(given) = given[i]
  <1> DEFINE sure == {i \in DOMAIN given : given[i].conf > 65}
             best == {i \in DOMAIN given : \A j \in DOMAIN given : given[i].conf >= given[j].conf}
             f == [i \in 1..n |-> given[i].conf]
  <1>1. read_text(given) = IF sure # {} THEN given[Min(sure)] ELSE given[Min(best)]
    BY DEF read_text
  <1>2. n \in Nat /\ DOMAIN given = 1..n /\ \A k \in 1..n : given[k].conf \in Nat
    BY DEF IsReads, IsRead
  <1>3. sure \subseteq 1..n /\ best \subseteq 1..n
    BY <1>2
  <1>4. best # {}
    <2> DEFINE S == 1..n
    <2>1. Indices(S, n)
      BY <1>2 DEF Indices
    <2>2. \A i \in S : f[i] = given[i].conf /\ f[i] \in Int
      BY <1>2
    <2>3. DOMAIN given = S
      BY <1>2
    <2> HIDE DEF S, f
    <2>4. \E i \in S : \A j \in S : f[i] >= f[j]
      BY ONLY <2>1, <2>2, Greatest
    <2> QED
      BY <2>2, <2>3, <2>4
  <1> HIDE DEF sure, best
  <1>5. Indices(best, n) /\ (sure # {} => Indices(sure, n))
    BY <1>2, <1>3, <1>4 DEF Indices
  <1>6. Min(best) \in best /\ (sure # {} => Min(sure) \in sure)
    BY <1>5, EndsOf
  <1> QED
    BY <1>1, <1>3, <1>6

\* The read of one image, or of two, is one of theirs.
LEMMA TwoReads ==
    ASSUME NEW p \in Plates, NEW how \in Kinds, NEW first \in Readings[<<p, how>>],
           NEW second \in Readings[<<p, how>>],
           NEW r \in {read_text(<<first>>), read_text(<<first, second>>)}
    PROVE  first \in Reads /\ second \in Reads /\ (r = first \/ r = second)
  <1>1. first \in Reads /\ second \in Reads
    <2>1. <<p, how>> \in Plates \X Kinds
      OBVIOUS
    <2> QED
      BY <2>1 DEF Reads
  <1>2. IsRead(first) /\ IsRead(second)
    BY <1>1, ReadsTyped
  <1>3. CASE r = read_text(<<first>>)
    <2> DEFINE given == <<first>>
    <2>1. IsReads(given, 1)
      BY <1>2 DEF IsReads
    <2>2. \A i \in 1..1 : given[i] = first
      OBVIOUS
    <2> HIDE DEF given
    <2>3. \E i \in 1..1 : read_text(given) = given[i]
      BY <2>1, OneOfThem
    <2> QED
      BY <1>1, <1>3, <2>2, <2>3 DEF given
  <1>4. CASE r = read_text(<<first, second>>)
    <2> DEFINE given == <<first, second>>
    <2>1. DOMAIN given = 1..2 /\ \A i \in 1..2 : given[i] = first \/ given[i] = second
      <3>1. \A i \in 1..2 : i = 1 \/ i = 2
        OBVIOUS
      <3> QED
        BY <3>1
    <2> HIDE DEF given
    <2>2. IsReads(given, 2)
      BY <1>2, <2>1 DEF IsReads
    <2>3. \E i \in 1..2 : read_text(given) = given[i]
      BY <2>2, OneOfThem
    <2> QED
      BY <1>1, <1>4, <2>1, <2>3 DEF given
  <1> QED
    BY <1>1, <1>3, <1>4

\* The inductive invariant: the reads of the track are reads of images of some plate.
TextInv == plate \in Plates /\ reads \in Seq(Reads) /\ MajorityWins

\* The vote over the reads of a track.
LEMMA VotedRight ==
    ASSUME NEW rs \in Seq(Reads), NEW i \in DOMAIN rs,
           2 * Cardinality(SameText(rs, i)) > Len(rs),
           2 * ConfOf(rs, SameText(rs, i)) > ConfOf(rs, DOMAIN rs)
    PROVE  vote_consensus(rs) = rs[i].text
  <1> DEFINE n == Len(rs)
  <1>1. n \in Nat /\ DOMAIN rs = 1..n /\ \A k \in 1..n : rs[k] \in Reads
    OBVIOUS
  <1>2. IsReads(rs, n)
    BY <1>1, ReadsTyped DEF IsReads
  <1>3. i \in 1..n
    BY <1>1
  <1> HIDE DEF n
  <1>4. 2 * Cardinality(SameText(rs, i)) > n
    BY DEF n
  <1> QED
    BY <1>2, <1>3, <1>4, VoteOfMajority

\* The invariant of the texts holds initially.
LEMMA TextInitInv == TextInit => TextInv
  BY DEF TextInit, TextInv, MajorityWins

\* A crop adds at most one of the reads of its images.
LEMMA ReadCropInv ==
    ASSUME TextInv, ReadCrop
    PROVE  TextInv'
  <1>1. stage' = stage /\ stage = "read" /\ plate' = plate
    BY DEF ReadCrop
  <1>2. PICK how \in Kinds : \E first, second \in Readings[<<plate, how>>] :
          \E r \in {read_text(<<first>>), read_text(<<first, second>>)} :
            reads' = IF r.text = <<>> THEN reads ELSE Append(reads, r)
    BY DEF ReadCrop
  <1>3. PICK first, second \in Readings[<<plate, how>>] :
          \E r \in {read_text(<<first>>), read_text(<<first, second>>)} :
            reads' = IF r.text = <<>> THEN reads ELSE Append(reads, r)
    BY <1>2
  <1>4. PICK r \in {read_text(<<first>>), read_text(<<first, second>>)} :
          reads' = IF r.text = <<>> THEN reads ELSE Append(reads, r)
    BY <1>3
  <1>7. r \in Reads
    BY <1>3, <1>4, TwoReads DEF TextInv
  <1>8. reads' \in Seq(Reads)
    BY <1>4, <1>7 DEF TextInv
  <1>9. (MajorityWins)'
    BY <1>1 DEF MajorityWins
  <1> QED
    BY <1>1, <1>8, <1>9 DEF TextInv

\* The vote is taken once, over all the reads.
LEMMA ConcludeInv ==
    ASSUME TextInv, Conclude
    PROVE  TextInv'
  <1>1. /\ plate' = plate /\ reads' = reads
        /\ voted' = IF reads = <<>> THEN <<>> ELSE vote_consensus(reads)
    BY DEF Conclude
  <1>2. reads \in Seq(Reads) /\ plate \in Plates
    BY DEF TextInv
  <1>3. ASSUME NEW i \in DOMAIN reads,
               2 * Cardinality(SameText(reads, i)) > Len(reads),
               2 * ConfOf(reads, SameText(reads, i)) > ConfOf(reads, DOMAIN reads)
        PROVE  voted' = reads[i].text
    <2>1. vote_consensus(reads) = reads[i].text
      BY <1>2, <1>3, VotedRight
    <2>2. reads # <<>>
      BY <1>2
    <2> QED
      BY <1>1, <2>1, <2>2
  <1>4. (MajorityWins)'
    BY <1>1, <1>3 DEF MajorityWins, SameText, ConfOf
  <1> QED
    BY <1>1, <1>2, <1>4 DEF TextInv

\* For every set of plates, readings of any confidence and any number of crops: reads that
\* agree and outweigh all others, in number and in confidence, are the vote.
THEOREM MajorityOfReadsWins ==
    TextSpec => []MajorityWins
  <1>1. TextInit => TextInv
    BY TextInitInv
  <1>2. TextInv /\ [TextNext]_textVars => TextInv'
    <2> SUFFICES ASSUME TextInv, [TextNext]_textVars PROVE TextInv'
      OBVIOUS
    <2>1. CASE UNCHANGED textVars
      BY <2>1 DEF textVars, TextInv, MajorityWins
    <2> QED
      BY <2>1, ReadCropInv, ConcludeInv DEF TextNext
  <1>3. TextInv => MajorityWins
    BY DEF TextInv
  <1> QED
    BY <1>1, <1>2, <1>3, PTL DEF TextSpec

-------------------------------------------------------------------------------
(* Part 3: the registrations that are kept *)

\* A digit is not a letter.
LEMMA DigitsAreNotLetters == Digit \cap Letter = {}
  BY DEF Digit, Letter

\* The formatter's tables leave a character of the right kind alone.
LEMMA FormatterKeeps ==
    /\ \A c \in Digit : Fix(DIGIT_FIXES, c) = c /\ c \notin DOMAIN DIGIT_FIXES
    /\ \A c \in Letter : Fix(LETTER_FIXES, c) = c /\ c \notin DOMAIN LETTER_FIXES
  <1>1. ASSUME NEW c \in Digit PROVE c \notin DOMAIN DIGIT_FIXES
    BY DEF Digit, DIGIT_FIXES
  <1>2. ASSUME NEW c \in Letter PROVE c \notin DOMAIN LETTER_FIXES
    BY DEF Letter, LETTER_FIXES
  <1> QED
    BY <1>1, <1>2 DEF Fix

\* So do the corrector's.
LEMMA CorrectorKeeps ==
    /\ \A c \in Digit : Fix(letter_to_number, c) = c
    /\ \A c \in Letter : Fix(number_to_letter, c) = c
  <1>1. ASSUME NEW c \in Digit PROVE c \notin DOMAIN letter_to_number
    BY DEF Digit, letter_to_number
  <1>2. ASSUME NEW c \in Letter PROVE c \notin DOMAIN number_to_letter
    BY DEF Letter, Digit, number_to_letter
  <1> QED
    BY <1>1, <1>2 DEF Fix

\* The regular expression accepts a character of the right kind.
LEMMA ClassesAccept == Digit \subseteq DClass /\ Letter \subseteq LClass
  BY DEF DClass, LClass

\* The pairs of characters that are taken for each other.
LEMMA Mistaken ==
    ASSUME NEW c, NEW d \in LooksLike(c)
    PROVE  \/ (c = "0" /\ d = "O") \/ (c = "O" /\ d = "0") \/ (c = "1" /\ d = "I") \/ (c = "I" /\ d = "1")
           \/ (c = "5" /\ d = "S") \/ (c = "S" /\ d = "5") \/ (c = "8" /\ d = "B") \/ (c = "B" /\ d = "8")
  <1>1. ASSUME NEW x, NEW y, <<x, y>> \in Alike
        PROVE  \/ (x = "0" /\ y = "O") \/ (x = "1" /\ y = "I")
               \/ (x = "5" /\ y = "S") \/ (x = "8" /\ y = "B")
    <2>1. \A u \in Alike : \/ (u[1] = "0" /\ u[2] = "O") \/ (u[1] = "1" /\ u[2] = "I")
                            \/ (u[1] = "5" /\ u[2] = "S") \/ (u[1] = "8" /\ u[2] = "B")
      BY DEF Alike
    <2>2. (<<x, y>>)[1] = x /\ (<<x, y>>)[2] = y
      OBVIOUS
    <2> QED
      BY <1>1, <2>1, <2>2
  <1>2. <<c, d>> \in Alike \/ <<d, c>> \in Alike
    BY DEF LooksLike
  <1>3. CASE <<c, d>> \in Alike
    BY <1>1, <1>3
  <1>4. CASE <<d, c>> \in Alike
    BY <1>1, <1>4
  <1> QED
    BY <1>2, <1>3, <1>4

\* What a digit may be taken for is a letter that is turned back into it.
LEMMA DigitMistaken ==
    ASSUME NEW c \in Digit, NEW d \in LooksLike(c)
    PROVE  /\ d \in Letter /\ d \in DClass /\ d \notin {"H"} /\ d \in DOMAIN DIGIT_FIXES
           /\ Fix(DIGIT_FIXES, d) = c
  <1>1. \/ (c = "0" /\ d = "O") \/ (c = "1" /\ d = "I") \/ (c = "5" /\ d = "S") \/ (c = "8" /\ d = "B")
    BY Mistaken DEF Digit
  <1> QED
    BY <1>1 DEF Letter, DClass, DIGIT_FIXES, Fix

\* What a letter other than O may be taken for is a digit that is turned back into it.
LEMMA LetterMistaken ==
    ASSUME NEW c \in Letter \ {"O"}, NEW d \in LooksLike(c)
    PROVE  /\ d \in Digit \ {"0"} /\ d \in LClass
           /\ Fix(LETTER_FIXES, d) = c
  <1>1. \/ (c = "I" /\ d = "1") \/ (c = "S" /\ d = "5") \/ (c = "B" /\ d = "8")
    <2>1. c # "0" /\ c # "1" /\ c # "5" /\ c # "8" /\ c # "O"
      BY DEF Letter
    <2> QED
      BY <2>1, Mistaken
  <1> QED
    BY <1>1 DEF Digit, LClass, LETTER_FIXES, Fix

\* The state codes are two letters.
LEMMA CodesAreLetters ==
    ASSUME NEW a, NEW b, <<a, b>> \in INDIAN_STATE_CODES
    PROVE  a \in Letter /\ b \in Letter
  <1>1. \A st \in INDIAN_STATE_CODES : st[1] \in Letter /\ st[2] \in Letter
    BY DEF INDIAN_STATE_CODES, Letter
  <1>2. (<<a, b>>)[1] = a /\ (<<a, b>>)[2] = b
    OBVIOUS
  <1> QED
    BY <1>1, <1>2

\* A letter stands for itself alone.
LEMMA LetterStandsForItself ==
    ASSUME NEW c \in Letter
    PROVE  DOMAIN StateOptions(c) = 1..1 /\ StateOptions(c)[1] = c
  <1>1. c \notin DOMAIN LETTER_FIXES
    BY FormatterKeeps
  <1>2. c # "0" /\ c # "1" /\ c # "5"
    BY DEF Letter
  <1>3. StateOptions(c) = <<c>> \o <<>> \o <<>>
    BY <1>1, <1>2 DEF StateOptions
  <1>4. <<c>> \o <<>> \o <<>> = <<c>>
    OBVIOUS
  <1> QED
    BY <1>3, <1>4

\* What a letter is mistaken for stands for itself, then for that letter.
LEMMA MistakenLetterStandsFor ==
    ASSUME NEW c \in Letter, NEW d \in LooksLike(c)
    PROVE  /\ d \in Digit /\ DOMAIN StateOptions(d) \in {1..2, 1..3}
           /\ StateOptions(d)[1] = d /\ StateOptions(d)[2] = c
  <1>1. \/ (c = "O" /\ d = "0") \/ (c = "I" /\ d = "1") \/ (c = "S" /\ d = "5") \/ (c = "B" /\ d = "8")
    BY Mistaken DEF Letter
  <1>2. d \in Digit /\ d \in DOMAIN LETTER_FIXES /\ LETTER_FIXES[d] = c
    BY <1>1 DEF Digit, LETTER_FIXES
  <1> DEFINE more == CASE d = "0" -> <<"D">> [] d = "1" -> <<"J">> [] d = "5" -> <<"G">> [] OTHER -> <<>>
  <1>3. StateOptions(d) = <<d>> \o <<c>> \o more
    BY <1>2 DEF StateOptions
  <1>4. more = <<"D">> \/ more = <<"J">> \/ more = <<"G">> \/ more = <<>>
    BY <1>1
  <1> HIDE DEF more
  <1>5. ASSUME NEW x
        PROVE  LET o == <<d>> \o <<c>> \o <<x>> IN DOMAIN o = 1..3 /\ o[1] = d /\ o[2] = c
    OBVIOUS
  <1>6. LET o == <<d>> \o <<c>> \o <<>> IN DOMAIN o = 1..2 /\ o[1] = d /\ o[2] = c
    OBVIOUS
  <1> QED
    BY <1>2, <1>3, <1>4, <1>5, <1>6

\* The state code is the first pair of options that is one.
LEMMA FirstPair ==
    ASSUME NEW c1, NEW c2, NEW i \in Nat, NEW j \in Nat,
           DOMAIN StateOptions(c1) \subseteq Nat, DOMAIN StateOptions(c2) \subseteq Nat,
           i \in DOMAIN StateOptions(c1), j \in DOMAIN StateOptions(c2),
           <<StateOptions(c1)[i], StateOptions(c2)[j]>> \in INDIAN_STATE_CODES,
           \A k \in DOMAIN StateOptions(c1) : \A l \in DOMAIN StateOptions(c2) :
              <<StateOptions(c1)[k], StateOptions(c2)[l]>> \in INDIAN_STATE_CODES
                => i < k \/ (i = k /\ j <= l)
    PROVE  FixStateCode(c1, c2) = <<StateOptions(c1)[i], StateOptions(c2)[j]>>
  <1> DEFINE o1 == StateOptions(c1)
             o2 == StateOptions(c2)
             real == {ij \in (DOMAIN o1) \X (DOMAIN o2) : <<o1[ij[1]], o2[ij[2]]>> \in INDIAN_STATE_CODES}
             Least(ij) == \A kl \in real : ij[1] < kl[1] \/ (ij[1] = kl[1] /\ ij[2] <= kl[2])
             first == CHOOSE ij \in real : Least(ij)
  <1>1. FixStateCode(c1, c2) =
          IF real = {} THEN <<Fix(LETTER_FIXES, c1), Fix(LETTER_FIXES, c2)>>
                       ELSE <<o1[first[1]], o2[first[2]]>>
    BY DEF FixStateCode
  <1> HIDE DEF o1, o2
  <1>2. <<i, j>> \in real
    BY DEF o1, o2
  <1>3. \A kl \in real : kl[1] \in Nat /\ kl[2] \in Nat /\ (i < kl[1] \/ (i = kl[1] /\ j <= kl[2]))
    BY DEF o1, o2
  <1>4. Least(<<i, j>>)
    BY <1>3
  <1> HIDE DEF real
  <1>5. first \in real /\ Least(first)
    BY <1>2, <1>4
  <1>6. first[1] = i /\ first[2] = j
    BY <1>2, <1>3, <1>5
  <1> HIDE DEF first
  <1> QED
    BY <1>1, <1>2, <1>6 DEF o1, o2

\* A state code is read as itself, also with one of its letters mistaken.
LEMMA StateRead ==
    ASSUME NEW a, NEW b, <<a, b>> \in INDIAN_STATE_CODES
    PROVE  /\ FixStateCode(a, b) = <<a, b>>
           /\ \A d \in LooksLike(a) : FixStateCode(d, b) = <<a, b>>
           /\ \A d \in LooksLike(b) : FixStateCode(a, d) = <<a, b>>
  <1>1. a \in Letter /\ b \in Letter
    BY CodesAreLetters
  <1>2. /\ DOMAIN StateOptions(a) = 1..1 /\ StateOptions(a)[1] = a
        /\ DOMAIN StateOptions(b) = 1..1 /\ StateOptions(b)[1] = b
    BY <1>1, LetterStandsForItself
  <1>3. \A d \in Digit : \A c : <<d, c>> \notin INDIAN_STATE_CODES /\ <<c, d>> \notin INDIAN_STATE_CODES
    BY CodesAreLetters, DigitsAreNotLetters
  <1>4. FixStateCode(a, b) = <<a, b>>
    <2>1. \A k \in 1..1 : k = 1
      OBVIOUS
    <2> QED
      BY <1>2, <2>1, FirstPair
  <1>5. ASSUME NEW d \in LooksLike(a)
        PROVE  FixStateCode(d, b) = <<a, b>>
    <2> DEFINE o1 == StateOptions(d)
    <2>1. d \in Digit /\ DOMAIN o1 \in {1..2, 1..3} /\ o1[1] = d /\ o1[2] = a
      BY <1>1, MistakenLetterStandsFor
    <2>2. \A k \in DOMAIN o1 : k \in Nat /\ (k = 1 \/ 2 <= k)
      BY <2>1
    <2>3. \A k \in DOMAIN o1 : \A l \in DOMAIN StateOptions(b) :
             <<o1[k], StateOptions(b)[l]>> \in INDIAN_STATE_CODES => 2 < k \/ (2 = k /\ 1 <= l)
      <3> TAKE k \in DOMAIN o1
      <3> TAKE l \in DOMAIN StateOptions(b)
      <3>1. l = 1 /\ StateOptions(b)[l] = b
        BY <1>2
      <3> HIDE DEF o1
      <3>2. k = 1 => <<o1[k], b>> \notin INDIAN_STATE_CODES
        BY <1>3, <2>1
      <3> QED
        BY <2>2, <3>1, <3>2
    <2>4. 2 \in DOMAIN o1 /\ DOMAIN o1 \subseteq Nat
      BY <2>1
    <2> QED
      BY <1>2, <2>1, <2>3, <2>4, FirstPair
  <1>6. ASSUME NEW d \in LooksLike(b)
        PROVE  FixStateCode(a, d) = <<a, b>>
    <2> DEFINE o2 == StateOptions(d)
    <2>1. d \in Digit /\ DOMAIN o2 \in {1..2, 1..3} /\ o2[1] = d /\ o2[2] = b
      BY <1>1, MistakenLetterStandsFor
    <2>2. \A l \in DOMAIN o2 : l \in Nat /\ (l = 1 \/ 2 <= l)
      BY <2>1
    <2>3. \A k \in DOMAIN StateOptions(a) : \A l \in DOMAIN o2 :
             <<StateOptions(a)[k], o2[l]>> \in INDIAN_STATE_CODES => 1 < k \/ (1 = k /\ 2 <= l)
      <3> TAKE k \in DOMAIN StateOptions(a)
      <3> TAKE l \in DOMAIN o2
      <3>1. k = 1 /\ StateOptions(a)[k] = a
        BY <1>2
      <3> HIDE DEF o2
      <3>2. l = 1 => <<a, o2[l]>> \notin INDIAN_STATE_CODES
        BY <1>3, <2>1
      <3> QED
        BY <2>2, <3>1, <3>2
    <2>4. 2 \in DOMAIN o2 /\ DOMAIN o2 \subseteq Nat
      BY <2>1
    <2> QED
      BY <1>2, <2>1, <2>3, <2>4, FirstPair
  <1> QED
    BY <1>4, <1>5, <1>6

\* No state code starts with IN's letters nor, but for DD and DL, with a D.
LEMMA StampIsNoState ==
    /\ FixStateCode("I", "N") \notin INDIAN_STATE_CODES
    /\ FixStateCode("N", "D") \notin INDIAN_STATE_CODES
    /\ \A c \in Letter \ {"D", "L"} : FixStateCode("D", c) \notin INDIAN_STATE_CODES
  <1>1. ASSUME NEW a \in Letter, NEW b \in Letter
        PROVE  FixStateCode(a, b) = <<a, b>>
    <2>1. CASE <<a, b>> \in INDIAN_STATE_CODES
      BY <2>1, StateRead
    <2>2. CASE <<a, b>> \notin INDIAN_STATE_CODES
      <3> DEFINE o1 == StateOptions(a)
                 o2 == StateOptions(b)
                 real == {ij \in (DOMAIN o1) \X (DOMAIN o2) :
                            <<o1[ij[1]], o2[ij[2]]>> \in INDIAN_STATE_CODES}
      <3>1. DOMAIN o1 = 1..1 /\ DOMAIN o2 = 1..1 /\ o1[1] = a /\ o2[1] = b
        BY LetterStandsForItself
      <3>2. real = {}
        <4>1. \A k \in 1..1 : k = 1
          OBVIOUS
        <4> HIDE DEF o1, o2
        <4> QED
          BY <2>2, <3>1, <4>1
      <3>3. FixStateCode(a, b) = <<Fix(LETTER_FIXES, a), Fix(LETTER_FIXES, b)>>
        BY <3>2 DEF FixStateCode
      <3> QED
        BY <3>3, FormatterKeeps
    <2> QED
      BY <2>1, <2>2
  <1>2. \A st \in INDIAN_STATE_CODES :
           /\ st[1] # "I" /\ (st[1] = "N" => st[2] # "D")
           /\ (st[1] = "D" => st[2] = "D" \/ st[2] = "L")
    BY DEF INDIAN_STATE_CODES
  <1>3. "I" \in Letter /\ "N" \in Letter /\ "D" \in Letter
    BY DEF Letter
  <1>4. \A a, b : (<<a, b>>)[1] = a /\ (<<a, b>>)[2] = b
    OBVIOUS
  <1> QED
    BY <1>1, <1>2, <1>3, <1>4

\* An ordinary registration with a series of k letters.
Rto(p, k) ==
    /\ k \in 1..3 /\ p \in Seq(Chars) /\ Len(p) = 8 + k
    /\ <<p[1], p[2]>> \in INDIAN_STATE_CODES
    /\ AllIn(p, 3, 4, Digit) /\ AllIn(p, 5, 4 + k, Letter \ {"O"})
    /\ AllIn(p, 5 + k, Len(p), Digit)
    /\ <<p[3], p[4]>> # <<"8", "4">>

\* s is p with the character at i taken for one it looks like.
Pictured(s, p, i) ==
    /\ s \in Seq(Chars) /\ Len(s) = Len(p) /\ i \in 1..Len(p)
    /\ \A j \in 1..Len(p) : s[j] = p[j] \/ (j = i /\ s[j] \in LooksLike(p[j]))

\* What the characters of such a text are.
LEMMA CharactersSeen ==
    ASSUME NEW p, NEW k, Rto(p, k), NEW s, NEW i, Pictured(s, p, i)
    PROVE  /\ \A j \in 1..2 : s[j] \in LClass
           /\ \A j \in 3..4 : s[j] \in DClass /\ s[j] # "H" /\ s[j] \in Digit \cup DOMAIN DIGIT_FIXES
                              /\ Fix(DIGIT_FIXES, s[j]) = p[j]
           /\ \A j \in 5..(4 + k) : s[j] \in LClass /\ s[j] \notin {"O", "0"} 
                              /\ Fix(LETTER_FIXES, s[j]) = p[j]
           /\ \A j \in (5 + k)..(8 + k) : s[j] \in DClass /\ s[j] # "H"
                              /\ s[j] \in Digit \cup DOMAIN DIGIT_FIXES /\ Fix(DIGIT_FIXES, s[j]) = p[j]
  <1>1. /\ k \in 1..3 /\ Len(p) = 8 + k
        /\ \A j \in 1..(8 + k) : s[j] = p[j] \/ s[j] \in LooksLike(p[j])
    BY DEF Rto, Pictured
  <1>2. p[1] \in Letter /\ p[2] \in Letter
    BY CodesAreLetters DEF Rto
  <1>3. "0" \notin Letter /\ "H" \notin Digit /\ "O" \notin Digit
    BY DEF Letter, Digit
  <1>4. ASSUME NEW j \in 1..2 PROVE s[j] \in LClass
    <2>1. p[j] \in Letter /\ (s[j] = p[j] \/ s[j] \in LooksLike(p[j]))
      BY <1>1, <1>2
    <2>2. CASE s[j] = p[j]
      BY <2>1, <2>2, ClassesAccept
    <2>3. CASE s[j] \in LooksLike(p[j])
      BY <2>1, <2>3, MistakenLetterStandsFor DEF LClass, Digit, LooksLike, Alike
    <2> QED
      BY <2>1, <2>2, <2>3
  <1>5. ASSUME NEW j \in 1..(8 + k), p[j] \in Digit
        PROVE  /\ s[j] \in DClass /\ s[j] # "H" /\ s[j] \in Digit \cup DOMAIN DIGIT_FIXES
               /\ Fix(DIGIT_FIXES, s[j]) = p[j]
    <2>1. CASE s[j] = p[j]
      BY <1>3, <1>5, <2>1, ClassesAccept, FormatterKeeps
    <2>2. CASE s[j] \in LooksLike(p[j])
      BY <1>5, <2>2, DigitMistaken
    <2> QED
      BY <1>1, <2>1, <2>2
  <1>6. ASSUME NEW j \in 1..(8 + k), p[j] \in Letter \ {"O"}
        PROVE  s[j] \in LClass /\ s[j] \notin {"O", "0"} /\ Fix(LETTER_FIXES, s[j]) = p[j]
    <2>1. CASE s[j] = p[j]
      BY <1>3, <1>6, <2>1, ClassesAccept, FormatterKeeps
    <2>2. CASE s[j] \in LooksLike(p[j])
      BY <1>3, <1>6, <2>2, LetterMistaken
    <2> QED
      BY <1>1, <2>1, <2>2
  <1>7. /\ \A j \in 3..4 : p[j] \in Digit
        /\ \A j \in 5..(4 + k) : p[j] \in Letter \ {"O"}
        /\ \A j \in (5 + k)..(8 + k) : p[j] \in Digit
    BY DEF Rto, AllIn
  <1>8. /\ \A j \in 3..4 : j \in 1..(8 + k) /\ \A j1 \in 5..(4 + k) : j1 \in 1..(8 + k)
    BY <1>1
  <1>9. \A j \in (5 + k)..(8 + k) : j \in 1..(8 + k)
    BY <1>1
  <1> QED
    BY <1>4, <1>5, <1>6, <1>7, <1>8, <1>9

\* A text of the layout of the RTO format, from place b to its end, is matched whole: the
\* series may take digits that look like letters, the number takes what is left of them.
LEMMA MatchedWhole ==
    ASSUME NEW s, Len(s) \in Nat, NEW b \in Nat, NEW k \in 1..3, NEW d \in 1..4,
           Len(s) - b + 1 = 4 + k + d,
           \A j \in b..(b + 1) : s[j] \in LClass,
           \A j \in (b + 2)..(b + 3) : s[j] \in DClass,
           \A j \in (b + 4)..(b + 3 + k) : s[j] \in LClass,
           \A j \in (b + 4 + k)..(b + 3 + k + d) : s[j] \in DClass
    PROVE  PlateLength(s, b) = 4 + k + d
  <1> DEFINE end == Len(s) - b + 1
             series == {q \in 0..3 : /\ 5 + q <= end
                                     /\ AllIn(s, b + 4, b + 3 + q, LClass)
                                     /\ s[b + 4 + q] \in DClass}
             m == Max(series)
             number == {q \in 1..4 : /\ 4 + m + q <= end
                                     /\ AllIn(s, b + 4 + m, b + 3 + m + q, DClass)}
             starts == /\ end >= 5
                       /\ AllIn(s, b, b + 1, LClass)
                       /\ AllIn(s, b + 2, b + 3, DClass) /\ series # {}
  <1>1. PlateLength(s, b) = IF starts THEN 4 + m + Max(number) ELSE 0
    BY DEF PlateLength
  <1>2. k \in series
    <2>1. s[b + 4 + k] \in DClass
      <3>1. b + 4 + k \in (b + 4 + k)..(b + 3 + k + d)
        OBVIOUS
      <3> QED
        BY <3>1
    <2> QED
      BY <2>1 DEF AllIn
  <1>3. starts
    <2> HIDE DEF series
    <2> QED
      BY <1>2 DEF AllIn
  <1>4. series \subseteq 0..3
    OBVIOUS
  <1> HIDE DEF series
  <1>5. Indices(series, 3)
    BY <1>2, <1>4 DEF Indices
  <1>6. m \in k..3 /\ 5 + m <= end
    <2>1. Max(series) \in series /\ Max(series) >= k
      BY <1>2, <1>5, EndsOf
    <2>2. m \in 0..3 /\ m >= k /\ 5 + m <= end
      BY <2>1 DEF series
    <2> QED
      BY <2>2
  <1> HIDE DEF m
  <1> DEFINE q == k + d - m
  <1>7. q \in number
    <2>1. q \in 1..4 /\ 4 + m + q <= end
      BY <1>6
    <2>2. \A j \in (b + 4 + m)..(b + 3 + m + q) : j \in (b + 4 + k)..(b + 3 + k + d)
      BY <1>6
    <2> QED
      BY <2>1, <2>2 DEF AllIn
  <1>8. \A j \in number : j <= q
    BY <1>6
  <1>9. number \subseteq 0..4
    OBVIOUS
  <1> HIDE DEF number
  <1>10. Indices(number, 4)
    BY <1>7, <1>9 DEF Indices
  <1>11. Max(number) \in number /\ Max(number) >= q
    BY <1>7, <1>10, EndsOf
  <1>12. Max(number) = q
    <2> DEFINE x == Max(number)
    <2>1. x \in 0..4 /\ x <= q /\ x >= q
      BY <1>8, <1>9, <1>11
    <2> HIDE DEF x
    <2>2. x = q
      BY <1>6, <2>1
    <2> QED
      BY <2>2 DEF x
  <1> HIDE DEF starts
  <1> QED
    BY <1>1, <1>3, <1>6, <1>12

\* Of the places with a state code, the one from which all the rest of the text is a plate.
LEMMA LongestIsTaken ==
    ASSUME NEW S, NEW s \in Seq(S), NEW b \in 1..Len(s),
           \A c \in 1..Len(s) : BhLength(s, c) = 0,
           PlateLength(s, b) = Len(s) - b + 1, Len(s) - b + 1 >= 6,
           FixStateCode(s[b], s[b + 1]) \in INDIAN_STATE_CODES,
           \A c \in 1..Len(s) : c < b => FixStateCode(s[c], s[c + 1]) \notin INDIAN_STATE_CODES
    PROVE  extract_indian_plate(s) = SubSeq(s, b, Len(s))
  <1> DEFINE bh == {c \in DOMAIN s : BhLength(s, c) > 0}
             valid == {c \in DOMAIN s : /\ PlateLength(s, c) > 0
                         /\ FixStateCode(s[c], s[c + 1]) \in INDIAN_STATE_CODES}
             longest == {c \in valid : \A d \in valid : PlateLength(s, c) >= PlateLength(s, d)}
             start == Min(longest)
  <1>1. extract_indian_plate(s) =
          IF Len(s) < 6 THEN <<>>
          ELSE IF bh # {} THEN SubSeq(s, Min(bh), Min(bh) + BhLength(s, Min(bh)) - 1)
          ELSE IF valid = {} \/ PlateLength(s, start) < 6 THEN <<>>
          ELSE SubSeq(s, start, start + PlateLength(s, start) - 1)
    BY DEF extract_indian_plate
  <1>2. Len(s) \in Nat /\ DOMAIN s = 1..Len(s)
    OBVIOUS
  <1>3. bh = {}
    BY <1>2
  <1>4. \A c \in 1..Len(s) : PlateLength(s, c) \in Nat /\ PlateLength(s, c) <= Len(s) - c + 1
    BY <1>2, PlateBounds
  <1>5. b \in valid /\ \A c \in valid : c \in 1..Len(s) /\ c >= b
    BY <1>2
  <1>6. \A c \in valid : c = b \/ PlateLength(s, c) < PlateLength(s, b)
    <2> TAKE c \in valid
    <2> DEFINE x == PlateLength(s, c)
    <2>1. x \in Nat /\ x <= Len(s) - c + 1 /\ c \in 1..Len(s) /\ c >= b
      BY <1>4, <1>5
    <2> HIDE DEF valid, x
    <2>2. c = b \/ x < Len(s) - b + 1
      BY <1>2, <2>1
    <2> QED
      BY <2>2 DEF x
  <1>7. longest = {b}
    <2> HIDE DEF valid
    <2>1. b \in longest
      BY <1>4, <1>5, <1>6
    <2>2. \A c \in longest : c = b
      <3> TAKE c \in longest
      <3>1. c \in valid /\ PlateLength(s, c) >= PlateLength(s, b)
        BY <1>5
      <3>2. PlateLength(s, c) \in Nat /\ PlateLength(s, b) \in Nat
        BY <1>4, <1>5, <3>1
      <3> QED
        BY <1>6, <3>1, <3>2
    <2> QED
      BY <2>1, <2>2
  <1>8. start = b
    <2>1. Indices({b}, Len(s))
      BY <1>2 DEF Indices
    <2>2. Min({b}) \in {b}
      BY <2>1, EndsOf
    <2> HIDE DEF longest
    <2> QED
      BY <1>7, <2>2
  <1>9. b + (Len(s) - b + 1) - 1 = Len(s) /\ ~(Len(s) - b + 1 < 6) /\ ~(Len(s) < 6)
    BY <1>2
  <1>10. valid # {}
    BY <1>5
  <1> HIDE DEF bh, valid, longest, start
  <1> QED
    BY <1>1, <1>3, <1>8, <1>9, <1>10

\* A BH plate is taken from where it starts.
LEMMA BhIsTaken ==
    ASSUME NEW S, NEW s \in Seq(S), NEW b \in 1..Len(s), Len(s) >= 6,
           BhLength(s, b) = Len(s) - b + 1,
           \A c \in 1..Len(s) : c < b => s[c] \notin Digit
    PROVE  extract_indian_plate(s) = SubSeq(s, b, Len(s))
  <1> DEFINE bh == {c \in DOMAIN s : BhLength(s, c) > 0}
             start == Min(bh)
             valid == {c \in DOMAIN s : /\ PlateLength(s, c) > 0
                         /\ FixStateCode(s[c], s[c + 1]) \in INDIAN_STATE_CODES}
             longest == {c \in valid : \A d \in valid : PlateLength(s, c) >= PlateLength(s, d)}
  <1>1. extract_indian_plate(s) =
          IF Len(s) < 6 THEN <<>>
          ELSE IF bh # {} THEN SubSeq(s, start, start + BhLength(s, start) - 1)
          ELSE IF valid = {} \/ PlateLength(s, Min(longest)) < 6 THEN <<>>
          ELSE SubSeq(s, Min(longest), Min(longest) + PlateLength(s, Min(longest)) - 1)
    BY DEF extract_indian_plate
  <1> HIDE DEF valid, longest
  <1>2. Len(s) \in Nat /\ DOMAIN s = 1..Len(s)
    OBVIOUS
  <1>3. b \in bh /\ bh \subseteq 1..Len(s)
    BY <1>2
  <1>4. ASSUME NEW c \in bh PROVE c >= b
    <2>1. c \in 1..Len(s) /\ BhLength(s, c) > 0
      BY <1>2
    <2>2. s[c] \in Digit
      <3>1. AllIn(s, c, c + 1, Digit)
        BY <2>1 DEF BhLength
      <3> QED
        BY <2>1, <3>1 DEF AllIn
    <2> HIDE DEF bh
    <2> QED
      BY <2>1, <2>2
  <1> HIDE DEF bh
  <1>5. Indices(bh, Len(s))
    BY <1>2, <1>3 DEF Indices
  <1>6. start \in bh /\ start <= b
    BY <1>3, <1>5, EndsOf
  <1>7. start = b
    <2> HIDE DEF start
    <2>1. start \in 1..Len(s) /\ start <= b /\ start >= b
      BY <1>3, <1>4, <1>6
    <2> QED
      BY <2>1
  <1>8. b + (Len(s) - b + 1) - 1 = Len(s) /\ ~(Len(s) < 6)
    BY <1>2
  <1> HIDE DEF start
  <1> QED
    BY <1>1, <1>3, <1>7, <1>8

\* What a match of the BH format consists of.
LEMMA BhMatch ==
    ASSUME NEW s, Len(s) \in Nat, NEW b \in 1..Len(s), BhLength(s, b) # 0
    PROVE  /\ b + 8 <= Len(s) /\ s[b] \in Digit /\ s[b + 1] \in Digit
           /\ s[b + 2] = "B" /\ s[b + 3] = "H" /\ \A j \in (b + 4)..(b + 7) : s[j] \in Digit
           /\ s[b + 8] \in Letter
  <1>1. /\ Len(s) - b + 1 >= 9 /\ AllIn(s, b, b + 1, Digit) /\ s[b + 2] = "B" /\ s[b + 3] = "H"
        /\ AllIn(s, b + 4, b + 7, Digit) /\ s[b + 8] \in Letter
    BY DEF BhLength
  <1> QED
    BY <1>1 DEF AllIn

\* An RTO plate with a mistaken character does not look like a BH plate anywhere: that takes
\* two mistakes.
LEMMA NoBhSeen ==
    ASSUME NEW p, NEW k, Rto(p, k), NEW s, NEW i, Pictured(s, p, i), NEW b \in 1..Len(s)
    PROVE  BhLength(s, b) = 0
  <1> SUFFICES ASSUME BhLength(s, b) # 0 PROVE FALSE
    OBVIOUS
  <1>1. k \in 1..3 /\ Len(p) = 8 + k /\ Len(s) = 8 + k
    BY DEF Rto, Pictured
  <1>2. /\ b + 8 <= Len(s) /\ s[b] \in Digit /\ s[b + 1] \in Digit /\ s[b + 3] = "H"
        /\ \A j \in (b + 4)..(b + 7) : s[j] \in Digit /\ s[b + 8] \in Letter
    BY <1>1, BhMatch
  <1>3. s[4] # "H"
    BY CharactersSeen
  <1>4. b \in 2..3 /\ b <= k /\ b + 8 \in (5 + k)..(8 + k)
    BY <1>1, <1>2, <1>3
  <1>5. p[b + 8] \in Digit
    BY <1>1, <1>4 DEF Rto, AllIn
  <1>6. i = b + 8
    <2>1. s[b + 8] \in Letter
      <3>1. b + 4 \in (b + 4)..(b + 7)
        OBVIOUS
      <3> QED
        BY <1>2, <3>1
    <2>2. s[b + 8] # p[b + 8]
      BY <1>5, <2>1, DigitsAreNotLetters
    <2>3. b + 8 \in 1..Len(p)
      BY <1>1, <1>4
    <2> QED
      BY <2>2, <2>3 DEF Pictured
  <1>7. CASE b = 2
    <2>1. p[2] \in Letter
      BY CodesAreLetters DEF Rto
    <2>2. s[2] = p[2]
      BY <1>1, <1>6, <1>7 DEF Pictured
    <2> QED
      BY <1>2, <1>7, <2>1, <2>2, DigitsAreNotLetters
  <1>8. CASE b = 3
    <2>1. p[7] \in Letter
      BY <1>1, <1>4, <1>8 DEF Rto, AllIn
    <2>2. s[7] = p[7]
      BY <1>1, <1>6, <1>8 DEF Pictured
    <2>3. s[7] \in Digit
      BY <1>2, <1>8
    <2> QED
      BY <2>1, <2>2, <2>3, DigitsAreNotLetters
  <1> QED
    BY <1>4, <1>7, <1>8

\* A text is the part of itself from its first to its last place.
LEMMA WholeText ==
    ASSUME NEW S, NEW s \in Seq(S)
    PROVE  SubSeq(s, 1, Len(s)) = s
  OBVIOUS

\* The state of such a plate is read.
LEMMA StateSeen ==
    ASSUME NEW p, NEW k, Rto(p, k), NEW s, NEW i, Pictured(s, p, i)
    PROVE  FixStateCode(s[1], s[2]) = <<p[1], p[2]>> /\ <<p[1], p[2]>> \in INDIAN_STATE_CODES
  <1>1. <<p[1], p[2]>> \in INDIAN_STATE_CODES /\ Len(p) \in 9..11
    BY DEF Rto
  <1>2. /\ s[1] = p[1] \/ (1 = i /\ s[1] \in LooksLike(p[1]))
        /\ s[2] = p[2] \/ (2 = i /\ s[2] \in LooksLike(p[2]))
    BY <1>1 DEF Pictured
  <1>3. s[1] = p[1] \/ s[2] = p[2]
    BY <1>2
  <1> QED
    BY <1>1, <1>2, <1>3, StateRead

\* An RTO plate is found in an image where at most one of its characters was mistaken.
LEMMA RtoFound ==
    ASSUME NEW p, NEW k, Rto(p, k), NEW s, NEW i, Pictured(s, p, i)
    PROVE  extract_indian_plate(s) = s
  <1>1. k \in 1..3 /\ Len(p) = 8 + k /\ Len(s) = 8 + k /\ s \in Seq(Chars)
    BY DEF Rto, Pictured
  <1>2. \A b \in 1..Len(s) : BhLength(s, b) = 0
    BY NoBhSeen
  <1>3. PlateLength(s, 1) = 8 + k
    <2>1. PICK d \in 1..4 : d = 4
      OBVIOUS
    <2>2. /\ Len(s) \in Nat /\ Len(s) - 1 + 1 = 4 + k + d
          /\ \A j \in 1..(1 + 1) : s[j] \in LClass
          /\ \A j \in (1 + 2)..(1 + 3) : s[j] \in DClass
          /\ \A j \in (1 + 4)..(1 + 3 + k) : s[j] \in LClass
          /\ \A j \in (1 + 4 + k)..(1 + 3 + k + d) : s[j] \in DClass
      BY <1>1, <2>1, CharactersSeen
    <2>3. PlateLength(s, 1) = 4 + k + d
      BY <1>1, <2>2, MatchedWhole
    <2> QED
      BY <1>1, <2>1, <2>3
  <1>4. FixStateCode(s[1], s[2]) \in INDIAN_STATE_CODES
    BY StateSeen
  <1>5. extract_indian_plate(s) = SubSeq(s, 1, Len(s))
    <2>1. 1 \in 1..Len(s) /\ Len(s) - 1 + 1 = 8 + k /\ Len(s) - 1 + 1 >= 6
      BY <1>1
    <2>2. \A c \in 1..Len(s) : ~(c < 1)
      BY <1>1
    <2> QED
      BY <1>1, <1>2, <1>3, <1>4, <2>1, <2>2, LongestIsTaken
  <1> QED
    BY <1>1, <1>5, WholeText

\* Where the number starts: behind the last of the last four characters that is no digit of
\* the table's, and not before the sixth place.
LEMMA NumberBounds ==
    ASSUME NEW s, NEW n \in Nat, Len(s) = n, n >= 6, NEW table,
           s[n] \in Digit \cup DOMAIN table
    PROVE  \E g \in 6..n :
             /\ RegStart(s, table) = g /\ g >= n - 3
             /\ \A j \in g..n : s[j] \in Digit \cup DOMAIN table
             /\ g = 6 \/ g = n - 3 \/ s[g - 1] \notin Digit \cup DOMAIN table
  <1> DEFINE class == Digit \cup DOMAIN table
             from == Max({5, n - 3})
             run == {q \in from..n : AllIn(s, q, n, class)}
             q == Min(run)
             g == Max({6, q})
  <1>1. RegStart(s, table) = Max({6, IF run = {} THEN n + 1 ELSE q})
    BY DEF RegStart
  <1> HIDE DEF class
  <1>2. from \in 5..n /\ from >= n - 3 /\ (from = 5 \/ from = n - 3)
    <2>1. Indices({5, n - 3}, n)
      BY DEF Indices
    <2>2. Max({5, n - 3}) \in {5, n - 3} /\ Max({5, n - 3}) >= 5 /\ Max({5, n - 3}) >= n - 3
      BY <2>1, EndsOf
    <2> QED
      BY <2>2
  <1> HIDE DEF from
  <1>3. n \in run /\ run \subseteq from..n
    <2>1. \A j \in n..n : j = n
      OBVIOUS
    <2> QED
      BY <1>2, <2>1 DEF AllIn, class
  <1>4. \A p \in from..n : p \in run <=> \A j \in p..n : s[j] \in class
    BY DEF AllIn
  <1> HIDE DEF run
  <1>5. q \in run /\ \A p \in run : q <= p
    <2>1. Indices(run, n)
      BY <1>2, <1>3 DEF Indices
    <2> QED
      BY <2>1, EndsOf
  <1> HIDE DEF q
  <1>6. q \in from..n
    BY <1>3, <1>5
  <1>7. (g = 6 \/ g = q) /\ g >= 6 /\ g >= q
    <2>1. Indices({6, q}, n)
      BY <1>2, <1>6 DEF Indices
    <2>2. Max({6, q}) \in {6, q} /\ \A j \in {6, q} : Max({6, q}) >= j
      BY <2>1, EndsOf
    <2> QED
      BY <2>2
  <1> HIDE DEF g
  <1>8. g \in 6..n /\ g >= n - 3
    BY <1>2, <1>6, <1>7
  <1>9. \A j \in g..n : s[j] \in class
    <2> TAKE j \in g..n
    <2>1. j \in q..n
      BY <1>2, <1>6, <1>7
    <2> QED
      BY <1>4, <1>5, <1>6, <2>1
  <1>10. ASSUME g # 6, g # n - 3 PROVE s[g - 1] \notin class
    <2> SUFFICES ASSUME s[g - 1] \in class PROVE FALSE
      OBVIOUS
    <2>1. g = q /\ g - 1 \in from..n
      BY <1>2, <1>6, <1>7, <1>8, <1>10
    <2>2. \A j \in (g - 1)..n : s[j] \in class
      <3> TAKE j \in (g - 1)..n
      <3>1. j = g - 1 \/ j \in g..n
        BY <1>8
      <3> QED
        BY <1>9, <3>1
    <2>3. g - 1 \in run
      BY <1>4, <2>1, <2>2
    <2>4. g <= g - 1
      BY <1>5, <2>1, <2>3
    <2> QED
      BY <1>8, <2>4
  <1>11. RegStart(s, table) = g
    <2>1. run # {}
      BY <1>3
    <2> QED
      BY <1>1, <2>1 DEF g
  <1> QED
    BY <1>8, <1>9, <1>10, <1>11 DEF class

\* Nothing else is such a place.
LEMMA NumberAt ==
    ASSUME NEW s, NEW n \in Nat, Len(s) = n, NEW table, NEW g \in 6..n, g >= n - 3,
           \A j \in g..n : s[j] \in Digit \cup DOMAIN table
    PROVE  /\ RegStart(s, table) \in 6..g
           /\ g = 6 \/ g = n - 3 \/ s[g - 1] \notin Digit \cup DOMAIN table
                => RegStart(s, table) = g
  <1> DEFINE class == Digit \cup DOMAIN table
  <1> HIDE DEF class
  <1>1. n >= 6 /\ s[n] \in class
    <2>1. n \in g..n
      OBVIOUS
    <2> QED
      BY <2>1 DEF class
  <1>2. PICK h \in 6..n : /\ RegStart(s, table) = h /\ h >= n - 3
                          /\ \A j \in h..n : s[j] \in class
                          /\ h = 6 \/ h = n - 3 \/ s[h - 1] \notin class
    BY <1>1, NumberBounds DEF class
  <1>3. h <= g
    <2> SUFFICES ASSUME h > g PROVE FALSE
      OBVIOUS
    <2>1. h # 6 /\ h # n - 3 /\ h - 1 \in g..n
      OBVIOUS
    <2>2. s[h - 1] \in class
      BY <2>1 DEF class
    <2> QED
      BY <1>2, <2>1, <2>2
  <1>4. ASSUME g = 6 \/ g = n - 3 \/ s[g - 1] \notin class PROVE h = g
    <2> SUFFICES ASSUME h < g PROVE FALSE
      BY <1>3
    <2>1. g # 6 /\ g # n - 3 /\ g - 1 \in h..n
      BY <1>2
    <2> QED
      BY <1>2, <1>4, <2>1
  <1>5. h \in 6..g
    BY <1>3
  <1> QED
    BY <1>2, <1>4, <1>5 DEF class

\* The run of digits at the end of such a text is its number.
LEMMA NumberStarts ==
    ASSUME NEW s, NEW k \in 1..3, Len(s) = 8 + k, NEW table,
           \A j \in (5 + k)..(8 + k) : s[j] \in Digit \cup DOMAIN table
    PROVE  RegStart(s, table) = 5 + k
  <1> DEFINE n == 8 + k
             g == 5 + k
  <1>1. n \in Nat /\ g \in 6..n /\ g >= n - 3 /\ g = n - 3
    OBVIOUS
  <1>2. Len(s) = n /\ \A j \in g..n : s[j] \in Digit \cup DOMAIN table
    OBVIOUS
  <1> HIDE DEF n, g
  <1>3. RegStart(s, table) = g
    <2>1. n \in Nat /\ g \in 6..n /\ g >= n - 3
      BY <1>1
    <2> QED
      BY <1>1, <1>2, <2>1, NumberAt
  <1> QED
    BY <1>3 DEF g

\* Every mistaken character is turned back into what is on the plate.
LEMMA RtoRestored ==
    ASSUME NEW p, NEW k, Rto(p, k), NEW s, NEW i, Pictured(s, p, i)
    PROVE  normalize_plate_chars(s) = p
  <1> DEFINE state == FixStateCode(s[1], s[2])
             reg == RegStart(s, DIGIT_FIXES)
             fixed == [j \in DOMAIN s |->
                         CASE j <= 2 -> state[j]
                           [] j \in 3..4 -> Fix(DIGIT_FIXES, s[j])
                           [] j >= 5 /\ j < reg -> IF s[j] \in {"O", "0"} THEN "D"
                                                   ELSE Fix(LETTER_FIXES, s[j])
                           [] OTHER -> Fix(DIGIT_FIXES, s[j])]
  <1>1. /\ k \in 1..3 /\ Len(p) = 8 + k /\ Len(s) = 8 + k /\ s \in Seq(Chars)
        /\ p \in Seq(Chars) /\ DOMAIN s = 1..(8 + k) /\ DOMAIN p = 1..(8 + k)
    BY DEF Rto, Pictured
  <1>2. BhLength(s, 1) = 0
    BY <1>1, NoBhSeen
  <1>3. normalize_plate_chars(s) = fixed
    <2>1. normalize_plate_chars(s) = IF Len(s) < 6 \/ BhLength(s, 1) > 0 THEN s ELSE fixed
      BY DEF normalize_plate_chars
    <2> HIDE DEF fixed
    <2> QED
      BY <1>1, <1>2, <2>1
  <1>4. reg = 5 + k
    <2>1. \A j \in (5 + k)..(8 + k) : s[j] \in Digit \cup DOMAIN DIGIT_FIXES
      BY CharactersSeen
    <2> QED
      BY <1>1, <2>1, NumberStarts
  <1>5. state = <<p[1], p[2]>>
    BY StateSeen
  <1> HIDE DEF state, reg
  <1>6. ASSUME NEW j \in 1..(8 + k)
        PROVE  fixed[j] = p[j]
    <2>1. CASE j <= 2
      <3>1. fixed[j] = state[j]
        BY <1>1, <2>1
      <3>2. j = 1 \/ j = 2
        BY <1>1, <2>1
      <3> HIDE DEF fixed
      <3> QED
        BY <1>5, <3>1, <3>2
    <2>2. CASE j \in 3..4
      <3>1. fixed[j] = Fix(DIGIT_FIXES, s[j])
        BY <1>1, <2>2
      <3> HIDE DEF fixed
      <3> QED
        BY <2>2, <3>1, CharactersSeen
    <2>3. CASE j \in 5..(4 + k)
      <3>1. fixed[j] = IF s[j] \in {"O", "0"} THEN "D" ELSE Fix(LETTER_FIXES, s[j])
        BY <1>1, <1>4, <2>3
      <3> HIDE DEF fixed
      <3> QED
        BY <2>3, <3>1, CharactersSeen
    <2>4. CASE j \in (5 + k)..(8 + k)
      <3>1. fixed[j] = Fix(DIGIT_FIXES, s[j])
        BY <1>1, <1>4, <2>4
      <3> HIDE DEF fixed
      <3> QED
        BY <2>4, <3>1, CharactersSeen
    <2> QED
      BY <1>1, <2>1, <2>2, <2>3, <2>4
  <1>7. fixed = [j \in 1..(8 + k) |-> fixed[j]] /\ p = [j \in 1..(8 + k) |-> p[j]]
    BY <1>1
  <1> HIDE DEF fixed
  <1> QED
    BY <1>3, <1>6, <1>7

\* A registration of the BH format.
Bh(p) == p \in Seq(Chars) /\ Len(p) >= 6 /\ BhLength(p, 1) = Len(p)

\* What it consists of.
LEMMA BhShape ==
    ASSUME NEW p, Bh(p)
    PROVE  /\ Len(p) \in 9..10 /\ p[1] \in Digit /\ p[2] \in Digit /\ p[3] = "B" /\ p[4] = "H"
           /\ \A j \in 5..8 : p[j] \in Digit
           /\ \A j \in 9..Len(p) : p[j] \in Letter
  <1>1. Len(p) \in Nat /\ Len(p) >= 6 /\ BhLength(p, 1) = Len(p)
    BY DEF Bh
  <1>2. /\ Len(p) - 1 + 1 >= 9 /\ AllIn(p, 1, 2, Digit) /\ p[3] = "B" /\ p[4] = "H"
        /\ AllIn(p, 5, 8, Digit) /\ p[9] \in Letter
        /\ BhLength(p, 1) = IF Len(p) - 1 + 1 >= 10 /\ p[10] \in Letter THEN 10 ELSE 9
    BY <1>1 DEF BhLength
  <1>3. Len(p) \in 9..10 /\ (Len(p) = 10 => p[10] \in Letter)
    BY <1>1, <1>2
  <1>4. ASSUME NEW j \in 9..Len(p) PROVE p[j] \in Letter
    <2> DEFINE n == Len(p)
    <2>2. n \in 9..10 /\ j \in 9..n
      BY <1>3
    <2> HIDE DEF n
    <2>3. j = 9 \/ (j = 10 /\ n = 10)
      BY <2>2
    <2>1. j = 9 \/ (j = 10 /\ Len(p) = 10)
      BY <2>3 DEF n
    <2> QED
      BY <1>2, <1>3, <2>1
  <1> QED
    BY <1>2, <1>3, <1>4 DEF AllIn

\* It is found and kept.
LEMMA BhKept ==
    ASSUME NEW p, Bh(p)
    PROVE  extract_indian_plate(p) = p /\ normalize_plate_chars(p) = p
  <1>1. p \in Seq(Chars) /\ Len(p) \in 9..10 /\ BhLength(p, 1) = Len(p)
    BY BhShape DEF Bh
  <1>2. extract_indian_plate(p) = SubSeq(p, 1, Len(p))
    <2>1. 1 \in 1..Len(p) /\ Len(p) >= 6 /\ Len(p) = Len(p) - 1 + 1 /\ \A c \in 1..Len(p) : ~(c < 1)
      BY <1>1
    <2> QED
      BY <1>1, <2>1, BhIsTaken
  <1>3. normalize_plate_chars(p) = p
    BY <1>1 DEF normalize_plate_chars
  <1> QED
    BY <1>1, <1>2, <1>3, WholeText

\* The places of two texts in a row.
LEMMA InARow ==
    ASSUME NEW S, NEW a \in Seq(S), NEW p \in Seq(S)
    PROVE  /\ a \o p \in Seq(S) /\ Len(a \o p) = Len(a) + Len(p)
           /\ \A j \in 1..Len(a) : (a \o p)[j] = a[j]
           /\ \A j \in 1..Len(p) : (a \o p)[j + Len(a)] = p[j]
  OBVIOUS

\* A text behind n characters.
LEMMA Behind ==
    ASSUME NEW S, NEW a \in Seq(S), NEW p \in Seq(S), NEW n
    PROVE  n = Len(a) =>
             /\ a \o p \in Seq(S) /\ Len(a \o p) = n + Len(p)
             /\ \A j \in 1..n : (a \o p)[j] = a[j]
             /\ \A j \in 1..Len(p) : (a \o p)[j + n] = p[j]
             /\ SubSeq(a \o p, n + 1, Len(a \o p)) = p
  <1> DEFINE s == a \o p
             m == Len(a)
             rest == SubSeq(s, m + 1, Len(s))
  <1>1. /\ s \in Seq(S) /\ Len(s) = m + Len(p) /\ m \in Nat /\ Len(p) \in Nat
        /\ \A j \in 1..m : s[j] = a[j]
        /\ \A j \in 1..Len(p) : s[j + m] = p[j]
    BY InARow
  <1> HIDE DEF s, m
  <1>4. rest = [j \in 1..Len(p) |-> p[j]]
    <2>1. rest = [j \in 1..(Len(s) - (m + 1) + 1) |-> s[(m + 1) + j - 1]]
      BY <1>1
    <2>2. Len(s) - (m + 1) + 1 = Len(p) /\ \A j \in 1..Len(p) : (m + 1) + j - 1 = j + m
      BY <1>1
    <2> HIDE DEF rest
    <2> QED
      BY <1>1, <2>1, <2>2
  <1>5. p = [j \in 1..Len(p) |-> p[j]]
    OBVIOUS
  <1>6. m = Len(a) /\ s = a \o p
    BY DEF m, s
  <1> QED
    BY <1>1, <1>4, <1>5, <1>6

\* The stamp and a plate as one text.
LEMMA GluedText ==
    ASSUME NEW p \in Seq(Chars), NEW s, s = Stamp \o p
    PROVE  /\ s \in Seq(Chars) /\ Len(s) = 3 + Len(p) /\ s[1] = "I" /\ s[2] = "N" /\ s[3] = "D"
           /\ \A j \in 1..Len(p) : s[j + 3] = p[j]
           /\ SubSeq(s, 4, Len(s)) = p
  <1>1. Stamp \in Seq(Chars) /\ Len(Stamp) = 3 /\ Stamp[1] = "I" /\ Stamp[2] = "N" /\ Stamp[3] = "D"
    BY DEF Stamp, Chars, Letter
  <1>2. /\ s \in Seq(Chars) /\ Len(s) = 3 + Len(p) /\ \A j \in 1..3 : s[j] = Stamp[j]
        /\ \A j \in 1..Len(p) : s[j + 3] = p[j]
        /\ SubSeq(s, 3 + 1, Len(s)) = p
    <2> DEFINE a == Stamp
    <2>1. a \in Seq(Chars) /\ 3 = Len(a)
      BY <1>1
    <2> HIDE DEF a
    <2>3. \A n : n = Len(a) =>
             /\ a \o p \in Seq(Chars) /\ Len(a \o p) = n + Len(p)
             /\ \A j \in 1..n : (a \o p)[j] = a[j]
             /\ \A j \in 1..Len(p) : (a \o p)[j + n] = p[j]
             /\ SubSeq(a \o p, n + 1, Len(a \o p)) = p
      <3>1. a \in Seq(Chars)
        BY <2>1
      <3> QED
        BY ONLY <3>1, p \in Seq(Chars), Behind
    <2> DEFINE t == a \o p
    <2> HIDE DEF t
    <2>2. /\ t \in Seq(Chars) /\ Len(t) = 3 + Len(p)
          /\ \A j \in 1..3 : t[j] = a[j]
          /\ \A j \in 1..Len(p) : t[j + 3] = p[j]
          /\ SubSeq(t, 3 + 1, Len(t)) = p
      BY <2>1, <2>3, Zenon DEF t
    <2> QED
      BY <2>2 DEF a, t
  <1> QED
    BY <1>1, <1>2

\* A BH plate is found behind the stamp.
LEMMA BhUnstamped ==
    ASSUME NEW p, Bh(p)
    PROVE  extract_indian_plate(Stamp \o p) = p
  <1> DEFINE s == Stamp \o p
  <1>1. p \in Seq(Chars) /\ Len(p) \in 9..10
    BY BhShape DEF Bh
  <1>2. /\ s \in Seq(Chars) /\ Len(s) = 3 + Len(p) /\ s[1] = "I" /\ s[2] = "N" /\ s[3] = "D"
        /\ \A j \in 1..Len(p) : s[j + 3] = p[j]
        /\ SubSeq(s, 4, Len(s)) = p
    BY <1>1, GluedText
  <1> HIDE DEF s
  <1>3. BhLength(s, 4) = Len(s) - 4 + 1
    <2>1. AllIn(s, 4, 5, Digit) /\ s[4 + 2] = "B" /\ s[4 + 3] = "H" /\ AllIn(s, 8, 11, Digit)
      <3>1. \A j \in 4..5 : j - 3 \in 1..2 /\ j = (j - 3) + 3
        OBVIOUS
      <3>2. \A j \in 8..11 : j - 3 \in 5..8 /\ j = (j - 3) + 3
        OBVIOUS
      <3>3. s[4] = p[1] /\ s[5] = p[2] /\ s[6] = p[3] /\ s[7] = p[4]
        BY <1>1, <1>2
      <3>4. \A j \in 8..11 : s[j] \in Digit
        <4> TAKE j \in 8..11
        <4>2. j - 3 \in 5..8 /\ j - 3 \in 1..Len(p)
          <5>1. j - 3 \in 5..8 /\ (Len(p) = 9 \/ Len(p) = 10)
            BY <1>1
          <5> DEFINE n == Len(p)
          <5>2. n = 9 \/ n = 10
            BY <5>1
          <5> HIDE DEF n
          <5>3. j - 3 \in 1..n
            BY <5>2
          <5> QED
            BY <5>1, <5>3 DEF n
        <4>1. s[(j - 3) + 3] = p[j - 3] /\ p[j - 3] \in Digit
          BY <1>2, <4>2, BhShape
        <4> QED
          BY <3>2, <4>1
      <3>5. \A j \in 4..5 : s[j] \in Digit
        <4>1. \A j \in 4..5 : j = 4 \/ j = 5
          OBVIOUS
        <4> QED
          BY <3>3, <4>1, BhShape
      <3> QED
        BY <3>3, <3>4, <3>5, BhShape DEF AllIn
    <2>2. s[12] \in Letter /\ (Len(p) = 10 => s[13] \in Letter)
      <3>1. s[9 + 3] = p[9] /\ (Len(p) = 10 => s[10 + 3] = p[10])
        BY <1>1, <1>2
      <3>2. Len(p) \in 9..10 /\ \A j \in 9..Len(p) : p[j] \in Letter
        BY BhShape
      <3>3. p[9] \in Letter /\ (Len(p) = 10 => p[10] \in Letter)
        BY <3>2
      <3>4. 9 + 3 = 12 /\ 10 + 3 = 13
        OBVIOUS
      <3> QED
        BY <3>1, <3>3, <3>4
    <2>3. Len(s) - 4 + 1 = Len(p) /\ 4 + 8 = 12 /\ 4 + 9 = 13 /\ 4 + 4 = 8 /\ 4 + 7 = 11 /\ 4 + 1 = 5
      BY <1>1, <1>2
    <2> DEFINE end == Len(s) - 4 + 1
    <2>4. BhLength(s, 4) = IF /\ end >= 9
                              /\ AllIn(s, 4, 4 + 1, Digit) /\ s[4 + 2] = "B" /\ s[4 + 3] = "H"
                              /\ AllIn(s, 4 + 4, 4 + 7, Digit) /\ s[4 + 8] \in Letter
                           THEN IF end >= 10 /\ s[4 + 9] \in Letter THEN 10 ELSE 9 ELSE 0
      BY DEF BhLength
    <2> HIDE DEF end
    <2>5. end = Len(p) /\ end \in 9..10
      BY <1>1, <2>3 DEF end
    <2>7. end = 9 \/ end = 10
      BY <2>5
    <2>6. BhLength(s, 4) = end
      <3> DEFINE matched == /\ AllIn(s, 4, 4 + 1, Digit) /\ s[4 + 2] = "B" /\ s[4 + 3] = "H"
                            /\ AllIn(s, 4 + 4, 4 + 7, Digit) /\ s[4 + 8] \in Letter
                 more == s[4 + 9] \in Letter
      <3>1. matched /\ (end = 10 => more)
        BY <2>1, <2>2, <2>3, <2>5
      <3>2. BhLength(s, 4) = IF end >= 9 /\ matched
                             THEN IF end >= 10 /\ more THEN 10 ELSE 9 ELSE 0
        BY <2>4
      <3> HIDE DEF matched, more
      <3> QED
        BY <2>7, <3>1, <3>2
    <2> QED
      BY <2>6 DEF end
  <1>4. \A c \in 1..Len(s) : c < 4 => s[c] \notin Digit
    <2>1. \A c \in 1..Len(s) : c < 4 => c = 1 \/ c = 2 \/ c = 3
      BY <1>1, <1>2
    <2>2. "I" \notin Digit /\ "N" \notin Digit /\ "D" \notin Digit
      BY DEF Digit
    <2> QED
      BY <1>2, <2>1, <2>2
  <1>5. 4 \in 1..Len(s) /\ Len(s) >= 6
    BY <1>1, <1>2
  <1>6. extract_indian_plate(s) = SubSeq(s, 4, Len(s))
    BY <1>2, <1>3, <1>4, <1>5, BhIsTaken
  <1> QED
    BY <1>2, <1>6 DEF s

\* So is an RTO plate, unless it starts with a letter that makes a state code with the stamp's D.
LEMMA RtoUnstamped ==
    ASSUME NEW p, NEW k, Rto(p, k), p[1] \notin {"D", "L"}
    PROVE  extract_indian_plate(Stamp \o p) = p
  <1> DEFINE s == Stamp \o p
  <1>1. p \in Seq(Chars) /\ k \in 1..3 /\ Len(p) = 8 + k
    BY DEF Rto
  <1>2. /\ s \in Seq(Chars) /\ Len(s) = 11 + k /\ s[1] = "I" /\ s[2] = "N" /\ s[3] = "D"
        /\ \A j \in 1..Len(p) : s[j + 3] = p[j]
        /\ SubSeq(s, 4, Len(s)) = p
    <2>1. Len(s) = 3 + Len(p)
      BY <1>1, GluedText
    <2>2. 3 + Len(p) = 11 + k
      BY <1>1
    <2> QED
      BY <1>1, <2>1, <2>2, GluedText
  <1> HIDE DEF s
  <1>3. ASSUME NEW j \in 1..(8 + k) PROVE s[j + 3] = p[j]
    BY <1>1, <1>2
  <1>4. /\ p[1] \in Letter /\ p[2] \in Letter /\ <<p[1], p[2]>> \in INDIAN_STATE_CODES
        /\ p[3] \in Digit /\ p[4] \in Digit
        /\ \A j \in 5..(4 + k) : p[j] \in Letter
        /\ \A j \in (5 + k)..(8 + k) : p[j] \in Digit
    BY <1>1, CodesAreLetters DEF Rto, AllIn
  <1>5. /\ \A j \in 4..5 : s[j] \in Letter
        /\ \A j \in 6..7 : s[j] \in Digit
        /\ \A j \in 8..(7 + k) : s[j] \in Letter
        /\ \A j \in (8 + k)..(11 + k) : s[j] \in Digit
    <2>1. \A j \in 4..5 : s[j] \in Letter
      <3> TAKE j \in 4..5
      <3>1. j - 3 \in 1..(8 + k) /\ (j - 3) + 3 = j /\ (j - 3 = 1 \/ j - 3 = 2)
        BY <1>1
      <3> QED
        BY <1>3, <1>4, <3>1
    <2>2. \A j \in 6..7 : s[j] \in Digit
      <3> TAKE j \in 6..7
      <3>1. j - 3 \in 1..(8 + k) /\ (j - 3) + 3 = j /\ (j - 3 = 3 \/ j - 3 = 4)
        BY <1>1
      <3> QED
        BY <1>3, <1>4, <3>1
    <2>3. \A j \in 8..(7 + k) : s[j] \in Letter
      <3> TAKE j \in 8..(7 + k)
      <3>1. j - 3 \in 1..(8 + k) /\ (j - 3) + 3 = j /\ j - 3 \in 5..(4 + k)
        BY <1>1
      <3> QED
        BY <1>3, <1>4, <3>1
    <2>4. \A j \in (8 + k)..(11 + k) : s[j] \in Digit
      <3> TAKE j \in (8 + k)..(11 + k)
      <3>1. j - 3 \in 1..(8 + k) /\ (j - 3) + 3 = j /\ j - 3 \in (5 + k)..(8 + k)
        BY <1>1
      <3> QED
        BY <1>3, <1>4, <3>1
    <2> QED
      BY <2>1, <2>2, <2>3, <2>4
  <1>6. ASSUME NEW b \in 1..Len(s) PROVE BhLength(s, b) = 0
    <2> SUFFICES ASSUME BhLength(s, b) # 0 PROVE FALSE
      OBVIOUS
    <2>1. /\ b + 8 <= 11 + k /\ s[b] \in Digit /\ s[b + 3] = "H"
          /\ \A j \in (b + 4)..(b + 7) : s[j] \in Digit
      BY <1>2, BhMatch
    <2>2. b \in 1..(3 + k)
      BY <1>1, <1>2, <2>1
    <2>3. b \notin 1..5
      <3>1. "I" \notin Digit /\ "N" \notin Digit /\ "D" \notin Digit
        BY DEF Digit
      <3>2. \A j \in 1..5 : j = 1 \/ j = 2 \/ j = 3 \/ j \in 4..5
        OBVIOUS
      <3> QED
        BY <1>2, <1>5, <2>1, <3>1, <3>2, DigitsAreNotLetters
    <2>4. b = 6 /\ k = 3
      BY <1>1, <2>2, <2>3
    <2>5. s[10] \in Letter /\ s[10] \in Digit
      <3>1. 10 \in 8..(7 + k) /\ 10 \in (b + 4)..(b + 7)
        BY <2>4
      <3> QED
        BY <1>5, <2>1, <3>1
    <2> QED
      BY <2>5, DigitsAreNotLetters
  <1>7. PlateLength(s, 4) = 8 + k
    <2>1. PICK d \in 1..4 : d = 4
      OBVIOUS
    <2>2. /\ Len(s) \in Nat /\ Len(s) - 4 + 1 = 4 + k + d
          /\ \A j \in 4..(4 + 1) : s[j] \in LClass
          /\ \A j \in (4 + 2)..(4 + 3) : s[j] \in DClass
          /\ \A j \in (4 + 4)..(4 + 3 + k) : s[j] \in LClass
          /\ \A j \in (4 + 4 + k)..(4 + 3 + k + d) : s[j] \in DClass
      BY <1>1, <2>1, <1>2, <1>5, ClassesAccept
    <2>3. PlateLength(s, 4) = 4 + k + d
      BY <1>1, <2>2, MatchedWhole
    <2> QED
      BY <1>1, <2>1, <2>3
  <1>8. s[4] = p[1] /\ s[5] = p[2]
    <2>1. s[1 + 3] = p[1] /\ s[2 + 3] = p[2]
      BY <1>1, <1>3
    <2> QED
      BY <2>1
  <1>9. FixStateCode(s[4], s[4 + 1]) \in INDIAN_STATE_CODES
    <2>1. FixStateCode(p[1], p[2]) = <<p[1], p[2]>>
      BY <1>4, StateRead
    <2> QED
      BY <1>4, <1>8, <2>1
  <1>10. \A c \in 1..Len(s) : c < 4 => FixStateCode(s[c], s[c + 1]) \notin INDIAN_STATE_CODES
    <2> TAKE c \in 1..Len(s)
    <2>1. c < 4 => (c = 1 /\ c + 1 = 2) \/ (c = 2 /\ c + 1 = 3) \/ (c = 3 /\ c + 1 = 4)
      BY <1>2
    <2>2. p[1] \in Letter \ {"D", "L"}
      BY <1>4
    <2> QED
      BY <1>2, <1>8, <2>1, <2>2, StampIsNoState
  <1>11. 4 \in 1..Len(s) /\ Len(s) - 4 + 1 = 8 + k /\ Len(s) - 4 + 1 >= 6
    BY <1>1, <1>2
  <1>12. extract_indian_plate(s) = SubSeq(s, 4, Len(s))
    BY <1>2, <1>6, <1>7, <1>9, <1>10, <1>11, LongestIsTaken
  <1> QED
    BY <1>2, <1>12 DEF s

\* What the corrector makes of a read when the format test lets it pass and it is no BH plate:
\* k letters, then m digits, before which no letter stands that the corrector takes for one.
StoredRto(c, k, m) ==
    /\ k \in 1..3 /\ m \in 1..4 /\ c \in Seq(Chars) /\ Len(c) = 4 + k + m
    /\ <<c[1], c[2]>> \in INDIAN_STATE_CODES
    /\ c[3] \in Digit /\ c[4] \in Digit /\ ~LooselyBH(c)
    /\ \A j \in 5..(4 + k) : c[j] \in Letter \ {"O"}
    /\ \A j \in (5 + k)..(4 + k + m) : c[j] \in Digit
    /\ k > 1 /\ m < 4 => c[4 + k] \notin DOMAIN letter_to_number

\* What the tables of the corrector make of a character.
LEMMA CorrectorFixes ==
    /\ \A c \in Digit \cup DOMAIN letter_to_number : Fix(letter_to_number, c) \in Digit
    /\ \A c \in Chars \ Digit : Fix(number_to_letter, c) = c
    /\ \A c \in Chars \ {"O", "0"} : Fix(number_to_letter, c) \in Letter \ {"O"}
    /\ \A c \in DOMAIN DIGIT_FIXES : c \in DOMAIN letter_to_number \/ c \in {"C", "J"}
  <1>1. \A c \in DOMAIN letter_to_number : letter_to_number[c] \in Digit
    BY DEF letter_to_number, Digit
  <1>2. DOMAIN number_to_letter = Digit
    BY DEF number_to_letter
  <1>3. ASSUME NEW c \in Chars \ {"O", "0"} PROVE Fix(number_to_letter, c) \in Letter \ {"O"}
    <2>1. CASE c \in Digit
      <3>1. /\ Fix(number_to_letter, c) = number_to_letter[c]
            /\ number_to_letter[c] \in {"I", "Z", "E", "A", "S", "G", "T", "B", "P"}
        BY <1>2, <1>3, <2>1 DEF Fix, number_to_letter, Digit
      <3> QED
        BY <3>1 DEF Letter
    <2>2. CASE c \notin Digit
      BY <1>2, <1>3, <2>2 DEF Fix, Chars
    <2> QED
      BY <2>1, <2>2
  <1>4. \A c \in DOMAIN DIGIT_FIXES : c \in DOMAIN letter_to_number \/ c \in {"C", "J"}
    BY DEF DIGIT_FIXES, letter_to_number
  <1> QED
    BY <1>1, <1>2, <1>3, <1>4 DEF Fix

\* The formatter and the corrector agree where its number starts, unless the tables differ.
LEMMA NumberAgreed ==
    ASSUME NEW c, NEW k, NEW m, StoredRto(c, k, m)
    PROVE  /\ RegStart(c, letter_to_number) = 5 + k
           /\ ~TablesDiffer(c) => RegStart(c, DIGIT_FIXES) = 5 + k
  <1> DEFINE n == Len(c)
             g == 5 + k
  <1>1. /\ k \in 1..3 /\ m \in 1..4 /\ n = 4 + k + m /\ Len(c) = n
        /\ g = 6 \/ g = n - 3 \/ (k > 1 /\ m < 4)
        /\ n \in Nat /\ g \in 6..n /\ g >= n - 3 /\ g = 5 + k
    BY DEF StoredRto
  <1>2. /\ \A j \in g..n : c[j] \in Digit
        /\ k > 1 /\ m < 4 => c[g - 1] \in Letter /\ c[g - 1] \notin DOMAIN letter_to_number
    <2>1. 5 + k - 1 = 4 + k /\ 4 + k \in 5..(4 + k)
      BY <1>1
    <2> QED
      BY <1>1, <2>1 DEF StoredRto
  <1> HIDE DEF n, g
  <1>3. \A table : \A j \in g..n : c[j] \in Digit \cup DOMAIN table
    BY <1>2
  <1>4. RegStart(c, letter_to_number) = g
    <2>1. g = 6 \/ g = n - 3 \/ c[g - 1] \notin Digit \cup DOMAIN letter_to_number
      BY <1>1, <1>2, DigitsAreNotLetters
    <2>2. \A j \in g..n : c[j] \in Digit \cup DOMAIN letter_to_number
      BY <1>3
    <2> QED
      BY <1>1, <2>1, <2>2, NumberAt
  <1>5. ASSUME ~TablesDiffer(c) PROVE RegStart(c, DIGIT_FIXES) = g
    <2>1. g = 6 \/ g = n - 3 \/ c[g - 1] \notin Digit \cup DOMAIN DIGIT_FIXES
      <3> SUFFICES ASSUME g # 6, g # n - 3, c[g - 1] \in Digit \cup DOMAIN DIGIT_FIXES
                   PROVE  FALSE
        OBVIOUS
      <3>1. c[g - 1] \in Letter /\ c[g - 1] \notin DOMAIN letter_to_number /\ k > 1 /\ m < 4
        BY <1>1, <1>2
      <3>2. c[g - 1] \in {"C", "J"}
        BY <3>1, CorrectorFixes, DigitsAreNotLetters
      <3>3. g - 1 \in 6..(Len(c) - 1) /\ g - 1 > Len(c) - 4 /\ c[(g - 1) + 1] \in Digit
        <4>1. (g - 1) + 1 = g /\ g \in g..n
          BY <1>1
        <4>2. g - 1 \in 6..(Len(c) - 1) /\ g - 1 > Len(c) - 4
          BY <1>1, <3>1
        <4> QED
          BY <1>2, <4>1, <4>2
      <3> QED
        BY <1>5, <3>2, <3>3 DEF TablesDiffer
    <2>2. \A j \in g..n : c[j] \in Digit \cup DOMAIN DIGIT_FIXES
      BY <1>3
    <2> QED
      BY <1>1, <2>1, <2>2, NumberAt
  <1> QED
    BY <1>4, <1>5 DEF g

\* So does the corrector.
LEMMA StoredCorrect ==
    ASSUME NEW c, NEW k, NEW m, StoredRto(c, k, m)
    PROVE  correct(c) = c
  <1> DEFINE n == Len(c)
             reg == RegStart(c, letter_to_number)
             fixed == [i \in DOMAIN c |-> IF i <= 2 \/ (i >= 5 /\ i < reg)
                                          THEN Fix(number_to_letter, c[i])
                                          ELSE Fix(letter_to_number, c[i])]
             loose == [i \in DOMAIN c |-> CASE i = 3 -> "B" [] i = 4 -> "H"
                         [] i \in {1, 2} \cup 5..8 -> Fix(letter_to_number, c[i])
                         [] OTHER -> Fix(number_to_letter, c[i])]
  <1>1. correct(c) = IF Len(c) \notin 5..11 THEN c ELSE IF LooselyBH(c) THEN loose ELSE fixed
    BY DEF correct
  <1>2. /\ k \in 1..3 /\ m \in 1..4 /\ n = 4 + k + m /\ n \in 6..11 /\ Len(c) = n
        /\ DOMAIN c = 1..n /\ ~LooselyBH(c)
        /\ c[1] \in Letter /\ c[2] \in Letter /\ c[3] \in Digit /\ c[4] \in Digit
        /\ \A j \in 5..(4 + k) : c[j] \in Letter
        /\ \A j \in (5 + k)..n : c[j] \in Digit
        /\ c = [j \in 1..n |-> c[j]]
    BY CodesAreLetters DEF StoredRto
  <1> HIDE DEF reg, n
  <1>3. reg = 5 + k
    BY NumberAgreed DEF reg
  <1>4. ASSUME NEW j \in 1..n PROVE fixed[j] = c[j]
    <2>1. CASE j = 1 \/ j = 2 \/ j \in 5..(4 + k)
      <3>1. fixed[j] = Fix(number_to_letter, c[j])
        BY <1>2, <1>3, <2>1
      <3> HIDE DEF fixed
      <3> QED
        BY <1>2, <2>1, <3>1, CorrectorKeeps
    <2>2. CASE j = 3 \/ j = 4 \/ j \in (5 + k)..n
      <3>1. fixed[j] = Fix(letter_to_number, c[j])
        BY <1>2, <1>3, <2>2
      <3> HIDE DEF fixed
      <3> QED
        BY <1>2, <2>2, <3>1, CorrectorKeeps
    <2> QED
      BY <1>2, <2>1, <2>2
  <1>5. fixed = [j \in 1..n |-> fixed[j]]
    BY <1>2
  <1> HIDE DEF fixed, loose
  <1>6. fixed = c
    BY <1>2, <1>4, <1>5
  <1> QED
    BY <1>1, <1>2, <1>6

\* The corrector leaves an RTO plate alone: district 84 is what it takes for a misread BH.
LEMMA RtoCorrect ==
    ASSUME NEW p, NEW k, Rto(p, k)
    PROVE  correct(p) = p
  <1>1. /\ k \in 1..3 /\ p \in Seq(Chars) /\ Len(p) = 8 + k /\ 8 + k = 4 + k + 4
        /\ <<p[1], p[2]>> \in INDIAN_STATE_CODES /\ p[3] \in Digit /\ p[4] \in Digit
        /\ \A j \in 5..(4 + k) : p[j] \in Letter \ {"O"}
        /\ \A j \in (5 + k)..(4 + k + 4) : p[j] \in Digit
    BY DEF Rto, AllIn
  <1>2. ~LooselyBH(p)
    <2>1. p[3] \notin {"B"} /\ p[4] \notin {"H", "N", "M"}
      BY <1>1 DEF Digit
    <2>2. p[3] # "8" \/ p[4] # "4"
      BY DEF Rto
    <2> QED
      BY <2>1, <2>2 DEF LooselyBH
  <1>3. StoredRto(p, k, 4)
    BY <1>1, <1>2 DEF StoredRto
  <1> QED
    BY <1>3, StoredCorrect

\* The corrector leaves a BH plate alone.
LEMMA BhCorrect ==
    ASSUME NEW p, Bh(p)
    PROVE  correct(p) = p
  <1> DEFINE reg == RegStart(p, letter_to_number)
             fixed == [i \in DOMAIN p |-> IF i <= 2 \/ (i >= 5 /\ i < reg)
                                          THEN Fix(number_to_letter, p[i])
                                          ELSE Fix(letter_to_number, p[i])]
             loose == [i \in DOMAIN p |-> CASE i = 3 -> "B" [] i = 4 -> "H"
                         [] i \in {1, 2} \cup 5..8 -> Fix(letter_to_number, p[i])
                         [] OTHER -> Fix(number_to_letter, p[i])]
             n == Len(p)
  <1>1. correct(p) = IF Len(p) \notin 5..11 THEN p ELSE IF LooselyBH(p) THEN loose ELSE fixed
    BY DEF correct
  <1>2. /\ p \in Seq(Chars) /\ (n = 9 \/ n = 10) /\ DOMAIN p = 1..n
        /\ p[1] \in Digit /\ p[2] \in Digit /\ p[3] = "B" /\ p[4] = "H"
        /\ \A j \in 5..8 : p[j] \in Digit
        /\ \A j \in 9..n : p[j] \in Letter
    <2>1. n \in 9..10 /\ p \in Seq(Chars)
      BY BhShape DEF Bh
    <2>2. (n = 9 \/ n = 10) /\ DOMAIN p = 1..n
      <3>1. DOMAIN p = 1..n
        BY <2>1
      <3> HIDE DEF n
      <3> QED
        BY <2>1, <3>1
    <2> QED
      BY <2>1, <2>2, BhShape
  <1>3. LooselyBH(p) /\ Len(p) \in 5..11
    BY <1>2 DEF LooselyBH
  <1> HIDE DEF n
  <1>4. ASSUME NEW j \in 1..n PROVE loose[j] = p[j]
    <2>1. CASE j = 3 \/ j = 4
      BY <1>2, <2>1
    <2>2. CASE j \in {1, 2} \cup 5..8
      <3>1. loose[j] = Fix(letter_to_number, p[j])
        BY <1>2, <2>2
      <3> HIDE DEF loose
      <3>2. p[j] \in Digit
        BY <1>2, <2>2
      <3> QED
        BY <3>1, <3>2, CorrectorKeeps
    <2>3. CASE j \in 9..n
      <3>1. loose[j] = Fix(number_to_letter, p[j])
        BY <1>2, <2>3
      <3> HIDE DEF loose
      <3> QED
        BY <1>2, <2>3, <3>1, CorrectorKeeps
    <2>4. j \in {1, 2} \cup 3..8 \/ j \in 9..n
      BY <1>2
    <2> QED
      BY <2>1, <2>2, <2>3, <2>4
  <1>5. loose = [j \in 1..n |-> loose[j]] /\ p = [j \in 1..n |-> p[j]]
    BY <1>2
  <1> HIDE DEF fixed, loose
  <1> QED
    BY <1>1, <1>3, <1>4, <1>5

\* Both pass the format test.
LEMMA ValidFormats ==
    /\ \A p, k : Rto(p, k) => IsValidRto(p)
    /\ \A p : Bh(p) => IsValidRto(p)
  <1>1. ASSUME NEW p, NEW k, Rto(p, k) PROVE IsValidRto(p)
    <2>1. /\ p \in Seq(Chars) /\ k \in 1..3 /\ Len(p) = 8 + k
          /\ p[1] \in Letter /\ p[2] \in Letter /\ p[3] \in Digit /\ p[4] \in Digit
          /\ \A j \in 5..(4 + k) : p[j] \in Letter
          /\ \A j \in (5 + k)..(8 + k) : p[j] \in Digit
      BY <1>1, CodesAreLetters DEF Rto, AllIn
    <2>2. /\ Len(p) = 2 + 2 + k + 4 /\ 2 \in 1..2 /\ k \in 0..3 /\ 4 \in 1..4
          /\ AllIn(p, 1, 2, Letter) /\ AllIn(p, 3, 2 + 2, Digit)
          /\ AllIn(p, 3 + 2, 2 + 2 + k, Letter) /\ AllIn(p, 3 + 2 + k, Len(p), Digit)
      BY <2>1 DEF AllIn
    <2> QED
      BY <2>2 DEF IsValidRto
  <1>2. ASSUME NEW p, Bh(p) PROVE IsValidRto(p)
    <2>1. BhLength(p, 1) = Len(p) /\ Len(p) >= 6 /\ p # <<>>
      BY <1>2 DEF Bh
    <2> QED
      BY <2>1 DEF IsValidRto
  <1> QED
    BY <1>1, <1>2

\* The only line that is kept is the result.
LEMMA OneLine ==
    ASSUME NEW lines, NEW n, IsLines(lines, n), NEW i \in 1..n
    PROVE  InOrder(lines, {i}) = <<lines[i]>>
  <1>1. n \in Nat
    BY DEF IsLines
  <1>2. Cardinality({i}) = 1
    BY FS_Singleton
  <1>3. PICK left : SortRounds(left, lines, {i}, 1)
    BY <1>1, <1>2, Sorting
  <1>4. FirstLine(lines, {i}) = i
    BY FirstLineIn
  <1>5. InOrder(lines, {i}) = [k \in 1..1 |-> lines[FirstLine(lines, left[k - 1])]]
    BY <1>3 DEF SortRounds
  <1>6. \A k \in 1..1 : left[k - 1] = {i}
    <2>1. left[0] = {i}
      BY <1>3 DEF SortRounds
    <2> QED
      BY <2>1
  <1>7. InOrder(lines, {i}) = [k \in 1..1 |-> lines[i]]
    BY <1>4, <1>5, <1>6
  <1> QED
    BY <1>7

\* Of two lines the upper one comes first.
LEMMA TwoLines ==
    ASSUME NEW lines, NEW n, IsLines(lines, n), NEW i \in 1..n, NEW j \in 1..n, i # j,
           Precedes(lines, i, j), ~Precedes(lines, j, i)
    PROVE  InOrder(lines, {i, j}) = <<lines[i], lines[j]>>
  <1>1. n \in Nat
    BY DEF IsLines
  <1>2. Cardinality({i, j}) = 2
    <2>1. IsFiniteSet({i}) /\ Cardinality({i}) = 1
      BY FS_Singleton
    <2>2. Cardinality({i} \cup {j}) = Cardinality({i}) + 1
      BY <2>1, FS_AddElement
    <2>3. {i} \cup {j} = {i, j}
      OBVIOUS
    <2> QED
      BY <2>1, <2>2, <2>3
  <1>3. PICK left : SortRounds(left, lines, {i, j}, 2)
    BY <1>1, <1>2, Sorting
  <1>4. FirstLine(lines, {i, j}) = i
    <2>1. \A x \in {i, j} : (\A y \in {i, j} \ {x} : Precedes(lines, x, y)) <=> x = i
      OBVIOUS
    <2>2. FirstLine(lines, {i, j}) = CHOOSE x \in {i, j} : \A y \in {i, j} \ {x} : Precedes(lines, x, y)
      BY DEF FirstLine
    <2> QED
      BY <2>1, <2>2
  <1>5. FirstLine(lines, {j}) = j
    BY FirstLineIn
  <1>6. left[0] = {i, j} /\ left[1] = {j}
    <2>1. left[0] = {i, j}
      BY <1>3 DEF SortRounds
    <2>2. left[1] = left[1 - 1] \ {FirstLine(lines, left[1 - 1])}
      <3>1. 1 \in 1..2
        OBVIOUS
      <3> QED
        BY <1>3, <3>1 DEF SortRounds
    <2>3. 1 - 1 = 0
      OBVIOUS
    <2> QED
      BY <1>4, <2>1, <2>2, <2>3
  <1>7. InOrder(lines, {i, j}) = [k \in 1..2 |-> lines[FirstLine(lines, left[k - 1])]]
    BY <1>3 DEF SortRounds
  <1>8. \A k \in 1..2 : lines[FirstLine(lines, left[k - 1])] = IF k = 1 THEN lines[i] ELSE lines[j]
    <2> TAKE k \in 1..2
    <2>1. (k = 1 /\ k - 1 = 0) \/ (k = 2 /\ k - 1 = 1)
      OBVIOUS
    <2> QED
      BY <1>4, <1>5, <1>6, <2>1
  <1>9. InOrder(lines, {i, j}) = [k \in 1..2 |-> IF k = 1 THEN lines[i] ELSE lines[j]]
    BY <1>7, <1>8
  <1> QED
    BY <1>9

\* One text in a row is itself.
LEMMA FlatOne ==
    ASSUME NEW t
    PROVE  FlattenSeq(<<t>>) = t
  <1> DEFINE seqs == <<t>>
             flat == CHOOSE g : g = [i \in 1..1 |-> IF i = 1 THEN seqs[i] ELSE g[i - 1] \o seqs[i]]
             w == [i \in 1..1 |-> t]
  <1>1. Len(seqs) = 1 /\ seqs[1] = t
    OBVIOUS
  <1>2. FlattenSeq(seqs) = flat[1]
    BY <1>1 DEF FlattenSeq
  <1> HIDE DEF seqs
  <1>3. w = [i \in 1..1 |-> IF i = 1 THEN seqs[i] ELSE w[i - 1] \o seqs[i]]
    BY <1>1
  <1>4. flat = [i \in 1..1 |-> IF i = 1 THEN seqs[i] ELSE flat[i - 1] \o seqs[i]]
    <2> HIDE DEF w
    <2> QED
      BY <1>3
  <1> HIDE DEF flat
  <1>5. flat[1] = t
    BY <1>1, <1>4
  <1> QED
    BY <1>2, <1>5 DEF seqs

\* Two texts in a row are joined.
LEMMA FlatTwo ==
    ASSUME NEW t, NEW u
    PROVE  FlattenSeq(<<t, u>>) = t \o u
  <1> DEFINE seqs == <<t, u>>
             flat == CHOOSE g : g = [i \in 1..2 |-> IF i = 1 THEN seqs[i] ELSE g[i - 1] \o seqs[i]]
             w == [i \in 1..2 |-> IF i = 1 THEN t ELSE t \o u]
  <1>1. Len(seqs) = 2 /\ seqs[1] = t /\ seqs[2] = u
    OBVIOUS
  <1>2. FlattenSeq(seqs) = flat[2]
    BY <1>1 DEF FlattenSeq
  <1> HIDE DEF seqs
  <1>3. w = [i \in 1..2 |-> IF i = 1 THEN seqs[i] ELSE w[i - 1] \o seqs[i]]
    <2>1. w[1] = t
      OBVIOUS
    <2>2. \A i \in 1..2 : (IF i = 1 THEN t ELSE t \o u)
                            = IF i = 1 THEN seqs[i] ELSE w[i - 1] \o seqs[i]
      <3> TAKE i \in 1..2
      <3> HIDE DEF w
      <3>1. i = 1 \/ (i = 2 /\ i - 1 = 1)
        OBVIOUS
      <3> QED
        BY <1>1, <2>1, <3>1
    <2> QED
      BY <2>2
  <1>4. flat = [i \in 1..2 |-> IF i = 1 THEN seqs[i] ELSE flat[i - 1] \o seqs[i]]
    <2> HIDE DEF w
    <2> QED
      BY <1>3
  <1> HIDE DEF flat
  <1>5. flat[1] = t
    BY <1>1, <1>4
  <1>6. flat[2] = flat[1] \o u
    <2>1. 2 - 1 = 1 /\ 2 \in 1..2
      OBVIOUS
    <2> QED
      BY <1>1, <1>4, <2>1
  <1> QED
    BY <1>2, <1>5, <1>6 DEF seqs

\* A text that is not one of the stamps.
Proper(t) == t # <<>> /\ t \notin Stamps

\* The text of an image is that of its only proper line.
LEMMA OneLineText ==
    ASSUME NEW lines, NEW n, IsLines(lines, n), NEW i \in 1..n, Proper(lines[i].text),
           \A j \in 1..n : j = i \/ lines[j].text \in Stamps
    PROVE  parse_ocr_result(lines).text = lines[i].text
  <1> DEFINE kept == {j \in DOMAIN lines : lines[j].text # <<>> /\ lines[j].text \notin Stamps}
             valid == InOrder(lines, kept)
             texts == [j \in DOMAIN valid |-> valid[j].text]
             confs == [j \in DOMAIN valid |-> valid[j].conf]
  <1>1. parse_ocr_result(lines) =
          IF valid = <<>> THEN None
          ELSE [text |-> FlattenSeq(texts), conf |-> Total(confs) \div Len(valid)]
    BY DEF parse_ocr_result
  <1>2. kept = {i}
    BY DEF IsLines, Proper
  <1>3. valid = <<lines[i]>>
    BY <1>2, OneLine
  <1> HIDE DEF valid
  <1>4. texts = <<lines[i].text>> /\ valid # <<>>
    BY <1>3
  <1> HIDE DEF texts, confs
  <1>5. FlattenSeq(texts) = lines[i].text
    BY <1>4, FlatOne
  <1> QED
    BY <1>1, <1>4, <1>5

\* The text of two proper lines is theirs in the order of the sort.
LEMMA TwoLinesText ==
    ASSUME NEW lines, NEW n, IsLines(lines, n), NEW i \in 1..n, NEW j \in 1..n, i # j, n = 2,
           Proper(lines[i].text), Proper(lines[j].text),
           Precedes(lines, i, j), ~Precedes(lines, j, i)
    PROVE  parse_ocr_result(lines).text = lines[i].text \o lines[j].text
  <1> DEFINE kept == {k \in DOMAIN lines : lines[k].text # <<>> /\ lines[k].text \notin Stamps}
             valid == InOrder(lines, kept)
             texts == [k \in DOMAIN valid |-> valid[k].text]
             confs == [k \in DOMAIN valid |-> valid[k].conf]
  <1>1. parse_ocr_result(lines) =
          IF valid = <<>> THEN None
          ELSE [text |-> FlattenSeq(texts), conf |-> Total(confs) \div Len(valid)]
    BY DEF parse_ocr_result
  <1>2. kept = {i, j}
    <2>1. DOMAIN lines = 1..2
      BY DEF IsLines
    <2>2. \A k \in 1..2 : k = i \/ k = j
      OBVIOUS
    <2> QED
      BY <2>1, <2>2 DEF Proper
  <1>3. valid = <<lines[i], lines[j]>>
    BY <1>2, TwoLines
  <1> HIDE DEF valid
  <1>4. texts = <<lines[i].text, lines[j].text>> /\ valid # <<>>
    <2>1. DOMAIN valid = 1..2 /\ valid[1] = lines[i] /\ valid[2] = lines[j]
      BY <1>3
    <2>2. texts = [k \in 1..2 |-> IF k = 1 THEN lines[i].text ELSE lines[j].text]
      <3>1. \A k \in 1..2 : k = 1 \/ k = 2
        OBVIOUS
      <3> QED
        BY <2>1, <3>1
    <2>3. valid # <<>>
      BY <1>3
    <2> HIDE DEF texts
    <2> QED
      BY <2>2, <2>3
  <1> HIDE DEF texts, confs
  <1>5. FlattenSeq(texts) = lines[i].text \o lines[j].text
    BY <1>4, FlatTwo
  <1> DEFINE c == Total(confs) \div Len(valid)
  <1>6. parse_ocr_result(lines) = [text |-> FlattenSeq(texts), conf |-> c]
    BY <1>1, <1>4
  <1> HIDE DEF c
  <1>7. parse_ocr_result(lines).text = FlattenSeq(texts)
    BY <1>6
  <1> QED
    BY <1>5, <1>7

\* Of a text the engine returns the plate that is found in it, restored.
LEMMA TextRead ==
    ASSUME NEW lines, NEW t, parse_ocr_result(lines).text = t, t # <<>>,
           extract_indian_plate(t) # <<>>
    PROVE  ReadImage(lines).text = normalize_plate_chars(extract_indian_plate(t))
  BY DEF ReadImage

\* What is too long for a stamp is none.
LEMMA LongIsProper ==
    ASSUME NEW t, Len(t) \in Nat, Len(t) = 4 \/ Len(t) >= 6
    PROVE  Proper(t)
  <1>1. /\ Len(<<>>) = 0 /\ Len(<<"I","N","D">>) = 3 /\ Len(<<"I","N","D","I","A">>) = 5
        /\ Len(<<"I","N">>) = 2
    OBVIOUS
  <1>2. \A u \in Stamps : Len(u) = 2 \/ Len(u) = 3 \/ Len(u) = 5
    BY <1>1 DEF Stamps
  <1>3. \A u \in Stamps : t # u
    <2> SUFFICES ASSUME t \in Stamps PROVE FALSE
      OBVIOUS
    <2> DEFINE m == Len(t)
    <2>1. (m = 4 \/ m >= 6) /\ (m = 2 \/ m = 3 \/ m = 5)
      BY <1>2
    <2> HIDE DEF m
    <2> QED
      BY <2>1
  <1>4. t # <<>>
    <2> SUFFICES ASSUME t = <<>> PROVE FALSE
      OBVIOUS
    <2> QED
      BY <1>1
  <1> QED
    BY <1>3, <1>4 DEF Proper

\* Nor is a text with a digit.
LEMMA DigitIsProper ==
    ASSUME NEW t, NEW q \in 1..5, t[q] \in Digit, q \in DOMAIN t
    PROVE  Proper(t)
  <1>1. "I" \notin Digit /\ "N" \notin Digit /\ "D" \notin Digit /\ "A" \notin Digit
    BY DEF Digit
  <1>2. \A u \in Stamps : \A k \in DOMAIN u : u[k] \notin Digit
    BY <1>1 DEF Stamps
  <1>3. DOMAIN <<>> = {}
    OBVIOUS
  <1> QED
    BY <1>2, <1>3 DEF Proper

\* The two kinds of ordinary registrations.
LEMMA OrdinaryIs ==
    ASSUME NEW p \in Plates, Ordinary(p)
    PROVE  /\ Bh(p) \/ \E k : Rto(p, k)
           /\ p \in Seq(Chars) /\ Len(p) \in 9..11 /\ p # <<>>
           /\ \E q \in 5..9 : q <= Len(p) /\ p[q] \in Digit
  <1>1. p \in Seq(Chars) /\ Len(p) \in 6..11
    BY PlateTextAssumption DEF Chars
  <1>2. CASE BhLength(p, 1) = Len(p)
    <2>1. Bh(p)
      BY <1>1, <1>2 DEF Bh
    <2>2. p[5] \in Digit /\ Len(p) \in 9..10
      BY <2>1, BhShape
    <2> QED
      BY <1>1, <2>1, <2>2
  <1>3. CASE \E k \in 1..3 : Rto(p, k)
    <2>1. PICK k \in 1..3 : Rto(p, k)
      BY <1>3
    <2>2. Len(p) = 8 + k /\ p[5 + k] \in Digit
      BY <2>1 DEF Rto, AllIn
    <2>3. 5 + k \in 5..9 /\ 5 + k <= Len(p)
      BY <2>2
    <2> QED
      BY <1>1, <2>1, <2>2, <2>3
  <1>4. BhLength(p, 1) = Len(p) \/ \E k \in 1..3 : Rto(p, k)
    BY <1>1 DEF Ordinary, Rto
  <1> QED
    BY <1>2, <1>3, <1>4

\* The text t is read as the plate p.
ReadAs(t, p) ==
    Proper(t) /\ extract_indian_plate(t) # <<>> /\ normalize_plate_chars(extract_indian_plate(t)) = p

\* A plate that is read without error is read as itself.
LEMMA PlainIsRead ==
    ASSUME NEW p \in Plates, Ordinary(p)
    PROVE  ReadAs(p, p)
  <1>1. Bh(p) \/ \E k : Rto(p, k)
    BY OrdinaryIs
  <1>2. p \in Seq(Chars) /\ Len(p) \in 9..11 /\ p # <<>>
    BY OrdinaryIs
  <1>3. Proper(p)
    <2> DEFINE n == Len(p)
    <2>2. n \in 9..11
      BY <1>2
    <2> HIDE DEF n
    <2>3. n \in Nat /\ n >= 6
      BY <2>2
    <2>1. Len(p) \in Nat /\ Len(p) >= 6
      BY <2>3 DEF n
    <2> QED
      BY <2>1, LongIsProper
  <1>4. ASSUME NEW k, Rto(p, k)
        PROVE  extract_indian_plate(p) = p /\ normalize_plate_chars(p) = p
    <2>1. Pictured(p, p, 1)
      BY <1>2 DEF Pictured
    <2> QED
      BY <1>4, <2>1, RtoFound, RtoRestored
  <1>5. extract_indian_plate(p) = p /\ normalize_plate_chars(p) = p
    BY <1>1, <1>4, BhKept
  <1> QED
    BY <1>2, <1>3, <1>5 DEF ReadAs

\* So is one of the RTO format with a character mistaken.
LEMMA MistakenIsRead ==
    ASSUME NEW p \in Plates, Ordinary(p), ~(BhLength(p, 1) > 0),
           NEW i \in DOMAIN p, NEW d \in LooksLike(p[i])
    PROVE  ReadAs([p EXCEPT ![i] = d], p)
  <1> DEFINE s == [p EXCEPT ![i] = d]
  <1>1. p \in Seq(Chars) /\ Len(p) \in 9..11 /\ DOMAIN p = 1..Len(p)
    BY OrdinaryIs
  <1>2. PICK k : Rto(p, k)
    <2>1. ~Bh(p)
      BY <1>1 DEF Bh
    <2> QED
      BY <2>1, OrdinaryIs
  <1>3. d \in Chars
    BY DEF LooksLike, Chars
  <1>4. s \in Seq(Chars) /\ Len(s) = Len(p)
    BY <1>1, <1>3
  <1>5. \A j \in 1..Len(p) : s[j] = IF j = i THEN d ELSE p[j]
    BY <1>1
  <1> HIDE DEF s
  <1>6. Pictured(s, p, i)
    BY <1>1, <1>4, <1>5 DEF Pictured
  <1>7. extract_indian_plate(s) = s /\ normalize_plate_chars(s) = p
    BY <1>2, <1>6, RtoFound, RtoRestored
  <1>8. Proper(s)
    BY <1>1, <1>4, LongIsProper
  <1>9. ReadAs(s, p)
    BY <1>7, <1>8 DEF ReadAs, Proper
  <1> QED
    BY <1>9 DEF s

\* So is one behind the stamp that does not start with D or L.
LEMMA GluedIsRead ==
    ASSUME NEW p \in Plates, Ordinary(p), p[1] \notin {"D", "L"}
    PROVE  ReadAs(Stamp \o p, p)
  <1>1. p \in Seq(Chars) /\ Len(p) \in 9..11 /\ p # <<>>
    BY OrdinaryIs
  <1>2. extract_indian_plate(Stamp \o p) = p
    BY OrdinaryIs, BhUnstamped, RtoUnstamped
  <1>3. normalize_plate_chars(p) = p
    <2>1. extract_indian_plate(p) = p
      <3>1. Bh(p) => extract_indian_plate(p) = p
        BY BhKept
      <3>2. ASSUME NEW k, Rto(p, k) PROVE extract_indian_plate(p) = p
        <4>1. Pictured(p, p, 1)
          BY <1>1 DEF Pictured
        <4> QED
          BY <3>2, <4>1, RtoFound
      <3> QED
        BY <3>1, <3>2, OrdinaryIs
    <2> QED
      BY <2>1, PlainIsRead DEF ReadAs
  <1>4. Proper(Stamp \o p)
    <2> DEFINE s == Stamp \o p
    <2>1. Len(s) = 3 + Len(p)
      BY <1>1, GluedText
    <2> HIDE DEF s
    <2>2. Proper(s)
      <3> DEFINE n == Len(p)
                 m == Len(s)
      <3>2. n \in 9..11 /\ m = 3 + n
        BY <1>1, <2>1
      <3> HIDE DEF n, m
      <3>3. m \in Nat /\ m >= 6
        BY <3>2
      <3>1. Len(s) \in Nat /\ Len(s) >= 6
        BY <3>3 DEF m
      <3> QED
        BY <3>1, LongIsProper
    <2> QED
      BY <2>2 DEF s
  <1> QED
    BY <1>1, <1>2, <1>3, <1>4 DEF ReadAs

\* The rows of the two halves.
LEMMA UpperFirst ==
    ASSUME NEW lines, NEW i, NEW j, lines[i].cy = 20, lines[j].cy = 80
    PROVE  Precedes(lines, i, j) /\ ~Precedes(lines, j, i)
  <1>1. 20 \div 30 = 0 /\ 20 % 30 = 20 /\ 80 \div 30 = 2 /\ 80 % 30 = 20
    OBVIOUS
  <1>2. Row(20) = 1 /\ Row(80) = 3
    BY <1>1 DEF Row
  <1> QED
    BY <1>2 DEF Precedes, ReadBefore

\* The halves of a plate are proper, and together they are the plate.
LEMMA Halves ==
    ASSUME NEW p \in Plates, Ordinary(p)
    PROVE  /\ Proper(SubSeq(p, 1, 4)) /\ Proper(SubSeq(p, 5, Len(p)))
           /\ SubSeq(p, 1, 4) \o SubSeq(p, 5, Len(p)) = p
  <1> DEFINE a == SubSeq(p, 1, 4)
             b == SubSeq(p, 5, Len(p))
             n == Len(p)
  <1>1. p \in Seq(Chars) /\ n \in 9..11
    BY OrdinaryIs
  <1>2. a \in Seq(Chars) /\ Len(a) = 4 /\ \A j \in 1..4 : a[j] = p[j]
    BY <1>1
  <1>3. b \in Seq(Chars) /\ Len(b) = n - 4 /\ \A j \in 1..(n - 4) : b[j] = p[j + 4]
    <2>1. b \in Seq(Chars) /\ b = [j \in 1..(n - 5 + 1) |-> p[5 + j - 1]]
      BY <1>1
    <2>2. n - 5 + 1 = n - 4 /\ \A j \in 1..(n - 4) : 5 + j - 1 = j + 4
      BY <1>1
    <2> HIDE DEF b, n
    <2> QED
      BY <1>1, <2>1, <2>2
  <1>4. PICK q \in 5..9 : q <= n /\ p[q] \in Digit
    BY OrdinaryIs
  <1>5. Proper(a)
    <2> HIDE DEF a
    <2> QED
      BY <1>2, LongIsProper
  <1> HIDE DEF a, b
  <1>6. Proper(b)
    <2>1. q - 4 \in 1..5 /\ q - 4 \in 1..(n - 4) /\ (q - 4) + 4 = q
      BY <1>1, <1>4
    <2>2. b[q - 4] = p[q] /\ q - 4 \in DOMAIN b
      BY <1>3, <2>1
    <2> QED
      BY <1>4, <2>1, <2>2, DigitIsProper
  <1>7. a \o b = p
    <2> DEFINE s == a \o b
    <2>1. /\ s \in Seq(Chars) /\ Len(s) = Len(a) + Len(b)
          /\ \A j \in 1..Len(a) : s[j] = a[j]
          /\ \A j \in 1..Len(b) : s[j + Len(a)] = b[j]
      <3>1. a \in Seq(Chars) /\ b \in Seq(Chars)
        BY <1>2, <1>3
      <3> QED
        BY ONLY <3>1, InARow
    <2> HIDE DEF s
    <2>3. Len(s) = n
      BY <1>1, <1>2, <1>3, <2>1
    <2>4. ASSUME NEW j \in 1..n PROVE s[j] = p[j]
      <3>1. CASE j <= 4
        BY <1>1, <1>2, <2>1, <3>1
      <3>2. CASE j > 4
        <4>1. j - 4 \in 1..(n - 4) /\ (j - 4) + 4 = j
          BY <1>1, <3>2
        <4>2. s[(j - 4) + 4] = b[j - 4]
          BY <1>2, <1>3, <2>1, <4>1
        <4> QED
          BY <1>3, <4>1, <4>2
      <3> QED
        BY <1>1, <3>1, <3>2
    <2>5. s = [j \in 1..n |-> s[j]] /\ p = [j \in 1..n |-> p[j]]
      BY <1>1, <2>1, <2>3
    <2>6. s = p
      BY <2>4, <2>5
    <2> QED
      BY <2>6 DEF s
  <1> QED
    BY <1>5, <1>6, <1>7 DEF a, b

\* The images from which an ordinary registration is read.
Legible(p, how) == /\ how \in Kinds /\ how # "noisy" /\ Ordinary(p)
                   /\ how = "glued" => p[1] \notin {"D", "L"}

\* What is read from them is the registration.
LEMMA RightlySeen ==
    ASSUME NEW p \in Plates, NEW how, Legible(p, how), NEW c \in OcrConfidences,
           NEW lines \in Seen(p, how, c)
    PROVE  ReadImage(lines).text = p
  <1>1. how \in Kinds /\ Ordinary(p) /\ p # <<>>
    BY OrdinaryIs DEF Legible
  <1>2. PICK n : IsLines(lines, n)
    BY <1>1, LinesSeen
  <1>3. n \in Nat /\ DOMAIN lines = 1..n
    BY <1>2 DEF IsLines
  <1>4. ASSUME NEW t, ReadAs(t, p), parse_ocr_result(lines).text = t
        PROVE  ReadImage(lines).text = p
    BY <1>4, TextRead DEF ReadAs, Proper
  <1>5. ASSUME NEW t, NEW cy, NEW cx, ReadAs(t, p), lines = <<Line(t, cy, cx, c)>>
        PROVE  ReadImage(lines).text = p
    <2>1. DOMAIN lines = 1..1 /\ lines[1].text = t
      BY <1>5 DEF Line
    <2>2. 1 \in 1..n /\ \A j \in 1..n : j = 1
      <3>1. 1..n = 1..1
        BY <1>3, <2>1
      <3> QED
        BY <3>1
    <2>3. Proper(lines[1].text)
      BY <1>5, <2>1 DEF ReadAs
    <2>4. parse_ocr_result(lines).text = t
      BY <1>2, <2>1, <2>2, <2>3, OneLineText
    <2> QED
      BY <1>4, <1>5, <2>4
  <1>6. CASE how = "exact"
    <2> DEFINE a == SubSeq(p, 1, 4)
               b == SubSeq(p, 5, Len(p))
               top == Line(a, 20, 9, c)
               bottom == Line(b, 80, 5, c)
    <2>1. \/ lines = <<Line(p, 40, 30, c)>>
          \/ lines = <<top, bottom>> \/ lines = <<bottom, top>>
      BY <1>6 DEF Seen, Exact
    <2>2. Proper(a) /\ Proper(b) /\ a \o b = p /\ ReadAs(p, p)
      BY <1>1, Halves, PlainIsRead
    <2> HIDE DEF a, b
    <2>3. top.text = a /\ top.cy = 20 /\ bottom.text = b /\ bottom.cy = 80
      BY DEF Line
    <2> HIDE DEF top, bottom
    <2>4. ASSUME NEW i \in 1..2, NEW j \in 1..2, i # j, DOMAIN lines = 1..2,
                 lines[i] = top, lines[j] = bottom
          PROVE  ReadImage(lines).text = p
      <3>1. n = 2
        <4>1. 1..n = 1..2
          BY <1>3, <2>4
        <4> QED
          BY <1>3, <4>1
      <3>2. Precedes(lines, i, j) /\ ~Precedes(lines, j, i)
        BY <2>3, <2>4, UpperFirst
      <3>3. Proper(lines[i].text) /\ Proper(lines[j].text)
        BY <2>2, <2>3, <2>4
      <3>4. parse_ocr_result(lines).text = lines[i].text \o lines[j].text
        BY <1>2, <2>4, <3>1, <3>2, <3>3, TwoLinesText
      <3>5. parse_ocr_result(lines).text = p
        BY <2>2, <2>3, <2>4, <3>4
      <3> QED
        BY <1>4, <2>2, <3>5
    <2>5. lines = <<top, bottom>> => lines[1] = top /\ lines[2] = bottom /\ DOMAIN lines = 1..2
      OBVIOUS
    <2>6. lines = <<bottom, top>> => lines[2] = top /\ lines[1] = bottom /\ DOMAIN lines = 1..2
      OBVIOUS
    <2>7. 1 \in 1..2 /\ 2 \in 1..2 /\ 1 # 2
      OBVIOUS
    <2> QED
      BY <1>5, <2>1, <2>2, <2>4, <2>5, <2>6, <2>7
  <1>7. CASE how = "tolerable"
    <2> DEFINE stamp == Line(Stamp, 40, 2, c)
               one == Line(p, 40, 30, c)
    <2>1. \/ lines = <<stamp, one>>
          \/ /\ ~(BhLength(p, 1) > 0)
             /\ \E i \in DOMAIN p : \E d \in LooksLike(p[i]) :
                  lines = <<Line([p EXCEPT ![i] = d], 40, 30, c)>>
      BY <1>7 DEF Seen, Tolerable
    <2>2. CASE lines = <<stamp, one>>
      <3>1. stamp.text \in Stamps /\ one.text = p
        BY DEF Line, Stamp, Stamps
      <3> HIDE DEF stamp, one
      <3>2. DOMAIN lines = 1..2 /\ lines[1] = stamp /\ lines[2] = one
        BY <2>2
      <3>3. n = 2
        <4>1. 1..n = 1..2
          BY <1>3, <3>2
        <4> QED
          BY <1>3, <4>1
      <3>4. \A j \in 1..n : j = 2 \/ lines[j].text \in Stamps
        <4>1. \A j \in 1..n : j = 1 \/ j = 2
          BY <3>3
        <4> QED
          BY <3>1, <3>2, <4>1
      <3>5. Proper(lines[2].text) /\ ReadAs(p, p)
        BY <1>1, <3>1, <3>2, PlainIsRead DEF ReadAs
      <3>6. 2 \in 1..n
        BY <3>3
      <3>7. parse_ocr_result(lines).text = p
        BY <1>2, <3>1, <3>2, <3>4, <3>5, <3>6, OneLineText
      <3> QED
        BY <1>4, <3>5, <3>7
    <2>3. CASE /\ ~(BhLength(p, 1) > 0)
               /\ \E i \in DOMAIN p : \E d \in LooksLike(p[i]) :
                    lines = <<Line([p EXCEPT ![i] = d], 40, 30, c)>>
      <3>1. PICK i \in DOMAIN p : \E d \in LooksLike(p[i]) :
                    lines = <<Line([p EXCEPT ![i] = d], 40, 30, c)>>
        BY <2>3
      <3>2. PICK d \in LooksLike(p[i]) : lines = <<Line([p EXCEPT ![i] = d], 40, 30, c)>>
        BY <3>1
      <3>3. ReadAs([p EXCEPT ![i] = d], p)
        BY <1>1, <2>3, MistakenIsRead
      <3> QED
        BY <1>5, <3>2, <3>3
    <2> QED
      BY <2>1, <2>2, <2>3
  <1>8. CASE how = "glued"
    <2>1. lines = <<Line(Stamp \o p, 40, 20, c)>>
      BY <1>8 DEF Seen, Glued
    <2>2. ReadAs(Stamp \o p, p)
      BY <1>1, <1>8, GluedIsRead DEF Legible
    <2> QED
      BY <1>5, <2>1, <2>2
  <1>9. how # "noisy"
    BY DEF Legible
  <1> QED
    BY <1>1, <1>6, <1>7, <1>8, <1>9 DEF Kinds

\* The readings of a legible image are all the registration.
LEMMA RightReadings ==
    ASSUME NEW p \in Plates, NEW how, Legible(p, how), NEW r \in Readings[<<p, how>>]
    PROVE  r.text = p
  <1>1. <<p, how>> \in Plates \X Kinds /\ (<<p, how>>)[1] = p /\ (<<p, how>>)[2] = how
    BY DEF Legible
  <1>2. Readings[<<p, how>>] = {ReadImage(lines) : lines \in
                                 UNION {Seen(p, how, c) : c \in OcrConfidences}}
    BY <1>1 DEF Readings
  <1>3. PICK c \in OcrConfidences : \E lines \in Seen(p, how, c) : r = ReadImage(lines)
    BY <1>2
  <1> QED
    BY <1>3, RightlySeen

\* Reads that all agree are the vote.
LEMMA Unanimous ==
    ASSUME NEW rs, NEW n, IsReads(rs, n), n > 0, NEW t, \A k \in 1..n : rs[k].text = t
    PROVE  vote_consensus(rs) = t
  <1> DEFINE OfLength(m) == {j \in DOMAIN rs : Len(rs[j].text) = m}
             Most == {j \in DOMAIN rs : \A k \in DOMAIN rs :
                        Cardinality(OfLength(Len(rs[j].text)))
                          >= Cardinality(OfLength(Len(rs[k].text)))}
             dominant == Min(Most)
             filtered == OfLength(Len(rs[dominant].text))
             Has(pos, c) == [j \in DOMAIN rs |->
                               IF j \in filtered /\ rs[j].text[pos] = c THEN rs[j].conf ELSE 0]
             Weight(pos, c) == Total(Has(pos, c))
             Heaviest(pos) == {j \in filtered : \A k \in filtered :
                                 Weight(pos, rs[j].text[pos]) >= Weight(pos, rs[k].text[pos])}
             Best(pos) == Min(Heaviest(pos))
  <1>1. vote_consensus(rs) = [pos \in 1..Len(rs[dominant].text) |-> rs[Best(pos)].text[pos]]
    BY DEF vote_consensus
  <1>2. n \in Nat /\ DOMAIN rs = 1..n /\ \A k \in 1..n : IsRead(rs[k])
    BY DEF IsReads
  <1>9. Indices(1..n, n)
    <2>1. 1 \in 1..n /\ 1..n \subseteq 0..n
      BY <1>2
    <2> QED
      BY <1>2, <2>1 DEF Indices
  <1>3. Cardinality(OfLength(Len(t))) \in Nat
    <2> DEFINE A == OfLength(Len(t))
    <2>1. A \subseteq 1..n
      BY <1>2
    <2> HIDE DEF A
    <2>2. Cardinality(A) \in Nat
      BY <1>2, <2>1, CountBelow
    <2> QED
      BY <2>2 DEF A
  <1>4. Most = 1..n
    <2> DEFINE count == Cardinality(OfLength(Len(t)))
    <2>1. \A j \in 1..n : Cardinality(OfLength(Len(rs[j].text))) = count
      OBVIOUS
    <2>2. count \in Nat
      BY <1>3
    <2> HIDE DEF count
    <2> QED
      BY <1>2, <2>1, <2>2
  <1> HIDE DEF Most
  <1>5. dominant \in 1..n
    <2>1. Indices(Most, n)
      BY <1>4, <1>9
    <2> QED
      BY <1>4, <2>1, EndsOf
  <1> HIDE DEF dominant
  <1>6. rs[dominant].text = t /\ filtered = 1..n
    BY <1>2, <1>5
  <1> HIDE DEF filtered
  <1>7. ASSUME NEW pos \in 1..Len(t)
        PROVE  rs[Best(pos)].text[pos] = t[pos]
    <2> DEFINE w == Weight(pos, t[pos])
               heaviest == Heaviest(pos)
    <2>1. w \in Nat
      <3> DEFINE h == Has(pos, t[pos])
      <3>1. Numbers(h, n)
        BY <1>2 DEF Numbers, IsRead
      <3> HIDE DEF h
      <3>2. \E sum : Sums(sum, h, n) /\ Total(h) = sum[n]
        BY <3>1, TotalSums
      <3>3. Total(h) \in Nat
        BY <1>2, <3>2 DEF Sums
      <3> QED
        BY <3>3 DEF h
    <2>2. \A j \in 1..n : Weight(pos, rs[j].text[pos]) = w
      OBVIOUS
    <2>3. heaviest = {j \in filtered : \A k \in filtered :
                                 Weight(pos, rs[j].text[pos]) >= Weight(pos, rs[k].text[pos])}
      OBVIOUS
    <2> HIDE DEF w, Weight, heaviest
    <2>4. heaviest = 1..n
      BY <1>6, <2>1, <2>2, <2>3
    <2>5. Indices(heaviest, n)
      BY <2>4, <1>9
    <2>6. Min(heaviest) \in 1..n
      BY <2>4, <2>5, EndsOf
    <2>7. Best(pos) = Min(heaviest)
      BY DEF heaviest
    <2> HIDE DEF Best
    <2> QED
      BY <2>6, <2>7
  <1>8. t = [pos \in 1..Len(t) |-> t[pos]]
    <2>1. IsText(t)
      BY <1>2, <1>5, <1>6 DEF IsRead
    <2> QED
      BY <2>1, TextLength
  <1> HIDE DEF Best
  <1> QED
    BY <1>1, <1>6, <1>7, <1>8

\* The track has been photographed legibly.
LegibleSoFar == /\ "noisy" \notin looks /\ Ordinary(plate)
                /\ "glued" \in looks => plate[1] \notin {"D", "L"}

\* The inductive invariant: as long as it has, every crop so far is one read, of the
\* registration itself.
KeptInv == /\ TextInv /\ crops \in Nat
           /\ LegibleSoFar => /\ Len(reads) = crops
                              /\ \A j \in DOMAIN reads : reads[j].text = plate
                              /\ stage = "done" => stored = plate

\* A legible crop adds one read of the registration.
LEMMA ReadCropKeeps ==
    ASSUME KeptInv, ReadCrop
    PROVE  KeptInv'
  <1>1. TextInv'
    BY ReadCropInv DEF KeptInv
  <1>2. stage' = stage /\ stage = "read" /\ plate' = plate /\ crops' = crops + 1 /\ crops \in Nat
    BY DEF ReadCrop, KeptInv
  <1>3. PICK how \in Kinds : \E first, second \in Readings[<<plate, how>>] :
          /\ looks' = looks \cup {how}
          /\ \E r \in {read_text(<<first>>), read_text(<<first, second>>)} :
               reads' = IF r.text = <<>> THEN reads ELSE Append(reads, r)
    BY DEF ReadCrop
  <1>4. PICK first, second \in Readings[<<plate, how>>] :
          /\ looks' = looks \cup {how}
          /\ \E r \in {read_text(<<first>>), read_text(<<first, second>>)} :
               reads' = IF r.text = <<>> THEN reads ELSE Append(reads, r)
    BY <1>3
  <1>5. PICK r \in {read_text(<<first>>), read_text(<<first, second>>)} :
          reads' = IF r.text = <<>> THEN reads ELSE Append(reads, r)
    BY <1>4
  <1>6. ASSUME LegibleSoFar'
        PROVE  Len(reads)' = crops' /\ \A j \in DOMAIN reads' : reads'[j].text = plate
    <2>1. LegibleSoFar /\ Legible(plate, how)
      BY <1>2, <1>4, <1>6 DEF LegibleSoFar, Legible
    <2>2. plate \in Plates /\ reads \in Seq(Reads)
      BY DEF KeptInv, TextInv
    <2>3. first.text = plate /\ second.text = plate
      BY <1>4, <2>1, <2>2, RightReadings
    <2>4. r = first \/ r = second
      BY <1>4, <1>5, <2>2, TwoReads
    <2>5. plate # <<>>
      BY <2>1, <2>2, OrdinaryIs DEF LegibleSoFar
    <2>6. reads' = Append(reads, r) /\ r.text = plate
      BY <1>5, <2>3, <2>4, <2>5
    <2>7. Len(reads) = crops /\ \A j \in DOMAIN reads : reads[j].text = plate
      BY <2>1 DEF KeptInv
    <2>8. DOMAIN reads = 1..Len(reads) /\ Len(reads) \in Nat
      BY <2>2
    <2>9. /\ Len(reads') = Len(reads) + 1 /\ DOMAIN reads' = 1..(Len(reads) + 1)
          /\ \A j \in 1..Len(reads) : reads'[j] = reads[j]
          /\ reads'[Len(reads) + 1] = r
      BY <2>2, <2>6
    <2>10. \A j \in 1..(Len(reads) + 1) : j \in 1..Len(reads) \/ j = Len(reads) + 1
      BY <2>8
    <2> QED
      BY <1>2, <2>6, <2>7, <2>8, <2>9, <2>10
  <1> QED
    BY <1>1, <1>2, <1>6 DEF KeptInv

\* The reads being unanimous, the registration wins the vote, is left alone by the corrector
\* and passes the format test.
LEMMA ConcludeKeeps ==
    ASSUME KeptInv, Conclude
    PROVE  KeptInv'
  <1>1. TextInv'
    BY ConcludeInv DEF KeptInv
  <1>2. /\ plate' = plate /\ reads' = reads /\ looks' = looks /\ crops' = crops /\ crops > 0
        /\ voted' = IF reads = <<>> THEN <<>> ELSE vote_consensus(reads)
        /\ stored' = IF voted' # <<>> /\ IsValidRto(correct(voted')) THEN correct(voted') ELSE <<>>
    BY DEF Conclude
  <1>3. ASSUME LegibleSoFar
        PROVE  stored' = plate
    <2>1. Len(reads) = crops /\ (\A j \in DOMAIN reads : reads[j].text = plate) /\ crops \in Nat
      BY <1>3 DEF KeptInv
    <2>2. plate \in Plates /\ reads \in Seq(Reads) /\ Ordinary(plate)
      BY <1>3 DEF KeptInv, TextInv, LegibleSoFar
    <2> DEFINE n == Len(reads)
    <2>3. n \in Nat /\ DOMAIN reads = 1..n /\ \A k \in 1..n : reads[k] \in Reads
      BY <2>2
    <2>4. n > 0 /\ reads # <<>>
      <3>1. n > 0
        BY <1>2, <2>1
      <3>2. Len(<<>>) = 0
        OBVIOUS
      <3> QED
        BY <3>1, <3>2
    <2>5. IsReads(reads, n)
      BY <2>3, ReadsTyped DEF IsReads
    <2> HIDE DEF n
    <2>6. vote_consensus(reads) = plate
      BY <2>1, <2>3, <2>4, <2>5, Unanimous
    <2>7. plate # <<>> /\ correct(plate) = plate /\ IsValidRto(plate)
      BY <2>2, OrdinaryIs, RtoCorrect, BhCorrect, ValidFormats
    <2> QED
      BY <1>2, <2>4, <2>6, <2>7
  <1>4. LegibleSoFar' => LegibleSoFar
    BY <1>2 DEF LegibleSoFar
  <1> QED
    BY <1>1, <1>2, <1>3, <1>4 DEF KeptInv

\* For every set of registrations, readings of any confidence and any number of crops: an
\* ordinary registration that is photographed legibly is stored as itself.
THEOREM OrdinaryPlatesStored ==
    TextSpec => []OrdinaryPlatesAreKept
  <1>1. TextInit => KeptInv
    <2> SUFFICES ASSUME TextInit PROVE KeptInv
      OBVIOUS
    <2>1. TextInv
      BY TextInitInv
    <2>2. reads = <<>> /\ crops = 0 /\ stage = "read"
      BY DEF TextInit
    <2>3. Len(<<>>) = 0 /\ DOMAIN <<>> = {}
      OBVIOUS
    <2> QED
      BY <2>1, <2>2, <2>3 DEF KeptInv
  <1>2. KeptInv /\ [TextNext]_textVars => KeptInv'
    <2> SUFFICES ASSUME KeptInv, [TextNext]_textVars PROVE KeptInv'
      OBVIOUS
    <2>1. CASE UNCHANGED textVars
      BY <2>1 DEF textVars, KeptInv, LegibleSoFar, TextInv, MajorityWins
    <2> QED
      BY <2>1, ReadCropKeeps, ConcludeKeeps DEF TextNext
  <1>3. KeptInv => OrdinaryPlatesAreKept
    BY DEF KeptInv, LegibleSoFar, OrdinaryPlatesAreKept
  <1> QED
    BY <1>1, <1>2, <1>3, PTL DEF TextSpec

\* The vote over some reads is a text: its length is that of one of them.
LEMMA VotedText ==
    ASSUME NEW rs, NEW n, IsReads(rs, n), n > 0
    PROVE  IsText(vote_consensus(rs))
  <1> DEFINE OfLength(m) == {j \in DOMAIN rs : Len(rs[j].text) = m}
             Most == {j \in DOMAIN rs : \A k \in DOMAIN rs :
                        Cardinality(OfLength(Len(rs[j].text)))
                          >= Cardinality(OfLength(Len(rs[k].text)))}
             dominant == Min(Most)
             filtered == OfLength(Len(rs[dominant].text))
             Weight(pos, c) == Total([j \in DOMAIN rs |->
                                 IF j \in filtered /\ rs[j].text[pos] = c THEN rs[j].conf ELSE 0])
             Best(pos) == Min({j \in filtered : \A k \in filtered :
                                 Weight(pos, rs[j].text[pos]) >= Weight(pos, rs[k].text[pos])})
             f == [j \in 1..n |-> Cardinality(OfLength(Len(rs[j].text)))]
  <1>1. vote_consensus(rs) = [pos \in 1..Len(rs[dominant].text) |-> rs[Best(pos)].text[pos]]
    BY DEF vote_consensus
  <1>2. n \in Nat /\ DOMAIN rs = 1..n /\ \A k \in 1..n : IsRead(rs[k])
    BY DEF IsReads
  <1>3. \A j \in 1..n : f[j] \in Int
    <2> TAKE j \in 1..n
    <2> DEFINE A == OfLength(Len(rs[j].text))
    <2>1. A \subseteq 1..n
      BY <1>2
    <2> HIDE DEF A
    <2>2. Cardinality(A) \in Nat
      BY <1>2, <2>1, CountBelow
    <2>3. f[j] = Cardinality(A)
      BY DEF A
    <2> HIDE DEF f
    <2> QED
      BY <2>2, <2>3
  <1>4. Indices(1..n, n)
    <2>1. 1 \in 1..n /\ 1..n \subseteq 0..n
      BY <1>2
    <2> QED
      BY <1>2, <2>1 DEF Indices
  <1>5. Most = {j \in 1..n : \A k \in 1..n : f[j] >= f[k]}
    BY <1>2
  <1> HIDE DEF f, Most
  <1>6. Most # {} /\ Most \subseteq 1..n
    <2>1. \E j \in 1..n : \A k \in 1..n : f[j] >= f[k]
      BY <1>3, <1>4, Greatest
    <2> QED
      BY <1>5, <2>1
  <1>7. dominant \in 1..n
    <2>1. Indices(Most, n)
      BY <1>2, <1>6 DEF Indices
    <2> QED
      BY <1>6, <2>1, EndsOf
  <1> HIDE DEF dominant, Best
  <1>8. Len(rs[dominant].text) \in Nat
    <2>1. IsText(rs[dominant].text)
      BY <1>2, <1>7 DEF IsRead
    <2> QED
      BY <2>1, TextLength
  <1> DEFINE m == Len(rs[dominant].text)
             text == [pos \in 1..m |-> rs[Best(pos)].text[pos]]
  <1>9. text = [pos \in 1..m |-> text[pos]]
    OBVIOUS
  <1> HIDE DEF text
  <1>10. IsText(text)
    BY <1>8, <1>9 DEF IsText
  <1> QED
    BY <1>1, <1>10 DEF text

\* The corrected text is one.
LEMMA CorrectedText ==
    ASSUME NEW s, IsText(s)
    PROVE  IsText(correct(s))
  <1> DEFINE reg == RegStart(s, letter_to_number)
             fixed == [i \in DOMAIN s |-> IF i <= 2 \/ (i >= 5 /\ i < reg)
                                          THEN Fix(number_to_letter, s[i])
                                          ELSE Fix(letter_to_number, s[i])]
             loose == [i \in DOMAIN s |-> CASE i = 3 -> "B" [] i = 4 -> "H"
                         [] i \in {1, 2} \cup 5..8 -> Fix(letter_to_number, s[i])
                         [] OTHER -> Fix(number_to_letter, s[i])]
  <1>1. correct(s) = IF Len(s) \notin 5..11 THEN s ELSE IF LooselyBH(s) THEN loose ELSE fixed
    BY DEF correct
  <1>2. Len(s) \in Nat /\ DOMAIN s = 1..Len(s)
    BY TextLength
  <1>3. fixed = [i \in 1..Len(s) |-> fixed[i]] /\ loose = [i \in 1..Len(s) |-> loose[i]]
    BY <1>2
  <1> HIDE DEF fixed, loose
  <1>4. IsText(fixed) /\ IsText(loose)
    BY <1>2, <1>3 DEF IsText
  <1> QED
    BY <1>1, <1>4

\* A text of an ordinary layout is an ordinary registration.
LEMMA OrdinaryText ==
    ASSUME NEW t, IsText(t), t # <<>>, Ordinary(t)
    PROVE  Bh(t) \/ \E k : Rto(t, k)
  <1> DEFINE n == Len(t)
  <1>1. n \in Nat /\ DOMAIN t = 1..n /\ t = [j \in 1..n |-> t[j]]
    BY TextLength
  <1>2. (\A j \in 1..n : t[j] \in Chars) => t \in Seq(Chars)
    <2> SUFFICES ASSUME \A j \in 1..n : t[j] \in Chars
                 PROVE  t \in Seq(Chars)
      OBVIOUS
    <2> HIDE DEF n
    <2>1. t \in [1..n -> Chars]
      BY <1>1
    <2> QED
      BY <1>1, <2>1
  <1>3. CASE BhLength(t, 1) = n
    <2>1. n # 0
      BY <1>1, <1>3
    <2>2. 1 \in 1..Len(t) /\ BhLength(t, 1) # 0
      BY <1>1, <1>3, <2>1
    <2>3. /\ 9 <= n /\ t[1] \in Digit /\ t[2] \in Digit /\ t[3] = "B" /\ t[4] = "H"
          /\ (\A j \in 5..8 : t[j] \in Digit) /\ t[9] \in Letter
      <3>1. /\ 1 + 8 <= Len(t) /\ t[1] \in Digit /\ t[1 + 1] \in Digit
            /\ t[1 + 2] = "B" /\ t[1 + 3] = "H" /\ \A j \in (1 + 4)..(1 + 7) : t[j] \in Digit
            /\ t[1 + 8] \in Letter
        BY <1>1, <2>2, BhMatch
      <3> QED
        BY <3>1
    <2>4. n = 9 \/ (n = 10 /\ t[10] \in Letter)
      BY <1>1, <1>3, <2>3 DEF BhLength
    <2>5. "B" \in Chars /\ "H" \in Chars /\ Digit \subseteq Chars /\ Letter \subseteq Chars
      BY DEF Chars, Letter
    <2>6. \A j \in 1..n : t[j] \in Chars
      <3> TAKE j \in 1..n
      <3> HIDE DEF n
      <3>1. j \in {1, 2, 3, 4, 9} \/ j \in 5..8 \/ (j = 10 /\ n = 10)
        BY <2>4
      <3> QED
        BY <2>3, <2>4, <2>5, <3>1
    <2> QED
      BY <1>2, <1>3, <2>3, <2>6 DEF Bh
  <1>4. CASE \E k \in 1..3 : /\ Len(t) = 8 + k
                             /\ <<t[1], t[2]>> \in INDIAN_STATE_CODES
                             /\ AllIn(t, 3, 4, Digit) /\ AllIn(t, 5, 4 + k, Letter \ {"O"})
                             /\ AllIn(t, 5 + k, Len(t), Digit)
                             /\ <<t[3], t[4]>> # <<"8", "4">>
    <2>1. PICK k \in 1..3 : /\ Len(t) = 8 + k
                            /\ <<t[1], t[2]>> \in INDIAN_STATE_CODES
                            /\ AllIn(t, 3, 4, Digit) /\ AllIn(t, 5, 4 + k, Letter \ {"O"})
                            /\ AllIn(t, 5 + k, Len(t), Digit)
                            /\ <<t[3], t[4]>> # <<"8", "4">>
      BY <1>4
    <2>2. \A j \in 1..n : t[j] \in Chars
      <3> TAKE j \in 1..n
      <3>1. j = 1 \/ j = 2 \/ j \in 3..4 \/ j \in 5..(4 + k) \/ j \in (5 + k)..n
        BY <2>1
      <3> QED
        BY <2>1, <3>1, CodesAreLetters DEF AllIn, Chars
    <2>3. t \in Seq(Chars)
      BY <1>2, <2>2
    <2> QED
      BY <2>1, <2>3 DEF Rto
  <1> QED
    BY <1>3, <1>4 DEF Ordinary

\* It is a fixed point of reading and correcting.
LEMMA FixedPoint ==
    ASSUME NEW t, Bh(t) \/ \E k : Rto(t, k)
    PROVE  extract_indian_plate(t) = t /\ normalize_plate_chars(t) = t /\ correct(t) = t
  <1>1. ASSUME NEW k, Rto(t, k)
        PROVE  extract_indian_plate(t) = t /\ normalize_plate_chars(t) = t /\ correct(t) = t
    <2>1. Pictured(t, t, 1)
      BY <1>1 DEF Rto, Pictured
    <2> QED
      BY <1>1, <2>1, RtoFound, RtoRestored, RtoCorrect
  <1> QED
    BY <1>1, BhKept, BhCorrect

\* Whatever was read, be it cut or wrong or mixed by the vote: if what is stored has an
\* ordinary layout then it comes back unchanged from reading and correcting it, so the same
\* text has one cooldown key and one registry entry.
THEOREM OrdinaryTextsStable ==
    TextSpec => [](stored # <<>> /\ Ordinary(stored) => Stable(stored))
  <1> DEFINE Inv == TextInv /\ IsText(stored)
  <1>1. TextInit => Inv
    <2>1. <<>> = [k \in 1..0 |-> (<<>>)[k]]
      OBVIOUS
    <2>2. IsText(<<>>)
      BY <2>1 DEF IsText
    <2> QED
      BY <2>2, TextInitInv DEF TextInit
  <1>2. Inv /\ [TextNext]_textVars => Inv'
    <2> SUFFICES ASSUME Inv, [TextNext]_textVars PROVE Inv'
      OBVIOUS
    <2>1. CASE UNCHANGED textVars
      BY <2>1 DEF textVars, TextInv, MajorityWins
    <2>2. CASE ReadCrop
      <3>1. stored' = stored
        BY <2>2 DEF ReadCrop
      <3> QED
        BY <2>2, <3>1, ReadCropInv
    <2>3. CASE Conclude
      <3>1. /\ voted' = IF reads = <<>> THEN <<>> ELSE vote_consensus(reads)
            /\ stored' = IF voted' # <<>> /\ IsValidRto(correct(voted')) THEN correct(voted') ELSE <<>>
        BY <2>3 DEF Conclude
      <3>2. <<>> = [k \in 1..0 |-> (<<>>)[k]]
        OBVIOUS
      <3>3. IsText(<<>>)
        BY <3>2 DEF IsText
      <3>4. IsText(voted')
        <4>1. CASE reads = <<>>
          BY <3>1, <3>3, <4>1
        <4>2. CASE reads # <<>>
          <5> DEFINE n == Len(reads)
          <5>1. reads \in Seq(Reads)
            BY DEF TextInv
          <5>2. n \in Nat /\ n > 0 /\ DOMAIN reads = 1..n /\ \A k \in 1..n : reads[k] \in Reads
            BY <4>2, <5>1
          <5> HIDE DEF n
          <5>3. IsReads(reads, n)
            BY <5>2, ReadsTyped DEF IsReads
          <5>4. IsText(vote_consensus(reads))
            BY <5>2, <5>3, VotedText
          <5> QED
            BY <3>1, <4>2, <5>4
        <4> QED
          BY <4>1, <4>2
      <3>5. IsText(stored')
        BY <3>1, <3>3, <3>4, CorrectedText
      <3> QED
        BY <2>3, <3>5, ConcludeInv
    <2> QED
      BY <2>1, <2>2, <2>3 DEF TextNext
  <1>3. Inv => (stored # <<>> /\ Ordinary(stored) => Stable(stored))
    <2> SUFFICES ASSUME Inv, Ordinary(stored), stored # <<>> PROVE Stable(stored)
      OBVIOUS
    <2> QED
      BY OrdinaryText, FixedPoint DEF Stable
  <1> QED
    BY <1>1, <1>2, <1>3, PTL DEF TextSpec

-------------------------------------------------------------------------------
(* Part 4: what is stored is a fixed point, whatever was read *)

\* What the extraction returns when it is no BH plate.
FoundRto(e) ==
    /\ e \in Seq(Chars) /\ Len(e) \in 6..11 /\ BhLength(e, 1) = 0
    /\ FixStateCode(e[1], e[2]) \in INDIAN_STATE_CODES
    /\ e[3] \in DClass /\ e[4] \in DClass /\ e[Len(e)] \in DClass

\* The places of a part of a text.
LEMMA PartOf ==
    ASSUME NEW S, NEW s \in Seq(S), NEW b \in 1..Len(s), NEW n \in 0..(Len(s) - b + 1)
    PROVE  LET e == SubSeq(s, b, b + n - 1)
           IN  e \in Seq(S) /\ Len(e) = n /\ \A j \in 1..n : e[j] = s[b + j - 1]
  OBVIOUS

\* A BH match in the part is one in the text, so the part that was cut out for a match is it.
LEMMA BhCut ==
    ASSUME NEW s, NEW e, Len(s) \in Nat, Len(e) \in Nat, NEW b \in 1..Len(s),
           Len(e) <= Len(s) - b + 1, \A j \in 1..Len(e) : e[j] = s[b + j - 1]
    PROVE  /\ BhLength(s, b) = 0 /\ Len(e) >= 1 => BhLength(e, 1) = 0
           /\ BhLength(s, b) = Len(e) /\ Len(e) > 0 => BhLength(e, 1) = Len(e)
  <1> DEFINE n == Len(e)
             m == Len(s)
  <1>1. n \in Nat /\ m \in Nat /\ b \in 1..m /\ n <= m - b + 1 /\ \A j \in 1..n : e[j] = s[b + j - 1]
    OBVIOUS
  <1>2. BhLength(s, b) = IF /\ m - b + 1 >= 9
                            /\ AllIn(s, b, b + 1, Digit) /\ s[b + 2] = "B" /\ s[b + 3] = "H"
                            /\ AllIn(s, b + 4, b + 7, Digit) /\ s[b + 8] \in Letter
                         THEN IF m - b + 1 >= 10 /\ s[b + 9] \in Letter THEN 10 ELSE 9
                         ELSE 0
    BY DEF BhLength
  <1>3. BhLength(e, 1) = IF /\ n >= 9
                            /\ AllIn(e, 1, 2, Digit) /\ e[3] = "B" /\ e[4] = "H"
                            /\ AllIn(e, 5, 8, Digit) /\ e[9] \in Letter
                         THEN IF n >= 10 /\ e[10] \in Letter THEN 10 ELSE 9
                         ELSE 0
    <2>1. n - 1 + 1 = n /\ 1 + 1 = 2 /\ 1 + 2 = 3 /\ 1 + 3 = 4 /\ 1 + 4 = 5 /\ 1 + 7 = 8
          /\ 1 + 8 = 9 /\ 1 + 9 = 10
      BY <1>1
    <2> QED
      BY <2>1 DEF BhLength
  <1> HIDE DEF n, m
  <1>4. ASSUME n >= 9
        PROVE  /\ AllIn(s, b, b + 1, Digit) <=> AllIn(e, 1, 2, Digit)
               /\ s[b + 2] = e[3] /\ s[b + 3] = e[4] /\ s[b + 8] = e[9]
               /\ AllIn(s, b + 4, b + 7, Digit) <=> AllIn(e, 5, 8, Digit)
               /\ n >= 10 => s[b + 9] = e[10]
    <2>1. \A j \in 1..9 : e[j] = s[b + j - 1]
      BY <1>1, <1>4
    <2>2. /\ e[1] = s[b] /\ e[2] = s[b + 1] /\ e[3] = s[b + 2] /\ e[4] = s[b + 3] /\ e[5] = s[b + 4]
          /\ e[6] = s[b + 5] /\ e[7] = s[b + 6] /\ e[8] = s[b + 7] /\ e[9] = s[b + 8]
      BY <1>1, <2>1
    <2>3. /\ \A j \in b..(b + 1) : j = b \/ j = b + 1
          /\ \A j \in 1..2 : j = 1 \/ j = 2
          /\ b \in b..(b + 1) /\ b + 1 \in b..(b + 1) /\ 1 \in 1..2 /\ 2 \in 1..2
      BY <1>1
    <2>4. /\ \A j \in (b + 4)..(b + 7) : j = b + 4 \/ j = b + 5 \/ j = b + 6 \/ j = b + 7
          /\ \A j \in 5..8 : j = 5 \/ j = 6 \/ j = 7 \/ j = 8
          /\ b + 4 \in (b + 4)..(b + 7) /\ b + 5 \in (b + 4)..(b + 7)
          /\ b + 6 \in (b + 4)..(b + 7) /\ b + 7 \in (b + 4)..(b + 7)
          /\ 5 \in 5..8 /\ 6 \in 5..8 /\ 7 \in 5..8 /\ 8 \in 5..8
      BY <1>1
    <2>5. AllIn(s, b, b + 1, Digit) <=> AllIn(e, 1, 2, Digit)
      BY <2>2, <2>3 DEF AllIn
    <2>6. AllIn(s, b + 4, b + 7, Digit) <=> AllIn(e, 5, 8, Digit)
      <3>1. AllIn(s, b + 4, b + 7, Digit) <=>
              s[b + 4] \in Digit /\ s[b + 5] \in Digit /\ s[b + 6] \in Digit /\ s[b + 7] \in Digit
        BY <2>4 DEF AllIn
      <3>2. AllIn(e, 5, 8, Digit) <=> e[5] \in Digit /\ e[6] \in Digit /\ e[7] \in Digit /\ e[8] \in Digit
        BY <2>4 DEF AllIn
      <3> QED
        BY <2>2, <3>1, <3>2
    <2>7. n >= 10 => s[b + 9] = e[10]
      BY <1>1
    <2> QED
      BY <2>2, <2>5, <2>6, <2>7
  <1>5. n >= 9 => m - b + 1 >= 9 /\ (n >= 10 => m - b + 1 >= 10)
    BY <1>1
  <1>6. ASSUME BhLength(s, b) = 0, BhLength(e, 1) # 0 PROVE FALSE
    <2>1. /\ n >= 9 /\ AllIn(e, 1, 2, Digit) /\ e[3] = "B" /\ e[4] = "H"
          /\ AllIn(e, 5, 8, Digit) /\ e[9] \in Letter
      BY <1>3, <1>6
    <2>2. /\ m - b + 1 >= 9 /\ AllIn(s, b, b + 1, Digit) /\ s[b + 2] = "B" /\ s[b + 3] = "H"
          /\ AllIn(s, b + 4, b + 7, Digit) /\ s[b + 8] \in Letter
      BY <1>4, <1>5, <2>1
    <2>3. BhLength(s, b) = IF m - b + 1 >= 10 /\ s[b + 9] \in Letter THEN 10 ELSE 9
      BY <1>2, <2>2
    <2> QED
      BY <1>6, <2>3
  <1>7. ASSUME BhLength(s, b) = n, n > 0 PROVE BhLength(e, 1) = n
    <2>1. n >= 9 /\ n <= 10
      BY <1>1, <1>2, <1>7
    <2>2. /\ AllIn(s, b, b + 1, Digit) /\ s[b + 2] = "B" /\ s[b + 3] = "H"
          /\ AllIn(s, b + 4, b + 7, Digit) /\ s[b + 8] \in Letter
          /\ n = 10 => s[b + 9] \in Letter
      BY <1>2, <1>7, <2>1
    <2>3. /\ AllIn(e, 1, 2, Digit) /\ e[3] = "B" /\ e[4] = "H"
          /\ AllIn(e, 5, 8, Digit) /\ e[9] \in Letter /\ (n = 10 => e[10] \in Letter)
      BY <1>4, <2>1, <2>2
    <2>4. BhLength(e, 1) = IF n >= 10 /\ e[10] \in Letter THEN 10 ELSE 9
      BY <1>3, <2>1, <2>3
    <2>5. n = 9 \/ n = 10
      BY <1>1, <2>1
    <2> QED
      BY <2>3, <2>4, <2>5
  <1> QED
    BY <1>6, <1>7 DEF n

\* What is found in a text is a BH plate or has the layout of an RTO plate.
LEMMA FoundShape ==
    ASSUME NEW s \in Seq(Chars), extract_indian_plate(s) # <<>>
    PROVE  Bh(extract_indian_plate(s)) \/ FoundRto(extract_indian_plate(s))
  <1> DEFINE e == extract_indian_plate(s)
  <1>1. PICK b \in 1..Len(s) :
             \/ BhLength(s, b) > 0 /\ e = SubSeq(s, b, b + BhLength(s, b) - 1)
             \/ /\ BhLength(s, b) = 0 /\ PlateLength(s, b) >= 6
                /\ FixStateCode(s[b], s[b + 1]) \in INDIAN_STATE_CODES
                /\ e = SubSeq(s, b, b + PlateLength(s, b) - 1)
    BY Found
  <1> HIDE DEF e
  <1>2. Len(s) \in Nat
    OBVIOUS
  <1>3. CASE BhLength(s, b) > 0 /\ e = SubSeq(s, b, b + BhLength(s, b) - 1)
    <2> DEFINE n == BhLength(s, b)
    <2>1. n \in 0..(Len(s) - b + 1) /\ n > 0 /\ e = SubSeq(s, b, b + n - 1)
      BY <1>2, <1>3, BhBounds
    <2>2. n >= 6
      BY <1>3 DEF BhLength
    <2>3. n = BhLength(s, b)
      OBVIOUS
    <2> HIDE DEF n
    <2>4. e \in Seq(Chars) /\ Len(e) = n /\ \A j \in 1..n : e[j] = s[b + j - 1]
      BY <2>1, PartOf
    <2>5. BhLength(e, 1) = Len(e)
      <3>1. Len(e) \in Nat /\ Len(e) <= Len(s) - b + 1 /\ Len(e) > 0 /\ BhLength(s, b) = Len(e)
        BY <1>2, <2>1, <2>3, <2>4
      <3> QED
        BY <1>2, <2>4, <3>1, BhCut
    <2> QED
      BY <2>2, <2>4, <2>5 DEF Bh, e
  <1>4. CASE /\ BhLength(s, b) = 0 /\ PlateLength(s, b) >= 6
             /\ FixStateCode(s[b], s[b + 1]) \in INDIAN_STATE_CODES
             /\ e = SubSeq(s, b, b + PlateLength(s, b) - 1)
    <2>1. PICK n \in 5..11 : /\ PlateLength(s, b) = n /\ n <= Len(s) - b + 1
                             /\ s[b + 2] \in DClass /\ s[b + 3] \in DClass
                             /\ s[b + n - 1] \in DClass
      BY <1>2, <1>4, PlateMatch
    <2>2. n \in 6..11 /\ n \in 0..(Len(s) - b + 1) /\ e = SubSeq(s, b, b + n - 1)
      BY <1>2, <1>4, <2>1
    <2>3. e \in Seq(Chars) /\ Len(e) = n /\ \A j \in 1..n : e[j] = s[b + j - 1]
      BY <2>2, PartOf
    <2>4. /\ e[1] = s[b] /\ e[2] = s[b + 1] /\ e[3] = s[b + 2] /\ e[4] = s[b + 3]
          /\ e[n] = s[b + n - 1]
      <3>1. 1 \in 1..n /\ 2 \in 1..n /\ 3 \in 1..n /\ 4 \in 1..n /\ n \in 1..n
        BY <2>2
      <3>2. b + 1 - 1 = b /\ b + 2 - 1 = b + 1 /\ b + 3 - 1 = b + 2 /\ b + 4 - 1 = b + 3
        OBVIOUS
      <3> QED
        BY <2>3, <3>1, <3>2
    <2>5. BhLength(e, 1) = 0
      <3>1. Len(e) \in Nat /\ Len(e) <= Len(s) - b + 1 /\ Len(e) >= 1
        BY <1>2, <2>2, <2>3
      <3> QED
        BY <1>2, <1>4, <2>3, <3>1, BhCut
    <2> QED
      BY <1>4, <2>1, <2>2, <2>3, <2>4, <2>5 DEF FoundRto, e
  <1> QED
    BY <1>1, <1>3, <1>4

\* What the formatter makes of a text: g is where it takes the number to start.
ReadRto(r, g) ==
    /\ r \in Seq(Chars) /\ Len(r) \in 6..11 /\ g \in 6..Len(r) /\ g >= Len(r) - 3
    /\ <<r[1], r[2]>> \in INDIAN_STATE_CODES
    /\ r[3] \in Digit /\ r[4] \in Digit
    /\ \A j \in 5..(g - 1) : r[j] \notin {"O", "0"}
    /\ \A j \in g..Len(r) : r[j] \in Digit

\* What the tables of the formatter make of a character.
LEMMA FormatterFixes ==
    /\ DClass = Digit \cup DOMAIN DIGIT_FIXES
    /\ \A c \in Digit \cup DOMAIN DIGIT_FIXES : Fix(DIGIT_FIXES, c) \in Digit
    /\ \A c \in Chars \ {"O", "0"} : Fix(LETTER_FIXES, c) \in Chars \ {"O", "0"}
    /\ "D" \in Chars \ {"O", "0"}
  <1>1. DClass = Digit \cup DOMAIN DIGIT_FIXES
    BY DEF DClass, DIGIT_FIXES
  <1>2. \A c \in DOMAIN DIGIT_FIXES : DIGIT_FIXES[c] \in Digit
    BY DEF DIGIT_FIXES, Digit
  <1>3. ASSUME NEW c \in Chars \ {"O", "0"} PROVE Fix(LETTER_FIXES, c) \in Chars \ {"O", "0"}
    <2>1. CASE c \in DOMAIN LETTER_FIXES
      BY <1>3, <2>1 DEF Fix, LETTER_FIXES, Chars, Letter
    <2> QED
      BY <1>3, <2>1 DEF Fix
  <1>4. "D" \in Chars \ {"O", "0"}
    BY DEF Chars, Letter
  <1> QED
    BY <1>1, <1>2, <1>3, <1>4 DEF Fix

\* A state code is a pair.
LEMMA CodesArePairs == \A st \in INDIAN_STATE_CODES : st = <<st[1], st[2]>>
  BY DEF INDIAN_STATE_CODES

\* What the formatter makes of a text that was found.
LEMMA NormalisedShape ==
    ASSUME NEW e, FoundRto(e)
    PROVE  \E g : ReadRto(normalize_plate_chars(e), g)
  <1> DEFINE n == Len(e)
             state == FixStateCode(e[1], e[2])
             reg == RegStart(e, DIGIT_FIXES)
             r == [i \in DOMAIN e |->
                         CASE i <= 2 -> state[i]
                           [] i \in 3..4 -> Fix(DIGIT_FIXES, e[i])
                           [] i >= 5 /\ i < reg -> IF e[i] \in {"O", "0"} THEN "D"
                                                   ELSE Fix(LETTER_FIXES, e[i])
                           [] OTHER -> Fix(DIGIT_FIXES, e[i])]
  <1>1. normalize_plate_chars(e) = IF Len(e) < 6 \/ BhLength(e, 1) > 0 THEN e ELSE r
    BY DEF normalize_plate_chars
  <1>2. /\ n \in 6..11 /\ Len(e) = n /\ DOMAIN e = 1..n /\ \A j \in 1..n : e[j] \in Chars
        /\ BhLength(e, 1) = 0 /\ state \in INDIAN_STATE_CODES
        /\ e[3] \in DClass /\ e[4] \in DClass /\ e[n] \in DClass
    BY DEF FoundRto
  <1> HIDE DEF n, state
  <1>3. PICK g \in 6..n :
             /\ reg = g /\ g >= n - 3
             /\ \A j \in g..n : e[j] \in Digit \cup DOMAIN DIGIT_FIXES
    <2>1. n \in Nat /\ n >= 6 /\ e[n] \in Digit \cup DOMAIN DIGIT_FIXES
      BY <1>2, FormatterFixes
    <2> QED
      BY <1>2, <2>1, NumberBounds
  <1> HIDE DEF reg
  <1>4. r[1] = state[1] /\ r[2] = state[2]
    BY <1>2
  <1>5. \A j \in 3..4 : r[j] = Fix(DIGIT_FIXES, e[j])
    BY <1>2
  <1>6. \A j \in 5..(g - 1) : r[j] = IF e[j] \in {"O", "0"} THEN "D" ELSE Fix(LETTER_FIXES, e[j])
    BY <1>2, <1>3
  <1>7. \A j \in g..n : r[j] = Fix(DIGIT_FIXES, e[j])
    BY <1>2, <1>3
  <1>8. r = [j \in 1..n |-> r[j]]
    BY <1>2
  <1> HIDE DEF r
  <1>9. /\ <<r[1], r[2]>> \in INDIAN_STATE_CODES /\ r[1] \in Chars /\ r[2] \in Chars
    <2>1. <<r[1], r[2]>> = state
      BY <1>2, <1>4, CodesArePairs
    <2> QED
      BY <1>2, <2>1, CodesAreLetters DEF Chars
  <1>10. \A j \in 3..4 : r[j] \in Digit
    BY <1>2, <1>5, FormatterFixes
  <1>11. \A j \in 5..(g - 1) : r[j] \in Chars \ {"O", "0"}
    <2> TAKE j \in 5..(g - 1)
    <2>1. e[j] \in Chars
      BY <1>2, <1>3
    <2> QED
      BY <1>6, <2>1, FormatterFixes
  <1>12. \A j \in g..n : r[j] \in Digit
    BY <1>3, <1>7, FormatterFixes
  <1>13. \A j \in 1..n : r[j] \in Chars
    <2> TAKE j \in 1..n
    <2>1. j = 1 \/ j = 2 \/ j \in 3..4 \/ j \in 5..(g - 1) \/ j \in g..n
      BY <1>2, <1>3
    <2> QED
      BY <1>9, <1>10, <1>11, <1>12, <2>1 DEF Chars
  <1>14. r \in Seq(Chars) /\ Len(r) = n
    <2>1. r \in [1..n -> Chars] /\ n \in Nat
      BY <1>2, <1>8, <1>13
    <2> QED
      BY <2>1
  <1>15. ReadRto(r, g)
    <2>1. \A j \in 5..(g - 1) : r[j] \notin {"O", "0"}
      BY <1>11
    <2>2. r[3] \in Digit /\ r[4] \in Digit
      BY <1>10
    <2> QED
      BY <1>2, <1>3, <1>9, <1>12, <1>14, <2>1, <2>2 DEF ReadRto
  <1>16. normalize_plate_chars(e) = r
    BY <1>1, <1>2
  <1> QED
    BY <1>15, <1>16

\* What the corrector makes of such a text is a BH plate, when the format test lets it pass
\* and the corrector took it for one.
LEMMA MadeBh ==
    ASSUME NEW r, NEW g, ReadRto(r, g), LooselyBH(r), IsValidRto(correct(r))
    PROVE  Bh(correct(r))
  <1> DEFINE c == correct(r)
             n == Len(r)
             reg == RegStart(r, letter_to_number)
             fixed == [i \in DOMAIN r |-> IF i <= 2 \/ (i >= 5 /\ i < reg)
                                          THEN Fix(number_to_letter, r[i])
                                          ELSE Fix(letter_to_number, r[i])]
             loose == [i \in DOMAIN r |-> CASE i = 3 -> "B" [] i = 4 -> "H"
                         [] i \in {1, 2} \cup 5..8 -> Fix(letter_to_number, r[i])
                         [] OTHER -> Fix(number_to_letter, r[i])]
  <1>0. c = IF Len(r) \notin 5..11 THEN r ELSE IF LooselyBH(r) THEN loose ELSE fixed
    BY DEF correct
  <1>1. n \in 8..11 /\ Len(r) = n /\ DOMAIN r = 1..n /\ \A j \in 1..n : r[j] \in Chars
    <2>1. r \in Seq(Chars) /\ n \in 6..11
      BY DEF ReadRto
    <2>2. n >= 8
      BY DEF LooselyBH
    <2>3. DOMAIN r = 1..n /\ \A j \in 1..n : r[j] \in Chars
      BY <2>1
    <2> HIDE DEF n
    <2> QED
      BY <2>1, <2>2, <2>3 DEF n
  <1> HIDE DEF fixed
  <1>2. c = loose
    <2> HIDE DEF n, c, loose
    <2> QED
      BY <1>0, <1>1
  <1> HIDE DEF n, c
  <1>3. c[3] = "B"
    BY <1>1, <1>2
  <1>4. \A j \in 1..n : c[j] \in Chars
    <2> TAKE j \in 1..n
    <2>1. c[j] \in {"B", "H", Fix(letter_to_number, r[j]), Fix(number_to_letter, r[j])}
      BY <1>1, <1>2
    <2>2. "B" \in Chars /\ "H" \in Chars
      BY DEF Chars, Letter
    <2>3. r[j] \in Chars
      BY <1>1
    <2>4. Fix(letter_to_number, r[j]) \in Chars
      BY <2>3, CorrectorFixes DEF Fix, Chars
    <2>5. Fix(number_to_letter, r[j]) \in Chars
      <3>1. \A d \in Digit : Fix(number_to_letter, d) \in Letter
        BY DEF Fix, number_to_letter, Digit, Letter
      <3> QED
        BY <2>3, <3>1, CorrectorFixes DEF Chars
    <2> QED
      BY <2>1, <2>2, <2>4, <2>5
  <1>5. c \in Seq(Chars) /\ Len(c) = n
    <2>1. c = [j \in 1..n |-> c[j]]
      BY <1>1, <1>2
    <2>2. c \in [1..n -> Chars] /\ n \in Nat
      BY <1>1, <1>4, <2>1
    <2> QED
      BY <2>2
  <1>6. BhLength(c, 1) = Len(c)
    <2>1. "B" \notin Digit
      BY DEF Digit
    <2>2. \A d \in 1..2 : 3 \in 3..(2 + d)
      OBVIOUS
    <2> QED
      BY <1>3, <2>1, <2>2 DEF IsValidRto, AllIn, c
  <1> QED
    BY <1>1, <1>5, <1>6 DEF Bh, c

\* Otherwise it is an RTO plate with a series, and the state and the district are those read.
LEMMA MadeRto ==
    ASSUME NEW r, NEW g, ReadRto(r, g), ~LooselyBH(r), IsValidRto(correct(r))
    PROVE  \E k, m : StoredRto(correct(r), k, m)
  <1> DEFINE c == correct(r)
             n == Len(r)
             reg == RegStart(r, letter_to_number)
             class == Digit \cup DOMAIN letter_to_number
             fixed == [i \in DOMAIN r |-> IF i <= 2 \/ (i >= 5 /\ i < reg)
                                          THEN Fix(number_to_letter, r[i])
                                          ELSE Fix(letter_to_number, r[i])]
             loose == [i \in DOMAIN r |-> CASE i = 3 -> "B" [] i = 4 -> "H"
                         [] i \in {1, 2} \cup 5..8 -> Fix(letter_to_number, r[i])
                         [] OTHER -> Fix(number_to_letter, r[i])]
  <1>0. c = IF Len(r) \notin 5..11 THEN r ELSE IF LooselyBH(r) THEN loose ELSE fixed
    BY DEF correct
  <1>1. /\ n \in 6..11 /\ Len(r) = n /\ DOMAIN r = 1..n /\ \A j \in 1..n : r[j] \in Chars
        /\ g \in 6..n /\ g >= n - 3
        /\ r[1] \in Letter /\ r[2] \in Letter /\ <<r[1], r[2]>> \in INDIAN_STATE_CODES
        /\ r[3] \in Digit /\ r[4] \in Digit
        /\ \A j \in 5..(g - 1) : r[j] \notin {"O", "0"}
        /\ \A j \in g..n : r[j] \in Digit
    BY CodesAreLetters DEF ReadRto
  <1>2. c = fixed
    <2> HIDE DEF n, c, fixed, loose
    <2> QED
      BY <1>0, <1>1
  <1> HIDE DEF n, c, class
  <1>3. PICK h \in 6..n :
             /\ reg = h /\ h >= n - 3 /\ \A j \in h..n : r[j] \in class
             /\ h = 6 \/ h = n - 3 \/ r[h - 1] \notin class
    <2>1. n \in Nat /\ n >= 6 /\ r[n] \in Digit \cup DOMAIN letter_to_number
      <3>1. n \in g..n
        BY <1>1
      <3> QED
        BY <1>1, <3>1
    <2> QED
      BY <1>1, <2>1, NumberBounds DEF class
  <1>4. h <= g
    <2>1. reg \in 6..g
      <3>1. n \in Nat /\ \A j \in g..n : r[j] \in Digit \cup DOMAIN letter_to_number
        BY <1>1
      <3> HIDE DEF reg
      <3> QED
        BY <1>1, <3>1, NumberAt DEF reg
    <2> HIDE DEF reg
    <2> QED
      BY <1>1, <1>3, <2>1
  <1> HIDE DEF reg
  <1>5. /\ \A j \in 1..2 : c[j] = Fix(number_to_letter, r[j])
        /\ \A j \in 3..4 : c[j] = Fix(letter_to_number, r[j])
        /\ \A j \in 5..(h - 1) : c[j] = Fix(number_to_letter, r[j])
        /\ \A j \in h..n : c[j] = Fix(letter_to_number, r[j])
    BY <1>1, <1>2, <1>3
  <1>6. c = [j \in 1..n |-> c[j]]
    BY <1>1, <1>2
  <1> HIDE DEF fixed
  <1>7. c[1] = r[1] /\ c[2] = r[2] /\ c[3] = r[3] /\ c[4] = r[4]
    BY <1>1, <1>5, CorrectorKeeps
  <1>8. \A j \in 5..(h - 1) : c[j] \in Letter \ {"O"}
    <2> TAKE j \in 5..(h - 1)
    <2>1. r[j] \in Chars \ {"O", "0"}
      BY <1>1, <1>3, <1>4
    <2> QED
      BY <1>5, <2>1, CorrectorFixes
  <1>9. \A j \in h..n : c[j] \in Digit
    BY <1>3, <1>5, CorrectorFixes DEF class
  <1>10. c \in Seq(Chars) /\ Len(c) = n
    <2>1. \A j \in 1..n : c[j] \in Chars
      <3> TAKE j \in 1..n
      <3>1. j = 1 \/ j = 2 \/ j = 3 \/ j = 4 \/ j \in 5..(h - 1) \/ j \in h..n
        BY <1>1, <1>3
      <3> QED
        BY <1>1, <1>7, <1>8, <1>9, <3>1 DEF Chars
    <2>2. c \in [1..n -> Chars] /\ n \in Nat
      BY <1>1, <1>6, <2>1
    <2> QED
      BY <2>2
  <1>11. PICK d \in 1..2, q \in 0..3, m \in 1..4 :
             /\ n = 2 + d + q + m
             /\ AllIn(c, 3, 2 + d, Digit) /\ AllIn(c, 3 + d, 2 + d + q, Letter)
             /\ AllIn(c, 3 + d + q, n, Digit)
    <2>1. BhLength(c, 1) # Len(c)
      <3> SUFFICES ASSUME BhLength(c, 1) = Len(c) PROVE FALSE
        OBVIOUS
      <3>1. 1 \in 1..Len(c) /\ BhLength(c, 1) # 0 /\ Len(c) \in Nat
        BY <1>1, <1>10
      <3>2. c[1] \in Digit
        BY <3>1, BhMatch
      <3> QED
        BY <1>1, <1>7, <3>2, DigitsAreNotLetters
    <2>2. IsValidRto(c)
      BY DEF c
    <2> QED
      BY <1>10, <2>1, <2>2 DEF IsValidRto
  <1>12. 5 \in 5..(h - 1) /\ c[5] \in Letter
    BY <1>3, <1>8
  <1>13. d = 2
    <2> SUFFICES ASSUME d = 1 PROVE FALSE
      OBVIOUS
    <2>1. CASE q = 0
      <3>1. 5 \in (3 + d + q)..n
        BY <1>1, <2>1
      <3> QED
        BY <1>11, <1>12, <3>1, DigitsAreNotLetters DEF AllIn
    <2>2. CASE q > 0
      <3>1. 4 \in (3 + d)..(2 + d + q)
        BY <2>2
      <3> QED
        BY <1>1, <1>7, <1>11, <3>1, DigitsAreNotLetters DEF AllIn
    <2> QED
      BY <2>1, <2>2
  <1>14. /\ n = 4 + q + m
         /\ \A j \in 5..(4 + q) : c[j] \in Letter
         /\ \A j \in (5 + q)..n : c[j] \in Digit
    BY <1>11, <1>13 DEF AllIn
  <1>15. h = 5 + q
    <2>1. ~(h < 5 + q)
      <3> SUFFICES ASSUME h < 5 + q PROVE FALSE
        OBVIOUS
      <3>1. h \in 5..(4 + q) /\ h \in h..n
        BY <1>3
      <3> QED
        BY <1>9, <1>14, <3>1, DigitsAreNotLetters
    <2>2. ~(h > 5 + q)
      <3> SUFFICES ASSUME h > 5 + q PROVE FALSE
        OBVIOUS
      <3>1. 5 + q \in 5..(h - 1) /\ 5 + q \in (5 + q)..n
        BY <1>1, <1>3
      <3> QED
        BY <1>8, <1>14, <3>1, DigitsAreNotLetters
    <2> QED
      BY <1>1, <1>3, <2>1, <2>2
  <1>16. q \in 1..3 /\ h - 1 = 4 + q
    BY <1>3, <1>15
  <1>17. ASSUME q > 1, m < 4 PROVE c[4 + q] \notin DOMAIN letter_to_number
    <2>1. r[4 + q] \notin class
      BY <1>1, <1>3, <1>14, <1>15, <1>17
    <2>2. 4 + q \in 5..(h - 1) /\ 4 + q \in 1..n
      BY <1>1, <1>16, <1>3
    <2>3. r[4 + q] \in Chars \ Digit
      BY <1>1, <2>1, <2>2 DEF class
    <2>4. c[4 + q] = r[4 + q]
      BY <1>5, <2>2, <2>3, CorrectorFixes
    <2> QED
      BY <2>1, <2>4 DEF class
  <1>18. ~LooselyBH(c)
    BY <1>1, <1>7, <1>10 DEF LooselyBH
  <1>19. /\ \A j \in 5..(4 + q) : c[j] \in Letter \ {"O"}
         /\ \A j \in (5 + q)..(4 + q + m) : c[j] \in Digit
    BY <1>8, <1>14, <1>16
  <1>20. StoredRto(c, q, m)
    BY <1>1, <1>7, <1>10, <1>14, <1>16, <1>17, <1>18, <1>19 DEF StoredRto
  <1> QED
    BY <1>20 DEF c

\* What is stored of such a text is found whole when it is read again.
LEMMA StoredFound ==
    ASSUME NEW c, NEW k, NEW m, StoredRto(c, k, m)
    PROVE  extract_indian_plate(c) = c /\ BhLength(c, 1) = 0
  <1> DEFINE n == Len(c)
  <1>1. /\ k \in 1..3 /\ m \in 1..4 /\ n = 4 + k + m /\ n \in 6..11 /\ c \in Seq(Chars)
        /\ c[1] \in Letter /\ c[2] \in Letter /\ c[3] \in Digit /\ c[4] \in Digit
        /\ <<c[1], c[2]>> \in INDIAN_STATE_CODES
        /\ \A j \in 5..(4 + k) : c[j] \in Letter
        /\ \A j \in (5 + k)..n : c[j] \in Digit
    BY CodesAreLetters DEF StoredRto
  <1>2. ASSUME NEW b \in 1..Len(c) PROVE BhLength(c, b) = 0
    <2> SUFFICES ASSUME BhLength(c, b) # 0 PROVE FALSE
      OBVIOUS
    <2>1. b + 8 <= n /\ c[b] \in Digit /\ c[b + 1] \in Digit /\ c[b + 8] \in Letter
      BY <1>1, BhMatch
    <2>2. b # 1 /\ b # 2
      BY <1>1, <2>1, DigitsAreNotLetters
    <2>3. b + 8 \in (5 + k)..n
      <3> HIDE DEF n
      <3> QED
        BY <1>1, <2>1, <2>2
    <2> QED
      BY <1>1, <2>1, <2>3, DigitsAreNotLetters
  <1>3. PlateLength(c, 1) = 4 + k + m
    <2>1. /\ Len(c) \in Nat /\ Len(c) - 1 + 1 = 4 + k + m
          /\ \A j \in 1..(1 + 1) : c[j] \in LClass
          /\ \A j \in (1 + 2)..(1 + 3) : c[j] \in DClass
          /\ \A j \in (1 + 4)..(1 + 3 + k) : c[j] \in LClass
          /\ \A j \in (1 + 4 + k)..(1 + 3 + k + m) : c[j] \in DClass
      BY <1>1, ClassesAccept
    <2> QED
      BY <1>1, <2>1, MatchedWhole
  <1>4. FixStateCode(c[1], c[2]) \in INDIAN_STATE_CODES
    BY <1>1, StateRead
  <1>5. extract_indian_plate(c) = SubSeq(c, 1, Len(c))
    <2>1. 1 \in 1..Len(c) /\ PlateLength(c, 1) = Len(c) - 1 + 1 /\ Len(c) - 1 + 1 >= 6
      BY <1>1, <1>3
    <2>2. \A b \in 1..Len(c) : ~(b < 1)
      BY <1>1
    <2>3. FixStateCode(c[1], c[1 + 1]) \in INDIAN_STATE_CODES
      BY <1>4
    <2>4. c \in Seq(Chars) /\ \A b \in 1..Len(c) : BhLength(c, b) = 0
      BY <1>1, <1>2
    <2> HIDE DEF n
    <2> QED
      BY <2>1, <2>2, <2>3, <2>4, LongestIsTaken
  <1>6. 1 \in 1..Len(c)
    BY <1>1
  <1> QED
    BY <1>1, <1>2, <1>5, <1>6, WholeText

\* The formatter leaves it alone.
LEMMA StoredNormal ==
    ASSUME NEW c, NEW k, NEW m, StoredRto(c, k, m), RegStart(c, DIGIT_FIXES) = 5 + k
    PROVE  normalize_plate_chars(c) = c
  <1> DEFINE n == Len(c)
             state == FixStateCode(c[1], c[2])
             reg == RegStart(c, DIGIT_FIXES)
             fixed == [i \in DOMAIN c |->
                         CASE i <= 2 -> state[i]
                           [] i \in 3..4 -> Fix(DIGIT_FIXES, c[i])
                           [] i >= 5 /\ i < reg -> IF c[i] \in {"O", "0"} THEN "D"
                                                   ELSE Fix(LETTER_FIXES, c[i])
                           [] OTHER -> Fix(DIGIT_FIXES, c[i])]
  <1>1. normalize_plate_chars(c) = IF Len(c) < 6 \/ BhLength(c, 1) > 0 THEN c ELSE fixed
    BY DEF normalize_plate_chars
  <1>2. /\ k \in 1..3 /\ m \in 1..4 /\ n = 4 + k + m /\ n \in 6..11 /\ DOMAIN c = 1..n
        /\ <<c[1], c[2]>> \in INDIAN_STATE_CODES /\ c[3] \in Digit /\ c[4] \in Digit
        /\ \A j \in 5..(4 + k) : c[j] \in Letter /\ c[j] \notin {"O", "0"}
        /\ \A j \in (5 + k)..n : c[j] \in Digit
        /\ c = [j \in 1..n |-> c[j]]
    <2>1. "0" \notin Letter
      BY DEF Letter
    <2> QED
      BY <2>1 DEF StoredRto
  <1>3. state = <<c[1], c[2]>>
    BY <1>2, StateRead
  <1> HIDE DEF state, reg, n
  <1>4. reg = 5 + k
    BY DEF reg
  <1>5. ASSUME NEW j \in 1..n PROVE fixed[j] = c[j]
    <2>1. CASE j = 1 \/ j = 2
      <3>1. fixed[j] = state[j]
        BY <1>2, <2>1
      <3> HIDE DEF fixed
      <3> QED
        BY <1>3, <2>1, <3>1
    <2>2. CASE j \in 3..4
      <3>1. fixed[j] = Fix(DIGIT_FIXES, c[j])
        BY <1>2, <2>2
      <3> HIDE DEF fixed
      <3>2. j = 3 \/ j = 4
        BY <2>2
      <3> QED
        BY <1>2, <3>1, <3>2, FormatterKeeps
    <2>3. CASE j \in 5..(4 + k)
      <3>1. fixed[j] = IF c[j] \in {"O", "0"} THEN "D" ELSE Fix(LETTER_FIXES, c[j])
        BY <1>2, <1>4, <2>3
      <3> HIDE DEF fixed
      <3> QED
        BY <1>2, <2>3, <3>1, FormatterKeeps
    <2>4. CASE j \in (5 + k)..n
      <3>1. fixed[j] = Fix(DIGIT_FIXES, c[j])
        BY <1>2, <1>4, <2>4
      <3> HIDE DEF fixed
      <3> QED
        BY <1>2, <2>4, <3>1, FormatterKeeps
    <2> QED
      BY <1>2, <2>1, <2>2, <2>3, <2>4
  <1>6. fixed = [j \in 1..n |-> fixed[j]]
    BY <1>2
  <1> HIDE DEF fixed
  <1>7. fixed = c
    BY <1>2, <1>5, <1>6
  <1> QED
    BY <1>1, <1>7

\* What the engine returns as the text of an image, if it finds one.
Readable(t) == Bh(t) \/ \E g : ReadRto(t, g)

\* Whatever the OCR library saw: the engine returns such a text or none.
LEMMA LegibleReads ==
    ASSUME NEW r \in Reads
    PROVE  r.text = <<>> \/ Readable(r.text)
  <1>1. PICK ph \in Plates \X Kinds : r \in Readings[ph]
    BY DEF Reads
  <1>2. PICK c \in OcrConfidences : \E lines \in Seen(ph[1], ph[2], c) : r = ReadImage(lines)
    <2>1. Readings[ph] = {ReadImage(lines) : lines \in
                                 UNION {Seen(ph[1], ph[2], c) : c \in OcrConfidences}}
      BY DEF Readings
    <2> QED
      BY <1>1, <2>1
  <1>3. PICK lines \in Seen(ph[1], ph[2], c) : r = ReadImage(lines)
    BY <1>2
  <1>4. PICK n : IsLines(lines, n)
    <2>1. ph[1] \in Plates /\ ph[2] \in Kinds
      OBVIOUS
    <2> QED
      BY <2>1, LinesSeen
  <1> DEFINE parsed == parse_ocr_result(lines)
             plate_text == extract_indian_plate(parsed.text)
  <1>5. parsed.text \in Seq(Chars)
    BY <1>4, ParsedRead
  <1>6. r = IF parsed.text = <<>> \/ plate_text = <<>> THEN None
            ELSE [text |-> normalize_plate_chars(plate_text), conf |-> parsed.conf]
    BY <1>3 DEF ReadImage
  <1> HIDE DEF parsed
  <1>7. plate_text # <<>> => Bh(plate_text) \/ FoundRto(plate_text)
    BY <1>5, FoundShape
  <1> HIDE DEF plate_text
  <1>8. r.text = <<>> \/ (plate_text # <<>> /\ r.text = normalize_plate_chars(plate_text))
    BY <1>6 DEF None
  <1> QED
    BY <1>7, <1>8, BhKept, NormalisedShape DEF Readable

\* What passes the format test after the correction of such a text is a fixed point.
LEMMA CorrectedIsStable ==
    ASSUME NEW t, Readable(t), IsValidRto(correct(t)), ~TablesDiffer(correct(t))
    PROVE  Stable(correct(t))
  <1>1. CASE Bh(t)
    BY <1>1, BhKept, BhCorrect DEF Stable
  <1>2. ASSUME NEW g, ReadRto(t, g) PROVE Stable(correct(t))
    <2> DEFINE c == correct(t)
    <2>1. CASE LooselyBH(t)
      <3>1. Bh(c)
        BY <1>2, <2>1, MadeBh
      <3> HIDE DEF c
      <3>2. Stable(c)
        BY <3>1, BhKept, BhCorrect DEF Stable
      <3> QED
        BY <3>2 DEF c
    <2>2. CASE ~LooselyBH(t)
      <3>1. PICK k, m : StoredRto(c, k, m)
        BY <1>2, <2>2, MadeRto
      <3>2. ~TablesDiffer(c)
        OBVIOUS
      <3> HIDE DEF c
      <3>3. Stable(c)
        BY <3>1, <3>2, StoredFound, NumberAgreed, StoredNormal, StoredCorrect DEF Stable
      <3> QED
        BY <3>3 DEF c
    <2> QED
      BY <2>1, <2>2
  <1> QED
    BY <1>1, <1>2 DEF Readable

\* For every set of plates and all their readings, cut and wrong ones included: what is stored
\* of a vote that is one of the reads comes back unchanged from reading and correcting it,
\* except for a C or J before a short number.
THEOREM TextsAreStable ==
    TextSpec => []StoredIsStable
  <1> DEFINE Inv == TextInv /\ (stage = "read" => stored = <<>>) /\ StoredIsStable
  <1>1. TextInit => Inv
    BY TextInitInv DEF TextInit, StoredIsStable
  <1>2. Inv /\ [TextNext]_textVars => Inv'
    <2> SUFFICES ASSUME Inv, [TextNext]_textVars PROVE Inv'
      OBVIOUS
    <2>1. CASE UNCHANGED textVars
      BY <2>1 DEF textVars, TextInv, MajorityWins, StoredIsStable
    <2>2. CASE ReadCrop
      <3>1. stage = "read" /\ stored' = stored
        BY <2>2 DEF ReadCrop
      <3> QED
        BY <2>2, <3>1, ReadCropInv DEF StoredIsStable
    <2>3. CASE Conclude
      <3>1. /\ reads' = reads /\ stage' = "done"
            /\ stored' = IF voted' # <<>> /\ IsValidRto(correct(voted')) THEN correct(voted') ELSE <<>>
        BY <2>3 DEF Conclude
      <3>2. ASSUME stored' # <<>>, NEW i \in DOMAIN reads, reads[i].text = voted',
                   ~TablesDiffer(stored')
            PROVE  Stable(stored')
        <4>1. reads \in Seq(Reads)
          BY DEF TextInv
        <4>2. reads[i] \in Reads
          BY <4>1
        <4>3. voted' # <<>> /\ IsValidRto(correct(voted')) /\ stored' = correct(voted')
          BY <3>1, <3>2
        <4>4. Readable(voted')
          BY <3>2, <4>2, <4>3, LegibleReads
        <4> QED
          BY <3>2, <4>3, <4>4, CorrectedIsStable
      <3>3. StoredIsStable'
        BY <3>1, <3>2 DEF StoredIsStable
      <3> QED
        BY <2>3, <3>1, <3>3, ConcludeInv
    <2> QED
      BY <2>1, <2>2, <2>3 DEF TextNext
  <1>3. Inv => StoredIsStable
    OBVIOUS
  <1> QED
    BY <1>1, <1>2, <1>3, PTL DEF TextSpec

===============================================================================
