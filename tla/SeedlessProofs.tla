--------------------------- MODULE SeedlessProofs ---------------------------
(***************************************************************************)
(* The call without a source, for every store, table, window, query and    *)
(* budget: what it answers, what ends it, and what its graph leg reaches.  *)
(*                                                                         *)
(* First the operators.  A ranking is the one order by distance and id     *)
(* (RankedLaws), offers one after another leave the k nearest of all       *)
(* (OffersHold), filling takes what is new while there is room             *)
(* (FilledLaws), a sum over a finite set does not depend on the order the  *)
(* library takes it in (SumLaws), and a turn of the push moves mass        *)
(* without making any (PoppedLaws).                                        *)
(*                                                                         *)
(* Then the call.  What is checked of an answer is about its last state    *)
(* only, and is not inductive.  What is: the phases (StreamOK), that each  *)
(* heap holds the nearest of what it was offered so far (HeapsInv), that   *)
(* the drops in a row are as many rows outside window and heap (StopInv),  *)
(* the accounts of the budgets (LimitInv), and that a vertex of the reach  *)
(* is within the hops left to the queue that holds it (ReachInv).          *)
(***************************************************************************)
EXTENDS ReadProofs

-----------------------------------------------------------------------------
(* Rankings.                                                               *)

\* What ranking a set gives: its elements, each once, nearest first.
RankedLaws(r, d, S) ==
  /\ r \in Seq(S) /\ Len(r) = Cardinality(S)
  /\ ToSet(r) = S
  /\ IsInjective(r)
  /\ \A i \in 1..Len(r), j \in 1..Len(r) : i < j => Nearer(d, r[i], r[j])

\* The elements of S nearer than v.
NearerThan(d, S, v) == {u \in S : Nearer(d, u, v)}

\* How many are nearer than v orders a set as the distances do.
LEMMA PlaceLaws ==
  ASSUME NEW X, X \subseteq Int, NEW d \in [X -> Int], NEW S \in SUBSET X, IsFiniteSet(S)
  PROVE  /\ \A v \in S : Cardinality(NearerThan(d, S, v)) \in 0..(Cardinality(S) - 1)
         /\ \A u \in S, v \in S : Nearer(d, u, v) =>
              Cardinality(NearerThan(d, S, u)) < Cardinality(NearerThan(d, S, v))
         /\ \A u \in S, v \in S : u # v => Nearer(d, u, v) \/ Nearer(d, v, u)
<1>1. \A u \in S, v \in S : u # v => Nearer(d, u, v) \/ Nearer(d, v, u)
  BY DEF Nearer
<1>2. \A u \in S, v \in S, w \in S : Nearer(d, u, v) /\ Nearer(d, v, w) => Nearer(d, u, w)
  BY DEF Nearer
<1>3. \A u \in S : ~Nearer(d, u, u)
  BY DEF Nearer
<1>4. \A v \in S : IsFiniteSet(NearerThan(d, S, v)) /\ Cardinality(NearerThan(d, S, v)) \in Nat
  <2>. SUFFICES ASSUME NEW v \in S
                PROVE  IsFiniteSet(NearerThan(d, S, v)) /\ Cardinality(NearerThan(d, S, v)) \in Nat
    OBVIOUS
  <2>1. NearerThan(d, S, v) \in SUBSET S
    BY DEF NearerThan
  <2>. QED BY <2>1, FS_Subset, FS_CardinalityType
<1>5. ASSUME NEW v \in S PROVE Cardinality(NearerThan(d, S, v)) \in 0..(Cardinality(S) - 1)
  <2>1. NearerThan(d, S, v) \in SUBSET (S \ {v})
    BY <1>3 DEF NearerThan
  <2>2. IsFiniteSet(S \ {v}) /\ Cardinality(S \ {v}) = Cardinality(S) - 1
    BY FS_RemoveElement
  <2>3. Cardinality(NearerThan(d, S, v)) <= Cardinality(S \ {v})
    BY <2>1, <2>2, FS_Subset
  <2>4. Cardinality(S) \in Nat
    BY FS_CardinalityType
  <2>. QED BY <1>4, <2>2, <2>3, <2>4
<1>6. ASSUME NEW u \in S, NEW v \in S, Nearer(d, u, v)
      PROVE  Cardinality(NearerThan(d, S, u)) < Cardinality(NearerThan(d, S, v))
  <2>1. NearerThan(d, S, u) \cup {u} \in SUBSET NearerThan(d, S, v)
    BY <1>2, <1>6 DEF NearerThan
  <2>2. u \notin NearerThan(d, S, u)
    BY <1>3 DEF NearerThan
  <2>3. Cardinality(NearerThan(d, S, u) \cup {u}) = Cardinality(NearerThan(d, S, u)) + 1
    BY <1>4, <2>2, FS_AddElement
  <2>4. Cardinality(NearerThan(d, S, u) \cup {u}) <= Cardinality(NearerThan(d, S, v))
    BY <1>4, <2>1, FS_Subset
  <2>. QED BY <1>4, <2>3, <2>4
<1>. QED BY <1>1, <1>5, <1>6

\* Every place of the ranking is one element's.
PlacesAreTaken(d, S) ==
  \A i \in 1..Cardinality(S) : \E v \in S : Cardinality(NearerThan(d, S, v)) = i - 1

\* Every place is somebody's.
LEMMA PlacesTaken ==
  ASSUME NEW X, X \subseteq Int, NEW d \in [X -> Int], NEW S \in SUBSET X, IsFiniteSet(S)
  PROVE  PlacesAreTaken(d, S)
<1>. DEFINE n == Cardinality(S)
            place == [v \in S |-> Cardinality(NearerThan(d, S, v))]
<1>1. n \in Nat
  BY FS_CardinalityType
<1>. HIDE DEF n
<1>2. place \in [S -> 0..(n - 1)]
  BY PlaceLaws DEF n
<1>3. \A u \in S, v \in S : place[u] = place[v] => u = v
  <2>. SUFFICES ASSUME NEW u \in S, NEW v \in S, place[u] = place[v], u # v PROVE FALSE
    OBVIOUS
  <2>1. place[u] \in Int /\ place[v] \in Int
    BY <1>1, <1>2
  <2>2. place[u] < place[v] \/ place[v] < place[u]
    BY PlaceLaws
  <2>. QED BY <2>1, <2>2
<1>4. place \in Injection(S, 0..(n - 1))
  BY <1>2, <1>3 DEF Injection, IsInjective
<1>5. IsFiniteSet(0..(n - 1)) /\ Cardinality(0..(n - 1)) = n
  BY <1>1, FS_Interval
<1>6. place \in Surjection(S, 0..(n - 1))
  BY <1>4, <1>5, FS_Injection DEF n
<1>7. \A j \in 0..(n - 1) : \E v \in S : place[v] = j
  BY <1>6 DEF Surjection
<1>8. \A i \in 1..n : i - 1 \in 0..(n - 1)
  BY <1>1
<1>. QED BY <1>7, <1>8 DEF n, PlacesAreTaken

\* Ranking (topk_cmp_dist).
LEMMA RankedIs ==
  ASSUME NEW X, X \subseteq Int, NEW d \in [X -> Int], NEW S \in SUBSET X, IsFiniteSet(S)
  PROVE  RankedLaws(Ranked(d, S), d, S)
<1>. DEFINE n == Cardinality(S)
            r == Ranked(d, S)
            place(v) == Cardinality(NearerThan(d, S, v))
<1>1. n \in Nat
  BY FS_CardinalityType
<1>. HIDE DEF n
<1>2. r = [i \in 1..n |-> CHOOSE v \in S : place(v) = i - 1]
  BY DEF Ranked, NearerThan, n
<1>3. \A i \in 1..n : \E v \in S : place(v) = i - 1
  <2>1. PlacesAreTaken(d, S)
    BY PlacesTaken
  <2>. QED BY <2>1 DEF n, PlacesAreTaken
<1>4. \A i \in 1..n : r[i] \in S /\ place(r[i]) = i - 1
  <2>. SUFFICES ASSUME NEW i \in 1..n PROVE r[i] \in S /\ place(r[i]) = i - 1
    OBVIOUS
  <2>1. r[i] = CHOOSE v \in S : place(v) = i - 1
    BY <1>2
  <2>. HIDE DEF r, place
  <2>. QED BY <1>3, <2>1
<1>5. /\ \A v \in S : place(v) \in 0..(n - 1)
      /\ \A u \in S, v \in S : Nearer(d, u, v) => place(u) < place(v)
      /\ \A u \in S, v \in S : u # v => Nearer(d, u, v) \/ Nearer(d, v, u)
  BY PlaceLaws DEF n
<1>6. DOMAIN r = 1..n /\ r \in [1..n -> S]
  BY <1>2, <1>4
<1>. HIDE DEF r, place
<1>7. r \in Seq(S) /\ Len(r) = n
  BY <1>1, <1>6, SeqDef
<1>8. \A i \in 1..n, j \in 1..n : i < j => Nearer(d, r[i], r[j])
  <2>. SUFFICES ASSUME NEW i \in 1..n, NEW j \in 1..n, i < j PROVE Nearer(d, r[i], r[j])
    OBVIOUS
  <2>1. place(r[i]) = i - 1 /\ place(r[j]) = j - 1 /\ r[i] \in S /\ r[j] \in S
    BY <1>4
  <2>2. ~(place(r[j]) < place(r[i])) /\ r[i] # r[j]
    BY <2>1
  <2>. QED BY <1>5, <2>1, <2>2
<1>9. IsInjective(r)
  <2>. SUFFICES ASSUME NEW i \in 1..n, NEW j \in 1..n, r[i] = r[j] PROVE i = j
    BY <1>6 DEF IsInjective
  <2>1. i - 1 = j - 1
    BY <1>4
  <2>. QED BY <2>1
<1>10. ToSet(r) = S
  <2>1. ToSet(r) = {r[i] : i \in 1..n}
    BY <1>6 DEF ToSet
  <2>2. ASSUME NEW v \in S PROVE \E i \in 1..n : r[i] = v
    <3>1. place(v) + 1 \in 1..n /\ place(v) \in Int
      BY <1>1, <1>5
    <3>2. place(r[place(v) + 1]) = place(v) /\ r[place(v) + 1] \in S
      BY <1>4, <3>1
    <3>. DEFINE w == r[place(v) + 1]
    <3>3. w = v
      <4>. SUFFICES ASSUME w # v PROVE FALSE
        OBVIOUS
      <4>1. w \in S /\ place(w) = place(v) /\ place(w) \in Int
        BY <3>1, <3>2
      <4>. HIDE DEF w
      <4>2. place(w) < place(v) \/ place(v) < place(w)
        BY <1>5, <4>1
      <4>. QED BY <3>1, <4>1, <4>2
    <3>. QED BY <3>1, <3>3
  <2>. QED BY <1>4, <2>1, <2>2
<1>. QED BY <1>7, <1>8, <1>9, <1>10 DEF RankedLaws, n, r

-----------------------------------------------------------------------------
(* Offers, one after another.                                              *)

\* One candidate after another (AdmitWindow's fold).
Offers(d, k, h, s) == FoldLeft(LAMBDA g, v : Offered(d, k, g, v), h, s)

\* The same as IterFolded, without bounds on what it is of.
Fits(V, E, base, o, s) == base \in V /\ o \in [V \X E -> V] /\ s \in Seq(E)

\* The recursive function is the fold.
FoldsTo(iter, V, base, o, s) == AtEnd(iter, s) = Folded(V, base, o, s)

\* It is, whatever it is of.
LEMMA FitFolded ==
  ASSUME NEW V, NEW E, NEW base, NEW o, NEW s, NEW iter,
         Fits(V, E, base, o, s), Stepwise(iter, V, base, o, s)
  PROVE  FoldsTo(iter, V, base, o, s)
BY IterFolded DEF Fits, FoldsTo

\* The heaps of elements of X.
HeapsOver(X, d) == {h \in Seq(X) : IsHeap(d, Len(h), h)}

\* An offer makes a heap of a heap, whatever it holds.
LEMMA OfferHeap ==
  ASSUME NEW X, NEW d \in [X -> Nat], NEW k \in Nat \ {0}, NEW h \in HeapsOver(X, d), NEW id \in X
  PROVE  Offered(d, k, h, id) \in HeapsOver(X, d)
<1>. DEFINE n == Len(h)
            r == Offered(d, k, h, id)
<1>1. n \in Nat /\ h \in [1..n -> X] /\ h \in Seq(X) /\ IsHeap(d, n, h)
  BY DEF HeapsOver
<1>. HIDE DEF n
<1>2. CASE n < k
  <2>. DEFINE g == Append(h, id)
  <2>1. r = SiftUp(d, g)
    BY <1>2 DEF Offered, n
  <2>2. /\ g \in [1..(n + 1) -> X] /\ \A i \in 1..n : g[i] = h[i]
    <3>1. /\ g \in Seq(X) /\ Len(g) = n + 1 /\ \A i \in 1..n : g[i] = h[i]
      BY <1>1 DEF n
    <3>. HIDE DEF g
    <3>2. g \in [1..Len(g) -> X]
      BY <3>1, LenProperties
    <3>. QED BY <3>1, <3>2
  <2>. HIDE DEF g
  <2>. DEFINE m == n + 1
  <2>3. m \in Nat \ {0} /\ g \in [1..m -> X]
    BY <1>1, <2>2
  <2>4. UpTo(d, n + 1, g, n + 1)
    <3>1. ASSUME NEW j \in 2..(n + 1), j # n + 1 PROVE d[g[j \div 2]] >= d[g[j]]
      <4>1. j \in 2..n /\ j \in 1..n /\ j \div 2 \in 1..n
        BY <3>1, <1>1, Half
      <4>. QED BY <4>1, <2>2, <1>1 DEF IsHeap
    <3>2. \A j \in 2..(n + 1) : j \div 2 # n + 1
      BY <1>1, Half
    <3>. QED BY <3>1, <3>2 DEF UpTo
  <2>5. UpTo(d, m, g, m)
    BY <2>4
  <2>. HIDE DEF m
  <2>6. Sifted(SiftUp(d, g), d, X, m, g)
    BY <2>3, <2>5, SiftUpIs
  <2>7. r \in [1..m -> X] /\ IsHeap(d, m, r)
    BY <2>1, <2>6 DEF Sifted
  <2>. HIDE DEF r
  <2>8. r \in Seq(X) /\ Len(r) = m
    BY <2>3, <2>7, SeqDef
  <2>. QED BY <2>7, <2>8 DEF HeapsOver, r
<1>3. CASE ~(n < k) /\ d[id] < d[h[1]]
  <2>. DEFINE g == [h EXCEPT ![1] = id]
  <2>0. n >= 1 /\ n \in Nat \ {0}
    BY <1>1, <1>3
  <2>1. r = SiftDown(d, g)
    BY <1>3 DEF Offered, Improves, n
  <2>2. /\ g \in [1..n -> X] /\ \A i \in 2..n : g[i] = h[i]
    BY <1>1, <2>0
  <2>. HIDE DEF g
  <2>4. DownTo(d, n, g, 1)
    <3>1. ASSUME NEW j \in 2..n, j \div 2 # 1 PROVE d[g[j \div 2]] >= d[g[j]]
      <4>. DEFINE q == j \div 2
      <4>1. q \in Nat /\ q >= 1 /\ q < j /\ q # 1
        BY <3>1, Half
      <4>2. d[h[q]] >= d[h[j]]
        BY <1>1 DEF IsHeap
      <4>. HIDE DEF q
      <4>3. q \in 2..n
        BY <4>1, <1>1
      <4>4. d[g[q]] >= d[g[j]]
        BY <4>2, <4>3, <2>2
      <4>. QED BY <4>4 DEF q
    <3>. QED BY <3>1 DEF DownTo
  <2>5. Sifted(SiftDown(d, g), d, X, n, g)
    BY <2>0, <2>2, <2>4, SiftDownIs
  <2>6. r \in [1..n -> X] /\ IsHeap(d, n, r)
    BY <2>1, <2>5 DEF Sifted
  <2>. HIDE DEF r
  <2>7. r \in Seq(X) /\ Len(r) = n
    BY <1>1, <2>6, SeqDef
  <2>. QED BY <2>6, <2>7 DEF HeapsOver, r
<1>4. CASE ~(n < k) /\ ~(d[id] < d[h[1]])
  <2>1. r = h
    BY <1>4 DEF Offered, Improves, n
  <2>. QED BY <2>1
<1>. QED BY <1>2, <1>3, <1>4 DEF r

\* An offer as a function on heaps.
OffersOp(X, d, k) == [x \in HeapsOver(X, d) \X X |-> Offered(d, k, x[1], x[2])]

\* That function does it.
OffersOpOk(X, d, k) ==
  /\ OffersOp(X, d, k) \in [HeapsOver(X, d) \X X -> HeapsOver(X, d)]
  /\ \A acc \in HeapsOver(X, d), e \in X : OffersOp(X, d, k)[<<acc, e>>] = Offered(d, k, acc, e)

\* That function is of its type.
LEMMA OffersOpType ==
  ASSUME NEW X, NEW d \in [X -> Nat], NEW k \in Nat \ {0}
  PROVE  OffersOpOk(X, d, k)
<1>1. \A acc \in HeapsOver(X, d), e \in X : Offered(d, k, acc, e) \in HeapsOver(X, d)
  BY OfferHeap DEF HeapsOver
<1>2. OffersOp(X, d, k) \in [HeapsOver(X, d) \X X -> HeapsOver(X, d)]
  BY <1>1 DEF OffersOp
<1>3. \A acc \in HeapsOver(X, d), e \in X : OffersOp(X, d, k)[<<acc, e>>] = Offered(d, k, acc, e)
  BY DEF OffersOp
<1>. QED BY <1>2, <1>3 DEF OffersOpOk

\* Offers are such a fold.
LEMMA OffersFolds ==
  ASSUME NEW X, NEW d \in [X -> Nat], NEW k \in Nat \ {0}, NEW b \in HeapsOver(X, d), NEW s \in Seq(X)
  PROVE  Offers(d, k, b, s) = Folded(HeapsOver(X, d), b, OffersOp(X, d, k), s)
<1>. DEFINE P(I) == I = [t \in SUBSET (1..Len(s)) |->
                           IF t = {} THEN b
                           ELSE Offered(d, k, I[t \ {Max(t)}], s[Max(t)])]
            iter == CHOOSE I : P(I)
<1>1. DOMAIN s = 1..Len(s) /\ \A q \in 1..Len(s) : s[q] \in X
  OBVIOUS
<1>. DEFINE V == HeapsOver(X, d)
            o == OffersOp(X, d, k)
<1>a. OffersOpOk(X, d, k)
  BY OffersOpType
<1>0. o \in [V \X X -> V] /\ b \in V
  BY <1>a DEF OffersOpOk
<1>10. \A acc \in V, e \in X : o[<<acc, e>>] = Offered(d, k, acc, e)
  BY <1>a, Zenon DEF OffersOpOk
<1>. HIDE DEF V, o
<1>2. PICK I : Sound(I, V, b, o, s)
  BY <1>0, IterExists
<1>3. P(I)
  BY <1>1, <1>2, <1>10 DEF Sound
<1>4. P(iter)
  <2>. HIDE DEF P
  <2>. QED BY <1>3
<1>5. Offers(d, k, b, s) = iter[1..Len(s)]
  BY <1>1 DEF Offers, FoldLeft, MapThenFoldSet
<1>. HIDE DEF iter
<1>6. iter[{}] = b
  BY <1>4
<1>7. \A t \in SUBSET (1..Len(s)) : t # {} /\ iter[t \ {Max(t)}] \in V =>
        iter[t] = o[<<iter[t \ {Max(t)}], s[Max(t)]>>]
  <2>. TAKE t \in SUBSET (1..Len(s))
  <2>. HAVE t # {} /\ iter[t \ {Max(t)}] \in V
  <2>1. iter[t] = Offered(d, k, iter[t \ {Max(t)}], s[Max(t)])
    BY <1>4
  <2>2. s[Max(t)] \in X
    BY <1>1, <1>2 DEF Sound
  <2>. QED BY <2>1, <2>2, <1>10
<1>8. Stepwise(iter, V, b, o, s)
  BY <1>6, <1>7 DEF Stepwise
<1>9. FoldsTo(iter, V, b, o, s)
  <2>. HIDE DEF P
  <2>1. Fits(V, X, b, o, s)
    BY <1>0 DEF Fits
  <2>. QED BY <1>8, <2>1, FitFolded
<1>. QED BY <1>5, <1>9 DEF AtEnd, FoldsTo, V, o

\* The steps of a fold of offers.
OffersLaws(X, d, k, b) ==
  /\ Offers(d, k, b, <<>>) = b
  /\ \A s \in Seq(X) : Offers(d, k, b, s) \in HeapsOver(X, d)
  /\ \A s \in Seq(X), e \in X :
       Offers(d, k, b, Append(s, e)) = Offered(d, k, Offers(d, k, b, s), e)

\* The same, one element at a time.
LEMMA OffersSteps ==
  ASSUME NEW X, NEW d \in [X -> Nat], NEW k \in Nat \ {0}, NEW b \in HeapsOver(X, d)
  PROVE  OffersLaws(X, d, k, b)
<1>. DEFINE V == HeapsOver(X, d)
            o == OffersOp(X, d, k)
<1>a. OffersOpOk(X, d, k)
  BY OffersOpType
<1>0. o \in [V \X X -> V] /\ b \in V
  BY <1>a DEF OffersOpOk
<1>1. \A acc \in V, e \in X : o[<<acc, e>>] = Offered(d, k, acc, e)
  BY <1>a, Zenon DEF OffersOpOk
<1>2. \A s \in Seq(X) : Offers(d, k, b, s) = Folded(V, b, o, s)
  BY OffersFolds
<1>. HIDE DEF V, o
<1>3. \A s \in Seq(X) : FoldLaws(V, X, b, o, s)
  BY <1>0, FoldedSteps
<1>4. <<>> \in Seq(X) /\ \A s \in Seq(X), e \in X : Append(s, e) \in Seq(X)
  OBVIOUS
<1>5. Offers(d, k, b, <<>>) = b
  BY <1>2, <1>3, <1>4 DEF FoldLaws
<1>6. \A s \in Seq(X) : Offers(d, k, b, s) \in V
  BY <1>2, <1>3 DEF FoldLaws
<1>7. \A s \in Seq(X), e \in X :
        Offers(d, k, b, Append(s, e)) = Offered(d, k, Offers(d, k, b, s), e)
  <2>. TAKE s \in Seq(X), e \in X
  <2>1. Offers(d, k, b, Append(s, e)) = o[<<Offers(d, k, b, s), e>>]
    BY <1>2, <1>3, <1>4 DEF FoldLaws
  <2>. QED BY <2>1, <1>1, <1>6
<1>. QED BY <1>5, <1>6, <1>7 DEF V, OffersLaws

\* A list without doubles is one before its last element too.
LEMMA FrontInjective ==
  ASSUME NEW E, NEW s \in Seq(E), NEW v \in E, IsInjective(Append(s, v))
  PROVE  IsInjective(s) /\ v \notin ToSet(s)
<1>. DEFINE n == Len(s)
            z == Append(s, v)
<1>1. n \in Nat /\ DOMAIN s = 1..n /\ DOMAIN z = 1..(n + 1)
  OBVIOUS
<1>2. z[n + 1] = v /\ \A i \in 1..n : z[i] = s[i] /\ i \in 1..(n + 1) /\ i # n + 1
  OBVIOUS
<1>3. n + 1 \in 1..(n + 1)
  BY <1>1
<1>4. \A i \in 1..(n + 1), j \in 1..(n + 1) : z[i] = z[j] => i = j
  BY <1>1 DEF IsInjective
<1>. HIDE DEF n, z
<1>5. IsInjective(s)
  BY <1>1, <1>2, <1>4 DEF IsInjective
<1>6. v \notin ToSet(s)
  BY <1>1, <1>2, <1>3, <1>4 DEF ToSet
<1>. QED BY <1>5, <1>6

\* What the offers leave in the heap.
OffersHold(r, d, k, ids, X) == r \in Seq(X) /\ Held(d, k, r, ids)

\* Offering a list of new candidates leaves the k nearest of all.
LEMMA OffersHeld ==
  ASSUME NEW X, NEW d \in [X -> Nat], NEW k \in Nat \ {0}, NEW h \in Seq(X), NEW ids \in SUBSET X,
         IsFiniteSet(ids), Held(d, k, h, ids),
         NEW s \in Seq(X), IsInjective(s), ToSet(s) \cap ids = {}
  PROVE  OffersHold(Offers(d, k, h, s), d, k, ids \cup ToSet(s), X)
<1>. DEFINE G == {t \in Seq(X) : IsInjective(t) /\ ToSet(t) \cap ids = {} =>
                    IsFiniteSet(ids \cup ToSet(t))
                    /\ OffersHold(Offers(d, k, h, t), d, k, ids \cup ToSet(t), X)}
<1>0. h \in HeapsOver(X, d)
  BY DEF HeapsOver, Held
<1>1. OffersLaws(X, d, k, h)
  BY <1>0, OffersSteps
<1>2. <<>> \in G
  <2>1. Offers(d, k, h, <<>>) = h
    BY <1>1 DEF OffersLaws
  <2>2. ToSet(<<>>) = {} /\ ids \cup {} = ids /\ <<>> \in Seq(X)
    BY EmptySet
  <2>. QED BY <2>1, <2>2 DEF OffersHold
<1>3. ASSUME NEW t \in Seq(X), NEW e \in X, t \in G PROVE Append(t, e) \in G
  <2>. SUFFICES ASSUME IsInjective(Append(t, e)), ToSet(Append(t, e)) \cap ids = {}
                PROVE  /\ IsFiniteSet(ids \cup ToSet(Append(t, e)))
                       /\ OffersHold(Offers(d, k, h, Append(t, e)), d, k, ids \cup ToSet(Append(t, e)), X)
    BY AppendProperties
  <2>1. ToSet(Append(t, e)) = ToSet(t) \cup {e}
    BY AppendSet
  <2>2. IsInjective(t) /\ e \notin ToSet(t)
    BY FrontInjective
  <2>3. ToSet(t) \cap ids = {} /\ e \notin ids
    BY <2>1
  <2>. DEFINE g == Offers(d, k, h, t)
              more == ids \cup ToSet(t)
  <2>4. IsFiniteSet(more) /\ OffersHold(g, d, k, more, X)
    BY <1>3, <2>2, <2>3
  <2>5. Offers(d, k, h, Append(t, e)) = Offered(d, k, g, e)
    BY <1>1 DEF OffersLaws
  <2>6. more \in SUBSET X /\ e \notin more /\ ids \cup ToSet(Append(t, e)) = more \cup {e}
    <3>1. ToSet(t) \in SUBSET X
      BY DEF ToSet
    <3>. QED BY <2>1, <2>2, <2>3, <3>1
  <2>. HIDE DEF g, more
  <2>7. OfferLaws(Offered(d, k, g, e), d, k, g, e, more, X)
    BY <2>4, <2>6, Offer DEF OffersHold
  <2>8. OffersHold(Offered(d, k, g, e), d, k, more \cup {e}, X)
    BY <2>7 DEF OfferLaws, OffersHold
  <2>9. IsFiniteSet(more \cup {e})
    BY <2>4, FS_AddElement
  <2>. QED BY <2>5, <2>6, <2>8, <2>9
<1>. HIDE DEF G
<1>4. Seq(X) \subseteq G
  BY <1>2, <1>3, SeqSet
<1>. QED BY <1>4 DEF G

-----------------------------------------------------------------------------
(* Filling an answer.                                                      *)

\* Filling an answer up to max with one candidate.
FillOne(out, v, max) == IF Len(out) < max /\ v \notin ToSet(out) THEN Append(out, v) ELSE out

\* Filling with one candidate as a function.
FilledOp(E, max) == [x \in Seq(E) \X E |-> FillOne(x[1], x[2], max)]

\* That function does it.
FilledOpOk(E, max) ==
  /\ FilledOp(E, max) \in [Seq(E) \X E -> Seq(E)]
  /\ \A acc \in Seq(E), e \in E : FilledOp(E, max)[<<acc, e>>] = FillOne(acc, e, max)

\* That function is of its type.
LEMMA FilledOpType ==
  ASSUME NEW E, NEW max
  PROVE  FilledOpOk(E, max)
<1>1. \A acc \in Seq(E), e \in E : FillOne(acc, e, max) \in Seq(E)
  BY AppendProperties DEF FillOne
<1>2. FilledOp(E, max) \in [Seq(E) \X E -> Seq(E)]
  BY <1>1 DEF FilledOp
<1>3. \A acc \in Seq(E), e \in E : FilledOp(E, max)[<<acc, e>>] = FillOne(acc, e, max)
  BY DEF FilledOp
<1>. QED BY <1>2, <1>3 DEF FilledOpOk

\* Filling is such a fold.
LEMMA FilledFolds ==
  ASSUME NEW E, NEW max, NEW b \in Seq(E), NEW s \in Seq(E)
  PROVE  Filled(b, s, max) = Folded(Seq(E), b, FilledOp(E, max), s)
<1>. DEFINE P(I) == I = [t \in SUBSET (1..Len(s)) |->
                           IF t = {} THEN b
                           ELSE FillOne(I[t \ {Max(t)}], s[Max(t)], max)]
            iter == CHOOSE I : P(I)
<1>1. DOMAIN s = 1..Len(s) /\ \A q \in 1..Len(s) : s[q] \in E
  OBVIOUS
<1>. DEFINE V == Seq(E)
            o == FilledOp(E, max)
<1>a. FilledOpOk(E, max)
  BY FilledOpType
<1>0. o \in [V \X E -> V] /\ b \in V
  BY <1>a DEF FilledOpOk
<1>10. \A acc \in V, e \in E : o[<<acc, e>>] = FillOne(acc, e, max)
  BY <1>a, Zenon DEF FilledOpOk
<1>. HIDE DEF V, o
<1>2. PICK I : Sound(I, V, b, o, s)
  BY <1>0, IterExists
<1>3. P(I)
  BY <1>1, <1>2, <1>10 DEF Sound
<1>4. P(iter)
  <2>. HIDE DEF P
  <2>. QED BY <1>3
<1>5. Filled(b, s, max) = iter[1..Len(s)]
  BY <1>1 DEF Filled, FillOne, FoldLeft, MapThenFoldSet
<1>. HIDE DEF iter
<1>6. iter[{}] = b
  BY <1>4
<1>7. \A t \in SUBSET (1..Len(s)) : t # {} /\ iter[t \ {Max(t)}] \in V =>
        iter[t] = o[<<iter[t \ {Max(t)}], s[Max(t)]>>]
  <2>. TAKE t \in SUBSET (1..Len(s))
  <2>. HAVE t # {} /\ iter[t \ {Max(t)}] \in V
  <2>1. iter[t] = FillOne(iter[t \ {Max(t)}], s[Max(t)], max)
    BY <1>4
  <2>2. s[Max(t)] \in E
    BY <1>1, <1>2 DEF Sound
  <2>. QED BY <2>1, <2>2, <1>10
<1>8. Stepwise(iter, V, b, o, s)
  BY <1>6, <1>7 DEF Stepwise
<1>9. FoldsTo(iter, V, b, o, s)
  <2>. HIDE DEF P
  <2>1. Fits(V, E, b, o, s)
    BY <1>0 DEF Fits
  <2>. QED BY <1>8, <2>1, FitFolded
<1>. QED BY <1>5, <1>9 DEF AtEnd, FoldsTo, V, o

\* The steps of a fold that fills.
FilledLaws(E, max, b) ==
  /\ Filled(b, <<>>, max) = b
  /\ \A s \in Seq(E) : Filled(b, s, max) \in Seq(E)
  /\ \A s \in Seq(E), e \in E :
       Filled(b, Append(s, e), max) = FillOne(Filled(b, s, max), e, max)

\* The same, one element at a time.
LEMMA FilledSteps ==
  ASSUME NEW E, NEW max, NEW b \in Seq(E)
  PROVE  FilledLaws(E, max, b)
<1>. DEFINE V == Seq(E)
            o == FilledOp(E, max)
<1>a. FilledOpOk(E, max)
  BY FilledOpType
<1>0. o \in [V \X E -> V] /\ b \in V
  BY <1>a DEF FilledOpOk
<1>1. \A acc \in V, e \in E : o[<<acc, e>>] = FillOne(acc, e, max)
  BY <1>a, Zenon DEF FilledOpOk
<1>2. \A s \in Seq(E) : Filled(b, s, max) = Folded(V, b, o, s)
  BY FilledFolds
<1>. HIDE DEF V, o
<1>3. \A s \in Seq(E) : FoldLaws(V, E, b, o, s)
  BY <1>0, FoldedSteps
<1>4. <<>> \in Seq(E) /\ \A s \in Seq(E), e \in E : Append(s, e) \in Seq(E)
  OBVIOUS
<1>5. Filled(b, <<>>, max) = b
  BY <1>2, <1>3, <1>4 DEF FoldLaws
<1>6. \A s \in Seq(E) : Filled(b, s, max) \in V
  BY <1>2, <1>3 DEF FoldLaws
<1>7. \A s \in Seq(E), e \in E :
        Filled(b, Append(s, e), max) = FillOne(Filled(b, s, max), e, max)
  <2>. TAKE s \in Seq(E), e \in E
  <2>1. Filled(b, Append(s, e), max) = o[<<Filled(b, s, max), e>>]
    BY <1>2, <1>3, <1>4 DEF FoldLaws
  <2>. QED BY <2>1, <1>1, <1>6
<1>. QED BY <1>5, <1>6, <1>7 DEF V, FilledLaws

\* What filling gives: the items, then candidates in order while there is room.
FillLaws(r, items, cands, max, E) ==
  /\ r \in Seq(E) /\ IsInjective(r)
  /\ ToSet(items) \subseteq ToSet(r) /\ ToSet(r) \subseteq ToSet(items) \cup ToSet(cands)
  /\ Len(r) <= Len(items) + Len(cands)
  /\ Len(items) <= max => Len(r) <= max
  /\ Len(r) < max => ToSet(cands) \subseteq ToSet(r)
  /\ \A j \in 1..Len(cands) : Len(items) + j <= max => cands[j] \in ToSet(r)
  /\ \A i \in 1..Len(cands), j \in 1..Len(cands) :
       i < j /\ cands[j] \in ToSet(r) \ ToSet(items) => cands[i] \in ToSet(r)

\* Filling with one candidate more.
LEMMA FillStep ==
  ASSUME NEW E, NEW max \in Nat, NEW items \in Seq(E), NEW t \in Seq(E), NEW e \in E, NEW g,
         IsInjective(Append(t, e)), FillLaws(g, items, t, max, E)
  PROVE  FillLaws(FillOne(g, e, max), items, Append(t, e), max, E)
<1>. DEFINE u == Append(t, e)
            n == Len(t)
            r == FillOne(g, e, max)
<1>1. /\ n \in Nat /\ u \in Seq(E) /\ Len(u) = n + 1 /\ u[n + 1] = e
      /\ \A i \in 1..n : u[i] = t[i]
      /\ \A i \in 1..(n + 1) : i \in 1..n \/ i = n + 1
  BY AppendProperties
<1>2. ToSet(u) = ToSet(t) \cup {e} /\ e \notin ToSet(t) /\ \A i \in 1..n : t[i] \in ToSet(t)
  <2>1. ToSet(u) = ToSet(t) \cup {e}
    BY AppendSet
  <2>2. e \notin ToSet(t)
    BY FrontInjective
  <2>3. \A i \in 1..n : t[i] \in ToSet(t)
    <3>1. DOMAIN t = 1..n
      BY LenProperties
    <3>. QED BY <3>1 DEF ToSet
  <2>. QED BY <2>1, <2>2, <2>3
<1>3. /\ g \in Seq(E) /\ IsInjective(g) /\ Len(g) \in Nat /\ Len(items) \in Nat
      /\ ToSet(items) \subseteq ToSet(g) /\ ToSet(g) \subseteq ToSet(items) \cup ToSet(t)
      /\ Len(g) <= Len(items) + n
      /\ Len(items) <= max => Len(g) <= max
      /\ Len(g) < max => ToSet(t) \subseteq ToSet(g)
      /\ \A j \in 1..n : Len(items) + j <= max => t[j] \in ToSet(g)
      /\ \A i \in 1..n, j \in 1..n : i < j /\ t[j] \in ToSet(g) \ ToSet(items) => t[i] \in ToSet(g)
  BY DEF FillLaws
<1>. HIDE DEF u, n
<1>4. CASE Len(g) < max /\ e \notin ToSet(g)
  <2>1. r = Append(g, e)
    BY <1>4 DEF FillOne
  <2>2. r \in Seq(E) /\ IsInjective(r) /\ ToSet(r) = ToSet(g) \cup {e} /\ Len(r) = Len(g) + 1
    <3>1. ToSet(Append(g, e)) = ToSet(g) \cup {e} /\ IsInjective(Append(g, e))
      BY <1>3, <1>4, AppendSet
    <3>2. Append(g, e) \in Seq(E) /\ Len(Append(g, e)) = Len(g) + 1
      BY <1>3, AppendProperties
    <3>. QED BY <2>1, <3>1, <3>2
  <2>. HIDE DEF r
  <2>3. ToSet(t) \subseteq ToSet(g)
    BY <1>3, <1>4
  <2>4. \A j \in 1..(n + 1) : u[j] \in ToSet(r)
    BY <1>1, <1>2, <2>2, <2>3
  <2>5. Len(r) <= Len(items) + (n + 1) /\ Len(r) <= max
    BY <1>1, <1>3, <1>4, <2>2
  <2>6. ToSet(items) \subseteq ToSet(r) /\ ToSet(r) \subseteq ToSet(items) \cup ToSet(u) /\ ToSet(u) \subseteq ToSet(r)
    BY <1>2, <1>3, <2>2, <2>3
  <2>. QED BY <1>1, <2>2, <2>4, <2>5, <2>6 DEF FillLaws, r, u
<1>5. CASE ~(Len(g) < max /\ e \notin ToSet(g))
  <2>1. r = g
    BY <1>5 DEF FillOne
  <2>. HIDE DEF r
  <2>2. Len(r) <= Len(items) + (n + 1) /\ (Len(items) <= max => Len(r) <= max)
    BY <1>1, <1>3, <2>1
  <2>3. ToSet(items) \subseteq ToSet(r) /\ ToSet(r) \subseteq ToSet(items) \cup ToSet(u)
    BY <1>2, <1>3, <2>1
  <2>4. Len(r) < max => ToSet(u) \subseteq ToSet(r)
    BY <1>2, <1>3, <1>5, <2>1
  <2>5. ASSUME NEW j \in 1..(n + 1), Len(items) + j <= max PROVE u[j] \in ToSet(r)
    <3>1. CASE j \in 1..n
      BY <3>1, <2>5, <1>1, <1>3, <2>1
    <3>2. CASE j = n + 1
      <4>1. Len(g) < max
        BY <3>2, <2>5, <1>1, <1>3
      <4>. QED BY <4>1, <3>2, <1>1, <1>5, <2>1
    <3>. QED BY <3>1, <3>2, <1>1
  <2>6. ASSUME NEW i \in 1..(n + 1), NEW j \in 1..(n + 1), i < j, u[j] \in ToSet(r) \ ToSet(items)
        PROVE  u[i] \in ToSet(r)
    <3>1. i \in 1..n
      BY <2>6, <1>1
    <3>2. CASE j \in 1..n
      <4>1. u[i] = t[i] /\ u[j] = t[j]
        BY <3>1, <3>2, <1>1
      <4>. QED BY <4>1, <3>1, <3>2, <2>6, <1>3, <2>1
    <3>3. CASE j = n + 1
      BY <3>3, <2>6, <1>1, <1>2, <1>3, <2>1
    <3>. QED BY <3>2, <3>3, <1>1
  <2>7. r \in Seq(E) /\ IsInjective(r) /\ ToSet(items) \subseteq ToSet(r)
    BY <1>3, <2>1
  <2>8. Len(u) = n + 1
    BY <1>1
  <2>9. FillLaws(r, items, u, max, E)
    BY <2>2, <2>3, <2>4, <2>5, <2>6, <2>7, <2>8 DEF FillLaws
  <2>. QED BY <2>9 DEF r, u
<1>. QED BY <1>4, <1>5 DEF u, r

\* Filling (Finalize).
LEMMA FilledIs ==
  ASSUME NEW E, NEW max \in Nat, NEW items \in Seq(E), IsInjective(items),
         NEW cands \in Seq(E), IsInjective(cands)
  PROVE  FillLaws(Filled(items, cands, max), items, cands, max, E)
<1>. DEFINE G == {t \in Seq(E) : IsInjective(t) => FillLaws(Filled(items, t, max), items, t, max, E)}
<1>1. FilledLaws(E, max, items)
  BY FilledSteps
<1>2. <<>> \in G
  <2>1. Filled(items, <<>>, max) = items
    BY <1>1 DEF FilledLaws
  <2>2. ToSet(<<>>) = {} /\ Len(<<>>) = 0 /\ <<>> \in Seq(E) /\ 1..0 = {} /\ Len(items) \in Nat
    BY EmptySet
  <2>3. FillLaws(items, items, <<>>, max, E)
    BY <2>2 DEF FillLaws
  <2>. QED BY <2>1, <2>2, <2>3
<1>3. ASSUME NEW t \in Seq(E), NEW e \in E, t \in G PROVE Append(t, e) \in G
  <2>. SUFFICES ASSUME IsInjective(Append(t, e))
                PROVE  FillLaws(Filled(items, Append(t, e), max), items, Append(t, e), max, E)
    BY AppendProperties
  <2>1. IsInjective(t)
    BY FrontInjective
  <2>. DEFINE g == Filled(items, t, max)
  <2>2. FillLaws(g, items, t, max, E)
    BY <1>3, <2>1
  <2>3. Filled(items, Append(t, e), max) = FillOne(g, e, max)
    BY <1>1 DEF FilledLaws
  <2>. HIDE DEF g
  <2>4. FillLaws(FillOne(g, e, max), items, Append(t, e), max, E)
    BY <2>2, FillStep
  <2>. QED BY <2>3, <2>4
<1>. HIDE DEF G
<1>4. Seq(E) \subseteq G
  BY <1>2, <1>3, SeqSet
<1>. QED BY <1>4 DEF G

-----------------------------------------------------------------------------
(* The first of a ranking, and of the members among it.                    *)

\* The first c of a list.
FirstOf(r, c) == {r[j] : j \in {i \in 1..Len(r) : i <= c}}

Least(a, b) == IF a < b THEN a ELSE b

\* The first of a ranking are nearest.
LEMMA PrefixNearest ==
  ASSUME NEW S, IsFiniteSet(S), NEW d, \A v \in S : d[v] \in Int, NEW r, RankedLaws(r, d, S), NEW c \in Nat
  PROVE  KNearest(d, c, FirstOf(r, c), S)
<1>. DEFINE n == Len(r)
            m == Least(n, c)
            A == FirstOf(r, c)
            t == SubSeq(r, 1, m)
<1>1. /\ n \in Nat /\ n = Cardinality(S) /\ r \in Seq(S) /\ r \in [1..n -> S] /\ ToSet(r) = S
      /\ \A i \in 1..n, j \in 1..n : i < j => Nearer(d, r[i], r[j])
      /\ \A i \in 1..n, j \in 1..n : r[i] = r[j] => i = j
      /\ S = {r[i] : i \in 1..n}
  <2>1. r \in Seq(S) /\ n = Cardinality(S) /\ ToSet(r) = S /\ IsInjective(r)
    BY DEF RankedLaws
  <2>2. n \in Nat /\ DOMAIN r = 1..n /\ r \in [1..n -> S]
    BY <2>1, LenProperties
  <2>3. S = {r[i] : i \in 1..n}
    BY <2>1, <2>2 DEF ToSet
  <2>4. \A i \in 1..n, j \in 1..n : r[i] = r[j] => i = j
    BY <2>1, <2>2 DEF IsInjective
  <2>. QED BY <2>1, <2>2, <2>3, <2>4 DEF RankedLaws
<1>. HIDE DEF n
<1>0. n \in Nat
  BY <1>1
<1>2. m \in Nat /\ m <= n /\ {i \in 1..n : i <= c} = 1..m
  <2>1. (m = n /\ n <= c) \/ (m = c /\ c <= n)
    BY <1>0 DEF Least
  <2>. HIDE DEF m
  <2>2. m \in Nat /\ m <= n
    BY <1>0, <2>1
  <2>3. \A i \in 1..n : i <= c <=> i <= m
    BY <1>0, <2>1
  <2>4. {i \in 1..n : i <= c} = {i \in 1..n : i <= m}
    BY <2>3
  <2>5. {i \in 1..n : i <= m} = 1..m
    BY <1>0, <2>2
  <2>. QED BY <2>2, <2>4, <2>5
<1>3. A = {r[j] : j \in 1..m}
  BY <1>2 DEF FirstOf, n
<1>. HIDE DEF A, m
<1>4. A \subseteq S
  BY <1>1, <1>2, <1>3
<1>5. Cardinality(A) = m
  <2>. DEFINE f == [j \in 1..m |-> r[j]]
  <2>1. f \in [1..m -> S] /\ IsInjective(f)
    BY <1>1, <1>2 DEF IsInjective
  <2>2. ToSet(f) = A
    BY <1>3 DEF ToSet
  <2>. HIDE DEF f
  <2>. QED BY <2>1, <2>2, <1>2, CardInjective
<1>6. ASSUME NEW a \in A, NEW b \in S \ A PROVE d[a] <= d[b]
  <2>1. PICK i \in 1..m : a = r[i]
    BY <1>3
  <2>2. PICK j \in 1..n : b = r[j]
    BY <1>1
  <2>3. j \notin 1..m
    BY <1>3, <2>2
  <2>4. i \in 1..n /\ i < j
    BY <1>0, <1>2, <2>3
  <2>5. Nearer(d, a, b)
    BY <1>1, <2>1, <2>2, <2>4
  <2>6. d[a] \in Int /\ d[b] \in Int
    BY <1>4
  <2>. QED BY <2>5, <2>6 DEF Nearer
<1>7. m = IF Cardinality(S) < c THEN Cardinality(S) ELSE c
  BY <1>1 DEF m, Least
<1>. QED BY <1>4, <1>5, <1>6, <1>7 DEF KNearest, A

\* The nearest of the nearest are nearest.
LEMMA NearestOfNearest ==
  ASSUME NEW S, IsFiniteSet(S), NEW d, NEW k \in Nat, NEW c \in Nat, c <= k,
         NEW A, NEW B, KNearest(d, k, A, S), KNearest(d, c, B, A)
  PROVE  KNearest(d, c, B, S)
<1>1. Cardinality(S) \in Nat
  BY FS_CardinalityType
<1>2. A \subseteq S /\ B \subseteq A /\ B \subseteq S
  BY DEF KNearest
<1>3. Cardinality(A) = IF Cardinality(S) < k THEN Cardinality(S) ELSE k
  BY DEF KNearest
<1>4. Cardinality(B) = IF Cardinality(A) < c THEN Cardinality(A) ELSE c
  BY DEF KNearest
<1>5. Cardinality(B) = IF Cardinality(S) < c THEN Cardinality(S) ELSE c
  BY <1>1, <1>3, <1>4
<1>6. \A a \in B, b \in S \ B : d[a] <= d[b]
  <2>. SUFFICES ASSUME NEW a \in B, NEW b \in S \ B PROVE d[a] <= d[b]
    OBVIOUS
  <2>1. CASE b \in A
    BY <2>1 DEF KNearest
  <2>2. CASE b \notin A
    BY <2>2, <1>2 DEF KNearest
  <2>. QED BY <2>1, <2>2
<1>. QED BY <1>2, <1>5, <1>6 DEF KNearest

\* What there is room for is in.
LEMMA FillsFirst ==
  ASSUME NEW E, NEW r, NEW items \in Seq(E), NEW cands \in Seq(E), NEW max \in Nat, NEW c \in Nat,
         FillLaws(r, items, cands, max, E), Len(items) + c <= max
  PROVE  FirstOf(cands, c) \subseteq ToSet(r)
<1>. SUFFICES ASSUME NEW j \in 1..Len(cands), j <= c PROVE cands[j] \in ToSet(r)
  BY DEF FirstOf
<1>1. Len(items) + j <= max
  <2>1. Len(items) \in Nat /\ j \in Nat
    BY LenProperties
  <2>. QED BY <2>1
<1>. QED BY <1>1 DEF FillLaws

\* Keeping the elements of a set keeps the ranking.
LEMMA OnlyRanked ==
  ASSUME NEW E, NEW d, NEW S
  PROVE  \A s \in Seq(E) : IsInjective(s) =>
           /\ Only(s, S) \in Seq(E)
           /\ ToSet(Only(s, S)) = ToSet(s) \cap S
           /\ IsInjective(Only(s, S))
           /\ (\A i \in 1..Len(s), j \in 1..Len(s) : i < j => Nearer(d, s[i], s[j])) =>
                \A i \in 1..Len(Only(s, S)), j \in 1..Len(Only(s, S)) :
                  i < j => Nearer(d, Only(s, S)[i], Only(s, S)[j])
<1>. DEFINE Sorted(s) == \A i \in 1..Len(s), j \in 1..Len(s) : i < j => Nearer(d, s[i], s[j])
            G == {s \in Seq(E) : IsInjective(s) =>
                    IsInjective(Only(s, S)) /\ (Sorted(s) => Sorted(Only(s, S)))}
<1>0. \A s \in Seq(E) : Only(s, S) \in Seq(E) /\ ToSet(Only(s, S)) = ToSet(s) \cap S
  BY OnlySet
<1>. HIDE DEF Sorted
<1>1. <<>> \in G
  <2>1. Only(<<>>, S) = <<>>
    BY OnlySteps
  <2>2. IsInjective(<<>>) /\ <<>> \in Seq(E)
    BY EmptyInjective
  <2>. QED BY <2>1, <2>2
<1>2. ASSUME NEW s \in Seq(E), NEW e \in E, s \in G PROVE Append(s, e) \in G
  <2>. DEFINE u == Append(s, e)
              o == Only(s, S)
              n == Len(s)
  <2>. SUFFICES ASSUME IsInjective(u)
                PROVE  IsInjective(Only(u, S)) /\ (Sorted(u) => Sorted(Only(u, S)))
    BY AppendProperties
  <2>1. IsInjective(s) /\ e \notin ToSet(s)
    BY FrontInjective
  <2>2. /\ u \in Seq(E) /\ n \in Nat /\ Len(u) = n + 1 /\ u[n + 1] = e
        /\ \A i \in 1..n : u[i] = s[i]
    BY AppendProperties
  <2>3. Only(u, S) = IF e \in S THEN Append(o, e) ELSE o
    <3>1. \A t \in Seq(E), x \in E :
            Only(Append(t, x), S) = IF x \in S THEN Append(Only(t, S), x) ELSE Only(t, S)
      BY OnlySteps
    <3>. QED BY <3>1
  <2>4. o \in Seq(E) /\ ToSet(o) = ToSet(s) \cap S /\ IsInjective(o) /\ (Sorted(s) => Sorted(o))
    BY <1>0, <1>2, <2>1
  <2>5. Sorted(u) => Sorted(s)
    BY <2>2 DEF Sorted
  <2>6. CASE e \notin S
    BY <2>3, <2>4, <2>5, <2>6
  <2>7. CASE e \in S
    <3>1. IsInjective(Append(o, e))
      BY <2>1, <2>4, AppendSet
    <3>. DEFINE z == Append(o, e)
                m == Len(o)
    <3>2. /\ m \in Nat /\ Len(z) = m + 1 /\ z[m + 1] = e
          /\ \A i \in 1..m : z[i] = o[i]
      BY <2>4, AppendProperties
    <3>3. \A i \in 1..m : \E j \in 1..n : o[i] = s[j]
      <4>1. DOMAIN o = 1..m /\ DOMAIN s = 1..n
        BY <2>2, <2>4, LenProperties
      <4>2. \A i \in 1..m : o[i] \in ToSet(s)
        BY <2>4, <4>1 DEF ToSet
      <4>. QED BY <4>1, <4>2 DEF ToSet
    <3>. HIDE DEF z, m, u, n, o
    <3>4. ASSUME Sorted(u) PROVE Sorted(z)
      <4>. SUFFICES ASSUME NEW i \in 1..(m + 1), NEW j \in 1..(m + 1), i < j
                    PROVE  Nearer(d, z[i], z[j])
        BY <3>2 DEF Sorted
      <4>1. i \in 1..m
        BY <3>2
      <4>2. CASE j \in 1..m
        <5>1. Nearer(d, o[i], o[j])
          BY <4>1, <4>2, <2>4, <2>5, <3>4 DEF Sorted, m
        <5>. QED BY <5>1, <4>1, <4>2, <3>2
      <4>3. CASE j = m + 1
        <5>1. PICK l \in 1..n : o[i] = s[l]
          BY <3>3, <4>1
        <5>2. l \in 1..(n + 1) /\ n + 1 \in 1..(n + 1) /\ l < n + 1
          BY <2>2
        <5>3. Nearer(d, u[l], u[n + 1])
          BY <5>2, <3>4, <2>2 DEF Sorted
        <5>. QED BY <5>1, <5>3, <4>1, <4>3, <2>2, <3>2
      <4>. QED BY <4>2, <4>3, <3>2
    <3>. QED BY <3>1, <3>4, <2>3, <2>7 DEF z, u, o
  <2>. QED BY <2>6, <2>7
<1>. HIDE DEF G
<1>3. Seq(E) \subseteq G
  BY <1>1, <1>2, SeqSet
<1>. QED BY <1>0, <1>3 DEF G, Sorted

-----------------------------------------------------------------------------
(* Sums over finite sets: the library sums by an arbitrary order.          *)

\* The element a fold of the library takes next.
Taken(t) == CHOOSE x \in t : TRUE

\* A sum's partial sums, by that choice.
Summed(I, S, f) ==
  /\ I \in [SUBSET S -> Nat]
  /\ I[{}] = 0
  /\ \A t \in SUBSET S : t # {} => I[t] = f[Taken(t)] + I[t \ {Taken(t)}]

\* The same, not said to be numbers.
Sums(I, S, f) ==
  /\ I[{}] = 0
  /\ \A t \in SUBSET S : t # {} => I[t] = f[Taken(t)] + I[t \ {Taken(t)}]

\* The element taken is one of them, and one fewer are left.
LEMMA TakenIs ==
  ASSUME NEW S, IsFiniteSet(S)
  PROVE  \A t \in SUBSET S : t # {} =>
           /\ Taken(t) \in t /\ t \ {Taken(t)} \in SUBSET S
           /\ IsFiniteSet(t) /\ Cardinality(t) \in Nat \ {0}
           /\ Cardinality(t \ {Taken(t)}) = Cardinality(t) - 1
<1>. SUFFICES ASSUME NEW t \in SUBSET S, t # {}
              PROVE  /\ Taken(t) \in t /\ t \ {Taken(t)} \in SUBSET S
                     /\ IsFiniteSet(t) /\ Cardinality(t) \in Nat \ {0}
                     /\ Cardinality(t \ {Taken(t)}) = Cardinality(t) - 1
  OBVIOUS
<1>1. Taken(t) \in t
  BY DEF Taken
<1>2. IsFiniteSet(t)
  BY FS_Subset
<1>3. Cardinality(t) \in Nat /\ Cardinality(t) # 0
  BY <1>2, FS_CardinalityType, FS_EmptySet
<1>4. Cardinality(t \ {Taken(t)}) = Cardinality(t) - 1
  BY <1>1, <1>2, FS_RemoveElement
<1>. QED BY <1>1, <1>2, <1>3, <1>4

\* There are such partial sums.
LEMMA SummedExists ==
  ASSUME NEW S, IsFiniteSet(S), NEW f \in [S -> Nat]
  PROVE  \E I : Summed(I, S, f)
<1>. DEFINE P == SUBSET S
            W == [P -> Nat]
            up == [F \in W |-> [t \in P |-> IF t = {} THEN 0
                                            ELSE f[Taken(t)] + F[t \ {Taken(t)}]]]
            next == [x \in Nat \X W |-> up[x[2]]]
            first == [t \in P |-> 0]
<1>1. \A t \in P : t # {} => Taken(t) \in S /\ t \ {Taken(t)} \in P
  BY TakenIs
<1>2. \A F \in W : up[F] \in W
  BY <1>1
<1>3. next \in [Nat \X W -> W]
  BY <1>2
<1>4. \A k \in Nat, F \in W : next[<<k, F>>] = up[F]
  OBVIOUS
<1>5. first \in W
  OBVIOUS
<1>14. \A F \in W, t \in P : t # {} => up[F][t] = f[Taken(t)] + F[t \ {Taken(t)}]
  <2>. TAKE F \in W, t \in P
  <2>. HIDE DEF P, W
  <2>. QED BY DEF up
<1>15. \A F \in W : up[F][{}] = 0
  OBVIOUS
<1>16. \A F \in W, t \in P : F[t] \in Nat
  OBVIOUS
<1>. HIDE DEF W, next, up, first
<1>6. PICK G \in [Nat -> W] : G[0] = first /\ \A k \in Nat : G[k + 1] = next[<<k, G[k]>>]
  <2>1. PICK G : Recursion(G, W, first, next)
    BY <1>3, <1>5, NatRec, Zenon
  <2>. QED BY <2>1 DEF Recursion
<1>7. \A k \in Nat : G[k] \in W /\ G[k + 1] = up[G[k]]
  BY <1>4, <1>6
<1>. DEFINE C == {k \in Nat : \A t \in P : Cardinality(t) <= k => G[k + 1][t] = G[k][t]}
<1>8. 0 \in C
  <2>. SUFFICES ASSUME NEW t \in P, Cardinality(t) <= 0 PROVE G[0 + 1][t] = G[0][t]
    OBVIOUS
  <2>1. t = {}
    <3>1. t # {} => Cardinality(t) \in Nat \ {0}
      BY TakenIs
    <3>. QED BY <3>1
  <2>2. G[0 + 1] = up[G[0]] /\ G[0] \in W
    BY <1>7
  <2>3. G[0][{}] = 0 /\ up[G[0]][{}] = 0
    BY <1>6, <1>15, <2>2 DEF first
  <2>. QED BY <2>1, <2>2, <2>3
<1>9. ASSUME NEW k \in Nat, k \in C PROVE k + 1 \in C
  <2>. SUFFICES ASSUME NEW t \in P, Cardinality(t) <= k + 1 PROVE G[(k + 1) + 1][t] = G[k + 1][t]
    OBVIOUS
  <2>1. /\ G[(k + 1) + 1] = up[G[k + 1]] /\ G[k + 1] = up[G[k]]
        /\ G[k + 1] \in W /\ G[k] \in W
    <3>1. k + 1 \in Nat
      OBVIOUS
    <3>. QED BY <1>7, <3>1
  <2>2. CASE t = {}
    <3>1. up[G[k + 1]][t] = 0 /\ up[G[k]][t] = 0
      BY <2>1, <2>2, <1>15
    <3>. QED BY <2>1, <3>1
  <2>3. CASE t # {}
    <3>1. /\ t \ {Taken(t)} \in P /\ Cardinality(t) \in Nat
          /\ Cardinality(t \ {Taken(t)}) = Cardinality(t) - 1
      BY <2>3, TakenIs
    <3>2. Cardinality(t \ {Taken(t)}) <= k
      BY <3>1
    <3>3. G[k + 1][t \ {Taken(t)}] = G[k][t \ {Taken(t)}]
      BY <1>9, <3>1, <3>2
    <3>4. up[G[k + 1]][t] = f[Taken(t)] + G[k + 1][t \ {Taken(t)}]
      BY <2>1, <2>3, <1>14
    <3>5. up[G[k]][t] = f[Taken(t)] + G[k][t \ {Taken(t)}]
      BY <2>1, <2>3, <1>14
    <3>. QED BY <2>1, <3>3, <3>4, <3>5
  <2>. QED BY <2>2, <2>3
<1>. HIDE DEF C
<1>10. Nat \subseteq C
  BY <1>8, <1>9, NatSet
<1>. DEFINE n == Cardinality(S)
            I == G[n]
<1>11. n \in Nat /\ \A t \in P : Cardinality(t) <= n
  BY FS_CardinalityType, FS_Subset
<1>. HIDE DEF n
<1>12. I \in W /\ G[n + 1] = up[I]
  BY <1>7, <1>11
<1>13. \A t \in P : up[I][t] = I[t]
  <2>1. \A t \in P : G[n + 1][t] = G[n][t]
    BY <1>10, <1>11 DEF C
  <2>. QED BY <2>1, <1>12
<1>. HIDE DEF I
<1>17. I[{}] = 0
  BY <1>12, <1>13, <1>15
<1>18. \A t \in P : t # {} => I[t] = f[Taken(t)] + I[t \ {Taken(t)}]
  BY <1>12, <1>13, <1>14
<1>19. Summed(I, S, f)
  BY <1>12, <1>17, <1>18 DEF Summed, W
<1>. QED BY <1>19

\* Partial sums of the same numbers are the same.
LEMMA SummedSame ==
  ASSUME NEW S, NEW T, IsFiniteSet(S), NEW f, NEW g, NEW I, NEW J,
         Sums(I, S, f), Sums(J, T, g), S \subseteq T, \A x \in S : f[x] = g[x]
  PROVE  \A t \in SUBSET S : I[t] = J[t]
<1>. DEFINE C == {k \in Nat : \A t \in SUBSET S : Cardinality(t) <= k => I[t] = J[t]}
<1>1. 0 \in C
  <2>. SUFFICES ASSUME NEW t \in SUBSET S, Cardinality(t) <= 0 PROVE I[t] = J[t]
    OBVIOUS
  <2>1. t = {}
    <3>1. t # {} => Cardinality(t) \in Nat \ {0}
      BY TakenIs
    <3>. QED BY <3>1
  <2>. QED BY <2>1 DEF Sums
<1>2. ASSUME NEW k \in Nat, k \in C PROVE k + 1 \in C
  <2>. SUFFICES ASSUME NEW t \in SUBSET S, Cardinality(t) <= k + 1 PROVE I[t] = J[t]
    OBVIOUS
  <2>1. CASE t = {}
    BY <2>1 DEF Sums
  <2>2. CASE t # {}
    <3>1. /\ t \ {Taken(t)} \in SUBSET S /\ Cardinality(t) \in Nat /\ Taken(t) \in S
          /\ Cardinality(t \ {Taken(t)}) = Cardinality(t) - 1
      BY <2>2, TakenIs
    <3>2. Cardinality(t \ {Taken(t)}) <= k
      BY <3>1
    <3>3. I[t \ {Taken(t)}] = J[t \ {Taken(t)}]
      BY <1>2, <3>1, <3>2
    <3>4. I[t] = f[Taken(t)] + I[t \ {Taken(t)}] /\ J[t] = g[Taken(t)] + J[t \ {Taken(t)}]
      BY <2>2 DEF Sums
    <3>. QED BY <3>1, <3>3, <3>4
  <2>. QED BY <2>1, <2>2
<1>. HIDE DEF C
<1>3. Nat \subseteq C
  BY <1>1, <1>2, NatSet
<1>4. \A t \in SUBSET S : Cardinality(t) \in Nat
  BY FS_Subset, FS_CardinalityType
<1>. QED BY <1>3, <1>4 DEF C

\* It does not matter which element is taken.
LEMMA SummedAny ==
  ASSUME NEW S, IsFiniteSet(S), NEW f \in [S -> Nat], NEW I, Summed(I, S, f)
  PROVE  \A t \in SUBSET S, v \in S : v \in t => I[t] = f[v] + I[t \ {v}]
<1>. DEFINE C == {k \in Nat : \A t \in SUBSET S, v \in S :
                    v \in t /\ Cardinality(t) <= k => I[t] = f[v] + I[t \ {v}]}
<1>1. 0 \in C
  <2>1. \A t \in SUBSET S : t # {} => Cardinality(t) \in Nat \ {0}
    BY TakenIs
  <2>. QED BY <2>1
<1>2. ASSUME NEW k \in Nat, k \in C PROVE k + 1 \in C
  <2>. SUFFICES ASSUME NEW t \in SUBSET S, NEW v \in S, v \in t, Cardinality(t) <= k + 1
                PROVE  I[t] = f[v] + I[t \ {v}]
    OBVIOUS
  <2>. DEFINE c == Taken(t)
  <2>1. /\ c \in t /\ t \ {c} \in SUBSET S /\ Cardinality(t) \in Nat /\ IsFiniteSet(t)
        /\ Cardinality(t \ {c}) = Cardinality(t) - 1
    BY TakenIs
  <2>2. I[t] = f[c] + I[t \ {c}]
    BY DEF Summed
  <2>. HIDE DEF c
  <2>3. CASE v = Taken(t)
    <3>1. t # {} /\ t \in SUBSET S
      OBVIOUS
    <3>. QED BY <2>3, <3>1 DEF Summed
  <2>4. CASE v # c
    <3>1. Cardinality(t \ {v}) = Cardinality(t) - 1
      BY <2>1, FS_RemoveElement
    <3>2. /\ v \in t \ {c} /\ c \in t \ {v} /\ c \in S /\ t \ {v} \in SUBSET S
          /\ Cardinality(t \ {c}) <= k /\ Cardinality(t \ {v}) <= k
      BY <2>1, <2>4, <3>1
    <3>3. I[t \ {c}] = f[v] + I[(t \ {c}) \ {v}]
      BY <1>2, <2>1, <3>2
    <3>4. I[t \ {v}] = f[c] + I[(t \ {v}) \ {c}]
      BY <1>2, <3>2
    <3>5. (t \ {c}) \ {v} = (t \ {v}) \ {c} /\ (t \ {c}) \ {v} \in SUBSET S
      OBVIOUS
    <3>6. I[(t \ {c}) \ {v}] \in Nat /\ f[c] \in Nat /\ f[v] \in Nat
      BY <3>2, <3>5 DEF Summed
    <3>. DEFINE y == I[(t \ {c}) \ {v}]
    <3>7. y \in Nat /\ f[c] \in Nat /\ f[v] \in Nat
      BY <3>6
    <3>8. I[t \ {c}] = f[v] + y /\ I[t \ {v}] = f[c] + y
      BY <3>3, <3>4, <3>5
    <3>. HIDE DEF y
    <3>9. f[c] + (f[v] + y) = f[v] + (f[c] + y)
      BY <3>7
    <3>. QED BY <2>2, <3>8, <3>9
  <2>. QED BY <2>3, <2>4 DEF c
<1>. HIDE DEF C
<1>3. Nat \subseteq C
  BY <1>1, <1>2, NatSet
<1>4. \A t \in SUBSET S : Cardinality(t) \in Nat
  BY FS_Subset, FS_CardinalityType
<1>. QED BY <1>3, <1>4 DEF C

\* The sum of f over a set.
SumOver(f, S) == (CHOOSE I : Summed(I, S, f))[S]

\* What a sum over a finite set is.
SumLaws(f, S) ==
  /\ SumOver(f, S) \in Nat
  /\ \A v \in S : SumOver(f, S) = f[v] + SumOver(f, S \ {v})

\* A sum is one of its elements and the sum of the others.
LEMMA SumIs ==
  ASSUME NEW S, IsFiniteSet(S), NEW f, \A x \in S : f[x] \in Nat
  PROVE  SumLaws(f, S) /\ SumOver(f, {}) = 0
<1>. DEFINE h(T) == [x \in T |-> f[x]]
<1>1. \A T \in SUBSET S : \E I : Summed(I, T, f)
  <2>. SUFFICES ASSUME NEW T \in SUBSET S PROVE \E I : Summed(I, T, f)
    OBVIOUS
  <2>1. h(T) \in [T -> Nat] /\ IsFiniteSet(T)
    BY FS_Subset
  <2>2. \A x \in T : h(T)[x] = f[x]
    OBVIOUS
  <2>. HIDE DEF h
  <2>3. PICK I : Summed(I, T, h(T))
    BY <2>1, SummedExists
  <2>4. \A t \in SUBSET T : t # {} => Taken(t) \in T
    BY <2>1, TakenIs
  <2>5. Summed(I, T, f)
    BY <2>2, <2>3, <2>4 DEF Summed
  <2>. QED BY <2>5
<1>. DEFINE iter(T) == CHOOSE I : Summed(I, T, f)
<1>2. \A T \in SUBSET S : Summed(iter(T), T, f)
  BY <1>1
<1>3. \A T : SumOver(f, T) = iter(T)[T]
  BY DEF SumOver
<1>. HIDE DEF iter
<1>4. SumOver(f, S) \in Nat
  <2>1. Summed(iter(S), S, f)
    BY <1>2
  <2>2. SumOver(f, S) = iter(S)[S]
    BY <1>3
  <2>3. iter(S)[S] \in Nat
    BY <2>1 DEF Summed
  <2>. QED BY <2>2, <2>3
<1>5. ASSUME NEW v \in S PROVE SumOver(f, S) = f[v] + SumOver(f, S \ {v})
  <2>1. \E I : I = iter(S)
    OBVIOUS
  <2>. DEFINE T == S \ {v}
              A == iter(S)
              B == iter(T)
              k == h(S)
  <2>2. T \in SUBSET S /\ IsFiniteSet(T)
    BY FS_Subset
  <2>3. Summed(A, S, f) /\ Summed(B, T, f)
    BY <1>2, <2>2
  <2>4. k \in [S -> Nat] /\ \A x \in S : k[x] = f[x]
    OBVIOUS
  <2>. HIDE DEF A, B, T, k, h
  <2>5. \A t \in SUBSET S : t # {} => Taken(t) \in S
    BY TakenIs
  <2>6. Summed(A, S, k)
    BY <2>3, <2>4, <2>5 DEF Summed
  <2>7. A[S] = k[v] + A[S \ {v}]
    BY <2>4, <2>6, SummedAny
  <2>8. \A t \in SUBSET T : B[t] = A[t]
    <3>1. Sums(A, S, f) /\ Sums(B, T, f)
      BY <2>3 DEF Summed, Sums
    <3>2. T \subseteq S /\ \A x \in T : f[x] = f[x]
      BY <2>2
    <3>. QED BY <2>2, <3>1, <3>2, SummedSame
  <2>. QED BY <1>3, <2>4, <2>7, <2>8 DEF A, B, T
<1>6. SumOver(f, {}) = 0
  BY <1>2, <1>3 DEF Summed
<1>. QED BY <1>4, <1>5, <1>6 DEF SumLaws

\* Partial sums found otherwise end in the same sum.
LEMMA SummedSum ==
  ASSUME NEW S, IsFiniteSet(S), NEW f, \A x \in S : f[x] \in Nat, NEW I, Sums(I, S, f)
  PROVE  I[S] = SumOver(f, S)
<1>. DEFINE A == CHOOSE J : Summed(J, S, f)
<1>1. Summed(A, S, f)
  <2>. DEFINE h == [x \in S |-> f[x]]
  <2>1. h \in [S -> Nat] /\ \A x \in S : h[x] = f[x]
    OBVIOUS
  <2>. HIDE DEF h
  <2>2. PICK J : Summed(J, S, h)
    BY <2>1, SummedExists
  <2>3. \A t \in SUBSET S : t # {} => Taken(t) \in S
    BY TakenIs
  <2>4. Summed(J, S, f)
    BY <2>1, <2>2, <2>3 DEF Summed
  <2>. QED BY <2>4
<1>2. SumOver(f, S) = A[S]
  BY DEF SumOver
<1>. HIDE DEF A
<1>3. \A t \in SUBSET S : I[t] = A[t]
  <2>1. Sums(A, S, f)
    BY <1>1 DEF Summed, Sums
  <2>2. \A x \in S : f[x] = f[x]
    OBVIOUS
  <2>. QED BY <2>1, <2>2, SummedSame
<1>. QED BY <1>2, <1>3

-----------------------------------------------------------------------------
(* Sums of numbers, and of similarities.                                   *)

\* The same numbers have the same sum.
LEMMA SumSame ==
  ASSUME NEW S, IsFiniteSet(S), NEW f, NEW g, \A x \in S : f[x] \in Nat /\ g[x] = f[x]
  PROVE  SumOver(g, S) = SumOver(f, S)
<1>. DEFINE h == [x \in S |-> f[x]]
<1>1. h \in [S -> Nat] /\ \A x \in S : h[x] = f[x] /\ h[x] = g[x]
  OBVIOUS
<1>. HIDE DEF h
<1>2. PICK I : Summed(I, S, h)
  BY <1>1, SummedExists
<1>3. \A t \in SUBSET S : t # {} => Taken(t) \in S
  BY TakenIs
<1>4. Summed(I, S, f) /\ Summed(I, S, g)
  BY <1>1, <1>2, <1>3 DEF Summed
<1>5. I[S] = SumOver(f, S) /\ I[S] = SumOver(g, S)
  BY <1>1, <1>4, SummedSum DEF Summed, Sums
<1>. QED BY <1>5

\* One number more.
LEMMA SumAdd ==
  ASSUME NEW S, IsFiniteSet(S), NEW v, v \notin S, NEW f, \A x \in S \cup {v} : f[x] \in Nat
  PROVE  SumOver(f, S \cup {v}) = SumOver(f, S) + f[v]
<1>1. IsFiniteSet(S \cup {v}) /\ (S \cup {v}) \ {v} = S
  BY FS_AddElement
<1>2. SumLaws(f, S \cup {v}) /\ SumLaws(f, S)
  BY <1>1, SumIs
<1>3. SumOver(f, S \cup {v}) = f[v] + SumOver(f, S)
  BY <1>1, <1>2 DEF SumLaws
<1>4. SumOver(f, S) \in Nat /\ f[v] \in Nat
  BY <1>2 DEF SumLaws
<1>. QED BY <1>3, <1>4

\* One number changed.
LEMMA SumChange ==
  ASSUME NEW S, IsFiniteSet(S), NEW f, NEW g, NEW v \in S, \A x \in S : f[x] \in Nat /\ g[x] \in Nat,
         \A x \in S : x # v => g[x] = f[x]
  PROVE  SumOver(g, S) - g[v] = SumOver(f, S) - f[v]
<1>1. IsFiniteSet(S \ {v}) /\ \A x \in S \ {v} : f[x] \in Nat /\ g[x] = f[x]
  BY FS_RemoveElement
<1>2. SumOver(g, S \ {v}) = SumOver(f, S \ {v})
  BY <1>1, SumSame
<1>3. SumLaws(f, S) /\ SumLaws(g, S) /\ SumLaws(f, S \ {v})
  BY <1>1, SumIs
<1>4. SumOver(f, S) = f[v] + SumOver(f, S \ {v}) /\ SumOver(g, S) = g[v] + SumOver(g, S \ {v})
  BY <1>3 DEF SumLaws
<1>5. SumOver(f, S \ {v}) \in Nat /\ f[v] \in Nat /\ g[v] \in Nat
  BY <1>3 DEF SumLaws
<1>. QED BY <1>2, <1>4, <1>5

\* Shares of a whole, taken together.
LEMMA SumScaled ==
  ASSUME NEW S, IsFiniteSet(S), NEW f, NEW g, NEW a \in Nat, NEW b \in Nat,
         \A x \in S : f[x] \in Nat /\ g[x] \in Nat /\ a * g[x] <= b * f[x]
  PROVE  a * SumOver(g, S) <= b * SumOver(f, S)
<1>. DEFINE C == {k \in Nat : \A t \in SUBSET S :
                    Cardinality(t) <= k => a * SumOver(g, t) <= b * SumOver(f, t)}
<1>0. \A t \in SUBSET S : IsFiniteSet(t) /\ Cardinality(t) \in Nat
  BY FS_Subset, FS_CardinalityType
<1>1. 0 \in C
  <2>. SUFFICES ASSUME NEW t \in SUBSET S, Cardinality(t) <= 0
                PROVE  a * SumOver(g, t) <= b * SumOver(f, t)
    OBVIOUS
  <2>1. t = {}
    BY <1>0, FS_EmptySet
  <2>2. SumOver(g, {}) = 0 /\ SumOver(f, {}) = 0
    BY SumIs
  <2>. QED BY <2>1, <2>2
<1>2. ASSUME NEW k \in Nat, k \in C PROVE k + 1 \in C
  <2>. SUFFICES ASSUME NEW t \in SUBSET S, Cardinality(t) <= k + 1
                PROVE  a * SumOver(g, t) <= b * SumOver(f, t)
    OBVIOUS
  <2>1. CASE t = {}
    BY <2>1, <1>1, FS_EmptySet
  <2>2. CASE t # {}
    <3>1. PICK v \in t : TRUE
      BY <2>2
    <3>. DEFINE F == SumOver(f, t \ {v})
                G == SumOver(g, t \ {v})
    <3>2. /\ IsFiniteSet(t \ {v}) /\ t \ {v} \in SUBSET S
          /\ Cardinality(t \ {v}) = Cardinality(t) - 1
      BY <1>0, FS_RemoveElement
    <3>3. Cardinality(t \ {v}) <= k
      BY <1>0, <3>2
    <3>4. a * G <= b * F
      BY <1>2, <3>2, <3>3
    <3>5. SumLaws(f, t) /\ SumLaws(g, t) /\ SumLaws(f, t \ {v}) /\ SumLaws(g, t \ {v})
      BY <1>0, <3>2, SumIs
    <3>6. SumOver(f, t) = f[v] + F /\ SumOver(g, t) = g[v] + G /\ F \in Nat /\ G \in Nat
      BY <3>5 DEF SumLaws
    <3>7. f[v] \in Nat /\ g[v] \in Nat /\ a * g[v] <= b * f[v]
      OBVIOUS
    <3>. HIDE DEF F, G
    <3>8. \A x \in Nat, y \in Nat : a * (x + y) = a * x + a * y /\ b * (x + y) = b * x + b * y
      OBVIOUS
    <3>9. a * (g[v] + G) = a * g[v] + a * G /\ b * (f[v] + F) = b * f[v] + b * F
      BY <3>6, <3>7, <3>8
    <3>10. \A x \in Nat : a * x \in Nat /\ b * x \in Nat
      OBVIOUS
    <3>11. a * g[v] + a * G <= b * f[v] + b * F
      BY <3>4, <3>6, <3>7, <3>10
    <3>. QED BY <3>6, <3>9, <3>11
  <2>. QED BY <2>1, <2>2
<1>. HIDE DEF C
<1>3. Nat \subseteq C
  BY <1>1, <1>2, NatSet
<1>. QED BY <1>0, <1>3 DEF C

\* The similarity of each, and of all of a set.
Similarities(d, X) == [v \in X |-> Similarity(d, v)]

SimilaritySum(d, S) == MapThenSumSet(LAMBDA v : Similarity(d, v), S)

\* How similar the seeds are together.
LEMMA SimilarIs ==
  ASSUME NEW X, NEW d \in [X -> Nat], NEW S \in SUBSET X, IsFiniteSet(S)
  PROVE  SimilaritySum(d, S) = SumOver(Similarities(d, X), S)
         /\ \A v \in X : Similarity(d, v) \in Nat /\ Similarities(d, X)[v] = Similarity(d, v)
<1>. DEFINE f == Similarities(d, X)
            P(I) == I = [t \in SUBSET S |-> IF t = {} THEN 0
                           ELSE LET x == Taken(t) IN Similarity(d, x) + I[t \ {x}]]
            iter == CHOOSE I : P(I)
<1>1. \A v \in X : Similarity(d, v) \in Nat /\ f[v] = Similarity(d, v)
  <2>. SUFFICES ASSUME NEW v \in X PROVE Similarity(d, v) \in Nat
    BY DEF Similarities
  <2>1. d[v] \in Nat /\ Mass \in Nat
    BY PushAssumption
  <2>. QED BY <2>1 DEF Similarity
<1>. HIDE DEF f
<1>2. \A t \in SUBSET S : t # {} => Taken(t) \in S /\ Taken(t) \in X /\ t \ {Taken(t)} \in SUBSET S
  BY TakenIs
<1>. DEFINE h == [x \in S |-> f[x]]
<1>3. h \in [S -> Nat] /\ \A x \in S : h[x] = f[x]
  BY <1>1
<1>. HIDE DEF h
<1>4. PICK I : Summed(I, S, h)
  BY <1>3, SummedExists
<1>5. P(I)
  BY <1>1, <1>2, <1>3, <1>4 DEF Summed
<1>6. P(iter)
  <2>. HIDE DEF P
  <2>. QED BY <1>5
<1>7. SimilaritySum(d, S) = iter[S]
  BY DEF SimilaritySum, MapThenSumSet, MapThenFoldSet, Taken
<1>. HIDE DEF iter
<1>8. Sums(iter, S, f)
  BY <1>1, <1>2, <1>6 DEF Sums
<1>9. \A x \in S : f[x] \in Nat
  BY <1>1
<1>10. iter[S] = SumOver(f, S)
  BY <1>8, <1>9, SummedSum
<1>. QED BY <1>1, <1>7, <1>10 DEF f

-----------------------------------------------------------------------------
(* Touching vertices: the mass they are given.                             *)

\* The states of the push over the reach.
PushStates == [reach : SUBSET Vertices, residue : [Vertices -> Nat], reserve : [Vertices -> Nat],
               queue : Seq(Queued), left : Nat, used : Nat, censored : BOOLEAN]

\* The mass at each vertex, and all of it.
MassAt(p) == [v \in Vertices |-> p.reserve[v] + p.residue[v]]
MassOf(p) == SumOver(MassAt(p), Vertices)

\* What touching the vertices of S does to a push.
TouchedLaws(r, p, S, depth) ==
  /\ r \in PushStates
  /\ r.reach = p.reach \cup S
  /\ r.reserve = p.reserve /\ r.left = p.left /\ r.used = p.used /\ r.censored = p.censored
  /\ \A v \in Vertices \ S : r.residue[v] = p.residue[v]
  /\ \A x \in ToSet(r.queue) : x \in ToSet(p.queue) \/ (x.vid \in S /\ x.depth = depth)

\* The push with its parts named.
LEMMA PushParts ==
  ASSUME NEW p \in PushStates
  PROVE  /\ p.reach \in SUBSET Vertices /\ p.residue \in [Vertices -> Nat] /\ p.reserve \in [Vertices -> Nat]
         /\ p.queue \in Seq(Queued) /\ p.left \in Nat /\ p.used \in Nat /\ p.censored \in BOOLEAN
BY DEF PushStates

\* All of the mass is a number, and grows where the mass at one vertex does.
LEMMA MassChange ==
  ASSUME NEW p \in PushStates, NEW r \in PushStates, NEW v \in Vertices,
         \A u \in Vertices : u # v => MassAt(r)[u] = MassAt(p)[u]
  PROVE  /\ MassOf(p) \in Nat /\ MassOf(r) \in Nat /\ MassAt(p)[v] \in Nat /\ MassAt(r)[v] \in Nat
         /\ MassOf(r) - MassAt(r)[v] = MassOf(p) - MassAt(p)[v]
<1>1. \A u \in Vertices : MassAt(p)[u] \in Nat /\ MassAt(r)[u] \in Nat
  <2>. SUFFICES ASSUME NEW u \in Vertices PROVE MassAt(p)[u] \in Nat /\ MassAt(r)[u] \in Nat
    OBVIOUS
  <2>1. p.reserve[u] \in Nat /\ p.residue[u] \in Nat /\ r.reserve[u] \in Nat /\ r.residue[u] \in Nat
    BY PushParts
  <2>. QED BY <2>1 DEF MassAt
<1>2. IsFiniteSet(Vertices)
  BY VerticesAssumption
<1>3. SumLaws(MassAt(p), Vertices) /\ SumLaws(MassAt(r), Vertices)
  BY <1>1, <1>2, SumIs
<1>4. MassOf(r) - MassAt(r)[v] = MassOf(p) - MassAt(p)[v]
  BY <1>1, <1>2, SumChange DEF MassOf
<1>. QED BY <1>1, <1>3, <1>4 DEF MassOf, SumLaws

\* Touching one vertex (the forward push).
LEMMA TouchOne ==
  ASSUME NEW p \in PushStates, NEW v \in Vertices, NEW mass \in Nat, NEW depth \in Nat
  PROVE  /\ TouchedLaws(Touched(p, v, mass, depth), p, {v}, depth)
         /\ MassOf(Touched(p, v, mass, depth)) = MassOf(p) + mass
<1>. DEFINE r == Touched(p, v, mass, depth)
            t == [p EXCEPT !.reach = @ \cup {v}, !.residue[v] = @ + mass]
            item == [vid |-> v, depth |-> depth]
<1>1. /\ p.reach \in SUBSET Vertices /\ p.residue \in [Vertices -> Nat] /\ p.reserve \in [Vertices -> Nat]
      /\ p.queue \in Seq(Queued) /\ p.left \in Nat /\ p.used \in Nat /\ p.censored \in BOOLEAN
  BY PushParts
<1>2. /\ t \in PushStates /\ t.reach = p.reach \cup {v} /\ t.reserve = p.reserve /\ t.left = p.left
      /\ t.used = p.used /\ t.censored = p.censored /\ t.queue = p.queue
      /\ t.residue = [p.residue EXCEPT ![v] = @ + mass]
  <2>. DEFINE more == [p.residue EXCEPT ![v] = @ + mass]
              wider == p.reach \cup {v}
  <2>1. more \in [Vertices -> Nat] /\ wider \in SUBSET Vertices
    BY <1>1
  <2>2. t = [p EXCEPT !.reach = wider, !.residue = more]
    OBVIOUS
  <2>. HIDE DEF t, more, wider
  <2>3. t \in PushStates
    BY <2>1, <2>2 DEF PushStates
  <2>4. /\ t.reach = wider /\ t.residue = more /\ t.reserve = p.reserve /\ t.left = p.left
        /\ t.used = p.used /\ t.censored = p.censored /\ t.queue = p.queue
    BY <2>2 DEF PushStates
  <2>. QED BY <2>3, <2>4 DEF more, wider
<1>3. r = IF t.residue[v] < Rmax THEN t ELSE [t EXCEPT !.queue = Append(@, item)]
  BY DEF Touched, Enqueued
<1>. HIDE DEF t
<1>4. item \in Queued /\ Append(p.queue, item) \in Seq(Queued)
  BY <1>1, AppendProperties DEF Queued
<1>5. /\ r \in PushStates /\ r.reach = t.reach /\ r.reserve = t.reserve /\ r.left = t.left
      /\ r.used = t.used /\ r.censored = t.censored /\ r.residue = t.residue
      /\ (r.queue = p.queue \/ r.queue = Append(p.queue, item))
  <2>. DEFINE longer == Append(p.queue, item)
  <2>. HIDE DEF r, item
  <2>1. CASE t.residue[v] < Rmax
    BY <2>1, <1>2, <1>3
  <2>2. CASE ~(t.residue[v] < Rmax)
    <3>1. r = [t EXCEPT !.queue = longer] /\ longer \in Seq(Queued) /\ t \in PushStates
      BY <2>2, <1>2, <1>3, <1>4
    <3>. HIDE DEF longer
    <3>2. r \in PushStates
      BY <3>1 DEF PushStates
    <3>3. /\ r.reach = t.reach /\ r.reserve = t.reserve /\ r.left = t.left
          /\ r.used = t.used /\ r.censored = t.censored /\ r.residue = t.residue /\ r.queue = longer
      BY <3>1 DEF PushStates
    <3>. QED BY <3>2, <3>3 DEF longer
  <2>. QED BY <2>1, <2>2
<1>6. \A x \in ToSet(r.queue) : x \in ToSet(p.queue) \/ x = item
  <2>1. ToSet(Append(p.queue, item)) = ToSet(p.queue) \cup {item}
    BY <1>1, <1>4, AppendSet
  <2>. QED BY <1>5, <2>1
<1>. HIDE DEF r
<1>7. \A u \in Vertices \ {v} : r.residue[u] = p.residue[u]
  BY <1>1, <1>2, <1>5
<1>8. r.residue[v] = p.residue[v] + mass /\ p.residue[v] \in Nat
  BY <1>1, <1>2, <1>5
<1>9. TouchedLaws(r, p, {v}, depth)
  BY <1>2, <1>5, <1>6, <1>7 DEF TouchedLaws
<1>10. MassOf(r) = MassOf(p) + mass
  <2>1. \A u \in Vertices : u # v => MassAt(r)[u] = MassAt(p)[u]
    BY <1>2, <1>5, <1>7 DEF MassAt
  <2>2. MassAt(r)[v] = MassAt(p)[v] + mass
    <3>1. r.reserve[v] = p.reserve[v] /\ p.reserve[v] \in Nat
      BY <1>1, <1>2, <1>5
    <3>2. p.reserve[v] + (p.residue[v] + mass) = (p.reserve[v] + p.residue[v]) + mass
      BY <3>1, <1>8
    <3>. QED BY <3>1, <3>2, <1>8 DEF MassAt
  <2>3. /\ MassOf(p) \in Nat /\ MassOf(r) \in Nat /\ MassAt(p)[v] \in Nat /\ MassAt(r)[v] \in Nat
        /\ MassOf(r) - MassAt(r)[v] = MassOf(p) - MassAt(p)[v]
    BY <1>5, <2>1, MassChange
  <2>. QED BY <2>2, <2>3
<1>. QED BY <1>9, <1>10 DEF r

\* Touching, one element of E after another.
TouchOp(E, vert, mass, depth) ==
  [x \in PushStates \X E |-> Touched(x[1], vert[x[2]], mass[x[2]], depth)]

\* That function does it.
TouchOpOk(E, vert, mass, depth) ==
  /\ TouchOp(E, vert, mass, depth) \in [PushStates \X E -> PushStates]
  /\ \A p \in PushStates, e \in E :
       TouchOp(E, vert, mass, depth)[<<p, e>>] = Touched(p, vert[e], mass[e], depth)

\* That function is of its type.
LEMMA TouchOpType ==
  ASSUME NEW E, NEW vert \in [E -> Vertices], NEW mass \in [E -> Nat], NEW depth \in Nat
  PROVE  TouchOpOk(E, vert, mass, depth)
<1>1. \A p \in PushStates, e \in E : Touched(p, vert[e], mass[e], depth) \in PushStates
  <2>. SUFFICES ASSUME NEW p \in PushStates, NEW e \in E
                PROVE  Touched(p, vert[e], mass[e], depth) \in PushStates
    OBVIOUS
  <2>1. vert[e] \in Vertices /\ mass[e] \in Nat
    OBVIOUS
  <2>2. TouchedLaws(Touched(p, vert[e], mass[e], depth), p, {vert[e]}, depth)
    BY <2>1, TouchOne
  <2>. QED BY <2>2 DEF TouchedLaws
<1>2. TouchOp(E, vert, mass, depth) \in [PushStates \X E -> PushStates]
  BY <1>1 DEF TouchOp
<1>3. \A p \in PushStates, e \in E :
        TouchOp(E, vert, mass, depth)[<<p, e>>] = Touched(p, vert[e], mass[e], depth)
  BY DEF TouchOp
<1>. QED BY <1>2, <1>3 DEF TouchOpOk

\* Touching one after another; the vertices touched; what that does.
TouchAll(E, vert, mass, depth, p, s) == Folded(PushStates, p, TouchOp(E, vert, mass, depth), s)

VertsOf(vert, s) == {vert[e] : e \in ToSet(s)}

TouchSum(r, p, mass, s) ==
  /\ \A m \in Nat : (\A e \in ToSet(s) : mass[e] <= m) => MassOf(r) <= MassOf(p) + Len(s) * m
  /\ IsInjective(s) => IsFiniteSet(ToSet(s)) /\ MassOf(r) = MassOf(p) + SumOver(mass, ToSet(s))

\* The laws of touching, one after another.
LEMMA TouchTwice ==
  ASSUME NEW r, NEW q, NEW p, NEW S, NEW T, NEW depth,
         TouchedLaws(q, p, S, depth), TouchedLaws(r, q, T, depth)
  PROVE  TouchedLaws(r, p, S \cup T, depth)
<1>1. r \in PushStates
  BY DEF TouchedLaws
<1>2. r.reach = p.reach \cup (S \cup T)
  BY DEF TouchedLaws
<1>3. r.reserve = p.reserve /\ r.left = p.left /\ r.used = p.used /\ r.censored = p.censored
  BY DEF TouchedLaws
<1>4. \A v \in Vertices \ (S \cup T) : r.residue[v] = p.residue[v]
  BY DEF TouchedLaws
<1>5. \A x \in ToSet(r.queue) : x \in ToSet(p.queue) \/ (x.vid \in S \cup T /\ x.depth = depth)
  BY DEF TouchedLaws
<1>. QED BY <1>1, <1>2, <1>3, <1>4, <1>5 DEF TouchedLaws

\* Touching a list.
LEMMA TouchList ==
  ASSUME NEW E, NEW vert \in [E -> Vertices], NEW mass \in [E -> Nat], NEW depth \in Nat,
         NEW p \in PushStates
  PROVE  \A s \in Seq(E) :
           /\ TouchedLaws(TouchAll(E, vert, mass, depth, p, s), p, VertsOf(vert, s), depth)
           /\ TouchSum(TouchAll(E, vert, mass, depth, p, s), p, mass, s)
<1>. DEFINE o == TouchOp(E, vert, mass, depth)
            F(s) == TouchAll(E, vert, mass, depth, p, s)
            G == {s \in Seq(E) : TouchedLaws(F(s), p, VertsOf(vert, s), depth) /\ TouchSum(F(s), p, mass, s)}
<1>a. TouchOpOk(E, vert, mass, depth)
  BY TouchOpType
<1>0. o \in [PushStates \X E -> PushStates]
  BY <1>a DEF TouchOpOk
<1>b. \A q \in PushStates, e \in E : o[<<q, e>>] = Touched(q, vert[e], mass[e], depth)
  BY <1>a, Zenon DEF TouchOpOk
<1>. HIDE DEF o
<1>1. \A s \in Seq(E) : FoldLaws(PushStates, E, p, o, s)
  BY <1>0, FoldedSteps
<1>2. \A s \in Seq(E) : F(s) = Folded(PushStates, p, o, s)
  BY DEF TouchAll, o
<1>. HIDE DEF F
<1>3. <<>> \in Seq(E) /\ \A s \in Seq(E), e \in E : Append(s, e) \in Seq(E)
  OBVIOUS
<1>4. F(<<>>) = p
  BY <1>1, <1>2, <1>3 DEF FoldLaws
<1>5. \A s \in Seq(E), e \in E : F(s) \in PushStates /\ F(Append(s, e)) = Touched(F(s), vert[e], mass[e], depth)
  <2>. TAKE s \in Seq(E), e \in E
  <2>1. /\ F(s) \in PushStates
        /\ Folded(PushStates, p, o, Append(s, e)) = o[<<Folded(PushStates, p, o, s), e>>]
    BY <1>1, <1>2 DEF FoldLaws
  <2>2. F(Append(s, e)) = o[<<F(s), e>>]
    BY <1>2, <1>3, <2>1
  <2>. QED BY <2>1, <2>2, <1>b
<1>6. MassOf(p) \in Nat
  <2>1. IsFiniteSet(Vertices) /\ \A v \in Vertices : MassAt(p)[v] \in Nat
    BY VerticesAssumption, PushParts DEF MassAt
  <2>2. SumLaws(MassAt(p), Vertices)
    BY <2>1, SumIs
  <2>. QED BY <2>2 DEF SumLaws, MassOf
<1>7. <<>> \in G
  <2>1. ToSet(<<>>) = {} /\ VertsOf(vert, <<>>) = {} /\ Len(<<>>) = 0
    BY EmptySet DEF VertsOf
  <2>2. TouchedLaws(p, p, {}, depth)
    BY DEF TouchedLaws
  <2>3. SumOver(mass, {}) = 0 /\ IsFiniteSet({})
    BY SumIs, FS_EmptySet
  <2>4. TouchSum(p, p, mass, <<>>)
    <3>1. \A m \in Nat : MassOf(p) <= MassOf(p) + 0 * m
      BY <1>6
    <3>2. MassOf(p) = MassOf(p) + 0
      BY <1>6
    <3>. QED BY <2>1, <2>3, <3>1, <3>2 DEF TouchSum
  <2>. QED BY <1>3, <1>4, <2>1, <2>2, <2>4
<1>8. ASSUME NEW s \in Seq(E), NEW e \in E, s \in G PROVE Append(s, e) \in G
  <2>. DEFINE q == F(s)
              r == F(Append(s, e))
              u == Append(s, e)
  <2>1. TouchedLaws(q, p, VertsOf(vert, s), depth) /\ TouchSum(q, p, mass, s)
    BY <1>8
  <2>2. vert[e] \in Vertices /\ mass[e] \in Nat /\ q \in PushStates /\ r = Touched(q, vert[e], mass[e], depth)
    BY <1>5
  <2>3. u \in Seq(E) /\ Len(u) = Len(s) + 1 /\ Len(s) \in Nat /\ ToSet(u) = ToSet(s) \cup {e}
    BY AppendProperties, AppendSet
  <2>. HIDE DEF q, r
  <2>4. TouchedLaws(r, q, {vert[e]}, depth) /\ MassOf(r) = MassOf(q) + mass[e]
    BY <2>2, TouchOne
  <2>5. TouchedLaws(r, p, VertsOf(vert, u), depth)
    <3>1. VertsOf(vert, u) = VertsOf(vert, s) \cup {vert[e]}
      BY <2>3 DEF VertsOf
    <3>2. TouchedLaws(r, p, VertsOf(vert, s) \cup {vert[e]}, depth)
      BY <2>1, <2>4, TouchTwice
    <3>. QED BY <3>1, <3>2
  <2>6. MassOf(q) \in Nat
    <3>1. IsFiniteSet(Vertices) /\ \A v \in Vertices : MassAt(q)[v] \in Nat
      BY <2>2, VerticesAssumption, PushParts DEF MassAt
    <3>2. SumLaws(MassAt(q), Vertices)
      BY <3>1, SumIs
    <3>. QED BY <3>2 DEF SumLaws, MassOf
  <2>7. ASSUME NEW m \in Nat, \A x \in ToSet(u) : mass[x] <= m
        PROVE  MassOf(r) <= MassOf(p) + Len(u) * m
    <3>1. MassOf(q) <= MassOf(p) + Len(s) * m /\ mass[e] <= m
      BY <2>1, <2>3, <2>7 DEF TouchSum
    <3>. DEFINE l == Len(s)
    <3>2. (l + 1) * m = l * m + m /\ l * m \in Nat
      BY <2>3
    <3>3. Len(u) * m = (l + 1) * m
      BY <2>3
    <3>4. MassOf(q) <= MassOf(p) + l * m
      BY <3>1
    <3>. DEFINE lm == l * m
    <3>. HIDE DEF l, lm
    <3>5. MassOf(q) + mass[e] <= MassOf(p) + (lm + m)
      BY <3>1, <3>2, <3>4, <1>6, <2>2, <2>6 DEF lm
    <3>. QED BY <3>2, <3>3, <3>5, <2>4 DEF lm
  <2>8. ASSUME IsInjective(u)
        PROVE  IsFiniteSet(ToSet(u)) /\ MassOf(r) = MassOf(p) + SumOver(mass, ToSet(u))
    <3>1. IsInjective(s) /\ e \notin ToSet(s)
      BY <2>8, FrontInjective
    <3>2. IsFiniteSet(ToSet(s)) /\ MassOf(q) = MassOf(p) + SumOver(mass, ToSet(s))
      BY <2>1, <3>1 DEF TouchSum
    <3>3. IsFiniteSet(ToSet(s) \cup {e})
      BY <3>2, FS_AddElement
    <3>4. \A x \in ToSet(s) \cup {e} : mass[x] \in Nat
      <4>1. ToSet(s) \subseteq E
        BY DEF ToSet
      <4>. QED BY <4>1
    <3>5. SumOver(mass, ToSet(s) \cup {e}) = SumOver(mass, ToSet(s)) + mass[e]
      BY <3>1, <3>2, <3>4, SumAdd
    <3>6. SumOver(mass, ToSet(s)) \in Nat
      <4>1. SumLaws(mass, ToSet(s))
        BY <3>2, <3>4, SumIs
      <4>. QED BY <4>1 DEF SumLaws
    <3>. QED BY <3>2, <3>3, <3>5, <3>6, <2>2, <2>3, <2>4, <1>6
  <2>9. TouchSum(r, p, mass, u)
    BY <2>7, <2>8 DEF TouchSum
  <2>. QED BY <2>3, <2>5, <2>9 DEF r
<1>. HIDE DEF G
<1>9. Seq(E) \subseteq G
  BY <1>7, <1>8, SeqSet
<1>. QED BY <1>9 DEF G, F

-----------------------------------------------------------------------------
(* The start of a push.                                                    *)

\* A quotient, multiplied again, is not more than what was divided.
LEMMA DivTimes == \A a \in Nat, b \in Nat \ {0} : a \div b \in Nat /\ b * (a \div b) <= a /\ a \div b <= a
<1>. SUFFICES ASSUME NEW a \in Nat, NEW b \in Nat \ {0}
              PROVE  a \div b \in Nat /\ b * (a \div b) <= a /\ a \div b <= a
  OBVIOUS
<1>1. a \div b \in Nat /\ b * (a \div b) <= a
  OBVIOUS
<1>2. \A x \in Nat : x <= b * x
  OBVIOUS
<1>3. b * (a \div b) \in Nat
  BY <1>1
<1>. QED BY <1>1, <1>2, <1>3

\* A common factor is taken out of both sides.
LEMMA Cancel == \A t \in Nat \ {0}, x \in Nat, m \in Nat : t * x <= m * t => x <= m
<1>. SUFFICES ASSUME NEW t \in Nat \ {0}, NEW x \in Nat, NEW m \in Nat, x > m PROVE t * x > m * t
  OBVIOUS
<1>1. x >= m + 1
  OBVIOUS
<1>2. PICK y \in Nat : x = (m + 1) + y
  <2>1. x - (m + 1) \in Nat /\ x = (m + 1) + (x - (m + 1))
    BY <1>1
  <2>. QED BY <2>1
<1>3. t * ((m + 1) + y) = m * t + t + t * y /\ t * y \in Nat /\ m * t \in Nat
  OBVIOUS
<1>. QED BY <1>2, <1>3

\* The greater of a number and one.
LEMMA AtLeastOne ==
  ASSUME NEW a \in Nat
  PROVE  Max({a, 1}) \in Nat \ {0} /\ Max({a, 1}) >= a
<1>. DEFINE m == IF a >= 1 THEN a ELSE 1
<1>1. m \in {a, 1} /\ \A y \in {a, 1} : m >= y
  OBVIOUS
<1>. DEFINE x == Max({a, 1})
<1>2. x \in {a, 1} /\ \A y \in {a, 1} : x >= y
  BY <1>1 DEF Max
<1>. HIDE DEF x
<1>. QED BY <1>2 DEF x

\* The mass of each seed.
Shares(d, s) == [v \in Vertices |-> SeedMass(d, s, v)]

\* The seeds' shares are of the mass.
LEMMA SharesAre ==
  ASSUME NEW d \in [Vertices -> Nat], NEW s \in Seq(Vertices), IsFiniteSet(ToSet(s))
  PROVE  /\ Shares(d, s) \in [Vertices -> Nat]
         /\ SumOver(Shares(d, s), ToSet(s)) \in Nat
         /\ SumOver(Shares(d, s), ToSet(s)) <= Mass
<1>. DEFINE S == ToSet(s)
            f == Similarities(d, Vertices)
            g == Shares(d, s)
            total == SimilaritySum(d, S)
            t == Max({total, 1})
<1>1. S \in SUBSET Vertices
  BY DEF ToSet
<1>2. /\ total = SumOver(f, S)
      /\ \A v \in Vertices : f[v] \in Nat /\ f[v] = Similarity(d, v)
  BY <1>1, SimilarIs
<1>3. SumOver(f, S) \in Nat
  <2>1. SumLaws(f, S)
    BY <1>1, <1>2, SumIs
  <2>. QED BY <2>1 DEF SumLaws
<1>. HIDE DEF f
<1>4. t \in Nat \ {0} /\ t >= total /\ total \in Nat
  BY <1>2, <1>3, AtLeastOne
<1>5. \A v \in Vertices : g[v] = (Mass * f[v]) \div t
  BY <1>2 DEF Shares, SeedMass, SimilaritySum
<1>6. Mass \in Nat
  BY PushAssumption
<1>. HIDE DEF t, total, S
<1>7. \A v \in Vertices : g[v] \in Nat /\ t * g[v] <= Mass * f[v]
  <2>. SUFFICES ASSUME NEW v \in Vertices PROVE g[v] \in Nat /\ t * g[v] <= Mass * f[v]
    OBVIOUS
  <2>. DEFINE a == Mass * f[v]
  <2>1. a \in Nat /\ g[v] = a \div t
    BY <1>2, <1>5, <1>6
  <2>. HIDE DEF a
  <2>2. a \div t \in Nat /\ t * (a \div t) <= a
    BY <1>4, <2>1, DivTimes
  <2>. QED BY <2>1, <2>2 DEF a
<1>8. g \in [Vertices -> Nat]
  BY <1>7 DEF Shares
<1>. HIDE DEF g
<1>9. t * SumOver(g, S) <= Mass * SumOver(f, S)
  <2>1. \A x \in S : f[x] \in Nat /\ g[x] \in Nat /\ t * g[x] <= Mass * f[x]
    BY <1>1, <1>2, <1>7
  <2>. QED BY <2>1, <1>4, <1>6, SumScaled DEF S
<1>10. SumOver(g, S) \in Nat
  <2>1. \A x \in S : g[x] \in Nat
    BY <1>1, <1>7
  <2>2. SumLaws(g, S)
    BY <2>1, SumIs DEF S
  <2>. QED BY <2>2 DEF SumLaws
<1>11. Mass * total <= Mass * t
  <2>1. PICK y \in Nat : t = total + y
    <3>1. t - total \in Nat /\ t = total + (t - total)
      BY <1>4
    <3>. QED BY <3>1
  <2>2. Mass * (total + y) = Mass * total + Mass * y /\ Mass * y \in Nat /\ Mass * total \in Nat
    BY <1>4, <1>6
  <2>. QED BY <2>1, <2>2
<1>12. t * SumOver(g, S) <= Mass * t
  <2>1. t * SumOver(g, S) \in Nat /\ Mass * total \in Nat /\ Mass * t \in Nat
    BY <1>4, <1>6, <1>10
  <2>. QED BY <2>1, <1>2, <1>9, <1>11
<1>13. SumOver(g, S) <= Mass
  BY <1>4, <1>6, <1>10, <1>12, Cancel
<1>. QED BY <1>8, <1>10, <1>13 DEF S, g

\* The push that nothing has touched.
Untouched(budget) ==
  [reach |-> {}, residue |-> [v \in Vertices |-> 0], reserve |-> [v \in Vertices |-> 0],
   queue |-> <<>>, left |-> budget, used |-> 0, censored |-> FALSE]

\* A vertex as its own end.
Itself == [v \in Vertices |-> v]

\* The start of the push is touching the seeds.
LEMMA StartFolds ==
  ASSUME NEW d \in [Vertices -> Nat], NEW s \in Seq(Vertices), IsFiniteSet(ToSet(s)), NEW budget \in Nat
  PROVE  PushStart(Vertices, d, s, budget) =
           TouchAll(Vertices, Itself, Shares(d, s), 0, Untouched(budget), s)
<1>. DEFINE b == Untouched(budget)
            f == Shares(d, s)
            P(I) == I = [t \in SUBSET (1..Len(s)) |->
                           IF t = {} THEN b
                           ELSE Touched(I[t \ {Max(t)}], s[Max(t)], SeedMass(d, s, s[Max(t)]), 0)]
            iter == CHOOSE I : P(I)
            V == PushStates
            o == TouchOp(Vertices, Itself, f, 0)
<1>0. f \in [Vertices -> Nat] /\ \A v \in Vertices : f[v] = SeedMass(d, s, v)
  BY SharesAre DEF Shares
<1>1. DOMAIN s = 1..Len(s) /\ \A i \in 1..Len(s) : s[i] \in Vertices
  OBVIOUS
<1>2. Itself \in [Vertices -> Vertices] /\ \A v \in Vertices : Itself[v] = v
  BY DEF Itself
<1>3. b \in V
  BY DEF Untouched, PushStates
<1>. HIDE DEF f
<1>4. TouchOpOk(Vertices, Itself, f, 0)
  BY <1>0, <1>2, TouchOpType
<1>5. o \in [V \X Vertices -> V]
  BY <1>4 DEF TouchOpOk
<1>6. \A p \in V, e \in Vertices : o[<<p, e>>] = Touched(p, e, SeedMass(d, s, e), 0)
  BY <1>0, <1>2, <1>4, Zenon DEF TouchOpOk
<1>7. PushStart(Vertices, d, s, budget) = iter[1..Len(s)]
  BY <1>1 DEF PushStart, Untouched, FoldLeft, MapThenFoldSet
<1>. HIDE DEF V, o, b
<1>8. PICK I : Sound(I, V, b, o, s)
  BY <1>3, <1>5, IterExists
<1>9. P(I)
  BY <1>1, <1>6, <1>8 DEF Sound
<1>10. P(iter)
  <2>. HIDE DEF P
  <2>. QED BY <1>9
<1>. HIDE DEF iter
<1>11. iter[{}] = b
  BY <1>10
<1>12. \A t \in SUBSET (1..Len(s)) : t # {} /\ iter[t \ {Max(t)}] \in V =>
        iter[t] = o[<<iter[t \ {Max(t)}], s[Max(t)]>>]
  <2>. TAKE t \in SUBSET (1..Len(s))
  <2>. HAVE t # {} /\ iter[t \ {Max(t)}] \in V
  <2>1. iter[t] = Touched(iter[t \ {Max(t)}], s[Max(t)], SeedMass(d, s, s[Max(t)]), 0)
    BY <1>10
  <2>2. s[Max(t)] \in Vertices
    BY <1>1, <1>8 DEF Sound
  <2>. QED BY <2>1, <2>2, <1>6
<1>13. Stepwise(iter, V, b, o, s)
  BY <1>11, <1>12 DEF Stepwise
<1>14. FoldsTo(iter, V, b, o, s)
  <2>. HIDE DEF P
  <2>1. Fits(V, Vertices, b, o, s)
    BY <1>3, <1>5 DEF Fits
  <2>. QED BY <1>13, <2>1, FitFolded
<1>. QED BY <1>7, <1>14 DEF AtEnd, FoldsTo, TouchAll, V, o, b, f

\* What a push starts from, over the seeds s.
StartLaws(r, s, budget) ==
  /\ r \in PushStates
  /\ r.reach = ToSet(s) /\ r.left = budget /\ r.used = 0 /\ r.censored = FALSE
  /\ \A v \in Vertices : r.reserve[v] = 0 /\ (v \notin ToSet(s) => r.residue[v] = 0)
  /\ \A x \in ToSet(r.queue) : x.vid \in ToSet(s) /\ x.depth = 0
  /\ MassOf(r) <= Mass

\* The start of the push (graph_reach_ppr_push).
LEMMA StartIs ==
  ASSUME NEW d \in [Vertices -> Nat], NEW s \in Seq(Vertices), IsInjective(s), NEW budget \in Nat
  PROVE  StartLaws(PushStart(Vertices, d, s, budget), s, budget)
<1>. DEFINE b == Untouched(budget)
            f == Shares(d, s)
            r == PushStart(Vertices, d, s, budget)
<1>1. IsFiniteSet(ToSet(s))
  <2>1. ToSet(s) \in SUBSET Vertices
    BY DEF ToSet
  <2>. QED BY <2>1, VerticesAssumption, FS_Subset
<1>2. f \in [Vertices -> Nat] /\ SumOver(f, ToSet(s)) \in Nat /\ SumOver(f, ToSet(s)) <= Mass
  BY <1>1, SharesAre
<1>3. r = TouchAll(Vertices, Itself, f, 0, b, s)
  BY <1>1, StartFolds
<1>4. Itself \in [Vertices -> Vertices] /\ VertsOf(Itself, s) = ToSet(s)
  <2>1. ToSet(s) \in SUBSET Vertices
    BY DEF ToSet
  <2>. QED BY <2>1 DEF Itself, VertsOf
<1>5. /\ b \in PushStates /\ b.reach = {} /\ b.left = budget /\ b.used = 0 /\ b.censored = FALSE
      /\ b.queue = <<>> /\ \A v \in Vertices : b.reserve[v] = 0 /\ b.residue[v] = 0
  BY DEF Untouched, PushStates
<1>6. MassOf(b) = 0
  <2>. DEFINE h == MassAt(b)
  <2>1. \A v \in Vertices : h[v] = 0
    BY <1>5 DEF MassAt
  <2>. HIDE DEF h
  <2>2. IsFiniteSet(Vertices) /\ \A v \in Vertices : h[v] \in Nat /\ 1 * h[v] <= 0 * h[v]
    BY <2>1, VerticesAssumption
  <2>3. 1 * SumOver(h, Vertices) <= 0 * SumOver(h, Vertices)
    BY <2>2, SumScaled
  <2>4. SumLaws(h, Vertices)
    BY <2>2, SumIs
  <2>5. SumOver(h, Vertices) \in Nat
    BY <2>4 DEF SumLaws
  <2>. QED BY <2>3, <2>5 DEF MassOf, h
<1>. HIDE DEF b, f, r
<1>7. TouchedLaws(r, b, ToSet(s), 0) /\ TouchSum(r, b, f, s)
  <2>1. \A z \in Seq(Vertices) :
          /\ TouchedLaws(TouchAll(Vertices, Itself, f, 0, b, z), b, VertsOf(Itself, z), 0)
          /\ TouchSum(TouchAll(Vertices, Itself, f, 0, b, z), b, f, z)
    <3>1. 0 \in Nat /\ b \in PushStates /\ f \in [Vertices -> Nat] /\ Itself \in [Vertices -> Vertices]
      BY <1>2, <1>4, <1>5
    <3>. QED BY <3>1, TouchList
  <2>. QED BY <2>1, <1>3, <1>4
<1>8. MassOf(r) <= Mass
  BY <1>2, <1>6, <1>7 DEF TouchSum
<1>9. /\ r \in PushStates /\ r.reach = ToSet(s) /\ r.left = budget /\ r.used = 0 /\ r.censored = FALSE
      /\ \A v \in Vertices : r.reserve[v] = 0 /\ (v \notin ToSet(s) => r.residue[v] = 0)
  BY <1>5, <1>7 DEF TouchedLaws
<1>10. \A x \in ToSet(r.queue) : x.vid \in ToSet(s) /\ x.depth = 0
  BY <1>5, <1>7, EmptySet DEF TouchedLaws
<1>. QED BY <1>8, <1>9, <1>10 DEF StartLaws, r

-----------------------------------------------------------------------------
(* Expanding a vertex.                                                     *)

\* The end of an edge.
Dst == [e \in Edges |-> e.dst]

\* What each end is given; with no end there is nobody to give to.
Each(mass, n) == [e \in Edges |-> IF n > 0 THEN mass \div n ELSE 0]

\* Touching the ends of the edges walked (Expanded).
Spread(b, s, mass, n, depth) ==
  FoldLeft(LAMBDA p, e : Touched(p, e.dst, mass \div n, depth), b, s)

\* It is such a fold.
LEMMA SpreadFolds ==
  ASSUME NEW b \in PushStates, NEW s \in Seq(Edges), NEW mass \in Nat, NEW n \in Nat, Len(s) = n,
         NEW depth \in Nat
  PROVE  Spread(b, s, mass, n, depth) = TouchAll(Edges, Dst, Each(mass, n), depth, b, s)
<1>. DEFINE f == Each(mass, n)
            P(I) == I = [t \in SUBSET (1..Len(s)) |->
                           IF t = {} THEN b
                           ELSE Touched(I[t \ {Max(t)}], s[Max(t)].dst, mass \div n, depth)]
            iter == CHOOSE I : P(I)
            V == PushStates
            o == TouchOp(Edges, Dst, f, depth)
<1>0. f \in [Edges -> Nat] /\ (n > 0 => \A e \in Edges : f[e] = mass \div n)
  <2>1. n > 0 => mass \div n \in Nat
    BY DivTimes
  <2>. QED BY <2>1 DEF Each
<1>1. DOMAIN s = 1..Len(s) /\ \A i \in 1..Len(s) : s[i] \in Edges
  OBVIOUS
<1>2. Dst \in [Edges -> Vertices] /\ \A e \in Edges : Dst[e] = e.dst
  BY DEF Dst, Edges
<1>. HIDE DEF f
<1>4. TouchOpOk(Edges, Dst, f, depth)
  BY <1>0, <1>2, TouchOpType
<1>5. o \in [V \X Edges -> V]
  BY <1>4 DEF TouchOpOk
<1>6. n > 0 => \A p \in V, e \in Edges : o[<<p, e>>] = Touched(p, e.dst, mass \div n, depth)
  <2>1. \A p \in V, e \in Edges : o[<<p, e>>] = Touched(p, Dst[e], f[e], depth)
    BY <1>4, Zenon DEF TouchOpOk
  <2>. QED BY <1>0, <1>2, <2>1
<1>7. Spread(b, s, mass, n, depth) = iter[1..Len(s)]
  BY <1>1 DEF Spread, FoldLeft, MapThenFoldSet
<1>. HIDE DEF V, o
<1>8. PICK I : Sound(I, V, b, o, s)
  BY <1>5, IterExists DEF V
<1>a. \A t \in SUBSET (1..Len(s)) : t # {} => n > 0
  <2>. SUFFICES ASSUME NEW t \in SUBSET (1..Len(s)), NEW i \in t PROVE n > 0
    OBVIOUS
  <2>1. i \in 1..n
    OBVIOUS
  <2>. QED BY <2>1
<1>9. P(I)
  BY <1>1, <1>6, <1>8, <1>a DEF Sound
<1>10. P(iter)
  <2>. HIDE DEF P
  <2>. QED BY <1>9
<1>. HIDE DEF iter
<1>11. iter[{}] = b
  BY <1>10
<1>12. \A t \in SUBSET (1..Len(s)) : t # {} /\ iter[t \ {Max(t)}] \in V =>
        iter[t] = o[<<iter[t \ {Max(t)}], s[Max(t)]>>]
  <2>. TAKE t \in SUBSET (1..Len(s))
  <2>. HAVE t # {} /\ iter[t \ {Max(t)}] \in V
  <2>1. iter[t] = Touched(iter[t \ {Max(t)}], s[Max(t)].dst, mass \div n, depth)
    BY <1>10
  <2>2. s[Max(t)] \in Edges /\ n > 0
    BY <1>1, <1>8, <1>a DEF Sound
  <2>. QED BY <2>1, <2>2, <1>6
<1>13. Stepwise(iter, V, b, o, s)
  BY <1>11, <1>12 DEF Stepwise
<1>14. FoldsTo(iter, V, b, o, s)
  <2>. HIDE DEF P
  <2>1. Fits(V, Edges, b, o, s)
    BY <1>5 DEF Fits, V
  <2>. QED BY <1>13, <2>1, FitFolded
<1>. QED BY <1>7, <1>14 DEF AtEnd, FoldsTo, TouchAll, V, o, f

\* The lesser of two numbers.
LEMMA LesserIs ==
  ASSUME NEW a \in Nat, NEW b \in Nat
  PROVE  Min({a, b}) = Least(a, b)
<1>. DEFINE m == Least(a, b)
            x == Min({a, b})
<1>1. m \in {a, b} /\ \A y \in {a, b} : m <= y
  BY DEF Least
<1>. HIDE DEF m
<1>2. x \in {a, b} /\ \A y \in {a, b} : x <= y
  BY <1>1 DEF Min
<1>. HIDE DEF x
<1>3. x = m
  BY <1>1, <1>2
<1>. QED BY <1>3 DEF x, m

\* The ends of a list of edges are no more than the edges.
LEMMA EndsAre ==
  ASSUME NEW s \in Seq(Edges)
  PROVE  /\ VertsOf(Dst, s) \in SUBSET Vertices /\ IsFiniteSet(VertsOf(Dst, s))
         /\ Cardinality(VertsOf(Dst, s)) \in Nat /\ Cardinality(VertsOf(Dst, s)) <= Len(s)
         /\ VertsOf(Dst, s) = {e.dst : e \in ToSet(s)}
<1>. DEFINE n == Len(s)
            f == [i \in 1..n |-> s[i].dst]
            D == VertsOf(Dst, s)
<1>1. n \in Nat /\ DOMAIN s = 1..n /\ \A i \in 1..n : s[i] \in Edges
  OBVIOUS
<1>2. \A e \in Edges : Dst[e] = e.dst /\ e.dst \in Vertices
  BY DEF Dst, Edges
<1>. HIDE DEF n
<1>3. ToSet(s) = {s[i] : i \in 1..n} /\ ToSet(s) \subseteq Edges
  BY <1>1 DEF ToSet
<1>4. D = {e.dst : e \in ToSet(s)} /\ D \in SUBSET Vertices
  BY <1>2, <1>3 DEF VertsOf
<1>5. D = {f[i] : i \in 1..n}
  BY <1>1, <1>2, <1>3 DEF VertsOf
<1>. HIDE DEF D
<1>6. f \in Surjection(1..n, D)
  BY <1>5 DEF Surjection
<1>7. IsFiniteSet(1..n) /\ Cardinality(1..n) = n
  BY <1>1, FS_Interval
<1>. HIDE DEF f
<1>8. IsFiniteSet(D) /\ Cardinality(D) <= Cardinality(1..n)
  BY <1>6, <1>7, FS_Surjection
<1>9. Cardinality(D) \in Nat
  BY <1>8, FS_CardinalityType
<1>. QED BY <1>4, <1>7, <1>8, <1>9 DEF D, n

\* What expanding a vertex does: it reaches the ends D and no others.
ExpandedLaws(r, p, g, type, item, mass, D) ==
  /\ r \in PushStates /\ D \in SUBSET Vertices
  /\ D \subseteq {e.dst : e \in ToSet(OutEdges(g, type, item.vid))}
  /\ r.reach = p.reach \cup D /\ r.reserve = p.reserve
  /\ r.used + r.left = p.used + p.left
  /\ IsFiniteSet(D) /\ Cardinality(D) \in Nat /\ p.used + Cardinality(D) <= r.used
  /\ r.censored => p.censored \/ r.left = 0
  /\ p.left = 0 => r.left = 0
  /\ \A v \in Vertices \ D : r.residue[v] = p.residue[v]
  /\ \A x \in ToSet(r.queue) : x \in ToSet(p.queue) \/ (x.vid \in D /\ x.depth = item.depth + 1)
  /\ MassOf(r) <= MassOf(p) + mass

\* An expansion, whether the budget cuts it short or not.
LEMMA ExpandIs ==
  ASSUME NEW p \in PushStates, NEW g \in Stored, NEW type, NEW item \in Queued, NEW mass \in Nat
  PROVE  \E D : ExpandedLaws(Expanded(p, g, type, item, mass), p, g, type, item, mass, D)
<1>. DEFINE out == OutEdges(g, type, item.vid)
            n == Min({Len(out), p.left})
            walked == SubSeq(out, 1, n)
            paid == [p EXCEPT !.left = @ - n, !.used = @ + n, !.censored = @ \/ Len(out) >= p.left]
            depth == item.depth + 1
            r == Expanded(p, g, type, item, mass)
            D == VertsOf(Dst, walked)
<1>1. item.vid \in Vertices /\ item.depth \in Nat /\ depth \in Nat
  BY DEF Queued
<1>2. out \in Seq(Edges) /\ Len(out) \in Nat
  BY <1>1, OutType, LenProperties
<1>3. /\ p.reach \in SUBSET Vertices /\ p.residue \in [Vertices -> Nat] /\ p.reserve \in [Vertices -> Nat]
      /\ p.queue \in Seq(Queued) /\ p.left \in Nat /\ p.used \in Nat /\ p.censored \in BOOLEAN
  BY PushParts
<1>4. r = Spread(paid, walked, mass, n, depth)
  BY DEF Expanded, Spread
<1>. HIDE DEF r, depth, out
<1>5. n = Least(Len(out), p.left)
  BY <1>2, <1>3, LesserIs
<1>. HIDE DEF n
<1>6. n \in Nat /\ n <= Len(out) /\ n <= p.left /\ (Len(out) >= p.left => n = p.left)
  BY <1>2, <1>3, <1>5 DEF Least
<1>7. /\ walked \in Seq(Edges) /\ Len(walked) = n
      /\ \A i \in 1..n : walked[i] = out[i]
  BY <1>2, <1>6, PrefixLen
<1>8. ToSet(walked) \subseteq ToSet(out)
  <2>1. DOMAIN walked = 1..n /\ DOMAIN out = 1..Len(out)
    BY <1>2, <1>7, LenProperties
  <2>. HIDE DEF walked
  <2>. QED BY <1>2, <1>6, <1>7, <2>1 DEF ToSet
<1>9. /\ paid \in PushStates /\ paid.reach = p.reach /\ paid.residue = p.residue /\ paid.reserve = p.reserve
      /\ paid.queue = p.queue /\ paid.left = p.left - n /\ paid.used = p.used + n
      /\ paid.censored = (p.censored \/ Len(out) >= p.left)
  <2>. DEFINE l == p.left - n
              u == p.used + n
              c == p.censored \/ Len(out) >= p.left
  <2>1. l \in Nat /\ u \in Nat /\ c \in BOOLEAN
    BY <1>2, <1>3, <1>6
  <2>2. paid = [p EXCEPT !.left = l, !.used = u, !.censored = c]
    OBVIOUS
  <2>. HIDE DEF l, u, c, paid
  <2>3. paid \in PushStates
    BY <2>1, <2>2 DEF PushStates
  <2>4. /\ paid.reach = p.reach /\ paid.residue = p.residue /\ paid.reserve = p.reserve
        /\ paid.queue = p.queue /\ paid.left = l /\ paid.used = u /\ paid.censored = c
    BY <2>2 DEF PushStates
  <2>. QED BY <2>3, <2>4 DEF l, u, c
<1>. HIDE DEF paid
<1>10. /\ D \in SUBSET Vertices /\ IsFiniteSet(D) /\ Cardinality(D) \in Nat /\ Cardinality(D) <= n
       /\ D = {e.dst : e \in ToSet(walked)}
  BY <1>7, EndsAre
<1>. HIDE DEF walked
<1>11. Dst \in [Edges -> Vertices] /\ Each(mass, n) \in [Edges -> Nat]
  <2>1. n > 0 => mass \div n \in Nat
    BY <1>6, DivTimes
  <2>. QED BY <2>1 DEF Dst, Each, Edges
<1>12. r = TouchAll(Edges, Dst, Each(mass, n), depth, paid, walked)
  BY <1>1, <1>4, <1>6, <1>7, <1>9, SpreadFolds
<1>13. TouchedLaws(r, paid, D, depth) /\ TouchSum(r, paid, Each(mass, n), walked)
  <2>1. \A z \in Seq(Edges) :
          /\ TouchedLaws(TouchAll(Edges, Dst, Each(mass, n), depth, paid, z), paid, VertsOf(Dst, z), depth)
          /\ TouchSum(TouchAll(Edges, Dst, Each(mass, n), depth, paid, z), paid, Each(mass, n), z)
    BY <1>1, <1>9, <1>11, TouchList
  <2>. QED BY <2>1, <1>7, <1>12
<1>. HIDE DEF D
<1>14. MassOf(paid) = MassOf(p)
  <2>1. MassAt(paid) = MassAt(p)
    BY <1>9 DEF MassAt
  <2>. QED BY <2>1 DEF MassOf
<1>15. MassOf(r) <= MassOf(p) + mass
  <2>0. MassOf(p) \in Nat /\ MassOf(r) \in Nat
    <3>1. r \in PushStates /\ IsFiniteSet(Vertices)
      BY <1>13, VerticesAssumption DEF TouchedLaws
    <3>2. \A v \in Vertices : MassAt(p)[v] \in Nat /\ MassAt(r)[v] \in Nat
      <4>. SUFFICES ASSUME NEW v \in Vertices PROVE MassAt(p)[v] \in Nat /\ MassAt(r)[v] \in Nat
        OBVIOUS
      <4>1. p.reserve[v] \in Nat /\ p.residue[v] \in Nat /\ r.reserve[v] \in Nat /\ r.residue[v] \in Nat
        BY <3>1, PushParts
      <4>. QED BY <4>1 DEF MassAt
    <3>3. SumLaws(MassAt(p), Vertices) /\ SumLaws(MassAt(r), Vertices)
      BY <3>1, <3>2, SumIs
    <3>. QED BY <3>3 DEF SumLaws, MassOf
  <2>1. CASE n = 0
    <3>1. \A e \in ToSet(walked) : Each(mass, n)[e] <= 0
      <4>1. DOMAIN walked = 1..0
        BY <1>7, <2>1, LenProperties
      <4>2. ToSet(walked) = {}
        BY <4>1 DEF ToSet
      <4>. QED BY <4>2
    <3>2. MassOf(r) <= MassOf(paid) + Len(walked) * 0
      BY <3>1, <1>13 DEF TouchSum
    <3>. QED BY <3>2, <1>7, <1>14, <2>0, <2>1
  <2>2. CASE n > 0
    <3>. DEFINE each == mass \div n
    <3>1. each \in Nat /\ n * each <= mass
      BY <1>6, <2>2, DivTimes
    <3>2. \A e \in ToSet(walked) : Each(mass, n)[e] <= each
      <4>1. ToSet(walked) \subseteq Edges
        BY <1>7 DEF ToSet
      <4>2. \A e \in Edges : Each(mass, n)[e] = each
        BY <2>2 DEF Each
      <4>. QED BY <3>1, <4>1, <4>2
    <3>. HIDE DEF each
    <3>3. MassOf(r) <= MassOf(paid) + Len(walked) * each
      BY <3>1, <3>2, <1>13 DEF TouchSum
    <3>4. n * each \in Nat
      BY <1>6, <3>1
    <3>. QED BY <3>1, <3>3, <3>4, <1>7, <1>14, <2>0
  <2>. QED BY <2>1, <2>2, <1>6
<1>16. /\ r \in PushStates /\ r.reach = p.reach \cup D /\ r.reserve = p.reserve
       /\ r.left = p.left - n /\ r.used = p.used + n
       /\ r.censored = (p.censored \/ Len(out) >= p.left)
       /\ \A v \in Vertices \ D : r.residue[v] = p.residue[v]
       /\ \A x \in ToSet(r.queue) : x \in ToSet(p.queue) \/ (x.vid \in D /\ x.depth = depth)
  BY <1>9, <1>13 DEF TouchedLaws
<1>17. /\ r.used + r.left = p.used + p.left /\ p.used + Cardinality(D) <= r.used
       /\ (r.censored => p.censored \/ r.left = 0) /\ (p.left = 0 => r.left = 0)
  BY <1>3, <1>6, <1>10, <1>16
<1>18. D \subseteq {e.dst : e \in ToSet(out)}
  BY <1>8, <1>10
<1>19. ExpandedLaws(r, p, g, type, item, mass, D)
  BY <1>10, <1>15, <1>16, <1>17, <1>18 DEF ExpandedLaws, out, depth
<1>. QED BY <1>19 DEF r

-----------------------------------------------------------------------------
(* A turn of the push.                                                     *)

\* What a turn of the push does: it reaches the ends D of the head's edges,
\* each at a cost, and makes no mass.
PoppedLaws(r, p, g, type, hops, D) ==
  /\ r \in PushStates /\ D \in SUBSET Vertices
  /\ D \subseteq {e.dst : e \in ToSet(OutEdges(g, type, Head(p.queue).vid))}
  /\ D # {} => Head(p.queue).depth < hops
  /\ r.reach = p.reach \cup D
  /\ r.used + r.left = p.used + p.left
  /\ IsFiniteSet(D) /\ Cardinality(D) \in Nat /\ p.used + Cardinality(D) <= r.used
  /\ r.censored => p.censored \/ r.left = 0
  /\ p.left = 0 => r.left = 0
  /\ \A x \in ToSet(r.queue) : x \in ToSet(p.queue) \/ (x.vid \in D /\ x.depth = Head(p.queue).depth + 1)
  /\ MassOf(r) <= MassOf(p)
  /\ \A v \in Vertices : MassAt(r)[v] > 0 => MassAt(p)[v] > 0 \/ v \in D

\* All of the mass is a number.
LEMMA MassNat ==
  ASSUME NEW p \in PushStates
  PROVE  /\ MassOf(p) \in Nat
         /\ \A v \in Vertices : MassAt(p)[v] \in Nat /\ p.reserve[v] \in Nat /\ p.residue[v] \in Nat
                                /\ MassAt(p)[v] = p.reserve[v] + p.residue[v]
<1>1. \A v \in Vertices : MassAt(p)[v] \in Nat /\ p.reserve[v] \in Nat /\ p.residue[v] \in Nat
                          /\ MassAt(p)[v] = p.reserve[v] + p.residue[v]
  <2>. SUFFICES ASSUME NEW v \in Vertices
                PROVE  MassAt(p)[v] \in Nat /\ p.reserve[v] \in Nat /\ p.residue[v] \in Nat
                       /\ MassAt(p)[v] = p.reserve[v] + p.residue[v]
    OBVIOUS
  <2>1. p.reserve[v] \in Nat /\ p.residue[v] \in Nat
    BY PushParts
  <2>. QED BY <2>1 DEF MassAt
<1>2. SumLaws(MassAt(p), Vertices)
  BY <1>1, VerticesAssumption, SumIs
<1>. QED BY <1>1, <1>2 DEF SumLaws, MassOf

\* What is left of a queue is of the queue.
LEMMA TailIs ==
  ASSUME NEW E, NEW s \in Seq(E), s # <<>>
  PROVE  Tail(s) \in Seq(E) /\ ToSet(Tail(s)) \subseteq ToSet(s) /\ Head(s) \in E /\ Head(s) \in ToSet(s)
         /\ Len(Tail(s)) = Len(s) - 1 /\ Len(s) \in Nat /\ Len(s) >= 1
<1>1. /\ Tail(s) \in Seq(E) /\ Len(s) \in Nat /\ Len(s) >= 1 /\ Len(Tail(s)) = Len(s) - 1
      /\ \A i \in 1..(Len(s) - 1) : Tail(s)[i] = s[i + 1] /\ i + 1 \in 1..Len(s)
      /\ Head(s) = s[1] /\ 1 \in 1..Len(s)
  OBVIOUS
<1>2. DOMAIN s = 1..Len(s) /\ DOMAIN Tail(s) = 1..(Len(s) - 1)
  BY <1>1, LenProperties
<1>3. ToSet(Tail(s)) \subseteq ToSet(s)
  BY <1>1, <1>2 DEF ToSet
<1>4. Head(s) \in E /\ Head(s) \in ToSet(s)
  BY <1>1, <1>2 DEF ToSet
<1>. QED BY <1>1, <1>3, <1>4

\* Draining moves a part of the residue to the reserve, and takes the rest.
LEMMA DrainIs ==
  ASSUME NEW p \in PushStates, p.queue # <<>>, NEW v \in Vertices
  PROVE  LET b == Drained(p, v) IN
         /\ b \in PushStates /\ b.reach = p.reach /\ b.left = p.left /\ b.used = p.used
         /\ b.censored = p.censored /\ b.queue = Tail(p.queue)
         /\ p.residue[v] - p.residue[v] \div AlphaDiv \in Nat
         /\ MassOf(b) + (p.residue[v] - p.residue[v] \div AlphaDiv) = MassOf(p)
         /\ \A u \in Vertices : u # v => MassAt(b)[u] = MassAt(p)[u]
<1>. DEFINE b == Drained(p, v)
            part == p.residue[v] \div AlphaDiv
            res == [p.residue EXCEPT ![v] = 0]
            kept == [p.reserve EXCEPT ![v] = @ + part]
            rest == Tail(p.queue)
<1>1. /\ p.reach \in SUBSET Vertices /\ p.residue \in [Vertices -> Nat] /\ p.reserve \in [Vertices -> Nat]
      /\ p.queue \in Seq(Queued) /\ p.left \in Nat /\ p.used \in Nat /\ p.censored \in BOOLEAN
  BY PushParts
<1>2. p.residue[v] \in Nat /\ part \in Nat /\ part <= p.residue[v]
  <2>1. p.residue[v] \in Nat /\ AlphaDiv \in Nat \ {0}
    BY <1>1, PushAssumption
  <2>. QED BY <2>1, DivTimes
<1>3. b = [p EXCEPT !.queue = rest, !.reserve = kept, !.residue = res]
  BY DEF Drained
<1>. HIDE DEF part
<1>4. res \in [Vertices -> Nat] /\ kept \in [Vertices -> Nat] /\ rest \in Seq(Queued)
  BY <1>1, <1>2, TailIs
<1>. HIDE DEF b, res, kept, rest
<1>5. b \in PushStates
  BY <1>3, <1>4 DEF PushStates
<1>6. /\ b.reach = p.reach /\ b.left = p.left /\ b.used = p.used /\ b.censored = p.censored
      /\ b.queue = rest /\ b.reserve = kept /\ b.residue = res
  BY <1>3 DEF PushStates
<1>7. \A u \in Vertices : u # v => MassAt(b)[u] = MassAt(p)[u]
  BY <1>1, <1>6 DEF MassAt, res, kept
<1>8. MassAt(b)[v] = p.reserve[v] + part /\ MassAt(p)[v] = p.reserve[v] + p.residue[v]
  <2>1. b.reserve[v] = p.reserve[v] + part /\ b.residue[v] = 0
    BY <1>1, <1>6 DEF res, kept
  <2>2. p.reserve[v] \in Nat
    BY <1>1
  <2>. QED BY <1>2, <2>1, <2>2 DEF MassAt
<1>9. /\ MassOf(p) \in Nat /\ MassOf(b) \in Nat
      /\ MassOf(b) - MassAt(b)[v] = MassOf(p) - MassAt(p)[v]
  BY <1>5, <1>7, MassChange
<1>10. p.reserve[v] \in Nat
  BY <1>1
<1>11. p.residue[v] - part \in Nat
  BY <1>2
<1>12. MassOf(b) + (p.residue[v] - part) = MassOf(p)
  BY <1>2, <1>8, <1>9, <1>10
<1>. QED BY <1>5, <1>6, <1>7, <1>11, <1>12 DEF b, part, rest

\* One pop of the queue.
LEMMA PopIs ==
  ASSUME NEW p \in PushStates, p.queue # <<>>, NEW g \in Stored, NEW type, NEW hops \in Nat
  PROVE  \E D : PoppedLaws(Popped(p, g, type, hops), p, g, type, hops, D)
<1>. DEFINE item == Head(p.queue)
            v == item.vid
            residue == p.residue[v]
            b == Drained(p, v)
            mass == residue - residue \div AlphaDiv
            r == Popped(p, g, type, hops)
<1>1. /\ p.reach \in SUBSET Vertices /\ p.residue \in [Vertices -> Nat] /\ p.reserve \in [Vertices -> Nat]
      /\ p.queue \in Seq(Queued) /\ p.left \in Nat /\ p.used \in Nat /\ p.censored \in BOOLEAN
  BY PushParts
<1>2. /\ Tail(p.queue) \in Seq(Queued) /\ ToSet(Tail(p.queue)) \subseteq ToSet(p.queue)
      /\ item \in Queued /\ item \in ToSet(p.queue)
  BY <1>1, TailIs
<1>3. v \in Vertices /\ item.depth \in Nat
  BY <1>2 DEF Queued
<1>4. /\ b \in PushStates /\ b.reach = p.reach /\ b.left = p.left /\ b.used = p.used
      /\ b.censored = p.censored /\ b.queue = Tail(p.queue) /\ mass \in Nat
      /\ MassOf(b) + mass = MassOf(p)
      /\ \A u \in Vertices : u # v => MassAt(b)[u] = MassAt(p)[u]
  BY <1>3, DrainIs
<1>5. MassOf(p) \in Nat /\ MassOf(b) \in Nat
  BY <1>4, MassNat
<1>6. residue \in Nat /\ MassAt(p)[v] \in Nat /\ MassAt(p)[v] >= residue
  <2>1. p.reserve[v] \in Nat /\ p.residue[v] \in Nat /\ MassAt(p)[v] = p.reserve[v] + p.residue[v]
    BY <1>3, MassNat
  <2>. QED BY <2>1
<1>7. Rmax \in Nat \ {0}
  BY PushAssumption
<1>8. IsFiniteSet({}) /\ Cardinality({}) = 0
  BY FS_EmptySet
<1>9. CASE residue < Rmax
  <2>. DEFINE rest == Tail(p.queue)
  <2>1. r = [p EXCEPT !.queue = rest]
    BY <1>9 DEF Popped
  <2>. HIDE DEF r, rest
  <2>2. r \in PushStates
    BY <2>1, <1>2 DEF PushStates, rest
  <2>3. /\ r.reach = p.reach /\ r.left = p.left /\ r.used = p.used /\ r.censored = p.censored
        /\ r.queue = rest /\ r.reserve = p.reserve /\ r.residue = p.residue
    BY <2>1 DEF PushStates
  <2>4. MassAt(r) = MassAt(p)
    BY <2>3 DEF MassAt
  <2>5. MassOf(r) = MassOf(p)
    BY <2>4 DEF MassOf
  <2>6. PoppedLaws(r, p, g, type, hops, {})
    BY <1>1, <1>2, <1>5, <1>8, <2>2, <2>3, <2>4, <2>5 DEF PoppedLaws, rest
  <2>. QED BY <2>6 DEF r
<1>10. \A u \in Vertices : MassAt(b)[u] > 0 /\ ~(residue < Rmax) => MassAt(p)[u] > 0
  <2>. SUFFICES ASSUME NEW u \in Vertices, MassAt(b)[u] > 0, ~(residue < Rmax) PROVE MassAt(p)[u] > 0
    OBVIOUS
  <2>1. CASE u = v
    <3>1. residue > 0
      BY <1>6, <1>7
    <3>. QED BY <2>1, <3>1, <1>6
  <2>2. CASE u # v
    BY <2>2, <1>4
  <2>. QED BY <2>1, <2>2
<1>11. CASE ~(residue < Rmax) /\ item.depth >= hops
  <2>1. r = b
    BY <1>11 DEF Popped
  <2>. HIDE DEF r, b, mass, residue
  <2>2. MassOf(r) <= MassOf(p)
    BY <1>4, <1>5, <2>1
  <2>3. PoppedLaws(r, p, g, type, hops, {})
    BY <1>1, <1>2, <1>4, <1>8, <1>10, <1>11, <2>1, <2>2 DEF PoppedLaws
  <2>. QED BY <2>3 DEF r
<1>12. CASE ~(residue < Rmax) /\ ~(item.depth >= hops)
  <2>1. r = Expanded(b, g, type, item, mass)
    BY <1>12 DEF Popped
  <2>. HIDE DEF b, mass, residue
  <2>2. PICK D : ExpandedLaws(Expanded(b, g, type, item, mass), b, g, type, item, mass, D)
    BY <1>2, <1>4, ExpandIs
  <2>3. ExpandedLaws(r, b, g, type, item, mass, D)
    BY <2>1, <2>2
  <2>. HIDE DEF r
  <2>4. /\ r \in PushStates /\ D \in SUBSET Vertices
        /\ D \subseteq {e.dst : e \in ToSet(OutEdges(g, type, item.vid))}
        /\ r.reach = p.reach \cup D /\ r.reserve = b.reserve
        /\ r.used + r.left = p.used + p.left
        /\ IsFiniteSet(D) /\ Cardinality(D) \in Nat /\ p.used + Cardinality(D) <= r.used
        /\ (r.censored => p.censored \/ r.left = 0) /\ (p.left = 0 => r.left = 0)
        /\ MassOf(r) <= MassOf(b) + mass
    BY <1>4, <2>3 DEF ExpandedLaws
  <2>5. \A x \in ToSet(r.queue) : x \in ToSet(p.queue) \/ (x.vid \in D /\ x.depth = item.depth + 1)
    BY <1>2, <1>4, <2>3 DEF ExpandedLaws
  <2>6. \A u \in Vertices : MassAt(r)[u] > 0 => MassAt(p)[u] > 0 \/ u \in D
    <3>. SUFFICES ASSUME NEW u \in Vertices, MassAt(r)[u] > 0, u \notin D PROVE MassAt(p)[u] > 0
      OBVIOUS
    <3>1. r.residue[u] = b.residue[u] /\ r.reserve[u] = b.reserve[u]
      BY <2>3 DEF ExpandedLaws
    <3>2. MassAt(r)[u] = MassAt(b)[u]
      BY <3>1 DEF MassAt
    <3>. QED BY <3>2, <1>10, <1>12
  <2>7. MassOf(r) <= MassOf(p)
    BY <1>4, <2>4
  <2>8. item.depth < hops
    BY <1>3, <1>12
  <2>9. PoppedLaws(r, p, g, type, hops, D)
    BY <2>4, <2>5, <2>6, <2>7, <2>8 DEF PoppedLaws
  <2>. QED BY <2>9 DEF r
<1>. QED BY <1>9, <1>11, <1>12

-----------------------------------------------------------------------------
(* Pulling a seed.                                                         *)

\* What the traversal from one seed finds within a budget.
PulledLaws(x, g, seed, hops, type, budget) ==
  /\ x.used \in Nat /\ x.used <= budget /\ x.censored \in BOOLEAN
  /\ ToSet(x.ids) \in SUBSET Vertices /\ seed \notin ToSet(x.ids)
  /\ IsFiniteSet(ToSet(x.ids)) /\ Cardinality(ToSet(x.ids)) \in Nat /\ Cardinality(ToSet(x.ids)) <= x.used
  /\ ToSet(x.ids) \subseteq WithinHops(g, type, {seed}, hops)
  /\ ~x.censored => {seed} \cup ToSet(x.ids) = WithinHops(g, type, {seed}, hops)
  /\ x.censored => x.used = budget

\* What a pull finds (graph_reach_pull).
LEMMA PullIs ==
  ASSUME NEW g \in Stored, NEW type, NEW seed \in Vertices, NEW hops \in Nat, NEW budget \in Nat
  PROVE  PulledLaws(Pull(g, seed, hops, type, budget), g, seed, hops, type, budget)
<1>. DEFINE x == Pull(g, seed, hops, type, budget)
            n == Len(Steps(g, seed, hops, type))
            k == IF n < budget THEN n ELSE budget
            got == Got(g, seed, hops, type, k)
            ids == Search(g, seed, hops, type).ids
            W == WithinHops(g, type, {seed}, hops)
<1>0. hops \in Int
  OBVIOUS
<1>1. GotFacts(g, seed, hops, type)
  BY <1>0, GotSteps
<1>2. Steps(g, seed, hops, type) \in Seq(Vertices) /\ n \in Nat
  BY <1>0, LineType
<1>3. x.used = k /\ x.ids = got.next /\ (x.censored <=> n >= budget)
  BY DEF Pull, Got, Walked, VF, Start, Steps
<1>3a. x.censored \in BOOLEAN
  <2>1. x.censored = (n >= budget)
    BY DEF Pull, Got, Walked, VF, Start, Steps
  <2>. QED BY <2>1
<1>. HIDE DEF n
<1>4. k \in Nat /\ k <= budget /\ k <= n /\ k \in 0..n /\ (n >= budget => k = budget) /\ (~(n >= budget) => k = n)
  BY <1>2
<1>. HIDE DEF k
<1>5. /\ got \in VisitStates
      /\ Found(g, seed, hops, type, k) \in Nat
      /\ got.visited = {seed} \cup ToSet(got.next)
      /\ Cardinality(got.visited) = Found(g, seed, hops, type, k) + 1
      /\ Found(g, seed, hops, type, k) <= k
  BY <1>1, <1>4 DEF GotFacts, n
<1>6. Got(g, seed, hops, type, n).next = ids
  BY <1>1 DEF GotFacts, n
<1>7. got.next = SubSeq(ids, 1, Found(g, seed, hops, type, k)) /\ Found(g, seed, hops, type, k) <= Len(ids)
  <2>1. /\ Found(g, seed, hops, type, k) <= Found(g, seed, hops, type, n)
        /\ got.next = SubSeq(Got(g, seed, hops, type, n).next, 1, Found(g, seed, hops, type, k))
    <3>1. n \in Nat /\ k \in Nat /\ k <= n /\ n <= Len(Steps(g, seed, hops, type))
      BY <1>2, <1>4 DEF n
    <3>. QED BY <1>0, <3>1, GotGrows
  <2>2. Found(g, seed, hops, type, n) = Len(ids)
    BY <1>6 DEF Found
  <2>. QED BY <1>6, <2>1, <2>2
<1>8. ReachLaws(g, type, seed, hops)
  BY <1>0, SearchReach
<1>9. ToSet(ids) = W \ {seed} /\ ids \in Seq(Vertices)
  BY <1>0, <1>8, SearchFacts DEF ReachLaws
<1>10. seed \in W
  <2>1. WithinLaws(g, type, {seed}) /\ {seed} \in SUBSET Vertices
    BY WithinIs
  <2>2. Search(g, seed, hops, type).visited = W
    BY <1>8 DEF ReachLaws
  <2>3. Walked(seed, Search(g, seed, hops, type).steps).visited = Search(g, seed, hops, type).visited
        /\ Search(g, seed, hops, type).steps \in Seq(Vertices)
    BY <1>0, SearchFacts
  <2>4. Honest(seed, Walked(seed, Search(g, seed, hops, type).steps), Search(g, seed, hops, type).steps)
    BY <2>3, WalkHonest
  <2>. QED BY <2>2, <2>3, <2>4 DEF Honest
<1>. HIDE DEF got, ids, W
<1>11. ToSet(got.next) \subseteq ToSet(ids)
  <2>. DEFINE f == Found(g, seed, hops, type, k)
  <2>1. f \in Nat /\ f <= Len(ids) /\ Len(ids) \in Nat
    BY <1>5, <1>7, <1>9, LenProperties
  <2>. HIDE DEF f
  <2>2. /\ SubSeq(ids, 1, f) \in Seq(Vertices) /\ Len(SubSeq(ids, 1, f)) = f
        /\ \A i \in 1..f : SubSeq(ids, 1, f)[i] = ids[i]
    BY <1>9, <2>1, PrefixLen
  <2>3. DOMAIN SubSeq(ids, 1, f) = 1..f /\ DOMAIN ids = 1..Len(ids)
    BY <1>9, <2>2, LenProperties
  <2>4. ToSet(SubSeq(ids, 1, f)) \subseteq ToSet(ids)
    BY <2>1, <2>2, <2>3 DEF ToSet
  <2>. QED BY <1>7, <2>4 DEF f
<1>12. ToSet(got.next) \subseteq W /\ seed \notin ToSet(got.next) /\ ToSet(got.next) \in SUBSET Vertices
  <2>1. ToSet(ids) \in SUBSET Vertices
    BY <1>9 DEF ToSet
  <2>. QED BY <1>9, <1>11, <2>1
<1>13. IsFiniteSet(ToSet(got.next)) /\ Cardinality(ToSet(got.next)) \in Nat /\ Cardinality(ToSet(got.next)) <= k
  <2>1. IsFiniteSet(ToSet(got.next))
    BY <1>12, VerticesAssumption, FS_Subset
  <2>2. Cardinality(ToSet(got.next) \cup {seed}) = Cardinality(ToSet(got.next)) + 1
    BY <1>12, <2>1, FS_AddElement
  <2>3. Cardinality(ToSet(got.next)) \in Nat
    BY <2>1, FS_CardinalityType
  <2>4. ToSet(got.next) \cup {seed} = got.visited
    BY <1>5
  <2>. QED BY <1>4, <1>5, <2>1, <2>2, <2>3, <2>4
<1>14. ~(n >= budget) => {seed} \cup ToSet(got.next) = W
  <2>. SUFFICES ASSUME ~(n >= budget) PROVE {seed} \cup ToSet(got.next) = W
    OBVIOUS
  <2>1. k = n
    BY <1>4
  <2>2. got.next = ids
    BY <1>6, <2>1 DEF got
  <2>. QED BY <1>9, <1>10, <2>2
<1>. HIDE DEF x
<1>15. PulledLaws(x, g, seed, hops, type, budget)
  BY <1>3, <1>3a, <1>4, <1>12, <1>13, <1>14 DEF PulledLaws, W
<1>. QED BY <1>15 DEF x

\* The hops from two sets are the hops from either.
LEMMA WithinUnion ==
  ASSUME NEW g \in Stored, NEW type, NEW A \in SUBSET Vertices, NEW B \in SUBSET Vertices
  PROVE  \A n \in Nat : WithinHops(g, type, A \cup B, n) = WithinHops(g, type, A, n) \cup WithinHops(g, type, B, n)
<1>. DEFINE C == A \cup B
            WA(n) == WithinHops(g, type, A, n)
            WB(n) == WithinHops(g, type, B, n)
            WC(n) == WithinHops(g, type, C, n)
            S == {n \in Nat : WC(n) = WA(n) \cup WB(n)}
<1>1. C \in SUBSET Vertices
  OBVIOUS
<1>. HIDE DEF C
<1>2. WithinLaws(g, type, A) /\ WithinLaws(g, type, B) /\ WithinLaws(g, type, C)
  BY <1>1, WithinIs
<1>3. 0 \in S
  <2>1. WA(0) = A /\ WB(0) = B /\ WC(0) = C
    BY <1>2 DEF WithinLaws
  <2>. QED BY <2>1 DEF C
<1>4. ASSUME NEW n \in Nat, n \in S PROVE n + 1 \in S
  <2>1. n + 1 \in Int /\ n + 1 > 0 /\ (n + 1) - 1 = n
    OBVIOUS
  <2>2. /\ WA(n + 1) = Reached(g, type, WA(n)) /\ WB(n + 1) = Reached(g, type, WB(n))
        /\ WC(n + 1) = Reached(g, type, WC(n))
    BY <1>2, <2>1 DEF WithinLaws
  <2>3. WC(n) = WA(n) \cup WB(n)
    BY <1>4
  <2>. HIDE DEF WA, WB, WC
  <2>4. Reached(g, type, WA(n) \cup WB(n)) = Reached(g, type, WA(n)) \cup Reached(g, type, WB(n))
    BY DEF Reached
  <2>. QED BY <2>2, <2>3, <2>4
<1>. HIDE DEF S
<1>5. Nat \subseteq S
  BY <1>3, <1>4, NatSet
<1>. QED BY <1>5 DEF S, C

\* More hops reach no less.
LEMMA WithinGrows ==
  ASSUME NEW g \in Stored, NEW type, NEW A \in SUBSET Vertices
  PROVE  /\ \A n \in Nat : A \subseteq WithinHops(g, type, A, n) /\ WithinHops(g, type, A, n) \in SUBSET Vertices
         /\ \A n \in Nat, m \in Nat : n <= m => WithinHops(g, type, A, n) \subseteq WithinHops(g, type, A, m)
         /\ \A n \in Nat : \A v \in WithinHops(g, type, A, n) : \A e \in ToSet(OutEdges(g, type, v)) :
              e.dst \in WithinHops(g, type, A, n + 1)
<1>. DEFINE W(n) == WithinHops(g, type, A, n)
<1>1. WithinLaws(g, type, A)
  BY WithinIs
<1>2. W(0) = A /\ \A n \in Nat : W(n) \in SUBSET Vertices /\ W(n + 1) = Reached(g, type, W(n))
  <2>1. W(0) = A
    BY <1>1 DEF WithinLaws
  <2>2. ASSUME NEW n \in Nat PROVE W(n) \in SUBSET Vertices /\ W(n + 1) = Reached(g, type, W(n))
    <3>1. n \in Int /\ n + 1 \in Int /\ n + 1 > 0 /\ (n + 1) - 1 = n
      OBVIOUS
    <3>. QED BY <1>1, <3>1 DEF WithinLaws
  <2>. QED BY <2>1, <2>2
<1>. HIDE DEF W
<1>3. \A n \in Nat : W(n) \subseteq W(n + 1)
  BY <1>2 DEF Reached
<1>4. \A n \in Nat : \A v \in W(n) : \A e \in ToSet(OutEdges(g, type, v)) : e.dst \in W(n + 1)
  <2>. TAKE n \in Nat
  <2>. TAKE v \in W(n)
  <2>. TAKE e \in ToSet(OutEdges(g, type, v))
  <2>1. e.dst \in Reached(g, type, W(n))
    BY DEF Reached
  <2>. QED BY <1>2, <2>1
<1>. DEFINE S == {j \in Nat : \A n \in Nat : W(n) \subseteq W(n + j)}
<1>5. 0 \in S
  OBVIOUS
<1>6. ASSUME NEW j \in Nat, j \in S PROVE j + 1 \in S
  <2>. SUFFICES ASSUME NEW n \in Nat PROVE W(n) \subseteq W(n + (j + 1))
    OBVIOUS
  <2>1. n + (j + 1) = (n + j) + 1 /\ n + j \in Nat
    OBVIOUS
  <2>2. W(n) \subseteq W(n + j)
    BY <1>6
  <2>3. W(n + j) \subseteq W((n + j) + 1)
    BY <1>3, <2>1
  <2>. QED BY <2>1, <2>2, <2>3
<1>. HIDE DEF S
<1>7. Nat \subseteq S
  BY <1>5, <1>6, NatSet
<1>8. \A n \in Nat, m \in Nat : n <= m => W(n) \subseteq W(m)
  <2>. SUFFICES ASSUME NEW n \in Nat, NEW m \in Nat, n <= m PROVE W(n) \subseteq W(m)
    OBVIOUS
  <2>1. m - n \in Nat /\ n + (m - n) = m
    OBVIOUS
  <2>2. W(n) \subseteq W(n + (m - n))
    BY <1>7, <2>1 DEF S
  <2>. QED BY <2>1, <2>2
<1>9. \A n \in Nat : A \subseteq W(n)
  <2>. TAKE n \in Nat
  <2>1. W(0) \subseteq W(n)
    BY <1>8
  <2>. QED BY <1>2, <2>1
<1>. QED BY <1>2, <1>4, <1>8, <1>9 DEF W

-----------------------------------------------------------------------------
(* A call without a source: its types and phases.                          *)

\* The seeds of a window.
Chosen(window) ==
  SubSeq(Ranked(call.dist, window), 1, Min({call.m, Len(Ranked(call.dist, window))}))

\* The types of a call's state.
StreamTypeOK ==
  /\ call \in Calls
  /\ phase \in {"stream", "seeding", "drain", "done"} /\ reason \in Reasons
  /\ streamed \subseteq call.rows
  /\ buf \subseteq streamed \cap call.passes
  /\ seeded \in BOOLEAN
  /\ seeds \in Seq(buf)
  /\ push \in PushStates
  /\ topk \in HeapsOver(Vertices, call.dist) /\ bridges \in HeapsOver(Vertices, call.dist)
  /\ drops \in Nat /\ examined \in Nat /\ injected \in Nat
  /\ fetched \subseteq push.reach

\* What goes with each phase of a call.
PhaseInv ==
  /\ phase = "stream" => reason = "running"
  /\ phase \in {"drain", "done"} => reason # "running" /\ (GraphLeg => seeded)
  /\ phase = "seeding" => GraphLeg /\ ~seeded
  /\ phase # "seeding" => seeds = <<>> /\ push.queue = <<>>
  /\ phase # "seeding" /\ ~seeded => StartLaws(push, <<>>, call.workBudget)
  /\ seeded => GraphLeg
  /\ GraphLeg /\ ~seeded => buf = streamed \cap call.passes
  /\ phase \in {"stream", "seeding"} => fetched = {}
  /\ phase # "done" => answer = <<>>

\* What every other invariant of a call rests on.
StreamOK == StreamTypeOK /\ PhaseInv

\* The arguments' types.
LEMMA CallParts ==
  ASSUME call \in Calls
  PROVE  /\ call.g \in Stored /\ call.dist \in [Vertices -> Nat]
         /\ call.rows \subseteq Vertices /\ call.passes \subseteq call.rows
         /\ call.term \in Nat /\ call.m \in Nat /\ call.hops \in Nat /\ call.type \in Nat
         /\ call.scanBudget \in Nat /\ call.k \in Nat \ {0} /\ call.workBudget \in Nat \ {0}
         /\ call.scoring \in {"membership", "ppr"}
         /\ Vertices \subseteq Int /\ call.dist \in [Vertices -> Int]
<1>1. /\ call.g \in [Vertices -> Seq([dst : Vertices, type : Nat \ {EdgeTypeAny}])]
      /\ call.dist \in [Vertices -> Nat]
      /\ call.rows \subseteq Vertices /\ call.passes \subseteq call.rows
      /\ {call.term, call.m, call.hops, call.type, call.scanBudget} \subseteq Nat
      /\ {call.k, call.workBudget} \subseteq Nat \ {0}
      /\ call.scoring \in {"membership", "ppr"}
  BY CallsAssumption, Zenon
<1>2. call.g \in Stored
  BY <1>1 DEF Stored, Edges
<1>3. Vertices \subseteq Int
  BY VerticesAssumption
<1>4. call.dist \in [Vertices -> Int]
  BY <1>1
<1>. QED BY <1>1, <1>2, <1>3, <1>4

\* The seeds are of the window, at most m of them, each once.
LEMMA ChosenIs ==
  ASSUME call \in Calls, NEW w \in SUBSET Vertices
  PROVE  /\ Chosen(w) \in Seq(w) /\ IsInjective(Chosen(w)) /\ Chosen(w) \in Seq(Vertices)
         /\ Len(Chosen(w)) \in Nat /\ Len(Chosen(w)) <= call.m
         /\ ToSet(Chosen(w)) \subseteq w
         /\ IsFiniteSet(ToSet(Chosen(w))) /\ Cardinality(ToSet(Chosen(w))) = Len(Chosen(w))
<1>. DEFINE r == Ranked(call.dist, w)
            n == Min({call.m, Len(r)})
            c == Chosen(w)
<1>1. call.m \in Nat /\ call.dist \in [Vertices -> Int] /\ Vertices \subseteq Int /\ IsFiniteSet(w)
  BY CallParts, VerticesAssumption, FS_Subset
<1>2. RankedLaws(r, call.dist, w)
  BY <1>1, RankedIs
<1>. HIDE DEF r
<1>3. r \in Seq(w) /\ Len(r) \in Nat /\ IsInjective(r) /\ DOMAIN r = 1..Len(r)
  BY <1>2, LenProperties DEF RankedLaws
<1>4. n = Least(call.m, Len(r))
  BY <1>1, <1>3, LesserIs
<1>. HIDE DEF n
<1>5. n \in Nat /\ n <= call.m /\ n <= Len(r)
  BY <1>1, <1>3, <1>4 DEF Least
<1>6. c = SubSeq(r, 1, n)
  BY DEF Chosen, r, n
<1>. HIDE DEF c
<1>7. c \in Seq(w) /\ Len(c) = n /\ \A i \in 1..n : c[i] = r[i]
  BY <1>3, <1>5, <1>6, PrefixLen
<1>8. DOMAIN c = 1..n
  BY <1>7, LenProperties
<1>9. IsInjective(c)
  <2>. SUFFICES ASSUME NEW i \in 1..n, NEW j \in 1..n, c[i] = c[j] PROVE i = j
    BY <1>8 DEF IsInjective
  <2>1. i \in 1..Len(r) /\ j \in 1..Len(r) /\ r[i] = r[j]
    BY <1>3, <1>5, <1>7
  <2>. QED BY <2>1, <1>3 DEF IsInjective
<1>10. ToSet(c) \subseteq w
  BY <1>7 DEF ToSet
<1>11. c \in [1..n -> w]
  BY <1>7, <1>8
<1>12. IsFiniteSet(ToSet(c)) /\ Cardinality(ToSet(c)) = n
  BY <1>5, <1>9, <1>11, CardInjective
<1>13. c \in Seq(Vertices)
  BY <1>7
<1>. QED BY <1>5, <1>7, <1>9, <1>10, <1>12, <1>13 DEF c

\* The start has nothing.
LEMMA StartEmpty ==
  ASSUME NEW d \in [Vertices -> Nat], NEW budget \in Nat
  PROVE  StartLaws(PushStart(Vertices, d, <<>>, budget), <<>>, budget)
         /\ PushStart(Vertices, d, <<>>, budget).queue = <<>>
<1>. DEFINE r == PushStart(Vertices, d, <<>>, budget)
<1>1. <<>> \in Seq(Vertices) /\ IsInjective(<<>>) /\ ToSet(<<>>) = {}
  BY EmptyInjective, EmptySet
<1>2. StartLaws(r, <<>>, budget)
  BY <1>1, StartIs
<1>. HIDE DEF r
<1>3. r.queue \in Seq(Queued) /\ \A x \in ToSet(r.queue) : x \in {}
  BY <1>1, <1>2, PushParts DEF StartLaws
<1>4. r.queue = <<>>
  <2>1. ToSet(r.queue) = {}
    BY <1>3
  <2>2. Len(r.queue) \in Nat /\ DOMAIN r.queue = 1..Len(r.queue)
    BY <1>3, LenProperties
  <2>3. Len(r.queue) = 0
    <3>. SUFFICES ASSUME Len(r.queue) # 0 PROVE FALSE
      OBVIOUS
    <3>1. 1 \in DOMAIN r.queue
      BY <2>2
    <3>. QED BY <2>1, <3>1 DEF ToSet
  <2>. QED BY <1>3, <2>3
<1>. QED BY <1>2, <1>4 DEF r

\* A call starts so.
LEMMA StreamInitOK == SeedlessInit => StreamOK
<1>. SUFFICES ASSUME SeedlessInit PROVE StreamOK
  OBVIOUS
<1>1. call \in Calls
  BY DEF SeedlessInit
<1>2. StartLaws(push, <<>>, call.workBudget) /\ push.queue = <<>>
  BY <1>1, CallParts, StartEmpty DEF SeedlessInit
<1>3. push \in PushStates /\ push.reach = {}
  BY <1>2, EmptySet DEF StartLaws
<1>4. <<>> \in HeapsOver(Vertices, call.dist)
  BY DEF HeapsOver, IsHeap
<1>5. StreamTypeOK
  <2>1. buf = {} /\ streamed = {} /\ seeds = <<>> /\ <<>> \in Seq(buf)
    BY DEF SeedlessInit
  <2>2. topk \in HeapsOver(Vertices, call.dist) /\ bridges \in HeapsOver(Vertices, call.dist)
    BY <1>4 DEF SeedlessInit
  <2>3. phase = "stream" /\ reason = "running" /\ seeded = FALSE /\ fetched = {}
        /\ drops = 0 /\ examined = 0 /\ injected = 0
    BY DEF SeedlessInit
  <2>. QED BY <1>1, <1>3, <2>1, <2>2, <2>3 DEF StreamTypeOK, Reasons
<1>6. PhaseInv
  BY <1>2 DEF SeedlessInit, PhaseInv
<1>. QED BY <1>5, <1>6 DEF StreamOK

\* Seeding starts with the window's seeds, or with them pushed.
LEMMA SeedingStarts ==
  ASSUME StreamOK, NEW w \in SUBSET Vertices, StartSeeding(w)
  PROVE  /\ phase' = "seeding"
         /\ Ppr => seeds' = <<>> /\ (phase = "stream" /\ ~seeded => StartLaws(push', Chosen(w), call.workBudget))
         /\ ~Ppr => seeds' = Chosen(w) /\ push' = push
<1>1. /\ phase' = "seeding"
      /\ seeds' = IF Ppr THEN <<>> ELSE Chosen(w)
      /\ push' = IF Ppr THEN PushStart(Vertices, call.dist, Chosen(w), push.left) ELSE push
  BY DEF StartSeeding, Chosen
<1>2. ASSUME Ppr, phase = "stream", ~seeded PROVE StartLaws(push', Chosen(w), call.workBudget)
  <2>1. call \in Calls /\ StartLaws(push, <<>>, call.workBudget)
    BY <1>2 DEF StreamOK, StreamTypeOK, PhaseInv
  <2>2. push.left = call.workBudget
    BY <2>1 DEF StartLaws
  <2>3. push' = PushStart(Vertices, call.dist, Chosen(w), call.workBudget)
    BY <1>1, <1>2, <2>2
  <2>4. Chosen(w) \in Seq(Vertices) /\ IsInjective(Chosen(w))
    BY <2>1, ChosenIs
  <2>5. call.dist \in [Vertices -> Nat] /\ call.workBudget \in Nat
    BY <2>1, CallParts
  <2>. QED BY <2>3, <2>4, <2>5, StartIs
<1>. QED BY <1>1, <1>2

-----------------------------------------------------------------------------
(* What its steps do to the push and the heaps.                            *)

\* What pulling one seed does to the reach: it and the vertices D are added.
SeedPulled(r, p, g, type, hops, seed, D) ==
  /\ r \in PushStates /\ D \in SUBSET Vertices
  /\ r.reach = p.reach \cup {seed} \cup D
  /\ r.reserve = p.reserve /\ r.residue = p.residue /\ r.queue = p.queue
  /\ r.used + r.left = p.used + p.left
  /\ IsFiniteSet(D) /\ Cardinality(D) \in Nat /\ p.used + Cardinality(D) <= r.used
  /\ D \subseteq WithinHops(g, type, {seed}, hops)
  /\ ~r.censored => ~p.censored /\ {seed} \cup D = WithinHops(g, type, {seed}, hops)
  /\ r.censored => p.censored \/ r.left = 0
  /\ p.left = 0 => r.left = 0

\* Pulling a seed's reach adds what the pull found (SeedPull).
LEMMA SeedPullIs ==
  ASSUME StreamOK, SeedPull
  PROVE  /\ Head(seeds) \in buf /\ Tail(seeds) \in Seq(buf) /\ seeds' = Tail(seeds)
         /\ \E D : SeedPulled(push', push, call.g, call.type, call.hops, Head(seeds), D)
<1>. DEFINE seed == Head(seeds)
            x == Pull(call.g, seed, call.hops, call.type, push.left)
            p == push
            r == push'
<1>1. call \in Calls /\ push \in PushStates /\ seeds \in Seq(buf) /\ buf \subseteq Vertices
  <2>1. call \in Calls /\ push \in PushStates /\ seeds \in Seq(buf) /\ buf \subseteq call.passes
    BY DEF StreamOK, StreamTypeOK
  <2>. QED BY <2>1, CallParts
<1>2. /\ seeds # <<>> /\ seeds' = Tail(seeds)
      /\ r = IF p.left = 0
             THEN [p EXCEPT !.reach = @ \cup {seed}, !.censored = TRUE]
             ELSE [p EXCEPT !.reach = @ \cup {seed} \cup ToSet(x.ids), !.left = @ - x.used,
                            !.used = @ + x.used, !.censored = @ \/ x.censored]
  BY DEF SeedPull
<1>3. seed \in buf /\ Tail(seeds) \in Seq(buf) /\ seed \in Vertices
  BY <1>1, <1>2, TailIs
<1>4. call.g \in Stored /\ call.hops \in Nat
  BY <1>1, CallParts
<1>5. /\ p.reach \in SUBSET Vertices /\ p.residue \in [Vertices -> Nat] /\ p.reserve \in [Vertices -> Nat]
      /\ p.queue \in Seq(Queued) /\ p.left \in Nat /\ p.used \in Nat /\ p.censored \in BOOLEAN
  BY <1>1, PushParts
<1>6. PulledLaws(x, call.g, seed, call.hops, call.type, p.left)
  BY <1>3, <1>4, <1>5, PullIs
<1>. HIDE DEF seed, x, p, r
<1>7. p \in PushStates
  BY <1>1 DEF p
<1>8. CASE p.left = 0
  <2>. DEFINE wider == p.reach \cup {seed}
              yes == TRUE
  <2>1. wider \in SUBSET Vertices /\ r = [p EXCEPT !.reach = wider, !.censored = yes] /\ yes \in BOOLEAN
    BY <1>2, <1>3, <1>5, <1>8
  <2>2. yes = TRUE
    OBVIOUS
  <2>. HIDE DEF wider, yes
  <2>3. r \in PushStates
    BY <1>7, <2>1 DEF PushStates
  <2>4. /\ r.reach = wider /\ r.reserve = p.reserve /\ r.residue = p.residue /\ r.queue = p.queue
        /\ r.left = p.left /\ r.used = p.used /\ r.censored = yes
    BY <1>7, <2>1 DEF PushStates
  <2>5. IsFiniteSet({}) /\ Cardinality({}) = 0
    BY FS_EmptySet
  <2>6. SeedPulled(r, p, call.g, call.type, call.hops, seed, {})
    BY <1>5, <1>8, <2>2, <2>3, <2>4, <2>5 DEF SeedPulled, wider
  <2>. QED BY <1>2, <1>3, <2>6 DEF seed, p, r
<1>9. CASE p.left # 0
  <2>. DEFINE D == ToSet(x.ids)
              wider == p.reach \cup {seed} \cup D
              l == p.left - x.used
              u == p.used + x.used
              c == p.censored \/ x.censored
  <2>a. x.used \in Nat /\ x.used <= p.left /\ D \in SUBSET Vertices
    BY <1>6 DEF PulledLaws
  <2>b. x.censored \in BOOLEAN
    BY <1>6 DEF PulledLaws
  <2>0. x.used \in Nat /\ x.used <= p.left /\ D \in SUBSET Vertices /\ x.censored \in BOOLEAN
    BY <2>a, <2>b
  <2>1. wider \in SUBSET Vertices /\ l \in Nat /\ u \in Nat /\ c \in BOOLEAN
    BY <1>3, <1>5, <2>0
  <2>2. r = [p EXCEPT !.reach = wider, !.left = l, !.used = u, !.censored = c]
    BY <1>2, <1>9
  <2>. HIDE DEF wider, l, u, c
  <2>3. r \in PushStates
    BY <1>7, <2>1, <2>2 DEF PushStates
  <2>4. /\ r.reach = wider /\ r.reserve = p.reserve /\ r.residue = p.residue /\ r.queue = p.queue
        /\ r.left = l /\ r.used = u /\ r.censored = c
    BY <1>7, <2>2 DEF PushStates
  <2>5. r.used + r.left = p.used + p.left /\ r.used = p.used + x.used /\ (r.left = 0 <=> x.used = p.left)
    BY <1>5, <2>0, <2>4 DEF l, u
  <2>6. /\ IsFiniteSet(D) /\ Cardinality(D) \in Nat /\ Cardinality(D) <= x.used
        /\ D \subseteq WithinHops(call.g, call.type, {seed}, call.hops)
        /\ ~x.censored => {seed} \cup D = WithinHops(call.g, call.type, {seed}, call.hops)
        /\ x.censored => x.used = p.left
    BY <1>6 DEF PulledLaws
  <2>7. p.used + Cardinality(D) <= r.used
    BY <1>5, <2>0, <2>5, <2>6
  <2>8. /\ ~r.censored => ~p.censored /\ {seed} \cup D = WithinHops(call.g, call.type, {seed}, call.hops)
        /\ r.censored => p.censored \/ r.left = 0
    BY <1>5, <2>0, <2>4, <2>5, <2>6 DEF c
  <2>9. r.reach = p.reach \cup {seed} \cup D
    BY <2>4 DEF wider
  <2>. HIDE DEF D
  <2>10. SeedPulled(r, p, call.g, call.type, call.hops, seed, D)
    BY <1>9, <2>0, <2>3, <2>4, <2>5, <2>6, <2>7, <2>8, <2>9 DEF SeedPulled
  <2>. QED BY <1>2, <1>3, <2>10 DEF seed, p, r
<1>. QED BY <1>8, <1>9

\* One pop of the forward push (PushPop).
LEMMA PushPopIs ==
  ASSUME StreamOK, PushPop
  PROVE  \E D : PoppedLaws(push', push, call.g, call.type, call.hops, D)
<1>1. call \in Calls /\ push \in PushStates /\ push.queue # <<>>
      /\ push' = Popped(push, call.g, call.type, call.hops)
  BY DEF StreamOK, StreamTypeOK, PushPop
<1>2. call.g \in Stored /\ call.hops \in Nat
  BY <1>1, CallParts
<1>3. \E D : PoppedLaws(Popped(push, call.g, call.type, call.hops), push, call.g, call.type, call.hops, D)
  BY <1>1, <1>2, PopIs
<1>. QED BY <1>1, <1>3

\* The heaps stay heaps under an offer.
LEMMA OfferedHeap ==
  ASSUME call \in Calls, NEW h \in HeapsOver(Vertices, call.dist), NEW v \in call.passes
  PROVE  Offered(call.dist, call.k, h, v) \in HeapsOver(Vertices, call.dist)
<1>1. call.dist \in [Vertices -> Nat] /\ call.k \in Nat \ {0} /\ v \in Vertices
  BY CallParts
<1>. QED BY <1>1, OfferHeap

\* And under offers.
LEMMA OfferedHeaps ==
  ASSUME call \in Calls, NEW h \in HeapsOver(Vertices, call.dist), NEW s \in Seq(Vertices)
  PROVE  Offers(call.dist, call.k, h, s) \in HeapsOver(Vertices, call.dist)
<1>1. call.dist \in [Vertices -> Nat] /\ call.k \in Nat \ {0}
  BY CallParts
<1>2. OffersLaws(Vertices, call.dist, call.k, h)
  BY <1>1, OffersSteps
<1>. QED BY <1>2 DEF OffersLaws

\* The window by distance, and the members among it.
RankedWindow == Ranked(call.dist, buf)
MetWindow == IF Ppr THEN <<>> ELSE Only(RankedWindow, push.reach)

\* What is admitted: the window, nearest first, and its members.
LEMMA WindowIs ==
  ASSUME StreamOK
  PROVE  /\ RankedWindow \in Seq(Vertices) /\ IsInjective(RankedWindow) /\ ToSet(RankedWindow) = buf
         /\ MetWindow \in Seq(Vertices) /\ IsInjective(MetWindow)
         /\ ToSet(MetWindow) = IF Ppr THEN {} ELSE buf \cap push.reach
         /\ Len(MetWindow) = Cardinality(ToSet(MetWindow)) /\ Len(MetWindow) \in Nat
<1>1. call \in Calls /\ buf \subseteq call.passes
  BY DEF StreamOK, StreamTypeOK
<1>2. call.dist \in [Vertices -> Int] /\ Vertices \subseteq Int /\ buf \in SUBSET Vertices /\ IsFiniteSet(buf)
  BY <1>1, CallParts, VerticesAssumption, FS_Subset
<1>3. RankedLaws(RankedWindow, call.dist, buf)
  BY <1>2, RankedIs DEF RankedWindow
<1>4. RankedWindow \in Seq(Vertices) /\ IsInjective(RankedWindow) /\ ToSet(RankedWindow) = buf
  BY <1>2, <1>3 DEF RankedLaws
<1>5. /\ MetWindow \in Seq(Vertices) /\ IsInjective(MetWindow)
      /\ ToSet(MetWindow) = IF Ppr THEN {} ELSE buf \cap push.reach
  <2>1. CASE Ppr
    BY <2>1, EmptyInjective, EmptySet DEF MetWindow
  <2>2. CASE ~Ppr
    <3>. DEFINE o == Only(RankedWindow, push.reach)
    <3>1. o \in Seq(Vertices) /\ ToSet(o) = ToSet(RankedWindow) \cap push.reach /\ IsInjective(o)
      BY <1>4, OnlyRanked
    <3>2. MetWindow = o
      BY <2>2 DEF MetWindow
    <3>. HIDE DEF o
    <3>. QED BY <1>4, <2>2, <3>1, <3>2
  <2>. QED BY <2>1, <2>2
<1>. DEFINE n == Len(MetWindow)
<1>6. n \in Nat /\ DOMAIN MetWindow = 1..n /\ MetWindow \in [1..n -> Vertices]
  BY <1>5, LenProperties
<1>7. Cardinality(ToSet(MetWindow)) = n
  BY <1>5, <1>6, CardInjective
<1>. QED BY <1>4, <1>5, <1>6, <1>7

\* Admitting the window offers it and its members.
LEMMA AdmitIs ==
  ASSUME AdmitWindow
  PROVE  /\ topk' = Offers(call.dist, call.k, topk, RankedWindow)
         /\ bridges' = Offers(call.dist, call.k, bridges, MetWindow)
         /\ injected' = injected + Len(MetWindow)
         /\ phase = "seeding" /\ seeds = <<>> /\ push.queue = <<>>
         /\ drops' = 0 /\ seeded' = TRUE /\ phase' = (IF reason = "running" THEN "stream" ELSE "drain")
         /\ UNCHANGED <<call, reason, streamed, buf, seeds, push, examined, fetched, answer>>
BY DEF AdmitWindow, Offers, RankedWindow, MetWindow

-----------------------------------------------------------------------------
(* Its steps keep the types and phases.                                    *)

\* A row that is excluded.
LEMMA ExcludedOK == ASSUME StreamOK, NEW row \in call.rows, StreamExcluded(row) PROVE StreamOK'
<1>1. StreamTypeOK'
  BY DEF StreamOK, StreamTypeOK, StreamExcluded, Pulls
<1>2. PhaseInv'
  BY DEF StreamOK, StreamTypeOK, PhaseInv, StreamExcluded, Pulls, GraphLeg
<1>. QED BY <1>1, <1>2 DEF StreamOK

\* A push that starts has its type, and so has what it leaves unchanged.
LEMMA SeedingOK ==
  ASSUME StreamOK, phase = "stream", ~seeded, NEW w \in SUBSET Vertices, StartSeeding(w)
  PROVE  push' \in PushStates /\ seeds' \in Seq(w) /\ phase' = "seeding"
<1>1. /\ phase' = "seeding"
      /\ Ppr => seeds' = <<>> /\ StartLaws(push', Chosen(w), call.workBudget)
      /\ ~Ppr => seeds' = Chosen(w) /\ push' = push
  BY SeedingStarts
<1>2. call \in Calls /\ push \in PushStates
  BY DEF StreamOK, StreamTypeOK
<1>3. Chosen(w) \in Seq(w)
  BY <1>2, ChosenIs
<1>4. <<>> \in Seq(w)
  OBVIOUS
<1>. QED BY <1>1, <1>2, <1>3, <1>4 DEF StartLaws

\* A row that goes to the window.
LEMMA BufferedOK == ASSUME StreamOK, NEW row \in call.rows, StreamBuffered(row) PROVE StreamOK'
<1>1. /\ phase = "stream" /\ row \in call.passes /\ GraphLeg /\ ~seeded
      /\ streamed' = streamed \cup {row} /\ examined' = examined + 1 /\ buf' = buf \cup {row}
      /\ UNCHANGED <<call, reason, seeded, topk, bridges, drops, injected, fetched, answer>>
  BY DEF StreamBuffered, Pulls
<1>2. /\ call \in Calls /\ seeds \in Seq(buf) /\ push \in PushStates
      /\ buf = streamed \cap call.passes /\ streamed \subseteq call.rows
  BY <1>1 DEF StreamOK, StreamTypeOK, PhaseInv
<1>3. buf' = streamed' \cap call.passes /\ buf' \in SUBSET Vertices
  BY <1>1, <1>2, CallParts
<1>4. \/ UNCHANGED <<phase, seeds, push>>
      \/ push' \in PushStates /\ seeds' \in Seq(buf') /\ phase' = "seeding"
  <2>1. CASE Cardinality(buf') < Window[call.m]
    BY <2>1 DEF StreamBuffered
  <2>2. CASE ~(Cardinality(buf') < Window[call.m])
    <3>1. StartSeeding(buf')
      BY <2>2 DEF StreamBuffered
    <3>. QED BY <1>1, <1>3, <3>1, SeedingOK
  <2>. QED BY <2>1, <2>2
<1>5. seeds \in Seq(buf')
  BY <1>1, <1>2
<1>5a. push' \in PushStates /\ seeds' \in Seq(buf') /\ phase' \in {"stream", "seeding", "drain", "done"}
  BY <1>1, <1>2, <1>4, <1>5
<1>5b. buf' \subseteq streamed' \cap call.passes /\ streamed' \subseteq call.rows /\ examined' \in Nat
  BY <1>1, <1>2, <1>3 DEF StreamOK, StreamTypeOK
<1>6. StreamTypeOK'
  BY <1>1, <1>5a, <1>5b DEF StreamOK, StreamTypeOK, PhaseInv
<1>7. PhaseInv'
  BY <1>1, <1>2, <1>3, <1>4 DEF StreamOK, StreamTypeOK, PhaseInv, GraphLeg
<1>. QED BY <1>6, <1>7 DEF StreamOK

\* The end of the stream.
LEMMA EndsOK == ASSUME StreamOK, StreamEnds PROVE StreamOK'
<1>1. /\ phase = "stream" /\ reason' \in {"scan_budget", "stream_end_unknown"}
      /\ UNCHANGED <<call, streamed, buf, seeded, topk, bridges, drops, examined, injected, fetched, answer>>
  BY DEF StreamEnds
<1>2. /\ call \in Calls /\ seeds \in Seq(buf) /\ push \in PushStates
      /\ buf \subseteq streamed \cap call.passes /\ streamed \subseteq call.rows
  BY <1>1 DEF StreamOK, StreamTypeOK
<1>3. buf \in SUBSET Vertices
  BY <1>1, <1>2, CallParts
<1>4. \/ (GraphLeg => seeded) /\ phase' = "drain" /\ UNCHANGED <<seeds, push>>
      \/ GraphLeg /\ ~seeded /\ push' \in PushStates /\ seeds' \in Seq(buf) /\ phase' = "seeding"
  <2>1. CASE GraphLeg /\ ~seeded
    <3>1. StartSeeding(buf)
      BY <2>1 DEF StreamEnds
    <3>. QED BY <1>1, <1>3, <2>1, <3>1, SeedingOK
  <2>2. CASE ~(GraphLeg /\ ~seeded)
    BY <2>2 DEF StreamEnds
  <2>. QED BY <2>1, <2>2
<1>5. push' \in PushStates /\ seeds' \in Seq(buf) /\ phase' \in {"stream", "seeding", "drain", "done"}
  BY <1>2, <1>4
<1>6. StreamTypeOK'
  BY <1>1, <1>5 DEF StreamOK, StreamTypeOK, PhaseInv, Reasons
<1>7. PhaseInv'
  BY <1>1, <1>2, <1>3, <1>4 DEF StreamOK, StreamTypeOK, PhaseInv, GraphLeg
<1>. QED BY <1>6, <1>7 DEF StreamOK

\* A row that is ranked.
LEMMA StreamRankedOK == ASSUME StreamOK, NEW row \in call.rows, StreamRanked(row) PROVE StreamOK'
<1>1. /\ phase = "stream" /\ row \in call.passes /\ (GraphLeg => seeded)
      /\ streamed' = streamed \cup {row} /\ examined' = examined + 1
      /\ topk' = Offered(call.dist, call.k, topk, row)
      /\ (bridges' = Offered(call.dist, call.k, bridges, row) \/ bridges' = bridges)
      /\ injected' \in {injected, injected + 1}
      /\ drops' \in {0, drops + 1, drops}
      /\ (phase' = "drain" /\ reason' = "term_cond") \/ UNCHANGED <<phase, reason>>
      /\ UNCHANGED <<call, buf, seeded, seeds, push, fetched, answer>>
  BY DEF StreamRanked, Pulls
<1>2. /\ call \in Calls /\ streamed \subseteq call.rows /\ drops \in Nat /\ examined \in Nat /\ injected \in Nat
      /\ topk \in HeapsOver(Vertices, call.dist) /\ bridges \in HeapsOver(Vertices, call.dist)
  BY DEF StreamOK, StreamTypeOK
<1>3. /\ Offered(call.dist, call.k, topk, row) \in HeapsOver(Vertices, call.dist)
      /\ Offered(call.dist, call.k, bridges, row) \in HeapsOver(Vertices, call.dist)
  BY <1>1, <1>2, OfferedHeap
<1>4. topk' \in HeapsOver(Vertices, call.dist) /\ bridges' \in HeapsOver(Vertices, call.dist)
  BY <1>1, <1>2, <1>3
<1>5. drops' \in Nat /\ examined' \in Nat /\ injected' \in Nat
  BY <1>1, <1>2
<1>6. streamed' \subseteq call.rows /\ buf \subseteq streamed' \cap call.passes
  BY <1>1, <1>2 DEF StreamOK, StreamTypeOK
<1>7. StreamTypeOK'
  BY <1>1, <1>2, <1>4, <1>5, <1>6 DEF StreamOK, StreamTypeOK, Reasons
<1>8. PhaseInv'
  BY <1>1, <1>2 DEF StreamOK, StreamTypeOK, PhaseInv, GraphLeg
<1>. QED BY <1>7, <1>8 DEF StreamOK

\* A seed that is pulled.
LEMMA SeedPullOK == ASSUME StreamOK, SeedPull PROVE StreamOK'
<1>1. /\ phase = "seeding" /\ UNCHANGED <<call, phase, reason, streamed, buf, seeded, topk, bridges,
                 drops, examined, injected, fetched, answer>>
  BY DEF SeedPull
<1>2. Tail(seeds) \in Seq(buf) /\ seeds' = Tail(seeds)
  BY SeedPullIs
<1>3. PICK D : SeedPulled(push', push, call.g, call.type, call.hops, Head(seeds), D)
  BY SeedPullIs
<1>4. push' \in PushStates /\ push.reach \subseteq push'.reach
  BY <1>3 DEF SeedPulled
<1>5. StreamTypeOK'
  BY <1>1, <1>2, <1>4 DEF StreamOK, StreamTypeOK
<1>6. PhaseInv'
  BY <1>1 DEF StreamOK, StreamTypeOK, PhaseInv, GraphLeg
<1>. QED BY <1>5, <1>6 DEF StreamOK

\* A pop.
LEMMA PushPopOK == ASSUME StreamOK, PushPop PROVE StreamOK'
<1>1. /\ phase = "seeding" /\ UNCHANGED <<call, phase, reason, streamed, buf, seeded, seeds, topk, bridges,
                 drops, examined, injected, fetched, answer>>
  BY DEF PushPop
<1>3. PICK D : PoppedLaws(push', push, call.g, call.type, call.hops, D)
  BY PushPopIs
<1>4. push' \in PushStates /\ push.reach \subseteq push'.reach
  BY <1>3 DEF PoppedLaws
<1>5. StreamTypeOK'
  BY <1>1, <1>4 DEF StreamOK, StreamTypeOK
<1>6. PhaseInv'
  BY <1>1 DEF StreamOK, StreamTypeOK, PhaseInv, GraphLeg
<1>. QED BY <1>5, <1>6 DEF StreamOK

\* The window's admission.
LEMMA AdmitOK == ASSUME StreamOK, AdmitWindow PROVE StreamOK'
<1>1. /\ topk' = Offers(call.dist, call.k, topk, RankedWindow)
      /\ bridges' = Offers(call.dist, call.k, bridges, MetWindow)
      /\ injected' = injected + Len(MetWindow)
      /\ phase = "seeding" /\ seeds = <<>> /\ push.queue = <<>>
      /\ drops' = 0 /\ seeded' = TRUE /\ phase' = (IF reason = "running" THEN "stream" ELSE "drain")
      /\ UNCHANGED <<call, reason, streamed, buf, seeds, push, examined, fetched, answer>>
  BY AdmitIs
<1>2. RankedWindow \in Seq(Vertices) /\ MetWindow \in Seq(Vertices) /\ Len(MetWindow) \in Nat
  BY WindowIs
<1>3. /\ call \in Calls /\ injected \in Nat
      /\ topk \in HeapsOver(Vertices, call.dist) /\ bridges \in HeapsOver(Vertices, call.dist)
  BY DEF StreamOK, StreamTypeOK
<1>4. /\ Offers(call.dist, call.k, topk, RankedWindow) \in HeapsOver(Vertices, call.dist)
      /\ Offers(call.dist, call.k, bridges, MetWindow) \in HeapsOver(Vertices, call.dist)
  BY <1>2, <1>3, OfferedHeaps
<1>5. injected' \in Nat
  BY <1>1, <1>2, <1>3
<1>6. StreamTypeOK'
  BY <1>1, <1>3, <1>4, <1>5 DEF StreamOK, StreamTypeOK
<1>7. PhaseInv'
  BY <1>1 DEF StreamOK, StreamTypeOK, PhaseInv, GraphLeg
<1>. QED BY <1>6, <1>7 DEF StreamOK

\* A bridge that is fetched.
LEMMA FetchOK == ASSUME StreamOK, NEW v \in ToFetch, FetchBridge(v) PROVE StreamOK'
<1>1. /\ phase = "drain" /\ fetched' = fetched \cup {v} /\ examined' = examined + 1
      /\ injected' \in {injected, injected + 1}
      /\ bridges' = bridges \/ (v \in call.passes /\ bridges' = Offered(call.dist, call.k, bridges, v))
      /\ UNCHANGED <<call, phase, reason, streamed, buf, seeded, seeds, push, topk, drops, answer>>
  BY DEF FetchBridge
<1>2. /\ call \in Calls /\ injected \in Nat /\ examined \in Nat /\ bridges \in HeapsOver(Vertices, call.dist)
      /\ fetched \subseteq push.reach
  BY DEF StreamOK, StreamTypeOK
<1>3. bridges' \in HeapsOver(Vertices, call.dist)
  BY <1>1, <1>2, OfferedHeap
<1>4. fetched' \subseteq push.reach /\ injected' \in Nat /\ examined' \in Nat
  BY <1>1, <1>2 DEF ToFetch
<1>5. StreamTypeOK'
  BY <1>1, <1>3, <1>4 DEF StreamOK, StreamTypeOK
<1>6. PhaseInv'
  BY <1>1 DEF StreamOK, StreamTypeOK, PhaseInv, GraphLeg
<1>. QED BY <1>5, <1>6 DEF StreamOK

\* The answer.
LEMMA FinalizeOK == ASSUME StreamOK, Finalize PROVE StreamOK'
<1>1. /\ phase = "drain" /\ phase' = "done"
      /\ UNCHANGED <<call, reason, streamed, buf, seeded, seeds, push, topk, bridges,
                 drops, examined, injected, fetched>>
  BY DEF Finalize
<1>5. StreamTypeOK'
  BY <1>1 DEF StreamOK, StreamTypeOK
<1>6. PhaseInv'
  BY <1>1 DEF StreamOK, StreamTypeOK, PhaseInv, GraphLeg
<1>. QED BY <1>5, <1>6 DEF StreamOK

\* No step of a call without a source breaks its types and phases.
LEMMA StreamStepOK == StreamOK /\ [SeedlessNext]_seedlessVars => StreamOK'
<1>. SUFFICES ASSUME StreamOK, [SeedlessNext]_seedlessVars PROVE StreamOK'
  OBVIOUS
<1>1. CASE UNCHANGED seedlessVars
  BY <1>1 DEF seedlessVars, StreamOK, StreamTypeOK, PhaseInv, GraphLeg
<1>. QED BY <1>1, ExcludedOK, BufferedOK, StreamRankedOK, EndsOK, SeedPullOK, PushPopOK, AdmitOK, FetchOK, FinalizeOK
     DEF SeedlessNext

-----------------------------------------------------------------------------
(* The heaps.                                                              *)

\* The rows that the heap has been offered: none before the window is admitted.
MetRows == IF GraphLeg /\ ~seeded THEN {} ELSE streamed \cap call.passes

\* The members that the bridges' heap has been offered, from the stream or by id.
MetBridges == IF Ppr \/ (GraphLeg /\ ~seeded) THEN {} ELSE Members \cap (streamed \cup fetched)

\* Each heap holds k nearest of what it was offered, and the members were
\* counted.
HeapsInv ==
  /\ Held(call.dist, call.k, topk, MetRows)
  /\ Held(call.dist, call.k, bridges, MetBridges)
  /\ ~Ppr => injected = Cardinality(MetBridges)

\* The sets are finite sets of vertices.
LEMMA MetIs ==
  ASSUME StreamOK
  PROVE  /\ call \in Calls /\ topk \in Seq(Vertices) /\ bridges \in Seq(Vertices)
         /\ streamed \in SUBSET Vertices /\ call.passes \in SUBSET Vertices
         /\ MetRows \in SUBSET Vertices /\ IsFiniteSet(MetRows)
         /\ MetBridges \in SUBSET Vertices /\ IsFiniteSet(MetBridges) /\ Cardinality(MetBridges) \in Nat
         /\ ~GraphLeg => push.reach = {}
<1>1. /\ call \in Calls /\ streamed \subseteq call.rows /\ push \in PushStates
      /\ topk \in HeapsOver(Vertices, call.dist) /\ bridges \in HeapsOver(Vertices, call.dist)
  BY DEF StreamOK, StreamTypeOK
<1>2. topk \in Seq(Vertices) /\ bridges \in Seq(Vertices)
  BY <1>1 DEF HeapsOver
<1>3. streamed \in SUBSET Vertices /\ call.passes \in SUBSET Vertices
  BY <1>1, CallParts
<1>4. MetRows \in SUBSET Vertices /\ MetBridges \in SUBSET Vertices
  BY <1>3 DEF MetRows, MetBridges, Members
<1>5. IsFiniteSet(MetRows) /\ IsFiniteSet(MetBridges) /\ Cardinality(MetBridges) \in Nat
  BY <1>4, VerticesAssumption, FS_Subset, FS_CardinalityType
<1>6. ASSUME ~GraphLeg PROVE push.reach = {}
  <2>1. phase # "seeding" /\ ~seeded
    BY <1>6 DEF StreamOK, PhaseInv
  <2>2. push.reach = ToSet(<<>>)
    BY <2>1 DEF StreamOK, PhaseInv, StartLaws
  <2>. QED BY <2>2, EmptySet, Zenon
<1>. QED BY <1>1, <1>2, <1>3, <1>4, <1>5, <1>6

\* An offer of a row that is new to a heap.
LEMMA OfferMet ==
  ASSUME call \in Calls, NEW h \in Seq(Vertices), NEW ids \in SUBSET Vertices, NEW v \in call.passes,
         v \notin ids, Held(call.dist, call.k, h, ids)
  PROVE  OfferLaws(Offered(call.dist, call.k, h, v), call.dist, call.k, h, v, ids, Vertices)
<1>1. call.dist \in [Vertices -> Nat] /\ call.k \in Nat \ {0} /\ v \in Vertices
  BY CallParts
<1>2. IsFiniteSet(ids)
  BY VerticesAssumption, FS_Subset
<1>. QED BY <1>1, <1>2, Offer

\* Where neither heap and neither set changes, nothing is to be shown.
LEMMA HeapsSame ==
  ASSUME HeapsInv, UNCHANGED <<call, topk, bridges, injected>>, MetRows' = MetRows, MetBridges' = MetBridges
  PROVE  HeapsInv'
BY DEF HeapsInv, Ppr

\* One member more is counted.
LEMMA CountOne ==
  ASSUME NEW S \in SUBSET Vertices, NEW v \in Vertices, v \notin S
  PROVE  Cardinality(S \cup {v}) = Cardinality(S) + 1
BY VerticesAssumption, FS_Subset, FS_AddElement

\* A row that is ranked is offered, to the bridges too when it is reached.
LEMMA RankedHeaps == ASSUME StreamOK, HeapsInv, NEW row \in call.rows, StreamRanked(row) PROVE HeapsInv'
<1>. DEFINE bridge == ~Ppr /\ row \in push.reach
<1>1. /\ phase = "stream" /\ row \in call.passes /\ (GraphLeg => seeded) /\ row \notin streamed
      /\ streamed' = streamed \cup {row}
      /\ topk' = Offered(call.dist, call.k, topk, row)
      /\ bridges' = (IF bridge THEN Offered(call.dist, call.k, bridges, row) ELSE bridges)
      /\ injected' = (IF bridge THEN injected + 1 ELSE injected)
      /\ UNCHANGED <<call, seeded, push, fetched>>
  BY DEF StreamRanked, Pulls
<1>2. fetched = {}
  BY <1>1 DEF StreamOK, PhaseInv
<1>3. /\ call \in Calls /\ topk \in Seq(Vertices) /\ bridges \in Seq(Vertices)
      /\ MetRows \in SUBSET Vertices /\ MetBridges \in SUBSET Vertices /\ row \in Vertices
  BY <1>1, MetIs
<1>4. MetRows = streamed \cap call.passes /\ MetRows' = MetRows \cup {row} /\ row \notin MetRows
  BY <1>1 DEF MetRows, GraphLeg
<1>5. Held(call.dist, call.k, topk, MetRows) /\ Held(call.dist, call.k, bridges, MetBridges)
  BY DEF HeapsInv
<1>6. Held(call.dist, call.k, topk', MetRows')
  <2>1. OfferLaws(Offered(call.dist, call.k, topk, row), call.dist, call.k, topk, row, MetRows, Vertices)
    BY <1>1, <1>3, <1>4, <1>5, OfferMet
  <2>. QED BY <1>1, <1>4, <2>1 DEF OfferLaws
<1>7. CASE bridge
  <2>1. MetBridges' = MetBridges \cup {row} /\ row \notin MetBridges
    BY <1>1, <1>2, <1>7 DEF MetBridges, GraphLeg, Members, Ppr
  <2>2. OfferLaws(Offered(call.dist, call.k, bridges, row), call.dist, call.k, bridges, row, MetBridges, Vertices)
    BY <1>1, <1>3, <1>5, <2>1, OfferMet
  <2>3. Held(call.dist, call.k, bridges', MetBridges')
    BY <1>1, <1>7, <2>1, <2>2 DEF OfferLaws
  <2>4. injected' = Cardinality(MetBridges')
    BY <1>1, <1>3, <1>7, <2>1, CountOne DEF HeapsInv
  <2>. QED BY <1>1, <1>6, <2>3, <2>4 DEF HeapsInv
<1>8. CASE ~bridge
  <2>1. MetBridges' = MetBridges
    BY <1>1, <1>2, <1>8 DEF MetBridges, GraphLeg, Members, Ppr
  <2>. QED BY <1>1, <1>5, <1>6, <1>8, <2>1 DEF HeapsInv, Ppr
<1>. QED BY <1>7, <1>8

\* The window is offered whole.
LEMMA AdmitHeaps == ASSUME StreamOK, HeapsInv, AdmitWindow PROVE HeapsInv'
<1>1. /\ topk' = Offers(call.dist, call.k, topk, RankedWindow)
      /\ bridges' = Offers(call.dist, call.k, bridges, MetWindow)
      /\ injected' = injected + Len(MetWindow)
      /\ phase = "seeding" /\ seeded' = TRUE
      /\ UNCHANGED <<call, streamed, push, fetched>>
  BY AdmitIs
<1>2. /\ GraphLeg /\ ~seeded /\ fetched = {} /\ buf = streamed \cap call.passes
  BY <1>1 DEF StreamOK, PhaseInv
<1>3. /\ MetRows = {} /\ MetBridges = {} /\ MetRows' = buf
      /\ MetBridges' = IF Ppr THEN {} ELSE buf \cap push.reach
  BY <1>1, <1>2 DEF MetRows, MetBridges, Members, GraphLeg, Ppr
<1>4. /\ RankedWindow \in Seq(Vertices) /\ IsInjective(RankedWindow) /\ ToSet(RankedWindow) = buf
      /\ MetWindow \in Seq(Vertices) /\ IsInjective(MetWindow)
      /\ ToSet(MetWindow) = IF Ppr THEN {} ELSE buf \cap push.reach
      /\ Len(MetWindow) = Cardinality(ToSet(MetWindow)) /\ Len(MetWindow) \in Nat
  BY WindowIs
<1>5. call \in Calls /\ topk \in Seq(Vertices) /\ bridges \in Seq(Vertices)
  BY MetIs
<1>6. call.dist \in [Vertices -> Nat] /\ call.k \in Nat \ {0}
  BY <1>5, CallParts
<1>7. IsFiniteSet({}) /\ Cardinality({}) = 0 /\ {} \in SUBSET Vertices
  BY FS_EmptySet
<1>8. Held(call.dist, call.k, topk, {}) /\ Held(call.dist, call.k, bridges, {})
  BY <1>3 DEF HeapsInv
<1>9. ToSet(RankedWindow) \cap {} = {} /\ ToSet(MetWindow) \cap {} = {}
  OBVIOUS
<1>10. OffersHold(Offers(call.dist, call.k, topk, RankedWindow), call.dist, call.k, {} \cup ToSet(RankedWindow), Vertices)
  BY <1>4, <1>5, <1>6, <1>7, <1>8, <1>9, OffersHeld
<1>11. OffersHold(Offers(call.dist, call.k, bridges, MetWindow), call.dist, call.k, {} \cup ToSet(MetWindow), Vertices)
  BY <1>4, <1>5, <1>6, <1>7, <1>8, <1>9, OffersHeld
<1>12. {} \cup ToSet(RankedWindow) = MetRows' /\ {} \cup ToSet(MetWindow) = MetBridges'
  BY <1>3, <1>4
<1>13. Held(call.dist, call.k, topk', MetRows') /\ Held(call.dist, call.k, bridges', MetBridges')
  BY <1>1, <1>10, <1>11, <1>12 DEF OffersHold
<1>14. ~Ppr => injected' = Cardinality(MetBridges')
  BY <1>1, <1>3, <1>4, <1>7, <1>12 DEF HeapsInv
<1>. QED BY <1>1, <1>13, <1>14 DEF HeapsInv, Ppr

\* A bridge that is fetched is new to its heap.
LEMMA FetchHeaps == ASSUME StreamOK, HeapsInv, NEW v \in ToFetch, FetchBridge(v) PROVE HeapsInv'
<1>1. /\ phase = "drain" /\ fetched' = fetched \cup {v}
      /\ IF v \in call.passes
         THEN /\ injected' = injected + 1
              /\ bridges' = IF Ppr THEN bridges ELSE Offered(call.dist, call.k, bridges, v)
         ELSE UNCHANGED <<injected, bridges>>
      /\ UNCHANGED <<call, streamed, seeded, push, topk>>
  BY DEF FetchBridge
<1>2. GraphLeg => seeded
  BY <1>1 DEF StreamOK, PhaseInv
<1>3. /\ call \in Calls /\ bridges \in Seq(Vertices) /\ MetBridges \in SUBSET Vertices
      /\ call.passes \in SUBSET Vertices /\ (~GraphLeg => push.reach = {})
  BY MetIs
<1>4. MetRows' = MetRows
  BY <1>1 DEF MetRows, GraphLeg
<1>5. CASE v \notin call.passes \/ Ppr
  <2>1. MetBridges' = MetBridges
    BY <1>1, <1>5 DEF MetBridges, Members, GraphLeg, Ppr
  <2>. QED BY <1>1, <1>4, <1>5, <2>1 DEF HeapsInv, Ppr
<1>6. CASE v \in call.passes /\ ~Ppr
  <2>1. v \in push.reach /\ v \notin fetched /\ v \notin Seen
    BY <1>6 DEF ToFetch
  <2>2. v \notin streamed
    BY <1>3, <1>6, <2>1 DEF Seen
  <2>3. MetBridges' = MetBridges \cup {v} /\ v \notin MetBridges
    BY <1>1, <1>2, <1>6, <2>1, <2>2 DEF MetBridges, Members, GraphLeg, Ppr
  <2>4. Held(call.dist, call.k, bridges, MetBridges)
    BY DEF HeapsInv
  <2>5. OfferLaws(Offered(call.dist, call.k, bridges, v), call.dist, call.k, bridges, v, MetBridges, Vertices)
    BY <1>3, <1>6, <2>3, <2>4, OfferMet
  <2>6. Held(call.dist, call.k, bridges', MetBridges')
    BY <1>1, <1>6, <2>3, <2>5 DEF OfferLaws
  <2>7. injected' = Cardinality(MetBridges')
    BY <1>1, <1>3, <1>6, <2>3, CountOne DEF HeapsInv
  <2>. QED BY <1>1, <1>4, <2>6, <2>7 DEF HeapsInv
<1>. QED BY <1>5, <1>6

\* No step breaks the heaps.
LEMMA HeapsStep == StreamOK /\ HeapsInv /\ [SeedlessNext]_seedlessVars => HeapsInv'
<1>. SUFFICES ASSUME StreamOK, HeapsInv, [SeedlessNext]_seedlessVars PROVE HeapsInv'
  OBVIOUS
<1>1. CASE UNCHANGED seedlessVars
  BY <1>1, HeapsSame DEF seedlessVars, MetRows, MetBridges, Members, GraphLeg, Ppr
<1>2. ASSUME NEW row \in call.rows, StreamExcluded(row) PROVE HeapsInv'
  BY <1>2, HeapsSame DEF StreamExcluded, Pulls, MetRows, MetBridges, Members, GraphLeg, Ppr
<1>3. ASSUME NEW row \in call.rows, StreamBuffered(row) PROVE HeapsInv'
  BY <1>3, HeapsSame DEF StreamBuffered, Pulls, MetRows, MetBridges, GraphLeg
<1>4. CASE StreamEnds
  <2>1. UNCHANGED <<call, streamed, seeded, topk, bridges, injected, fetched>>
    BY <1>4 DEF StreamEnds
  <2>2. (GraphLeg /\ ~seeded) \/ push' = push
    BY <1>4 DEF StreamEnds
  <2>. QED BY <2>1, <2>2, HeapsSame DEF MetRows, MetBridges, Members, GraphLeg, Ppr
<1>5. CASE SeedPull \/ PushPop
  <2>1. phase = "seeding" /\ UNCHANGED <<call, streamed, seeded, topk, bridges, injected, fetched>>
    BY <1>5 DEF SeedPull, PushPop
  <2>2. GraphLeg /\ ~seeded
    BY <2>1 DEF StreamOK, PhaseInv
  <2>. QED BY <2>1, <2>2, HeapsSame DEF MetRows, MetBridges, GraphLeg
<1>6. CASE Finalize
  BY <1>6, HeapsSame DEF Finalize, MetRows, MetBridges, Members, GraphLeg, Ppr
<1>. QED BY <1>1, <1>2, <1>3, <1>4, <1>5, <1>6, RankedHeaps, AdmitHeaps, FetchHeaps DEF SeedlessNext

\* The heaps start empty.
LEMMA HeapsInit == SeedlessInit => HeapsInv
<1>. SUFFICES ASSUME SeedlessInit PROVE HeapsInv
  OBVIOUS
<1>1. /\ call \in Calls /\ topk = <<>> /\ bridges = <<>> /\ streamed = {} /\ fetched = {} /\ injected = 0
  BY DEF SeedlessInit
<1>2. MetRows = {} /\ MetBridges = {}
  BY <1>1 DEF MetRows, MetBridges
<1>3. ToSet(<<>>) = {} /\ IsInjective(<<>>) /\ Cardinality({}) = 0
  BY EmptySet, EmptyInjective, FS_EmptySet, Zenon
<1>4. call.k \in Nat \ {0}
  BY <1>1, CallParts
<1>5. IsHeap(call.dist, Len(<<>>), <<>>)
  BY DEF IsHeap
<1>. DEFINE e == <<>>
<1>6. ToSet(e) = {} /\ IsInjective(e) /\ IsHeap(call.dist, Len(e), e)
  BY <1>3, <1>5
<1>. HIDE DEF e
<1>7. KNearest(call.dist, call.k, ToSet(e), {})
  BY <1>3, <1>4, <1>6 DEF KNearest
<1>8. Held(call.dist, call.k, e, {})
  BY <1>6, <1>7 DEF Held
<1>. QED BY <1>1, <1>2, <1>3, <1>8 DEF HeapsInv, e

-----------------------------------------------------------------------------
(* What ends a call, and its budgets.                                      *)

\* The rows that did not matter.
Losers == ((streamed \cap call.passes) \ buf) \ ToSet(topk)

\* What the drops stand for.
StopInv ==
  /\ drops <= call.term
  /\ drops > 0 =>
       /\ GraphLeg => seeded
       /\ Len(topk) = call.k
       /\ Cardinality(Losers) >= drops
       /\ drops = call.term => reason = "term_cond"

\* A row that does not improve the heap is one more of them.
LEMMA RankedStops ==
  ASSUME StreamOK, HeapsInv, StopInv, NEW row \in call.rows, StreamRanked(row)
  PROVE  StopInv'
<1>. DEFINE improves == Improves(call.dist, call.k, topk, row)
            dropped == ~improves /\ call.term > 0
<1>1. /\ phase = "stream" /\ row \in call.passes /\ (GraphLeg => seeded) /\ row \notin streamed
      /\ streamed' = streamed \cup {row}
      /\ topk' = Offered(call.dist, call.k, topk, row)
      /\ drops' = (IF improves THEN 0 ELSE IF dropped THEN drops + 1 ELSE drops)
      /\ (IF dropped /\ drops' >= call.term THEN phase' = "drain" /\ reason' = "term_cond"
          ELSE UNCHANGED <<phase, reason>>)
      /\ UNCHANGED <<call, buf, seeded>>
  BY DEF StreamRanked, Pulls
<1>2. reason = "running" /\ drops \in Nat /\ buf \subseteq streamed /\ call \in Calls
  BY <1>1 DEF StreamOK, StreamTypeOK, PhaseInv
<1>3. call.term \in Nat /\ call.k \in Nat \ {0}
  BY <1>2, CallParts
<1>4. /\ topk \in Seq(Vertices) /\ MetRows \in SUBSET Vertices /\ IsFiniteSet(MetRows) /\ row \in Vertices
      /\ streamed \in SUBSET Vertices
  BY <1>1, MetIs
<1>5. MetRows = streamed \cap call.passes /\ row \notin MetRows /\ Held(call.dist, call.k, topk, MetRows)
  BY <1>1 DEF MetRows, HeapsInv
<1>6. OfferLaws(Offered(call.dist, call.k, topk, row), call.dist, call.k, topk, row, MetRows, Vertices)
  BY <1>1, <1>2, <1>4, <1>5, OfferMet
<1>7. CASE improves
  BY <1>1, <1>3, <1>7 DEF StopInv
<1>8. CASE ~improves /\ ~dropped
  <2>1. call.term = 0 /\ drops = 0
    BY <1>2, <1>3, <1>8 DEF StopInv
  <2>. QED BY <1>1, <1>3, <1>8, <2>1 DEF StopInv
<1>9. CASE ~improves /\ dropped
  <2>1. topk' = topk /\ row \notin ToSet(topk)
    BY <1>1, <1>6, <1>9 DEF OfferLaws
  <2>2. Losers' = Losers \cup {row} /\ row \notin Losers /\ Losers \in SUBSET Vertices
    BY <1>1, <1>2, <1>4, <2>1 DEF Losers
  <2>3. Cardinality(Losers') = Cardinality(Losers) + 1 /\ Cardinality(Losers) \in Nat
    BY <1>4, <2>2, CountOne, VerticesAssumption, FS_Subset, FS_CardinalityType
  <2>4. Len(topk) = call.k
    <3>. DEFINE n == Len(topk)
    <3>1. n \in Nat /\ topk \in [1..n -> Vertices] /\ IsInjective(topk)
      BY <1>4, <1>5, LenProperties DEF Held
    <3>2. Cardinality(ToSet(topk)) = n
      BY <3>1, CardInjective
    <3>3. Cardinality(ToSet(topk)) = IF Cardinality(MetRows) < call.k THEN Cardinality(MetRows) ELSE call.k
      BY <1>5 DEF Held, KNearest
    <3>4. Cardinality(MetRows) \in Nat
      BY <1>4, FS_CardinalityType
    <3>5. ~(n < call.k)
      BY <1>9 DEF Improves
    <3>. HIDE DEF n
    <3>6. n = call.k
      BY <1>3, <3>1, <3>2, <3>3, <3>4, <3>5
    <3>. QED BY <3>6 DEF n
  <2>5. drops' = drops + 1 /\ (drops' >= call.term => reason' = "term_cond")
    BY <1>1, <1>9
  <2>6. drops' <= call.term /\ Cardinality(Losers') >= drops'
    <3>1. drops = 0 => call.term > 0
      BY <1>9
    <3>2. drops > 0 => drops # call.term /\ drops <= call.term /\ Cardinality(Losers) >= drops
      BY <1>2 DEF StopInv
    <3>. QED BY <1>2, <1>3, <2>3, <2>5, <3>1, <3>2
  <2>. QED BY <1>1, <1>3, <2>1, <2>4, <2>5, <2>6 DEF StopInv, GraphLeg
<1>. QED BY <1>7, <1>8, <1>9

\* No step breaks it.
LEMMA StopStep == StreamOK /\ HeapsInv /\ StopInv /\ [SeedlessNext]_seedlessVars => StopInv'
<1>. SUFFICES ASSUME StreamOK, HeapsInv, StopInv, [SeedlessNext]_seedlessVars PROVE StopInv'
  OBVIOUS
<1>0. drops \in Nat /\ call.term \in Nat
  BY CallParts DEF StreamOK, StreamTypeOK
<1>1. CASE UNCHANGED <<call, seeded, topk, streamed, buf, reason, drops>>
  BY <1>1 DEF StopInv, Losers, GraphLeg
<1>2. ASSUME NEW row \in call.rows, StreamExcluded(row) PROVE StopInv'
  <2>1. UNCHANGED <<call, seeded, topk, buf, reason, drops>> /\ streamed' = streamed \cup {row} /\ row \notin call.passes
    BY <1>2 DEF StreamExcluded, Pulls
  <2>2. Losers' = Losers
    BY <2>1 DEF Losers
  <2>. QED BY <2>1, <2>2 DEF StopInv, GraphLeg
<1>3. ASSUME NEW row \in call.rows, StreamBuffered(row) PROVE StopInv'
  <2>1. GraphLeg /\ ~seeded /\ drops' = drops /\ call' = call
    BY <1>3 DEF StreamBuffered
  <2>2. drops = 0
    BY <1>0, <2>1 DEF StopInv
  <2>. QED BY <1>0, <2>1, <2>2 DEF StopInv
<1>4. CASE StreamEnds
  <2>1. phase = "stream" /\ UNCHANGED <<call, seeded, topk, streamed, buf, drops>>
    BY <1>4 DEF StreamEnds
  <2>2. reason = "running"
    BY <2>1 DEF StreamOK, PhaseInv
  <2>3. Losers' = Losers
    BY <2>1 DEF Losers
  <2>. QED BY <1>0, <2>1, <2>2, <2>3 DEF StopInv, GraphLeg
<1>5. CASE SeedPull \/ PushPop \/ Finalize
  BY <1>1, <1>5 DEF SeedPull, PushPop, Finalize
<1>6. CASE AdmitWindow
  <2>1. drops' = 0 /\ call' = call
    BY <1>6, AdmitIs
  <2>. QED BY <1>0, <2>1 DEF StopInv
<1>7. ASSUME NEW v \in ToFetch, FetchBridge(v) PROVE StopInv'
  BY <1>1, <1>7 DEF FetchBridge
<1>8. CASE UNCHANGED seedlessVars
  BY <1>1, <1>8 DEF seedlessVars
<1>. QED BY <1>2, <1>3, <1>4, <1>5, <1>6, <1>7, <1>8, RankedStops DEF SeedlessNext

-----------------------------------------------------------------------------
\* The work of a call: WorkBounded, with the seeds still to pull.
LimitInv ==
  /\ call.scanBudget > 0 => Cardinality(streamed) <= call.scanBudget
  /\ push.used + push.left = call.workBudget
  /\ Cardinality(push.reach) + Len(seeds) <= push.used + call.m
  /\ examined = Cardinality(streamed) + Cardinality(fetched)

\* What is counted is finite.
LEMMA LimitParts ==
  ASSUME StreamOK
  PROVE  /\ call \in Calls /\ push \in PushStates /\ Len(seeds) \in Nat
         /\ IsFiniteSet(streamed) /\ IsFiniteSet(fetched) /\ IsFiniteSet(push.reach)
         /\ Cardinality(streamed) \in Nat /\ Cardinality(fetched) \in Nat /\ Cardinality(push.reach) \in Nat
         /\ push.used \in Nat /\ push.left \in Nat /\ examined \in Nat
         /\ call.m \in Nat /\ call.scanBudget \in Nat /\ call.workBudget \in Nat
<1>1. /\ call \in Calls /\ push \in PushStates /\ seeds \in Seq(buf) /\ streamed \subseteq call.rows
      /\ fetched \subseteq push.reach /\ examined \in Nat
  BY DEF StreamOK, StreamTypeOK
<1>2. push.reach \in SUBSET Vertices /\ push.used \in Nat /\ push.left \in Nat
  BY <1>1, PushParts
<1>3. streamed \in SUBSET Vertices /\ fetched \in SUBSET Vertices
  BY <1>1, <1>2, CallParts
<1>4. IsFiniteSet(streamed) /\ IsFiniteSet(fetched) /\ IsFiniteSet(push.reach)
  BY <1>2, <1>3, VerticesAssumption, FS_Subset
<1>5. Cardinality(streamed) \in Nat /\ Cardinality(fetched) \in Nat /\ Cardinality(push.reach) \in Nat
  BY <1>4, FS_CardinalityType
<1>6. call.m \in Nat /\ call.scanBudget \in Nat /\ call.workBudget \in Nat
  BY <1>1, CallParts
<1>7. Len(seeds) \in Nat
  BY <1>1
<1>. QED BY <1>1, <1>2, <1>4, <1>5, <1>6, <1>7

\* A row pulled from the stream is within the scan's budget.
LEMMA PullLimits ==
  ASSUME StreamOK, LimitInv, NEW row \in call.rows, Pulls(row), call' = call, fetched' = fetched
  PROVE  /\ call.scanBudget > 0 => Cardinality(streamed') <= call.scanBudget
         /\ examined' = Cardinality(streamed') + Cardinality(fetched')
<1>1. /\ phase = "stream" /\ ~ScanBudgetSpent /\ row \notin streamed /\ streamed' = streamed \cup {row}
      /\ examined' = examined + 1
  BY DEF Pulls
<1>2. fetched = {}
  BY <1>1 DEF StreamOK, PhaseInv
<1>3. /\ IsFiniteSet(streamed) /\ Cardinality(streamed) \in Nat /\ call.scanBudget \in Nat /\ examined \in Nat
      /\ Cardinality(fetched) \in Nat
  BY LimitParts
<1>4. Cardinality(streamed') = Cardinality(streamed) + 1 /\ Cardinality({}) = 0
  BY <1>1, <1>3, FS_AddElement, FS_EmptySet
<1>5. examined = Cardinality(streamed) + Cardinality(fetched)
  BY DEF LimitInv
<1>6. call.scanBudget > 0 => examined < call.scanBudget
  BY <1>1, <1>3 DEF ScanBudgetSpent
<1>. QED BY <1>1, <1>2, <1>3, <1>4, <1>5, <1>6

\* The start of the seeding is within the limits.
LEMMA SeedingLimits ==
  ASSUME StreamOK, LimitInv, phase = "stream", ~seeded, NEW w \in SUBSET Vertices, StartSeeding(w)
  PROVE  /\ push'.used + push'.left = call.workBudget
         /\ Cardinality(push'.reach) + Len(seeds') <= push'.used + call.m
<1>1. /\ Ppr => seeds' = <<>> /\ StartLaws(push', Chosen(w), call.workBudget)
      /\ ~Ppr => seeds' = Chosen(w) /\ push' = push
  BY SeedingStarts
<1>2. /\ call \in Calls /\ call.m \in Nat /\ call.workBudget \in Nat
      /\ push.used \in Nat /\ push.left \in Nat
  BY LimitParts
<1>3. Len(Chosen(w)) \in Nat /\ Len(Chosen(w)) <= call.m /\ Cardinality(ToSet(Chosen(w))) = Len(Chosen(w))
  BY <1>2, ChosenIs
<1>4. Len(<<>>) = 0 /\ Cardinality({}) = 0
  BY FS_EmptySet
<1>5. CASE Ppr
  <2>1. seeds' = <<>> /\ StartLaws(push', Chosen(w), call.workBudget)
    BY <1>1, <1>5
  <2>2. push'.reach = ToSet(Chosen(w)) /\ push'.left = call.workBudget /\ push'.used = 0
    BY <2>1 DEF StartLaws
  <2>. QED BY <1>2, <1>3, <1>4, <2>1, <2>2
<1>6. CASE ~Ppr
  <2>1. StartLaws(push, <<>>, call.workBudget)
    BY DEF StreamOK, PhaseInv
  <2>2. push.reach = {}
    BY <2>1, EmptySet, Zenon DEF StartLaws
  <2>3. push.left = call.workBudget /\ push.used = 0
    BY <2>1 DEF StartLaws
  <2>4. seeds' = Chosen(w) /\ push' = push
    BY <1>1, <1>6
  <2>5. push'.reach = {} /\ push'.left = call.workBudget /\ push'.used = 0
    BY <2>2, <2>3, <2>4
  <2>6. Cardinality(push'.reach) = 0 /\ Len(seeds') = Len(Chosen(w))
    BY <1>4, <2>4, <2>5
  <2>. QED BY <1>2, <1>3, <2>5, <2>6
<1>. QED BY <1>5, <1>6

\* A set of reached vertices grows by no more than what is added.
LEMMA ReachGrows ==
  ASSUME NEW A, IsFiniteSet(A), NEW B, IsFiniteSet(B)
  PROVE  /\ Cardinality(A \cup B) \in Nat /\ Cardinality(A) \in Nat /\ Cardinality(B) \in Nat
         /\ Cardinality(A \cup B) <= Cardinality(A) + Cardinality(B)
<1>1. /\ IsFiniteSet(A \cup B) /\ IsFiniteSet(A \cap B)
      /\ Cardinality(A \cup B) = Cardinality(A) + Cardinality(B) - Cardinality(A \cap B)
  BY FS_Union, FS_Intersection
<1>2. Cardinality(A \cup B) \in Nat /\ Cardinality(A) \in Nat /\ Cardinality(B) \in Nat /\ Cardinality(A \cap B) \in Nat
  BY <1>1, FS_CardinalityType
<1>. QED BY <1>1, <1>2

\* One seed's pull is within the limits.
LEMMA SeedPullLimits == ASSUME StreamOK, LimitInv, SeedPull PROVE LimitInv'
<1>1. /\ seeds # <<>> /\ seeds' = Tail(seeds)
      /\ UNCHANGED <<call, streamed, examined, fetched>>
  BY DEF SeedPull
<1>2. PICK D : SeedPulled(push', push, call.g, call.type, call.hops, Head(seeds), D)
  BY SeedPullIs
<1>3. /\ Len(seeds) \in Nat /\ IsFiniteSet(push.reach) /\ Cardinality(push.reach) \in Nat
      /\ push.used \in Nat /\ push.left \in Nat /\ call.m \in Nat /\ call.workBudget \in Nat
  BY LimitParts
<1>4. Len(seeds') = Len(seeds) - 1
  <2>1. seeds \in Seq(buf)
    BY DEF StreamOK, StreamTypeOK
  <2>. QED BY <1>1, <2>1, TailIs
<1>5. /\ push'.reach = push.reach \cup {Head(seeds)} \cup D /\ push'.used + push'.left = push.used + push.left
      /\ IsFiniteSet(D) /\ Cardinality(D) \in Nat /\ push.used + Cardinality(D) <= push'.used
      /\ push' \in PushStates
  BY <1>2 DEF SeedPulled
<1>6. push'.used \in Nat /\ push'.left \in Nat
  BY <1>5, PushParts
<1>. DEFINE one == {Head(seeds)}
            A == push.reach \cup one
<1>7. IsFiniteSet(one) /\ Cardinality(one) = 1
  BY FS_Singleton
<1>8. /\ Cardinality(A) \in Nat /\ Cardinality(A) <= Cardinality(push.reach) + 1 /\ IsFiniteSet(A)
  BY <1>3, <1>7, ReachGrows, FS_Union
<1>9. Cardinality(A \cup D) \in Nat /\ Cardinality(A \cup D) <= Cardinality(A) + Cardinality(D)
  BY <1>5, <1>8, ReachGrows
<1>10. push'.reach = A \cup D
  BY <1>5
<1>. HIDE DEF A, one
<1>. DEFINE a == Cardinality(push.reach)
            b == Cardinality(A)
            c == Cardinality(A \cup D)
            d == Cardinality(D)
            l == Len(seeds)
            u == push.used
            v == push'.used
<1>12. /\ a \in Nat /\ b \in Nat /\ c \in Nat /\ d \in Nat /\ l \in Nat /\ u \in Nat /\ v \in Nat
       /\ b <= a + 1 /\ c <= b + d /\ a + l <= u + call.m /\ u + d <= v
  BY <1>3, <1>5, <1>6, <1>8, <1>9 DEF LimitInv
<1>. HIDE DEF a, b, c, d, l, u, v
<1>13. c + (l - 1) <= v + call.m
  BY <1>3, <1>12
<1>11. Cardinality(push'.reach) + Len(seeds') <= push'.used + call.m
  BY <1>4, <1>10, <1>13 DEF c, l, v
<1>. QED BY <1>1, <1>5, <1>11 DEF LimitInv

\* And one pop's.
LEMMA PushPopLimits == ASSUME StreamOK, LimitInv, PushPop PROVE LimitInv'
<1>1. UNCHANGED <<call, seeds, streamed, examined, fetched>>
  BY DEF PushPop
<1>2. PICK D : PoppedLaws(push', push, call.g, call.type, call.hops, D)
  BY PushPopIs
<1>3. /\ Len(seeds) \in Nat /\ IsFiniteSet(push.reach) /\ Cardinality(push.reach) \in Nat
      /\ push.used \in Nat /\ push.left \in Nat /\ call.m \in Nat /\ call.workBudget \in Nat
  BY LimitParts
<1>5. /\ push'.reach = push.reach \cup D /\ push'.used + push'.left = push.used + push.left
      /\ IsFiniteSet(D) /\ Cardinality(D) \in Nat /\ push.used + Cardinality(D) <= push'.used
      /\ push' \in PushStates
  BY <1>2 DEF PoppedLaws
<1>6. push'.used \in Nat /\ push'.left \in Nat
  BY <1>5, PushParts
<1>9. Cardinality(push.reach \cup D) \in Nat /\ Cardinality(push.reach \cup D) <= Cardinality(push.reach) + Cardinality(D)
  BY <1>3, <1>5, ReachGrows
<1>. DEFINE a == Cardinality(push.reach)
            c == Cardinality(push.reach \cup D)
            d == Cardinality(D)
            l == Len(seeds)
            u == push.used
            v == push'.used
<1>12. /\ a \in Nat /\ c \in Nat /\ d \in Nat /\ l \in Nat /\ u \in Nat /\ v \in Nat
       /\ c <= a + d /\ a + l <= u + call.m /\ u + d <= v
  BY <1>3, <1>5, <1>6, <1>9 DEF LimitInv
<1>. HIDE DEF a, c, d, l, u, v
<1>13. c + l <= v + call.m
  BY <1>3, <1>12
<1>11. Cardinality(push'.reach) + Len(seeds') <= push'.used + call.m
  BY <1>1, <1>5, <1>13 DEF c, l, v
<1>. QED BY <1>1, <1>5, <1>11 DEF LimitInv

\* No step goes over them.
LEMMA LimitStep == StreamOK /\ LimitInv /\ [SeedlessNext]_seedlessVars => LimitInv'
<1>. SUFFICES ASSUME StreamOK, LimitInv, [SeedlessNext]_seedlessVars PROVE LimitInv'
  OBVIOUS
<1>1. CASE UNCHANGED <<call, seeds, streamed, examined, fetched, push>>
  BY <1>1 DEF LimitInv
<1>2. ASSUME NEW row \in call.rows, StreamExcluded(row) \/ StreamRanked(row) PROVE LimitInv'
  <2>1. Pulls(row) /\ UNCHANGED <<call, seeds, push, fetched>>
    BY <1>2 DEF StreamExcluded, StreamRanked
  <2>2. /\ call.scanBudget > 0 => Cardinality(streamed') <= call.scanBudget
        /\ examined' = Cardinality(streamed') + Cardinality(fetched')
    BY <2>1, PullLimits
  <2>. QED BY <2>1, <2>2 DEF LimitInv
<1>3. ASSUME NEW row \in call.rows, StreamBuffered(row) PROVE LimitInv'
  <2>1. Pulls(row) /\ UNCHANGED <<call, fetched>> /\ ~seeded /\ buf' = buf \cup {row}
        /\ (StartSeeding(buf') \/ UNCHANGED <<seeds, push>>)
    BY <1>3 DEF StreamBuffered
  <2>2. /\ call.scanBudget > 0 => Cardinality(streamed') <= call.scanBudget
        /\ examined' = Cardinality(streamed') + Cardinality(fetched')
    BY <2>1, PullLimits
  <2>3. phase = "stream" /\ buf' \in SUBSET Vertices
    <3>1. call \in Calls /\ buf \subseteq call.passes
      BY DEF StreamOK, StreamTypeOK
    <3>. QED BY <2>1, <3>1, CallParts DEF Pulls
  <2>4. /\ push'.used + push'.left = call.workBudget
        /\ Cardinality(push'.reach) + Len(seeds') <= push'.used + call.m
    <3>1. CASE StartSeeding(buf')
      BY <2>1, <2>3, <3>1, SeedingLimits
    <3>2. CASE UNCHANGED <<seeds, push>>
      BY <3>2 DEF LimitInv
    <3>. QED BY <2>1, <3>1, <3>2
  <2>. QED BY <2>1, <2>2, <2>4 DEF LimitInv
<1>4. CASE StreamEnds
  <2>1. phase = "stream" /\ UNCHANGED <<call, streamed, examined, fetched>>
        /\ ((~seeded /\ StartSeeding(buf)) \/ UNCHANGED <<seeds, push>>)
    BY <1>4 DEF StreamEnds
  <2>3. buf \in SUBSET Vertices
    <3>1. call \in Calls /\ buf \subseteq call.passes
      BY DEF StreamOK, StreamTypeOK
    <3>. QED BY <3>1, CallParts
  <2>4. /\ push'.used + push'.left = call.workBudget
        /\ Cardinality(push'.reach) + Len(seeds') <= push'.used + call.m
    <3>1. CASE ~seeded /\ StartSeeding(buf)
      BY <2>1, <2>3, <3>1, SeedingLimits
    <3>2. CASE UNCHANGED <<seeds, push>>
      BY <3>2 DEF LimitInv
    <3>. QED BY <2>1, <3>1, <3>2
  <2>. QED BY <2>1, <2>4 DEF LimitInv
<1>5. CASE AdmitWindow \/ Finalize
  BY <1>1, <1>5 DEF AdmitWindow, Finalize
<1>7. ASSUME NEW v \in ToFetch, FetchBridge(v) PROVE LimitInv'
  <2>1. UNCHANGED <<call, seeds, streamed, push>> /\ fetched' = fetched \cup {v} /\ examined' = examined + 1
    BY <1>7 DEF FetchBridge
  <2>2. v \notin fetched
    BY <1>7 DEF ToFetch
  <2>3. IsFiniteSet(fetched) /\ Cardinality(fetched) \in Nat /\ Cardinality(streamed) \in Nat
    BY LimitParts
  <2>4. Cardinality(fetched') = Cardinality(fetched) + 1
    BY <2>1, <2>2, <2>3, FS_AddElement
  <2>5. examined' = Cardinality(streamed') + Cardinality(fetched')
    BY <2>1, <2>3, <2>4 DEF LimitInv
  <2>. QED BY <2>1, <2>5 DEF LimitInv
<1>8. CASE UNCHANGED seedlessVars
  BY <1>1, <1>8 DEF seedlessVars
<1>. QED BY <1>2, <1>3, <1>4, <1>5, <1>7, <1>8, SeedPullLimits, PushPopLimits DEF SeedlessNext

\* A call starts with neither drops nor work.
LEMMA EndInit == SeedlessInit => StopInv /\ LimitInv
<1>. SUFFICES ASSUME SeedlessInit PROVE StopInv /\ LimitInv
  OBVIOUS
<1>1. /\ call \in Calls /\ streamed = {} /\ fetched = {} /\ seeds = <<>> /\ drops = 0 /\ examined = 0
      /\ push = PushStart(Vertices, call.dist, <<>>, call.workBudget)
  BY DEF SeedlessInit
<1>2. /\ call.dist \in [Vertices -> Nat] /\ call.workBudget \in Nat /\ call.term \in Nat
      /\ call.m \in Nat /\ call.scanBudget \in Nat
  BY <1>1, CallParts
<1>3. StartLaws(push, <<>>, call.workBudget)
  BY <1>1, <1>2, StartEmpty
<1>4. push.reach = {} /\ push.left = call.workBudget /\ push.used = 0
  BY <1>3, EmptySet, Zenon DEF StartLaws
<1>5. Cardinality({}) = 0 /\ Len(<<>>) = 0
  BY FS_EmptySet
<1>6. StopInv
  BY <1>1, <1>2 DEF StopInv
<1>7. Cardinality(push.reach) = 0 /\ Len(seeds) = 0 /\ Cardinality(streamed) = 0 /\ Cardinality(fetched) = 0
  BY <1>1, <1>4, <1>5
<1>8. LimitInv
  BY <1>1, <1>2, <1>4, <1>7 DEF LimitInv
<1>. QED BY <1>6, <1>8

\* What that says of a call's end and of its work.
LEMMA EndIs ==
  ASSUME StreamOK, StopInv, LimitInv
  PROVE  TermCondJustified /\ WorkBounded
<1>1. TermCondJustified
  BY DEF StopInv, TermCondJustified, Losers
<1>2. WorkBounded
  <2>1. /\ Len(seeds) \in Nat /\ Cardinality(push.reach) \in Nat
        /\ push.used \in Nat /\ push.left \in Nat /\ call.m \in Nat
    BY LimitParts
  <2>. QED BY <2>1 DEF LimitInv, WorkBounded
<1>. QED BY <1>1, <1>2

-----------------------------------------------------------------------------
(* Least and most of a finite set.                                         *)

\* Of a finite set of numbers one is least and one is greatest.
LEMMA EndsOf ==
  ASSUME NEW S \in SUBSET Int, IsFiniteSet(S), S # {}
  PROVE  Min(S) \in S /\ Max(S) \in S
<1>. DEFINE d == [v \in Int |-> v]
            r == Ranked(d, S)
            n == Len(r)
<1>1. d \in [Int -> Int] /\ \A v \in Int : d[v] = v
  OBVIOUS
<1>. HIDE DEF d
<1>2. RankedLaws(r, d, S)
  BY <1>1, RankedIs
<1>3. /\ r \in Seq(S) /\ n = Cardinality(S) /\ ToSet(r) = S
      /\ \A i \in 1..n, j \in 1..n : i < j => Nearer(d, r[i], r[j])
  BY <1>2 DEF RankedLaws
<1>. HIDE DEF r
<1>4. n \in Nat /\ r \in [1..n -> S] /\ DOMAIN r = 1..n
  BY <1>3, LenProperties
<1>. HIDE DEF n
<1>5. n # 0
  <2>1. Cardinality(S) # 0
    BY FS_EmptySet
  <2>. QED BY <1>3, <2>1
<1>6. 1 \in 1..n /\ n \in 1..n
  BY <1>4, <1>5
<1>7. S = {r[i] : i \in 1..n}
  BY <1>3, <1>4 DEF ToSet
<1>8. \A i \in 1..n, j \in 1..n : i < j => r[i] <= r[j]
  <2>. SUFFICES ASSUME NEW i \in 1..n, NEW j \in 1..n, i < j PROVE r[i] <= r[j]
    OBVIOUS
  <2>1. r[i] \in Int /\ r[j] \in Int
    BY <1>4
  <2>2. d[r[i]] = r[i] /\ d[r[j]] = r[j]
    BY <1>1, <2>1
  <2>3. Nearer(d, r[i], r[j])
    BY <1>3
  <2>. QED BY <2>1, <2>2, <2>3 DEF Nearer
<1>9. \A y \in S : r[1] <= y /\ r[n] >= y
  <2>. SUFFICES ASSUME NEW i \in 1..n PROVE r[1] <= r[i] /\ r[n] >= r[i]
    BY <1>7
  <2>1. r[i] \in Int /\ r[1] \in Int /\ r[n] \in Int
    BY <1>4, <1>6
  <2>2. i = 1 \/ 1 < i
    BY <1>4
  <2>3. i = n \/ i < n
    BY <1>4
  <2>. QED BY <1>6, <1>8, <2>1, <2>2, <2>3
<1>10. r[1] \in S /\ r[n] \in S
  BY <1>4, <1>6
<1>11. Min(S) \in S
  <2>1. \E x \in S : \A y \in S : x <= y
    BY <1>9, <1>10
  <2>. QED BY <2>1 DEF Min
<1>12. Max(S) \in S
  <2>1. \E x \in S : \A y \in S : x >= y
    BY <1>9, <1>10
  <2>. QED BY <2>1 DEF Max
<1>. QED BY <1>11, <1>12

\* Ranking vertices by their distance.
LEMMA RankedRows ==
  ASSUME call \in Calls, NEW S \in SUBSET Vertices
  PROVE  /\ RankedLaws(Ranked(call.dist, S), call.dist, S) /\ IsFiniteSet(S) /\ Cardinality(S) \in Nat
         /\ \A v \in S : call.dist[v] \in Int
         /\ Ranked(call.dist, S) \in Seq(Vertices) /\ IsInjective(Ranked(call.dist, S))
         /\ ToSet(Ranked(call.dist, S)) = S /\ Len(Ranked(call.dist, S)) = Cardinality(S)
<1>1. call.dist \in [Vertices -> Int] /\ Vertices \subseteq Int
  BY CallParts
<1>2. IsFiniteSet(S) /\ Cardinality(S) \in Nat
  BY VerticesAssumption, FS_Subset, FS_CardinalityType
<1>3. RankedLaws(Ranked(call.dist, S), call.dist, S)
  BY <1>1, <1>2, RankedIs
<1>4. \A v \in S : call.dist[v] \in Int
  BY <1>1
<1>. DEFINE r == Ranked(call.dist, S)
<1>5. r \in Seq(S) /\ Len(r) = Cardinality(S) /\ ToSet(r) = S /\ IsInjective(r)
  BY <1>3 DEF RankedLaws
<1>6. r \in Seq(Vertices)
  BY <1>5
<1>. QED BY <1>2, <1>3, <1>4, <1>5, <1>6

\* A list without doubles has as many elements as places.
LEMMA CardList ==
  ASSUME NEW E, NEW s \in Seq(E), IsInjective(s)
  PROVE  IsFiniteSet(ToSet(s)) /\ Cardinality(ToSet(s)) = Len(s) /\ Len(s) \in Nat
<1>. DEFINE n == Len(s)
<1>1. n \in Nat /\ s \in [1..n -> E]
  BY LenProperties
<1>. QED BY <1>1, CardInjective

\* The bridges' share is what ADR-0020 reserves.
LEMMA CapIs ==
  ASSUME call \in Calls
  PROVE  BridgeCap = Reserved /\ Reserved \in Nat /\ Reserved >= 1 /\ Reserved <= call.k
<1>. DEFINE k == call.k
            a == k \div 2
<1>1. k \in Nat \ {0}
  BY CallParts
<1>. HIDE DEF k
<1>2. a \in Nat /\ a <= k /\ (k = 1 => a = 0) /\ (k # 1 => a >= 1)
  BY <1>1
<1>3. Max({a, 1}) \in Nat \ {0} /\ Max({a, 1}) >= a /\ (a = 0 => Max({a, 1}) = 1) /\ (a >= 1 => Max({a, 1}) = a)
  <2>1. Max({a, 1}) \in Nat \ {0} /\ Max({a, 1}) >= a
    BY <1>2, AtLeastOne
  <2>a. IsFiniteSet({a})
    BY FS_Singleton
  <2>b. IsFiniteSet({a} \cup {1}) /\ {a} \cup {1} = {a, 1}
    BY <2>a, FS_AddElement
  <2>c. a \in Int
    BY <1>2
  <2>d. {a, 1} \in SUBSET Int
    BY <2>c
  <2>2. {a, 1} \in SUBSET Int /\ IsFiniteSet({a, 1}) /\ {a, 1} # {}
    BY <2>b, <2>d
  <2>3. Max({a, 1}) \in {a, 1}
    BY <2>2, EndsOf
  <2>. HIDE DEF a
  <2>. QED BY <1>2, <2>1, <2>3
<1>. HIDE DEF a
<1>4. BridgeCap = Max({a, 1}) /\ Reserved = (IF k = 1 THEN 1 ELSE a)
  BY DEF BridgeCap, Reserved, k, a
<1>5. BridgeCap = Reserved /\ Reserved \in Nat /\ Reserved >= 1 /\ Reserved <= k
  BY <1>1, <1>2, <1>3, <1>4
<1>. QED BY <1>5 DEF k

-----------------------------------------------------------------------------
(* Membership scoring.                                                     *)

\* The answer of membership scoring from a heap T of rows R and a heap B of
\* members M.
AnswerOf(T, B) ==
  LET near == Ranked(call.dist, B)
      guaranteed == Filled(<<>>, near, BridgeCap)
      vectors == Filled(guaranteed, Ranked(call.dist, T), call.k)
  IN  Ranked(call.dist, ToSet(Filled(vectors, near, call.k)))

\* What membership scoring answers: shares of both, nobody twice.
MembershipLaws(a, T, B, M, R) ==
  /\ a \in Seq(Vertices) /\ Len(a) <= call.k /\ ToSet(a) \subseteq T \cup B
  /\ \E near \in SUBSET ToSet(a) : KNearest(call.dist, Reserved, near, M)
  /\ \E near \in SUBSET ToSet(a) :
       KNearest(call.dist, call.k - Min({Reserved, Cardinality(M)}), near, R)
  /\ Len(a) = Min({call.k, Cardinality(M \cup R)})

\* Of a set with fewer than k elements the k nearest are all.
LEMMA AllNearest ==
  ASSUME NEW d, NEW k \in Nat, NEW S, IsFiniteSet(S), NEW A, KNearest(d, k, A, S), Cardinality(A) < k
  PROVE  A = S
<1>1. Cardinality(S) \in Nat /\ A \subseteq S
  BY FS_CardinalityType DEF KNearest
<1>2. Cardinality(A) = Cardinality(S)
  BY <1>1 DEF KNearest
<1>. QED BY <1>1, <1>2, FS_Subset

\* The number of the nearest.
LEMMA NearestCount ==
  ASSUME NEW d, NEW k \in Nat, NEW S, IsFiniteSet(S), NEW A, KNearest(d, k, A, S)
  PROVE  A \subseteq S /\ Cardinality(A) <= Cardinality(S) /\ Cardinality(A) \in Nat /\ Cardinality(S) \in Nat
BY FS_CardinalityType, FS_Subset DEF KNearest

\* A part has no more elements.
LEMMA PartCount ==
  ASSUME NEW S, IsFiniteSet(S), NEW A, A \subseteq S
  PROVE  IsFiniteSet(A) /\ Cardinality(A) \in Nat /\ Cardinality(S) \in Nat /\ Cardinality(A) <= Cardinality(S)
BY FS_CardinalityType, FS_Subset

\* The bridges have their share, the vectors theirs, and no place is left free
\* while there are candidates (tjs_finalize_membership).
LEMMA MembershipIs ==
  ASSUME call \in Calls, NEW T, NEW B, NEW M \in SUBSET Vertices, NEW R \in SUBSET Vertices,
         KNearest(call.dist, call.k, T, R), KNearest(call.dist, call.k, B, M)
  PROVE  MembershipLaws(AnswerOf(T, B), T, B, M, R)
<1>. DEFINE d == call.dist
            k == call.k
            c == BridgeCap
            near == Ranked(d, B)
            rows == Ranked(d, T)
            g == Filled(<<>>, near, c)
            v == Filled(g, rows, k)
            f == Filled(v, near, k)
            a == Ranked(d, ToSet(f))
            share == Min({Reserved, Cardinality(M)})
<1>1. c = Reserved /\ c \in Nat /\ c >= 1 /\ c <= k /\ k \in Nat \ {0}
  BY CapIs, CallParts
<1>2. IsFiniteSet(M) /\ IsFiniteSet(R) /\ Cardinality(M) \in Nat /\ Cardinality(R) \in Nat
  BY VerticesAssumption, FS_Subset, FS_CardinalityType
<1>3. KNearest(d, k, T, R) /\ KNearest(d, k, B, M) /\ T \in SUBSET Vertices /\ B \in SUBSET Vertices
  BY DEF KNearest
<1>4. /\ RankedLaws(near, d, B) /\ IsFiniteSet(B) /\ Cardinality(B) \in Nat
      /\ \A x \in B : d[x] \in Int
      /\ near \in Seq(Vertices) /\ IsInjective(near) /\ ToSet(near) = B /\ Len(near) = Cardinality(B)
  BY <1>3, RankedRows
<1>5. /\ RankedLaws(rows, d, T) /\ IsFiniteSet(T) /\ Cardinality(T) \in Nat
      /\ \A x \in T : d[x] \in Int
      /\ rows \in Seq(Vertices) /\ IsInjective(rows) /\ ToSet(rows) = T
  BY <1>3, RankedRows
<1>. HIDE DEF d, k, c, near, rows
<1>. DEFINE e == <<>>
<1>6. e \in Seq(Vertices) /\ IsInjective(e) /\ ToSet(e) = {} /\ Len(e) = 0
  BY EmptySet, EmptyInjective
<1>7. g = Filled(e, near, c)
  OBVIOUS
<1>. HIDE DEF e, g
<1>8. FillLaws(g, e, near, c, Vertices)
  BY <1>1, <1>4, <1>6, <1>7, FilledIs
<1>9. g \in Seq(Vertices) /\ IsInjective(g) /\ ToSet(g) \subseteq B /\ Len(g) <= c /\ Len(g) <= Cardinality(B)
  BY <1>1, <1>4, <1>6, <1>8 DEF FillLaws
<1>10. FillLaws(v, g, rows, k, Vertices)
  BY <1>1, <1>5, <1>9, FilledIs
<1>11. Len(g) \in Nat /\ Len(g) <= k
  BY <1>1, <1>9, LenProperties
<1>. HIDE DEF v
<1>12. v \in Seq(Vertices) /\ IsInjective(v) /\ ToSet(g) \subseteq ToSet(v) /\ ToSet(v) \subseteq T \cup B /\ Len(v) <= k
       /\ (Len(v) < k => T \subseteq ToSet(v))
  BY <1>5, <1>9, <1>10, <1>11 DEF FillLaws
<1>13. FillLaws(f, v, near, k, Vertices)
  BY <1>1, <1>4, <1>12, FilledIs
<1>. HIDE DEF f
<1>14. f \in Seq(Vertices) /\ IsInjective(f) /\ ToSet(v) \subseteq ToSet(f) /\ ToSet(f) \subseteq T \cup B /\ Len(f) <= k
       /\ (Len(f) < k => B \subseteq ToSet(f))
  BY <1>4, <1>12, <1>13 DEF FillLaws
<1>15. IsFiniteSet(ToSet(f)) /\ Cardinality(ToSet(f)) = Len(f) /\ Len(f) \in Nat
  BY <1>14, CardList
<1>16. ToSet(f) \in SUBSET Vertices
  BY <1>3, <1>14
<1>17. a \in Seq(Vertices) /\ ToSet(a) = ToSet(f) /\ Len(a) = Len(f)
  BY <1>15, <1>16, RankedRows DEF d
<1>. HIDE DEF a
\* The bridges' share.
<1>18. \E n \in SUBSET ToSet(a) : KNearest(d, Reserved, n, M)
  <2>1. KNearest(d, c, FirstOf(near, c), B)
    BY <1>1, <1>4, PrefixNearest
  <2>2. KNearest(d, c, FirstOf(near, c), M)
    BY <1>1, <1>2, <1>3, <2>1, NearestOfNearest
  <2>3. Len(e) + c <= c
    BY <1>1, <1>6
  <2>4. FirstOf(near, c) \subseteq ToSet(g)
    BY <1>1, <1>4, <1>6, <1>8, <2>3, FillsFirst
  <2>5. FirstOf(near, c) \in SUBSET ToSet(a)
    BY <1>12, <1>14, <1>17, <2>4
  <2>. QED BY <1>1, <2>2, <2>5
\* The vectors' share.
<1>19. share = Least(c, Cardinality(M)) /\ share \in Nat /\ share <= c /\ k - share \in Nat
  <2>1. Min({Reserved, Cardinality(M)}) = Least(Reserved, Cardinality(M))
    BY <1>1, <1>2, LesserIs
  <2>2. Least(c, Cardinality(M)) \in Nat /\ Least(c, Cardinality(M)) <= c
    BY <1>1, <1>2 DEF Least
  <2>3. share = Least(c, Cardinality(M))
    BY <1>1, <2>1
  <2>. HIDE DEF share
  <2>. QED BY <1>1, <2>2, <2>3
<1>. HIDE DEF share
<1>20. Len(g) <= share
  <2>1. Cardinality(B) <= Cardinality(M)
    BY <1>1, <1>2, <1>3, NearestCount
  <2>. QED BY <1>2, <1>4, <1>9, <1>11, <1>19, <2>1 DEF Least
<1>21. \E n \in SUBSET ToSet(a) : KNearest(d, k - share, n, R)
  <2>. DEFINE q == k - share
  <2>1. q \in Nat /\ q <= k /\ Len(g) + q <= k
    BY <1>1, <1>11, <1>19, <1>20
  <2>. HIDE DEF q
  <2>2. KNearest(d, q, FirstOf(rows, q), T)
    BY <1>5, <2>1, PrefixNearest
  <2>3. KNearest(d, q, FirstOf(rows, q), R)
    BY <1>1, <1>2, <1>3, <2>1, <2>2, NearestOfNearest
  <2>4. FirstOf(rows, q) \subseteq ToSet(v)
    BY <1>1, <1>5, <1>9, <1>10, <2>1, FillsFirst
  <2>5. FirstOf(rows, q) \in SUBSET ToSet(a)
    BY <1>14, <1>17, <2>4
  <2>. QED BY <2>3, <2>5 DEF q
\* No place is left free.
<1>22. Len(a) = Min({k, Cardinality(M \cup R)})
  <2>. DEFINE all == M \cup R
              m == Cardinality(all)
  <2>1. IsFiniteSet(all) /\ m \in Nat /\ T \cup B \subseteq all
    BY <1>2, <1>3, FS_Union, FS_CardinalityType DEF KNearest
  <2>2. Min({k, m}) = Least(k, m)
    BY <1>1, <2>1, LesserIs
  <2>3. Len(f) <= m
    <3>1. ToSet(f) \subseteq all
      BY <1>14, <2>1
    <3>. QED BY <1>15, <2>1, <3>1, PartCount
  <2>4. ASSUME Len(f) < k PROVE Len(f) = m
    <3>1. B \subseteq ToSet(f)
      BY <1>14, <2>4
    <3>2. T \subseteq ToSet(f)
      <4>1. IsFiniteSet(ToSet(v)) /\ Cardinality(ToSet(v)) = Len(v) /\ Len(v) \in Nat
        BY <1>12, CardList
      <4>2. Cardinality(ToSet(v)) <= Cardinality(ToSet(f))
        BY <1>14, <1>15, PartCount
      <4>3. Len(v) < k
        BY <1>1, <1>15, <2>4, <4>1, <4>2
      <4>. QED BY <1>12, <1>14, <4>3
    <3>3. Cardinality(B) < k /\ Cardinality(T) < k
      <4>1. Cardinality(B) <= Cardinality(ToSet(f)) /\ Cardinality(T) <= Cardinality(ToSet(f))
        BY <1>15, <3>1, <3>2, PartCount
      <4>. QED BY <1>1, <1>4, <1>5, <1>15, <2>4, <4>1
    <3>4. B = M /\ T = R
      BY <1>1, <1>2, <1>3, <3>3, AllNearest
    <3>5. ToSet(f) = all
      BY <1>14, <3>1, <3>2, <3>4
    <3>. QED BY <1>15, <3>5
  <2>. HIDE DEF m
  <2>5. Len(f) = Least(k, m)
    BY <1>1, <1>14, <1>15, <2>1, <2>3, <2>4 DEF Least
  <2>6. Len(a) = Min({k, m})
    BY <1>17, <2>2, <2>5
  <2>. QED BY <2>6 DEF m
<1>23. Len(a) <= k /\ ToSet(a) \subseteq T \cup B
  BY <1>14, <1>17
<1>24. MembershipLaws(a, T, B, M, R)
  BY <1>17, <1>18, <1>21, <1>22, <1>23 DEF MembershipLaws, d, k, share
<1>25. a = AnswerOf(T, B)
  BY <1>7 DEF a, f, v, g, e, near, rows, AnswerOf, d, k, c
<1>. QED BY <1>24, <1>25

-----------------------------------------------------------------------------
(* Fused scoring.                                                          *)

\* A place between the least and the most of the pool's numbers is a number.
LEMMA PlaceIs ==
  ASSUME Pool \in SUBSET Vertices, Pool # {}, NEW f, \A u \in Vertices : f[u] \in Int
  PROVE  Whole(f) \in Int /\ \A v \in Pool : Place(f, v) \in Int
<1>. DEFINE S == {f[u] : u \in Pool}
<1>1. S \in SUBSET Int /\ S # {}
  OBVIOUS
<1>2. IsFiniteSet(S)
  <2>1. IsFiniteSet(Pool)
    BY VerticesAssumption, FS_Subset
  <2>. DEFINE onto == [u \in Pool |-> f[u]]
  <2>2. S = {onto[u] : u \in Pool} /\ onto \in Surjection(Pool, S)
    BY DEF Surjection
  <2>. HIDE DEF onto, S
  <2>. QED BY <2>1, <2>2, FS_Surjection
<1>3. Min(S) \in S /\ Max(S) \in S
  BY <1>1, <1>2, EndsOf
<1>4. Min(S) \in Int /\ Max(S) \in Int
  BY <1>1, <1>3
<1>5. Whole(f) = IF Min(S) = Max(S) THEN 1 ELSE Max(S) - Min(S)
  BY DEF Whole
<1>6. \A v \in Pool : Place(f, v) = IF Min(S) = Max(S) THEN 1 ELSE f[v] - Min(S)
  BY DEF Place
<1>7. \A v \in Pool : f[v] \in Int
  OBVIOUS
<1>. DEFINE low == Min(S)
            high == Max(S)
<1>8. low \in Int /\ high \in Int /\ Whole(f) = (IF low = high THEN 1 ELSE high - low)
      /\ \A v \in Pool : Place(f, v) = IF low = high THEN 1 ELSE f[v] - low
  BY <1>4, <1>5, <1>6
<1>. HIDE DEF low, high
<1>. QED BY <1>7, <1>8

\* The fused score of a pool's vertex is a number.
LEMMA FusedIs ==
  ASSUME call \in Calls, push \in PushStates, Pool \in SUBSET Vertices, Pool # {}
  PROVE  Fused \in [Pool -> Int]
<1>. DEFINE far == [v \in Vertices |-> -call.dist[v]]
            res == push.reserve
<1>1. call.dist \in [Vertices -> Nat] /\ res \in [Vertices -> Nat]
  BY CallParts, PushParts
<1>2. \A u \in Vertices : far[u] \in Int
  BY <1>1
<1>3. \A u \in Vertices : res[u] \in Int
  BY <1>1
<1>4. Fused = [v \in Pool |-> -(Place(far, v) * Whole(res) + Place(res, v) * Whole(far))]
  BY DEF Fused
<1>. HIDE DEF far, res
<1>5. Whole(far) \in Int /\ \A v \in Pool : Place(far, v) \in Int
  BY <1>2, PlaceIs
<1>6. Whole(res) \in Int /\ \A v \in Pool : Place(res, v) \in Int
  BY <1>3, PlaceIs
<1>7. ASSUME NEW v \in Pool PROVE -(Place(far, v) * Whole(res) + Place(res, v) * Whole(far)) \in Int
  <2>. DEFINE a == Place(far, v)
              b == Whole(res)
              c == Place(res, v)
              e == Whole(far)
              x == a * b
              y == c * e
  <2>1. a \in Int /\ b \in Int /\ c \in Int /\ e \in Int
    BY <1>5, <1>6
  <2>. HIDE DEF a, b, c, e
  <2>2. x \in Int /\ y \in Int
    BY <2>1
  <2>. HIDE DEF x, y
  <2>3. -(x + y) \in Int
    BY <2>2
  <2>. QED BY <2>3 DEF x, y, a, b, c, e
<1>. QED BY <1>4, <1>7

\* What ppr scoring answers: k of the pool, the reached their share of it by
\* fused score, the rest of it the best of any origin.
FusedLaws(a) ==
  /\ a \in Seq(Vertices) /\ Len(a) <= call.k /\ ToSet(a) \subseteq Pool
  /\ Len(a) = Min({call.k, Cardinality(Pool)})
  /\ \E near \in SUBSET ToSet(a) : KNearest(Fused, Reserved, near, Pool \cap push.reach)
  /\ \A v \in Pool \ ToSet(a), u \in ToSet(a) : Fused[v] < Fused[u] => u \in push.reach

\* In a ranking the nearer come first.
LEMMA RankedFirst ==
  ASSUME NEW S, NEW d \in [S -> Int], NEW r, RankedLaws(r, d, S), NEW u \in S, NEW v \in S, d[v] < d[u]
  PROVE  \E i \in 1..Len(r), j \in 1..Len(r) : i < j /\ r[i] = v /\ r[j] = u
<1>. DEFINE n == Len(r)
<1>1. /\ r \in Seq(S) /\ ToSet(r) = S
      /\ \A i \in 1..n, j \in 1..n : i < j => Nearer(d, r[i], r[j])
  BY DEF RankedLaws
<1>2. n \in Nat /\ DOMAIN r = 1..n
  BY <1>1, LenProperties
<1>3. S = {r[i] : i \in 1..n}
  BY <1>1, <1>2 DEF ToSet
<1>4. PICK i \in 1..n : r[i] = v
  BY <1>3
<1>5. PICK j \in 1..n : r[j] = u
  BY <1>3
<1>6. d[u] \in Int /\ d[v] \in Int
  OBVIOUS
<1>7. i # j
  BY <1>4, <1>5, <1>6
<1>8. ~(j < i)
  <2>1. j < i => Nearer(d, u, v)
    BY <1>1, <1>4, <1>5
  <2>. QED BY <1>6, <2>1 DEF Nearer
<1>9. i < j
  BY <1>7, <1>8
<1>. QED BY <1>4, <1>5, <1>9

\* Without a candidate there is no answer.
LEMMA NoneFused ==
  ASSUME call \in Calls, Pool = {}
  PROVE  FusedLaws(PprAnswer)
<1>1. PprAnswer = <<>>
  BY DEF PprAnswer
<1>2. ToSet(<<>>) = {} /\ Len(<<>>) = 0 /\ Cardinality({}) = 0
  BY EmptySet, FS_EmptySet
<1>3. call.k \in Nat \ {0} /\ Reserved \in Nat /\ Reserved >= 1
  BY CallParts, CapIs
<1>4. Min({call.k, Cardinality({})}) = 0
  <2>1. Min({call.k, Cardinality({})}) = Least(call.k, Cardinality({}))
    BY <1>2, <1>3, LesserIs
  <2>. QED BY <1>2, <1>3, <2>1 DEF Least
<1>5. KNearest(Fused, Reserved, {}, {})
  BY <1>2, <1>3 DEF KNearest
<1>. DEFINE e == <<>>
<1>6. e \in Seq(Vertices) /\ ToSet(e) = {} /\ Len(e) = 0
  BY <1>2
<1>. HIDE DEF e
<1>7. Len(e) <= call.k /\ Len(e) = Min({call.k, Cardinality({})})
  BY <1>2, <1>3, <1>4, <1>6
<1>8. {} \cap push.reach = {} /\ {} \in SUBSET ToSet(e)
  OBVIOUS
<1>9. \E near \in SUBSET ToSet(e) : KNearest(Fused, Reserved, near, {} \cap push.reach)
  BY <1>5, <1>8
<1>10. FusedLaws(e)
  BY <1>6, <1>7, <1>9 DEF FusedLaws
<1>. QED BY <1>1, <1>10 DEF e

\* The fused answer: the reached have their share, best score first, and the
\* rest goes to the best of any origin (tjs_finalize_ppr).
LEMMA FusedBest ==
  ASSUME call \in Calls, push \in PushStates, Pool \in SUBSET Vertices
  PROVE  FusedLaws(PprAnswer)
<1>0. CASE Pool = {}
  BY <1>0, NoneFused
<1>00. CASE Pool # {}
<2>. DEFINE d == Fused
            k == call.k
            c == BridgeCap
            P == Pool
            W == push.reach
            ranked == Ranked(d, P)
            reached == Only(ranked, W)
            g == Filled(<<>>, reached, c)
            f == Filled(g, ranked, k)
            a == Ranked(d, ToSet(f))
<2>1. c = Reserved /\ c \in Nat /\ c >= 1 /\ c <= k /\ k \in Nat \ {0}
  BY CapIs, CallParts
<2>2. P \subseteq Int /\ d \in [P -> Int] /\ IsFiniteSet(P) /\ Cardinality(P) \in Nat /\ P \in SUBSET P
  BY <1>00, FusedIs, VerticesAssumption, FS_Subset, FS_CardinalityType
<2>3. PprAnswer = a
  BY <1>00 DEF PprAnswer
<2>4. P \in SUBSET Vertices
  OBVIOUS
<2>. HIDE DEF d, k, c, P, W
<2>5. RankedLaws(ranked, d, P)
  BY <2>2, RankedIs
<2>6. /\ ranked \in Seq(P) /\ IsInjective(ranked) /\ ToSet(ranked) = P /\ Len(ranked) = Cardinality(P)
      /\ \A i \in 1..Len(ranked), j \in 1..Len(ranked) : i < j => Nearer(d, ranked[i], ranked[j])
  BY <2>5 DEF RankedLaws
<2>. HIDE DEF ranked
<2>7. /\ reached \in Seq(P) /\ ToSet(reached) = P \cap W /\ IsInjective(reached)
      /\ \A i \in 1..Len(reached), j \in 1..Len(reached) : i < j => Nearer(d, reached[i], reached[j])
  <3>1. \A s \in Seq(P) : IsInjective(s) =>
           /\ Only(s, W) \in Seq(P)
           /\ ToSet(Only(s, W)) = ToSet(s) \cap W
           /\ IsInjective(Only(s, W))
           /\ (\A i \in 1..Len(s), j \in 1..Len(s) : i < j => Nearer(d, s[i], s[j])) =>
                \A i \in 1..Len(Only(s, W)), j \in 1..Len(Only(s, W)) :
                  i < j => Nearer(d, Only(s, W)[i], Only(s, W)[j])
    BY OnlyRanked
  <3>. QED BY <2>6, <3>1
<2>. HIDE DEF reached
<2>8. RankedLaws(reached, d, P \cap W) /\ IsFiniteSet(P \cap W)
  <3>1. Cardinality(ToSet(reached)) = Len(reached)
    BY <2>7, CardList
  <3>2. reached \in Seq(P \cap W)
    <4>1. Len(reached) \in Nat /\ DOMAIN reached = 1..Len(reached) /\ reached \in [1..Len(reached) -> P]
      BY <2>7, LenProperties
    <4>2. \A i \in 1..Len(reached) : reached[i] \in ToSet(reached)
      BY <4>1 DEF ToSet
    <4>3. reached \in [1..Len(reached) -> P \cap W]
      BY <2>7, <4>1, <4>2
    <4>. QED BY <4>1, <4>3
  <3>3. IsFiniteSet(P \cap W)
    BY <2>2, FS_Subset
  <3>. QED BY <2>7, <3>1, <3>2, <3>3 DEF RankedLaws
<2>. DEFINE e == <<>>
<2>9. e \in Seq(P) /\ IsInjective(e) /\ ToSet(e) = {} /\ Len(e) = 0
  BY EmptySet, EmptyInjective
<2>10. g = Filled(e, reached, c)
  OBVIOUS
<2>. HIDE DEF e, g
<2>11. FillLaws(g, e, reached, c, P)
  BY <2>1, <2>7, <2>9, <2>10, FilledIs
<2>12. g \in Seq(P) /\ IsInjective(g) /\ ToSet(g) \subseteq P \cap W /\ Len(g) <= c
  BY <2>1, <2>7, <2>9, <2>11 DEF FillLaws
<2>13. Len(g) \in Nat /\ Len(g) <= k
  BY <2>1, <2>12, LenProperties
<2>14. FillLaws(f, g, ranked, k, P)
  BY <2>1, <2>6, <2>12, FilledIs
<2>. HIDE DEF f
<2>15. /\ f \in Seq(P) /\ IsInjective(f) /\ ToSet(g) \subseteq ToSet(f) /\ ToSet(f) \subseteq P /\ Len(f) <= k
       /\ (Len(f) < k => P \subseteq ToSet(f))
       /\ \A i \in 1..Len(ranked), j \in 1..Len(ranked) :
            i < j /\ ranked[j] \in ToSet(f) \ ToSet(g) => ranked[i] \in ToSet(f)
  BY <2>6, <2>12, <2>13, <2>14 DEF FillLaws
<2>16. IsFiniteSet(ToSet(f)) /\ Cardinality(ToSet(f)) = Len(f) /\ Len(f) \in Nat
  BY <2>15, CardList
<2>17. RankedLaws(a, d, ToSet(f))
  BY <2>2, <2>15, <2>16, RankedIs
<2>18. a \in Seq(Vertices) /\ ToSet(a) = ToSet(f) /\ Len(a) = Len(f)
  <3>1. a \in Seq(ToSet(f)) /\ ToSet(a) = ToSet(f) /\ Len(a) = Len(f)
    BY <2>16, <2>17 DEF RankedLaws
  <3>2. ToSet(f) \subseteq Vertices
    BY <2>4, <2>15
  <3>. QED BY <3>1, <3>2
<2>. HIDE DEF a
<2>19. \E near \in SUBSET ToSet(a) : KNearest(d, Reserved, near, P \cap W)
  <3>0. \A x \in P \cap W : d[x] \in Int
    BY <2>2
  <3>1. KNearest(d, c, FirstOf(reached, c), P \cap W)
    BY <2>1, <2>8, <3>0, PrefixNearest
  <3>2. Len(e) + c <= c
    BY <2>1, <2>9
  <3>3. FirstOf(reached, c) \subseteq ToSet(g)
    BY <2>1, <2>7, <2>9, <2>11, <3>2, FillsFirst
  <3>4. FirstOf(reached, c) \in SUBSET ToSet(a)
    BY <2>15, <2>18, <3>3
  <3>. QED BY <2>1, <3>1, <3>4
<2>20. Len(a) = Min({k, Cardinality(P)})
  <3>1. Min({k, Cardinality(P)}) = Least(k, Cardinality(P))
    BY <2>1, <2>2, LesserIs
  <3>2. Len(f) <= Cardinality(P)
    BY <2>2, <2>15, <2>16, PartCount
  <3>3. Len(f) < k => Len(f) = Cardinality(P)
    <4>1. Len(f) < k => ToSet(f) = P
      BY <2>15
    <4>. QED BY <2>16, <4>1
  <3>4. Len(f) = Least(k, Cardinality(P))
    BY <2>1, <2>2, <2>15, <2>16, <3>2, <3>3 DEF Least
  <3>. QED BY <2>18, <3>1, <3>4
<2>21. ASSUME NEW v \in P \ ToSet(a), NEW u \in ToSet(a), d[v] < d[u] PROVE u \in W
  <3>1. v \in P /\ u \in P /\ v \notin ToSet(f) /\ u \in ToSet(f)
    BY <2>15, <2>18
  <3>2. PICK i \in 1..Len(ranked), j \in 1..Len(ranked) : i < j /\ ranked[i] = v /\ ranked[j] = u
    BY <2>2, <2>5, <2>21, <3>1, RankedFirst
  <3>3. u \in ToSet(g)
    BY <2>15, <3>1, <3>2
  <3>. QED BY <2>12, <3>3
<2>22. Len(a) <= k /\ ToSet(a) \subseteq P
  BY <2>15, <2>18
<2>23. FusedLaws(a)
  BY <2>18, <2>19, <2>20, <2>21, <2>22 DEF FusedLaws, d, k, P, W
<2>. QED BY <2>3, <2>23 DEF a, f, g, e, reached, ranked, c, d, k, P, W
<1>. QED BY <1>0, <1>00

-----------------------------------------------------------------------------
(* The answer.                                                             *)

\* A call that is done has fetched all, and has answered.
AnswerInv ==
  phase = "done" => ToFetch = {} /\ answer = IF Ppr THEN PprAnswer ELSE MembershipAnswer

\* The answer depends on what is no longer changed.
LEMMA AnswerSame ==
  ASSUME UNCHANGED <<call, streamed, push, topk, bridges, fetched>>
  PROVE  ToFetch' = ToFetch /\ Ppr' = Ppr /\ PprAnswer' = PprAnswer /\ MembershipAnswer' = MembershipAnswer
<1>1. ToFetch' = ToFetch /\ Ppr' = Ppr
  BY DEF ToFetch, Ppr, Seen, GraphLeg
<1>2. Pool' = Pool /\ Reserved' = Reserved
  BY DEF Pool, Reserved
<1>3. MembershipAnswer' = MembershipAnswer
  BY Zenon DEF MembershipAnswer, BridgeCap
<1>4. PprAnswer' = PprAnswer
  <2>1. call' = call /\ push' = push /\ topk' = topk /\ fetched' = fetched
    OBVIOUS
  <2>3. Pool' = Pool
    BY <1>2
  <2>2. Fused' = Fused
    <3>. DEFINE P(pool, f, v) == IF Min({f[u] : u \in pool}) = Max({f[u] : u \in pool}) THEN 1
                                 ELSE f[v] - Min({f[u] : u \in pool})
                W(pool, f) == IF Min({f[u] : u \in pool}) = Max({f[u] : u \in pool}) THEN 1
                              ELSE Max({f[u] : u \in pool}) - Min({f[u] : u \in pool})
                far(d) == [v \in Vertices |-> -d[v]]
                F(pool, d, r) == [v \in pool |-> -(P(pool, far(d), v) * W(pool, r) + P(pool, r, v) * W(pool, far(d)))]
    <3>1. Fused = F(Pool, call.dist, push.reserve)
      BY Zenon DEF Fused, Place, Whole
    <3>2. Fused' = F(Pool', call'.dist, push'.reserve)
      BY Zenon DEF Fused, Place, Whole
    <3>. HIDE DEF P, W, far, F
    <3>. QED BY <2>1, <2>3, <3>1, <3>2
  <2>4. BridgeCap' = BridgeCap
    BY <2>1 DEF BridgeCap
  <2>. QED BY <2>1, <2>2, <2>3, <2>4, Zenon DEF PprAnswer
<1>. QED BY <1>1, <1>3, <1>4

\* No step breaks it.
LEMMA AnswerStep == StreamOK /\ AnswerInv /\ [SeedlessNext]_seedlessVars => AnswerInv'
<1>. SUFFICES ASSUME StreamOK, AnswerInv, [SeedlessNext]_seedlessVars PROVE AnswerInv'
  OBVIOUS
<1>1. CASE Finalize
  <2>1. /\ UNCHANGED <<call, streamed, push, topk, bridges, fetched>> /\ ToFetch = {}
        /\ answer' = IF Ppr THEN PprAnswer ELSE MembershipAnswer
    BY <1>1 DEF Finalize
  <2>2. ToFetch' = ToFetch /\ Ppr' = Ppr /\ PprAnswer' = PprAnswer /\ MembershipAnswer' = MembershipAnswer
    BY <2>1, AnswerSame
  <2>. QED BY <2>1, <2>2, Zenon DEF AnswerInv
<1>2. CASE UNCHANGED seedlessVars
  <2>1. UNCHANGED <<call, streamed, push, topk, bridges, fetched, answer, phase>>
    BY <1>2 DEF seedlessVars
  <2>2. ToFetch' = ToFetch /\ Ppr' = Ppr /\ PprAnswer' = PprAnswer /\ MembershipAnswer' = MembershipAnswer
    BY <2>1, AnswerSame
  <2>. QED BY <2>1, <2>2, Zenon DEF AnswerInv
<1>3. ASSUME phase' # "done" PROVE AnswerInv'
  BY <1>3 DEF AnswerInv
<1>4. ASSUME NEW row \in call.rows, StreamExcluded(row) \/ StreamRanked(row) PROVE phase' # "done"
  <2>1. Pulls(row) /\ (phase' = phase \/ phase' = "drain")
    BY <1>4 DEF StreamExcluded, StreamRanked
  <2>. QED BY <2>1 DEF Pulls
<1>5. ASSUME NEW row \in call.rows, StreamBuffered(row) PROVE phase' # "done"
  <2>1. Pulls(row) /\ (phase' = phase \/ phase' = "seeding")
    BY <1>5 DEF StreamBuffered, StartSeeding
  <2>. QED BY <2>1 DEF Pulls
<1>6. CASE StreamEnds \/ SeedPull \/ PushPop
  BY <1>3, <1>6 DEF StreamEnds, StartSeeding, SeedPull, PushPop
<1>7. CASE AdmitWindow
  BY <1>3, <1>7, AdmitIs
<1>8. ASSUME NEW v \in ToFetch, FetchBridge(v) PROVE phase' # "done"
  BY <1>8 DEF FetchBridge
<1>. QED BY <1>1, <1>2, <1>3, <1>4, <1>5, <1>6, <1>7, <1>8 DEF SeedlessNext

\* A call that is done has met all members.
LEMMA DoneMet ==
  ASSUME StreamOK, HeapsInv, AnswerInv, phase = "done", ~Ppr
  PROVE  /\ MetRows = streamed \cap call.passes /\ MetBridges = Members
         /\ answer = AnswerOf(ToSet(topk), ToSet(bridges))
<1>1. (GraphLeg => seeded) /\ call \in Calls /\ ToFetch = {} /\ answer = MembershipAnswer
  BY DEF StreamOK, StreamTypeOK, PhaseInv, AnswerInv
<1>2. push.reach \subseteq fetched \cup Seen
  BY <1>1 DEF ToFetch
<1>3. MetRows = streamed \cap call.passes /\ MetBridges = Members \cap (streamed \cup fetched)
  BY <1>1 DEF MetRows, MetBridges
<1>4. MetBridges = Members
  BY <1>2, <1>3 DEF Members, Seen
<1>5. MembershipAnswer = AnswerOf(ToSet(topk), ToSet(bridges))
  BY DEF MembershipAnswer, AnswerOf
<1>. QED BY <1>1, <1>3, <1>4, <1>5

\* What it answers by membership.
LEMMA DoneLaws ==
  ASSUME StreamOK, HeapsInv, AnswerInv, phase = "done", ~Ppr
  PROVE  MembershipLaws(answer, ToSet(topk), ToSet(bridges), Members, streamed \cap call.passes)
<1>1. /\ MetRows = streamed \cap call.passes /\ MetBridges = Members
      /\ answer = AnswerOf(ToSet(topk), ToSet(bridges))
  BY DoneMet
<1>2. call \in Calls /\ MetRows \in SUBSET Vertices /\ MetBridges \in SUBSET Vertices
  BY MetIs
<1>3. KNearest(call.dist, call.k, ToSet(topk), MetRows) /\ KNearest(call.dist, call.k, ToSet(bridges), MetBridges)
  BY DEF HeapsInv, Held
<1>4. MembershipLaws(AnswerOf(ToSet(topk), ToSet(bridges)), ToSet(topk), ToSet(bridges), MetBridges, MetRows)
  BY <1>2, <1>3, MembershipIs
<1>. QED BY <1>1, <1>4

\* The shares of the answer (SharesAreKept).
LEMMA SharesOf ==
  ASSUME StreamOK, HeapsInv, AnswerInv
  PROVE  BridgesGuaranteed /\ VectorsKeepRoom /\ BridgesCountedOnce
<1>. SUFFICES ASSUME phase = "done", ~Ppr PROVE BridgesGuaranteed /\ VectorsKeepRoom /\ BridgesCountedOnce
  BY DEF BridgesGuaranteed, VectorsKeepRoom, BridgesCountedOnce
<1>1. MembershipLaws(answer, ToSet(topk), ToSet(bridges), Members, streamed \cap call.passes)
  BY DoneLaws
<1>2. BridgesGuaranteed
  BY <1>1 DEF MembershipLaws, BridgesGuaranteed
<1>3. VectorsKeepRoom
  BY <1>1 DEF MembershipLaws, VectorsKeepRoom
<1>4. BridgesCountedOnce
  BY DoneMet DEF HeapsInv, BridgesCountedOnce
<1>. QED BY <1>2, <1>3, <1>4

-----------------------------------------------------------------------------
\* The pool is of the filter's rows.
LEMMA PoolIs ==
  ASSUME StreamOK, HeapsInv
  PROVE  /\ ToSet(topk) \subseteq call.passes /\ ToSet(bridges) \subseteq call.passes
         /\ Pool \subseteq call.passes /\ Pool \in SUBSET Vertices /\ call \in Calls /\ push \in PushStates
<1>1. ToSet(topk) \subseteq MetRows /\ ToSet(bridges) \subseteq MetBridges
  BY DEF HeapsInv, Held, KNearest
<1>2. MetRows \subseteq call.passes /\ MetBridges \subseteq call.passes
  BY DEF MetRows, MetBridges, Members
<1>3. call.passes \in SUBSET Vertices /\ call \in Calls
  BY MetIs
<1>. QED BY <1>1, <1>2, <1>3 DEF Pool, StreamOK, StreamTypeOK

\* The fused answer of a call that is done.
LEMMA DoneFused ==
  ASSUME StreamOK, HeapsInv, AnswerInv, phase = "done", Ppr
  PROVE  FusedLaws(answer) /\ Pool = Members \cup ToSet(topk)
<1>1. call \in Calls /\ push \in PushStates /\ Pool \in SUBSET Vertices /\ ToSet(topk) \subseteq call.passes
  BY PoolIs
<1>2. answer = PprAnswer /\ ToFetch = {}
  BY DEF AnswerInv
<1>3. FusedLaws(PprAnswer)
  BY <1>1, FusedBest
<1>4. push.reach \subseteq fetched \cup ToSet(topk) /\ fetched \subseteq push.reach
  BY <1>2 DEF ToFetch, StreamOK, StreamTypeOK
<1>. QED BY <1>2, <1>3, <1>4 DEF Pool, Members

\* The best are answered (BestFusedKept).
LEMMA BestOf == ASSUME StreamOK, HeapsInv, AnswerInv PROVE BestFusedKept
<1>. SUFFICES ASSUME phase = "done", Ppr PROVE BestFusedKept
  BY DEF BestFusedKept
<1>1. FusedLaws(answer) /\ Pool = Members \cup ToSet(topk)
  BY DoneFused
<1>. QED BY <1>1 DEF FusedLaws, BestFusedKept

\* The heaps hold the nearest (HeapsHoldNearest).
LEMMA NearestOf == ASSUME HeapsInv PROVE HeapsHoldNearest
<1>. SUFFICES ASSUME GraphLeg => seeded PROVE HeapsHoldNearest
  BY DEF HeapsHoldNearest
<1>1. /\ MetRows = streamed \cap call.passes
      /\ ~Ppr => MetBridges = Members \cap (streamed \cup fetched)
  BY DEF MetRows, MetBridges
<1>. QED BY <1>1 DEF HeapsInv, Held, HeapsHoldNearest

\* A heap's type.
LEMMA HeapType ==
  ASSUME call \in Calls, NEW h \in Seq(Vertices), NEW ids \in SUBSET Vertices, ids \subseteq call.passes,
         Held(call.dist, call.k, h, ids)
  PROVE  /\ h \in Seq(call.passes) /\ IsInjective(h) /\ Len(h) <= call.k
         /\ \A i \in 2..Len(h) : call.dist[h[i \div 2]] >= call.dist[h[i]]
<1>1. IsInjective(h) /\ IsHeap(call.dist, Len(h), h) /\ KNearest(call.dist, call.k, ToSet(h), ids)
  BY DEF Held
<1>2. Cardinality(ToSet(h)) = Len(h) /\ Len(h) \in Nat
  BY <1>1, CardList
<1>3. call.k \in Nat \ {0} /\ IsFiniteSet(ids) /\ Cardinality(ids) \in Nat
  BY CallParts, VerticesAssumption, FS_Subset, FS_CardinalityType
<1>4. Len(h) <= call.k
  BY <1>1, <1>2, <1>3 DEF KNearest
<1>5. h \in Seq(call.passes)
  <2>1. DOMAIN h = 1..Len(h) /\ h \in [1..Len(h) -> Vertices]
    BY LenProperties
  <2>2. \A i \in 1..Len(h) : h[i] \in ToSet(h)
    BY <2>1 DEF ToSet
  <2>3. ToSet(h) \subseteq call.passes
    BY <1>1 DEF KNearest
  <2>4. h \in [1..Len(h) -> call.passes]
    BY <2>1, <2>2, <2>3
  <2>. QED BY <1>2, <2>4
<1>. QED BY <1>1, <1>4, <1>5 DEF IsHeap

\* The answer's type.
LEMMA AnswerType ==
  ASSUME StreamOK, HeapsInv, AnswerInv
  PROVE  answer \in Seq(call.passes) /\ Len(answer) <= call.k
<1>1. /\ ToSet(topk) \subseteq call.passes /\ ToSet(bridges) \subseteq call.passes
      /\ Pool \subseteq call.passes /\ call \in Calls
  BY PoolIs
<1>2. ASSUME answer \in Seq(Vertices), ToSet(answer) \subseteq call.passes PROVE answer \in Seq(call.passes)
  <2>0. Len(answer) \in Nat
    BY <1>2
  <2>1. DOMAIN answer = 1..Len(answer) /\ answer \in [1..Len(answer) -> Vertices]
    BY <1>2, LenProperties
  <2>2. \A i \in 1..Len(answer) : answer[i] \in ToSet(answer)
    BY <2>1 DEF ToSet
  <2>4. answer \in [1..Len(answer) -> call.passes]
    BY <1>2, <2>1, <2>2
  <2>. QED BY <2>0, <2>4
<1>3. CASE phase # "done"
  <2>1. answer = <<>>
    BY <1>3 DEF StreamOK, PhaseInv
  <2>2. call.k \in Nat
    BY <1>1, CallParts
  <2>. QED BY <2>1, <2>2
<1>4. CASE phase = "done" /\ Ppr
  <2>1. FusedLaws(answer)
    BY <1>4, DoneFused
  <2>. QED BY <1>1, <1>2, <2>1 DEF FusedLaws
<1>5. CASE phase = "done" /\ ~Ppr
  <2>1. MembershipLaws(answer, ToSet(topk), ToSet(bridges), Members, streamed \cap call.passes)
    BY <1>5, DoneLaws
  <2>2. answer \in Seq(Vertices) /\ Len(answer) <= call.k /\ ToSet(answer) \subseteq call.passes
    BY <1>1, <2>1 DEF MembershipLaws
  <2>. QED BY <1>2, <2>2
<1>. QED BY <1>3, <1>4, <1>5

\* The type invariant that is checked (SeedlessTypeOK).
LEMMA TypesOf == ASSUME StreamOK, HeapsInv, StopInv, AnswerInv PROVE SeedlessTypeOK
<1>1. /\ call \in Calls /\ topk \in Seq(Vertices) /\ bridges \in Seq(Vertices)
      /\ MetRows \in SUBSET Vertices /\ MetBridges \in SUBSET Vertices
  BY MetIs
<1>2. MetRows \subseteq call.passes /\ MetBridges \subseteq call.passes
  BY DEF MetRows, MetBridges, Members
<1>3. /\ topk \in Seq(call.passes) /\ IsInjective(topk) /\ Len(topk) <= call.k
      /\ \A i \in 2..Len(topk) : call.dist[topk[i \div 2]] >= call.dist[topk[i]]
  BY <1>1, <1>2, HeapType DEF HeapsInv
<1>4. /\ bridges \in Seq(call.passes) /\ IsInjective(bridges) /\ Len(bridges) <= call.k
      /\ \A i \in 2..Len(bridges) : call.dist[bridges[i \div 2]] >= call.dist[bridges[i]]
  BY <1>1, <1>2, HeapType DEF HeapsInv
<1>5. answer \in Seq(call.passes) /\ Len(answer) <= call.k
  BY AnswerType
<1>6. /\ phase \in {"stream", "seeding", "drain", "done"} /\ reason \in Reasons
      /\ (phase \in {"drain", "done"} => reason # "running")
      /\ streamed \subseteq call.rows /\ buf \subseteq streamed \cap call.passes
      /\ seeded \in BOOLEAN /\ seeds \in Seq(buf) /\ push \in PushStates
      /\ drops \in Nat /\ examined \in Nat /\ injected \in Nat /\ fetched \subseteq push.reach
  BY DEF StreamOK, StreamTypeOK, PhaseInv
<1>7. push.reach \subseteq Vertices
  BY <1>6, PushParts
<1>8. drops \in 0..call.term
  <2>1. call.term \in Nat /\ drops <= call.term
    BY <1>1, CallParts DEF StopInv
  <2>. QED BY <1>6, <2>1
<1>9. {examined, injected} \subseteq Nat
  BY <1>6
<1>10. \A h \in {topk, bridges} :
       /\ h \in Seq(call.passes) /\ IsInjective(h)
       /\ Len(h) <= call.k
       /\ \A i \in 2..Len(h) : call.dist[h[i \div 2]] >= call.dist[h[i]]
  BY <1>3, <1>4
<1>. QED BY <1>1, <1>5, <1>6, <1>7, <1>8, <1>9, <1>10 DEF SeedlessTypeOK

-----------------------------------------------------------------------------
(* The mass.                                                               *)

\* The sum that is checked.
MassSum == MapThenSumSet(LAMBDA v : push.reserve[v] + push.residue[v], Vertices)

\* All of the mass is the sum that is checked.
LEMMA MassSumIs ==
  ASSUME push \in PushStates
  PROVE  MassSum = MassOf(push)
<1>. DEFINE S == Vertices
            f == MassAt(push)
            m(v) == push.reserve[v] + push.residue[v]
            P(I) == I = [t \in SUBSET S |-> IF t = {} THEN 0
                           ELSE LET x == Taken(t) IN m(x) + I[t \ {x}]]
            iter == CHOOSE I : P(I)
<1>0. IsFiniteSet(S)
  BY VerticesAssumption
<1>1. \A v \in S : f[v] \in Nat /\ f[v] = m(v)
  BY MassNat
<1>2. \A t \in SUBSET S : t # {} => Taken(t) \in S /\ t \ {Taken(t)} \in SUBSET S
  BY <1>0, TakenIs
<1>a. f \in [S -> Nat]
  <2>1. f = [v \in S |-> m(v)]
    BY DEF MassAt
  <2>2. \A v \in S : m(v) \in Nat
    BY <1>1
  <2>. HIDE DEF f, m
  <2>. QED BY <2>1, <2>2
<1>7. MassSum = iter[S]
  BY DEF MassSum, MapThenSumSet, MapThenFoldSet, Taken
<1>. HIDE DEF f, m
<1>4. PICK I : Summed(I, S, f)
  BY <1>0, <1>a, SummedExists
<1>5. P(I)
  BY <1>1, <1>2, <1>4 DEF Summed
<1>6. P(iter)
  <2>. HIDE DEF P
  <2>. QED BY <1>5
<1>. HIDE DEF iter
<1>8. Sums(iter, S, f)
  BY <1>1, <1>2, <1>6 DEF Sums
<1>9. \A x \in S : f[x] \in Nat
  BY <1>1
<1>10. iter[S] = SumOver(f, S)
  BY <1>0, <1>8, <1>9, SummedSum
<1>. QED BY <1>7, <1>10 DEF f, MassOf

\* Mass is only at reached vertices, and there is no more of it than there was.
MassInv == MassOf(push) <= Mass /\ \A v \in Vertices : MassAt(push)[v] > 0 => v \in push.reach

\* It starts so.
LEMMA StartMass ==
  ASSUME NEW r, NEW s \in Seq(Vertices), NEW budget, StartLaws(r, s, budget)
  PROVE  MassOf(r) <= Mass /\ \A v \in Vertices : MassAt(r)[v] > 0 => v \in r.reach
<1>. SUFFICES ASSUME NEW v \in Vertices, v \notin r.reach PROVE ~(MassAt(r)[v] > 0)
  BY DEF StartLaws
<1>1. r.reserve[v] = 0 /\ r.residue[v] = 0
  BY DEF StartLaws
<1>2. MassAt(r)[v] = 0
  BY <1>1 DEF MassAt
<1>. QED BY <1>2

\* Seeding starts so.
LEMMA SeedingMass ==
  ASSUME StreamOK, MassInv, phase = "stream", ~seeded, NEW w \in SUBSET Vertices, StartSeeding(w)
  PROVE  MassInv'
<1>1. /\ Ppr => StartLaws(push', Chosen(w), call.workBudget)
      /\ ~Ppr => push' = push
  BY SeedingStarts
<1>2. Chosen(w) \in Seq(Vertices)
  BY ChosenIs DEF StreamOK, StreamTypeOK
<1>3. CASE Ppr
  <2>1. MassOf(push') <= Mass /\ \A v \in Vertices : MassAt(push')[v] > 0 => v \in push'.reach
    BY <1>1, <1>2, <1>3, StartMass
  <2>. QED BY <2>1 DEF MassInv
<1>4. CASE ~Ppr
  BY <1>1, <1>4 DEF MassInv
<1>. QED BY <1>3, <1>4

\* No step makes mass.
LEMMA MassStep == StreamOK /\ MassInv /\ [SeedlessNext]_seedlessVars => MassInv'
<1>. SUFFICES ASSUME StreamOK, MassInv, [SeedlessNext]_seedlessVars PROVE MassInv'
  OBVIOUS
<1>0. CASE UNCHANGED push
  BY <1>0 DEF MassInv
<1>1. call \in Calls /\ push \in PushStates /\ buf \subseteq call.passes
  BY DEF StreamOK, StreamTypeOK
<1>2. call.passes \in SUBSET Vertices
  BY <1>1, CallParts
<1>3. ASSUME NEW row \in call.rows, StreamBuffered(row) PROVE MassInv'
  <2>1. Pulls(row) /\ ~seeded /\ buf' = buf \cup {row} /\ row \in call.passes
        /\ (StartSeeding(buf') \/ UNCHANGED push)
    BY <1>3 DEF StreamBuffered
  <2>2. phase = "stream" /\ buf' \in SUBSET Vertices
    BY <1>1, <1>2, <2>1 DEF Pulls
  <2>. QED BY <1>0, <2>1, <2>2, SeedingMass
<1>4. CASE StreamEnds
  <2>1. phase = "stream" /\ ((~seeded /\ StartSeeding(buf)) \/ UNCHANGED push)
    BY <1>4 DEF StreamEnds
  <2>2. buf \in SUBSET Vertices
    BY <1>1, <1>2
  <2>. QED BY <1>0, <2>1, <2>2, SeedingMass
<1>5. CASE SeedPull
  <2>1. PICK D : SeedPulled(push', push, call.g, call.type, call.hops, Head(seeds), D)
    BY <1>5, SeedPullIs
  <2>2. push'.reserve = push.reserve /\ push'.residue = push.residue /\ push.reach \subseteq push'.reach
    BY <2>1 DEF SeedPulled
  <2>3. MassAt(push') = MassAt(push)
    BY <2>2 DEF MassAt
  <2>4. MassOf(push') = MassOf(push)
    BY <2>3 DEF MassOf
  <2>. QED BY <2>2, <2>3, <2>4 DEF MassInv
<1>6. CASE PushPop
  <2>1. PICK D : PoppedLaws(push', push, call.g, call.type, call.hops, D)
    BY <1>6, PushPopIs
  <2>2. /\ push'.reach = push.reach \cup D /\ MassOf(push') <= MassOf(push) /\ push' \in PushStates
        /\ \A v \in Vertices : MassAt(push')[v] > 0 => MassAt(push)[v] > 0 \/ v \in D
    BY <2>1 DEF PoppedLaws
  <2>3. MassOf(push) \in Nat /\ MassOf(push') \in Nat /\ Mass \in Nat
    BY <1>1, <2>2, MassNat, PushAssumption
  <2>4. MassOf(push') <= Mass
    BY <2>2, <2>3 DEF MassInv
  <2>5. \A v \in Vertices : MassAt(push')[v] > 0 => v \in push'.reach
    BY <2>2 DEF MassInv
  <2>. QED BY <2>4, <2>5 DEF MassInv
<1>7. ASSUME NEW row \in call.rows, StreamExcluded(row) \/ StreamRanked(row) PROVE MassInv'
  BY <1>0, <1>7 DEF StreamExcluded, StreamRanked
<1>8. CASE Finalize
  BY <1>0, <1>8 DEF Finalize
<1>9. CASE AdmitWindow
  BY <1>0, <1>9, AdmitIs
<1>10. ASSUME NEW v \in ToFetch, FetchBridge(v) PROVE MassInv'
  BY <1>0, <1>10 DEF FetchBridge
<1>11. CASE UNCHANGED seedlessVars
  BY <1>0, <1>11 DEF seedlessVars
<1>. QED BY <1>3, <1>4, <1>5, <1>6, <1>7, <1>8, <1>9, <1>10, <1>11 DEF SeedlessNext

\* A call starts without mass.
LEMMA MassInit == SeedlessInit => MassInv
<1>. SUFFICES ASSUME SeedlessInit PROVE MassInv
  OBVIOUS
<1>1. call \in Calls /\ push = PushStart(Vertices, call.dist, <<>>, call.workBudget)
  BY DEF SeedlessInit
<1>2. StartLaws(push, <<>>, call.workBudget)
  BY <1>1, CallParts, StartEmpty
<1>. DEFINE e == <<>>
<1>3. e \in Seq(Vertices) /\ StartLaws(push, e, call.workBudget)
  BY <1>2
<1>. HIDE DEF e
<1>. QED BY <1>3, StartMass DEF MassInv

\* What is checked of the mass (MassNeverMade).
LEMMA MassIs == ASSUME StreamOK, MassInv PROVE MassNeverMade
<1>1. push \in PushStates
  BY DEF StreamOK, StreamTypeOK
<1>2. MassSum <= Mass
  BY <1>1, MassSumIs DEF MassInv
<1>3. \A v \in Vertices : push.reserve[v] + push.residue[v] > 0 => v \in push.reach
  <2>. SUFFICES ASSUME NEW v \in Vertices, push.reserve[v] + push.residue[v] > 0 PROVE v \in push.reach
    OBVIOUS
  <2>1. MassAt(push)[v] = push.reserve[v] + push.residue[v]
    BY DEF MassAt
  <2>. QED BY <2>1 DEF MassInv
<1>. QED BY <1>2, <1>3, Zenon DEF MassNeverMade, MassSum

-----------------------------------------------------------------------------
(* The reach.                                                              *)

\* The seeds chosen from the window, and what is within the hops of a set.
Picked == ToSet(Chosen(buf))
Within(A) == WithinHops(call.g, call.type, A, call.hops)

\* What a seeding has reached.
ReachInv ==
  phase = "seeding" \/ seeded =>
    /\ push.reach \subseteq Within(Picked)
    /\ push.censored => push.left = 0
    /\ Ppr =>
         /\ seeds = <<>> /\ Picked \subseteq push.reach
         /\ \A x \in ToSet(push.queue) :
              x.depth <= call.hops /\ x.vid \in WithinHops(call.g, call.type, Picked, x.depth)
    /\ ~Ppr =>
         /\ push.queue = <<>> /\ IsInjective(seeds) /\ ToSet(seeds) \subseteq Picked
         /\ Picked \ ToSet(seeds) \subseteq push.reach
         /\ ~push.censored => push.reach = Within(Picked \ ToSet(seeds))

\* Nothing is within the hops of nothing.
LEMMA WithinNone ==
  ASSUME NEW g \in Stored, NEW type
  PROVE  \A n \in Nat : WithinHops(g, type, {}, n) = {}
<1>. DEFINE W(n) == WithinHops(g, type, {}, n)
            S == {n \in Nat : W(n) = {}}
<1>1. WithinLaws(g, type, {})
  <2>1. {} \subseteq Vertices
    OBVIOUS
  <2>. QED BY <2>1, WithinIs
<1>2. 0 \in S
  BY <1>1 DEF WithinLaws
<1>3. ASSUME NEW n \in Nat, n \in S PROVE n + 1 \in S
  <2>1. n + 1 \in Int /\ n + 1 > 0 /\ (n + 1) - 1 = n
    OBVIOUS
  <2>2. W(n + 1) = Reached(g, type, W(n))
    BY <1>1, <2>1 DEF WithinLaws
  <2>3. Reached(g, type, {}) = {}
    BY DEF Reached
  <2>. QED BY <1>3, <2>2, <2>3
<1>. HIDE DEF S
<1>4. Nat \subseteq S
  BY <1>2, <1>3, NatSet
<1>. QED BY <1>4 DEF S

\* What is within the hops of one set and of more.
LEMMA WithinBoth ==
  ASSUME call \in Calls, NEW A \in SUBSET Vertices, NEW B \in SUBSET Vertices
  PROVE  /\ Within(A \cup B) = Within(A) \cup Within(B) /\ A \subseteq Within(A)
         /\ Within({}) = {}
<1>1. call.g \in Stored /\ call.hops \in Nat
  BY CallParts
<1>2. \A n \in Nat : WithinHops(call.g, call.type, A \cup B, n) =
                       WithinHops(call.g, call.type, A, n) \cup WithinHops(call.g, call.type, B, n)
  BY <1>1, WithinUnion
<1>3. \A n \in Nat : A \subseteq WithinHops(call.g, call.type, A, n)
                     /\ WithinHops(call.g, call.type, A, n) \in SUBSET Vertices
  BY <1>1, WithinGrows
<1>4. \A n \in Nat : WithinHops(call.g, call.type, {}, n) = {}
  BY <1>1, WithinNone
<1>. QED BY <1>1, <1>2, <1>3, <1>4 DEF Within

\* The start of a seeding.
LEMMA SeedingReach ==
  ASSUME StreamOK, phase = "stream", ~seeded, NEW w \in SUBSET Vertices, StartSeeding(w),
         call' = call, buf' = w, UNCHANGED seeded
  PROVE  ReachInv'
<1>1. /\ phase' = "seeding"
      /\ Ppr => seeds' = <<>> /\ StartLaws(push', Chosen(w), call.workBudget)
      /\ ~Ppr => seeds' = Chosen(w) /\ push' = push
  BY SeedingStarts
<1>2. call \in Calls
  BY DEF StreamOK, StreamTypeOK
<1>3. Chosen(w) \in Seq(Vertices) /\ IsInjective(Chosen(w)) /\ ToSet(Chosen(w)) \subseteq w
  BY <1>2, ChosenIs
<1>4. Picked' = ToSet(Chosen(w)) /\ \A A : Within(A)' = Within(A)
  <2>1. Picked' = ToSet(Chosen(w))
    BY DEF Picked, Chosen
  <2>. QED BY <2>1 DEF Within
<1>. DEFINE C == ToSet(Chosen(w))
<1>5. C \in SUBSET Vertices
  BY <1>3
<1>6. Ppr' = Ppr /\ call.g \in Stored /\ call.hops \in Nat
  BY <1>2, CallParts DEF Ppr
<1>. HIDE DEF C
<1>7. C \subseteq Within(C) /\ Within({}) = {}
  BY <1>2, <1>5, WithinBoth
<1>8. WithinHops(call.g, call.type, C, 0) = C
  <2>1. WithinLaws(call.g, call.type, C)
    BY <1>5, <1>6, WithinIs
  <2>. QED BY <2>1 DEF WithinLaws
<1>9. CASE Ppr
  <2>1. /\ push'.reach = C /\ push'.censored = FALSE
        /\ \A x \in ToSet(push'.queue) : x.vid \in C /\ x.depth = 0
    BY <1>1, <1>9 DEF StartLaws, C
  <2>2. \A x \in ToSet(push'.queue) :
          x.depth <= call.hops /\ x.vid \in WithinHops(call.g, call.type, C, x.depth)
    BY <1>6, <1>8, <2>1
  <2>3. (push.reach \subseteq Within(Picked))' /\ (Picked \subseteq push.reach)'
    BY <1>4, <1>7, <2>1 DEF C, Within
  <2>4. (\A x \in ToSet(push.queue) :
              x.depth <= call.hops /\ x.vid \in WithinHops(call.g, call.type, Picked, x.depth))'
    BY <1>4, <2>2 DEF C
  <2>. QED BY <1>1, <1>6, <1>9, <2>1, <2>3, <2>4 DEF ReachInv
<1>10. CASE ~Ppr
  <2>1. seeds' = Chosen(w) /\ push' = push /\ StartLaws(push, <<>>, call.workBudget) /\ push.queue = <<>>
    BY <1>1, <1>10 DEF StreamOK, PhaseInv
  <2>2. push'.reach = {} /\ push'.censored = FALSE
    BY <2>1, EmptySet, Zenon DEF StartLaws
  <2>3. ToSet(seeds') = C /\ IsInjective(seeds') /\ Picked' = C
    BY <1>3, <1>4, <2>1 DEF C
  <2>4. Picked' \ ToSet(seeds') = {} /\ ToSet(seeds') \subseteq Picked'
    BY <2>3
  <2>5. (Within(Picked \ ToSet(seeds)))' = {}
    BY <1>7, <2>4 DEF Within
  <2>. QED BY <1>6, <1>10, <2>1, <2>2, <2>3, <2>4, <2>5 DEF ReachInv
<1>. QED BY <1>9, <1>10

\* Where neither seeds nor reach change.
LEMMA ReachSame ==
  ASSUME ReachInv, UNCHANGED <<call, push, buf, seeds>>, phase' = "seeding" \/ seeded' => phase = "seeding" \/ seeded
  PROVE  ReachInv'
<1>1. Picked' = Picked /\ Ppr' = Ppr
  BY DEF Picked, Chosen, Ppr
<1>. QED BY <1>1 DEF ReachInv, Within

\* The seeds are of the rows.
LEMMA PickedIs ==
  ASSUME StreamOK
  PROVE  /\ Picked \in SUBSET Vertices /\ Picked \subseteq buf /\ call \in Calls /\ push \in PushStates
         /\ call.g \in Stored /\ call.hops \in Nat
<1>1. call \in Calls /\ push \in PushStates /\ buf \subseteq call.passes
  BY DEF StreamOK, StreamTypeOK
<1>2. buf \in SUBSET Vertices /\ call.g \in Stored /\ call.hops \in Nat
  BY <1>1, CallParts
<1>3. ToSet(Chosen(buf)) \subseteq buf
  BY <1>1, <1>2, ChosenIs
<1>. QED BY <1>1, <1>2, <1>3 DEF Picked

\* Without its head a list without doubles has all but it.
LEMMA TailSet ==
  ASSUME NEW E, NEW s \in Seq(E), s # <<>>, IsInjective(s)
  PROVE  IsInjective(Tail(s)) /\ ToSet(Tail(s)) = ToSet(s) \ {Head(s)} /\ Head(s) \in ToSet(s)
<1>. DEFINE n == Len(s)
            t == Tail(s)
<1>1. n \in Nat /\ n >= 1 /\ DOMAIN s = 1..n /\ s \in [1..n -> E]
  BY LenProperties
<1>2. t \in Seq(E) /\ Len(t) = n - 1 /\ Head(s) = s[1] /\ \A i \in 1..(n - 1) : t[i] = s[i + 1]
  BY <1>1
<1>. HIDE DEF n, t
<1>3. DOMAIN t = 1..(n - 1)
  BY <1>2, LenProperties
<1>4. \A i \in 1..n, j \in 1..n : s[i] = s[j] => i = j
  BY <1>1 DEF IsInjective
<1>5. IsInjective(t)
  <2>. SUFFICES ASSUME NEW i \in 1..(n - 1), NEW j \in 1..(n - 1), t[i] = t[j] PROVE i = j
    BY <1>3 DEF IsInjective
  <2>1. i + 1 \in 1..n /\ j + 1 \in 1..n /\ s[i + 1] = s[j + 1]
    BY <1>1, <1>2
  <2>2. i + 1 = j + 1
    BY <1>4, <2>1
  <2>. QED BY <1>1, <2>2
<1>6. ToSet(s) = {s[i] : i \in 1..n} /\ ToSet(t) = {t[i] : i \in 1..(n - 1)}
  BY <1>1, <1>3 DEF ToSet
<1>7. ToSet(t) \subseteq ToSet(s) \ {s[1]}
  <2>. SUFFICES ASSUME NEW i \in 1..(n - 1) PROVE t[i] \in ToSet(s) /\ t[i] # s[1]
    BY <1>6
  <2>1. i + 1 \in 1..n /\ 1 \in 1..n /\ i + 1 # 1
    BY <1>1
  <2>. QED BY <1>2, <1>4, <1>6, <2>1
<1>8. ToSet(s) \ {s[1]} \subseteq ToSet(t)
  <2>. SUFFICES ASSUME NEW i \in 1..n, s[i] # s[1] PROVE s[i] \in ToSet(t)
    BY <1>6
  <2>1. i - 1 \in 1..(n - 1) /\ (i - 1) + 1 = i
    BY <1>1
  <2>2. t[i - 1] = s[i]
    BY <1>2, <2>1
  <2>. QED BY <1>6, <2>1, <2>2
<1>9. s[1] \in ToSet(s)
  BY <1>1, <1>6
<1>. QED BY <1>2, <1>5, <1>7, <1>8, <1>9 DEF t

\* A seed's pull reaches what is within its hops, or spends the budget.
LEMMA SeedPullReach == ASSUME StreamOK, ReachInv, SeedPull PROVE ReachInv'
<1>. DEFINE seed == Head(seeds)
            C == Picked
            T == ToSet(seeds)
            W(A) == Within(A)
<1>1. /\ phase = "seeding" /\ seeds # <<>> /\ seeds' = Tail(seeds) /\ UNCHANGED <<call, buf, phase, seeded>>
  BY DEF SeedPull
<1>2. PICK D : SeedPulled(push', push, call.g, call.type, call.hops, seed, D)
  BY SeedPullIs
<1>3. /\ C \in SUBSET Vertices /\ call \in Calls /\ push \in PushStates
  BY PickedIs
<1>4. /\ seeds \in Seq(buf) /\ ~Ppr
      /\ push.queue = <<>> /\ IsInjective(seeds) /\ T \subseteq C
      /\ C \ T \subseteq push.reach /\ push.reach \subseteq W(C)
      /\ (push.censored => push.left = 0)
      /\ (~push.censored => push.reach = W(C \ T))
  BY <1>1 DEF StreamOK, StreamTypeOK, ReachInv
<1>5. /\ IsInjective(seeds') /\ ToSet(seeds') = T \ {seed} /\ seed \in T
  BY <1>1, <1>4, TailSet
<1>6. Picked' = C /\ Ppr' = Ppr /\ \A A : (WithinHops(call.g, call.type, A, call.hops))' = W(A)
  BY <1>1 DEF Picked, Chosen, Ppr, Within
<1>7. seed \in C /\ C \ ToSet(seeds') = (C \ T) \cup {seed} /\ C \cup {seed} = C
      /\ {seed} \in SUBSET Vertices /\ C \ T \in SUBSET Vertices /\ ToSet(seeds') \subseteq C
  BY <1>3, <1>4, <1>5
<1>8. /\ push'.reach = push.reach \cup {seed} \cup D /\ push'.queue = push.queue
      /\ D \subseteq W({seed})
      /\ (~push'.censored => ~push.censored /\ {seed} \cup D = W({seed}))
      /\ (push'.censored => push.censored \/ push'.left = 0)
      /\ (push.left = 0 => push'.left = 0)
  BY <1>2 DEF SeedPulled, Within
<1>. HIDE DEF seed, C, T, W
<1>9. W(C \cup {seed}) = W(C) \cup W({seed}) /\ W((C \ T) \cup {seed}) = W(C \ T) \cup W({seed}) /\ C \subseteq W(C)
  BY <1>3, <1>7, WithinBoth DEF W
<1>10. push'.reach \subseteq W(C)
  BY <1>4, <1>7, <1>8, <1>9
<1>11. C \ ToSet(seeds') \subseteq push'.reach
  BY <1>4, <1>7, <1>8
<1>12. ~push'.censored => push'.reach = W(C \ ToSet(seeds'))
  BY <1>4, <1>7, <1>8, <1>9
<1>13. push'.censored => push'.left = 0
  BY <1>4, <1>8
<1>14. Within(Picked)' = W(C) /\ Within(Picked \ ToSet(seeds))' = W(C \ ToSet(seeds'))
  BY <1>6, Zenon DEF Within
<1>. QED BY <1>4, <1>5, <1>6, <1>7, <1>8, <1>10, <1>11, <1>12, <1>13, <1>14 DEF ReachInv

\* A pop reaches what is a hop further.
LEMMA PushPopReach == ASSUME StreamOK, ReachInv, PushPop PROVE ReachInv'
<1>. DEFINE C == Picked
            g == call.g
            type == call.type
            hops == call.hops
            W(n) == WithinHops(g, type, C, n)
            h == Head(push.queue)
<1>1. /\ phase = "seeding" /\ push.queue # <<>> /\ UNCHANGED <<call, buf, phase, seeded, seeds>>
  BY DEF PushPop
<1>2. PICK D : PoppedLaws(push', push, g, type, hops, D)
  BY PushPopIs
<1>3. /\ C \in SUBSET Vertices /\ push \in PushStates /\ g \in Stored /\ hops \in Nat
  BY PickedIs
<1>4. /\ Ppr /\ seeds = <<>> /\ C \subseteq push.reach /\ push.reach \subseteq W(hops)
      /\ (push.censored => push.left = 0)
      /\ \A x \in ToSet(push.queue) : x.depth <= hops /\ x.vid \in W(x.depth)
  BY <1>1 DEF ReachInv, Within
<1>5. h \in ToSet(push.queue) /\ h \in Queued
  BY <1>1, <1>3, PushParts, TailIs
<1>6. /\ D \in SUBSET Vertices /\ D \subseteq {e.dst : e \in ToSet(OutEdges(g, type, h.vid))}
      /\ (D # {} => h.depth < hops)
      /\ push'.reach = push.reach \cup D
      /\ (push'.censored => push.censored \/ push'.left = 0)
      /\ (push.left = 0 => push'.left = 0)
      /\ \A x \in ToSet(push'.queue) : x \in ToSet(push.queue) \/ (x.vid \in D /\ x.depth = h.depth + 1)
  BY <1>2 DEF PoppedLaws
<1>7. h.depth \in Nat /\ h.vid \in W(h.depth)
  BY <1>4, <1>5 DEF Queued
<1>8. Picked' = C /\ Ppr' = Ppr /\ call' = call
  BY <1>1 DEF Picked, Chosen, Ppr
<1>9. /\ \A n \in Nat, m \in Nat : n <= m => W(n) \subseteq W(m)
      /\ \A n \in Nat : \A v \in W(n) : \A e \in ToSet(OutEdges(g, type, v)) : e.dst \in W(n + 1)
  BY <1>3, WithinGrows
<1>. HIDE DEF C, g, type, hops, W, h
<1>10. D \subseteq W(h.depth + 1)
  BY <1>6, <1>7, <1>9
<1>11. D \subseteq W(hops)
  <2>1. CASE D = {}
    BY <2>1
  <2>2. CASE D # {}
    <3>1. h.depth + 1 \in Nat /\ h.depth + 1 <= hops
      BY <1>3, <1>6, <1>7, <2>2
    <3>. QED BY <1>3, <1>9, <1>10, <3>1
  <2>. QED BY <2>1, <2>2
<1>12. push'.reach \subseteq W(hops) /\ C \subseteq push'.reach
  BY <1>4, <1>6, <1>11
<1>13. push'.censored => push'.left = 0
  BY <1>4, <1>6
<1>14. \A x \in ToSet(push'.queue) : x.depth <= hops /\ x.vid \in W(x.depth)
  <2>. SUFFICES ASSUME NEW x \in ToSet(push'.queue) PROVE x.depth <= hops /\ x.vid \in W(x.depth)
    OBVIOUS
  <2>1. CASE x \in ToSet(push.queue)
    BY <1>4, <2>1
  <2>2. CASE x.vid \in D /\ x.depth = h.depth + 1
    <3>1. h.depth < hops
      BY <1>6, <2>2
    <3>. QED BY <1>3, <1>7, <1>10, <2>2, <3>1
  <2>. QED BY <1>6, <2>1, <2>2
<1>15. (push.reach \subseteq Within(Picked))' /\ (Picked \subseteq push.reach)'
  BY <1>8, <1>12 DEF Within, W, g, type, hops
<1>16. (\A x \in ToSet(push.queue) :
              x.depth <= call.hops /\ x.vid \in WithinHops(call.g, call.type, Picked, x.depth))'
  BY <1>8, <1>14 DEF W, g, type, hops
<1>. QED BY <1>1, <1>4, <1>8, <1>13, <1>15, <1>16 DEF ReachInv

\* No step breaks the reach.
LEMMA ReachStep == StreamOK /\ ReachInv /\ [SeedlessNext]_seedlessVars => ReachInv'
<1>. SUFFICES ASSUME StreamOK, ReachInv, [SeedlessNext]_seedlessVars PROVE ReachInv'
  OBVIOUS
<1>1. /\ call \in Calls /\ buf \subseteq call.passes /\ call.passes \in SUBSET Vertices
  BY CallParts DEF StreamOK, StreamTypeOK
<1>2. ASSUME NEW row \in call.rows, StreamExcluded(row) \/ StreamRanked(row) PROVE ReachInv'
  <2>1. UNCHANGED <<call, push, buf, seeds, seeded>> /\ phase = "stream" /\ phase' # "seeding"
    BY <1>2 DEF StreamExcluded, StreamRanked, Pulls
  <2>. QED BY <2>1, ReachSame
<1>3. ASSUME NEW row \in call.rows, StreamBuffered(row) PROVE ReachInv'
  <2>1. Pulls(row) /\ ~seeded /\ buf' = buf \cup {row} /\ row \in call.passes /\ UNCHANGED <<call, seeded>>
        /\ (StartSeeding(buf') \/ UNCHANGED phase)
    BY <1>3 DEF StreamBuffered
  <2>2. phase = "stream" /\ buf' \in SUBSET Vertices
    BY <1>1, <2>1 DEF Pulls
  <2>3. CASE StartSeeding(buf')
    BY <2>1, <2>2, <2>3, SeedingReach
  <2>4. CASE UNCHANGED phase
    BY <2>1, <2>2, <2>4 DEF ReachInv
  <2>. QED BY <2>1, <2>3, <2>4
<1>4. CASE StreamEnds
  <2>1. phase = "stream" /\ UNCHANGED <<call, buf, seeded>>
        /\ ((~seeded /\ StartSeeding(buf)) \/ (UNCHANGED <<seeds, push>> /\ phase' = "drain"))
    BY <1>4 DEF StreamEnds
  <2>2. buf \in SUBSET Vertices
    BY <1>1
  <2>3. CASE ~seeded /\ StartSeeding(buf)
    BY <2>1, <2>2, <2>3, SeedingReach
  <2>4. CASE UNCHANGED <<seeds, push>> /\ phase' = "drain"
    BY <2>1, <2>4, ReachSame
  <2>. QED BY <2>1, <2>3, <2>4
<1>5. CASE AdmitWindow
  <2>1. phase = "seeding" /\ UNCHANGED <<call, push, buf, seeds>>
    BY <1>5, AdmitIs
  <2>. QED BY <2>1, ReachSame
<1>6. CASE Finalize
  <2>1. UNCHANGED <<call, push, buf, seeds, seeded>> /\ phase' = "done"
    BY <1>6 DEF Finalize
  <2>. QED BY <2>1, ReachSame
<1>7. ASSUME NEW v \in ToFetch, FetchBridge(v) PROVE ReachInv'
  <2>1. UNCHANGED <<call, push, buf, seeds, seeded, phase>>
    BY <1>7 DEF FetchBridge
  <2>. QED BY <2>1, ReachSame
<1>8. CASE UNCHANGED seedlessVars
  <2>1. UNCHANGED <<call, push, buf, seeds, seeded, phase>>
    BY <1>8 DEF seedlessVars
  <2>. QED BY <2>1, ReachSame
<1>. QED BY <1>2, <1>3, <1>4, <1>5, <1>6, <1>7, <1>8, SeedPullReach, PushPopReach DEF SeedlessNext

\* A call starts unseeded.
LEMMA ReachInit == SeedlessInit => ReachInv
BY DEF SeedlessInit, ReachInv

\* What is checked of the reach (CensoredHonest).
LEMMA ReachIs == ASSUME StreamOK, ReachInv PROVE CensoredHonest
<1>. SUFFICES ASSUME seeded PROVE CensoredHonest
  BY DEF CensoredHonest
<1>1. seeds = <<>>
  BY DEF StreamOK, PhaseInv
<1>2. ToSet(seeds) = {}
  BY <1>1, EmptySet, Zenon
<1>3. ChosenSeeds = Picked
  BY DEF ChosenSeeds, Picked, Chosen
<1>4. Picked \ ToSet(seeds) = Picked
  BY <1>2
<1>5. /\ push.reach \subseteq Within(Picked) /\ (push.censored => push.left = 0)
      /\ Picked \subseteq push.reach
      /\ (~push.censored /\ ~Ppr => push.reach = Within(Picked))
  BY <1>4 DEF ReachInv
<1>. QED BY <1>3, <1>5 DEF CensoredHonest, Within

-----------------------------------------------------------------------------
(* The call, and among the forms.                                          *)

\* The invariant of a call without a source: its state and phases, the heaps,
\* what stopped it, its budgets, its answer, the mass and the reach.
SeedlessInv ==
  /\ StreamOK /\ HeapsInv /\ StopInv /\ LimitInv
  /\ AnswerInv /\ MassInv /\ ReachInv

\* A call begins in it.
LEMMA SeedlessInitInv == SeedlessInit => SeedlessInv
<1>1. SeedlessInit => AnswerInv
  BY DEF SeedlessInit, AnswerInv
<1>. QED BY <1>1, StreamInitOK, HeapsInit, EndInit, MassInit, ReachInit DEF SeedlessInv

\* Every step keeps it.
LEMMA SeedlessStepInv == SeedlessInv /\ [SeedlessNext]_seedlessVars => SeedlessInv'
BY StreamStepOK, HeapsStep, StopStep, LimitStep, AnswerStep, MassStep, ReachStep, Zenon DEF SeedlessInv

\* What a call without a source promises follows from it.
LEMMA SeedlessIs ==
  SeedlessInv =>
    /\ BridgesGuaranteed /\ VectorsKeepRoom /\ BridgesCountedOnce
    /\ TermCondJustified /\ WorkBounded
    /\ CensoredHonest /\ MassNeverMade
    /\ SeedlessTypeOK /\ HeapsHoldNearest /\ BestFusedKept
<1>. SUFFICES ASSUME SeedlessInv
              PROVE  /\ BridgesGuaranteed /\ VectorsKeepRoom /\ BridgesCountedOnce
                     /\ TermCondJustified /\ WorkBounded
                     /\ CensoredHonest /\ MassNeverMade
                     /\ SeedlessTypeOK /\ HeapsHoldNearest /\ BestFusedKept
  OBVIOUS
<1>1. /\ StreamOK /\ HeapsInv /\ StopInv /\ LimitInv
      /\ AnswerInv /\ MassInv /\ ReachInv
  BY DEF SeedlessInv
<1>. QED BY <1>1, SharesOf, EndIs, ReachIs, MassIs, TypesOf, NearestOf, BestOf, Zenon

\* While the form is not this one, its invariant is not asked for.
StreamedInv == form \in {"source", "no source", "scan"} /\ (form = "no source" => SeedlessInv)

\* The composition begins in it: only a call without a source asks for it.
LEMMA StreamedInitInv == MCInit => StreamedInv
BY SeedlessInitInv DEF MCInit, StreamedInv

\* A step of one form leaves the others' state alone.
LEMMA StreamedStepInv ==
  StreamedInv /\ [Sourced \/ Streamed \/ Scanned]_<<form, ffVars, seedlessVars, scanVars>> => StreamedInv'
<1>. SUFFICES ASSUME StreamedInv, [Sourced \/ Streamed \/ Scanned]_<<form, ffVars, seedlessVars, scanVars>>
             PROVE  StreamedInv'
  OBVIOUS
<1>1. CASE Streamed
  <2>1. form = "no source" /\ form' = form /\ SeedlessInv /\ SeedlessNext
    BY <1>1 DEF Streamed, StreamedInv
  <2>. QED BY <2>1, SeedlessStepInv DEF StreamedInv
<1>2. CASE Sourced \/ Scanned
  BY <1>2 DEF Sourced, Scanned, StreamedInv
<1>3. CASE UNCHANGED <<form, ffVars, seedlessVars, scanVars>>
  <2>1. form' = form /\ UNCHANGED seedlessVars
    BY <1>3
  <2>2. SeedlessInv => SeedlessInv'
    BY <2>1, SeedlessStepInv
  <2>. QED BY <2>1, <2>2 DEF StreamedInv
<1>. QED BY <1>1, <1>2, <1>3

\* For every store, table, query and budget, membership scoring shares the
\* answer as documented: the bridges have their guaranteed places, the vectors
\* the rest, and no row is answered twice (tjs_pg.c:1876-1986).
THEOREM SharesKept == MCSpec => []SharesAreKept
<1>1. StreamedInv => SharesAreKept
  BY SeedlessIs DEF StreamedInv, SharesAreKept
<1>. QED BY <1>1, StreamedInitInv, StreamedStepInv, PTL DEF MCSpec

\* The drops that may end a call stand for as many rows that could not matter,
\* and stream, push, reach and rows looked at keep within their budgets
\* (tjs_pg.c:1453-1464, 1547-1607).
THEOREM EndsJustified == MCSpec => []EndIsJustified
<1>1. StreamedInv => EndIsJustified
  BY SeedlessIs DEF StreamedInv, EndIsJustified
<1>. QED BY <1>1, StreamedInitInv, StreamedStepInv, PTL DEF MCSpec

\* The graph leg reaches its seeds and nothing beyond their hops, under membership
\* scoring all within them unless it is flagged censored; the flag says that the
\* budget is spent.  The push makes no mass, and leaves none where it has not been
\* (tjs_pg.c:750-810, 883-1047).
THEOREM ReachHonest == MCSpec => []ReachIsHonest
<1>1. StreamedInv => ReachIsHonest
  BY SeedlessIs DEF StreamedInv, ReachIsHonest
<1>. QED BY <1>1, StreamedInitInv, StreamedStepInv, PTL DEF MCSpec

\* The heaps hold the nearest of what was met, whatever the order it came in.
\* The fused answer has room for nobody else of the pool: the reached have their
\* share of it by score, and the rest of it is the best of any origin
\* (tjs_pg.c:407-438, 1786-1848).
THEOREM BestAnswered == MCSpec => []BestIsAnswered
<1>1. StreamedInv => BestIsAnswered
  BY SeedlessIs DEF StreamedInv, BestIsAnswered
<1>. QED BY <1>1, StreamedInitInv, StreamedStepInv, PTL DEF MCSpec

=============================================================================
