----------------------------- MODULE DumpProofs -----------------------------
(***************************************************************************)
(* A dump of the topology and its replay, for every number of sessions and *)
(* of edge types, every page size and every bound: the visible edge count  *)
(* is that of the edges which traversals give, and a replay that goes      *)
(* through answers every typed traversal as the source did when its edges  *)
(* were dumped, and is refused only if a vertex came between the dumps.    *)
(*                                                                         *)
(* What a traversal answers is the recursion of the model over the slots   *)
(* of a page inside one over the pages of a chain.  Both are rewritten     *)
(* over a set of places that are emitted (Emission, Emitting), and what    *)
(* they compute is shown by induction over a set of numbers, or of blocks  *)
(* from the last one down: links lead to later blocks (Rising).  So the    *)
(* answer of a vertex is as long as the live edges that leave it are many, *)
(* and answers and edges can be counted off against each other, as long as *)
(* no live edge leaves a vertex that is gone (NoOrphans): a tombstone of a *)
(* vertex sweeps its edges in the same transaction (WholeInv).             *)
(*                                                                         *)
(* A replay writes only in one transaction, into a new store, in which the *)
(* dense locate therefore finds every vid (Numbered, Counting).  What it   *)
(* has written, the rest of the batch under way and the script that is     *)
(* still to come make up the answers of the source (Progress).             *)
(***************************************************************************)
EXTENDS GraphDump, GraphStoreProofs, FunctionTheorems, WellFoundedInduction

-----------------------------------------------------------------------------
(* Induction over numbers and cardinalities, in first-order form.          *)

\* A set of naturals that is not empty has a least element.
LEMMA LeastNat ==
  ASSUME NEW S, S \subseteq Nat, S # {}
  PROVE  \E m \in S : \A n \in S : m <= n
<1>1. PICK m \in S : \A n \in S : <<n, m>> \notin OpToRel(<, Nat)
  BY WFMin, NatLessThanWellFounded, Zenon
<1>2. \A n \in S : ~(n < m)
  BY <1>1, Zenon DEF OpToRel
<1>3. \A n \in S : n \in Nat
  OBVIOUS
<1>4. m \in S
  BY <1>1
<1>. QED BY <1>2, <1>3, <1>4

\* Induction over a set in place of a predicate.
LEMMA NatSet ==
  ASSUME NEW S, 0 \in S, \A n \in Nat : n \in S => n + 1 \in S
  PROVE  Nat \subseteq S
<1>. SUFFICES ASSUME Nat \ S # {} PROVE FALSE
  OBVIOUS
<1>1. PICK m \in Nat \ S : \A n \in Nat \ S : m <= n
  BY LeastNat
<1>2. m - 1 \in Nat /\ m - 1 \notin Nat \ S
  BY <1>1
<1>. QED BY <1>1, <1>2

-----------------------------------------------------------------------------
(* What a page emits.                                                      *)

LEMMA SlotDst ==
  ASSUME NEW ss \in Seq(EdgeSlot)
  PROVE  Len(ss) \in Nat /\ \A i \in 1..Len(ss) : ss[i].dst \in Vid
<1>1. \A i \in 1..Len(ss) : ss[i] \in EdgeSlot
  BY ElementOfSeq
<1>. QED BY <1>1, LenProperties DEF EdgeSlot

\* f is the recursion of Emitted over the slots ss, those at the places L being
\* emitted.
Emits(f, ss, L) ==
  f = [i \in 0..Len(ss) |->
         IF i = 0 THEN <<>>
         ELSE IF i \in L THEN Append(f[i - 1], ss[i].dst) ELSE f[i - 1]]

Emission(ss, L) == (CHOOSE f : Emits(f, ss, L))[Len(ss)]

\* The same as equations.
EmitSteps(f, ss, L) ==
  /\ f[0] = <<>>
  /\ \A i \in 1..Len(ss) :
       f[i] = IF i \in L THEN Append(f[i - 1], ss[i].dst) ELSE f[i - 1]

LEMMA EmitsSteps ==
  ASSUME NEW ss \in Seq(EdgeSlot), NEW L, NEW f, Emits(f, ss, L)
  PROVE  EmitSteps(f, ss, L)
<1>. DEFINE B(i) == IF i = 0 THEN <<>>
                    ELSE IF i \in L THEN Append(f[i - 1], ss[i].dst) ELSE f[i - 1]
<1>1. f = [i \in 0..Len(ss) |-> B(i)]
  BY DEF Emits
<1>2. \A i \in 0..Len(ss) : f[i] = B(i)
  <2>. HIDE DEF B
  <2>. QED BY <1>1
<1>3. Len(ss) \in Nat
  OBVIOUS
<1>. QED BY <1>2, <1>3 DEF EmitSteps

LEMMA EmitsExists ==
  ASSUME NEW ss \in Seq(EdgeSlot), NEW L
  PROVE  \E f : Emits(f, ss, L)
<1>. DEFINE N == Len(ss)
            Upto(f, n) == /\ f \in [0..n -> Seq(Vid)] /\ f[0] = <<>>
                          /\ \A i \in 1..n :
                               f[i] = IF i \in L THEN Append(f[i - 1], ss[i].dst)
                                      ELSE f[i - 1]
            A == {n \in Nat : n <= N => \E f : Upto(f, n)}
<1>0. N \in Nat /\ \A i \in 1..N : ss[i].dst \in Vid
  BY SlotDst
<1>1. 0 \in A
  <2>1. <<>> \in Seq(Vid)
    OBVIOUS
  <2>2. [i \in 0..0 |-> <<>>] \in [0..0 -> Seq(Vid)]
    BY <2>1, Zenon
  <2>3. Upto([i \in 0..0 |-> <<>>], 0)
    BY <2>2
  <2>. HIDE DEF Upto
  <2>. QED BY <2>3
<1>2. ASSUME NEW n \in Nat, n \in A PROVE n + 1 \in A
  <2>. HIDE DEF Upto
  <2>. SUFFICES ASSUME n + 1 <= N PROVE \E f : Upto(f, n + 1)
    OBVIOUS
  <2>. USE DEF Upto
  <2>1. PICK f : Upto(f, n)
    BY <1>0, <1>2
  <2>. DEFINE e == IF n + 1 \in L THEN Append(f[n], ss[n + 1].dst) ELSE f[n]
              g == [i \in 0..(n + 1) |-> IF i <= n THEN f[i] ELSE e]
  <2>2. e \in Seq(Vid)
    BY <1>0, <2>1
  <2>3. /\ \A i \in 0..n : g[i] = f[i]
        /\ g[n + 1] = e
    OBVIOUS
  <2>4. g \in [0..(n + 1) -> Seq(Vid)]
    BY <2>1, <2>2
  <2>. HIDE DEF g
  <2>5. ASSUME NEW i \in 1..(n + 1)
        PROVE  g[i] = IF i \in L THEN Append(g[i - 1], ss[i].dst) ELSE g[i - 1]
    <3>1. CASE i <= n
      <4>1. i \in 1..n /\ i - 1 \in 0..n /\ i \in 0..n
        BY <3>1
      <4>. QED BY <4>1, <2>1, <2>3
    <3>2. CASE i = n + 1
      <4>1. i - 1 = n /\ n \in 0..n
        BY <3>2
      <4>. QED BY <4>1, <3>2, <2>3
    <3>. QED BY <3>1, <3>2
  <2>6. g[0] = <<>>
    BY <2>1, <2>3
  <2>. QED BY <2>4, <2>5, <2>6
<1>3. PICK f : Upto(f, N)
  <2>1. Nat \subseteq A
    <3>. HIDE DEF A
    <3>. QED BY <1>1, <1>2, NatSet
  <2>. HIDE DEF Upto
  <2>. QED BY <2>1, <1>0
<1>. DEFINE B(i) == IF i = 0 THEN <<>>
                    ELSE IF i \in L THEN Append(f[i - 1], ss[i].dst) ELSE f[i - 1]
<1>4. ASSUME NEW i \in 0..N PROVE f[i] = B(i)
  <2>1. i # 0 => i \in 1..N
    BY <1>0
  <2>2. f[0] = <<>>
    BY <1>3
  <2>. QED BY <2>1, <2>2, <1>3
<1>5. f = [i \in 0..N |-> B(i)]
  <2>1. f = [i \in 0..N |-> f[i]]
    BY <1>3
  <2>. HIDE DEF B, Upto, N
  <2>. QED BY <2>1, <1>4
<1>6. Emits(f, ss, L)
  BY <1>5 DEF Emits
<1>. QED BY <1>6

\* Two such recursions agree as far as the slots and the places do.
LEMMA EmitStepsAgree ==
  ASSUME NEW ss, NEW tt, NEW L, NEW M, NEW f, NEW g,
         EmitSteps(f, ss, L), EmitSteps(g, tt, M),
         NEW n \in Nat, Len(ss) \in Nat, Len(tt) \in Nat, n <= Len(ss), n <= Len(tt),
         \A i \in 1..n : ss[i].dst = tt[i].dst /\ (i \in L <=> i \in M)
  PROVE  f[n] = g[n]
<1>. DEFINE A == {k \in Nat : k <= n => f[k] = g[k]}
<1>1. 0 \in A
  BY DEF EmitSteps
<1>2. ASSUME NEW k \in Nat, k \in A PROVE k + 1 \in A
  <2>. SUFFICES ASSUME k + 1 <= n PROVE f[k + 1] = g[k + 1]
    OBVIOUS
  <2>1. /\ k + 1 \in 1..n /\ k + 1 \in 1..Len(ss) /\ k + 1 \in 1..Len(tt)
        /\ f[k] = g[k] /\ (k + 1) - 1 = k
    BY <1>2
  <2>. QED BY <2>1 DEF EmitSteps
<1>3. Nat \subseteq A
  <2>. HIDE DEF A
  <2>. QED BY <1>1, <1>2, NatSet
<1>. QED BY <1>3

\* The emission is any such recursion's last value.
LEMMA EmissionIs ==
  ASSUME NEW ss \in Seq(EdgeSlot), NEW L
  PROVE  \E f : EmitSteps(f, ss, L) /\ Emission(ss, L) = f[Len(ss)]
<1>. DEFINE f == CHOOSE g : Emits(g, ss, L)
<1>1. Emits(f, ss, L)
  BY EmitsExists
<1>2. Emission(ss, L) = f[Len(ss)]
  BY DEF Emission
<1>. HIDE DEF f
<1>. QED BY <1>1, <1>2, EmitsSteps

LEMMA EmissionOf ==
  ASSUME NEW ss \in Seq(EdgeSlot), NEW L, NEW f, EmitSteps(f, ss, L)
  PROVE  Emission(ss, L) = f[Len(ss)]
<1>1. PICK g : EmitSteps(g, ss, L) /\ Emission(ss, L) = g[Len(ss)]
  BY EmissionIs
<1>2. Len(ss) \in Nat
  OBVIOUS
<1>. QED BY <1>1, <1>2, EmitStepsAgree

LEMMA EmissionSame ==
  ASSUME NEW ss \in Seq(EdgeSlot), NEW tt \in Seq(EdgeSlot), NEW L, NEW M,
         DOMAIN tt = DOMAIN ss,
         \A i \in DOMAIN ss : ss[i].dst = tt[i].dst /\ (i \in L <=> i \in M)
  PROVE  Emission(tt, M) = Emission(ss, L)
<1>1. PICK f : EmitSteps(f, ss, L) /\ Emission(ss, L) = f[Len(ss)]
  BY EmissionIs
<1>2. PICK g : EmitSteps(g, tt, M) /\ Emission(tt, M) = g[Len(tt)]
  BY EmissionIs
<1>3. Len(ss) \in Nat /\ Len(tt) = Len(ss) /\ DOMAIN ss = 1..Len(ss)
  OBVIOUS
<1>. QED BY <1>1, <1>2, <1>3, EmitStepsAgree

LEMMA EmissionType ==
  ASSUME NEW ss \in Seq(EdgeSlot), NEW L
  PROVE  Emission(ss, L) \in Seq(Vid)
<1>1. PICK f : EmitSteps(f, ss, L) /\ Emission(ss, L) = f[Len(ss)]
  BY EmissionIs
<1>2. Len(ss) \in Nat /\ \A i \in 1..Len(ss) : ss[i].dst \in Vid
  BY SlotDst
<1>. DEFINE A == {k \in Nat : k <= Len(ss) => f[k] \in Seq(Vid)}
<1>3. 0 \in A
  <2>1. f[0] = <<>> /\ <<>> \in Seq(Vid)
    BY <1>1 DEF EmitSteps
  <2>. QED BY <2>1
<1>4. ASSUME NEW k \in Nat, k \in A PROVE k + 1 \in A
  <2>. SUFFICES ASSUME k + 1 <= Len(ss) PROVE f[k + 1] \in Seq(Vid)
    OBVIOUS
  <2>1. k + 1 \in 1..Len(ss) /\ f[k] \in Seq(Vid) /\ (k + 1) - 1 = k
    BY <1>2, <1>4
  <2>2. f[k + 1] = IF k + 1 \in L THEN Append(f[k], ss[k + 1].dst) ELSE f[k]
    BY <1>1, <2>1 DEF EmitSteps
  <2>. QED BY <2>1, <2>2, <1>2
<1>5. Nat \subseteq A
  <2>. HIDE DEF A
  <2>. QED BY <1>3, <1>4, NatSet
<1>. QED BY <1>1, <1>2, <1>5

\* Slots behind others emit behind them.
LEMMA EmissionConcat ==
  ASSUME NEW ss \in Seq(EdgeSlot), NEW tt \in Seq(EdgeSlot), NEW L, NEW M,
         \A i \in 1..Len(tt) : Len(ss) + i \in L <=> i \in M
  PROVE  Emission(ss \o tt, L) = Emission(ss, L) \o Emission(tt, M)
<1>. DEFINE m == Len(ss)
            n == Len(tt)
            cat == ss \o tt
<1>1. /\ m \in Nat /\ n \in Nat /\ cat \in Seq(EdgeSlot) /\ Len(cat) = m + n
      /\ \A i \in 1..m : cat[i] = ss[i]
      /\ \A i \in 1..n : cat[m + i] = tt[i]
  <2>1. m \in Nat /\ n \in Nat
    OBVIOUS
  <2>2. /\ cat \in Seq(EdgeSlot) /\ Len(cat) = m + n
        /\ \A i \in 1..(m + n) : cat[i] = IF i <= m THEN ss[i] ELSE tt[i - m]
    BY ConcatProperties
  <2>. HIDE DEF m, n, cat
  <2>3. ASSUME NEW i \in 1..n PROVE cat[m + i] = tt[i]
    <3>1. m + i \in 1..(m + n) /\ ~(m + i <= m) /\ (m + i) - m = i
      BY <2>1
    <3>. QED BY <2>2, <3>1
  <2>4. \A i \in 1..m : cat[i] = ss[i]
    BY <2>1, <2>2
  <2>. QED BY <2>1, <2>2, <2>3, <2>4
<1>2. PICK f : EmitSteps(f, cat, L) /\ Emission(cat, L) = f[Len(cat)]
  BY <1>1, EmissionIs
<1>3. PICK g : EmitSteps(g, ss, L) /\ Emission(ss, L) = g[m]
  BY EmissionIs
<1>4. PICK h : EmitSteps(h, tt, M) /\ Emission(tt, M) = h[n]
  BY EmissionIs
<1>. HIDE DEF m, n, cat
<1>5. f[m] = g[m]
  <2>1. /\ m \in Nat /\ m <= Len(cat) /\ m <= Len(ss)
        /\ Len(ss) \in Nat /\ Len(cat) \in Nat
    BY <1>1 DEF m
  <2>2. \A i \in 1..m : cat[i].dst = ss[i].dst /\ (i \in L <=> i \in L)
    BY <1>1
  <2>. QED BY <2>1, <2>2, <1>2, <1>3, EmitStepsAgree
<1>6. g[m] \in Seq(Vid)
  BY <1>3, EmissionType
<1>. DEFINE G(k) == h[k] \in Seq(Vid) /\ f[m + k] = g[m] \o h[k]
            A == {k \in Nat : k <= n => G(k)}
<1>7. 0 \in A
  <2>1. h[0] = <<>> /\ <<>> \in Seq(Vid) /\ m + 0 = m
    BY <1>1, <1>4 DEF EmitSteps
  <2>2. g[m] \o <<>> = g[m]
    BY <1>6, ConcatEmptySeq
  <2>3. h[0] \in Seq(Vid) /\ f[m + 0] = g[m] \o h[0]
    BY <2>1, <2>2, <1>5
  <2>4. G(0)
    BY <2>3
  <2>. HIDE DEF G
  <2>. QED BY <2>4
<1>8. ASSUME NEW k \in Nat, k \in A PROVE k + 1 \in A
  <2>. HIDE DEF G
  <2>. SUFFICES ASSUME k + 1 <= n PROVE G(k + 1)
    OBVIOUS
  <2>0. G(k)
    <3>1. k <= n
      BY <1>1
    <3>. QED BY <3>1, <1>8
  <2>. USE DEF G
  <2>1. /\ k + 1 \in 1..n /\ m + (k + 1) \in 1..Len(cat)
        /\ (m + (k + 1)) - 1 = m + k /\ (k + 1) - 1 = k
        /\ h[k] \in Seq(Vid) /\ f[m + k] = g[m] \o h[k]
    <3>1. /\ k + 1 \in 1..n /\ m + (k + 1) \in 1..(m + n)
          /\ (m + (k + 1)) - 1 = m + k /\ (k + 1) - 1 = k
      BY <1>1
    <3>2. h[k] \in Seq(Vid) /\ f[m + k] = g[m] \o h[k]
      BY <2>0
    <3>3. Len(cat) = m + n
      BY <1>1
    <3>. QED BY <3>1, <3>2, <3>3
  <2>. DEFINE d == tt[k + 1].dst
  <2>2. cat[m + (k + 1)].dst = d /\ d \in Vid
    BY <1>1, <2>1, SlotDst DEF n
  <2>3. h[k + 1] = IF k + 1 \in M THEN Append(h[k], d) ELSE h[k]
    BY <1>4, <2>1 DEF EmitSteps, n
  <2>4. f[m + (k + 1)] = IF m + (k + 1) \in L THEN Append(f[m + k], d) ELSE f[m + k]
    BY <1>2, <2>1, <2>2 DEF EmitSteps
  <2>5. m + (k + 1) \in L <=> k + 1 \in M
    BY <2>1 DEF m, n
  <2>. HIDE DEF d
  <2>6. Append(h[k], d) \in Seq(Vid) /\ g[m] \o Append(h[k], d) = Append(g[m] \o h[k], d)
    <3>. DEFINE a == g[m]
                b == h[k]
    <3>1. a \in Seq(Vid) /\ b \in Seq(Vid) /\ d \in Vid
      BY <1>6, <2>1, <2>2
    <3>. HIDE DEF a, b
    <3>2. a \o Append(b, d) = Append(a \o b, d) /\ Append(b, d) \in Seq(Vid)
      BY <3>1
    <3>. QED BY <3>2 DEF a, b
  <2>. QED BY <2>1, <2>3, <2>4, <2>5, <2>6
<1>9. Nat \subseteq A
  <2>. HIDE DEF A
  <2>. QED BY <1>7, <1>8, NatSet
<1>10. f[m + n] = g[m] \o h[n]
  <2>1. G(n)
    <3>. HIDE DEF G
    <3>. QED BY <1>1, <1>9
  <2>. QED BY <2>1
<1>. QED BY <1>10, <1>1, <1>2, <1>3, <1>4 DEF m, n, cat

\* Each emitted slot is one destination.
LEMMA EmissionLength ==
  ASSUME NEW ss \in Seq(EdgeSlot), NEW L
  PROVE  /\ IsFiniteSet({i \in DOMAIN ss : i \in L})
         /\ Len(Emission(ss, L)) = Cardinality({i \in DOMAIN ss : i \in L})
<1>1. PICK f : EmitSteps(f, ss, L) /\ Emission(ss, L) = f[Len(ss)]
  BY EmissionIs
<1>2. Len(ss) \in Nat /\ DOMAIN ss = 1..Len(ss) /\ \A i \in 1..Len(ss) : ss[i].dst \in Vid
  BY SlotDst
<1>. DEFINE P(k) == {i \in 1..k : i \in L}
            G(k) == f[k] \in Seq(Vid) /\ IsFiniteSet(P(k)) /\ Len(f[k]) = Cardinality(P(k))
            A == {k \in Nat : k <= Len(ss) => G(k)}
<1>3. 0 \in A
  <2>1. f[0] = <<>> /\ <<>> \in Seq(Vid) /\ Len(<<>>) = 0
    BY <1>1 DEF EmitSteps
  <2>2. P(0) = {}
    OBVIOUS
  <2>3. IsFiniteSet({}) /\ Cardinality({}) = 0
    BY FS_EmptySet
  <2>. QED BY <2>1, <2>2, <2>3
<1>4. ASSUME NEW k \in Nat, k \in A PROVE k + 1 \in A
  <2>. HIDE DEF G
  <2>. SUFFICES ASSUME k + 1 <= Len(ss) PROVE G(k + 1)
    OBVIOUS
  <2>0. G(k)
    BY <1>2, <1>4
  <2>. USE DEF G
  <2>1. /\ k + 1 \in 1..Len(ss) /\ (k + 1) - 1 = k
        /\ f[k] \in Seq(Vid) /\ IsFiniteSet(P(k)) /\ Len(f[k]) = Cardinality(P(k))
    BY <1>2, <2>0
  <2>2. f[k + 1] = IF k + 1 \in L THEN Append(f[k], ss[k + 1].dst) ELSE f[k]
    BY <1>1, <2>1 DEF EmitSteps
  <2>3. CASE k + 1 \in L
    <3>1. P(k + 1) = P(k) \cup {k + 1} /\ k + 1 \notin P(k)
      BY <2>3
    <3>. HIDE DEF P
    <3>2. IsFiniteSet(P(k + 1)) /\ Cardinality(P(k + 1)) = Cardinality(P(k)) + 1
      BY <3>1, <2>1, FS_AddElement
    <3>3. ss[k + 1].dst \in Vid
      BY <1>2, <2>1
    <3>4. f[k + 1] \in Seq(Vid) /\ Len(f[k + 1]) = Len(f[k]) + 1
      BY <3>3, <2>1, <2>2, <2>3, AppendProperties
    <3>. QED BY <3>2, <3>4, <2>1
  <2>4. CASE k + 1 \notin L
    <3>1. P(k + 1) = P(k)
      BY <2>4
    <3>. HIDE DEF P
    <3>. QED BY <3>1, <2>1, <2>2, <2>4
  <2>. QED BY <2>3, <2>4
<1>5. Nat \subseteq A
  <2>. HIDE DEF A
  <2>. QED BY <1>3, <1>4, NatSet
<1>6. IsFiniteSet(P(Len(ss))) /\ Len(f[Len(ss)]) = Cardinality(P(Len(ss)))
  <2>1. G(Len(ss))
    <3>. HIDE DEF G
    <3>. QED BY <1>2, <1>5
  <2>. QED BY <2>1
<1>. QED BY <1>1, <1>2, <1>6

\* All slots emitted are all destinations, none emitted are none.
LEMMA EmissionAll ==
  ASSUME NEW ss \in Seq(EdgeSlot), NEW L, NEW d \in Seq(Vid), Len(d) = Len(ss),
         \A i \in 1..Len(ss) : i \in L /\ ss[i].dst = d[i]
  PROVE  Emission(ss, L) = d
<1>1. PICK f : EmitSteps(f, ss, L) /\ Emission(ss, L) = f[Len(ss)]
  BY EmissionIs
<1>2. Len(ss) \in Nat
  OBVIOUS
<1>. DEFINE G(k) == f[k] = SubSeq(d, 1, k)
            A == {k \in Nat : k <= Len(ss) => G(k)}
<1>3. 0 \in A
  <2>1. f[0] = <<>> /\ SubSeq(d, 1, 0) = <<>>
    BY <1>1, SubSeqEmpty DEF EmitSteps
  <2>2. G(0)
    BY <2>1
  <2>. HIDE DEF G
  <2>. QED BY <2>2
<1>4. ASSUME NEW k \in Nat, k \in A PROVE k + 1 \in A
  <2>. HIDE DEF G
  <2>. SUFFICES ASSUME k + 1 <= Len(ss) PROVE G(k + 1)
    OBVIOUS
  <2>0. G(k)
    BY <1>2, <1>4
  <2>. USE DEF G
  <2>1. k + 1 \in 1..Len(ss) /\ (k + 1) - 1 = k
    BY <1>2
  <2>2. f[k + 1] = Append(f[k], d[k + 1])
    BY <1>1, <2>1 DEF EmitSteps
  <2>3. SubSeq(d, 1, k + 1) = Append(SubSeq(d, 1, k), d[k + 1])
    BY <2>1
  <2>. QED BY <2>0, <2>2, <2>3
<1>5. Nat \subseteq A
  <2>. HIDE DEF A
  <2>. QED BY <1>3, <1>4, NatSet
<1>6. G(Len(ss))
  <2>. HIDE DEF G
  <2>. QED BY <1>2, <1>5
<1>7. SubSeq(d, 1, Len(d)) = d
  BY SubSeqFull
<1>. QED BY <1>1, <1>6, <1>7

LEMMA EmissionNone ==
  ASSUME NEW ss \in Seq(EdgeSlot), NEW L, \A i \in 1..Len(ss) : i \notin L
  PROVE  Emission(ss, L) = <<>>
<1>1. PICK f : EmitSteps(f, ss, L) /\ Emission(ss, L) = f[Len(ss)]
  BY EmissionIs
<1>2. Len(ss) \in Nat
  OBVIOUS
<1>. DEFINE A == {k \in Nat : k <= Len(ss) => f[k] = <<>>}
<1>3. 0 \in A
  BY <1>1 DEF EmitSteps
<1>4. ASSUME NEW k \in Nat, k \in A PROVE k + 1 \in A
  <2>. SUFFICES ASSUME k + 1 <= Len(ss) PROVE f[k + 1] = <<>>
    OBVIOUS
  <2>1. k + 1 \in 1..Len(ss) /\ (k + 1) - 1 = k /\ f[k] = <<>>
    BY <1>2, <1>4
  <2>. QED BY <1>1, <2>1 DEF EmitSteps
<1>5. Nat \subseteq A
  <2>. HIDE DEF A
  <2>. QED BY <1>3, <1>4, NatSet
<1>. QED BY <1>1, <1>2, <1>5

-----------------------------------------------------------------------------
(* What a walk over pages emits.                                           *)

\* The places on page b among L.
On(pg, L, b) == {i \in DOMAIN pg[b].slots : <<b, i>> \in L}

\* f is the recursion of EmittedFrom over the pages pg.
Walks(f, pg, L) ==
  f = [c \in Link |->
         IF c = NoBlock THEN <<>>
         ELSE Emission(pg[c].slots, On(pg, L, c)) \o f[pg[c].next]]

Emitting(pg, L, b) == (CHOOSE f : Walks(f, pg, L))[b]

\* Links lead to later blocks only: a page is linked when it is new.
Rising(pg) == \A b \in Block : pg[b].next = NoBlock \/ pg[b].next > b

\* The walk from b is short of ends, or is n blocks from the end of the file.
LEMMA PageFields ==
  ASSUME NEW pg \in Pages, NEW b \in Block
  PROVE  /\ pg[b].slots \in Seq(EdgeSlot) /\ pg[b].next \in Link
         /\ b \in Nat /\ b # NoBlock /\ b <= MaxBlock /\ b >= 1
         /\ b \in Link
         /\ \A L : Emission(pg[b].slots, L) \in Seq(Vid)
<1>1. pg[b].slots \in Seq(EdgeSlot) /\ pg[b].next \in Link
  BY DEF Pages, Page
<1>2. MaxBlock \in Nat
  BY Constants
<1>. QED BY <1>1, <1>2, EmissionType DEF Block, NoBlock, Link

\* The blocks within k of the last.
LastBy(k) == {b \in Block : b > MaxBlock - k}

LEMMA LastBlocks ==
  ASSUME NEW k \in Nat
  PROVE  /\ LastBy(0) = {} /\ \A b \in Block : b \in LastBy(MaxBlock)
         /\ \A b \in LastBy(k + 1) : b \in Block /\ (b \in LastBy(k) \/ b = MaxBlock - k)
         /\ LastBy(k) \subseteq LastBy(k + 1)
         /\ \A b \in LastBy(k + 1), c \in Block : c > b => c \in LastBy(k)
BY Constants DEF LastBy, Block

LEMMA WalksExists ==
  ASSUME NEW pg \in Pages, Rising(pg), NEW L
  PROVE  \E f : Walks(f, pg, L) /\ f \in [Link -> Seq(Vid)]
<1>. DEFINE E(c) == Emission(pg[c].slots, On(pg, L, c))
            G(f, k) == /\ f \in [Link -> Seq(Vid)] /\ f[NoBlock] = <<>>
                       /\ \A c \in LastBy(k) : f[c] = E(c) \o f[pg[c].next]
            A == {k \in Nat : \E f : G(f, k)}
<1>0. NoBlock \in Link /\ NoBlock \notin Block /\ Link = Block \cup {NoBlock}
      /\ \A c \in Block : E(c) \in Seq(Vid) /\ pg[c].next \in Link
  BY PageFields, BlockType DEF Link
<1>. HIDE DEF E
<1>1. 0 \in A
  <2>. DEFINE f == [c \in Link |-> <<>>]
  <2>1. <<>> \in Seq(Vid)
    OBVIOUS
  <2>2. f \in [Link -> Seq(Vid)]
    BY <2>1
  <2>3. f[NoBlock] = <<>>
    BY <1>0
  <2>. HIDE DEF f
  <2>4. G(f, 0)
    BY <2>2, <2>3, LastBlocks
  <2>. HIDE DEF G
  <2>. QED BY <2>4
<1>2. ASSUME NEW k \in Nat, k \in A PROVE k + 1 \in A
  <2>. HIDE DEF G
  <2>. SUFFICES \E f : G(f, k + 1)
    OBVIOUS
  <2>0. PICK f : G(f, k)
    BY <1>2
  <2>. USE DEF G
  <2>. DEFINE g == [c \in Link |->
                      IF c \in LastBy(k + 1) \ LastBy(k) THEN E(c) \o f[pg[c].next] ELSE f[c]]
  <2>1. \A c \in Block : E(c) \o f[pg[c].next] \in Seq(Vid)
    <3>. SUFFICES ASSUME NEW c \in Block PROVE E(c) \o f[pg[c].next] \in Seq(Vid)
      OBVIOUS
    <3>1. E(c) \in Seq(Vid) /\ f[pg[c].next] \in Seq(Vid)
      BY <1>0, <2>0
    <3>. QED BY <3>1, ConcatProperties
  <2>2. LastBy(k + 1) \subseteq Block
    BY DEF LastBy
  <2>3. g \in [Link -> Seq(Vid)]
    BY <2>0, <2>1, <2>2
  <2>4. \A c \in Link : c \notin LastBy(k + 1) \/ c \in LastBy(k) => g[c] = f[c]
    OBVIOUS
  <2>5. \A c \in LastBy(k + 1) : c \notin LastBy(k) => g[c] = E(c) \o f[pg[c].next]
    BY <1>0, <2>2
  <2>. HIDE DEF g
  <2>6. ASSUME NEW c \in LastBy(k + 1) PROVE g[c] = E(c) \o g[pg[c].next]
    <3>1. c \in Block /\ pg[c].next \in Link
      BY <1>0, <2>2
    <3>2. pg[c].next = NoBlock \/ pg[c].next \in LastBy(k)
      <4>1. pg[c].next # NoBlock => pg[c].next \in Block /\ pg[c].next > c
        BY <1>0, <3>1 DEF Rising
      <4>. QED BY <4>1, LastBlocks
    <3>3. g[pg[c].next] = f[pg[c].next]
      <4>1. NoBlock \notin LastBy(k + 1)
        BY <1>0, <2>2
      <4>. QED BY <3>1, <3>2, <4>1, <2>4
    <3>4. g[c] = E(c) \o f[pg[c].next]
      <4>1. CASE c \in LastBy(k)
        BY <4>1, <2>0, <2>4, <3>1, <1>0
      <4>. QED BY <4>1, <2>5
    <3>. QED BY <3>3, <3>4
  <2>7. g[NoBlock] = <<>>
    BY <2>0, <2>2, <2>4, <1>0
  <2>8. G(g, k + 1)
    BY <2>3, <2>6, <2>7
  <2>. HIDE DEF G
  <2>. QED BY <2>8
<1>3. PICK f : G(f, MaxBlock)
  <2>1. Nat \subseteq A
    <3>. HIDE DEF A
    <3>. QED BY <1>1, <1>2, NatSet
  <2>. HIDE DEF G
  <2>. QED BY <2>1, Constants
<1>4. \A c \in Block : f[c] = E(c) \o f[pg[c].next]
  BY <1>3, LastBlocks, Constants
<1>. DEFINE B(c) == IF c = NoBlock THEN <<>> ELSE E(c) \o f[pg[c].next]
<1>5. \A c \in Link : f[c] = B(c)
  BY <1>0, <1>3, <1>4
<1>6. f = [c \in Link |-> f[c]] /\ f \in [Link -> Seq(Vid)]
  BY <1>3
<1>7. f = [c \in Link |-> B(c)]
  <2>. HIDE DEF B, G
  <2>. QED BY <1>5, <1>6
<1>8. Walks(f, pg, L)
  BY <1>7 DEF Walks, E
<1>. QED BY <1>6, <1>8

\* Induction from the last block down.
LEMMA BlockSet ==
  ASSUME NEW S, \A b \in Block : (\A c \in Block : c > b => c \in S) => b \in S
  PROVE  Block \subseteq S
<1>. SUFFICES ASSUME NEW b0 \in Block, b0 \notin S PROVE FALSE
  OBVIOUS
<1>. DEFINE T == {n \in Nat : \E b \in Block : b \notin S /\ n = MaxBlock - b}
<1>1. MaxBlock \in Nat /\ \A b \in Block : b \in Nat /\ MaxBlock - b \in Nat
  BY Constants DEF Block
<1>2. T \subseteq Nat /\ T # {}
  BY <1>1
<1>3. PICK m \in T : \A n \in T : m <= n
  <2>. HIDE DEF T
  <2>. QED BY <1>2, LeastNat
<1>4. PICK b \in Block : b \notin S /\ m = MaxBlock - b
  BY <1>3
<1>5. \A c \in Block : c > b => c \in S
  <2>. SUFFICES ASSUME NEW c \in Block, c > b, c \notin S PROVE FALSE
    OBVIOUS
  <2>1. MaxBlock - c \in T /\ MaxBlock - c < m
    BY <1>1, <1>4
  <2>. HIDE DEF T
  <2>. QED BY <2>1, <1>1, <1>3, <1>4
<1>. QED BY <1>4, <1>5

\* A walk emits its page and then what the rest of the walk does.
LEMMA EmittingSteps ==
  ASSUME NEW pg \in Pages, Rising(pg), NEW L
  PROVE  /\ Emitting(pg, L, NoBlock) = <<>>
         /\ \A b \in Block :
              /\ Emitting(pg, L, b) = Emission(pg[b].slots, On(pg, L, b))
                                        \o Emitting(pg, L, pg[b].next)
              /\ Emitting(pg, L, b) \in Seq(Vid)
<1>. DEFINE f == CHOOSE g : Walks(g, pg, L)
            E(c) == Emission(pg[c].slots, On(pg, L, c))
            B(c) == IF c = NoBlock THEN <<>> ELSE E(c) \o f[pg[c].next]
<1>1. Walks(f, pg, L)
  BY WalksExists
<1>2. \A b : Emitting(pg, L, b) = f[b]
  BY DEF Emitting
<1>. HIDE DEF f
<1>3. f = [c \in Link |-> B(c)]
  BY <1>1 DEF Walks
<1>4. \A c \in Link : f[c] = B(c)
  <2>. HIDE DEF B
  <2>. QED BY <1>3
<1>5. NoBlock \in Link /\ f[NoBlock] = <<>>
  BY <1>4 DEF Link
<1>. HIDE DEF E
<1>6. \A b \in Block : f[b] = E(b) \o f[pg[b].next]
  BY <1>4, BlockType DEF Link
<1>. DEFINE S == {b \in Block : f[b] \in Seq(Vid)}
<1>7. ASSUME NEW b \in Block, \A c \in Block : c > b => c \in S PROVE b \in S
  <2>1. E(b) \in Seq(Vid) /\ pg[b].next \in Link
    BY PageFields DEF E
  <2>2. f[pg[b].next] \in Seq(Vid)
    <3>1. CASE pg[b].next = NoBlock
      <4>1. <<>> \in Seq(Vid)
        OBVIOUS
      <4>. QED BY <3>1, <4>1, <1>5
    <3>2. CASE pg[b].next # NoBlock
      <4>1. pg[b].next \in Block /\ pg[b].next > b
        BY <2>1, <3>2 DEF Link, Rising
      <4>. QED BY <4>1, <1>7
    <3>. QED BY <3>1, <3>2
  <2>3. E(b) \o f[pg[b].next] \in Seq(Vid)
    BY <2>1, <2>2, ConcatProperties
  <2>. QED BY <2>3, <1>6
<1>8. Block \subseteq S
  <2>. HIDE DEF S
  <2>. QED BY <1>7, BlockSet
<1>. QED BY <1>2, <1>5, <1>6, <1>8 DEF E

LEMMA EmittingType ==
  ASSUME NEW pg \in Pages, Rising(pg), NEW L, NEW b \in Link
  PROVE  Emitting(pg, L, b) \in Seq(Vid)
<1>1. <<>> \in Seq(Vid)
  OBVIOUS
<1>. QED BY <1>1, EmittingSteps DEF Link

\* The pages S are the same but for the ends of their chains, behind which a
\* walk of qg emits more.
Continues(pg, L, qg, M, S, more) ==
  \A b \in S :
    /\ pg[b].next # NoBlock =>
         /\ qg[b].next = pg[b].next
         /\ Emission(qg[b].slots, On(qg, M, b)) = Emission(pg[b].slots, On(pg, L, b))
    /\ pg[b].next = NoBlock =>
         Emitting(qg, M, b) = Emission(pg[b].slots, On(pg, L, b)) \o more

LEMMA EmittingExtended ==
  ASSUME NEW pg \in Pages, NEW qg \in Pages, NEW L, NEW M, NEW S, NEW more, NEW b0,
         Rising(pg), Rising(qg), S \subseteq Block, Closed(Nexts(pg), S),
         more \in Seq(Vid), Continues(pg, L, qg, M, S, more), b0 \in S
  PROVE  Emitting(qg, M, b0) = Emitting(pg, L, b0) \o more
<1>. USE DEF Continues
<1>. DEFINE T == {b \in Block : b \in S => Emitting(qg, M, b) = Emitting(pg, L, b) \o more}
<1>1. ASSUME NEW b \in Block, \A c \in Block : c > b => c \in T PROVE b \in T
  <2>. SUFFICES ASSUME b \in S PROVE Emitting(qg, M, b) = Emitting(pg, L, b) \o more
    OBVIOUS
  <2>. DEFINE e == Emission(pg[b].slots, On(pg, L, b))
              r == Emitting(pg, L, pg[b].next)
  <2>1. e \in Seq(Vid) /\ r \in Seq(Vid) /\ pg[b].next \in Link
    BY PageFields, EmittingType
  <2>2. Emitting(pg, L, b) = e \o r
    BY EmittingSteps
  <2>3. CASE pg[b].next = NoBlock
    <3>1. r = <<>>
      BY <2>3, EmittingSteps
    <3>2. e \o r = e
      BY <3>1, <2>1, ConcatEmptySeq
    <3>. QED BY <3>2, <2>2, <2>3
  <2>4. CASE pg[b].next # NoBlock
    <3>1. pg[b].next \in Block /\ pg[b].next > b /\ pg[b].next \in S
      BY <2>1, <2>4, NextsType DEF Link, Rising, Closed
    <3>2. Emitting(qg, M, pg[b].next) = r \o more
      BY <3>1, <1>1
    <3>3. Emitting(qg, M, b) = e \o Emitting(qg, M, pg[b].next)
      <4>1. Emitting(qg, M, b)
              = Emission(qg[b].slots, On(qg, M, b)) \o Emitting(qg, M, qg[b].next)
        BY EmittingSteps
      <4>. QED BY <4>1, <2>4
    <3>. HIDE DEF e, r
    <3>4. e \o (r \o more) = (e \o r) \o more
      BY <2>1, ConcatAssociative
    <3>. QED BY <3>2, <3>3, <3>4, <2>2
  <2>. QED BY <2>3, <2>4
<1>2. Block \subseteq T
  <2>. HIDE DEF T
  <2>. QED BY <1>1, BlockSet
<1>. QED BY <1>2

\* The pages S are linked alike and emit alike.
Agrees(pg, L, qg, M, S) ==
  \A b \in S :
    /\ qg[b].next = pg[b].next
    /\ Emission(qg[b].slots, On(qg, M, b)) = Emission(pg[b].slots, On(pg, L, b))

LEMMA EmittingSame ==
  ASSUME NEW pg \in Pages, Rising(pg), NEW L, NEW qg \in Pages, Rising(qg), NEW M,
         NEW S \in SUBSET Block, Closed(Nexts(pg), S), Agrees(pg, L, qg, M, S),
         NEW b \in S
  PROVE  Emitting(qg, M, b) = Emitting(pg, L, b)
<1>. DEFINE none == <<>>
<1>1. none \in Seq(Vid)
  OBVIOUS
<1>2. Continues(pg, L, qg, M, S, none)
  <2>. SUFFICES ASSUME NEW c \in S, pg[c].next = NoBlock
                PROVE  Emitting(qg, M, c) = Emission(pg[c].slots, On(pg, L, c)) \o none
    BY DEF Continues, Agrees
  <2>1. Emitting(qg, M, c)
          = Emission(qg[c].slots, On(qg, M, c)) \o Emitting(qg, M, qg[c].next)
    BY EmittingSteps
  <2>. QED BY <2>1, EmittingSteps DEF Agrees
<1>. HIDE DEF none
<1>3. Emitting(qg, M, b) = Emitting(pg, L, b) \o none
  BY <1>1, <1>2, EmittingExtended
<1>4. Emitting(pg, L, b) \in Seq(Vid)
  BY EmittingSteps
<1>. QED BY <1>3, <1>4, ConcatEmptySeq DEF none

-----------------------------------------------------------------------------
(* How much a walk emits.                                                  *)

\* f pairs S and T off.
LEMMA Paired ==
  ASSUME NEW S, NEW T, NEW f \in [S -> T], IsFiniteSet(S),
         \A x, y \in S : f[x] = f[y] => x = y,
         \A z \in T : \E x \in S : f[x] = z
  PROVE  IsFiniteSet(T) /\ Cardinality(T) = Cardinality(S)
<1>1. f \in Bijection(S, T)
  BY DEF Bijection, Injection, Surjection, IsInjective
<1>. QED BY <1>1, FS_Bijection DEF ExistsBijection

\* What a walk from b passes of the places L.
Passed(pg, L, b) == {q \in L : q[1] \in Walk(Nexts(pg), b)}

LEMMA WalkRises ==
  ASSUME NEW pg \in Pages, Rising(pg), NEW b \in Block
  PROVE  \A c \in Walk(Nexts(pg), b) : c >= b
<1>. DEFINE S == {d \in Block : \A c \in Walk(Nexts(pg), d) : c >= d}
<1>1. ASSUME NEW d \in Block, \A c \in Block : c > d => c \in S PROVE d \in S
  <2>1. Walk(Nexts(pg), d) = {d} \cup Walk(Nexts(pg), pg[d].next)
    BY WalkUnfolds, NextsType
  <2>2. pg[d].next \in Link /\ Block \subseteq Nat
    BY PageFields, BlockType
  <2>3. CASE pg[d].next = NoBlock
    BY <2>1, <2>2, <2>3, WalkNowhere
  <2>4. CASE pg[d].next # NoBlock
    <3>1. pg[d].next \in Block /\ pg[d].next > d
      BY <2>2, <2>4 DEF Link, Rising
    <3>2. \A c \in Walk(Nexts(pg), pg[d].next) : c >= pg[d].next /\ c \in Block
      BY <3>1, <1>1, WalkClosed
    <3>3. \A c \in Walk(Nexts(pg), pg[d].next) : c >= d
      <4>. DEFINE n == pg[d].next
      <4>1. n \in Nat /\ n > d /\ d \in Nat /\ \A c \in Walk(Nexts(pg), n) : c >= n /\ c \in Nat
        BY <3>1, <3>2, <2>2
      <4>. HIDE DEF n
      <4>2. \A c \in Walk(Nexts(pg), n) : c >= d
        BY <4>1
      <4>. QED BY <4>2 DEF n
    <3>4. \A c \in Walk(Nexts(pg), d) : c >= d
      BY <3>3, <2>1, <2>2
    <3>. QED BY <3>4
  <2>. QED BY <2>3, <2>4
<1>2. Block \subseteq S
  <2>. HIDE DEF S
  <2>. QED BY <1>1, BlockSet
<1>. QED BY <1>2

\* A walk emits one destination for each of the places that it passes.
LEMMA EmittingLength ==
  ASSUME NEW pg \in Pages, Rising(pg), NEW L \in SUBSET Slots(pg), NEW b0 \in Link
  PROVE  /\ IsFiniteSet(Passed(pg, L, b0))
         /\ Len(Emitting(pg, L, b0)) = Cardinality(Passed(pg, L, b0))
<1>. DEFINE G(b) == /\ IsFiniteSet(Passed(pg, L, b))
                    /\ Len(Emitting(pg, L, b)) = Cardinality(Passed(pg, L, b))
            S == {b \in Block : G(b)}
<1>1. G(NoBlock)
  <2>1. Passed(pg, L, NoBlock) = {}
    BY WalkNowhere DEF Passed
  <2>2. Emitting(pg, L, NoBlock) = <<>> /\ Len(<<>>) = 0
    BY EmittingSteps
  <2>. QED BY <2>1, <2>2, FS_EmptySet
<1>2. ASSUME NEW b \in Block, \A c \in Block : c > b => c \in S PROVE b \in S
  <2>. HIDE DEF G
  <2>. SUFFICES G(b)
    OBVIOUS
  <2>. DEFINE ss == pg[b].slots
              here == {i \in DOMAIN ss : i \in On(pg, L, b)}
              out == {<<b, i>> : i \in here}
              n == pg[b].next
              rest == Passed(pg, L, n)
  <2>0. ss \in Seq(EdgeSlot) /\ n \in Link /\ b \in Nat
    BY PageFields
  <2>1. G(n)
    <3>1. CASE n = NoBlock
      BY <3>1, <1>1
    <3>2. CASE n # NoBlock
      <4>1. n \in Block /\ n > b
        BY <2>0, <3>2 DEF Link, Rising
      <4>. QED BY <4>1, <1>2
    <3>. QED BY <3>1, <3>2
  <2>2. /\ IsFiniteSet(here)
        /\ Len(Emission(ss, On(pg, L, b))) = Cardinality(here)
    BY <2>0, EmissionLength
  <2>3. IsFiniteSet(out) /\ Cardinality(out) = Cardinality(here)
    <3>. DEFINE f == [i \in here |-> <<b, i>>]
    <3>. HIDE DEF here
    <3>1. f \in [here -> out] /\ \A i \in here : f[i] = <<b, i>>
      OBVIOUS
    <3>2. \A i, j \in here : f[i] = f[j] => i = j
      BY <3>1
    <3>3. \A q \in out : \E i \in here : f[i] = q
      BY <3>1
    <3>. HIDE DEF f, out
    <3>. QED BY <2>2, <3>1, <3>2, <3>3, Paired
  <2>4. Passed(pg, L, b) = out \cup rest
    <3>1. Walk(Nexts(pg), b) = {b} \cup Walk(Nexts(pg), n)
      BY WalkUnfolds, NextsType
    <3>2. \A q \in L : q[1] = b <=> q \in out
      <4>. SUFFICES ASSUME NEW q \in L PROVE q[1] = b <=> q \in out
        OBVIOUS
      <4>1. q \in Slots(pg) /\ q[1] \in Block /\ q[2] \in DOMAIN pg[q[1]].slots
              /\ q = <<q[1], q[2]>>
        BY SlotOf
      <4>2. ASSUME q[1] = b PROVE q \in out
        <5>1. q[2] \in here
          BY <4>1, <4>2 DEF On
        <5>. QED BY <5>1, <4>1, <4>2
      <4>. QED BY <4>2
    <3>3. out \subseteq L
      BY DEF On
    <3>. HIDE DEF out
    <3>. QED BY <3>1, <3>2, <3>3 DEF Passed
  <2>5. out \cap rest = {}
    <3>1. \A q \in rest : q[1] # b
      <4>1. CASE n = NoBlock
        BY <4>1, WalkNowhere DEF Passed
      <4>2. CASE n # NoBlock
        <5>1. n \in Block /\ n > b /\ n \in Nat
          BY <2>0, <4>2, BlockType DEF Link, Rising
        <5>2. \A c \in Walk(Nexts(pg), n) : c >= n /\ c \in Nat
          BY <5>1, WalkRises, WalkClosed, BlockType
        <5>. QED BY <5>1, <5>2, <2>0 DEF Passed
      <4>. QED BY <4>1, <4>2
    <3>. QED BY <3>1
  <2>6. /\ IsFiniteSet(rest) /\ Len(Emitting(pg, L, n)) = Cardinality(rest)
    BY <2>1 DEF G
  <2>7. /\ IsFiniteSet(Passed(pg, L, b))
        /\ Cardinality(Passed(pg, L, b)) = Cardinality(out) + Cardinality(rest)
    <3>. HIDE DEF out, rest
    <3>1. IsFiniteSet(out \cup rest)
          /\ Cardinality(out \cup rest) = Cardinality(out) + Cardinality(rest) - Cardinality(out \cap rest)
      BY <2>3, <2>6, FS_Union
    <3>2. Cardinality(out) \in Nat /\ Cardinality(rest) \in Nat
      BY <2>3, <2>6, FS_CardinalityType
    <3>3. Cardinality(out \cap rest) = 0
      BY <2>5, FS_EmptySet
    <3>. QED BY <3>1, <3>2, <3>3, <2>4
  <2>8. Len(Emitting(pg, L, b)) = Len(Emission(ss, On(pg, L, b))) + Len(Emitting(pg, L, n))
    <3>1. Emission(ss, On(pg, L, b)) \in Seq(Vid) /\ Emitting(pg, L, n) \in Seq(Vid)
      BY <2>0, PageFields, EmittingType
    <3>2. Emitting(pg, L, b) = Emission(ss, On(pg, L, b)) \o Emitting(pg, L, n)
      BY EmittingSteps
    <3>. QED BY <3>1, <3>2, ConcatProperties
  <2>. HIDE DEF out, rest, here, ss, n
  <2>. QED BY <2>2, <2>3, <2>6, <2>7, <2>8 DEF G
<1>3. Block \subseteq S
  <2>. HIDE DEF S, G
  <2>. QED BY <1>2, BlockSet
<1>. QED BY <1>1, <1>3 DEF Link

-----------------------------------------------------------------------------
(* What a typed traversal emits.                                           *)

\* The live edges of type t.
Chosen(pg, com, own, t) ==
  {q \in Slots(pg) : Alive(com, own, SlotAt(pg, q)) /\ SlotAt(pg, q).type = t}

LEMMA ChosenOn ==
  ASSUME NEW pg \in Pages, NEW com, NEW own, NEW t, NEW b \in Block
  PROVE  \A i \in DOMAIN pg[b].slots :
           i \in On(pg, Chosen(pg, com, own, t), b) <=>
             Alive(com, own, pg[b].slots[i]) /\ pg[b].slots[i].type = t
BY SlotIn DEF On, Chosen

\* A recursion of the model over one page.
EmitsLive(f, own, slots, t) ==
  f = [i \in 0..Len(slots) |->
         IF i = 0 THEN <<>>
         ELSE IF Live(own, slots[i]) /\ slots[i].type = t
              THEN Append(f[i - 1], slots[i].dst) ELSE f[i - 1]]

LEMMA EmittedIs ==
  ASSUME NEW own, NEW t, NEW b \in Block, page \in Pages
  PROVE  Emitted(own, page[b].slots, t)
           = Emission(page[b].slots, On(page, Chosen(page, committed, own, t), b))
<1>. DEFINE ss == page[b].slots
            L == On(page, Chosen(page, committed, own, t), b)
<1>1. ss \in Seq(EdgeSlot)
  BY PageFields
<1>2. \A i \in 1..Len(ss) : i \in L <=> Live(own, ss[i]) /\ ss[i].type = t
  BY <1>1, ChosenOn, LiveIsAlive
<1>3. Emitted(own, ss, t) = (CHOOSE f : EmitsLive(f, own, ss, t))[Len(ss)]
  BY DEF Emitted, EmitsLive
<1>. HIDE DEF ss, L
<1>4. ASSUME NEW f PROVE EmitsLive(f, own, ss, t) <=> Emits(f, ss, L)
  <2>. DEFINE A(i) == IF i = 0 THEN <<>>
                      ELSE IF Live(own, ss[i]) /\ ss[i].type = t
                           THEN Append(f[i - 1], ss[i].dst) ELSE f[i - 1]
              B(i) == IF i = 0 THEN <<>>
                      ELSE IF i \in L THEN Append(f[i - 1], ss[i].dst) ELSE f[i - 1]
  <2>1. ASSUME NEW i \in 0..Len(ss) PROVE A(i) = B(i)
    <3>1. i = 0 \/ i \in 1..Len(ss)
      BY <1>1
    <3>. QED BY <3>1, <1>2
  <2>2. [i \in 0..Len(ss) |-> A(i)] = [i \in 0..Len(ss) |-> B(i)]
    <3>. HIDE DEF A, B
    <3>. QED BY <2>1
  <2>. QED BY <2>2 DEF EmitsLive, Emits
<1>5. PICK g : EmitsLive(g, own, ss, t)
  BY <1>1, <1>4, EmitsExists
<1>. DEFINE u == CHOOSE f : EmitsLive(f, own, ss, t)
<1>6. EmitsLive(u, own, ss, t)
  BY <1>5
<1>. HIDE DEF u
<1>7. EmitSteps(u, ss, L)
  BY <1>1, <1>4, <1>6, EmitsSteps
<1>. QED BY <1>1, <1>3, <1>7, EmissionOf DEF u, ss, L

\* The recursion of the model over a chain.
WalksLive(f, own, t) ==
  f = [c \in Link |->
         IF c = NoBlock THEN <<>>
         ELSE Emitted(own, page[c].slots, t) \o f[page[c].next]]

\* Two recursions along the same links are the same.
LEMMA WalksAgree ==
  ASSUME NEW pg \in Pages, Rising(pg), NEW L, NEW f, NEW g,
         Walks(f, pg, L), Walks(g, pg, L)
  PROVE  \A b \in Link : f[b] = g[b]
<1>. DEFINE E(c) == Emission(pg[c].slots, On(pg, L, c))
            B(h, c) == IF c = NoBlock THEN <<>> ELSE E(c) \o h[pg[c].next]
<1>1. ASSUME NEW h, Walks(h, pg, L)
      PROVE  h[NoBlock] = <<>> /\ \A c \in Block : h[c] = E(c) \o h[pg[c].next]
  <2>1. h = [c \in Link |-> B(h, c)]
    BY <1>1 DEF Walks
  <2>2. \A c \in Link : h[c] = B(h, c)
    <3>. HIDE DEF B
    <3>. QED BY <2>1
  <2>. HIDE DEF E
  <2>. QED BY <2>2, BlockType DEF Link
<1>. HIDE DEF E
<1>. DEFINE S == {b \in Block : f[b] = g[b]}
<1>2. ASSUME NEW b \in Block, \A c \in Block : c > b => c \in S PROVE b \in S
  <2>1. pg[b].next = NoBlock \/ (pg[b].next \in Block /\ pg[b].next > b)
    BY PageFields DEF Link, Rising
  <2>2. f[pg[b].next] = g[pg[b].next]
    BY <2>1, <1>1, <1>2
  <2>. QED BY <2>2, <1>1
<1>3. Block \subseteq S
  <2>. HIDE DEF S
  <2>. QED BY <1>2, BlockSet
<1>. QED BY <1>1, <1>3 DEF Link

LEMMA EmittedFromIs ==
  ASSUME NEW own, NEW t, NEW b \in Link, page \in Pages, Rising(page)
  PROVE  EmittedFrom(own, b, t)
           = Emitting(page, Chosen(page, committed, own, t), b)
<1>. DEFINE L == Chosen(page, committed, own, t)
<1>1. EmittedFrom(own, b, t) = (CHOOSE f : WalksLive(f, own, t))[b]
  BY DEF EmittedFrom, WalksLive
<1>2. \A c \in Block : Emitted(own, page[c].slots, t) = Emission(page[c].slots, On(page, L, c))
  BY EmittedIs
<1>. HIDE DEF L
<1>3. ASSUME NEW f PROVE WalksLive(f, own, t) <=> Walks(f, page, L)
  <2>. DEFINE A(c) == IF c = NoBlock THEN <<>>
                      ELSE Emitted(own, page[c].slots, t) \o f[page[c].next]
              B(c) == IF c = NoBlock THEN <<>>
                      ELSE Emission(page[c].slots, On(page, L, c)) \o f[page[c].next]
  <2>1. ASSUME NEW c \in Link PROVE A(c) = B(c)
    BY <1>2 DEF Link
  <2>2. [c \in Link |-> A(c)] = [c \in Link |-> B(c)]
    <3>. HIDE DEF A, B
    <3>. QED BY <2>1
  <2>. QED BY <2>2 DEF WalksLive, Walks
<1>. DEFINE u == CHOOSE f : WalksLive(f, own, t)
            w == CHOOSE f : Walks(f, page, L)
<1>4. Walks(w, page, L)
  BY WalksExists
<1>5. WalksLive(u, own, t)
  BY <1>3, <1>4
<1>6. Walks(u, page, L)
  <2>. HIDE DEF u
  <2>. QED BY <1>3, <1>5
<1>7. Emitting(page, L, b) = w[b]
  BY DEF Emitting
<1>. HIDE DEF u, w
<1>8. u[b] = w[b]
  BY <1>4, <1>6, WalksAgree
<1>. QED BY <1>1, <1>7, <1>8 DEF u, L

-----------------------------------------------------------------------------
(* What a traversal of one vertex answers, in terms of the pages.          *)

\* The live edges of type t that leave v.
Leaving(pg, com, own, v, t) ==
  {q \in Chosen(pg, com, own, t) : SlotAt(pg, q).src = v}

\* The live edges of vertices that are not live.
Orphans(pg, com, own) ==
  {q \in Slots(pg) : /\ Alive(com, own, SlotAt(pg, q))
                     /\ SlotAt(pg, q).src \notin Vertices(pg, com, own)}

\* The answer of a traversal that begins at the record p.
ReadAt(pg, com, own, p, t) ==
  Emitting(pg, Chosen(pg, com, own, t), RecordAt(pg, p).head)

\* Records are on the pages that the walk of the vertex chain passes.
LEMMA RecordsWalked ==
  ASSUME NEW pg, NEW e, NEW first, NEW last, NEW n,
         Shape(pg, e, first, last, n), NEW p \in Positions(pg)
  PROVE  /\ p[1] \in Block /\ p[2] \in DOMAIN pg[p[1]].vertices
         /\ pg[p[1]].kind = "vertex"
         /\ p[1] \in Walk(Nexts(pg), first)
         /\ ChainShape(pg, RecordAt(pg, p).vid, RecordAt(pg, p).head, RecordAt(pg, p).tail)
<1>1. p[1] \in Block /\ p[2] \in DOMAIN pg[p[1]].vertices
  BY DEF Positions
<1>2. pg[p[1]].kind = "vertex"
  BY <1>1 DEF Shape, Extent
<1>. QED BY <1>1, <1>2 DEF Shape, VertexShape, VertexPages, IsChain, AdjacencyShape

\* The walk of a record's chain passes exactly the slots that leave its vertex.
LEMMA ChainPasses ==
  ASSUME NEW pg, NEW e, NEW first, NEW last, NEW n,
         Shape(pg, e, first, last, n), NEW p \in Positions(pg),
         NEW L \in SUBSET Slots(pg)
  PROVE  Passed(pg, L, RecordAt(pg, p).head)
           = {q \in L : SlotAt(pg, q).src = RecordAt(pg, p).vid}
<1>. DEFINE v == RecordAt(pg, p).vid
<1>1. Walk(Nexts(pg), RecordAt(pg, p).head) = OwnedPages(pg, v)
  BY RecordsWalked DEF ChainShape, IsChain
<1>. HIDE DEF v
<1>2. \A q \in L : q[1] \in OwnedPages(pg, v) <=> SlotAt(pg, q).src = v
  BY SlotOwner, SlotOf DEF OwnedPages
<1>. QED BY <1>1, <1>2 DEF Passed, v

\* A traversal answers as many destinations as edges leave the vertex.
LEMMA ReadLength ==
  ASSUME NEW pg \in Pages, NEW e, NEW first, NEW last, NEW n,
         Shape(pg, e, first, last, n), Rising(pg),
         NEW com, NEW own, NEW t, NEW p \in Positions(pg)
  PROVE  /\ ReadAt(pg, com, own, p, t) \in Seq(Vid)
         /\ IsFiniteSet(Leaving(pg, com, own, RecordAt(pg, p).vid, t))
         /\ Len(ReadAt(pg, com, own, p, t))
              = Cardinality(Leaving(pg, com, own, RecordAt(pg, p).vid, t))
<1>. DEFINE L == Chosen(pg, com, own, t)
            h == RecordAt(pg, p).head
<1>1. L \in SUBSET Slots(pg)
  BY DEF Chosen
<1>2. h \in Link
  BY RecordType DEF VertexRecord
<1>3. Passed(pg, L, h) = Leaving(pg, com, own, RecordAt(pg, p).vid, t)
  BY <1>1, ChainPasses DEF Leaving
<1>. HIDE DEF L, h
<1>4. ReadAt(pg, com, own, p, t) = Emitting(pg, L, h)
  BY DEF ReadAt, L, h
<1>. QED BY <1>1, <1>2, <1>3, <1>4, EmittingLength, EmittingType

\* The positions that gph_locate_vertex can answer.
LEMMA LocatedAre ==
  ASSUME TypeOK, StoreShape, NEW own, NEW v
  PROVE  Located(own, v) = {p \in AlivePositions(page, committed, own) :
                              RecordAt(page, p).vid = v}
<1>1. VertexPositions = Positions(page) /\ \A p : VertexAt(p) = RecordAt(page, p)
  BY StorePages
<1>2. NextBlock = Nexts(page)
  BY DEF NextBlock, Nexts
<1>3. \A p \in Positions(page) : p[1] \in Walk(NextBlock, meta.first)
  BY <1>2, RecordsWalked DEF StoreShape
<1>4. \A p : Live(own, RecordAt(page, p)) <=> Alive(committed, own, RecordAt(page, p))
  BY LiveIsAlive
<1>. QED BY <1>1, <1>3, <1>4 DEF Located, LivePositions, AlivePositions, ChainFrom

LEMMA TypedReadsIs ==
  ASSUME TypeOK, StoreShape, Rising(page),
         Orphans(page, committed, InvalidXid) = {}, NEW v, NEW t
  PROVE  /\ \A p \in Positions(page) : RecordAt(page, p).vid = v =>
              TypedReads(v, t) = ReadAt(page, committed, InvalidXid, p, t)
         /\ (\A p \in Positions(page) : RecordAt(page, p).vid # v) =>
              TypedReads(v, t) = <<>>
<1>. DEFINE found == Located(InvalidXid, v)
            p0 == CHOOSE p \in found : TRUE
<1>0. page \in Pages
  BY StorePages
<1>1. found = {p \in AlivePositions(page, committed, InvalidXid) : RecordAt(page, p).vid = v}
  BY LocatedAre
<1>2. found = {} => TypedReads(v, t) = <<>>
  BY DEF TypedReads
<1>3. found # {} =>
        /\ p0 \in found
        /\ TypedReads(v, t) = EmittedFrom(InvalidXid, RecordAt(page, p0).head, t)
  BY StorePages DEF TypedReads
<1>. HIDE DEF found, p0
<1>4. ASSUME NEW p \in Positions(page), RecordAt(page, p).vid = v
      PROVE  TypedReads(v, t) = ReadAt(page, committed, InvalidXid, p, t)
  <2>1. CASE found # {}
    <3>1. p0 \in Positions(page) /\ RecordAt(page, p0).vid = v
      BY <2>1, <1>1, <1>3 DEF AlivePositions
    <3>2. p0 = p
      BY <3>1, <1>4 DEF StoreShape, Shape, VidsOnce
    <3>3. RecordAt(page, p).head \in Link
      BY <1>0, RecordType DEF VertexRecord
    <3>. QED BY <3>2, <3>3, <2>1, <1>0, <1>3, EmittedFromIs DEF ReadAt
  <2>2. CASE found = {}
    <3>1. v \notin Vertices(page, committed, InvalidXid)
      BY <2>2, <1>1 DEF Vertices, AlivePositions
    <3>2. Leaving(page, committed, InvalidXid, v, t) = {}
      BY <3>1 DEF Leaving, Chosen, Orphans
    <3>. DEFINE r == ReadAt(page, committed, InvalidXid, p, t)
    <3>3. r \in Seq(Vid) /\ Len(r) = Cardinality(Leaving(page, committed, InvalidXid, v, t))
      BY <1>0, <1>4, ReadLength DEF StoreShape
    <3>. HIDE DEF r
    <3>4. Len(r) = 0
      BY <3>2, <3>3, FS_EmptySet
    <3>5. r = <<>>
      BY <3>3, <3>4, EmptySeq
    <3>. QED BY <3>5, <2>2, <1>2 DEF r
  <2>. QED BY <2>1, <2>2
<1>5. (\A p \in Positions(page) : RecordAt(page, p).vid # v) => TypedReads(v, t) = <<>>
  BY <1>1, <1>2 DEF AlivePositions
<1>. QED BY <1>4, <1>5

-----------------------------------------------------------------------------
(* Counting edges.                                                         *)

Standing(pg, com, own) == {q \in Slots(pg) : Alive(com, own, SlotAt(pg, q))}

\* The answers r of all traversals, place by place.
Triples(r) == {x \in Vid \X EdgeTypes \X Nat : x[3] \in DOMAIN r[<<x[1], x[2]>>]}

\* The elements of S with the key x.
Keyed(S, k, x) == {s \in S : k[s] = x}

\* Two sets whose elements have keys, as many in one as in the other of each.
KeyedPairs(S, T, K, k, m) ==
  \A x \in K : /\ IsFiniteSet(Keyed(S, k, x)) /\ IsFiniteSet(Keyed(T, m, x))
               /\ Cardinality(Keyed(S, k, x)) = Cardinality(Keyed(T, m, x))

LEMMA KeyedAlike ==
  ASSUME NEW S, NEW T, NEW K, NEW k, NEW m,
         k \in [S -> K], m \in [T -> K], IsFiniteSet(S), KeyedPairs(S, T, K, k, m)
  PROVE  IsFiniteSet(T) /\ Cardinality(T) = Cardinality(S)
<1>. USE DEF Keyed, KeyedPairs
<1>. DEFINE P(x) == {s \in S : k[s] = x}
            Q(x) == {u \in T : m[u] = x}
            h == [x \in K |-> CHOOSE b : b \in Bijection(P(x), Q(x))]
            f == [s \in S |-> h[k[s]][s]]
<1>1. ASSUME NEW x \in K
      PROVE  /\ h[x] \in [P(x) -> Q(x)]
             /\ \A s, r \in P(x) : h[x][s] = h[x][r] => s = r
             /\ \A u \in Q(x) : \E s \in P(x) : h[x][s] = u
  <2>1. ExistsBijection(P(x), Q(x))
    BY FS_SameCardinalityBij
  <2>2. h[x] \in Bijection(P(x), Q(x))
    BY <2>1 DEF ExistsBijection
  <2>. HIDE DEF h, P, Q
  <2>. QED BY <2>2 DEF Bijection, Injection, Surjection, IsInjective
<1>. HIDE DEF h
<1>2. \A s \in S : f[s] = h[k[s]][s] /\ s \in P(k[s]) /\ k[s] \in K
  OBVIOUS
<1>3. \A s \in S : f[s] \in Q(k[s])
  <2>. SUFFICES ASSUME NEW s \in S PROVE f[s] \in Q(k[s])
    OBVIOUS
  <2>1. f[s] = h[k[s]][s] /\ s \in P(k[s]) /\ k[s] \in K
    OBVIOUS
  <2>. HIDE DEF f, P, Q
  <2>. QED BY <1>1, <2>1
<1>4. f \in [S -> T]
  BY <1>3
<1>. HIDE DEF f
<1>5. \A s, r \in S : f[s] = f[r] => s = r
  <2>. SUFFICES ASSUME NEW s \in S, NEW r \in S, f[s] = f[r] PROVE s = r
    OBVIOUS
  <2>1. k[s] = k[r]
    BY <1>3
  <2>2. /\ f[s] = h[k[s]][s] /\ f[r] = h[k[s]][r] /\ k[s] \in K
        /\ s \in P(k[s]) /\ r \in P(k[s])
    BY <2>1, <1>2
  <2>. HIDE DEF P, Q
  <2>. QED BY <2>2, <1>1
<1>6. \A u \in T : \E s \in S : f[s] = u
  <2>. SUFFICES ASSUME NEW u \in T PROVE \E s \in S : f[s] = u
    OBVIOUS
  <2>1. u \in Q(m[u]) /\ m[u] \in K
    OBVIOUS
  <2>2. PICK s \in P(m[u]) : h[m[u]][s] = u
    BY <2>1, <1>1
  <2>3. s \in S /\ k[s] = m[u]
    OBVIOUS
  <2>. QED BY <2>2, <2>3, <1>2
<1>. QED BY <1>4, <1>5, <1>6, Paired

\* A slot of a well formed store, and the record of the vertex that it leaves.
LEMMA SlotLeaves ==
  ASSUME NEW pg \in Pages, NEW e, NEW first, NEW last, NEW n,
         Shape(pg, e, first, last, n), NEW q \in Slots(pg)
  PROVE  /\ SlotAt(pg, q) \in EdgeSlot
         /\ SlotAt(pg, q).src \in Vid /\ SlotAt(pg, q).type \in EdgeTypes
         /\ q \in Block \X (1..EdgeSlotsPerPage)
         /\ \E p \in Positions(pg) :
              /\ RecordAt(pg, p).vid = SlotAt(pg, q).src
              /\ q[1] \in OwnedPages(pg, RecordAt(pg, p).vid)
              /\ q[1] \in Walk(Nexts(pg), RecordAt(pg, p).head)
<1>1. q[1] \in Block /\ q[2] \in DOMAIN pg[q[1]].slots /\ q = <<q[1], q[2]>>
  BY SlotOf
<1>2. pg[q[1]].slots \in Seq(EdgeSlot)
  BY <1>1, PageFields
<1>3. SlotAt(pg, q) \in EdgeSlot
  BY <1>1, <1>2 DEF SlotAt
<1>4. /\ pg[q[1]].kind = "adj" /\ SlotAt(pg, q).src = pg[q[1]].owner
      /\ SlotAt(pg, q).src \in 0..(n - 1)
  BY SlotOwner
<1>5. PICK p \in Positions(pg) : RecordAt(pg, p).vid = SlotAt(pg, q).src
  BY <1>4 DEF Shape, VidsOnce
<1>6. q[1] \in OwnedPages(pg, RecordAt(pg, p).vid)
  BY <1>1, <1>4, <1>5 DEF OwnedPages
<1>7. /\ Len(pg[q[1]].slots) \in 1..EdgeSlotsPerPage
      /\ Walk(Nexts(pg), RecordAt(pg, p).head) = OwnedPages(pg, RecordAt(pg, p).vid)
  BY <1>6, RecordsWalked DEF ChainShape, IsChain
<1>8. q[2] \in 1..EdgeSlotsPerPage
  <2>1. EdgeSlotsPerPage \in Nat
    BY PageSizeAssumption
  <2>. QED BY <2>1, <1>1, <1>2, <1>7
<1>9. q \in Block \X (1..EdgeSlotsPerPage)
  BY <1>1, <1>8
<1>. QED BY <1>3, <1>5, <1>6, <1>7, <1>9 DEF EdgeSlot

LEMMA SlotsFinite ==
  ASSUME NEW pg \in Pages, NEW e, NEW first, NEW last, NEW n,
         Shape(pg, e, first, last, n)
  PROVE  IsFiniteSet(Slots(pg)) /\ \A L \in SUBSET Slots(pg) : IsFiniteSet(L)
<1>1. IsFiniteSet(1..MaxBlock) /\ IsFiniteSet(1..EdgeSlotsPerPage)
  BY FS_Interval, Constants, PageSizeAssumption
<1>2. IsFiniteSet(Block \X (1..EdgeSlotsPerPage))
  BY <1>1, FS_Product DEF Block
<1>3. Slots(pg) \subseteq Block \X (1..EdgeSlotsPerPage)
  BY SlotLeaves
<1>4. IsFiniteSet(Slots(pg))
  BY <1>2, <1>3, FS_Subset
<1>. QED BY <1>4, FS_Subset

\* The answers r are as long as there are edges.
Complete(pg, com, own, r) ==
  \A v \in Vid, t \in EdgeTypes :
    /\ r[<<v, t>>] \in Seq(Vid)
    /\ Len(r[<<v, t>>]) = Cardinality(Leaving(pg, com, own, v, t))

\* The live edges are as many as the places in the answers.
LEMMA StandingCounted ==
  ASSUME NEW pg \in Pages, NEW e, NEW first, NEW last, NEW n,
         Shape(pg, e, first, last, n), NEW com, NEW own, NEW r,
         Complete(pg, com, own, r)
  PROVE  Cardinality(Standing(pg, com, own)) = Cardinality(Triples(r))
<1>. DEFINE S == Standing(pg, com, own)
            T == Triples(r)
            K == Vid \X EdgeTypes
            k == [q \in S |-> <<SlotAt(pg, q).src, SlotAt(pg, q).type>>]
            m == [x \in T |-> <<x[1], x[2]>>]
<1>1. S \in SUBSET Slots(pg) /\ IsFiniteSet(S)
  BY SlotsFinite DEF Standing
<1>2. k \in [S -> K]
  BY <1>1, SlotLeaves
<1>3. m \in [T -> K]
  BY DEF Triples
<1>4. ASSUME NEW v \in Vid, NEW t \in EdgeTypes
      PROVE  /\ IsFiniteSet(Keyed(S, k, <<v, t>>)) /\ IsFiniteSet(Keyed(T, m, <<v, t>>))
             /\ Cardinality(Keyed(S, k, <<v, t>>)) = Cardinality(Keyed(T, m, <<v, t>>))
  <2>. DEFINE x == <<v, t>>
              d == r[<<v, t>>]
              P == {q \in S : k[q] = x}
              C == {u \in T : m[u] = x}
  <2>1. d \in Seq(Vid) /\ Len(d) = Cardinality(Leaving(pg, com, own, v, t))
    BY DEF Complete
  <2>2. P = Leaving(pg, com, own, v, t)
    <3>1. \A q \in S : k[q] = x <=> SlotAt(pg, q).src = v /\ SlotAt(pg, q).type = t
      OBVIOUS
    <3>. HIDE DEF k
    <3>. QED BY <3>1 DEF Standing, Leaving, Chosen
  <2>3. IsFiniteSet(P)
    BY <1>1, FS_Subset
  <2>4. C = {<<v, t, i>> : i \in DOMAIN d}
    <3>1. ASSUME NEW u \in C PROVE u \in {<<v, t, i>> : i \in DOMAIN d}
      <4>1. u \in Vid \X EdgeTypes \X Nat /\ <<u[1], u[2]>> = x
        BY DEF Triples
      <4>0. u[3] \in DOMAIN r[<<u[1], u[2]>>]
        BY DEF Triples
      <4>2. u = <<u[1], u[2], u[3]>> /\ u[1] = v /\ u[2] = t
        <5>. HIDE DEF C, T, m, d
        <5>. QED BY <4>1
      <4>3. u[3] \in DOMAIN d
        BY <4>0, <4>2
      <4>. HIDE DEF d, C, T, m
      <4>. QED BY <4>2, <4>3
    <3>2. ASSUME NEW i \in DOMAIN d PROVE <<v, t, i>> \in C
      <4>1. i \in Nat
        <5>. HIDE DEF d, C, T, m
        <5>. QED BY <2>1
      <4>2. <<v, t, i>> \in Vid \X EdgeTypes \X Nat /\ i \in DOMAIN r[<<v, t>>]
        BY <4>1
      <4>3. <<v, t, i>> \in T
        BY <4>2 DEF Triples
      <4>. HIDE DEF T
      <4>. QED BY <4>3
    <3>. HIDE DEF C, d
    <3>. QED BY <3>1, <3>2
  <2>. HIDE DEF d, C, P
  <2>. DEFINE N == Len(d)
              f == [i \in 1..N |-> <<v, t, i>>]
  <2>5. N \in Nat /\ DOMAIN d = 1..N /\ IsFiniteSet(1..N) /\ Cardinality(1..N) = N
    <3>1. N \in Nat /\ DOMAIN d = 1..N
      BY <2>1
    <3>. HIDE DEF N
    <3>2. IsFiniteSet(1..N) /\ Cardinality(1..N) = N
      BY <3>1, FS_Interval
    <3>. QED BY <3>1, <3>2
  <2>6. C = {<<v, t, i>> : i \in 1..N}
    BY <2>4, <2>5
  <2>. HIDE DEF N
  <2>7. f \in [1..N -> C] /\ \A i \in 1..N : f[i] = <<v, t, i>>
    BY <2>6
  <2>. HIDE DEF f
  <2>8. /\ \A i, j \in 1..N : f[i] = f[j] => i = j
        /\ \A u \in C : \E i \in 1..N : f[i] = u
    BY <2>6, <2>7
  <2>9. IsFiniteSet(C) /\ Cardinality(C) = N
    BY <2>5, <2>7, <2>8, Paired
  <2>10. IsFiniteSet(P) /\ IsFiniteSet(C) /\ Cardinality(P) = Cardinality(C)
    BY <2>1, <2>2, <2>3, <2>9 DEF N
  <2>. QED BY <2>10 DEF P, C, Keyed
<1>5. \A x \in K : \E v \in Vid, t \in EdgeTypes : x = <<v, t>>
  OBVIOUS
<1>. HIDE DEF S, T, K, k, m
<1>6. KeyedPairs(S, T, K, k, m)
  BY <1>4, <1>5 DEF KeyedPairs
<1>7. Cardinality(T) = Cardinality(S)
  <2>1. IsFiniteSet(S)
    BY <1>1
  <2>. QED BY <2>1, <1>2, <1>3, <1>6, KeyedAlike
<1>. QED BY <1>7 DEF S, T

LEMMA VisibleCountIs ==
  ASSUME TypeOK, StoreShape
  PROVE  VisibleEdgeCount = Cardinality(Standing(page, committed, InvalidXid))
<1>. DEFINE Heads == {p \in VertexPositions : p[1] \in ChainFrom(meta.first)}
            Blocks == UNION {ChainFrom(VertexAt(p).head) : p \in Heads}
            On1(b) == {<<b, i>> : i \in {j \in DOMAIN page[b].slots : Counts(page[b].slots[j])}}
            All == UNION {On1(b) : b \in Blocks}
            S == Standing(page, committed, InvalidXid)
<1>1. VisibleEdgeCount = Cardinality(All)
  BY DEF VisibleEdgeCount
<1>2. /\ page \in Pages /\ VertexPositions = Positions(page)
      /\ \A p : VertexAt(p) = RecordAt(page, p)
  BY StorePages
<1>3. \A b : ChainFrom(b) = Walk(Nexts(page), b)
  BY DEF ChainFrom, NextBlock, Nexts
<1>4. Heads = Positions(page)
  BY <1>2, <1>3, RecordsWalked DEF StoreShape
<1>5. \A q \in Slots(page) : q[1] \in Blocks
  <2>. SUFFICES ASSUME NEW q \in Slots(page) PROVE q[1] \in Blocks
    OBVIOUS
  <2>1. PICK p \in Positions(page) : q[1] \in Walk(Nexts(page), RecordAt(page, p).head)
    BY <1>2, SlotLeaves DEF StoreShape
  <2>. HIDE DEF Heads
  <2>. QED BY <2>1, <1>2, <1>3, <1>4
<1>6. Blocks \subseteq Block
  <2>. SUFFICES ASSUME NEW p \in Heads PROVE ChainFrom(VertexAt(p).head) \subseteq Block
    OBVIOUS
  <2>1. p \in Positions(page) /\ RecordAt(page, p).head \in Link
    BY <1>2, <1>4, RecordType DEF VertexRecord
  <2>. QED BY <2>1, <1>2, <1>3, WalkClosed, WalkNowhere DEF Link
<1>. HIDE DEF Blocks, Heads
<1>7. \A e : Counts(e) <=> Alive(committed, InvalidXid, e)
  BY LiveIsAlive DEF Counts
<1>8. All \subseteq S
  <2>. SUFFICES ASSUME NEW b \in Blocks, NEW i \in DOMAIN page[b].slots,
                       Counts(page[b].slots[i])
                PROVE  <<b, i>> \in S
    OBVIOUS
  <2>. QED BY <1>6, <1>7, SlotIn DEF Standing
<1>9. S \subseteq All
  <2>. SUFFICES ASSUME NEW q \in S PROVE q \in All
    OBVIOUS
  <2>1. q \in Slots(page) /\ Counts(SlotAt(page, q))
    BY <1>7 DEF Standing
  <2>2. q = <<q[1], q[2]>> /\ q[2] \in DOMAIN page[q[1]].slots /\ q[1] \in Blocks
    BY <2>1, <1>5, SlotOf
  <2>3. q \in On1(q[1])
    <3>1. q[2] \in {j \in DOMAIN page[q[1]].slots : Counts(page[q[1]].slots[j])}
      BY <2>1, <2>2 DEF SlotAt
    <3>. DEFINE b == q[1]
                i == q[2]
    <3>2. q = <<b, i>> /\ i \in {j \in DOMAIN page[b].slots : Counts(page[b].slots[j])}
      BY <3>1, <2>2
    <3>. HIDE DEF b, i
    <3>3. q \in On1(b)
      BY <3>2
    <3>. QED BY <3>3 DEF b
  <2>. HIDE DEF On1
  <2>. QED BY <2>2, <2>3
<1>. HIDE DEF All, S
<1>10. All = S
  BY <1>8, <1>9
<1>. QED BY <1>1, <1>10 DEF S

\* The answers of all traversals tell how many edges there are.
LEMMA ReadsComplete ==
  ASSUME TypeOK, StoreShape, Rising(page), Orphans(page, committed, InvalidXid) = {}
  PROVE  /\ Complete(page, committed, InvalidXid, Reads)
         /\ \A v \in Vid, t \in EdgeTypes : Reads[<<v, t>>] = TypedReads(v, t)
<1>0. page \in Pages
  BY StorePages
<1>1. ASSUME NEW v \in Vid, NEW t \in EdgeTypes
      PROVE  /\ TypedReads(v, t) \in Seq(Vid)
             /\ Len(TypedReads(v, t))
                  = Cardinality(Leaving(page, committed, InvalidXid, v, t))
  <2>1. CASE \E p \in Positions(page) : RecordAt(page, p).vid = v
    <3>1. PICK p \in Positions(page) : RecordAt(page, p).vid = v
      BY <2>1
    <3>. QED BY <3>1, <1>0, TypedReadsIs, ReadLength DEF StoreShape
  <2>2. CASE \A p \in Positions(page) : RecordAt(page, p).vid # v
    <3>1. Leaving(page, committed, InvalidXid, v, t) = {}
      BY <2>2, <1>0, SlotLeaves DEF StoreShape, Leaving, Chosen
    <3>2. TypedReads(v, t) = <<>>
      BY <2>2, TypedReadsIs
    <3>3. <<>> \in Seq(Vid) /\ Len(<<>>) = 0
      OBVIOUS
    <3>. QED BY <3>1, <3>2, <3>3, FS_EmptySet
  <2>. QED BY <2>1, <2>2
<1>2. ASSUME NEW v \in Vid, NEW t \in EdgeTypes PROVE Reads[<<v, t>>] = TypedReads(v, t)
  <2>. DEFINE g == <<v, t>>
  <2>1. g \in Vid \X EdgeTypes /\ g[1] = v /\ g[2] = t
    OBVIOUS
  <2>2. Reads[g] = TypedReads(g[1], g[2])
    <3>. HIDE DEF g
    <3>. QED BY <2>1 DEF Reads
  <2>. QED BY <2>1, <2>2
<1>. QED BY <1>1, <1>2 DEF Complete

LEMMA CountHolds ==
  ASSUME TypeOK, StoreShape, Rising(page), Orphans(page, committed, InvalidXid) = {}
  PROVE  CountIsReads /\ VisibleEdgeCount = Cardinality(Triples(Reads))
<1>. DEFINE S == Standing(page, committed, InvalidXid)
            T == EdgeView(InvalidXid)
            f == [q \in S |-> EdgeOf(page, q)]
<1>0. page \in Pages
  BY StorePages
<1>1. T = Edges(page, committed, InvalidXid)
  <2>1. GraphView(InvalidXid).edges = Graph(page, committed, InvalidXid).edges
    BY ViewsAreFlat
  <2>. QED BY <2>1 DEF GraphView, Graph
<1>2. AliveSlots(page, committed, InvalidXid) = S
  BY DEF AliveSlots, Standing, Orphans
<1>3. S \in SUBSET Slots(page) /\ IsFiniteSet(S)
  BY <1>0, SlotsFinite DEF StoreShape, Standing
<1>. HIDE DEF S, T
<1>4. T = {EdgeOf(page, q) : q \in S}
  BY <1>1, <1>2 DEF Edges
<1>5. f \in [S -> T] /\ \A q \in S : f[q] = EdgeOf(page, q)
  BY <1>4
<1>6. \A q, r \in S : f[q] = f[r] => q = r
  BY <1>5, EdgeFields
<1>7. \A e \in T : \E q \in S : f[q] = e
  BY <1>4, <1>5
<1>. HIDE DEF f
<1>8. Cardinality(T) = Cardinality(S)
  BY <1>3, <1>5, <1>6, <1>7, Paired
<1>9. VisibleEdgeCount = Cardinality(S)
  BY VisibleCountIs DEF S
<1>10. Cardinality(S) = Cardinality(Triples(Reads))
  BY <1>0, ReadsComplete, StandingCounted DEF StoreShape, S
<1>. QED BY <1>8, <1>9, <1>10 DEF CountIsReads, T

-----------------------------------------------------------------------------
(* What the writers keep.                                                  *)

\* The writer walks the edges of a vertex that it has tombstoned.
Sweeping == op.name = "tombstone" /\ op.dst = AnyVid

\* Every live edge leaves a live vertex; only a sweep still has some of the
\* tombstoned vertex to go, on the pages ahead of it, for its own writer.
NoOrphans ==
  /\ Orphans(page, committed, InvalidXid) = {}
  /\ Sweeping => op.type = AnyType
  /\ \A q \in Orphans(page, committed, WriterXid) :
       Sweeping /\ q[1] \in Walk(Nexts(page), op.blk)

\* Edges lead to vids that have been given.
TargetsGiven == \A q \in Slots(page) : SlotAt(page, q).dst < meta.nextVid

WholeInv ==
  /\ TxnInv
  /\ op.name \in {"idle", "edges", "tombstone"}
  /\ Rising(page)
  /\ NoOrphans
  /\ TargetsGiven

\* A change adds no orphans that hides no vertex and adds no edge of another.
LEMMA OrphansKept ==
  ASSUME NEW pg, NEW com, NEW own, NEW qg, NEW com2, NEW own2,
         Vertices(pg, com, own) \subseteq Vertices(qg, com2, own2),
         \A q \in Slots(qg) : Alive(com2, own2, SlotAt(qg, q)) =>
           \/ SlotAt(qg, q).src \in Vertices(pg, com, own)
           \/ /\ q \in Slots(pg) /\ Alive(com, own, SlotAt(pg, q))
              /\ SlotAt(qg, q).src = SlotAt(pg, q).src
  PROVE  Orphans(qg, com2, own2) \subseteq Orphans(pg, com, own)
BY DEF Orphans

\* A reader to whom each id in the store means the same.
LEMMA SameOrphans ==
  ASSUME NEW com, NEW own, NEW com2, NEW own2,
         \A x \in StampedXids : Seen(com2, own2, x) <=> Seen(com, own, x)
  PROVE  Orphans(page, com2, own2) = Orphans(page, com, own)
<1>1. ASSUME NEW b \in Block, NEW i \in DOMAIN page[b].slots
      PROVE  XidsOf(page[b].slots[i]) \subseteq StampedXids
  BY DEF StampedXids, PageXids, XidsIn
<1>2. \A r : XidsOf(r) \subseteq StampedXids =>
        (Alive(com2, own2, r) <=> Alive(com, own, r))
  BY DEF XidsOf, Alive
<1>3. \A q \in Slots(page) : Alive(com2, own2, SlotAt(page, q)) <=> Alive(com, own, SlotAt(page, q))
  BY <1>1, <1>2, SlotOf DEF SlotAt
<1>4. Vertices(page, com2, own2) = Vertices(page, com, own)
  <2>1. Graph(page, com2, own2) = Graph(page, com, own)
    BY SameReader
  <2>2. /\ Graph(page, com2, own2).vertices = Vertices(page, com2, own2)
        /\ Graph(page, com, own).vertices = Vertices(page, com, own)
    BY DEF Graph
  <2>. QED BY <2>1, <2>2
<1>. QED BY <1>3, <1>4 DEF Orphans

LEMMA WholeFacts ==
  ASSUME WholeInv
  PROVE  /\ TxnInv /\ ChainInv /\ TypeOK /\ StoreShape /\ page \in Pages
         /\ WriterInv /\ FreezeInv /\ UncommittedRun /\ OperationInv
         /\ Rising(page) /\ NoOrphans /\ TargetsGiven
BY TxnFacts, StorePages DEF WholeInv

LEMMA TransactionWhole ==
  ASSUME WholeInv, NEW s \in Sessions,
         \/ AssignXid(s)
         \/ AcquireWriterLock(s)
         \/ Commit(s)
         \/ Abort(s)
         \/ AbortExtended(s)
  PROVE  NoOrphans'
<1>. DEFINE g == Orphans(page, committed, InvalidXid)
            h == Orphans(page, committed, WriterXid)
            k == Orphans(page, committed', InvalidXid)
            l == Orphans(page, committed', WriterXid')
<1>. USE WholeFacts, TxnFacts, XidTypes
<1>0. page' = page
  BY Ends DEF AssignXid, AcquireWriterLock, store
<1>1. g = {} /\ (~Sweeping => h = {})
  BY DEF NoOrphans
<1>2. CASE AssignXid(s)
  <2>1. xid[s] = InvalidXid /\ xid' = [xid EXCEPT ![s] = nextXid]
        /\ committed' = committed /\ lock' = lock /\ op' = op
    BY <1>2 DEF AssignXid
  <2>2. CASE lock = s
    <3>1. WriterXid = InvalidXid /\ WriterXid' = nextXid
      BY <2>1, <2>2 DEF WriterXid, TypeOK
    <3>2. \A x \in StampedXids : Seen(committed, nextXid, x) <=> Seen(committed, InvalidXid, x)
      BY NewStamp DEF Seen
    <3>3. l = g /\ k = g
      BY <2>1, <3>1, <3>2, SameOrphans
    <3>. QED BY <1>0, <1>1, <2>1, <3>1, <3>3 DEF NoOrphans, Sweeping
  <2>3. CASE lock # s
    <3>1. WriterXid' = WriterXid
      BY <2>1, <2>3 DEF WriterXid, TypeOK
    <3>. QED BY <1>0, <2>1, <3>1 DEF NoOrphans, Sweeping
  <2>. QED BY <2>2, <2>3
<1>3. CASE AcquireWriterLock(s)
  <2>1. lock = NoSession /\ lock' = s /\ xid' = xid /\ committed' = committed /\ op' = op
    BY <1>3 DEF AcquireWriterLock
  <2>2. WriterXid = InvalidXid /\ WriterXid' = xid[s]
    BY <2>1 DEF WriterXid
  <2>3. \A x \in StampedXids : Seen(committed, xid[s], x) <=> Seen(committed, InvalidXid, x)
    BY <2>1, RunningStamp DEF Seen
  <2>4. l = g /\ k = g
    BY <2>1, <2>2, <2>3, SameOrphans
  <2>. QED BY <1>0, <1>1, <2>1, <2>4 DEF NoOrphans, Sweeping
<1>4. CASE (Commit(s) \/ Abort(s) \/ AbortExtended(s)) /\ lock = s
  <2>1. lock' = NoSession /\ WriterXid = xid[s] /\ WriterXid' = InvalidXid
    BY <1>4, Ends DEF EndTransaction, WriterXid
  <2>2. op' = Idle /\ ~Sweeping'
    BY <1>4, Ends DEF Sweeping, Idle
  <2>3. CASE committed' = committed
    BY <1>0, <1>1, <2>1, <2>2, <2>3 DEF NoOrphans
  <2>4. CASE committed' # committed
    <3>1. committed' = committed \cup ({xid[s]} \ {InvalidXid}) /\ op = Idle
      BY <1>4, <2>4, Ends
    <3>2. \A x \in StampedXids : Seen(committed', InvalidXid, x) <=> Seen(committed, xid[s], x)
      BY <3>1 DEF Seen
    <3>3. k = h /\ l = h
      BY <2>1, <3>2, SameOrphans
    <3>4. h = {}
      BY <1>1, <3>1 DEF Sweeping, Idle
    <3>. QED BY <1>0, <2>1, <2>2, <3>3, <3>4 DEF NoOrphans
  <2>. QED BY <2>3, <2>4
<1>5. CASE (Commit(s) \/ Abort(s) \/ AbortExtended(s)) /\ lock # s
  <2>1. lock' = lock /\ WriterXid' = WriterXid
    BY <1>5, Ends DEF EndTransaction, WriterXid, TypeOK
  <2>2. op' = op
    <3>1. CASE Commit(s) \/ Abort(s)
      BY <1>5, <3>1 DEF Commit, Abort
    <3>2. CASE AbortExtended(s)
      BY <1>5, <3>2 DEF AbortExtended
    <3>. QED BY <1>5, <3>1, <3>2
  <2>3. k = g /\ l = h
    <3>1. CASE committed' = committed
      BY <3>1, <2>1
    <3>2. CASE committed' = committed \cup ({xid[s]} \ {InvalidXid})
      <4>1. xid[s] # InvalidXid => xid[s] \notin StampedXids
        BY <1>5, RunningStamp
      <4>2. \A own : \A x \in StampedXids : Seen(committed', own, x) <=> Seen(committed, own, x)
        BY <3>2, <4>1 DEF Seen
      <4>. QED BY <2>1, <4>2, SameOrphans
    <3>. QED BY <1>5, <3>1, <3>2, Ends
  <2>. QED BY <1>0, <2>1, <2>2, <2>3 DEF NoOrphans, Sweeping
<1>. QED BY <1>2, <1>3, <1>4, <1>5


\* Links lead ahead still: the new ones lead to the new end of the file.
LEMMA RisingLinked ==
  ASSUME NEW pg \in Pages, NEW qg \in Pages, NEW e \in Nat, Rising(pg),
         \A b \in Block : \/ qg[b].next = pg[b].next
                          \/ qg[b].next = NoBlock
                          \/ qg[b].next = e + 1 /\ b <= e
  PROVE  Rising(qg)
<1>1. \A b \in Block : b \in Nat
  BY BlockType
<1>. QED BY <1>1 DEF Rising

\* Blocks that have a kind are within the file.
LEMMA WithinFile ==
  ASSUME NEW pg \in Pages, NEW e \in Nat, Extent(pg, e), NEW b \in Block,
         pg[b].kind # "zero"
  PROVE  b <= e
<1>1. b \in Nat /\ ~(b > e)
  BY BlockType DEF Extent
<1>. QED BY <1>1

LEMMA InsertVertexRises ==
  ASSUME WholeInv, NEW s \in Sessions, InsertVertex(s), page' \in Pages
  PROVE  Rising(page')
<1>. DEFINE qg   == page'
            last == meta.last
            vr   == NewVertex(meta.nextVid, xid[s])
            new  == eof + 1
<1>1. /\ page \in Pages /\ eof \in Nat /\ last \in Link /\ Rising(page)
      /\ Extent(page, eof) /\ VertexShape(page, meta.first, last)
  BY WholeFacts, StorePages DEF StoreShape, Shape
<1>2. \/ last \in Block /\ qg = [page EXCEPT ![last].vertices = Append(@, vr)]
      \/ /\ eof < MaxBlock
         /\ qg = [b \in Block |->
                    IF b = new THEN NewVertexPage(vr)
                    ELSE IF b = last THEN [page[b] EXCEPT !.next = new]
                    ELSE page[b]]
  BY <1>1 DEF InsertVertex, Link
<1>3. qg \in Pages
  OBVIOUS
<1>. HIDE DEF qg, last, vr
<1>4. CASE last \in Block /\ qg = [page EXCEPT ![last].vertices = Append(@, vr)]
  <2>1. \A b \in Block : qg[b].next = page[b].next
    BY <1>1, <1>4 DEF Pages, Page
  <2>. QED BY <1>1, <1>3, <2>1, RisingLinked DEF qg
<1>5. CASE qg = [b \in Block |->
                   IF b = new THEN NewVertexPage(vr)
                   ELSE IF b = last THEN [page[b] EXCEPT !.next = new]
                   ELSE page[b]]
  <2>1. last # NoBlock => last \in Block /\ last <= eof
    <3>1. last # NoBlock => last \in Block /\ page[last].kind # "zero"
      BY <1>1 DEF Link, VertexShape, IsChain, VertexPages
    <3>. QED BY <1>1, <3>1, WithinFile
  <2>2. ASSUME NEW b \in Block
        PROVE  \/ qg[b].next = page[b].next
               \/ qg[b].next = NoBlock
               \/ qg[b].next = eof + 1 /\ b <= eof
    <3>1. CASE b = new
      BY <1>5, <3>1, NewPages
    <3>2. CASE b # new /\ b = last
      <4>1. qg[b] = [page[b] EXCEPT !.next = new]
        BY <1>5, <3>2
      <4>2. qg[b].next = new
        BY <4>1, <1>1 DEF Pages, Page
      <4>. QED BY <4>2, <3>2, <2>1, BlockType
    <3>3. CASE b # new /\ b # last
      BY <1>5, <3>3
    <3>. QED BY <3>1, <3>2, <3>3
  <2>. HIDE DEF new
  <2>. QED BY <1>1, <1>3, <2>2, RisingLinked DEF qg
<1>. QED BY <1>2, <1>4, <1>5

LEMMA AppendSlotsRises ==
  ASSUME WholeInv, NEW p \in VertexPositions, NEW src, NEW ss, AppendSlots(p, src, ss),
         page' \in Pages
  PROVE  Rising(page')
<1>. DEFINE qg  == page'
            r   == VertexAt(p)
            new == eof + 1
<1>1. /\ page \in Pages /\ eof \in Nat /\ Rising(page) /\ TypeOK /\ StoreShape
      /\ Extent(page, eof) /\ AdjacencyShape(page)
      /\ p \in Positions(page) /\ r = RecordAt(page, p)
  BY WholeFacts, StorePages DEF StoreShape, Shape
<1>2. \/ ~NeedsPage(p) /\ qg = [page EXCEPT ![r.tail].slots = @ \o ss]
      \/ qg = [b \in Block |->
                 IF b = new THEN NewAdjPage(src, ss)
                 ELSE IF b = r.tail THEN [page[b] EXCEPT !.next = new]
                 ELSE IF b = p[1] THEN
                   [page[b] EXCEPT
                      !.vertices[p[2]].head = IF @ = NoBlock THEN new ELSE @,
                      !.vertices[p[2]].tail = new]
                 ELSE page[b]]
  BY DEF AppendSlots
<1>3. qg \in Pages
  OBVIOUS
<1>. HIDE DEF qg, r
<1>4. CASE ~NeedsPage(p) /\ qg = [page EXCEPT ![r.tail].slots = @ \o ss]
  <2>1. r.tail \in Block
    BY <1>1, <1>4, RoomLeft DEF r
  <2>2. SlotsGrown(page, qg, r.tail, ss)
    BY <1>1, <1>4, <2>1, SlotsGrownBy
  <2>3. \A b \in Block : qg[b].next = page[b].next
    BY <2>2 DEF SlotsGrown
  <2>. QED BY <1>1, <1>3, <2>3, RisingLinked DEF qg
<1>5. CASE qg = [b \in Block |->
                   IF b = new THEN NewAdjPage(src, ss)
                   ELSE IF b = r.tail THEN [page[b] EXCEPT !.next = new]
                   ELSE IF b = p[1] THEN
                     [page[b] EXCEPT
                        !.vertices[p[2]].head = IF @ = NoBlock THEN new ELSE @,
                        !.vertices[p[2]].tail = new]
                   ELSE page[b]]
  <2>1. r.tail \in Block => r.tail <= eof
    <3>1. r.tail \in Block => page[r.tail].kind # "zero"
      BY <1>1, TailOf, BlockType
    <3>. QED BY <1>1, <3>1, WithinFile
  <2>2. ASSUME NEW b \in Block
        PROVE  \/ qg[b].next = page[b].next
               \/ qg[b].next = NoBlock
               \/ qg[b].next = eof + 1 /\ b <= eof
    <3>1. CASE b = new
      <4>1. qg[b] = NewAdjPage(src, ss)
        BY <1>5, <3>1
      <4>. QED BY <4>1, NewPages
    <3>2. CASE b # new /\ b = r.tail
      <4>1. qg[b] = [page[b] EXCEPT !.next = new]
        BY <1>5, <3>2
      <4>2. qg[b].next = new
        BY <4>1, <1>1 DEF Pages, Page
      <4>. QED BY <4>2, <3>2, <2>1, BlockType
    <3>3. CASE b # new /\ b # r.tail /\ b = p[1]
      <4>1. qg[b] = [page[b] EXCEPT
                        !.vertices[p[2]].head = IF @ = NoBlock THEN new ELSE @,
                        !.vertices[p[2]].tail = new]
        BY <1>5, <3>3
      <4>2. page[b] \in Page
        BY <1>1 DEF Pages
      <4>3. qg[b].next = page[b].next
        BY <4>1, <4>2 DEF Page
      <4>. QED BY <4>3
    <3>4. CASE b # new /\ b # r.tail /\ b # p[1]
      BY <1>5, <3>4
    <3>. QED BY <3>1, <3>2, <3>3, <3>4
  <2>. HIDE DEF new
  <2>. QED BY <1>1, <1>3, <2>2, RisingLinked DEF qg
<1>. QED BY <1>2, <1>4, <1>5


LEMMA InsertVertexWhole ==
  ASSUME WholeInv, NEW s \in Sessions, InsertVertex(s)
  PROVE  NoOrphans' /\ TargetsGiven'
<1>. DEFINE x  == xid[s]
            n  == meta.nextVid
            vr == NewVertex(n, x)
            qg == page'
<1>1. /\ lock = s /\ op = Idle /\ x # InvalidXid /\ UNCHANGED txns /\ op' = op
  BY DEF InsertVertex, MayWrite
<1>2. /\ x # FrozenXid /\ x \notin committed /\ WriterXid = x /\ WriterXid' = x
      /\ committed' = committed
  BY <1>1, WholeFacts, WriterReads
<1>3. RecordAdded(page, qg, vr)
  BY WholeFacts, InsertVertexShape
<1>4. vr.vid = n /\ vr.xmin = x /\ ~vr.deleted
  BY DEF NewVertex
<1>5. n \in Nat /\ Shape(page, eof, meta.first, meta.last, n)
  BY WholeFacts, StorePages DEF StoreShape
<1>6. meta'.nextVid = n + 1
  <2>1. meta \in Meta
    BY WholeFacts, StorePages
  <2>. QED BY <2>1 DEF InsertVertex, Meta
<1>7. /\ Orphans(page, committed, InvalidXid) = {} /\ Orphans(page, committed, x) = {}
      /\ \A q \in Slots(page) : SlotAt(page, q).dst < n
  BY <1>1, <1>2, WholeFacts DEF NoOrphans, TargetsGiven, Sweeping, Idle
<1>. HIDE DEF x, n, vr, qg
<1>8. Slots(qg) = Slots(page) /\ \A q \in Slots(page) : SlotAt(qg, q) = SlotAt(page, q)
  <2>1. \A b \in Block : /\ DOMAIN qg[b].slots = DOMAIN page[b].slots
                        /\ \A i \in DOMAIN page[b].slots : qg[b].slots[i] = page[b].slots[i]
    BY <1>3 DEF RecordAdded
  <2>2. Slots(qg) = Slots(page)
    BY <2>1 DEF Slots
  <2>3. \A q \in Slots(page) : SlotAt(qg, q) = SlotAt(page, q)
    BY <2>1, SlotOf DEF SlotAt
  <2>. QED BY <2>2, <2>3
<1>9. ASSUME NEW own PROVE Vertices(page, committed, own) \subseteq Vertices(qg, committed, own)
  <2>1. CASE Alive(committed, own, vr)
    BY <1>3, <1>4, <1>5, <2>1, GraphRecordAdded
  <2>2. CASE ~Alive(committed, own, vr)
    <3>1. Graph(qg, committed, own) = Graph(page, committed, own)
      BY <1>3, <1>4, <1>5, <2>2, GraphRecordAdded
    <3>2. /\ Graph(qg, committed, own).vertices = Vertices(qg, committed, own)
          /\ Graph(page, committed, own).vertices = Vertices(page, committed, own)
      BY DEF Graph
    <3>. QED BY <3>1, <3>2
  <2>. QED BY <2>1, <2>2
<1>10. \A own : Orphans(qg, committed, own) \subseteq Orphans(page, committed, own)
  BY <1>8, <1>9, OrphansKept
<1>11. Orphans(qg, committed, InvalidXid) = {} /\ Orphans(qg, committed, x) = {}
  BY <1>7, <1>10
<1>12. ~Sweeping'
  BY <1>1 DEF Sweeping, Idle
<1>13. NoOrphans'
  BY <1>2, <1>11, <1>12 DEF NoOrphans, qg
<1>14. \A q \in Slots(qg) : SlotAt(qg, q).dst < n + 1
  <2>. SUFFICES ASSUME NEW q \in Slots(page) PROVE SlotAt(page, q).dst < n + 1
    BY <1>8
  <2>1. SlotAt(page, q).dst < n /\ SlotAt(page, q).dst \in Vid
    BY <1>7, <1>5, WholeFacts, SlotLeaves DEF EdgeSlot
  <2>. QED BY <2>1, <1>5, Constants DEF Vid
<1>. QED BY <1>6, <1>13, <1>14 DEF TargetsGiven, qg

LEMMA OutgoingWhole ==
  ASSUME WholeInv, NEW s \in Sessions, lock = s, xid[s] # InvalidXid,
         UNCHANGED txns, NEW ss, SlotsAdded(page, page', ss),
         NEW src \in WriterVertices, NEW t,
         Outgoing(ss, src, t, xid[s], WriterVertices),
         op.name # "tombstone", op'.name # "tombstone", meta'.nextVid = meta.nextVid
  PROVE  NoOrphans' /\ TargetsGiven'
<1>. DEFINE x  == xid[s]
            qg == page'
            V  == Vertices(page, committed, x)
            n  == meta.nextVid
<1>1. /\ x # InvalidXid /\ x # FrozenXid /\ x \notin committed
      /\ WriterVertices = V /\ WriterXid = x /\ WriterXid' = x /\ committed' = committed
  BY WholeFacts, WriterReads
<1>2. SlotsAdded(page, qg, ss) /\ src \in V /\ Outgoing(ss, src, t, x, V)
  BY <1>1
<1>3. /\ Orphans(page, committed, InvalidXid) = {} /\ Orphans(page, committed, x) = {}
      /\ \A q \in Slots(page) : SlotAt(page, q).dst < n
  BY <1>1, WholeFacts DEF NoOrphans, TargetsGiven, Sweeping
<1>4. \A v \in V : v < n
  <2>1. VidsOnce(page, n) /\ n \in Nat
    BY WholeFacts, StorePages DEF StoreShape, Shape
  <2>2. \A v \in V : v \in 0..(n - 1)
    BY <2>1 DEF VidsOnce, Vertices, AlivePositions
  <2>. HIDE DEF n, V
  <2>. QED BY <2>1, <2>2
<1>5. ~Sweeping' /\ meta'.nextVid = n
  BY DEF Sweeping
<1>. HIDE DEF x, qg, V, n
<1>6. \A j \in DOMAIN ss : /\ ~Alive(committed, InvalidXid, ss[j])
                           /\ ss[j].src \in V /\ ss[j].dst < n
  BY <1>1, <1>2, <1>4, OwnStamp DEF Outgoing
<1>7. \A own : Vertices(qg, committed, own) = Vertices(page, committed, own)
  BY <1>2, GraphSlotsAdded
<1>8. ASSUME NEW q \in Slots(qg)
      PROVE  \/ q \in Slots(page) /\ SlotAt(qg, q) = SlotAt(page, q)
             \/ \E j \in DOMAIN ss : SlotAt(qg, q) = ss[j]
  BY <1>2 DEF SlotsAdded
<1>9. Orphans(qg, committed, InvalidXid) \subseteq Orphans(page, committed, InvalidXid)
  BY <1>6, <1>7, <1>8 DEF Orphans
<1>10. Orphans(qg, committed, x) \subseteq Orphans(page, committed, x)
  BY <1>6, <1>7, <1>8 DEF Orphans, V
<1>11. NoOrphans'
  <2>1. Orphans(qg, committed, InvalidXid) = {} /\ Orphans(qg, committed, x) = {}
    BY <1>3, <1>9, <1>10
  <2>. QED BY <1>1, <1>5, <2>1 DEF NoOrphans, qg
<1>12. \A q \in Slots(qg) : SlotAt(qg, q).dst < n
  BY <1>3, <1>6, <1>8
<1>. QED BY <1>5, <1>11, <1>12 DEF TargetsGiven, qg

LEMMA TombstoneVertexWhole ==
  ASSUME WholeInv, NEW s \in Sessions, NEW v \in Vid, TombstoneVertex(s, v)
  PROVE  NoOrphans' /\ TargetsGiven' /\ Rising(page')
<1>. DEFINE x  == xid[s]
            qg == page'
            h  == Orphans(page, committed, x)
<1>1. lock = s /\ x # InvalidXid /\ UNCHANGED txns /\ op = Idle /\ meta' = meta
  BY DEF TombstoneVertex, MayWrite
<1>2. /\ x # FrozenXid /\ x \notin committed /\ WriterXid = x /\ WriterXid' = x
      /\ committed' = committed
  BY <1>1, WholeFacts, WriterReads
<1>3. PICK p \in VertexPositions :
        /\ p \in Located(x, v)
        /\ qg = [page EXCEPT ![p[1]] = TombstonedPage(p, x)]
        /\ op' = [name |-> "tombstone", blk |-> VertexAt(p).head,
                  dst |-> AnyVid, type |-> AnyType]
  BY WholeFacts, TombstoneVertexPage
<1>4. /\ RecordAt(page, p).vid = v /\ Alive(committed, x, RecordAt(page, p))
      /\ p \in Positions(page) /\ VertexAt(p) = RecordAt(page, p)
  BY <1>3, WholeFacts, LocatedIsAlive, StorePages
<1>5. Shape(page, eof, meta.first, meta.last, meta.nextVid) /\ VidsOnce(page, meta.nextVid)
  BY WholeFacts DEF StoreShape, Shape
<1>6. /\ Orphans(page, committed, InvalidXid) = {} /\ h = {}
      /\ \A q \in Slots(page) : SlotAt(page, q).dst < meta.nextVid
  BY <1>1, <1>2, WholeFacts DEF NoOrphans, TargetsGiven, Sweeping, Idle
<1>. HIDE DEF x, qg, h
<1>7. RecordDeleted(page, qg, p, x)
  BY <1>3, WholeFacts, RecordTombstoned
<1>8. /\ Graph(qg, committed, InvalidXid) = Graph(page, committed, InvalidXid)
      /\ Vertices(qg, committed, x) = Vertices(page, committed, x) \ {v}
  BY <1>1, <1>2, <1>4, <1>5, <1>7, GraphRecordDeleted
<1>9. Vertices(qg, committed, InvalidXid) = Vertices(page, committed, InvalidXid)
  <2>1. /\ Graph(qg, committed, InvalidXid).vertices = Vertices(qg, committed, InvalidXid)
        /\ Graph(page, committed, InvalidXid).vertices = Vertices(page, committed, InvalidXid)
    BY DEF Graph
  <2>. QED BY <2>1, <1>8
<1>10. Slots(qg) = Slots(page) /\ \A q \in Slots(page) : SlotAt(qg, q) = SlotAt(page, q)
  BY <1>7 DEF RecordDeleted
<1>11. Orphans(qg, committed, InvalidXid) = {}
  BY <1>6, <1>9, <1>10 DEF Orphans
<1>12. Nexts(qg) = Nexts(page)
  <2>1. page \in [Block -> Page] /\ p[1] \in Block /\ p[2] \in DOMAIN page[p[1]].vertices
    BY <1>4, WholeFacts, RecordType DEF Pages
  <2>2. TombstonedPage(p, x).next = page[p[1]].next
    BY <2>1 DEF TombstonedPage, Page
  <2>3. \A b \in Block : qg[b].next = page[b].next
    BY <1>3, <2>1, <2>2
  <2>. QED BY <2>3 DEF Nexts
<1>13. ASSUME NEW q \in Orphans(qg, committed, x)
       PROVE  q[1] \in Walk(Nexts(qg), RecordAt(page, p).head)
  <2>1. q \in Slots(page) /\ SlotAt(page, q).src = v
    BY <1>6, <1>8, <1>10 DEF Orphans, h
  <2>2. q \in Passed(page, {q}, RecordAt(page, p).head)
    BY <2>1, <1>4, <1>5, ChainPasses
  <2>. QED BY <2>2, <1>12 DEF Passed
<1>14. NoOrphans'
  BY <1>2, <1>3, <1>4, <1>11, <1>13 DEF NoOrphans, Sweeping, qg
<1>15. TargetsGiven'
  BY <1>1, <1>6, <1>10 DEF TargetsGiven, qg
<1>16. Rising(qg)
  <2>1. \A b \in Block : qg[b].next = page[b].next
    <3>1. \A b \in Block : Nexts(qg)[b] = qg[b].next /\ Nexts(page)[b] = page[b].next
      BY DEF Nexts
    <3>. QED BY <3>1, <1>12
  <2>. QED BY <2>1, WholeFacts DEF Rising
<1>. QED BY <1>14, <1>15, <1>16 DEF qg

LEMMA TombstoneEdgeWhole ==
  ASSUME WholeInv, NEW s \in Sessions, NEW src \in Vid, NEW dst \in Vid, NEW t,
         TombstoneEdge(s, src, dst, t)
  PROVE  NoOrphans' /\ TargetsGiven' /\ Rising(page')
<1>1. /\ lock = s /\ xid[s] # InvalidXid /\ UNCHANGED txns /\ page' = page /\ op = Idle
      /\ meta' = meta
  BY DEF TombstoneEdge, MayWrite, store
<1>2. WriterXid' = WriterXid /\ committed' = committed
  BY <1>1, WholeFacts, WriterReads
<1>3. ~Sweeping /\ ~Sweeping'
  <2>1. dst # AnyVid
    BY Constants DEF Vid, AnyVid
  <2>2. op'.dst = dst
    BY DEF TombstoneEdge
  <2>. QED BY <2>1, <2>2, <1>1 DEF Sweeping, Idle
<1>. QED BY <1>1, <1>2, <1>3, WholeFacts DEF NoOrphans, TargetsGiven


LEMMA TombstoneAdjacencyWhole ==
  ASSUME WholeInv, NEW s \in Sessions, TombstoneAdjacency(s)
  PROVE  NoOrphans' /\ TargetsGiven' /\ Rising(page')
<1>. DEFINE x   == xid[s]
            qg  == page'
            b   == op.blk
            dst == op.dst
            t   == op.type
            h   == Orphans(page, committed, x)
<1>1. lock = s /\ op.name = "tombstone" /\ UNCHANGED txns /\ meta' = meta
  BY DEF TombstoneAdjacency
<1>2. x # InvalidXid
  BY <1>1, WholeFacts DEF OperationInv
<1>3. /\ x # FrozenXid /\ x \notin committed /\ WriterXid = x /\ WriterXid' = x
      /\ committed' = committed
  BY <1>1, <1>2, WholeFacts, WriterReads
<1>4. op \in [name : {"tombstone"}, blk : Link, dst : Vid \cup {AnyVid},
              type : EdgeTypes \cup {AnyType}]
  BY <1>1, WholeFacts DEF TypeOK, Operation, Idle
<1>5. /\ Orphans(page, committed, InvalidXid) = {}
      /\ dst = AnyVid => t = AnyType
      /\ \A q \in h : dst = AnyVid /\ q[1] \in Walk(Nexts(page), b)
      /\ \A q \in Slots(page) : SlotAt(page, q).dst < meta.nextVid
  BY <1>1, <1>3, WholeFacts DEF NoOrphans, TargetsGiven, Sweeping
<1>6. CASE b = NoBlock
  <2>1. op' = Idle /\ page' = page
    BY <1>6 DEF TombstoneAdjacency
  <2>2. h = {}
    BY <1>5, <1>6, WalkNowhere
  <2>. QED BY <1>1, <1>3, <1>5, <2>1, <2>2, WholeFacts DEF NoOrphans, TargetsGiven, Sweeping, Idle
<1>7. CASE b # NoBlock
  <2>1. b \in Block /\ Shape(page, eof, meta.first, meta.last, meta.nextVid)
    BY <1>4, <1>7, WholeFacts DEF Link, StoreShape
  <2>. DEFINE ss == [i \in DOMAIN page[b].slots |-> TombstoneSlot(x, page[b].slots[i], dst, t)]
              G == {<<b, i>> : i \in {j \in DOMAIN page[b].slots :
                                        Matches(x, page[b].slots[j], dst, t)}}
  <2>2. qg = WithSlots(page, b, ss)
    BY <1>7 DEF TombstoneAdjacency, WithSlots
  <2>3. /\ op'.name = "tombstone" /\ op'.blk = page[b].next /\ op'.dst = dst
        /\ op'.type = t
    <3>1. op' = [op EXCEPT !.blk = page[b].next]
      BY <1>7 DEF TombstoneAdjacency
    <3>. HIDE DEF b, dst, t
    <3>2. op.name = "tombstone" /\ op.dst = dst /\ op.type = t
      BY <1>1 DEF dst, t
    <3>. QED BY <1>4, <3>1, <3>2
  <2>. HIDE DEF x, qg, b, dst, t, h
  <2>4. SlotsDeleted(page, qg, G, x) /\ page \in Pages
    <3>. HIDE DEF ss, G
    <3>1. page \in Pages
      BY WholeFacts
    <3>2. ss = [i \in DOMAIN page[b].slots |-> TombstoneSlot(x, page[b].slots[i], dst, t)]
      BY DEF ss
    <3>3. G = {<<b, i>> : i \in {j \in DOMAIN page[b].slots :
                                   Matches(x, page[b].slots[j], dst, t)}}
      BY DEF G
    <3>. QED BY <2>1, <2>2, <3>1, <3>2, <3>3, SlotsTombstoned
  <2>5. \A c \in Block : qg[c].next = page[c].next
    <3>1. page[b] \in Page
      BY <2>1, <2>4 DEF Pages
    <3>. HIDE DEF ss
    <3>2. [page[b] EXCEPT !.slots = ss].next = page[b].next
      BY <3>1, SlotsReplaced
    <3>. QED BY <2>1, <2>2, <2>4, <3>2 DEF WithSlots, Pages
  <2>6. ASSUME NEW q \in G
        PROVE  /\ Alive(committed, x, SlotAt(page, q))
               /\ q[1] = b /\ q \in Slots(page)
    <3>1. PICK i \in DOMAIN page[b].slots :
            q = <<b, i>> /\ Matches(x, page[b].slots[i], dst, t)
      OBVIOUS
    <3>2. q \in Slots(page) /\ SlotAt(page, q) = page[b].slots[i] /\ q[1] = b
      BY <2>1, <3>1, SlotIn
    <3>. QED BY <3>1, <3>2, LiveIsAlive DEF Matches
  <2>7. ASSUME NEW q \in Slots(page), q[1] = b, dst = AnyVid, q \notin G
        PROVE  ~Alive(committed, x, SlotAt(page, q))
    <3>. DEFINE i == q[2]
    <3>1. i \in DOMAIN page[b].slots /\ q = <<b, i>> /\ SlotAt(page, q) = page[b].slots[i]
      BY <2>7, SlotOf DEF SlotAt
    <3>. HIDE DEF i
    <3>2. ~Matches(x, page[b].slots[i], dst, t)
      BY <2>7, <3>1
    <3>3. ~Live(x, page[b].slots[i])
      BY <3>2, <2>7, <1>5 DEF Matches
    <3>. QED BY <3>1, <3>3, LiveIsAlive
  <2>. HIDE DEF G, ss
  <2>8. /\ Graph(qg, committed, InvalidXid) = Graph(page, committed, InvalidXid)
        /\ Vertices(qg, committed, x) = Vertices(page, committed, x)
    BY <1>2, <1>3, <2>4, <2>6, GraphSlotsDeleted
  <2>9. Vertices(qg, committed, InvalidXid) = Vertices(page, committed, InvalidXid)
    <3>1. /\ Graph(qg, committed, InvalidXid).vertices = Vertices(qg, committed, InvalidXid)
          /\ Graph(page, committed, InvalidXid).vertices = Vertices(page, committed, InvalidXid)
      BY DEF Graph
    <3>. QED BY <3>1, <2>8
  <2>10. ASSUME NEW q \in Slots(qg)
         PROVE  /\ q \in Slots(page) /\ SlotAt(qg, q).src = SlotAt(page, q).src
                /\ SlotAt(qg, q).dst = SlotAt(page, q).dst
                /\ Alive(committed, InvalidXid, SlotAt(qg, q))
                     => Alive(committed, InvalidXid, SlotAt(page, q))
                /\ Alive(committed, x, SlotAt(qg, q))
                     => Alive(committed, x, SlotAt(page, q)) /\ q \notin G
    <3>1. CASE q \in G
      BY <1>2, <1>3, <2>4, <2>6, <3>1 DEF SlotsDeleted, Alive, Seen
    <3>2. CASE q \notin G
      BY <2>4, <3>2 DEF SlotsDeleted
    <3>. QED BY <3>1, <3>2
  <2>11. Orphans(qg, committed, InvalidXid) = {}
    BY <1>5, <2>9, <2>10 DEF Orphans
  <2>12. ASSUME NEW q \in Orphans(qg, committed, x)
         PROVE  dst = AnyVid /\ q[1] \in Walk(Nexts(qg), page[b].next)
    <3>1. q \in h /\ q \in Slots(page) /\ q \notin G /\ Alive(committed, x, SlotAt(page, q))
      BY <2>8, <2>10 DEF Orphans, h
    <3>2. dst = AnyVid /\ q[1] \in Walk(Nexts(page), b)
      BY <3>1, <1>5
    <3>3. q[1] # b
      BY <3>1, <3>2, <2>7
    <3>4. /\ Nexts(page) \in Links /\ Nexts(page)[b] = page[b].next
      BY <2>1, <2>4, NextsType
    <3>5. Nexts(qg) = Nexts(page)
      BY <2>5 DEF Nexts
    <3>6. Walk(Nexts(page), b) = {b} \cup Walk(Nexts(page), page[b].next)
      BY <2>1, <3>4, WalkUnfolds
    <3>. QED BY <3>2, <3>3, <3>5, <3>6
  <2>13. NoOrphans'
    <3>1. Sweeping' <=> dst = AnyVid
      BY <2>3 DEF Sweeping
    <3>. QED BY <1>3, <1>5, <2>3, <2>11, <2>12, <3>1 DEF NoOrphans, qg
  <2>14. TargetsGiven'
    BY <1>1, <1>5, <2>10 DEF TargetsGiven, qg
  <2>15. Rising(qg)
    BY <2>5, WholeFacts DEF Rising
  <2>. QED BY <2>13, <2>14, <2>15 DEF qg
<1>. QED BY <1>6, <1>7

LEMMA WriteRunWhole ==
  ASSUME WholeInv, NEW s \in Sessions, lock = s, xid[s] # InvalidXid,
         UNCHANGED txns, NEW p \in VertexPositions, op.name # "tombstone",
         NEW src \in Vid, src = VertexAt(p).vid, src \in WriterVertices,
         NEW t \in EdgeTypes, NEW dsts \in Seq(Vid), dsts # <<>>,
         \A i \in DOMAIN dsts : dsts[i] \in WriterVertices,
         WriteRun(s, p, src, t, dsts)
  PROVE  NoOrphans' /\ TargetsGiven' /\ Rising(page')
<1>. DEFINE n     == IF Len(dsts) <= Room(p) THEN Len(dsts) ELSE Room(p)
            chunk == [i \in 1..n |-> NewSlot(src, dsts[i], t, xid[s])]
<1>1. n \in 0..Len(dsts) /\ chunk \in Seq(EdgeSlot)
  BY WholeFacts, WriteRunChunk
<1>2. /\ AppendSlots(p, src, chunk)
      /\ op' = IF n = Len(dsts) THEN Idle
               ELSE [name |-> "edges", src |-> src, type |-> t,
                     rest |-> SubSeq(dsts, n + 1, Len(dsts))]
  BY DEF WriteRun
<1>3. /\ Len(dsts) \in Nat /\ DOMAIN dsts = 1..Len(dsts) /\ Len(dsts) # 0
  BY LenProperties, EmptySeq
<1>4. n \in Nat /\ n > 0
  <2>1. \A k \in 1..EdgeSlotsPerPage : k \in Nat /\ k > 0
    BY PageSizeAssumption
  <2>2. Room(p) \in Nat /\ Room(p) > 0
    BY <2>1, WholeFacts, RoomLeft
  <2>. QED BY <1>3, <2>2
<1>5. op'.name # "tombstone"
  <2>1. CASE n = Len(dsts)
    BY <1>2, <2>1 DEF Idle
  <2>2. CASE n # Len(dsts)
    BY <1>2, <2>2
  <2>. QED BY <2>1, <2>2
<1>. HIDE DEF n
<1>6. DOMAIN chunk = 1..n
  OBVIOUS
<1>7. Len(chunk) > 0
  <2>1. DOMAIN chunk = 1..Len(chunk) /\ Len(chunk) \in Nat
    BY <1>1, LenProperties
  <2>2. 1 \in DOMAIN chunk
    BY <1>4, <1>6
  <2>. HIDE DEF chunk
  <2>. QED BY <2>1, <2>2
<1>8. Outgoing(chunk, src, t, xid[s], WriterVertices)
  <2>1. \A i \in 1..n : i \in DOMAIN dsts
    BY <1>1, <1>3, <1>4
  <2>. QED BY <1>6, <2>1 DEF Outgoing, NewSlot
<1>. HIDE DEF chunk
<1>9. SlotsAdded(page, page', chunk)
  BY <1>1, <1>2, <1>7, WholeFacts, AppendSlotsAdds
<1>10. meta'.nextVid = meta.nextVid
  <2>1. meta \in Meta
    BY WholeFacts, StorePages
  <2>. QED BY <2>1, <1>2 DEF AppendSlots, Meta
<1>11. page' \in Pages
  BY <1>1, <1>2, WholeFacts, AppendSlotsType DEF Pages
<1>. QED BY <1>2, <1>5, <1>8, <1>9, <1>10, <1>11, OutgoingWhole, AppendSlotsRises

LEMMA InsertEdgesWhole ==
  ASSUME WholeInv, NEW s \in Sessions,
         \/ \E src, dst \in Vid, t \in EdgeTypes : InsertEdge(s, src, dst, t)
         \/ \E src \in Vid, dsts \in Seq(Vid), t \in EdgeTypes :
              InsertEdges(s, src, dsts, t)
         \/ ContinueInsertEdges(s)
  PROVE  NoOrphans' /\ TargetsGiven' /\ Rising(page')
<1>1. ASSUME NEW src \in Vid, NEW dst \in Vid, NEW t \in EdgeTypes,
             InsertEdge(s, src, dst, t)
      PROVE  NoOrphans' /\ TargetsGiven' /\ Rising(page')
  <2>. DEFINE slot == NewSlot(src, dst, t, xid[s])
  <2>1. /\ lock = s /\ op = Idle /\ xid[s] # InvalidXid /\ UNCHANGED txns /\ op' = op
        /\ Located(xid[s], dst) # {}
    BY <1>1 DEF InsertEdge, MayWrite
  <2>2. PICK p \in Located(xid[s], src) : AppendSlots(p, src, <<slot>>)
    BY <1>1 DEF InsertEdge
  <2>3. /\ p \in VertexPositions
        /\ src \in WriterVertices /\ dst \in WriterVertices
    BY <2>1, WholeFacts, LocatedIsAlive, WriterReads
  <2>4. slot \in EdgeSlot
    BY WholeFacts, Constants DEF TypeOK, NewSlot, EdgeSlot, StoredXid
  <2>5. /\ slot.src = src /\ slot.type = t /\ slot.dst = dst
        /\ slot.xmin = xid[s] /\ ~slot.deleted
    BY DEF NewSlot
  <2>. HIDE DEF slot
  <2>6. <<slot>> \in Seq(EdgeSlot) /\ Len(<<slot>>) > 0
    BY <2>4
  <2>7. Outgoing(<<slot>>, src, t, xid[s], WriterVertices)
    BY <2>3, <2>5 DEF Outgoing
  <2>8. SlotsAdded(page, page', <<slot>>)
    BY <2>2, <2>3, <2>6, WholeFacts, AppendSlotsAdds
  <2>9. meta'.nextVid = meta.nextVid
    <3>1. meta \in Meta
      BY WholeFacts, StorePages
    <3>. QED BY <3>1, <2>2 DEF AppendSlots, Meta
  <2>10. page' \in Pages
    BY <2>2, <2>3, <2>6, WholeFacts, AppendSlotsType DEF Pages
  <2>11. op.name # "tombstone" /\ op'.name # "tombstone"
    BY <2>1 DEF Idle
  <2>. QED BY <2>1, <2>2, <2>3, <2>7, <2>8, <2>9, <2>10, <2>11, OutgoingWhole, AppendSlotsRises
<1>2. ASSUME NEW src \in Vid, NEW dsts \in Seq(Vid), NEW t \in EdgeTypes,
             InsertEdges(s, src, dsts, t)
      PROVE  NoOrphans' /\ TargetsGiven' /\ Rising(page')
  <2>1. /\ lock = s /\ xid[s] # InvalidXid /\ UNCHANGED txns /\ dsts # <<>> /\ op = Idle
        /\ \A i \in DOMAIN dsts : DenseLocated(xid[s], dsts[i]) # {}
    BY <1>2 DEF InsertEdges, MayWrite
  <2>2. PICK p \in DenseLocated(xid[s], src) : WriteRun(s, p, src, t, dsts)
    BY <1>2 DEF InsertEdges
  <2>3. p \in VertexPositions /\ VertexAt(p).vid = src /\ src \in WriterVertices
    BY <2>1, WholeFacts, LocatedIsAlive, WriterReads
  <2>4. \A i \in DOMAIN dsts : dsts[i] \in WriterVertices
    BY <2>1, WholeFacts, LocatedIsAlive, WriterReads
  <2>5. op.name # "tombstone"
    BY <2>1 DEF Idle
  <2>. QED BY <2>1, <2>2, <2>3, <2>4, <2>5, WriteRunWhole
<1>3. ASSUME ContinueInsertEdges(s)
      PROVE  NoOrphans' /\ TargetsGiven' /\ Rising(page')
  <2>1. PICK p \in VertexPositions :
          /\ VertexAt(p).vid = op.src
          /\ WriteRun(s, p, op.src, op.type, op.rest)
    BY <1>3 DEF ContinueInsertEdges
  <2>2. /\ lock = s /\ op.name = "edges" /\ UNCHANGED txns
    BY <1>3 DEF ContinueInsertEdges
  <2>3. op \in [name : {"edges"}, src : Vid, type : EdgeTypes, rest : Seq(Vid)]
    BY <2>2, WholeFacts DEF TypeOK, Operation, Idle
  <2>4. /\ op.src \in Vid /\ op.type \in EdgeTypes /\ op.rest \in Seq(Vid)
        /\ op.rest # <<>>
    BY <2>2, <2>3, WholeFacts DEF ChainInv
  <2>5. /\ xid[s] # InvalidXid /\ op.src \in WriterVertices
        /\ \A i \in DOMAIN op.rest : op.rest[i] \in WriterVertices
    BY <2>2, WholeFacts DEF OperationInv
  <2>6. op.name # "tombstone"
    BY <2>2
  <2>. QED BY <2>1, <2>2, <2>4, <2>5, <2>6, WriteRunWhole
<1>. QED BY <1>1, <1>2, <1>3


\* The writer's operation after a step of InsertEdges.
LEMMA InsertEdgesOperation ==
  ASSUME NEW s \in Sessions, op.name \in {"idle", "edges", "tombstone"},
         \/ \E src, dst \in Vid, t \in EdgeTypes : InsertEdge(s, src, dst, t)
         \/ \E src \in Vid, dsts \in Seq(Vid), t \in EdgeTypes :
              InsertEdges(s, src, dsts, t)
         \/ ContinueInsertEdges(s)
  PROVE  op'.name \in {"idle", "edges"} /\ UNCHANGED txns /\ lock = s
<1>1. CASE \E src, dst \in Vid, t \in EdgeTypes : InsertEdge(s, src, dst, t)
  BY <1>1 DEF InsertEdge, MayWrite, Idle
<1>2. CASE \/ \E src \in Vid, dsts \in Seq(Vid), t \in EdgeTypes :
                InsertEdges(s, src, dsts, t)
           \/ ContinueInsertEdges(s)
  <2>1. PICK p, src, t, dsts : WriteRun(s, p, src, t, dsts)
    BY <1>2 DEF InsertEdges, ContinueInsertEdges
  <2>. DEFINE n == IF Len(dsts) <= Room(p) THEN Len(dsts) ELSE Room(p)
              o == [name |-> "edges", src |-> src, type |-> t,
                    rest |-> SubSeq(dsts, n + 1, Len(dsts))]
  <2>2. op' = Idle \/ op' = o
    BY <2>1 DEF WriteRun
  <2>3. Idle.name = "idle" /\ o.name = "edges"
    BY DEF Idle
  <2>4. UNCHANGED txns /\ lock = s
    BY <1>2 DEF InsertEdges, ContinueInsertEdges, MayWrite
  <2>. HIDE DEF o
  <2>. QED BY <2>2, <2>3, <2>4
<1>. QED BY <1>1, <1>2

\* A batch of any length, as a replay inserts it, keeps what transactions do.
LEMMA BatchTxn ==
  ASSUME WholeInv, NEW s \in Sessions,
         \E src \in Vid, dsts \in Seq(Vid), t \in EdgeTypes :
           InsertEdges(s, src, dsts, t)
  PROVE  TxnInv'
<1>1. TypeOK' /\ StoreShape' /\ (op.name = "edges" => op.rest # <<>>)'
  BY WholeFacts, InsertEdgesType, InsertEdgesShape
<1>2. UncommittedRun' /\ OperationInv'
  BY <1>1, WholeFacts, InsertEdgesRefines
<1>3. op'.name \in {"idle", "edges"} /\ UNCHANGED txns /\ lock = s
  BY InsertEdgesOperation DEF WholeInv
<1>4. StampedXids' \subseteq StampedXids \cup Stamps(s)
  BY WholeFacts, InsertEdgesXids
<1>5. KnownXids' /\ DistinctXids' /\ WriterOwnsUncommitted'
  BY <1>3, <1>4, WholeFacts, OperationKeepsContract
<1>6. HorizonHolds'
  BY <1>3 DEF HorizonHolds
<1>. QED BY <1>1, <1>2, <1>5, <1>6 DEF TxnInv, ChainInv, WriterInv, FreezeInv

LEMMA WholeInit == Init => WholeInv
<1>. SUFFICES ASSUME Init PROVE WholeInv
  OBVIOUS
<1>1. TxnInv
  BY InitTxn
<1>2. op = Idle /\ op.name = "idle"
  BY DEF Init, Idle
<1>3. \A b \in Block : page[b].slots = <<>> /\ page[b].next = NoBlock
  BY DEF Init, ZeroPage
<1>4. Rising(page)
  BY <1>3 DEF Rising
<1>5. Slots(page) = {}
  BY <1>3 DEF Slots
<1>6. NoOrphans /\ TargetsGiven
  BY <1>2, <1>5 DEF NoOrphans, TargetsGiven, Orphans, Sweeping
<1>. QED BY <1>1, <1>2, <1>4, <1>6 DEF WholeInv

LEMMA WholeNext ==
  ASSUME WholeInv, NEW s \in Sessions,
         \/ Session(s) /\ op'.name # "freeze"
         \/ \E src \in Vid, dsts \in Seq(Vid), t \in EdgeTypes :
              InsertEdges(s, src, dsts, t)
  PROVE  WholeInv'
<1>. DEFINE Good == /\ op'.name \in {"idle", "edges", "tombstone"}
                    /\ Rising(page') /\ NoOrphans' /\ TargetsGiven'
<1>1. TxnInv'
  <2>1. Session(s) => Next
    BY DEF Next
  <2>. QED BY <2>1, WholeFacts, BatchTxn, NextTxn
<1>2. op.name \in {"idle", "edges", "tombstone"}
  BY DEF WholeInv
<1>3. ASSUME \/ AssignXid(s) \/ AcquireWriterLock(s)
             \/ Commit(s) \/ Abort(s) \/ AbortExtended(s)
      PROVE  Good
  <2>1. page' = page /\ meta' = meta
    BY <1>3, Ends DEF AssignXid, AcquireWriterLock, Commit, Abort, AbortExtended, store
  <2>2. op' = op \/ op' = Idle
    BY <1>3 DEF AssignXid, AcquireWriterLock, Commit, Abort, AbortExtended
  <2>3. op'.name \in {"idle", "edges", "tombstone"}
    BY <1>2, <2>2 DEF Idle
  <2>4. Rising(page') /\ TargetsGiven'
    BY <2>1, WholeFacts DEF TargetsGiven
  <2>. QED BY <1>3, <2>3, <2>4, TransactionWhole
<1>4. ASSUME InsertVertex(s) PROVE Good
  <2>1. page' \in Pages
    BY <1>1 DEF TxnInv, ChainInv, TypeOK, Pages
  <2>2. op' = op
    BY <1>4 DEF InsertVertex
  <2>. QED BY <1>2, <1>4, <2>1, <2>2, InsertVertexWhole, InsertVertexRises
<1>5. ASSUME \/ \E src, dst \in Vid, t \in EdgeTypes : InsertEdge(s, src, dst, t)
             \/ \E src \in Vid, dsts \in Seq(Vid), t \in EdgeTypes :
                  InsertEdges(s, src, dsts, t)
             \/ ContinueInsertEdges(s)
      PROVE  Good
  BY <1>2, <1>5, InsertEdgesWhole, InsertEdgesOperation
<1>6. ASSUME TombstoneSome(s) \/ TombstoneAdjacency(s) PROVE Good
  <2>1. op'.name \in {"idle", "tombstone"}
    <3>1. CASE TombstoneSome(s)
      <4>1. PICK b, d, t : op' = [name |-> "tombstone", blk |-> b, dst |-> d, type |-> t]
        <5>1. CASE \E src, dst \in Vid, t \in EdgeTypes \cup {AnyType} :
                     TombstoneEdge(s, src, dst, t)
          BY <5>1 DEF TombstoneEdge
        <5>2. CASE \E v \in Vid : TombstoneVertex(s, v)
          BY <5>2, WholeFacts, TombstoneVertexPage
        <5>. QED BY <3>1, <5>1, <5>2 DEF TombstoneSome
      <4>. QED BY <4>1
    <3>2. CASE TombstoneAdjacency(s)
      <4>1. op \in [name : {"tombstone"}, blk : Link, dst : Vid \cup {AnyVid},
                    type : EdgeTypes \cup {AnyType}]
        BY <3>2, WholeFacts DEF TypeOK, Operation, Idle, TombstoneAdjacency
      <4>2. op' = Idle \/ op' = [op EXCEPT !.blk = page[op.blk].next]
        BY <3>2 DEF TombstoneAdjacency
      <4>. QED BY <4>1, <4>2 DEF Idle
    <3>. QED BY <1>6, <3>1, <3>2
  <2>2. CASE \E v \in Vid : TombstoneVertex(s, v)
    BY <2>1, <2>2, TombstoneVertexWhole
  <2>3. CASE \E src, dst \in Vid, t \in EdgeTypes \cup {AnyType} :
               TombstoneEdge(s, src, dst, t)
    BY <2>1, <2>3, TombstoneEdgeWhole
  <2>4. CASE TombstoneAdjacency(s)
    BY <2>1, <2>4, TombstoneAdjacencyWhole
  <2>. QED BY <1>6, <2>2, <2>3, <2>4 DEF TombstoneSome
<1>7. ~(FreezeStep(s) \/ \E horizon \in NormalXid : FreezeBegin(s, horizon)) \/ op'.name = "freeze"
  <2>1. ~FreezeStep(s)
    BY <1>2 DEF FreezeStep, FreezeVertexPage, FreezeDescend, FreezeAdjPage,
                FreezeRecordHorizon, FreezeRelstats, Freezing
  <2>2. (\E horizon \in NormalXid : FreezeBegin(s, horizon)) => op'.name = "freeze"
    BY DEF FreezeBegin
  <2>. QED BY <2>1, <2>2
<1>8. Good
  <2>1. CASE Session(s) /\ op'.name # "freeze"
    BY <2>1, <1>3, <1>4, <1>5, <1>6, <1>7, BatchType
       DEF Session, InsertSome, ContinueOperation
  <2>2. CASE \E src \in Vid, dsts \in Seq(Vid), t \in EdgeTypes : InsertEdges(s, src, dsts, t)
    BY <2>2, <1>5
  <2>. QED BY <2>1, <2>2
<1>. QED BY <1>1, <1>8 DEF WholeInv

-----------------------------------------------------------------------------
(* The groups of a dump, in order.                                         *)

LEMMA LeastGroup ==
  ASSUME NEW S, S \subseteq Nat \X Nat, S # {}
  PROVE  \E g \in S : \A h \in S : h # g => GroupOrder(g, h)
<1>. DEFINE firsts == {k \in Nat : \E h \in S : h[1] = k}
<1>1. \A h \in S : h[1] \in Nat /\ h[2] \in Nat /\ h = <<h[1], h[2]>>
  OBVIOUS
<1>2. firsts # {} /\ firsts \subseteq Nat
  BY <1>1
<1>3. PICK k \in firsts : \A j \in firsts : k <= j
  BY <1>2, LeastNat
<1>. DEFINE seconds == {j \in Nat : <<k, j>> \in S}
<1>4. seconds # {} /\ seconds \subseteq Nat
  BY <1>1, <1>3
<1>5. PICK j \in seconds : \A l \in seconds : j <= l
  BY <1>4, LeastNat
<1>6. ASSUME NEW h \in S, h # <<k, j>>
      PROVE  GroupOrder(<<k, j>>, h)
  <2>1. h[1] \in firsts /\ h[1] \in Nat /\ h[2] \in Nat /\ k \in Nat /\ j \in Nat
    BY <1>1, <1>3, <1>5
  <2>2. k <= h[1]
    BY <1>3, <2>1
  <2>3. CASE h[1] = k
    <3>1. h[2] \in seconds
      BY <1>1, <2>1, <2>3
    <3>2. j <= h[2] /\ j # h[2]
      BY <1>1, <1>5, <1>6, <2>3, <3>1
    <3>. QED BY <2>1, <2>3, <3>2 DEF GroupOrder
  <2>4. CASE h[1] # k
    BY <2>1, <2>2, <2>4 DEF GroupOrder
  <2>. QED BY <2>3, <2>4
<1>. QED BY <1>5, <1>6

Sorted(gs, n) == \A i, j \in 1..n : i < j => GroupOrder(gs[i], gs[j])

\* Every set of n groups can be put in order.
Sortable(n) ==
  \A S \in SUBSET (Nat \X Nat) :
    IsFiniteSet(S) /\ Cardinality(S) = n => \E gs \in [1..n -> S] : Sorted(gs, n)

LEMMA SortedExists ==
  ASSUME NEW S, S \subseteq Nat \X Nat, IsFiniteSet(S)
  PROVE  \E gs \in [1..Cardinality(S) -> S] : Sorted(gs, Cardinality(S))
<1>. DEFINE A == {n \in Nat : Sortable(n)}
<1>1. 0 \in A
  <2>1. Sortable(0)
    <3>. SUFFICES ASSUME NEW T \in SUBSET (Nat \X Nat), IsFiniteSet(T), Cardinality(T) = 0
                  PROVE  \E gs \in [1..0 -> T] : Sorted(gs, 0)
      BY DEF Sortable
    <3>. DEFINE none == [i \in 1..0 |-> i]
    <3>1. none \in [1..0 -> T]
      OBVIOUS
    <3>2. Sorted(none, 0)
      BY DEF Sorted
    <3>. HIDE DEF none
    <3>. QED BY <3>1, <3>2, Zenon
  <2>. QED BY <2>1
<1>2. ASSUME NEW n \in Nat, n \in A
      PROVE  n + 1 \in A
  <2>. SUFFICES ASSUME NEW T \in SUBSET (Nat \X Nat), IsFiniteSet(T), Cardinality(T) = n + 1
                PROVE  \E gs \in [1..(n + 1) -> T] : Sorted(gs, n + 1)
    BY DEF Sortable
  <2>1. T # {}
    BY FS_EmptySet
  <2>2. PICK g \in T : \A h \in T : h # g => GroupOrder(g, h)
    BY <2>1, LeastGroup
  <2>3. IsFiniteSet(T \ {g}) /\ Cardinality(T \ {g}) = n
    <3>1. g \in T
      BY <2>2
    <3>2. IsFiniteSet(T \ {g}) /\ Cardinality(T \ {g}) = Cardinality(T) - 1
      BY <3>1, FS_RemoveElement, Zenon
    <3>3. Cardinality(T) - 1 = n
      OBVIOUS
    <3>. QED BY <3>2, <3>3
  <2>4. PICK gs \in [1..n -> T \ {g}] : Sorted(gs, n)
    BY <1>2, <2>3 DEF Sortable
  <2>. DEFINE hs == [i \in 1..(n + 1) |-> IF i = 1 THEN g ELSE gs[i - 1]]
  <2>5. /\ hs[1] = g /\ \A i \in 2..(n + 1) : /\ i - 1 \in 1..n /\ hs[i] = gs[i - 1]
                                             /\ hs[i] \in T /\ hs[i] # g
    OBVIOUS
  <2>6. hs \in [1..(n + 1) -> T]
    <3>1. \A i \in 1..(n + 1) : hs[i] \in T
      BY <2>2, <2>5
    <3>. QED BY <3>1
  <2>7. ASSUME NEW i \in 1..(n + 1), NEW j \in 1..(n + 1), i < j
        PROVE  GroupOrder(hs[i], hs[j])
    <3>1. j \in 2..(n + 1)
      BY <2>7
    <3>2. CASE i = 1
      BY <2>2, <2>5, <3>1, <3>2
    <3>3. CASE i # 1
      <4>1. i \in 2..(n + 1) /\ i - 1 < j - 1
        BY <2>7, <3>3
      <4>. QED BY <2>4, <2>5, <3>1, <4>1 DEF Sorted
    <3>. QED BY <3>2, <3>3
  <2>. QED BY <2>6, <2>7 DEF Sorted
<1>. HIDE DEF A
<1>3. Nat \subseteq A
  BY <1>1, <1>2, NatSet
<1>4. Cardinality(S) \in Nat
  BY FS_CardinalityType
<1>5. Sortable(Cardinality(S))
  BY <1>3, <1>4 DEF A
<1>. QED BY <1>5 DEF Sortable

\* A list of all groups in order names each of them once.
LEMMA SortedNames ==
  ASSUME NEW S, S \subseteq Nat \X Nat, IsFiniteSet(S), NEW n, n = Cardinality(S),
         NEW gs \in [1..n -> S], Sorted(gs, n)
  PROVE  /\ n \in Nat
         /\ \A i, j \in 1..n : gs[i] = gs[j] => i = j
         /\ \A g \in S : \E i \in 1..n : gs[i] = g
<1>1. n \in Nat
  BY FS_CardinalityType
<1>2. \A g \in S : g[1] \in Nat /\ g[2] \in Nat
  OBVIOUS
<1>3. \A g \in S : ~GroupOrder(g, g)
  BY <1>2 DEF GroupOrder
<1>4. ASSUME NEW i \in 1..n, NEW j \in 1..n, gs[i] = gs[j]
      PROVE  i = j
  <2>1. gs[i] \in S
    OBVIOUS
  <2>2. ~(i < j) /\ ~(j < i)
    BY <1>3, <1>4, <2>1 DEF Sorted
  <2>. QED BY <1>1, <2>2
<1>5. gs \in Injection(1..n, S)
  BY <1>4, Fun_IsInj
<1>6. Cardinality(1..n) = n
  BY <1>1, FS_Interval
<1>7. gs \in Surjection(1..n, S)
  BY <1>5, <1>6, FS_Injection
<1>. QED BY <1>1, <1>4, <1>7, Fun_SurjectionProperties

-----------------------------------------------------------------------------
(* Where the destinations of an answer come from.                          *)

LEMMA EmissionIn ==
  ASSUME NEW ss \in Seq(EdgeSlot), NEW L, NEW D, \A i \in 1..Len(ss) : ss[i].dst \in D
  PROVE  Emission(ss, L) \in Seq(D)
<1>1. PICK f : EmitSteps(f, ss, L) /\ Emission(ss, L) = f[Len(ss)]
  BY EmissionIs
<1>2. Len(ss) \in Nat /\ \A i \in 1..Len(ss) : ss[i].dst \in D
  BY SlotDst
<1>. DEFINE A == {k \in Nat : k <= Len(ss) => f[k] \in Seq(D)}
<1>3. 0 \in A
  <2>1. f[0] = <<>> /\ <<>> \in Seq(D)
    BY <1>1 DEF EmitSteps
  <2>. QED BY <2>1
<1>4. ASSUME NEW k \in Nat, k \in A PROVE k + 1 \in A
  <2>. SUFFICES ASSUME k + 1 <= Len(ss) PROVE f[k + 1] \in Seq(D)
    OBVIOUS
  <2>1. k + 1 \in 1..Len(ss) /\ f[k] \in Seq(D) /\ (k + 1) - 1 = k
    BY <1>2, <1>4
  <2>2. f[k + 1] = IF k + 1 \in L THEN Append(f[k], ss[k + 1].dst) ELSE f[k]
    BY <1>1, <2>1 DEF EmitSteps
  <2>. QED BY <2>1, <2>2, <1>2
<1>5. Nat \subseteq A
  <2>. HIDE DEF A
  <2>. QED BY <1>3, <1>4, NatSet
<1>. QED BY <1>1, <1>2, <1>5

LEMMA EmittingIn ==
  ASSUME NEW pg \in Pages, Rising(pg), NEW L, NEW D,
         \A q \in Slots(pg) : SlotAt(pg, q).dst \in D
  PROVE  \A b \in Link : Emitting(pg, L, b) \in Seq(D)
<1>. DEFINE S == {b \in Block : Emitting(pg, L, b) \in Seq(D)}
<1>1. ASSUME NEW b \in Block, \A c \in Block : c > b => c \in S PROVE b \in S
  <2>1. pg[b].slots \in Seq(EdgeSlot) /\ pg[b].next \in Link
    BY PageFields
  <2>2. \A i \in 1..Len(pg[b].slots) : pg[b].slots[i].dst \in D
    <3>1. \A i \in DOMAIN pg[b].slots : <<b, i>> \in Slots(pg) /\ SlotAt(pg, <<b, i>>) = pg[b].slots[i]
      BY DEF Slots, SlotAt
    <3>2. DOMAIN pg[b].slots = 1..Len(pg[b].slots)
      BY <2>1
    <3>. QED BY <3>1, <3>2
  <2>3. Emission(pg[b].slots, On(pg, L, b)) \in Seq(D)
    BY <2>1, <2>2, EmissionIn
  <2>4. Emitting(pg, L, pg[b].next) \in Seq(D)
    <3>1. CASE pg[b].next = NoBlock
      <4>1. <<>> \in Seq(D)
        OBVIOUS
      <4>. QED BY <3>1, <4>1, EmittingSteps
    <3>2. CASE pg[b].next # NoBlock
      <4>1. pg[b].next \in Block /\ pg[b].next > b
        BY <2>1, <3>2 DEF Link, Rising
      <4>. QED BY <4>1, <1>1
    <3>. QED BY <3>1, <3>2
  <2>5. Emission(pg[b].slots, On(pg, L, b)) \o Emitting(pg, L, pg[b].next) \in Seq(D)
    BY <2>3, <2>4, ConcatProperties
  <2>. QED BY <2>5, EmittingSteps
<1>2. Block \subseteq S
  <2>. HIDE DEF S
  <2>. QED BY <1>1, BlockSet
<1>3. Emitting(pg, L, NoBlock) \in Seq(D)
  <2>1. <<>> \in Seq(D)
    OBVIOUS
  <2>. QED BY <2>1, EmittingSteps
<1>. QED BY <1>2, <1>3 DEF Link

-----------------------------------------------------------------------------
(* The script of a dump.                                                   *)

Given ==
  {g \in (0..(meta.nextVid - 1)) \X Registered : TypedReads(g[1], g[2]) # <<>>}

LEMMA GivenFinite ==
  ASSUME WholeInv, Registered = EdgeTypes
  PROVE  Given \subseteq Nat \X Nat /\ Given \subseteq Vid \X EdgeTypes /\ IsFiniteSet(Given)
<1>1. meta.nextVid \in Nat /\ 0..(meta.nextVid - 1) \subseteq Vid /\ Vid \subseteq Nat
  <2>1. meta.nextVid \in 0..MaxVid
    BY WholeFacts, StorePages DEF Meta
  <2>. QED BY <2>1, Constants DEF Vid
<1>2. EdgeTypes \subseteq Nat
  BY EdgeTypesAssumption
<1>3. /\ TypeOK /\ StoreShape /\ Rising(page) /\ page \in Pages
      /\ Orphans(page, committed, InvalidXid) = {}
  BY WholeFacts DEF NoOrphans
<1>4. Given \subseteq Nat \X Nat /\ Given \subseteq Vid \X EdgeTypes
  BY <1>1, <1>2 DEF Given
<1>5. ASSUME NEW g \in Given
      PROVE  \E q \in Slots(page) : SlotAt(page, q).src = g[1] /\ SlotAt(page, q).type = g[2]
  <2>1. g[1] \in Vid /\ g[2] \in EdgeTypes /\ TypedReads(g[1], g[2]) # <<>>
    BY <1>4 DEF Given
  <2>2. /\ TypedReads(g[1], g[2]) \in Seq(Vid)
        /\ Len(TypedReads(g[1], g[2]))
             = Cardinality(Leaving(page, committed, InvalidXid, g[1], g[2]))
    BY <1>3, <2>1, ReadsComplete DEF Complete
  <2>3. Len(TypedReads(g[1], g[2])) # 0
    BY <2>1, <2>2, EmptySeq
  <2>4. Leaving(page, committed, InvalidXid, g[1], g[2]) # {}
    BY <2>2, <2>3, FS_EmptySet
  <2>. QED BY <2>4 DEF Leaving, Chosen
<1>. DEFINE key == [q \in Slots(page) |-> <<SlotAt(page, q).src, SlotAt(page, q).type>>]
            Q   == {q \in Slots(page) : key[q] \in Given}
            f   == [q \in Q |-> key[q]]
<1>6. IsFiniteSet(Q)
  BY <1>3, SlotsFinite DEF StoreShape
<1>7. \A g \in Given : \E q \in Q : f[q] = g
  <2>. SUFFICES ASSUME NEW g \in Given PROVE \E q \in Q : f[q] = g
    OBVIOUS
  <2>1. PICK q \in Slots(page) : SlotAt(page, q).src = g[1] /\ SlotAt(page, q).type = g[2]
    BY <1>5
  <2>2. g = <<g[1], g[2]>>
    BY <1>4
  <2>3. key[q] = g
    BY <2>1, <2>2
  <2>. QED BY <2>1, <2>3
<1>. HIDE DEF key
<1>8. f \in [Q -> Given]
  OBVIOUS
<1>9. f \in Surjection(Q, Given)
  <2>. HIDE DEF f, Q
  <2>. QED BY <1>7, <1>8, Fun_IsSurj
<1>10. IsFiniteSet(Given)
  <2>. HIDE DEF f, Q
  <2>. QED BY <1>6, <1>9, FS_Surjection
<1>. QED BY <1>4, <1>10

\* The groups of a dump are those with an edge, each once.
LEMMA GroupsAre ==
  ASSUME WholeInv, Registered = EdgeTypes
  PROVE  \E n \in Nat :
           /\ Groups \in [1..n -> Given]
           /\ \A i, j \in 1..n : Groups[i] = Groups[j] => i = j
           /\ \A g \in Given : \E i \in 1..n : Groups[i] = g
<1>. DEFINE n == Cardinality(Given)
            Good(gs) == \A i, j \in 1..n : i < j => GroupOrder(gs[i], gs[j])
<1>1. Given \subseteq Nat \X Nat /\ IsFiniteSet(Given)
  BY GivenFinite
<1>2. \A gs : Sorted(gs, n) <=> Good(gs)
  BY DEF Sorted
<1>3. \E gs \in [1..n -> Given] : Good(gs)
  BY <1>1, <1>2, SortedExists
<1>4. Groups = CHOOSE gs \in [1..n -> Given] : Good(gs)
  BY DEF Groups, Given
<1>5. Groups \in [1..n -> Given] /\ Good(Groups)
  <2>. HIDE DEF Good
  <2>. QED BY <1>3, <1>4, Zenon
<1>6. Sorted(Groups, n)
  BY <1>2, <1>5
<1>7. n = Cardinality(Given)
  OBVIOUS
<1>. HIDE DEF Good, n
<1>8. /\ n \in Nat
      /\ \A i, j \in 1..n : Groups[i] = Groups[j] => i = j
      /\ \A g \in Given : \E i \in 1..n : Groups[i] = g
  BY <1>1, <1>5, <1>6, <1>7, SortedNames
<1>. QED BY <1>5, <1>8

Run == [src : Vid, type : EdgeTypes, dsts : Seq(Vid)]

\* A script has batches for some of the answers, whole and once each.
ScriptOf(script, reads) ==
  /\ script \in Seq(Run)
  /\ \A i \in 1..Len(script) :
       /\ script[i].dsts # <<>>
       /\ script[i].dsts = reads[<<script[i].src, script[i].type>>]
  /\ \A i, j \in 1..Len(script) :
       script[i].src = script[j].src /\ script[i].type = script[j].type => i = j

\* It has one for this answer.
Pending(script, v, t) ==
  \E i \in 1..Len(script) : script[i].src = v /\ script[i].type = t

\* It names vids below n only.
Within(script, n) ==
  \A i \in 1..Len(script) :
    /\ script[i].src < n
    /\ \A j \in DOMAIN script[i].dsts : script[i].dsts[j] < n

\* What gph_dump_edges writes.
Dumped ==
  [i \in DOMAIN Groups |->
     [src |-> Groups[i][1], type |-> Groups[i][2],
      dsts |-> Rows(Groups[i][1], Groups[i][2])]]

LEMMA ReadsWithin ==
  ASSUME WholeInv, NEW v \in Vid, NEW t \in EdgeTypes
  PROVE  /\ TypedReads(v, t) \in Seq(Vid)
         /\ \A j \in DOMAIN TypedReads(v, t) : TypedReads(v, t)[j] < meta.nextVid
<1>1. /\ TypeOK /\ StoreShape /\ Rising(page) /\ page \in Pages /\ TargetsGiven
      /\ Orphans(page, committed, InvalidXid) = {}
  BY WholeFacts DEF NoOrphans
<1>2. TypedReads(v, t) \in Seq(Vid)
  BY <1>1, ReadsComplete DEF Complete
<1>. DEFINE D == {w \in Vid : w < meta.nextVid}
<1>3. \A q \in Slots(page) : SlotAt(page, q).dst \in D
  BY <1>1, SlotLeaves DEF StoreShape, TargetsGiven, EdgeSlot
<1>4. TypedReads(v, t) \in Seq(D)
  <2>1. CASE \E p \in Positions(page) : RecordAt(page, p).vid = v
    <3>1. PICK p \in Positions(page) : RecordAt(page, p).vid = v
      BY <2>1
    <3>2. TypedReads(v, t) = ReadAt(page, committed, InvalidXid, p, t)
      BY <3>1, <1>1, TypedReadsIs
    <3>3. RecordAt(page, p).head \in Link
      BY <1>1, RecordType DEF VertexRecord
    <3>. HIDE DEF D
    <3>. QED BY <1>1, <1>3, <3>2, <3>3, EmittingIn DEF ReadAt
  <2>2. CASE \A p \in Positions(page) : RecordAt(page, p).vid # v
    <3>1. TypedReads(v, t) = <<>>
      BY <2>2, <1>1, TypedReadsIs
    <3>2. <<>> \in Seq(D)
      OBVIOUS
    <3>. QED BY <3>1, <3>2
  <2>. QED BY <2>1, <2>2
<1>5. \A j \in DOMAIN TypedReads(v, t) : TypedReads(v, t)[j] \in D
  <2>. HIDE DEF D
  <2>. QED BY <1>4, ElementOfSeq
<1>. QED BY <1>2, <1>5

LEMMA DumpedScript ==
  ASSUME WholeInv, Registered = EdgeTypes
  PROVE  /\ ScriptOf(Dumped, Reads) /\ Within(Dumped, meta.nextVid)
         /\ \A v \in Vid, t \in EdgeTypes :
              ~Pending(Dumped, v, t) => Reads[<<v, t>>] = <<>>
<1>1. PICK n \in Nat :
        /\ Groups \in [1..n -> Given]
        /\ \A i, j \in 1..n : Groups[i] = Groups[j] => i = j
        /\ \A g \in Given : \E i \in 1..n : Groups[i] = g
  BY GroupsAre
<1>2. /\ TypeOK /\ StoreShape /\ Rising(page) /\ page \in Pages
      /\ Orphans(page, committed, InvalidXid) = {}
  BY WholeFacts DEF NoOrphans
<1>3. \A v \in Vid, t \in EdgeTypes : Reads[<<v, t>>] = TypedReads(v, t)
  BY <1>2, ReadsComplete
<1>. DEFINE sc == Dumped
<1>4. ASSUME NEW i \in 1..n
      PROVE  /\ Groups[i] \in Given
             /\ Groups[i] = <<sc[i].src, sc[i].type>>
             /\ sc[i].src \in Vid /\ sc[i].type \in EdgeTypes /\ sc[i].src < meta.nextVid
             /\ sc[i].dsts = TypedReads(sc[i].src, sc[i].type) /\ sc[i].dsts # <<>>
             /\ sc[i] = [src |-> sc[i].src, type |-> sc[i].type, dsts |-> sc[i].dsts]
  <2>1. sc[i] = [src |-> Groups[i][1], type |-> Groups[i][2],
                 dsts |-> TypedReads(Groups[i][1], Groups[i][2])]
    BY <1>1 DEF Dumped, Rows
  <2>. DEFINE g == Groups[i]
  <2>2. g \in Given /\ g \in Vid \X EdgeTypes /\ Vid \subseteq Nat
    BY <1>1, GivenFinite, Constants DEF Vid
  <2>. HIDE DEF g
  <2>3. /\ g = <<g[1], g[2]>> /\ g[1] \in Vid /\ g[2] \in EdgeTypes
        /\ g[1] \in 0..(meta.nextVid - 1) /\ TypedReads(g[1], g[2]) # <<>>
    BY <2>2 DEF Given
  <2>4. g[1] < meta.nextVid
    <3>1. meta.nextVid \in Nat
      BY <1>2, StorePages
    <3>. QED BY <2>3, <3>1
  <2>. QED BY <2>1, <2>2, <2>3, <2>4 DEF g
<1>5. DOMAIN sc = 1..n
  BY <1>1 DEF Dumped
<1>6. sc = [i \in 1..n |-> sc[i]]
  BY <1>1 DEF Dumped
<1>. HIDE DEF sc
<1>7. ASSUME NEW i \in 1..n
      PROVE  /\ sc[i] \in Run
             /\ \A j \in DOMAIN sc[i].dsts : sc[i].dsts[j] < meta.nextVid
  <2>1. /\ sc[i].dsts \in Seq(Vid)
        /\ \A j \in DOMAIN sc[i].dsts : sc[i].dsts[j] < meta.nextVid
    BY <1>4, ReadsWithin
  <2>2. sc[i] = [src |-> sc[i].src, type |-> sc[i].type, dsts |-> sc[i].dsts]
    BY <1>4
  <2>3. [src |-> sc[i].src, type |-> sc[i].type, dsts |-> sc[i].dsts] \in Run
    BY <1>4, <2>1 DEF Run
  <2>. QED BY <2>1, <2>2, <2>3
<1>8. sc \in Seq(Run) /\ Len(sc) = n
  <2>1. [i \in 1..n |-> sc[i]] \in [1..n -> Run]
    BY <1>7
  <2>2. sc \in [1..n -> Run]
    BY <1>6, <2>1
  <2>. HIDE DEF sc
  <2>. QED BY <2>2
<1>9. ScriptOf(sc, Reads)
  <2>1. \A i \in 1..n : /\ sc[i].dsts # <<>>
                        /\ sc[i].dsts = Reads[<<sc[i].src, sc[i].type>>]
    BY <1>3, <1>4
  <2>2. ASSUME NEW i \in 1..n, NEW j \in 1..n,
               sc[i].src = sc[j].src, sc[i].type = sc[j].type
        PROVE  i = j
    <3>1. Groups[i] = <<sc[i].src, sc[i].type>> /\ Groups[j] = <<sc[j].src, sc[j].type>>
      BY <1>4
    <3>2. Groups[i] = Groups[j]
      BY <2>2, <3>1, Zenon
    <3>. QED BY <1>1, <3>2, Zenon
  <2>. QED BY <2>1, <2>2, <1>8 DEF ScriptOf
<1>10. Within(sc, meta.nextVid)
  BY <1>4, <1>7, <1>8 DEF Within
<1>11. ASSUME NEW v \in Vid, NEW t \in EdgeTypes, ~Pending(sc, v, t)
       PROVE  Reads[<<v, t>>] = <<>>
  <2>. SUFFICES ASSUME TypedReads(v, t) # <<>> PROVE FALSE
    BY <1>3
  <2>1. v \in 0..(meta.nextVid - 1)
    <3>1. PICK p \in Positions(page) : RecordAt(page, p).vid = v
      BY <1>2, TypedReadsIs
    <3>. QED BY <3>1, <1>2 DEF StoreShape, Shape, VidsOnce
  <2>2. <<v, t>> \in Given
    BY <2>1 DEF Given
  <2>3. PICK i \in 1..n : Groups[i] = <<v, t>>
    BY <1>1, <2>2
  <2>4. sc[i].src = v /\ sc[i].type = t
    <3>1. Groups[i] = <<sc[i].src, sc[i].type>>
      BY <1>4
    <3>2. <<sc[i].src, sc[i].type>> = <<v, t>>
      BY <2>3, <3>1, Zenon
    <3>. QED BY <3>2
  <2>. QED BY <1>8, <1>11, <2>3, <2>4 DEF Pending
<1>. QED BY <1>9, <1>10, <1>11 DEF sc

-----------------------------------------------------------------------------
(* The replay.                                                             *)

LEMMA DivMod ==
  ASSUME NEW V \in Nat \ {0}, NEW k \in Nat, NEW j \in 0..(V - 1)
  PROVE  (k * V + j) \div V = k /\ (k * V + j) % V = j
OBVIOUS

\* The edges of type t, live or not.
OfType(pg, t) == {q \in Slots(pg) : SlotAt(pg, q).type = t}

\* A walk of v's chain gives a, when only the type is looked at.
Answers(pg, v, t, a) ==
  /\ \A p \in Positions(pg) : RecordAt(pg, p).vid = v =>
       Emitting(pg, OfType(pg, t), RecordAt(pg, p).head) = a
  /\ (\A p \in Positions(pg) : RecordAt(pg, p).vid # v) => a = <<>>

LEMMA OfTypeOn ==
  ASSUME NEW pg \in Pages, NEW t, NEW b \in Block
  PROVE  On(pg, OfType(pg, t), b) = {i \in DOMAIN pg[b].slots : pg[b].slots[i].type = t}
<1>1. ASSUME NEW i \in DOMAIN pg[b].slots
      PROVE  <<b, i>> \in OfType(pg, t) <=> pg[b].slots[i].type = t
  BY SlotIn DEF OfType
<1>. DEFINE D == DOMAIN pg[b].slots
            L == OfType(pg, t)
            A(i) == <<b, i>> \in L
            B(i) == pg[b].slots[i].type = t
<1>2. \A i \in D : A(i) <=> B(i)
  BY <1>1
<1>3. On(pg, L, b) = {i \in D : A(i)}
  BY DEF On
<1>4. {i \in D : A(i)} = {i \in D : B(i)}
  <2>1. ASSUME NEW i, i \in {j \in D : A(j)} PROVE i \in {j \in D : B(j)}
    BY <1>2, <2>1, Zenon
  <2>2. ASSUME NEW i, i \in {j \in D : B(j)} PROVE i \in {j \in D : A(j)}
    BY <1>2, <2>2, Zenon
  <2>. QED BY <2>1, <2>2, Zenon
<1>. QED BY <1>3, <1>4

LEMMA SlotsAlike ==
  ASSUME NEW pg \in Pages, NEW qg \in Pages, NEW t, NEW b \in Block,
         qg[b].slots = pg[b].slots
  PROVE  Emission(qg[b].slots, On(qg, OfType(qg, t), b))
           = Emission(pg[b].slots, On(pg, OfType(pg, t), b))
<1>1. /\ On(qg, OfType(qg, t), b) = {i \in DOMAIN qg[b].slots : qg[b].slots[i].type = t}
      /\ On(pg, OfType(pg, t), b) = {i \in DOMAIN pg[b].slots : pg[b].slots[i].type = t}
  BY OfTypeOn
<1>2. On(qg, OfType(qg, t), b) = On(pg, OfType(pg, t), b)
  BY <1>1
<1>. QED BY <1>2

\* A chain that is left alone answers as it did.
LEMMA ChainKept ==
  ASSUME NEW pg \in Pages, NEW qg \in Pages, Rising(pg), Rising(qg), NEW t,
         NEW v, NEW head, NEW tail, ChainShape(pg, v, head, tail),
         \A b \in OwnedPages(pg, v) :
           qg[b].next = pg[b].next /\ qg[b].slots = pg[b].slots
  PROVE  Emitting(qg, OfType(qg, t), head) = Emitting(pg, OfType(pg, t), head)
<1>. DEFINE S == OwnedPages(pg, v)
<1>1. S \in SUBSET Block /\ Closed(Nexts(pg), S) /\ head \in S \cup {NoBlock}
  BY NextsType, ChainClosed DEF ChainShape
<1>2. CASE head = NoBlock
  BY <1>2, EmittingSteps
<1>3. CASE head \in S
  <2>1. Agrees(pg, OfType(pg, t), qg, OfType(qg, t), S)
    BY <1>1, SlotsAlike DEF Agrees
  <2>. HIDE DEF S
  <2>. QED BY <1>1, <1>3, <2>1, EmittingSame
<1>. QED BY <1>1, <1>2, <1>3

LEMMA VertexAnswers ==
  ASSUME NEW pg \in Pages, NEW qg \in Pages, Rising(pg), Rising(qg),
         NEW e, NEW first, NEW last, NEW n, Shape(pg, e, first, last, n),
         NEW vr, RecordAdded(pg, qg, vr), vr.vid = n, vr.head = NoBlock, n \in Nat,
         \A b \in Block : pg[b].kind = "adj" => qg[b] = pg[b],
         NEW v, NEW t, NEW a, Answers(pg, v, t, a)
  PROVE  Answers(qg, v, t, a)
<1>1. PICK np : /\ np \notin Positions(pg)
                /\ Positions(qg) = Positions(pg) \cup {np}
                /\ RecordAt(qg, np) = vr
  BY DEF RecordAdded
<1>2. \A p \in Positions(pg) : RecordAt(qg, p) = RecordAt(pg, p)
  BY DEF RecordAdded
<1>3. ASSUME NEW p \in Positions(pg), RecordAt(pg, p).vid = v
      PROVE  Emitting(qg, OfType(qg, t), RecordAt(qg, p).head) = a
  <2>1. ChainShape(pg, RecordAt(pg, p).vid, RecordAt(pg, p).head, RecordAt(pg, p).tail)
    BY DEF Shape, AdjacencyShape
  <2>2. \A b \in OwnedPages(pg, RecordAt(pg, p).vid) :
          qg[b].next = pg[b].next /\ qg[b].slots = pg[b].slots
    BY DEF OwnedPages
  <2>3. Emitting(qg, OfType(qg, t), RecordAt(pg, p).head)
          = Emitting(pg, OfType(pg, t), RecordAt(pg, p).head)
    BY <2>1, <2>2, ChainKept
  <2>. QED BY <1>2, <1>3, <2>3 DEF Answers
<1>4. ASSUME v = n
      PROVE  Emitting(qg, OfType(qg, t), RecordAt(qg, np).head) = a
  <2>1. \A p \in Positions(pg) : RecordAt(pg, p).vid # v
    BY <1>4 DEF Shape, VidsOnce
  <2>2. a = <<>>
    BY <2>1 DEF Answers
  <2>. QED BY <1>1, <2>2, EmittingSteps
<1>5. ASSUME \A p \in Positions(qg) : RecordAt(qg, p).vid # v PROVE a = <<>>
  BY <1>1, <1>2, <1>5 DEF Answers
<1>. QED BY <1>1, <1>2, <1>3, <1>4, <1>5 DEF Answers

\* The slots ss are d, from src and of type ty.
BatchOf(ss, src, ty, d) ==
  /\ ss \in Seq(EdgeSlot) /\ d \in Seq(Vid) /\ Len(d) = Len(ss)
  /\ \A i \in 1..Len(ss) : ss[i].src = src /\ ss[i].type = ty /\ ss[i].dst = d[i]

\* What of it is of type t.
Share(t, ty, d) == IF t = ty THEN d ELSE <<>>

LEMMA BatchEmission ==
  ASSUME NEW ss, NEW src, NEW ty, NEW d, BatchOf(ss, src, ty, d), NEW t, NEW M,
         \A i \in 1..Len(ss) : i \in M <=> ss[i].type = t
  PROVE  Emission(ss, M) = Share(t, ty, d) /\ Share(t, ty, d) \in Seq(Vid)
<1>1. CASE t = ty
  <2>1. \A i \in 1..Len(ss) : i \in M /\ ss[i].dst = d[i]
    BY <1>1 DEF BatchOf
  <2>. QED BY <1>1, <2>1, EmissionAll DEF BatchOf, Share
<1>2. CASE t # ty
  <2>1. \A i \in 1..Len(ss) : i \notin M
    BY <1>2 DEF BatchOf
  <2>2. Emission(ss, M) = <<>>
    BY <2>1, EmissionNone DEF BatchOf
  <2>3. <<>> \in Seq(Vid)
    OBVIOUS
  <2>. QED BY <1>2, <2>2, <2>3 DEF Share
<1>. QED BY <1>1, <1>2

\* The page b, and the walk from b, emit more behind what they did.
Lengthened(pg, L, qg, M, b, more) ==
  Emission(qg[b].slots, On(qg, M, b)) = Emission(pg[b].slots, On(pg, L, b)) \o more

\* A page that gets the batch behind its slots.
LEMMA GrownEmission ==
  ASSUME NEW pg \in Pages, NEW qg \in Pages, NEW b \in Block,
         NEW ss, NEW src, NEW ty, NEW d, BatchOf(ss, src, ty, d), NEW t,
         qg[b].slots = pg[b].slots \o ss
  PROVE  Lengthened(pg, OfType(pg, t), qg, OfType(qg, t), b, Share(t, ty, d))
<1>. DEFINE old == pg[b].slots
            L   == On(pg, OfType(pg, t), b)
            N   == On(qg, OfType(qg, t), b)
            M   == {i \in 1..Len(ss) : ss[i].type = t}
            cat == old \o ss
<1>1. /\ old \in Seq(EdgeSlot) /\ ss \in Seq(EdgeSlot)
      /\ Len(old) \in Nat /\ Len(ss) \in Nat /\ DOMAIN old = 1..Len(old)
  BY PageFields, LenProperties DEF BatchOf
<1>2. /\ cat \in Seq(EdgeSlot) /\ Len(cat) = Len(old) + Len(ss)
      /\ \A i \in 1..(Len(old) + Len(ss)) :
           cat[i] = IF i <= Len(old) THEN old[i] ELSE ss[i - Len(old)]
  BY <1>1, ConcatProperties
<1>3. DOMAIN cat = 1..(Len(old) + Len(ss))
  BY <1>2, LenProperties
<1>4. /\ L = {i \in DOMAIN old : old[i].type = t}
      /\ N = {i \in DOMAIN cat : cat[i].type = t}
  <2>1. cat = qg[b].slots
    OBVIOUS
  <2>2. L = {i \in DOMAIN old : old[i].type = t}
    BY OfTypeOn
  <2>3. N = {i \in DOMAIN qg[b].slots : qg[b].slots[i].type = t}
    BY OfTypeOn
  <2>. HIDE DEF old, L, N, cat
  <2>. QED BY <2>1, <2>2, <2>3
<1>5. Emission(ss, M) = Share(t, ty, d)
  <2>1. \A i \in 1..Len(ss) : i \in M <=> ss[i].type = t
    OBVIOUS
  <2>. HIDE DEF M
  <2>. QED BY <2>1, BatchEmission
<1>. HIDE DEF old, L, N, cat
<1>6. \A i \in 1..Len(ss) : Len(old) + i \in N <=> i \in M
  <2>. SUFFICES ASSUME NEW i \in 1..Len(ss) PROVE Len(old) + i \in N <=> i \in M
    OBVIOUS
  <2>. DEFINE k == Len(old)
              l == Len(ss)
  <2>1. k \in Nat /\ l \in Nat /\ i \in 1..l
    BY <1>1
  <2>. HIDE DEF k, l
  <2>2. k + i \in 1..(k + l) /\ ~(k + i <= k) /\ (k + i) - k = i
    BY <2>1
  <2>3. cat[k + i] = ss[i] /\ k + i \in DOMAIN cat
    BY <1>2, <1>3, <2>2 DEF k, l
  <2>. QED BY <1>4, <2>3 DEF k
<1>7. Emission(cat, N) = Emission(old, N) \o Emission(ss, M)
  <2>. HIDE DEF M
  <2>. QED BY <1>1, <1>6, EmissionConcat DEF cat
<1>8. Emission(old, N) = Emission(old, L)
  <2>1. \A i \in DOMAIN old : i \in L <=> i \in N
    <3>. SUFFICES ASSUME NEW i \in DOMAIN old PROVE i \in L <=> i \in N
      OBVIOUS
    <3>. DEFINE k == Len(old)
                l == Len(ss)
    <3>1. k \in Nat /\ l \in Nat /\ i \in 1..k
      BY <1>1
    <3>. HIDE DEF k, l
    <3>2. i \in 1..(k + l) /\ i <= k
      BY <3>1
    <3>3. cat[i] = old[i] /\ i \in DOMAIN cat
      BY <1>2, <1>3, <3>2 DEF k, l
    <3>. QED BY <1>4, <3>3
  <2>. QED BY <1>1, <2>1, EmissionSame
<1>. QED BY <1>5, <1>7, <1>8 DEF old, cat, L, N, Lengthened

Extends(pg, L, qg, M, S, more) ==
  /\ pg \in Pages /\ qg \in Pages /\ Rising(pg) /\ Rising(qg) /\ more \in Seq(Vid)
  /\ S \subseteq Block /\ Closed(Nexts(pg), S) /\ Continues(pg, L, qg, M, S, more)

Extended(pg, L, qg, M, b, more) == Emitting(qg, M, b) = Emitting(pg, L, b) \o more

LEMMA WalkExtended ==
  ASSUME NEW pg, NEW qg, NEW L, NEW M, NEW S, NEW more,
         Extends(pg, L, qg, M, S, more), NEW b \in S
  PROVE  Extended(pg, L, qg, M, b, more)
BY EmittingExtended DEF Extends, Extended

\* The answer of v once the batch d of type ty has been added for src.
Longer(a, v, t, src, ty, d) == IF v = src THEN a \o Share(t, ty, d) ELSE a

\* The chains of the other vertices, and the ends of the chain of src.
LEMMA OthersAnswer ==
  ASSUME NEW pg \in Pages, NEW qg \in Pages, Rising(pg), Rising(qg),
         NEW e, NEW first, NEW last, NEW n, Shape(pg, e, first, last, n),
         NEW p \in Positions(pg), NEW src, src = RecordAt(pg, p).vid,
         NEW ty, NEW d, NEW v, NEW t, NEW a, Answers(pg, v, t, a),
         Positions(qg) = Positions(pg),
         \A q \in Positions(pg) : RecordAt(qg, q).vid = RecordAt(pg, q).vid,
         \A q \in Positions(pg) : q # p => RecordAt(qg, q).head = RecordAt(pg, q).head,
         \A q \in Positions(pg) : q # p =>
           \A b \in OwnedPages(pg, RecordAt(pg, q).vid) :
             qg[b].next = pg[b].next /\ qg[b].slots = pg[b].slots,
         v = src => Emitting(qg, OfType(qg, t), RecordAt(qg, p).head)
                      = Emitting(pg, OfType(pg, t), RecordAt(pg, p).head) \o Share(t, ty, d)
  PROVE  Answers(qg, v, t, Longer(a, v, t, src, ty, d))
<1>1. CASE v = src
  <2>1. \A q \in Positions(pg) : RecordAt(pg, q).vid = v => q = p
    BY <1>1 DEF Shape, VidsOnce
  <2>2. Emitting(pg, OfType(pg, t), RecordAt(pg, p).head) = a
    BY <1>1 DEF Answers
  <2>3. Longer(a, v, t, src, ty, d) = a \o Share(t, ty, d)
    BY <1>1 DEF Longer
  <2>4. Emitting(qg, OfType(qg, t), RecordAt(qg, p).head) = Longer(a, v, t, src, ty, d)
    BY <1>1, <2>2, <2>3
  <2>5. RecordAt(qg, p).vid = v
    BY <1>1
  <2>. QED BY <2>1, <2>4, <2>5 DEF Answers
<1>2. CASE v # src
  <2>1. Longer(a, v, t, src, ty, d) = a
    BY <1>2 DEF Longer
  <2>2. ASSUME NEW q \in Positions(pg), RecordAt(pg, q).vid = v
        PROVE  Emitting(qg, OfType(qg, t), RecordAt(qg, q).head) = a
    <3>1. q # p
      BY <1>2, <2>2
    <3>2. ChainShape(pg, RecordAt(pg, q).vid, RecordAt(pg, q).head, RecordAt(pg, q).tail)
      BY DEF Shape, AdjacencyShape
    <3>3. Emitting(qg, OfType(qg, t), RecordAt(pg, q).head)
            = Emitting(pg, OfType(pg, t), RecordAt(pg, q).head)
      BY <3>1, <3>2, ChainKept
    <3>. QED BY <2>2, <3>1, <3>3 DEF Answers
  <2>. QED BY <2>1, <2>2 DEF Answers
<1>. QED BY <1>1, <1>2

LEMMA GrownAnswers ==
  ASSUME NEW pg \in Pages, NEW qg \in Pages, Rising(pg), Rising(qg),
         NEW e, NEW first, NEW last, NEW n, Shape(pg, e, first, last, n),
         NEW p \in Positions(pg), NEW src, src = RecordAt(pg, p).vid,
         NEW tail \in Block, tail = RecordAt(pg, p).tail,
         NEW ss, NEW ty, NEW d, BatchOf(ss, src, ty, d), SlotsGrown(pg, qg, tail, ss),
         NEW v, NEW t, NEW a, Answers(pg, v, t, a)
  PROVE  Answers(qg, v, t, Longer(a, v, t, src, ty, d))
<1>. DEFINE S == OwnedPages(pg, src)
            h == RecordAt(pg, p).head
            L == OfType(pg, t)
            M == OfType(qg, t)
            more == Share(t, ty, d)
<1>1. /\ qg[tail].slots = pg[tail].slots \o ss
      /\ \A b \in Block : b # tail => qg[b] = pg[b]
      /\ \A b \in Block : qg[b].next = pg[b].next /\ qg[b].vertices = pg[b].vertices
  BY DEF SlotsGrown
<1>2. /\ ChainShape(pg, src, h, tail)
      /\ S \in SUBSET Block /\ Closed(Nexts(pg), S) /\ h \in S \cup {NoBlock}
      /\ tail \in S /\ {b \in S : Nexts(pg)[b] = NoBlock} = {tail}
      /\ (h = NoBlock => tail = NoBlock)
  <2>1. ChainShape(pg, src, h, tail)
    BY DEF Shape, AdjacencyShape
  <2>2. IsChain(Nexts(pg), S, h, tail)
    BY <2>1 DEF ChainShape
  <2>3. {b \in S : Nexts(pg)[b] = NoBlock} = {tail} /\ (h = NoBlock => tail = NoBlock)
    BY <2>2, BlockType DEF IsChain
  <2>. QED BY <2>1, <2>2, <2>3, NextsType, ChainClosed
<1>3. Positions(qg) = Positions(pg) /\ \A q \in Positions(pg) : RecordAt(qg, q) = RecordAt(pg, q)
  <2>1. Positions(qg) = Positions(pg)
    BY <1>1, SamePositions
  <2>. QED BY <2>1, <1>1, RecordType DEF RecordAt
<1>4. more \in Seq(Vid)
  <2>1. \A i \in 1..Len(ss) : i \in {j \in 1..Len(ss) : ss[j].type = t} <=> ss[i].type = t
    OBVIOUS
  <2>. QED BY <2>1, BatchEmission
<1>5. h \in S
  BY <1>2, BlockType
<1>. HIDE DEF S, h, L, M, more
<1>6. Emitting(qg, M, h) = Emitting(pg, L, h) \o more
  <2>1. Continues(pg, L, qg, M, S, more)
    <3>. SUFFICES ASSUME NEW b \in S
                  PROVE  /\ pg[b].next # NoBlock =>
                              /\ qg[b].next = pg[b].next
                              /\ Emission(qg[b].slots, On(qg, M, b))
                                   = Emission(pg[b].slots, On(pg, L, b))
                         /\ pg[b].next = NoBlock =>
                              Emitting(qg, M, b) = Emission(pg[b].slots, On(pg, L, b)) \o more
      BY DEF Continues
    <3>1. b \in Block /\ Nexts(pg)[b] = pg[b].next
      BY <1>2, NextsType
    <3>2. ASSUME pg[b].next # NoBlock
          PROVE  Emission(qg[b].slots, On(qg, M, b)) = Emission(pg[b].slots, On(pg, L, b))
      <4>1. b # tail
        BY <1>2, <3>1, <3>2
      <4>. QED BY <1>1, <3>1, <4>1, SlotsAlike DEF L, M
    <3>3. ASSUME pg[b].next = NoBlock
          PROVE  Emitting(qg, M, b) = Emission(pg[b].slots, On(pg, L, b)) \o more
      <4>1. b = tail
        BY <1>2, <3>1, <3>3
      <4>2. Emission(qg[b].slots, On(qg, M, b)) = Emission(pg[b].slots, On(pg, L, b)) \o more
        <5>1. Emission(qg[tail].slots, On(qg, M, tail))
                = Emission(pg[tail].slots, On(pg, L, tail)) \o more
          <6>1. qg[tail].slots = pg[tail].slots \o ss
            BY <1>1
          <6>2. Lengthened(pg, OfType(pg, t), qg, OfType(qg, t), tail, Share(t, ty, d))
            BY <6>1, GrownEmission
          <6>. QED BY <6>2 DEF L, M, more, Lengthened
        <5>. QED BY <4>1, <5>1
      <4>3. Emitting(qg, M, b) = Emission(qg[b].slots, On(qg, M, b)) \o <<>>
        <5>1. qg[b].next = NoBlock
          BY <1>1, <3>1, <3>3
        <5>. QED BY <3>1, <5>1, EmittingSteps
      <4>4. Emission(qg[b].slots, On(qg, M, b)) \in Seq(Vid)
        BY <3>1, PageFields
      <4>. QED BY <4>2, <4>3, <4>4, ConcatEmptySeq
    <3>. QED BY <1>1, <3>1, <3>2, <3>3
  <2>. QED BY <1>2, <1>4, <1>5, <2>1, EmittingExtended
<1>7. ASSUME NEW q \in Positions(pg), q # p, NEW b \in OwnedPages(pg, RecordAt(pg, q).vid)
      PROVE  qg[b].next = pg[b].next /\ qg[b].slots = pg[b].slots
  <2>1. RecordAt(pg, q).vid # src
    BY <1>7 DEF Shape, VidsOnce
  <2>2. b \in Block /\ b \notin S
    BY <2>1 DEF OwnedPages, S
  <2>3. b # tail
    BY <1>2, <2>2
  <2>. QED BY <1>1, <2>2, <2>3
<1>8. v = src => Emitting(qg, OfType(qg, t), RecordAt(qg, p).head)
                   = Emitting(pg, OfType(pg, t), RecordAt(pg, p).head) \o Share(t, ty, d)
  BY <1>3, <1>6 DEF h, L, M, more
<1>. QED BY <1>3, <1>7, <1>8, OthersAnswer

LEMMA PagedAnswers ==
  ASSUME NEW pg \in Pages, NEW qg \in Pages, Rising(pg), Rising(qg),
         NEW e \in Nat, NEW first, NEW last, NEW n, Shape(pg, e, first, last, n),
         NEW p \in Positions(pg), NEW src, src = RecordAt(pg, p).vid,
         NEW r, r = RecordAt(pg, p), NEW new \in Block, new = e + 1,
         NEW ss, NEW ty, NEW d, BatchOf(ss, src, ty, d),
         PagedChanges(pg, qg, p, r, src, new, ss),
         NEW v, NEW t, NEW a, Answers(pg, v, t, a)
  PROVE  Answers(qg, v, t, Longer(a, v, t, src, ty, d))
<1>. DEFINE S == OwnedPages(pg, src)
            h == r.head
            tail == r.tail
            L == OfType(pg, t)
            M == OfType(qg, t)
            more == Share(t, ty, d)
<1>1. /\ qg[new] = NewAdjPage(src, ss) /\ new # tail
      /\ \A b \in Block : b # new =>
           /\ qg[b].slots = pg[b].slots
           /\ DOMAIN qg[b].vertices = DOMAIN pg[b].vertices
           /\ qg[b].next = IF b = tail THEN new ELSE pg[b].next
      /\ \A q \in Positions(pg) : q # p => RecordAt(qg, q) = RecordAt(pg, q)
      /\ RecordAt(qg, p) = Reanchored(r, new)
  BY DEF PagedChanges
<1>2. /\ S \in SUBSET Block /\ Closed(Nexts(pg), S) /\ h \in S \cup {NoBlock}
      /\ {b \in S : Nexts(pg)[b] = NoBlock} = {tail} \ {NoBlock}
      /\ (h = NoBlock <=> tail = NoBlock)
  <2>1. ChainShape(pg, src, h, tail)
    BY DEF Shape, AdjacencyShape
  <2>2. IsChain(Nexts(pg), S, h, tail)
    BY <2>1 DEF ChainShape
  <2>3. /\ {b \in S : Nexts(pg)[b] = NoBlock} = {tail} \ {NoBlock}
        /\ (h = NoBlock <=> tail = NoBlock)
    BY <2>2 DEF IsChain
  <2>. QED BY <2>2, <2>3, NextsType, ChainClosed
<1>3. /\ r \in VertexRecord /\ RecordAt(qg, p).vid = r.vid
      /\ RecordAt(qg, p).head = IF h = NoBlock THEN new ELSE h
  <2>1. r \in VertexRecord
    BY RecordType
  <2>. QED BY <2>1, <1>1, ReanchoredRecord
<1>4. /\ pg[new].kind = "zero" /\ DOMAIN pg[new].vertices = {}
      /\ DOMAIN qg[new].vertices = {} /\ qg[new].next = NoBlock /\ qg[new].slots = ss
  <2>1. Extent(pg, e)
    BY DEF Shape
  <2>. QED BY <1>1, <2>1, NewBlock, NewPages
<1>5. Positions(qg) = Positions(pg)
  <2>1. \A b \in Block : DOMAIN qg[b].vertices = DOMAIN pg[b].vertices
    BY <1>1, <1>4
  <2>. QED BY <2>1, SamePositions
<1>6. new \notin S /\ \A q \in Positions(pg) : new \notin OwnedPages(pg, RecordAt(pg, q).vid)
  BY <1>4 DEF OwnedPages
<1>7. more \in Seq(Vid) /\ Emission(ss, On(qg, M, new)) = more
  <2>1. ss \in Seq(EdgeSlot)
    BY DEF BatchOf
  <2>2. On(qg, M, new) = {i \in DOMAIN qg[new].slots : qg[new].slots[i].type = t}
    BY OfTypeOn
  <2>. DEFINE N == On(qg, M, new)
  <2>3. \A i \in 1..Len(ss) : i \in N <=> ss[i].type = t
    BY <1>4, <2>1, <2>2, LenProperties
  <2>. HIDE DEF N
  <2>4. Emission(ss, N) = Share(t, ty, d) /\ Share(t, ty, d) \in Seq(Vid)
    BY <2>3, BatchEmission
  <2>. QED BY <2>4 DEF N
<1>8. Emitting(qg, M, new) = more
  <2>1. /\ qg[new].next = NoBlock /\ qg[new].slots = ss
        /\ qg \in Pages /\ Rising(qg) /\ new \in Block
    BY <1>4
  <2>. HIDE DEF M
  <2>2. Emitting(qg, M, new) = Emission(qg[new].slots, On(qg, M, new)) \o <<>>
    BY <2>1, EmittingSteps
  <2>. HIDE DEF more
  <2>. QED BY <2>1, <2>2, <1>7, ConcatEmptySeq
<1>. HIDE DEF S, h, tail, L, M, more
<1>9. Emitting(qg, M, RecordAt(qg, p).head) = Emitting(pg, L, h) \o more
  <2>1. CASE h = NoBlock
    <3>1. Emitting(pg, L, h) = <<>>
      BY <2>1, EmittingSteps
    <3>. QED BY <2>1, <3>1, <1>3, <1>7, <1>8, ConcatEmptySeq
  <2>2. CASE h # NoBlock
    <3>1. h \in S /\ RecordAt(qg, p).head = h
      BY <2>2, <1>2, <1>3
    <3>2. Continues(pg, L, qg, M, S, more)
      <4>. SUFFICES ASSUME NEW b \in S
                    PROVE  /\ pg[b].next # NoBlock =>
                                /\ qg[b].next = pg[b].next
                                /\ Emission(qg[b].slots, On(qg, M, b))
                                     = Emission(pg[b].slots, On(pg, L, b))
                           /\ pg[b].next = NoBlock =>
                                Emitting(qg, M, b) = Emission(pg[b].slots, On(pg, L, b)) \o more
        BY DEF Continues
      <4>1. b \in Block /\ Nexts(pg)[b] = pg[b].next /\ b # new
        BY <1>2, <1>6, NextsType
      <4>2. Emission(qg[b].slots, On(qg, M, b)) = Emission(pg[b].slots, On(pg, L, b))
        BY <1>1, <4>1, SlotsAlike DEF L, M
      <4>3. ASSUME pg[b].next # NoBlock PROVE qg[b].next = pg[b].next
        <5>1. b # tail
          BY <1>2, <4>1, <4>3, BlockType
        <5>. QED BY <1>1, <4>1, <5>1
      <4>4. ASSUME pg[b].next = NoBlock
            PROVE  Emitting(qg, M, b) = Emission(pg[b].slots, On(pg, L, b)) \o more
        <5>1. b = tail
          BY <1>2, <4>1, <4>4
        <5>2. qg[b].next = new
          BY <1>1, <4>1, <5>1
        <5>. QED BY <1>8, <4>1, <4>2, <5>2, EmittingSteps
      <4>. QED BY <4>2, <4>3, <4>4
    <3>3. S \subseteq Block /\ Closed(Nexts(pg), S) /\ more \in Seq(Vid)
      BY <1>2, <1>7
    <3>4. Extends(pg, L, qg, M, S, more)
      BY <3>2, <3>3 DEF Extends
    <3>5. Extended(pg, L, qg, M, h, more)
      BY <3>1, <3>4, WalkExtended
    <3>6. Emitting(qg, M, h) = Emitting(pg, L, h) \o more
      BY <3>5 DEF Extended
    <3>. QED BY <3>1, <3>6
  <2>. QED BY <2>1, <2>2
<1>10. ASSUME NEW q \in Positions(pg), q # p, NEW b \in OwnedPages(pg, RecordAt(pg, q).vid)
       PROVE  qg[b].next = pg[b].next /\ qg[b].slots = pg[b].slots
  <2>1. RecordAt(pg, q).vid # src
    BY <1>10 DEF Shape, VidsOnce
  <2>2. b \in Block /\ b \notin S /\ b # new
    BY <2>1, <1>6 DEF OwnedPages, S
  <2>3. b # tail
    <3>1. tail # NoBlock => tail \in S
      BY <1>2
    <3>. QED BY <2>2, <3>1, BlockType
  <2>. QED BY <1>1, <2>2, <2>3
<1>11. v = src => Emitting(qg, OfType(qg, t), RecordAt(qg, p).head)
                    = Emitting(pg, OfType(pg, t), RecordAt(pg, p).head) \o Share(t, ty, d)
  BY <1>9 DEF h, L, M, more
<1>12. /\ \A q \in Positions(pg) : RecordAt(qg, q).vid = RecordAt(pg, q).vid
       /\ \A q \in Positions(pg) : q # p => RecordAt(qg, q).head = RecordAt(pg, q).head
  BY <1>1, <1>3
<1>. QED BY <1>5, <1>10, <1>11, <1>12, OthersAnswer

\* A record of a batch: the answers and no vertex change but as it says.
LEMMA AppendAnswers ==
  ASSUME TypeOK, StoreShape, Rising(page), Rising(page'), page' \in Pages,
         NEW p \in VertexPositions, NEW src \in Vid, src = VertexAt(p).vid,
         NEW ss, NEW ty, NEW d, BatchOf(ss, src, ty, d), AppendSlots(p, src, ss)
  PROVE  \A v, t, a : Answers(page, v, t, a) =>
           Answers(page', v, t, Longer(a, v, t, src, ty, d))
<1>. DEFINE r   == VertexAt(p)
            new == eof + 1
            qg  == page'
<1>1. /\ page \in Pages /\ eof \in Nat /\ p \in Positions(page) /\ r = RecordAt(page, p)
      /\ Shape(page, eof, meta.first, meta.last, meta.nextVid)
      /\ Extent(page, eof) /\ AdjacencyShape(page)
  BY StorePages DEF StoreShape, Shape
<1>2. qg \in Pages /\ Rising(qg)
  OBVIOUS
<1>3. ss \in Seq(EdgeSlot)
  BY DEF BatchOf
<1>. HIDE DEF qg
<1>4. CASE ~NeedsPage(p)
  <2>1. r.tail \in Block
    BY <1>4, RoomLeft
  <2>2. qg = [page EXCEPT ![r.tail].slots = @ \o ss]
    BY <1>4 DEF AppendSlots, qg
  <2>. HIDE DEF r
  <2>3. SlotsGrown(page, qg, r.tail, ss)
    BY <1>1, <2>1, <2>2, SlotsGrownBy
  <2>4. src = RecordAt(page, p).vid /\ r.tail = RecordAt(page, p).tail
    BY <1>1 DEF r
  <2>. QED BY <1>1, <1>2, <2>1, <2>3, <2>4, GrownAnswers DEF qg
<1>5. CASE NeedsPage(p)
  <2>. HIDE DEF r, new
  <2>1. /\ eof < MaxBlock
        /\ qg = [b \in Block |->
                   IF b = new THEN NewAdjPage(src, ss)
                   ELSE IF b = r.tail THEN [page[b] EXCEPT !.next = new]
                   ELSE IF b = p[1] THEN
                     [page[b] EXCEPT
                        !.vertices[p[2]].head = IF @ = NoBlock THEN new ELSE @,
                        !.vertices[p[2]].tail = new]
                   ELSE page[b]]
    BY <1>5 DEF AppendSlots, r, new, qg
  <2>2. new \in Block
    <3>1. eof \in Nat /\ MaxBlock \in Nat /\ eof < MaxBlock
      BY <1>1, <2>1, Constants
    <3>2. eof + 1 \in 1..MaxBlock
      BY <3>1
    <3>. QED BY <3>2 DEF Block, new
  <2>3. SlotsPaged(page, qg, p, src, new, ss)
    BY <2>1 DEF SlotsPaged, Anchored, r, RecordAt, VertexAt
  <2>4. src = r.vid /\ new = eof + 1
    BY DEF r, new
  <2>5. PagedChanges(page, qg, p, r, src, new, ss)
    BY <1>1, <1>2, <2>2, <2>3, <2>4, SlotsPagedChanges
  <2>. QED BY <1>1, <1>2, <2>2, <2>4, <2>5, PagedAnswers DEF qg
<1>. QED BY <1>4, <1>5

\* What the batch under way still has to write of this answer.
Left(o, v, t) ==
  IF o.name = "edges" /\ o.src = v /\ o.type = t THEN o.rest ELSE <<>>

\* The destinations d of type t are added for src, and those of the rest are
\* all that is under way.
Adds(pg, qg, src, t, d) ==
  \A v, u, a : Answers(pg, v, u, a) => Answers(qg, v, u, Longer(a, v, u, src, t, d))

Leaves(o, src, t, rest) ==
  \A v, u : Left(o, v, u) = IF v = src /\ u = t THEN rest ELSE <<>>

Written(pg, qg, o, src, t, dsts) ==
  \E d, rest \in Seq(Vid) :
    d \o rest = dsts /\ Adds(pg, qg, src, t, d) /\ Leaves(o, src, t, rest)

\* The first n of some destinations, and the others.
Split(dsts, n, d, rest) ==
  d = SubSeq(dsts, 1, n) /\ rest = SubSeq(dsts, n + 1, Len(dsts))

LEMMA SplitAt ==
  ASSUME NEW dsts \in Seq(Vid), NEW n \in 0..Len(dsts),
         NEW d, NEW rest, Split(dsts, n, d, rest)
  PROVE  /\ d \in Seq(Vid) /\ rest \in Seq(Vid) /\ d \o rest = dsts
         /\ Len(d) = n /\ \A i \in 1..n : d[i] = dsts[i]
         /\ n = Len(dsts) => rest = <<>>
<1>. USE DEF Split
<1>1. Len(dsts) \in Nat /\ n \in Nat /\ n <= Len(dsts)
  BY LenProperties
<1>2. \A i \in 1..Len(dsts) : dsts[i] \in Vid
  BY ElementOfSeq
<1>3. /\ d \in Seq(Vid) /\ Len(d) = IF 1 <= n THEN (n - 1) + 1 ELSE 0
      /\ \A i \in 1..((n - 1) + 1) : d[i] = dsts[(1 + i) - 1]
  <2>1. \A i \in 1..n : dsts[i] \in Vid
    BY <1>1, <1>2
  <2>. QED BY <1>1, <2>1, SubSeqProperties
<1>4. rest \in Seq(Vid)
  <2>1. \A i \in (n + 1)..Len(dsts) : dsts[i] \in Vid
    BY <1>1, <1>2
  <2>. QED BY <1>1, <2>1, SubSeqProperties
<1>5. d \o rest = dsts
  <2>1. SubSeq(dsts, 1, n) \o SubSeq(dsts, n + 1, Len(dsts)) = SubSeq(dsts, 1, Len(dsts))
    <3>. DEFINE l == Len(dsts)
    <3>1. 1 \in 1..(l + 1) /\ n \in (1 - 1)..l /\ l \in n..l
      BY <1>1
    <3>. QED BY <3>1, ConcatAdjacentSubSeq
  <2>. QED BY <2>1, SubSeqFull
<1>6. n = Len(dsts) => rest = <<>>
  BY <1>1, SubSeqEmpty
<1>7. Len(d) = n
  BY <1>1, <1>3
<1>8. \A i \in 1..n : d[i] = dsts[i]
  <2>. SUFFICES ASSUME NEW i \in 1..n PROVE d[i] = dsts[i]
    OBVIOUS
  <2>1. i \in 1..((n - 1) + 1) /\ (1 + i) - 1 = i
    BY <1>1
  <2>. QED BY <1>3, <2>1
<1>. QED BY <1>3, <1>4, <1>5, <1>6, <1>7, <1>8

\* A record of a batch answers as much more as the batch has less to write.
LEMMA WriteRunAnswers ==
  ASSUME TypeOK, StoreShape, Rising(page), Rising(page'), page' \in Pages,
         NEW s \in Sessions, NEW p \in VertexPositions,
         NEW src \in Vid, src = VertexAt(p).vid, NEW t \in EdgeTypes,
         NEW dsts \in Seq(Vid), dsts # <<>>, WriteRun(s, p, src, t, dsts)
  PROVE  op'.name \in {"idle", "edges"} /\ Written(page, page', op', src, t, dsts)
<1>. DEFINE n    == IF Len(dsts) <= Room(p) THEN Len(dsts) ELSE Room(p)
            ss   == [i \in 1..n |-> NewSlot(src, dsts[i], t, xid[s])]
            d    == SubSeq(dsts, 1, n)
            rest == SubSeq(dsts, n + 1, Len(dsts))
<1>1. n \in 0..Len(dsts) /\ ss \in Seq(EdgeSlot)
  BY WriteRunChunk
<1>2. /\ AppendSlots(p, src, ss)
      /\ op' = IF n = Len(dsts) THEN Idle
               ELSE [name |-> "edges", src |-> src, type |-> t, rest |-> rest]
  BY DEF WriteRun
<1>. HIDE DEF n
<1>3. /\ d \in Seq(Vid) /\ rest \in Seq(Vid) /\ d \o rest = dsts
      /\ Len(d) = n /\ \A i \in 1..n : d[i] = dsts[i]
      /\ n = Len(dsts) => rest = <<>>
  <2>1. n \in 0..Len(dsts)
    BY <1>1
  <2>2. Split(dsts, n, d, rest)
    BY DEF Split
  <2>. HIDE DEF d, rest, ss
  <2>. QED BY <2>1, <2>2, SplitAt
<1>4. Len(ss) = n
  <2>1. DOMAIN ss = 1..n
    OBVIOUS
  <2>2. Len(ss) \in Nat /\ DOMAIN ss = 1..Len(ss)
    BY <1>1, LenProperties
  <2>3. n \in Nat
    BY <1>1, LenProperties
  <2>. HIDE DEF ss
  <2>. DEFINE k == Len(ss)
  <2>4. k \in Nat /\ 1..k = 1..n
    BY <2>1, <2>2
  <2>. HIDE DEF k
  <2>5. k = n
    BY <2>3, <2>4
  <2>. QED BY <2>5 DEF k
<1>5. \A i \in 1..n : ss[i].src = src /\ ss[i].type = t /\ ss[i].dst = dsts[i]
  BY DEF NewSlot
<1>. HIDE DEF ss, d, rest
<1>6. BatchOf(ss, src, t, d)
  BY <1>1, <1>3, <1>4, <1>5 DEF BatchOf
<1>7. \A v, u, a : Answers(page, v, u, a) =>
        Answers(page', v, u, Longer(a, v, u, src, t, d))
  BY <1>2, <1>6, AppendAnswers
<1>8. op'.name \in {"idle", "edges"}
  BY <1>2 DEF Idle
<1>9. \A v, u : Left(op', v, u) = IF v = src /\ u = t THEN rest ELSE <<>>
  <2>1. CASE n = Len(dsts)
    <3>1. op'.name = "idle" /\ rest = <<>>
      BY <1>2, <1>3, <2>1 DEF Idle
    <3>. QED BY <3>1 DEF Left
  <2>2. CASE n # Len(dsts)
    <3>1. op'.name = "edges" /\ op'.src = src /\ op'.type = t /\ op'.rest = rest
      BY <1>2, <2>2
    <3>. QED BY <3>1 DEF Left
  <2>. QED BY <2>1, <2>2
<1>10. Adds(page, page', src, t, d) /\ Leaves(op', src, t, rest)
  BY <1>7, <1>9 DEF Adds, Leaves
<1>. QED BY <1>3, <1>8, <1>10 DEF Written

-----------------------------------------------------------------------------
(* The store while the script is replayed.                                 *)

\* All of it is of the one transaction, and stands.
Fresh(pg) ==
  /\ \A p \in Positions(pg) : RecordAt(pg, p).xmin = FirstNormalXid /\ ~RecordAt(pg, p).deleted
  /\ \A q \in Slots(pg) : SlotAt(pg, q).xmin = FirstNormalXid /\ ~SlotAt(pg, q).deleted

\* The vids count the records through.
Numbered(pg) ==
  \A p \in Positions(pg) :
    RecordAt(pg, p).vid = (p[1] - 1) * VerticesPerPage + (p[2] - 1)

\* No page is for anything but vertices yet.
Counting(pg, e, m) ==
  \/ e = 0 /\ m.last = NoBlock /\ m.nextVid = 0
  \/ /\ e \in Block /\ m.last = e
     /\ m.nextVid = (e - 1) * VerticesPerPage + Len(pg[e].vertices)

LEMMA FreshAdded ==
  ASSUME NEW pg, NEW qg, NEW vr, RecordAdded(pg, qg, vr), Fresh(pg),
         vr.xmin = FirstNormalXid, ~vr.deleted
  PROVE  Fresh(qg)
<1>1. Slots(qg) = Slots(pg) /\ \A q \in Slots(pg) : SlotAt(qg, q) = SlotAt(pg, q)
  <2>1. \A b \in Block : DOMAIN qg[b].slots = DOMAIN pg[b].slots
    BY DEF RecordAdded
  <2>2. Slots(qg) = Slots(pg)
    BY <2>1 DEF Slots
  <2>3. ASSUME NEW q \in Slots(pg) PROVE SlotAt(qg, q) = SlotAt(pg, q)
    <3>1. q[1] \in Block /\ q[2] \in DOMAIN pg[q[1]].slots
      BY SlotOf
    <3>. QED BY <3>1 DEF SlotAt, RecordAdded
  <2>. QED BY <2>2, <2>3
<1>2. \A p \in Positions(qg) : RecordAt(qg, p) = vr \/ (p \in Positions(pg) /\ RecordAt(qg, p) = RecordAt(pg, p))
  BY DEF RecordAdded
<1>. QED BY <1>1, <1>2 DEF Fresh

LEMMA FreshSlots ==
  ASSUME NEW pg, NEW qg, NEW ss, SlotsAdded(pg, qg, ss), Fresh(pg),
         \A j \in DOMAIN ss : ss[j].xmin = FirstNormalXid /\ ~ss[j].deleted
  PROVE  Fresh(qg)
<1>1. \A q \in Slots(qg) :
        \/ q \in Slots(pg) /\ SlotAt(qg, q) = SlotAt(pg, q)
        \/ \E j \in DOMAIN ss : SlotAt(qg, q) = ss[j]
  BY DEF SlotsAdded
<1>2. /\ Positions(qg) = Positions(pg)
      /\ \A p \in Positions(pg) : /\ RecordAt(qg, p).xmin = RecordAt(pg, p).xmin
                                  /\ RecordAt(qg, p).deleted = RecordAt(pg, p).deleted
  BY DEF SlotsAdded
<1>. QED BY <1>1, <1>2 DEF Fresh

LEMMA WriteRunKeeps ==
  ASSUME TypeOK, StoreShape, NEW s \in Sessions, xid[s] = FirstNormalXid,
         NEW p \in VertexPositions, NEW src \in Vid, NEW t \in EdgeTypes,
         NEW dsts \in Seq(Vid), dsts # <<>>, WriteRun(s, p, src, t, dsts),
         Fresh(page), Numbered(page)
  PROVE  /\ Fresh(page') /\ Numbered(page')
         /\ meta'.first = meta.first /\ meta'.nextVid = meta.nextVid
<1>. DEFINE n  == IF Len(dsts) <= Room(p) THEN Len(dsts) ELSE Room(p)
            ss == [i \in 1..n |-> NewSlot(src, dsts[i], t, xid[s])]
<1>1. n \in 0..Len(dsts) /\ ss \in Seq(EdgeSlot)
  BY WriteRunChunk
<1>2. AppendSlots(p, src, ss)
  BY DEF WriteRun
<1>3. n > 0 /\ n \in Nat
  <2>1. \A k \in 1..EdgeSlotsPerPage : k \in Nat /\ k > 0
    BY PageSizeAssumption
  <2>2. Room(p) \in Nat /\ Room(p) > 0
    BY <2>1, RoomLeft
  <2>3. Len(dsts) \in Nat /\ Len(dsts) # 0
    BY LenProperties, EmptySeq
  <2>. QED BY <2>2, <2>3
<1>. HIDE DEF n
<1>4. \A j \in DOMAIN ss : ss[j].xmin = FirstNormalXid /\ ~ss[j].deleted
  BY DEF NewSlot
<1>5. DOMAIN ss = 1..n
  OBVIOUS
<1>. HIDE DEF ss
<1>6. Len(ss) > 0
  <2>1. 1 \in DOMAIN ss
    BY <1>3, <1>5
  <2>2. Len(ss) \in Nat /\ DOMAIN ss = 1..Len(ss)
    BY <1>1, LenProperties
  <2>. QED BY <2>1, <2>2
<1>. DEFINE qg == page'
<1>7. SlotsAdded(page, qg, ss)
  BY <1>1, <1>2, <1>6, AppendSlotsAdds
<1>8. meta'.first = meta.first /\ meta'.nextVid = meta.nextVid
  BY <1>2, StorePages DEF AppendSlots, Meta
<1>. HIDE DEF qg
<1>9. Fresh(qg)
  BY <1>4, <1>7, FreshSlots
<1>10. Numbered(qg)
  BY <1>7 DEF SlotsAdded, Numbered
<1>. QED BY <1>8, <1>9, <1>10 DEF qg

\* The record vr is put behind the others of the last page, or on a new one.
VertexAppended(pg, qg, last, vr) == qg = [pg EXCEPT ![last].vertices = Append(@, vr)]

VertexPaged(pg, qg, last, new, vr) ==
  qg = [b \in Block |->
          IF b = new THEN NewVertexPage(vr)
          ELSE IF b = last THEN [pg[b] EXCEPT !.next = new]
          ELSE pg[b]]

LEMMA NumberedAppended ==
  ASSUME NEW pg \in Pages, NEW qg, NEW last \in Block, NEW vr, Numbered(pg),
         vr.vid = (last - 1) * VerticesPerPage + Len(pg[last].vertices),
         VertexAppended(pg, qg, last, vr), vr \in VertexRecord
  PROVE  /\ Numbered(qg)
         /\ Len(qg[last].vertices) = Len(pg[last].vertices) + 1
<1>. USE DEF VertexAppended
<1>. DEFINE len == Len(pg[last].vertices)
<1>1. /\ pg[last] \in Page /\ pg[last].vertices \in Seq(VertexRecord)
      /\ len \in Nat /\ DOMAIN pg[last].vertices = 1..len
  BY LenProperties DEF Pages, Page
<1>2. qg[last].vertices = Append(pg[last].vertices, vr)
  <2>1. qg[last] = [pg[last] EXCEPT !.vertices = Append(pg[last].vertices, vr)]
    BY DEF Pages
  <2>. QED BY <1>1, <2>1 DEF Page
<1>3. \A b \in Block : b # last => qg[b] = pg[b]
  BY DEF Pages
<1>4. /\ DOMAIN qg[last].vertices = 1..(len + 1) /\ Len(qg[last].vertices) = len + 1
      /\ qg[last].vertices[len + 1] = vr
      /\ \A i \in 1..len : qg[last].vertices[i] = pg[last].vertices[i]
  <2>. HIDE DEF len
  <2>1. /\ Append(pg[last].vertices, vr) \in Seq(VertexRecord)
        /\ Len(Append(pg[last].vertices, vr)) = Len(pg[last].vertices) + 1
        /\ \A i \in 1..Len(pg[last].vertices) :
             Append(pg[last].vertices, vr)[i] = pg[last].vertices[i]
        /\ Append(pg[last].vertices, vr)[Len(pg[last].vertices) + 1] = vr
    BY <1>1, AppendProperties
  <2>. QED BY <1>2, <2>1, LenProperties DEF len
<1>5. ASSUME NEW p \in Positions(qg)
      PROVE  RecordAt(qg, p).vid = (p[1] - 1) * VerticesPerPage + (p[2] - 1)
  <2>1. p[1] \in Block /\ p[2] \in DOMAIN qg[p[1]].vertices /\ p = <<p[1], p[2]>>
    BY DEF Positions
  <2>2. CASE p[1] # last
    <3>1. p \in Positions(pg)
      BY <2>1, <2>2, <1>3, PositionOf
    <3>2. RecordAt(qg, p) = RecordAt(pg, p)
      BY <2>1, <2>2, <1>3 DEF RecordAt
    <3>. QED BY <3>1, <3>2 DEF Numbered
  <2>3. CASE p[1] = last /\ p[2] = len + 1
    <3>1. RecordAt(qg, p) = vr
      BY <1>4, <2>3 DEF RecordAt
    <3>2. p[2] - 1 = len
      BY <1>1, <2>3
    <3>. QED BY <3>1, <3>2, <2>3
  <2>4. CASE p[1] = last /\ p[2] # len + 1
    <3>1. p[2] \in 1..len
      BY <1>1, <1>4, <2>1, <2>4
    <3>2. p \in Positions(pg)
      BY <1>1, <2>1, <2>4, <3>1, PositionOf
    <3>3. RecordAt(qg, p) = RecordAt(pg, p)
      BY <1>4, <2>4, <3>1 DEF RecordAt
    <3>. QED BY <3>2, <3>3 DEF Numbered
  <2>. QED BY <2>2, <2>3, <2>4
<1>. QED BY <1>4, <1>5 DEF Numbered

LEMMA NumberedPaged ==
  ASSUME NEW pg \in Pages, NEW qg, NEW last, NEW new \in Block, NEW vr, Numbered(pg),
         vr.vid = (new - 1) * VerticesPerPage, VertexPaged(pg, qg, last, new, vr)
  PROVE  Numbered(qg) /\ Len(qg[new].vertices) = 1
<1>. USE DEF VertexPaged
<1>1. qg[new].vertices = <<vr>>
  <2>1. qg[new] = NewVertexPage(vr)
    OBVIOUS
  <2>. QED BY <2>1, NewPages
<1>2. DOMAIN qg[new].vertices = 1..1 /\ Len(qg[new].vertices) = 1 /\ qg[new].vertices[1] = vr
  <2>1. DOMAIN <<vr>> = 1..1 /\ Len(<<vr>>) = 1 /\ <<vr>>[1] = vr
    OBVIOUS
  <2>. QED BY <1>1, <2>1
<1>3. ASSUME NEW b \in Block, b # new PROVE qg[b].vertices = pg[b].vertices
  <2>1. pg[b] \in Page
    BY DEF Pages
  <2>2. qg[b] = IF b = last THEN [pg[b] EXCEPT !.next = new] ELSE pg[b]
    BY <1>3
  <2>. QED BY <2>1, <2>2 DEF Page
<1>4. ASSUME NEW p \in Positions(qg)
      PROVE  RecordAt(qg, p).vid = (p[1] - 1) * VerticesPerPage + (p[2] - 1)
  <2>1. p[1] \in Block /\ p[2] \in DOMAIN qg[p[1]].vertices /\ p = <<p[1], p[2]>>
    BY DEF Positions
  <2>2. CASE p[1] # new
    <3>1. p \in Positions(pg)
      BY <2>1, <2>2, <1>3, PositionOf
    <3>2. RecordAt(qg, p) = RecordAt(pg, p)
      BY <2>1, <2>2, <1>3 DEF RecordAt
    <3>. QED BY <3>1, <3>2 DEF Numbered
  <2>3. CASE p[1] = new
    <3>1. p[2] = 1
      BY <1>2, <2>1, <2>3
    <3>2. RecordAt(qg, p) = vr
      BY <1>2, <2>3, <3>1 DEF RecordAt
    <3>3. (p[1] - 1) * VerticesPerPage + (p[2] - 1) = (new - 1) * VerticesPerPage
      <4>1. new \in Nat /\ VerticesPerPage \in Nat /\ new - 1 \in Int
        BY BlockType, PageSizeAssumption
      <4>2. (new - 1) * VerticesPerPage \in Int
        BY <4>1
      <4>. DEFINE k == (new - 1) * VerticesPerPage
      <4>. HIDE DEF k
      <4>3. k + (1 - 1) = k
        BY <4>2 DEF k
      <4>. QED BY <2>3, <3>1, <4>3 DEF k
    <3>. QED BY <3>2, <3>3
  <2>. QED BY <2>2, <2>3
<1>. QED BY <1>2, <1>4 DEF Numbered

\* What one more vertex of a replay keeps.
LEMMA ReplayVertexKeeps ==
  ASSUME WholeInv, WholeInv', NEW s \in Sessions, InsertVertex(s), xid[s] = FirstNormalXid,
         Fresh(page), Numbered(page), Counting(page, eof, meta), meta.first \in {NoBlock, 1}
  PROVE  /\ Fresh(page') /\ Numbered(page') /\ Counting(page', eof', meta')
         /\ meta'.first \in {NoBlock, 1} /\ meta'.nextVid = meta.nextVid + 1
<1>. DEFINE n    == meta.nextVid
            last == meta.last
            vr   == NewVertex(n, xid[s])
            new  == eof + 1
            V    == VerticesPerPage
            qg   == page'
<1>1. /\ page \in Pages /\ eof \in Nat /\ last \in Link /\ n \in Nat
      /\ VertexShape(page, meta.first, last) /\ meta \in Meta
  BY WholeFacts, StorePages DEF StoreShape, Shape
<1>2. V \in Nat \ {0} /\ MaxBlock \in Nat
  BY PageSizeAssumption, Constants
<1>3. n < MaxVid /\ n \in Vid
  BY <1>1, Constants DEF InsertVertex, Vid
<1>4. /\ vr \in VertexRecord /\ vr.vid = n
      /\ vr.xmin = FirstNormalXid /\ ~vr.deleted
  BY <1>3, Constants DEF NewVertex, VertexRecord, Link, StoredXid
<1>5. Fresh(qg)
  <2>1. RecordAdded(page, qg, vr)
    BY InsertVertexShape, WholeFacts
  <2>. HIDE DEF qg, vr
  <2>. QED BY <1>4, <2>1, FreshAdded
<1>6. last # NoBlock => Len(page[last].vertices) \in 1..V
  BY <1>1 DEF VertexShape, IsChain, VertexPages
<1>7. CASE /\ last # NoBlock /\ Len(page[last].vertices) < V
           /\ page' = [page EXCEPT ![last].vertices = Append(@, vr)]
           /\ meta' = [meta EXCEPT !.nextVid = n + 1, !.vertexCount = @ + 1]
           /\ UNCHANGED eof
  <2>1. last = eof /\ last \in Block /\ n = (last - 1) * V + Len(page[last].vertices)
    BY <1>7 DEF Counting
  <2>2. /\ Numbered(qg)
        /\ Len(qg[last].vertices) = Len(page[last].vertices) + 1
    <3>1. VertexAppended(page, qg, last, vr)
      BY <1>7 DEF VertexAppended
    <3>2. vr.vid = (last - 1) * VerticesPerPage + Len(page[last].vertices)
      BY <1>4, <2>1
    <3>. HIDE DEF qg, vr, last, n
    <3>. QED BY <1>1, <1>4, <2>1, <3>1, <3>2, NumberedAppended
  <2>3. meta'.nextVid = n + 1 /\ meta'.last = last /\ meta'.first = meta.first
    BY <1>1, <1>7 DEF Meta
  <2>4. n + 1 = (last - 1) * V + (Len(page[last].vertices) + 1)
    <3>. DEFINE k == (last - 1) * V
                l == Len(page[last].vertices)
    <3>1. k \in Int /\ l \in Nat
      BY <1>1, <1>2, <1>6, <2>1, BlockType
    <3>. HIDE DEF k, l
    <3>2. (k + l) + 1 = k + (l + 1)
      BY <3>1
    <3>. QED BY <2>1, <3>2 DEF k, l
  <2>5. Counting(page', eof', meta')
    BY <1>7, <2>1, <2>2, <2>3, <2>4 DEF Counting
  <2>. QED BY <1>5, <2>2, <2>3, <2>5
<1>8. CASE /\ ~(last # NoBlock /\ Len(page[last].vertices) < V)
           /\ eof < MaxBlock
           /\ eof' = new
           /\ page' = [b \in Block |->
                         IF b = new THEN NewVertexPage(vr)
                         ELSE IF b = last THEN [page[b] EXCEPT !.next = new]
                         ELSE page[b]]
           /\ meta' = [meta EXCEPT
                         !.nextVid = n + 1, !.vertexCount = @ + 1,
                         !.first = IF last = NoBlock THEN new ELSE @,
                         !.last = new]
  <2>1. new \in Block
    BY <1>1, <1>2, <1>8 DEF Block
  <2>2. n = eof * V /\ (last = NoBlock => eof = 0)
    <3>1. CASE last = NoBlock
      BY <3>1, <1>2, BlockType DEF Counting
    <3>2. CASE last # NoBlock
      <4>1. last = eof /\ n = (eof - 1) * V + Len(page[last].vertices)
        BY <3>2 DEF Counting
      <4>2. Len(page[last].vertices) = V
        BY <1>2, <1>6, <1>8, <3>2
      <4>3. (eof - 1) * V + V = eof * V
        BY <1>1, <1>2
      <4>. QED BY <3>2, <4>1, <4>2, <4>3
    <3>. QED BY <3>1, <3>2
  <2>3. new - 1 = eof
    BY <1>1
  <2>4. Numbered(qg) /\ Len(qg[new].vertices) = 1
    <3>1. VertexPaged(page, qg, last, new, vr)
      BY <1>8 DEF VertexPaged
    <3>2. vr.vid = (new - 1) * VerticesPerPage
      BY <1>4, <2>2, <2>3
    <3>. HIDE DEF qg, vr, new, last
    <3>. QED BY <1>1, <2>1, <3>1, <3>2, NumberedPaged
  <2>5. /\ meta'.nextVid = n + 1 /\ meta'.last = new
        /\ meta'.first = IF last = NoBlock THEN new ELSE meta.first
    BY <1>1, <1>8 DEF Meta
  <2>6. meta'.first \in {NoBlock, 1}
    BY <2>2, <2>5
  <2>7. Counting(page', eof', meta')
    BY <1>8, <2>1, <2>2, <2>3, <2>4, <2>5 DEF Counting
  <2>. QED BY <1>5, <2>4, <2>5, <2>6, <2>7
<1>. QED BY <1>7, <1>8 DEF InsertVertex

-----------------------------------------------------------------------------
(* The dense locate finds what the replay names.                           *)

LEMMA DenseFinds ==
  ASSUME TypeOK, StoreShape, Fresh(page), Numbered(page), meta.first \in {NoBlock, 1},
         NEW v \in Nat, v < meta.nextVid
  PROVE  DenseLocated(FirstNormalXid, v) # {}
<1>. DEFINE V == VerticesPerPage
<1>1. /\ page \in Pages /\ eof \in Nat /\ meta.nextVid \in Nat
      /\ VertexPositions = Positions(page)
      /\ \A p : VertexAt(p) = RecordAt(page, p)
      /\ Extent(page, eof) /\ VertexShape(page, meta.first, meta.last)
      /\ VidsOnce(page, meta.nextVid)
  BY StorePages DEF StoreShape, Shape
<1>2. PICK p \in Positions(page) : RecordAt(page, p).vid = v
  <2>1. v \in 0..(meta.nextVid - 1)
    BY <1>1
  <2>. QED BY <1>1, <2>1 DEF VidsOnce
<1>3. /\ p[1] \in Block /\ p[2] \in DOMAIN page[p[1]].vertices /\ p = <<p[1], p[2]>>
  BY <1>1, RecordType
<1>4. page[p[1]].kind = "vertex" /\ p[1] \in VertexPages(page) /\ p[1] <= eof
  <2>1. page[p[1]].kind = "vertex"
    BY <1>1, <1>3 DEF Extent
  <2>. QED BY <1>1, <1>3, <2>1, WithinFile DEF VertexPages
<1>5. p[2] \in 1..V /\ V \in Nat \ {0} /\ p[1] \in Nat /\ p[1] >= 1
  <2>1. Len(page[p[1]].vertices) \in 1..V
    BY <1>1, <1>4 DEF VertexShape
  <2>2. DOMAIN page[p[1]].vertices = 1..Len(page[p[1]].vertices)
    BY <1>1, <1>3, LenProperties DEF Pages, Page
  <2>3. p[2] \in 1..V
    <3>. DEFINE l == Len(page[p[1]].vertices)
    <3>1. l \in 1..V /\ p[2] \in 1..l /\ V \in Nat
      BY <1>3, <2>1, <2>2, PageSizeAssumption
    <3>. HIDE DEF l
    <3>. QED BY <3>1
  <2>. QED BY <2>3, <1>3, PageSizeAssumption DEF Block
<1>6. meta.first = 1
  <2>1. ASSUME meta.first = NoBlock PROVE FALSE
    <3>1. VertexPages(page) = Walk(Nexts(page), NoBlock)
      BY <1>1, <2>1 DEF VertexShape, IsChain
    <3>. QED BY <1>4, <3>1, WalkNowhere
  <2>. QED BY <2>1
<1>7. v \div V = p[1] - 1 /\ v % V = p[2] - 1
  <2>. DEFINE k == p[1] - 1
              j == p[2] - 1
  <2>1. v = k * V + j
    BY <1>2 DEF Numbered
  <2>2. k \in Nat /\ j \in 0..(V - 1)
    BY <1>5
  <2>. HIDE DEF k, j
  <2>3. (k * V + j) \div V = k /\ (k * V + j) % V = j
    BY <2>2, <1>5, DivMod
  <2>. QED BY <2>1, <2>3 DEF k, j
<1>8. DensePosition(v) = p
  <2>1. 1 + (p[1] - 1) = p[1] /\ (p[2] - 1) + 1 = p[2]
    BY <1>5
  <2>2. DensePosition(v) = <<p[1], p[2]>>
    BY <1>6, <1>7, <2>1 DEF DensePosition
  <2>. QED BY <2>2, <1>3
<1>9. DenseVerified(v) /\ DenseInRange(v)
  <2>1. p[1] \in 1..eof
    BY <1>1, <1>4, <1>5
  <2>2. meta.first # NoBlock
    BY <1>6 DEF NoBlock
  <2>. QED BY <1>1, <1>2, <1>4, <1>8, <2>1, <2>2 DEF DenseVerified, DenseInRange
<1>10. Live(FirstNormalXid, VertexAt(p))
  <2>1. VertexAt(p).xmin = FirstNormalXid /\ ~VertexAt(p).deleted
    BY <1>1, <1>2 DEF Fresh
  <2>. QED BY <2>1, Constants DEF Live, XminVisible, DeletedVisible
<1>11. p \in DenseLocated(FirstNormalXid, v)
  BY <1>8, <1>9, <1>10 DEF DenseLocated
<1>. QED BY <1>11

-----------------------------------------------------------------------------
(* The invariant of a dump and its replay.                                 *)

\* The answer of v has what the script and the batch under way still lack.
Progress(pg, o, script, reads, v, t) ==
  \E a \in Seq(Vid) :
    /\ Answers(pg, v, t, a)
    /\ Pending(script, v, t) => a = <<>> /\ Left(o, v, t) = <<>>
    /\ ~Pending(script, v, t) => a \o Left(o, v, t) = reads[<<v, t>>]

Progresses(pg, o, script, reads) ==
  \A v \in Vid, t \in EdgeTypes : Progress(pg, o, script, reads, v, t)

\* Only the holder of the lock has an id, the first one.
OneWriter ==
  \A s \in Sessions : xid[s] # InvalidXid => xid[s] = FirstNormalXid /\ lock = s

\* The parts of the invariant of a replay: the store, and the script.
ReplayStore ==
  /\ committed = {} /\ OneWriter
  /\ op.name \in {"idle", "edges"}
  /\ Fresh(page) /\ Numbered(page)
  /\ meta.first \in {NoBlock, 1}
  /\ meta.nextVid <= backup.vids
  /\ meta.nextVid < backup.vids => Counting(page, eof, meta)
  /\ op.name = "edges" => meta.nextVid = backup.vids

ReplayScript ==
  /\ backup \in [vids : Nat, script : Seq(Run)]
  /\ ScriptOf(backup.script, source.reads)
  /\ ~source.moved => Within(backup.script, backup.vids)
  /\ source.edges = Cardinality(Triples(source.reads))
  /\ Progresses(page, op, backup.script, source.reads)

RestoredStore ==
  /\ committed = {FirstNormalXid}
  /\ Fresh(page)
  /\ source.edges = Cardinality(Triples(source.reads))
  /\ \A v \in Vid, t \in EdgeTypes : Answers(page, v, t, source.reads[<<v, t>>])

PhaseInv ==
  /\ phase \in {"source", "dumped", "replay", "restored", "refused"}
  /\ phase = "source" =>
       source = [reads |-> source.reads, edges |-> 0, vids |-> 0, moved |-> FALSE]
  /\ phase = "dumped" =>
       source.vids \in Nat /\ backup = [vids |-> source.vids, script |-> <<>>]
  /\ phase = "replay" => ReplayStore /\ ReplayScript
  /\ phase = "restored" => RestoredStore
  /\ phase = "refused" => source.moved

DumpInv == WholeInv /\ PhaseInv

\* A replay in which no vertex was added between the dumps is not refused.
LEMMA NotRefused ==
  ASSUME WholeInv, ReplayStore, ReplayScript, NEW s \in Sessions, ReplayRefused(s)
  PROVE  source.moved
<1>. DEFINE script == backup.script
            run    == Head(script)
<1>1. script \in Seq(Run) /\ script # <<>> /\ meta.nextVid = backup.vids
  BY DEF ReplayScript, ScriptOf, ReplayRefused
<1>2. run = script[1] /\ 1 \in 1..Len(script) /\ run \in Run
  <2>1. Len(script) \in Nat /\ Len(script) # 0
    BY <1>1, LenProperties, EmptySeq
  <2>2. 1 \in 1..Len(script)
    BY <2>1
  <2>3. Head(script) = script[1]
    BY <1>1
  <2>. QED BY <1>1, <2>2, <2>3, ElementOfSeq
<1>3. PICK v \in {run.src} \cup ToSet(run.dsts) : DenseLocated(xid[s], v) = {}
  BY DEF ReplayRefused
<1>4. xid[s] = FirstNormalXid
  BY DEF ReplayRefused, MayWrite, ReplayStore, OneWriter
<1>5. v \in Nat
  <2>1. run.src \in Vid /\ run.dsts \in Seq(Vid)
    BY <1>2 DEF Run
  <2>2. \A j \in DOMAIN run.dsts : run.dsts[j] \in Vid
    BY <2>1, LenProperties
  <2>3. v \in Vid
    BY <1>3, <2>1, <2>2 DEF ToSet
  <2>. QED BY <2>3, Constants DEF Vid
<1>6. ASSUME ~source.moved PROVE FALSE
  <2>1. Within(script, meta.nextVid)
    BY <1>1, <1>6 DEF ReplayScript
  <2>2. run.src < meta.nextVid /\ \A j \in DOMAIN run.dsts : run.dsts[j] < meta.nextVid
    BY <1>2, <2>1 DEF Within
  <2>3. v < meta.nextVid
    BY <1>3, <2>2 DEF ToSet
  <2>4. DenseLocated(FirstNormalXid, v) # {}
    BY <1>5, <2>3, DenseFinds, WholeFacts DEF ReplayStore
  <2>. QED BY <1>3, <1>4, <2>4
<1>. QED BY <1>6

\* The script without its first batch.
LEMMA ScriptTail ==
  ASSUME NEW script, NEW reads, NEW n, ScriptOf(script, reads), script # <<>>,
         NEW run, run = Head(script), NEW tl, tl = Tail(script)
  PROVE  /\ run \in Run /\ run.dsts # <<>> /\ run.dsts = reads[<<run.src, run.type>>]
         /\ Pending(script, run.src, run.type) /\ ~Pending(tl, run.src, run.type)
         /\ \A v, t : ~(v = run.src /\ t = run.type) =>
              (Pending(tl, v, t) <=> Pending(script, v, t))
         /\ ScriptOf(tl, reads)
         /\ Within(script, n) => Within(tl, n)
<1>1. script \in Seq(Run) /\ Len(script) \in Nat /\ Len(script) > 0
  <2>1. script \in Seq(Run)
    BY DEF ScriptOf
  <2>2. Len(script) \in Nat /\ Len(script) # 0
    BY <2>1, LenProperties, EmptySeq
  <2>. QED BY <2>1, <2>2
<1>2. /\ tl \in Seq(Run) /\ Len(tl) = Len(script) - 1
      /\ \A i \in 1..Len(tl) : tl[i] = script[i + 1]
  BY <1>1, HeadTailProperties
<1>3. run = script[1] /\ 1 \in 1..Len(script)
  BY <1>1
<1>4. \A i \in 1..Len(tl) : i + 1 \in 1..Len(script) /\ i + 1 # 1
  BY <1>1, <1>2
<1>5. \A k \in 1..Len(script) : k # 1 => \E i \in 1..Len(tl) : script[k] = tl[i]
  <2>. SUFFICES ASSUME NEW k \in 1..Len(script), k # 1
                PROVE  \E i \in 1..Len(tl) : script[k] = tl[i]
    OBVIOUS
  <2>1. k - 1 \in 1..Len(tl) /\ (k - 1) + 1 = k
    BY <1>1, <1>2
  <2>. QED BY <1>2, <2>1
<1>6. /\ run \in Run /\ run.dsts # <<>> /\ run.dsts = reads[<<run.src, run.type>>]
      /\ Pending(script, run.src, run.type)
  BY <1>1, <1>3, ElementOfSeq DEF ScriptOf, Pending
<1>7. ~Pending(tl, run.src, run.type)
  <2>. SUFFICES ASSUME NEW i \in 1..Len(tl), tl[i].src = run.src, tl[i].type = run.type
                PROVE  FALSE
    BY DEF Pending
  <2>1. script[i + 1].src = script[1].src /\ script[i + 1].type = script[1].type
    BY <1>2, <1>3
  <2>2. i + 1 = 1
    BY <1>3, <1>4, <2>1 DEF ScriptOf
  <2>. QED BY <1>4, <2>2
<1>8. \A v, t : ~(v = run.src /\ t = run.type) =>
        (Pending(tl, v, t) <=> Pending(script, v, t))
  <2>. SUFFICES ASSUME NEW v, NEW t, ~(v = run.src /\ t = run.type)
                PROVE  Pending(tl, v, t) <=> Pending(script, v, t)
    OBVIOUS
  <2>1. Pending(tl, v, t) => Pending(script, v, t)
    BY <1>2, <1>4 DEF Pending
  <2>2. Pending(script, v, t) => Pending(tl, v, t)
    BY <1>3, <1>5 DEF Pending
  <2>. QED BY <2>1, <2>2
<1>9. ScriptOf(tl, reads)
  <2>1. ASSUME NEW i \in 1..Len(tl)
        PROVE  tl[i].dsts # <<>> /\ tl[i].dsts = reads[<<tl[i].src, tl[i].type>>]
    <3>1. tl[i] = script[i + 1] /\ i + 1 \in 1..Len(script)
      BY <1>2, <1>4
    <3>. QED BY <3>1 DEF ScriptOf
  <2>2. ASSUME NEW i \in 1..Len(tl), NEW j \in 1..Len(tl),
               tl[i].src = tl[j].src, tl[i].type = tl[j].type
        PROVE  i = j
    <3>1. tl[i] = script[i + 1] /\ tl[j] = script[j + 1]
      BY <1>2
    <3>2. i + 1 \in 1..Len(script) /\ j + 1 \in 1..Len(script)
      BY <1>4
    <3>3. i + 1 = j + 1
      BY <2>2, <3>1, <3>2 DEF ScriptOf
    <3>. QED BY <3>3
  <2>. QED BY <1>2, <2>1, <2>2 DEF ScriptOf
<1>10. Within(script, n) => Within(tl, n)
  BY <1>2, <1>4 DEF Within
<1>. QED BY <1>6, <1>7, <1>8, <1>9, <1>10

LEMMA LongerType ==
  ASSUME NEW a \in Seq(Vid), NEW d \in Seq(Vid), NEW v, NEW u, NEW src, NEW t
  PROVE  /\ Longer(a, v, u, src, t, d) \in Seq(Vid)
         /\ v = src /\ u = t => Longer(a, v, u, src, t, d) = a \o d
         /\ ~(v = src /\ u = t) => Longer(a, v, u, src, t, d) = a
<1>. DEFINE l == Longer(a, v, u, src, t, d)
<1>1. CASE v = src /\ u = t
  <2>1. l = a \o d
    BY <1>1 DEF Longer, Share
  <2>. HIDE DEF l
  <2>. QED BY <1>1, <2>1, ConcatProperties DEF l
<1>2. CASE v = src /\ u # t
  <2>1. l = a \o <<>>
    BY <1>2 DEF Longer, Share
  <2>2. a \o <<>> = a
    BY ConcatEmptySeq
  <2>. QED BY <1>2, <2>1, <2>2
<1>3. CASE v # src
  BY <1>3 DEF Longer
<1>. QED BY <1>1, <1>2, <1>3

\* A batch of the script is begun.
LEMMA BatchProgress ==
  ASSUME NEW pg, NEW qg, NEW o, NEW o2, NEW script, NEW reads, NEW run, NEW tl,
         ScriptOf(script, reads), script # <<>>, run = Head(script), tl = Tail(script),
         NEW d \in Seq(Vid), NEW rest \in Seq(Vid), d \o rest = run.dsts,
         Adds(pg, qg, run.src, run.type, d), Leaves(o2, run.src, run.type, rest),
         o.name = "idle", Progresses(pg, o, script, reads)
  PROVE  Progresses(qg, o2, tl, reads)
<1>1. /\ run.dsts = reads[<<run.src, run.type>>]
      /\ Pending(script, run.src, run.type) /\ ~Pending(tl, run.src, run.type)
      /\ \A v, t : ~(v = run.src /\ t = run.type) =>
           (Pending(tl, v, t) <=> Pending(script, v, t))
  BY ScriptTail
<1>2. \A v, t : Left(o, v, t) = <<>>
  BY DEF Left
<1>3. ASSUME NEW v \in Vid, NEW t \in EdgeTypes
      PROVE  Progress(qg, o2, tl, reads, v, t)
  <2>1. PICK a \in Seq(Vid) :
          /\ Answers(pg, v, t, a)
          /\ Pending(script, v, t) => a = <<>>
          /\ ~Pending(script, v, t) => a \o <<>> = reads[<<v, t>>]
    BY <1>2 DEF Progresses, Progress
  <2>. DEFINE l == Longer(a, v, t, run.src, run.type, d)
  <2>2. l \in Seq(Vid) /\ Answers(qg, v, t, l)
    BY <2>1, LongerType DEF Adds
  <2>3. CASE v = run.src /\ t = run.type
    <3>1. a = <<>> /\ l = a \o d
      <4>1. a = <<>>
        BY <1>1, <2>1, <2>3
      <4>. QED BY <2>3, <4>1 DEF Longer, Share
    <3>2. l = d
      BY <3>1, ConcatEmptySeq
    <3>3. Left(o2, v, t) = rest
      BY <2>3 DEF Leaves
    <3>4. l \o Left(o2, v, t) = reads[<<v, t>>]
      BY <1>1, <2>3, <3>2, <3>3
    <3>5. ~Pending(tl, v, t)
      BY <1>1, <2>3
    <3>. HIDE DEF l
    <3>. QED BY <2>2, <3>4, <3>5 DEF Progress
  <2>4. CASE ~(v = run.src /\ t = run.type)
    <3>1. l = a
      BY <2>1, <2>4, LongerType
    <3>2. Left(o2, v, t) = <<>>
      BY <2>4 DEF Leaves
    <3>3. Pending(tl, v, t) <=> Pending(script, v, t)
      BY <1>1, <2>4
    <3>. HIDE DEF l
    <3>. QED BY <2>1, <2>2, <3>1, <3>2, <3>3 DEF Progress
  <2>. QED BY <2>3, <2>4
<1>. QED BY <1>3 DEF Progresses

LEMMA Regrouped ==
  ASSUME NEW a \in Seq(Vid), NEW d \in Seq(Vid), NEW r \in Seq(Vid)
  PROVE  (a \o d) \o r = a \o (d \o r)
OBVIOUS

\* A batch goes on.
LEMMA ContinueProgress ==
  ASSUME NEW pg, NEW qg, NEW o, NEW o2, NEW script, NEW reads,
         o.name = "edges", o.rest # <<>>,
         NEW d \in Seq(Vid), NEW rest \in Seq(Vid), d \o rest = o.rest,
         Adds(pg, qg, o.src, o.type, d), Leaves(o2, o.src, o.type, rest),
         Progresses(pg, o, script, reads)
  PROVE  Progresses(qg, o2, script, reads)
<1>1. ASSUME NEW v \in Vid, NEW t \in EdgeTypes
      PROVE  Progress(qg, o2, script, reads, v, t)
  <2>1. PICK a \in Seq(Vid) :
          /\ Answers(pg, v, t, a)
          /\ Pending(script, v, t) => a = <<>> /\ Left(o, v, t) = <<>>
          /\ ~Pending(script, v, t) => a \o Left(o, v, t) = reads[<<v, t>>]
    BY DEF Progresses, Progress
  <2>. DEFINE l == Longer(a, v, t, o.src, o.type, d)
  <2>2. l \in Seq(Vid) /\ Answers(qg, v, t, l)
    BY <2>1, LongerType DEF Adds
  <2>3. CASE v = o.src /\ t = o.type
    <3>1. Left(o, v, t) = o.rest /\ Left(o2, v, t) = rest
      BY <2>3 DEF Left, Leaves
    <3>2. l = a \o d
      BY <2>3 DEF Longer, Share
    <3>3. ~Pending(script, v, t)
      BY <2>1, <3>1
    <3>4. (a \o d) \o rest = a \o (d \o rest)
      <4>. HIDE DEF l
      <4>1. a \in Seq(Vid)
        BY <2>1
      <4>. QED BY <4>1, Regrouped
    <3>5. l \o Left(o2, v, t) = reads[<<v, t>>]
      BY <2>1, <3>1, <3>2, <3>3, <3>4
    <3>. HIDE DEF l
    <3>. QED BY <2>2, <3>3, <3>5 DEF Progress
  <2>4. CASE ~(v = o.src /\ t = o.type)
    <3>1. l = a
      BY <2>1, <2>4, LongerType
    <3>2. Left(o2, v, t) = <<>> /\ Left(o, v, t) = <<>>
      BY <2>4 DEF Left, Leaves
    <3>. HIDE DEF l
    <3>. QED BY <2>1, <2>2, <3>1, <3>2 DEF Progress
  <2>. QED BY <2>3, <2>4
<1>. QED BY <1>1 DEF Progresses

\* One record of a batch, whichever batch it is.
LEMMA ReplayRun ==
  ASSUME WholeInv, WholeInv', ReplayStore, NEW s \in Sessions, xid[s] = FirstNormalXid,
         NEW p \in VertexPositions, NEW src \in Vid, src = VertexAt(p).vid,
         NEW t \in EdgeTypes, NEW dsts \in Seq(Vid), dsts # <<>>,
         WriteRun(s, p, src, t, dsts), UNCHANGED <<relfrozenxid, txns>>,
         meta.nextVid = backup.vids, backup'.vids = backup.vids
  PROVE  ReplayStore' /\ Written(page, page', op', src, t, dsts)
<1>1. TypeOK /\ StoreShape /\ Rising(page)
  BY WholeFacts
<1>2. Rising(page') /\ page' \in Pages
  BY DEF WholeInv, TxnInv, ChainInv, TypeOK, Pages
<1>3. op'.name \in {"idle", "edges"} /\ Written(page, page', op', src, t, dsts)
  BY <1>1, <1>2, WriteRunAnswers
<1>4. /\ Fresh(page') /\ Numbered(page')
      /\ meta'.first = meta.first /\ meta'.nextVid = meta.nextVid
  BY <1>1, WriteRunKeeps DEF ReplayStore
<1>6. committed' = committed /\ xid' = xid /\ lock' = lock
  BY DEF txns
<1>7. OneWriter'
  BY <1>6 DEF OneWriter, ReplayStore
<1>8. meta.nextVid \in Nat
  BY <1>1, StorePages
<1>9. ReplayStore'
  BY <1>3, <1>4, <1>6, <1>7, <1>8 DEF ReplayStore
<1>. QED BY <1>3, <1>9

LEMMA ReplayEdgesKeeps ==
  ASSUME WholeInv, WholeInv', ReplayStore, ReplayScript, NEW s \in Sessions, ReplayEdges(s)
  PROVE  ReplayStore' /\ ReplayScript'
<1>. DEFINE script == backup.script
            run    == Head(script)
            tl     == Tail(script)
            reads  == source.reads
<1>1. /\ meta.nextVid = backup.vids /\ script # <<>> /\ MayWrite(s)
      /\ backup' = [backup EXCEPT !.script = tl] /\ source' = source
      /\ InsertEdges(s, run.src, run.dsts, run.type)
  BY DEF ReplayEdges, InsertEdges
<1>2. /\ ScriptOf(script, reads) /\ backup \in [vids : Nat, script : Seq(Run)]
      /\ Progresses(page, op, script, reads)
  BY DEF ReplayScript
<1>3. /\ run \in Run /\ run.dsts # <<>>
      /\ ScriptOf(tl, reads) /\ \A n : Within(script, n) => Within(tl, n)
  <2>. HIDE DEF run, tl, script
  <2>1. run = Head(script) /\ tl = Tail(script)
    BY DEF run, tl
  <2>2. \A n : /\ run \in Run /\ run.dsts # <<>> /\ ScriptOf(tl, reads)
               /\ Within(script, n) => Within(tl, n)
    BY <1>1, <1>2, <2>1, ScriptTail
  <2>. QED BY <2>2
<1>4. xid[s] = FirstNormalXid /\ op.name = "idle"
  BY <1>1 DEF MayWrite, ReplayStore, OneWriter, Idle
<1>5. run.src \in Vid /\ run.type \in EdgeTypes /\ run.dsts \in Seq(Vid)
  BY <1>3 DEF Run
<1>6. PICK p \in DenseLocated(xid[s], run.src) : WriteRun(s, p, run.src, run.type, run.dsts)
  BY <1>1 DEF InsertEdges
<1>7. p \in VertexPositions /\ VertexAt(p).vid = run.src
  BY DEF DenseLocated, DenseVerified
<1>8. /\ UNCHANGED <<relfrozenxid, txns>>
      /\ backup'.vids = backup.vids /\ backup'.script = tl
      /\ backup' \in [vids : Nat, script : Seq(Run)]
  <2>1. tl \in Seq(Run)
    BY <1>3 DEF ScriptOf
  <2>2. UNCHANGED <<relfrozenxid, txns>>
    BY <1>1 DEF InsertEdges
  <2>. HIDE DEF tl
  <2>. QED BY <1>1, <1>2, <2>1, <2>2
<1>. HIDE DEF run, tl, script, reads
<1>9. ReplayStore' /\ Written(page, page', op', run.src, run.type, run.dsts)
  BY <1>1, <1>3, <1>4, <1>5, <1>6, <1>7, <1>8, ReplayRun
<1>10. Progresses(page', op', tl, reads)
  <2>1. PICK d \in Seq(Vid), rest \in Seq(Vid) :
          /\ d \o rest = run.dsts /\ Adds(page, page', run.src, run.type, d)
          /\ Leaves(op', run.src, run.type, rest)
    BY <1>9 DEF Written
  <2>2. run = Head(script) /\ tl = Tail(script)
    BY DEF run, tl
  <2>. QED BY <1>1, <1>2, <1>4, <2>1, <2>2, BatchProgress
<1>11. ReplayScript'
  BY <1>1, <1>3, <1>8, <1>10 DEF ReplayScript, reads, script
<1>. QED BY <1>9, <1>11

LEMMA ReplayContinueKeeps ==
  ASSUME WholeInv, WholeInv', ReplayStore, ReplayScript, NEW s \in Sessions,
         ReplayContinue(s)
  PROVE  ReplayStore' /\ ReplayScript'
<1>1. /\ lock = s /\ op.name = "edges" /\ UNCHANGED <<relfrozenxid, txns>>
      /\ backup' = backup /\ source' = source
  BY DEF ReplayContinue, ContinueInsertEdges
<1>2. PICK p \in VertexPositions :
        VertexAt(p).vid = op.src /\ WriteRun(s, p, op.src, op.type, op.rest)
  BY DEF ReplayContinue, ContinueInsertEdges
<1>3. op.src \in Vid /\ op.type \in EdgeTypes /\ op.rest \in Seq(Vid)
  BY <1>1, WholeFacts DEF TypeOK, Operation, Idle
<1>4. op.rest # <<>>
  BY <1>1, WholeFacts DEF ChainInv
<1>5. xid[s] = FirstNormalXid
  <2>1. xid[s] # InvalidXid
    BY <1>1, WholeFacts DEF OperationInv
  <2>. QED BY <2>1 DEF ReplayStore, OneWriter
<1>6. meta.nextVid = backup.vids
  BY <1>1 DEF ReplayStore
<1>7. ReplayStore' /\ Written(page, page', op', op.src, op.type, op.rest)
  BY <1>1, <1>2, <1>3, <1>4, <1>5, <1>6, ReplayRun
<1>8. Progresses(page', op', backup.script, source.reads)
  <2>1. PICK d \in Seq(Vid), rest \in Seq(Vid) :
          /\ d \o rest = op.rest /\ Adds(page, page', op.src, op.type, d)
          /\ Leaves(op', op.src, op.type, rest)
    BY <1>7 DEF Written
  <2>2. Progresses(page, op, backup.script, source.reads)
    BY DEF ReplayScript
  <2>. QED BY <1>1, <1>4, <2>1, <2>2, ContinueProgress
<1>9. ReplayScript'
  BY <1>1, <1>8 DEF ReplayScript
<1>. QED BY <1>7, <1>9

LEMMA ReplayStartKeeps ==
  ASSUME WholeInv, ReplayStore, ReplayScript, NEW s \in Sessions, ReplayStart(s)
  PROVE  ReplayStore' /\ ReplayScript'
<1>1. UNCHANGED <<page, eof, meta, op, committed, backup, source>>
  BY DEF ReplayStart, AssignXid, AcquireWriterLock, store
<1>2. xid \in [Sessions -> NormalXid \cup {InvalidXid}]
  BY WholeFacts DEF TypeOK
<1>3. OneWriter'
  <2>1. CASE lock = s /\ AssignXid(s)
    <3>1. xid' = [xid EXCEPT ![s] = FirstNormalXid] /\ lock' = lock
      BY <2>1 DEF ReplayStart, AssignXid
    <3>. QED BY <1>2, <2>1, <3>1 DEF OneWriter, ReplayStore
  <2>2. CASE AcquireWriterLock(s)
    <3>1. \A u \in Sessions : xid[u] = InvalidXid
      BY <2>2, SessionsAssumption DEF AcquireWriterLock, OneWriter, ReplayStore
    <3>2. xid' = xid
      BY <2>2 DEF AcquireWriterLock
    <3>. QED BY <3>1, <3>2 DEF OneWriter
  <2>. QED BY <2>1, <2>2 DEF ReplayStart
<1>4. ReplayStore'
  BY <1>1, <1>3 DEF ReplayStore
<1>5. ReplayScript'
  BY <1>1 DEF ReplayScript
<1>. QED BY <1>4, <1>5

\* A new vertex changes no adjacency page.
LEMMA AdjacencyAlone ==
  ASSUME WholeInv, NEW s \in Sessions, InsertVertex(s),
         NEW b \in Block, page[b].kind = "adj"
  PROVE  page'[b] = page[b]
<1>. DEFINE last == meta.last
            new  == eof + 1
            vr   == NewVertex(meta.nextVid, xid[s])
<1>1. /\ page \in Pages /\ eof \in Nat /\ last \in Link
      /\ Extent(page, eof) /\ VertexShape(page, meta.first, last)
  BY WholeFacts, StorePages DEF StoreShape, Shape
<1>2. last # NoBlock => page[last].kind = "vertex"
  BY <1>1 DEF Link, VertexShape, IsChain, VertexPages
<1>3. last # NoBlock => b # last
  BY <1>2
<1>4. b <= eof
  BY <1>1, WithinFile
<1>5. b # new
  BY <1>1, <1>4, BlockType
<1>6. b # NoBlock
  BY BlockType
<1>7. \/ last # NoBlock /\ page' = [page EXCEPT ![last].vertices = Append(@, vr)]
      \/ page' = [c \in Block |->
                    IF c = new THEN NewVertexPage(vr)
                    ELSE IF c = last THEN [page[c] EXCEPT !.next = new]
                    ELSE page[c]]
  BY DEF InsertVertex
<1>. HIDE DEF vr, new, last
<1>. QED BY <1>1, <1>3, <1>5, <1>6, <1>7 DEF Pages

LEMMA VertexProgress ==
  ASSUME NEW pg, NEW qg, NEW o, NEW script, NEW reads,
         \A v, t, a : Answers(pg, v, t, a) => Answers(qg, v, t, a),
         Progresses(pg, o, script, reads)
  PROVE  Progresses(qg, o, script, reads)
BY DEF Progresses, Progress

LEMMA ReplayVertexStep ==
  ASSUME WholeInv, WholeInv', ReplayStore, ReplayScript, NEW s \in Sessions,
         ReplayVertex(s)
  PROVE  ReplayStore' /\ ReplayScript'
<1>1. /\ InsertVertex(s) /\ MayWrite(s) /\ meta.nextVid < backup.vids
      /\ UNCHANGED <<backup, source, committed, xid, lock, op>>
  BY DEF ReplayVertex, InsertVertex, txns
<1>2. xid[s] = FirstNormalXid
  BY <1>1 DEF MayWrite, ReplayStore, OneWriter
<1>3. /\ Fresh(page') /\ Numbered(page') /\ Counting(page', eof', meta')
      /\ meta'.first \in {NoBlock, 1} /\ meta'.nextVid = meta.nextVid + 1
  BY <1>1, <1>2, ReplayVertexKeeps DEF ReplayStore
<1>4. meta.nextVid \in Nat /\ backup.vids \in Nat
  BY WholeFacts, StorePages DEF ReplayScript
<1>5. meta'.nextVid <= backup'.vids
  BY <1>1, <1>3, <1>4
<1>6. OneWriter'
  BY <1>1 DEF OneWriter, ReplayStore
<1>7. ReplayStore'
  BY <1>1, <1>3, <1>5, <1>6 DEF ReplayStore, MayWrite, Idle
<1>8. \A v, t, a : Answers(page, v, t, a) => Answers(page', v, t, a)
  <2>. DEFINE vr == NewVertex(meta.nextVid, xid[s])
  <2>1. /\ page \in Pages /\ Rising(page)
        /\ Shape(page, eof, meta.first, meta.last, meta.nextVid)
    BY WholeFacts DEF StoreShape
  <2>2. page' \in Pages /\ Rising(page')
    BY DEF WholeInv, TxnInv, ChainInv, TypeOK, Pages
  <2>3. RecordAdded(page, page', vr)
    BY <1>1, WholeFacts, InsertVertexShape
  <2>4. vr.vid = meta.nextVid /\ vr.head = NoBlock
    BY DEF NewVertex
  <2>5. \A b \in Block : page[b].kind = "adj" => page'[b] = page[b]
    BY <1>1, WholeFacts, AdjacencyAlone
  <2>. HIDE DEF vr
  <2>. QED BY <1>4, <2>1, <2>2, <2>3, <2>4, <2>5, VertexAnswers
<1>9. Progresses(page', op', backup'.script, source'.reads)
  BY <1>1, <1>8, VertexProgress DEF ReplayScript
<1>10. ReplayScript'
  BY <1>1, <1>9 DEF ReplayScript
<1>. QED BY <1>7, <1>10


LEMMA ReplayCommitRestores ==
  ASSUME WholeInv, ReplayStore, ReplayScript, NEW s \in Sessions, ReplayCommit(s)
  PROVE  RestoredStore'
<1>1. /\ MayWrite(s) /\ backup.script = <<>> /\ Commit(s)
      /\ page' = page /\ source' = source
  BY DEF ReplayCommit, Commit, store
<1>2. xid[s] = FirstNormalXid /\ op.name = "idle"
  BY <1>1 DEF MayWrite, ReplayStore, OneWriter, Idle
<1>3. committed' = {FirstNormalXid}
  <2>1. committed = {} /\ FirstNormalXid # InvalidXid
    BY Constants DEF ReplayStore
  <2>. QED BY <1>1, <1>2, <2>1 DEF Commit
<1>4. ASSUME NEW v \in Vid, NEW t \in EdgeTypes
      PROVE  Answers(page, v, t, source.reads[<<v, t>>])
  <2>1. ~Pending(backup.script, v, t) /\ Left(op, v, t) = <<>>
    BY <1>1, <1>2 DEF Pending, Left
  <2>2. PICK a \in Seq(Vid) :
          Answers(page, v, t, a) /\ a \o <<>> = source.reads[<<v, t>>]
    BY <2>1 DEF ReplayScript, Progresses, Progress
  <2>3. a \o <<>> = a
    BY ConcatEmptySeq
  <2>. QED BY <2>2, <2>3
<1>. QED BY <1>1, <1>3, <1>4 DEF RestoredStore, ReplayStore, ReplayScript

\* A new database is a store to begin with.
LEMMA InitLater == Init' => WholeInv'
<1>1. Init => WholeInv
  BY WholeInit
<1>. QED BY <1>1, PTL

LEMMA EmptyAnswers ==
  ASSUME NEW pg, Positions(pg) = {}, NEW v, NEW t
  PROVE  Answers(pg, v, t, <<>>)
BY DEF Answers

LEMMA DumpEdgesStarts ==
  ASSUME WholeInv, Registered = EdgeTypes, DumpEdges,
         backup = [vids |-> source.vids, script |-> <<>>], source.vids \in Nat
  PROVE  WholeInv' /\ ReplayStore' /\ ReplayScript'
<1>. DEFINE script == Dumped
            reads  == Reads
<1>1. NewDatabase
  BY DEF DumpEdges
<1>2. WholeInv'
  <2>1. Init'
    BY <1>1 DEF NewDatabase, Init
  <2>. QED BY <2>1, InitLater
<1>3. Positions(page') = {} /\ Slots(page') = {}
  <2>1. \A b \in Block : page'[b].vertices = <<>> /\ page'[b].slots = <<>>
    BY <1>1 DEF NewDatabase, ZeroPage
  <2>. QED BY <2>1 DEF Positions, Slots
<1>4. /\ backup' = [vids |-> source.vids, script |-> script]
      /\ source' = [reads |-> reads, edges |-> VisibleEdgeCount,
                    vids |-> source.vids, moved |-> meta.nextVid # source.vids]
  BY DEF DumpEdges, Dumped
<1>5. /\ meta'.nextVid = 0 /\ meta'.first = NoBlock /\ meta'.last = NoBlock /\ eof' = 0
      /\ committed' = {} /\ \A s \in Sessions : xid'[s] = InvalidXid
      /\ op' = Idle
  BY <1>1 DEF NewDatabase
<1>6. /\ ScriptOf(script, reads) /\ Within(script, meta.nextVid)
      /\ \A v \in Vid, t \in EdgeTypes : ~Pending(script, v, t) => reads[<<v, t>>] = <<>>
  BY DumpedScript
<1>7. VisibleEdgeCount = Cardinality(Triples(reads))
  BY WholeFacts, CountHolds DEF NoOrphans
<1>. HIDE DEF script, reads
<1>8. backup'.vids = source.vids /\ backup'.script = script
  BY <1>4
<1>9. /\ source'.reads = reads /\ source'.edges = VisibleEdgeCount
      /\ source'.moved <=> meta.nextVid # source.vids
  BY <1>4
<1>10. ReplayStore'
  <2>1. Fresh(page') /\ Numbered(page')
    BY <1>3 DEF Fresh, Numbered
  <2>2. Counting(page', eof', meta')
    BY <1>5 DEF Counting
  <2>3. OneWriter'
    BY <1>5 DEF OneWriter
  <2>4. meta'.nextVid <= backup'.vids
    BY <1>5, <1>8
  <2>. QED BY <1>5, <2>1, <2>2, <2>3, <2>4 DEF ReplayStore, Idle
<1>11. Progresses(page', op', script, reads)
  <2>. SUFFICES ASSUME NEW v \in Vid, NEW t \in EdgeTypes
                PROVE  Progress(page', op', script, reads, v, t)
    BY DEF Progresses
  <2>1. Left(op', v, t) = <<>>
    BY <1>5 DEF Left, Idle
  <2>2. Answers(page', v, t, <<>>)
    BY <1>3, EmptyAnswers
  <2>3. <<>> \in Seq(Vid) /\ <<>> \o <<>> = <<>>
    BY ConcatEmptySeq
  <2>. QED BY <1>6, <2>1, <2>2, <2>3 DEF Progress
<1>12. ReplayScript'
  <2>1. script \in Seq(Run)
    BY <1>6 DEF ScriptOf
  <2>2. backup' \in [vids : Nat, script : Seq(Run)]
    BY <1>4, <2>1
  <2>3. ~source'.moved => Within(backup'.script, backup'.vids)
    BY <1>6, <1>8, <1>9
  <2>. QED BY <1>6, <1>7, <1>8, <1>9, <1>11, <2>2, <2>3 DEF ReplayScript
<1>. QED BY <1>2, <1>10, <1>12

-----------------------------------------------------------------------------
(* Every step of a dump and its replay.                                    *)

LEMMA DumpStarts == DumpInit => DumpInv
<1>. SUFFICES ASSUME DumpInit PROVE DumpInv
  OBVIOUS
<1>1. WholeInv
  BY WholeInit DEF DumpInit
<1>. QED BY <1>1 DEF DumpInit, DumpInv, PhaseInv

LEMMA ReplaySteps ==
  ASSUME WholeInv, phase = "replay", ReplayStore, ReplayScript, NEW s \in Sessions,
         \/ ReplayStart(s)
         \/ ReplayVertex(s)
         \/ ReplayEdges(s)
         \/ ReplayContinue(s)
         \/ ReplayRefused(s)
         \/ ReplayCommit(s)
  PROVE  DumpInv'
<1>1. ASSUME ReplayStart(s) \/ ReplayVertex(s) \/ ReplayEdges(s) \/ ReplayContinue(s)
      PROVE  DumpInv'
  <2>1. phase' = "replay"
    BY <1>1 DEF ReplayStart, ReplayVertex, ReplayEdges, ReplayContinue
  <2>2. WholeInv'
    <3>1. CASE ReplayStart(s) \/ ReplayVertex(s)
      <4>1. Session(s)
        BY <3>1 DEF ReplayStart, ReplayVertex, Session, InsertSome
      <4>2. op' = op
        BY <3>1 DEF ReplayStart, AssignXid, AcquireWriterLock, ReplayVertex, InsertVertex
      <4>3. op'.name # "freeze"
        BY <4>2 DEF ReplayStore
      <4>. QED BY <4>1, <4>3, WholeNext
    <3>2. CASE ReplayEdges(s)
      <4>. DEFINE run == Head(backup.script)
      <4>1. run \in Run
        BY <3>2, ScriptTail DEF ReplayEdges, ReplayScript
      <4>2. InsertEdges(s, run.src, run.dsts, run.type)
        BY <3>2 DEF ReplayEdges, InsertEdges
      <4>. HIDE DEF run
      <4>3. run.src \in Vid /\ run.type \in EdgeTypes /\ run.dsts \in Seq(Vid)
        BY <4>1 DEF Run
      <4>. QED BY <4>2, <4>3, WholeNext
    <3>3. CASE ReplayContinue(s)
      <4>1. ContinueInsertEdges(s)
        BY <3>3 DEF ReplayContinue, ContinueInsertEdges
      <4>2. Session(s)
        BY <4>1 DEF Session, ContinueOperation
      <4>3. op'.name # "freeze"
        BY <4>1, InsertEdgesOperation DEF ReplayStore
      <4>. QED BY <4>2, <4>3, WholeNext
    <3>. QED BY <1>1, <3>1, <3>2, <3>3
  <2>3. ReplayStore' /\ ReplayScript'
    BY <1>1, <2>2, ReplayStartKeeps, ReplayVertexStep, ReplayEdgesKeeps, ReplayContinueKeeps
  <2>. QED BY <2>1, <2>2, <2>3 DEF DumpInv, PhaseInv
<1>2. ASSUME ReplayRefused(s)
      PROVE  DumpInv'
  <2>1. source.moved /\ source' = source /\ phase' = "refused" /\ Abort(s)
    BY <1>2, NotRefused DEF ReplayRefused, Abort
  <2>2. op'.name # "freeze"
    BY <2>1 DEF Abort, Idle, ReplayStore
  <2>3. WholeInv'
    BY <2>1, <2>2, WholeNext DEF Session
  <2>. QED BY <2>1, <2>3 DEF DumpInv, PhaseInv
<1>3. ASSUME ReplayCommit(s)
      PROVE  DumpInv'
  <2>1. phase' = "restored" /\ Commit(s) /\ op' = op
    BY <1>3 DEF ReplayCommit, Commit
  <2>2. op'.name # "freeze"
    BY <2>1 DEF ReplayStore
  <2>3. WholeInv'
    BY <2>1, <2>2, WholeNext DEF Session
  <2>4. RestoredStore'
    BY <1>3, ReplayCommitRestores
  <2>. QED BY <2>1, <2>3, <2>4 DEF DumpInv, PhaseInv
<1>. QED BY <1>1, <1>2, <1>3

\* Whatever leaves the store alone keeps it whole.
LEMMA WholeStays ==
  ASSUME WholeInv, UNCHANGED vars
  PROVE  WholeInv'
<1>1. TxnInv'
  BY NextTxn, WholeFacts
<1>2. /\ page' = page /\ committed' = committed /\ xid' = xid /\ lock' = lock
      /\ meta' = meta /\ op' = op
  BY DEF vars
<1>3. WriterXid' = WriterXid
  BY <1>2 DEF WriterXid
<1>. QED BY <1>1, <1>2, <1>3 DEF WholeInv, NoOrphans, TargetsGiven, Sweeping

LEMMA DumpStays ==
  ASSUME DumpInv, UNCHANGED dumpVars
  PROVE  DumpInv'
<1>1. UNCHANGED <<meta, page, eof, relfrozenxid, nextXid, committed, xid, lock, op,
                  phase, backup, source>>
  BY DEF dumpVars, vars
<1>2. WholeInv'
  BY <1>1, WholeStays DEF DumpInv, vars
<1>3. PhaseInv'
  BY <1>1 DEF DumpInv, PhaseInv, ReplayStore, ReplayScript, RestoredStore, OneWriter
<1>. QED BY <1>2, <1>3 DEF DumpInv

LEMMA DumpSteps == Registered = EdgeTypes /\ DumpInv /\ [DumpNext]_dumpVars => DumpInv'
<1>. SUFFICES ASSUME Registered = EdgeTypes, DumpInv, [DumpNext]_dumpVars
              PROVE  DumpInv'
  OBVIOUS
<1>1. CASE UNCHANGED dumpVars
  BY <1>1, DumpStays
<1>2. CASE SourceStep
  <2>1. PICK s \in Sessions : Session(s)
    BY <1>2 DEF SourceStep
  <2>2. op'.name # "freeze" /\ UNCHANGED <<phase, backup, source>>
        /\ phase \in {"source", "dumped"}
    BY <1>2 DEF SourceStep
  <2>3. WholeInv'
    BY <2>1, <2>2, WholeNext DEF DumpInv
  <2>. QED BY <2>2, <2>3 DEF DumpInv, PhaseInv
<1>3. CASE DumpVertices
  <2>1. phase' = "dumped" /\ UNCHANGED vars
    BY <1>3 DEF DumpVertices
  <2>2. WholeInv'
    BY <2>1, WholeStays DEF DumpInv
  <2>3. meta.nextVid \in Nat
    BY WholeFacts, StorePages DEF DumpInv
  <2>4. source'.vids = meta.nextVid
    BY <1>3 DEF DumpVertices, DumpInv, PhaseInv
  <2>5. backup' = [vids |-> meta.nextVid, script |-> <<>>]
    BY <1>3 DEF DumpVertices, NoBackup, DumpedVids
  <2>. QED BY <2>1, <2>2, <2>3, <2>4, <2>5 DEF DumpInv, PhaseInv
<1>4. CASE DumpEdges
  <2>1. phase' = "replay" /\ phase = "dumped"
    BY <1>4 DEF DumpEdges
  <2>2. WholeInv' /\ ReplayStore' /\ ReplayScript'
    BY <1>4, <2>1, DumpEdgesStarts DEF DumpInv, PhaseInv
  <2>. QED BY <2>1, <2>2 DEF DumpInv, PhaseInv
<1>5. ASSUME NEW s \in Sessions,
             \/ ReplayStart(s)
             \/ ReplayVertex(s)
             \/ ReplayEdges(s)
             \/ ReplayContinue(s)
             \/ ReplayRefused(s)
             \/ ReplayCommit(s)
      PROVE  DumpInv'
  <2>1. phase = "replay"
    BY <1>5 DEF ReplayStart, ReplayVertex, ReplayEdges, ReplayContinue, ReplayRefused,
                ReplayCommit
  <2>. QED BY <1>5, <2>1, ReplaySteps DEF DumpInv, PhaseInv
<1>. QED BY <1>1, <1>2, <1>3, <1>4, <1>5 DEF DumpNext


-----------------------------------------------------------------------------
(* What the invariant says of the answers.                                 *)

\* In a restored store whatever has the type is what a traversal chooses.
LEMMA RestoredChosen ==
  ASSUME NEW pg, Fresh(pg), NEW t
  PROVE  Chosen(pg, {FirstNormalXid}, InvalidXid, t) = OfType(pg, t)
<1>1. ASSUME NEW q \in Slots(pg)
      PROVE  Alive({FirstNormalXid}, InvalidXid, SlotAt(pg, q))
  BY <1>1, Constants DEF Fresh, Alive, Seen
<1>. QED BY <1>1 DEF Chosen, OfType

LEMMA RestoredReads ==
  ASSUME WholeInv, RestoredStore, NEW v \in Vid, NEW t \in EdgeTypes
  PROVE  TypedReads(v, t) = source.reads[<<v, t>>]
<1>1. /\ TypeOK /\ StoreShape /\ Rising(page)
      /\ Orphans(page, committed, InvalidXid) = {}
  BY WholeFacts DEF NoOrphans
<1>2. /\ \A p \in Positions(page) : RecordAt(page, p).vid = v =>
           TypedReads(v, t) = ReadAt(page, committed, InvalidXid, p, t)
      /\ (\A p \in Positions(page) : RecordAt(page, p).vid # v) => TypedReads(v, t) = <<>>
  BY <1>1, TypedReadsIs
<1>3. Chosen(page, committed, InvalidXid, t) = OfType(page, t)
  BY RestoredChosen DEF RestoredStore
<1>4. Answers(page, v, t, source.reads[<<v, t>>])
  BY DEF RestoredStore
<1>5. CASE \E p \in Positions(page) : RecordAt(page, p).vid = v
  BY <1>2, <1>3, <1>4, <1>5 DEF Answers, ReadAt
<1>6. CASE \A p \in Positions(page) : RecordAt(page, p).vid # v
  BY <1>2, <1>4, <1>6 DEF Answers
<1>. QED BY <1>5, <1>6

LEMMA SameTriples ==
  ASSUME NEW r, NEW q, \A v \in Vid, t \in EdgeTypes : r[<<v, t>>] = q[<<v, t>>]
  PROVE  Triples(r) = Triples(q)
<1>1. \A x \in Vid \X EdgeTypes \X Nat : r[<<x[1], x[2]>>] = q[<<x[1], x[2]>>]
  OBVIOUS
<1>. QED BY <1>1 DEF Triples

\* The statistic counts what traversals read.
LEMMA DumpCounts == DumpInv => CountIsReads
BY WholeFacts, CountHolds DEF DumpInv, NoOrphans

LEMMA DumpRestores ==
  Registered = EdgeTypes /\ DumpInv =>
    RestoredEdgeCount /\ RestoredAnswers /\ RefusedOnlyIfMoved
<1>. SUFFICES ASSUME Registered = EdgeTypes, DumpInv
              PROVE  RestoredEdgeCount /\ RestoredAnswers /\ RefusedOnlyIfMoved
  OBVIOUS
<1>1. RefusedOnlyIfMoved
  BY DEF DumpInv, PhaseInv, RefusedOnlyIfMoved
<1>2. ASSUME phase = "restored"
      PROVE  /\ \A v \in Vid, t \in EdgeTypes : TypedReads(v, t) = source.reads[<<v, t>>]
             /\ VisibleEdgeCount = source.edges
  <2>1. WholeInv /\ RestoredStore
    BY <1>2 DEF DumpInv, PhaseInv
  <2>2. \A v \in Vid, t \in EdgeTypes : TypedReads(v, t) = source.reads[<<v, t>>]
    BY <2>1, RestoredReads
  <2>3. /\ TypeOK /\ StoreShape /\ Rising(page)
        /\ Orphans(page, committed, InvalidXid) = {}
    BY <2>1, WholeFacts DEF NoOrphans
  <2>4. Triples(Reads) = Triples(source.reads)
    <3>1. \A v \in Vid, t \in EdgeTypes : Reads[<<v, t>>] = source.reads[<<v, t>>]
      BY <2>2, <2>3, ReadsComplete
    <3>. QED BY <3>1, SameTriples
  <2>5. VisibleEdgeCount = Cardinality(Triples(Reads))
    BY <2>3, CountHolds
  <2>. QED BY <2>1, <2>2, <2>4, <2>5 DEF RestoredStore
<1>3. RestoredAnswers
  BY <1>2 DEF RestoredAnswers
<1>4. RestoredEdgeCount
  BY <1>2 DEF RestoredEdgeCount
<1>. QED BY <1>1, <1>3, <1>4

\* A dump is faithful, if all edge types are in the dictionary: see CountIsReads,
\* RestoredEdgeCount, RestoredAnswers and RefusedOnlyIfMoved (gph_dump_vertices,
\* gph_dump_edges, gph_visible_edge_count, graph_am.c:2710-2727, 2800-2876).
THEOREM BackupsAreFaithful ==
  Registered = EdgeTypes /\ DumpSpec =>
    [](CountIsReads /\ RestoredEdgeCount /\ RestoredAnswers /\ RefusedOnlyIfMoved)
<1>. DEFINE Known == Registered = EdgeTypes /\ DumpInv
<1>1. Registered = EdgeTypes /\ DumpInit => Known
  BY DumpStarts
<1>2. Known /\ [DumpNext]_dumpVars => Known'
  BY DumpSteps
<1>3. Known => CountIsReads /\ RestoredEdgeCount /\ RestoredAnswers /\ RefusedOnlyIfMoved
  BY DumpCounts, DumpRestores
<1>. QED BY <1>1, <1>2, <1>3, PTL DEF DumpSpec

=============================================================================
