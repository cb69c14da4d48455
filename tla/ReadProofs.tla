----------------------------- MODULE ReadProofs -----------------------------
(***************************************************************************)
(* The read side, for every graph, seed, depth, type, budget and query:    *)
(* the traversals agree with the search by hops, the heap of a call holds  *)
(* the nearest of what it met, and a call with a source is honest.         *)
(*                                                                         *)
(* The search and the folds are recursions over data.  Induction is done   *)
(* in first-order form, over sets of numbers or of sequences (NatSet,      *)
(* SeqSet): a fold is unique and exists (PartialUnique, PartialExists), so *)
(* the function that its CHOOSE or recursion picks satisfies its equations *)
(* (FoldedSteps, SearchIs), and a loop whose rank falls is a function      *)
(* (LoopExists).                                                           *)
(*                                                                         *)
(* A traversal expands the vertices of the search in order (the line), and *)
(* the k edge-steps it has spent are the first k of the search: what was   *)
(* visited and emitted is what those steps reach (SpentInv), and the queue *)
(* is the end of the line so far (QueueInv).                               *)
(***************************************************************************)
EXTENDS MCReads, TLAPS, FiniteSetTheorems, SequenceTheorems, WellFoundedInduction

-----------------------------------------------------------------------------
(* Recursion and folds over finite ranges: the first-order facts that the fold
   of the community modules rests on. *)

\* A set of naturals that is not empty has a least element.
LEMMA LeastNat ==
  ASSUME NEW S, S \subseteq Nat, S # {}
  PROVE  \E m \in S : \A n \in S : m <= n
<1>1. PICK m \in S : \A n \in S : <<n, m>> \notin OpToRel(<, Nat)
  BY WFMin, NatLessThanWellFounded, Zenon
<1>2. \A n \in S : ~(n < m)
  BY <1>1, Zenon DEF OpToRel
<1>3. \A n \in S : n \in Nat
  OBVIOUS
<1>4. m \in S
  BY <1>1
<1>. QED BY <1>2, <1>3, <1>4

\* Induction in its first-order form, over a set in place of a predicate.
LEMMA NatSet ==
  ASSUME NEW S, 0 \in S, \A n \in Nat : n \in S => n + 1 \in S
  PROVE  Nat \subseteq S
<1>. SUFFICES ASSUME Nat \ S # {} PROVE FALSE
  OBVIOUS
<1>1. PICK m \in Nat \ S : \A n \in Nat \ S : m <= n
  BY LeastNat
<1>2. m - 1 \in Nat /\ m - 1 \notin Nat \ S
  BY <1>1
<1>. QED BY <1>1, <1>2

\* The functions that follow base and step as far as n.
Begins(g, base, step, n) ==
  /\ g[0] = base
  /\ \A k \in Nat : k < n => g[k + 1] = step[<<k, g[k]>>]

\* f is what base and step define by recursion.
Recursion(f, V, base, step) ==
  /\ f \in [Nat -> V]
  /\ f[0] = base
  /\ \A n \in Nat : f[n + 1] = step[<<n, f[n]>>]

\* What a base and a step define by recursion exists.
LEMMA NatRec ==
  ASSUME NEW V, NEW base \in V, NEW step \in [Nat \X V -> V]
  PROVE  \E f : Recursion(f, V, base, step)
<1>. DEFINE A == {n \in Nat : \E g \in [0..n -> V] : Begins(g, base, step, n)}
<1>1. 0 \in A
  <2>1. [k \in 0..0 |-> base] \in [0..0 -> V] /\ Begins([k \in 0..0 |-> base], base, step, 0)
    BY DEF Begins
  <2>. QED BY <2>1
<1>2. ASSUME NEW n \in Nat, n \in A PROVE n + 1 \in A
  <2>1. PICK g \in [0..n -> V] : Begins(g, base, step, n)
    BY <1>2
  <2>. DEFINE h == [k \in 0..(n + 1) |-> IF k <= n THEN g[k] ELSE step[<<n, g[n]>>]]
  <2>2. h \in [0..(n + 1) -> V]
    BY <2>1
  <2>3. Begins(h, base, step, n + 1)
    <3>1. h[0] = base
      BY <2>1 DEF Begins
    <3>2. ASSUME NEW k \in Nat, k < n + 1 PROVE h[k + 1] = step[<<k, h[k]>>]
      <4>1. h[k] = g[k]
        BY <3>2
      <4>2. CASE k < n
        <5>1. h[k + 1] = g[k + 1]
          BY <4>2
        <5>. QED BY <4>1, <5>1, <4>2, <2>1 DEF Begins
      <4>3. CASE k = n
        <5>1. h[n + 1] = step[<<n, g[n]>>]
          <6>1. n + 1 \in 0..(n + 1) /\ ~(n + 1 <= n)
            OBVIOUS
          <6>. QED BY <6>1
        <5>. QED BY <4>1, <4>3, <5>1
      <4>. QED BY <3>2, <4>2, <4>3
    <3>. QED BY <3>1, <3>2 DEF Begins
  <2>. HIDE DEF h
  <2>. QED BY <2>2, <2>3
<1>3. Nat \subseteq A
  <2>. HIDE DEF A
  <2>. QED BY <1>1, <1>2, NatSet
<1>4. ASSUME NEW n \in Nat, NEW m \in Nat, n <= m, NEW g \in [0..n -> V], NEW h \in [0..m -> V],
             Begins(g, base, step, n), Begins(h, base, step, m)
      PROVE  g[n] = h[n]
  <2>. DEFINE S == {k \in Nat : k <= n => g[k] = h[k]}
  <2>1. 0 \in S
    BY <1>4 DEF Begins
  <2>2. ASSUME NEW k \in Nat, k \in S PROVE k + 1 \in S
    <3>. SUFFICES ASSUME k < n PROVE g[k + 1] = h[k + 1]
      OBVIOUS
    <3>1. g[k] = h[k]
      BY <2>2
    <3>2. g[k + 1] = step[<<k, g[k]>>] /\ h[k + 1] = step[<<k, h[k]>>]
      BY <1>4 DEF Begins
    <3>. QED BY <3>1, <3>2
  <2>3. Nat \subseteq S
    <3>. HIDE DEF S
    <3>. QED BY <2>1, <2>2, NatSet
  <2>. QED BY <2>3
<1>. DEFINE G(n) == CHOOSE g \in [0..n -> V] : Begins(g, base, step, n)
<1>. DEFINE f == [n \in Nat |-> G(n)[n]]
<1>5. \A n \in Nat : G(n) \in [0..n -> V] /\ Begins(G(n), base, step, n)
  <2>. TAKE n \in Nat
  <2>1. \E g \in [0..n -> V] : Begins(g, base, step, n)
    BY <1>3
  <2>. QED BY <2>1
<1>. HIDE DEF G, A
<1>6. f \in [Nat -> V]
  BY <1>5
<1>7. f[0] = base
  BY <1>5 DEF Begins
<1>8. ASSUME NEW n \in Nat PROVE f[n + 1] = step[<<n, f[n]>>]
  <2>1. G(n + 1)[n + 1] = step[<<n, G(n + 1)[n]>>]
    BY <1>5 DEF Begins
  <2>2. G(n)[n] = G(n + 1)[n]
    BY <1>5, <1>4
  <2>. QED BY <2>1, <2>2
<1>. HIDE DEF f
<1>9. Recursion(f, V, base, step)
  BY <1>6, <1>7, <1>8 DEF Recursion
<1>. QED BY <1>9

\* The maximum of a finite set of naturals is its greatest element.
LEMMA MaxIs ==
  ASSUME NEW n \in Nat, NEW t, t \subseteq 1..n, t # {}
  PROVE  Max(t) \in t /\ \A y \in t : Max(t) >= y
<1>. DEFINE U == {b \in Nat : \A y \in t : b >= y}
<1>1. n \in U
  OBVIOUS
<1>2. PICK m \in U : \A b \in U : m <= b
  BY <1>1, LeastNat
<1>3. m \in t
  <2>. SUFFICES ASSUME m \notin t PROVE FALSE
    OBVIOUS
  <2>1. PICK y \in t : TRUE
    OBVIOUS
  <2>2. y \in Nat /\ y < m
    BY <1>2, <2>1
  <2>3. m - 1 \in U
    BY <1>2, <2>2
  <2>. QED BY <1>2, <2>3
<1>. QED BY <1>2, <1>3 DEF Max

\* The maximum of 1..k, and what is left without it.
LEMMA MaxOfRange == ASSUME NEW k \in Nat, k # 0 PROVE Max(1..k) = k /\ (1..k) \ {k} = 1..(k-1)
<1>1. 1..k # {} /\ k \in 1..k
  OBVIOUS
<1>2. Max(1..k) \in 1..k /\ \A y \in 1..k : Max(1..k) >= y
  BY <1>1, MaxIs
<1>3. Max(1..k) >= k /\ Max(1..k) <= k /\ Max(1..k) \in Nat
  BY <1>1, <1>2
<1>. QED BY <1>3

\* Taking the maximum out of a set of positions.
LEMMA WithoutMax ==
  ASSUME NEW n \in Nat, NEW t, t \subseteq 1..n, t # {}
  PROVE  /\ Max(t) \in 1..n /\ t \ {Max(t)} \subseteq 1..n
         /\ \A k \in Nat : t \subseteq 1..(k + 1) => t \ {Max(t)} \subseteq 1..k
<1>1. Max(t) \in t /\ \A y \in t : Max(t) >= y
  BY MaxIs
<1>2. ASSUME NEW k \in Nat, t \subseteq 1..(k + 1), NEW y \in t, y # Max(t) PROVE y \in 1..k
  <2>1. y \in 1..(k + 1) /\ Max(t) \in 1..(k + 1)
    BY <1>1, <1>2
  <2>2. Max(t) >= y
    BY <1>1
  <2>. QED BY <2>1, <2>2, <1>2
<1>. QED BY <1>1, <1>2

\* What the iterator of the fold over 1..n has to be.
Iterates(iter, V, base, n, step) ==
  /\ iter \in [SUBSET (1..n) -> V]
  /\ iter = [t \in SUBSET (1..n) |->
               IF t = {} THEN base ELSE step[<<Max(t), iter[t \ {Max(t)}]>>]]

\* The iterator that the community fold over 1..n chooses exists.
LEMMA FoldIter ==
  ASSUME NEW V, NEW base \in V, NEW n \in Nat, NEW step \in [(1..n) \X V -> V]
  PROVE  \E iter : Iterates(iter, V, base, n, step)
<1>. DEFINE P == SUBSET (1..n)
            W == [P -> V]
            up == [F \in W |-> [t \in P |-> IF t = {} THEN base
                                            ELSE step[<<Max(t), F[t \ {Max(t)}]>>]]]
            next == [x \in Nat \X W |-> up[x[2]]]
            first == [t \in P |-> base]
<1>1. \A t \in P : t # {} => Max(t) \in 1..n /\ t \ {Max(t)} \in P
  BY WithoutMax
<1>2. \A F \in W : up[F] \in W
  BY <1>1
<1>3. next \in [Nat \X W -> W]
  BY <1>2
<1>4. \A k \in Nat, F \in W : next[<<k, F>>] = up[F]
  OBVIOUS
<1>5. first \in W
  OBVIOUS
<1>13. \A F \in W : up[F] = [t \in P |-> IF t = {} THEN base
                                            ELSE step[<<Max(t), F[t \ {Max(t)}]>>]]
  OBVIOUS
<1>14. \A F \in W, t \in P : t # {} => up[F][t] = step[<<Max(t), F[t \ {Max(t)}]>>]
  <2>. TAKE F \in W, t \in P
  <2>. HIDE DEF P, W
  <2>. QED BY DEF up
<1>15. \A F \in W : up[F][{}] = base
  OBVIOUS
<1>. HIDE DEF W, next, up, first
<1>6. PICK G \in [Nat -> W] : G[0] = first /\ \A k \in Nat : G[k + 1] = next[<<k, G[k]>>]
  <2>1. PICK G : Recursion(G, W, first, next)
    BY <1>3, <1>5, NatRec, Zenon
  <2>. QED BY <2>1 DEF Recursion
<1>7. \A k \in Nat : G[k] \in W /\ G[k + 1] = up[G[k]]
  BY <1>4, <1>6
<1>. DEFINE S == {k \in Nat : \A t \in P : t \subseteq 1..k => G[k + 1][t] = G[k][t]}
<1>8. 0 \in S
  <2>1. G[0 + 1] = up[G[0]] /\ G[0] \in W
    BY <1>7
  <2>2. up[G[0]][{}] = base
    BY <2>1, <1>15
  <2>4. G[0][{}] = base
    BY <1>6 DEF first
  <2>3. 1..0 = {}
    OBVIOUS
  <2>. QED BY <2>1, <2>2, <2>3, <2>4
<1>9. ASSUME NEW k \in Nat, k \in S PROVE k + 1 \in S
  <2>. SUFFICES ASSUME NEW t \in P, t \subseteq 1..(k + 1) PROVE G[(k + 1) + 1][t] = G[k + 1][t]
    OBVIOUS
  <2>1. /\ G[(k + 1) + 1] = up[G[k + 1]] /\ G[k + 1] = up[G[k]]
        /\ G[k + 1] \in W /\ G[k] \in W
    <3>1. k + 1 \in Nat
      OBVIOUS
    <3>. QED BY <1>7, <3>1
  <2>2. CASE t = {}
    <3>1. up[G[k + 1]][t] = base /\ up[G[k]][t] = base
      BY <2>1, <2>2, <1>15
    <3>. QED BY <2>1, <3>1
  <2>3. CASE t # {}
    <3>1. t \ {Max(t)} \subseteq 1..k /\ t \ {Max(t)} \in P
      BY <2>3, WithoutMax
    <3>2. G[k + 1][t \ {Max(t)}] = G[k][t \ {Max(t)}]
      BY <3>1, <1>9
    <3>3. /\ up[G[k + 1]][t] = step[<<Max(t), G[k + 1][t \ {Max(t)}]>>]
          /\ up[G[k]][t] = step[<<Max(t), G[k][t \ {Max(t)}]>>]
      BY <2>3, <1>14, <2>1
    <3>. QED BY <2>1, <3>2, <3>3
  <2>. QED BY <2>2, <2>3
<1>10. Nat \subseteq S
  <2>. HIDE DEF S
  <2>. QED BY <1>8, <1>9, NatSet
<1>11. \A t \in P : up[G[n]][t] = G[n][t]
  <2>1. n \in S /\ G[n + 1] = up[G[n]]
    BY <1>7, <1>10
  <2>. QED BY <2>1
<1>12. G[n] = up[G[n]]
  <2>1. G[n] \in [P -> V] /\ up[G[n]] \in [P -> V]
    BY <1>2, <1>7 DEF W
  <2>. HIDE DEF P
  <2>. QED BY <1>11, <2>1
<1>16. G[n] \in W
  BY <1>7
<1>17. G[n] = [t \in P |-> IF t = {} THEN base ELSE step[<<Max(t), G[n][t \ {Max(t)}]>>]]
  BY <1>12, <1>13, <1>16
<1>18. Iterates(G[n], V, base, n, step)
  BY <1>16, <1>17 DEF W, Iterates
<1>. QED BY <1>18

-----------------------------------------------------------------------------
(* The fold of a sequence.                                                 *)

\* The fold of s as a function of the number of its elements that are folded.
Partial(r, V, base, apply, s) ==
  /\ r \in [0..Len(s) -> V]
  /\ r[0] = base
  /\ \A k \in 1..Len(s) : r[k] = apply[<<r[k - 1], s[k]>>]

\* The fold of s.
Folded(V, base, apply, s) == (CHOOSE r : Partial(r, V, base, apply, s))[Len(s)]

\* Two partial folds agree as far as their sequences do.
LEMMA PartialUnique ==
  ASSUME NEW V, NEW E, NEW base, NEW apply, NEW s \in Seq(E), NEW t \in Seq(E),
         NEW r, NEW q, Partial(r, V, base, apply, s), Partial(q, V, base, apply, t),
         Len(s) <= Len(t), \A i \in 1..Len(s) : s[i] = t[i]
  PROVE  r[Len(s)] = q[Len(s)]
<1>. DEFINE S == {k \in Nat : k <= Len(s) => r[k] = q[k]}
<1>0. Len(s) \in Nat /\ Len(t) \in Nat
  OBVIOUS
<1>1. 0 \in S
  BY DEF Partial
<1>2. ASSUME NEW k \in Nat, k \in S PROVE k + 1 \in S
  <2>. SUFFICES ASSUME k + 1 <= Len(s) PROVE r[k + 1] = q[k + 1]
    OBVIOUS
  <2>1. k + 1 \in 1..Len(s) /\ k + 1 \in 1..Len(t) /\ (k + 1) - 1 = k
    BY <1>0
  <2>2. r[k + 1] = apply[<<r[(k + 1) - 1], s[k + 1]>>] /\ q[k + 1] = apply[<<q[(k + 1) - 1], t[k + 1]>>]
    BY <2>1 DEF Partial
  <2>3. r[k] = q[k] /\ s[k + 1] = t[k + 1]
    BY <1>2, <2>1, <1>0
  <2>. QED BY <2>1, <2>2, <2>3
<1>3. Nat \subseteq S
  <2>. HIDE DEF S
  <2>. QED BY <1>1, <1>2, NatSet
<1>. QED BY <1>3, <1>0

\* r takes the elements of s one by one, as long as it stays in V.
Runs(r, V, base, apply, s) ==
  /\ r[0] = base
  /\ \A k \in 1..Len(s) : r[k - 1] \in V => r[k] = apply[<<r[k - 1], s[k]>>]

\* Whatever takes one element at a time is the fold.
LEMMA FoldedIs ==
  ASSUME NEW V, NEW E, NEW base \in V, NEW apply \in [V \X E -> V], NEW s \in Seq(E),
         NEW r, Runs(r, V, base, apply, s)
  PROVE  r[Len(s)] = Folded(V, base, apply, s)
<1>. USE DEF Runs
<1>0. Len(s) \in Nat /\ \A k \in 1..Len(s) : s[k] \in E
  OBVIOUS
<1>. DEFINE S == {k \in Nat : k <= Len(s) => r[k] \in V}
<1>1. 0 \in S
  OBVIOUS
<1>2. ASSUME NEW k \in Nat, k \in S PROVE k + 1 \in S
  <2>. SUFFICES ASSUME k + 1 <= Len(s) PROVE r[k + 1] \in V
    OBVIOUS
  <2>1. k + 1 \in 1..Len(s) /\ (k + 1) - 1 = k /\ r[k] \in V
    BY <1>0, <1>2
  <2>2. r[k + 1] = apply[<<r[k], s[k + 1]>>]
    BY <2>1
  <2>. QED BY <2>1, <2>2, <1>0
<1>3. Nat \subseteq S
  <2>. HIDE DEF S
  <2>. QED BY <1>1, <1>2, NatSet
<1>. DEFINE q == [k \in 0..Len(s) |-> r[k]]
<1>4. Partial(q, V, base, apply, s)
  <2>1. \A k \in 0..Len(s) : r[k] \in V
    BY <1>3, <1>0
  <2>2. \A k \in 1..Len(s) : k \in 0..Len(s) /\ k - 1 \in 0..Len(s)
    BY <1>0
  <2>. QED BY <2>1, <2>2, <1>0 DEF Partial
<1>. DEFINE c == CHOOSE x : Partial(x, V, base, apply, s)
<1>5. Partial(c, V, base, apply, s)
  BY <1>4, Zenon
<1>. HIDE DEF c, q
<1>6. c[Len(s)] = q[Len(s)]
  <2>1. Len(s) <= Len(s) /\ Len(s) \in 0..Len(s)
    BY <1>0
  <2>2. \A i \in 1..Len(s) : s[i] = s[i]
    OBVIOUS
  <2>. QED BY <1>4, <1>5, <2>1, <2>2, PartialUnique
<1>7. q[Len(s)] = r[Len(s)]
  BY <1>0 DEF q
<1>. QED BY <1>6, <1>7 DEF Folded, c

\* Every sequence has a partial fold.
LEMMA PartialExists ==
  ASSUME NEW V, NEW E, NEW base \in V, NEW apply \in [V \X E -> V], NEW s \in Seq(E)
  PROVE  \E r : Partial(r, V, base, apply, s)
<1>0. Len(s) \in Nat /\ \A k \in 1..Len(s) : s[k] \in E
  OBVIOUS
<1>. DEFINE step == [x \in Nat \X V |-> IF x[1] < Len(s) THEN apply[<<x[2], s[x[1] + 1]>>] ELSE x[2]]
<1>1. step \in [Nat \X V -> V]
  BY <1>0
<1>2. \A k \in Nat, v \in V : k < Len(s) => step[<<k, v>>] = apply[<<v, s[k + 1]>>]
  OBVIOUS
<1>. HIDE DEF step
<1>3. PICK f : Recursion(f, V, base, step)
  BY <1>1, NatRec, Zenon
<1>. DEFINE r == [k \in 0..Len(s) |-> f[k]]
<1>4. r \in [0..Len(s) -> V] /\ r[0] = base
  BY <1>3, <1>0 DEF Recursion
<1>5. ASSUME NEW k \in 1..Len(s) PROVE r[k] = apply[<<r[k - 1], s[k]>>]
  <2>1. k - 1 \in Nat /\ k - 1 < Len(s) /\ (k - 1) + 1 = k /\ k - 1 \in 0..Len(s) /\ k \in 0..Len(s)
    BY <1>0
  <2>2. f[k - 1] \in V
    BY <2>1, <1>3 DEF Recursion
  <2>3. f[(k - 1) + 1] = step[<<k - 1, f[k - 1]>>]
    BY <2>1, <1>3 DEF Recursion
  <2>. QED BY <2>1, <2>2, <2>3, <1>2
<1>. HIDE DEF r
<1>6. Partial(r, V, base, apply, s)
  BY <1>4, <1>5 DEF Partial
<1>. QED BY <1>6

\* What a fold is.
FoldLaws(V, E, base, apply, s) ==
  /\ Folded(V, base, apply, s) \in V
  /\ Folded(V, base, apply, <<>>) = base
  /\ \A e \in E : Folded(V, base, apply, Append(s, e)) = apply[<<Folded(V, base, apply, s), e>>]

\* A fold of nothing is the base; of one element more, one more application.
LEMMA FoldedSteps ==
  ASSUME NEW V, NEW E, NEW base \in V, NEW apply \in [V \X E -> V], NEW s \in Seq(E)
  PROVE  FoldLaws(V, E, base, apply, s)
<1>. DEFINE c(t) == CHOOSE r : Partial(r, V, base, apply, t)
<1>1. \A t \in Seq(E) : Partial(c(t), V, base, apply, t) /\ Folded(V, base, apply, t) = c(t)[Len(t)]
  BY PartialExists, Zenon DEF Folded
<1>. HIDE DEF c
<1>2. Folded(V, base, apply, s) \in V
  BY <1>1 DEF Partial
<1>3. Folded(V, base, apply, <<>>) = base
  <2>1. <<>> \in Seq(E) /\ Len(<<>>) = 0
    OBVIOUS
  <2>. QED BY <2>1, <1>1 DEF Partial
<1>4. ASSUME NEW e \in E PROVE Folded(V, base, apply, Append(s, e)) = apply[<<Folded(V, base, apply, s), e>>]
  <2>. DEFINE t == Append(s, e)
  <2>1. t \in Seq(E) /\ Len(t) = Len(s) + 1 /\ t[Len(s) + 1] = e /\ Len(s) \in Nat
        /\ \A i \in 1..Len(s) : t[i] = s[i]
    OBVIOUS
  <2>. HIDE DEF t
  <2>2. c(t)[Len(s) + 1] = apply[<<c(t)[Len(s)], e>>]
    <3>1. Len(s) + 1 \in 1..Len(t) /\ (Len(s) + 1) - 1 = Len(s)
      BY <2>1
    <3>. QED BY <3>1, <2>1, <1>1 DEF Partial
  <2>3. c(s)[Len(s)] = c(t)[Len(s)]
    <3>1. Partial(c(s), V, base, apply, s) /\ Partial(c(t), V, base, apply, t)
      BY <1>1, <2>1
    <3>2. Len(s) <= Len(t) /\ Len(s) \in 0..Len(s)
      BY <2>1
    <3>3. \A i \in 1..Len(s) : s[i] = t[i]
      BY <2>1
    <3>. QED BY <2>1, <3>1, <3>2, <3>3, PartialUnique
  <2>4. Folded(V, base, apply, t) = apply[<<Folded(V, base, apply, s), e>>]
    BY <1>1, <2>1, <2>2, <2>3
  <2>. QED BY <2>4 DEF t
<1>. QED BY <1>2, <1>3, <1>4 DEF FoldLaws

-----------------------------------------------------------------------------
(* FoldLeft is such a fold, for any operator.                              *)

\* What the recursive function in FoldLeft has to be.
Sound(iter, V, base, apply, s) ==
  /\ iter \in [SUBSET (1..Len(s)) -> V]
  /\ iter[{}] = base
  /\ \A t \in SUBSET (1..Len(s)) : t # {} =>
       /\ Max(t) \in 1..Len(s)
       /\ iter[t \ {Max(t)}] \in V
       /\ iter[t] = apply[<<iter[t \ {Max(t)}], s[Max(t)]>>]

\* The same as equations, one position at a time.
Stepwise(iter, V, base, apply, s) ==
  /\ iter[{}] = base
  /\ \A t \in SUBSET (1..Len(s)) : t # {} /\ iter[t \ {Max(t)}] \in V =>
       iter[t] = apply[<<iter[t \ {Max(t)}], s[Max(t)]>>]

\* What it is when all positions are folded.
AtEnd(iter, s) == iter[1..Len(s)]

\* The recursive function that FoldLeft chooses exists.
LEMMA IterExists ==
  ASSUME NEW V, NEW E, NEW base \in V, NEW apply \in [V \X E -> V], NEW s \in Seq(E)
  PROVE  \E iter : Sound(iter, V, base, apply, s)
<1>. DEFINE n == Len(s)
            step == [x \in (1..n) \X V |-> apply[<<x[2], s[x[1]]>>]]
<1>1. n \in Nat /\ \A k \in 1..n : s[k] \in E
  OBVIOUS
<1>2. step \in [(1..n) \X V -> V]
  BY <1>1
<1>3. \A k \in 1..n, v \in V : step[<<k, v>>] = apply[<<v, s[k]>>]
  OBVIOUS
<1>. HIDE DEF n, step
<1>4. PICK iter : Iterates(iter, V, base, n, step)
  BY <1>1, <1>2, FoldIter, Zenon
<1>5. iter[{}] = base
  BY <1>4 DEF Iterates
<1>6. ASSUME NEW t \in SUBSET (1..n), t # {}
      PROVE  /\ Max(t) \in 1..n
             /\ iter[t \ {Max(t)}] \in V
             /\ iter[t] = apply[<<iter[t \ {Max(t)}], s[Max(t)]>>]
  <2>1. Max(t) \in 1..n /\ t \ {Max(t)} \in SUBSET (1..n)
    BY <1>1, <1>6, WithoutMax
  <2>2. iter[t \ {Max(t)}] \in V
    BY <1>4, <2>1 DEF Iterates
  <2>3. iter[t] = step[<<Max(t), iter[t \ {Max(t)}]>>]
    BY <1>4, <1>6 DEF Iterates
  <2>. QED BY <2>1, <2>2, <2>3, <1>3
<1>7. iter \in [SUBSET (1..n) -> V]
  BY <1>4 DEF Iterates
<1>8. Sound(iter, V, base, apply, s)
  BY <1>5, <1>6, <1>7 DEF n, Sound
<1>. QED BY <1>8

\* What that function is at all the positions of s is the fold of s.
LEMMA IterFolded ==
  ASSUME NEW V, NEW E, NEW base \in V, NEW apply \in [V \X E -> V], NEW s \in Seq(E),
         NEW iter, Stepwise(iter, V, base, apply, s)
  PROVE  AtEnd(iter, s) = Folded(V, base, apply, s)
<1>. USE DEF AtEnd
<1>. DEFINE n == Len(s)
            r == [k \in 0..n |-> iter[1..k]]
<1>1. n \in Nat
  OBVIOUS
<1>2. ASSUME NEW k \in 1..n, iter[1..(k - 1)] \in V
      PROVE  iter[1..k] = apply[<<iter[1..(k - 1)], s[k]>>]
  <2>1. k \in Nat /\ k >= 1 /\ k <= n
    BY <1>1
  <2>2. k \in 1..k
    BY <2>1
  <2>3. \A i \in 1..k : i \in 1..n
    BY <2>1, <1>1
  <2>4. Max(1..k) = k /\ (1..k) \ {k} = 1..(k - 1)
    BY <2>1, MaxOfRange
  <2>. DEFINE t == 1..k
  <2>5. t \in SUBSET (1..n) /\ t # {} /\ Max(t) = k /\ t \ {Max(t)} = 1..(k - 1)
    BY <2>2, <2>3, <2>4
  <2>. HIDE DEF t
  <2>6. iter[t] = apply[<<iter[t \ {Max(t)}], s[Max(t)]>>]
    BY <2>5, <1>2 DEF Stepwise
  <2>. QED BY <2>5, <2>6 DEF t
<1>3. r[0] = base
  <2>1. 1..0 = {} /\ 0 \in 0..n
    BY <1>1
  <2>. QED BY <2>1 DEF Stepwise
<1>4. \A k \in 1..n : r[k - 1] \in V => r[k] = apply[<<r[k - 1], s[k]>>]
  <2>. TAKE k \in 1..n
  <2>1. r[k] = iter[1..k] /\ r[k - 1] = iter[1..(k - 1)]
    BY <1>1
  <2>. QED BY <2>1, <1>2
<1>5. r[n] = iter[1..n]
  BY <1>1
<1>. HIDE DEF r
<1>6. Runs(r, V, base, apply, s)
  BY <1>3, <1>4 DEF Runs, n
<1>7. r[n] = Folded(V, base, apply, s)
  BY <1>6, FoldedIs DEF n
<1>. QED BY <1>5, <1>7 DEF n

-----------------------------------------------------------------------------
(* Visits.                                                                 *)

\* The states of a walk, and a visit as a function on them.
VisitStates == [visited : SUBSET Vertices, next : Seq(Vertices)]
VisitOp == [x \in VisitStates \X Vertices |-> Visit(x[1], x[2])]

\* A visit keeps the type of the state (Reach).
LEMMA VisitType ==
  ASSUME NEW st \in VisitStates, NEW v \in Vertices
  PROVE  Visit(st, v) \in VisitStates
  BY DEF Visit, VisitStates

\* A visit as a function.
LEMMA VisitOpType ==
  /\ VisitOp \in [VisitStates \X Vertices -> VisitStates]
  /\ \A st \in VisitStates, v \in Vertices : VisitOp[<<st, v>>] = Visit(st, v)
  BY VisitType DEF VisitOp

\* The model's fold of visits is the fold above.
LEMMA VisitFolds ==
  ASSUME NEW b \in VisitStates, NEW s \in Seq(Vertices)
  PROVE  FoldLeft(Visit, b, s) = Folded(VisitStates, b, VisitOp, s)
<1>. DEFINE P(I) == I = [t \in SUBSET (1..Len(s)) |->
                           IF t = {} THEN b ELSE Visit(I[t \ {Max(t)}], s[Max(t)])]
            iter == CHOOSE I : P(I)
<1>1. DOMAIN s = 1..Len(s) /\ \A k \in 1..Len(s) : s[k] \in Vertices
  OBVIOUS
<1>2. PICK I : Sound(I, VisitStates, b, VisitOp, s)
  BY VisitOpType, IterExists
<1>3. P(I)
  BY <1>1, <1>2, VisitOpType DEF Sound
<1>4. P(iter)
  <2>. HIDE DEF P
  <2>. QED BY <1>3
<1>5. FoldLeft(Visit, b, s) = iter[1..Len(s)]
  BY <1>1 DEF FoldLeft, MapThenFoldSet
<1>. HIDE DEF iter
<1>6. iter[{}] = b
  BY <1>4
<1>7. \A t \in SUBSET (1..Len(s)) : t # {} /\ iter[t \ {Max(t)}] \in VisitStates =>
        iter[t] = VisitOp[<<iter[t \ {Max(t)}], s[Max(t)]>>]
  <2>. TAKE t \in SUBSET (1..Len(s))
  <2>. HAVE t # {} /\ iter[t \ {Max(t)}] \in VisitStates
  <2>1. iter[t] = Visit(iter[t \ {Max(t)}], s[Max(t)])
    BY <1>4
  <2>. QED BY <2>1, <1>1, <1>2, VisitOpType DEF Sound
<1>8. Stepwise(iter, VisitStates, b, VisitOp, s)
  BY <1>6, <1>7 DEF Stepwise
<1>9. AtEnd(iter, s) = Folded(VisitStates, b, VisitOp, s)
  <2>1. VisitOp \in [VisitStates \X Vertices -> VisitStates]
    BY VisitOpType
  <2>. HIDE DEF P
  <2>. QED BY <1>8, <2>1, IterFolded
<1>. QED BY <1>5, <1>9 DEF AtEnd

-----------------------------------------------------------------------------
(* Sequences.                                                              *)

\* Induction over sequences in first-order form.
LEMMA SeqSet ==
  ASSUME NEW E, NEW S, <<>> \in S,
         \A s \in Seq(E), e \in E : s \in S => Append(s, e) \in S
  PROVE  Seq(E) \subseteq S
<1>. DEFINE A == {n \in Nat : \A s \in Seq(E) : Len(s) = n => s \in S}
<1>1. 0 \in A
  <2>1. \A s \in Seq(E) : Len(s) = 0 => s = <<>>
    OBVIOUS
  <2>. QED BY <2>1
<1>2. ASSUME NEW n \in Nat, n \in A PROVE n + 1 \in A
  <2>. SUFFICES ASSUME NEW s \in Seq(E), Len(s) = n + 1 PROVE s \in S
    OBVIOUS
  <2>. DEFINE t == SubSeq(s, 1, n)
  <2>1. t \in Seq(E) /\ Len(t) = n /\ s[n + 1] \in E
    OBVIOUS
  <2>2. s = Append(t, s[n + 1])
    OBVIOUS
  <2>3. t \in S
    BY <2>1, <1>2
  <2>. HIDE DEF t
  <2>. QED BY <2>1, <2>2, <2>3
<1>3. Nat \subseteq A
  <2>. HIDE DEF A
  <2>. QED BY <1>1, <1>2, NatSet
<1>. QED BY <1>3

\* A prefix one longer has the next element more.
LEMMA PrefixStep ==
  ASSUME NEW E, NEW s \in Seq(E), NEW k \in Nat, k < Len(s)
  PROVE  /\ SubSeq(s, 1, k + 1) = Append(SubSeq(s, 1, k), s[k + 1])
         /\ SubSeq(s, 1, k) \in Seq(E) /\ s[k + 1] \in E
  OBVIOUS

\* What a prefix is.
LEMMA PrefixLen ==
  ASSUME NEW E, NEW s \in Seq(E), NEW k \in Nat, k <= Len(s)
  PROVE  /\ SubSeq(s, 1, k) \in Seq(E) /\ Len(SubSeq(s, 1, k)) = k
         /\ \A i \in 1..k : SubSeq(s, 1, k)[i] = s[i]
  OBVIOUS

\* s goes on from p.
Extends(s, p, E) == \E t \in Seq(E) : s = p \o t

\* A longer prefix goes on from a shorter one.
LEMMA PrefixCat ==
  ASSUME NEW E, NEW s \in Seq(E), NEW k \in Nat, NEW n \in Nat, k <= n, n <= Len(s)
  PROVE  Extends(SubSeq(s, 1, n), SubSeq(s, 1, k), E)
<1>1. SubSeq(s, k + 1, n) \in Seq(E) /\ Len(SubSeq(s, k + 1, n)) = n - k
  OBVIOUS
<1>2. SubSeq(s, 1, n) = SubSeq(s, 1, k) \o SubSeq(s, k + 1, n)
  OBVIOUS
<1>. QED BY <1>1, <1>2 DEF Extends

\* The longest prefix is the sequence.
LEMMA SubSeqAll == ASSUME NEW E, NEW s \in Seq(E) PROVE SubSeq(s, 1, Len(s)) = s
  OBVIOUS

\* Concatenation is associative.
LEMMA CatAssoc ==
  ASSUME NEW E, NEW s \in Seq(E), NEW t \in Seq(E), NEW u \in Seq(E)
  PROVE  (s \o t) \o u = s \o (t \o u) /\ s \o t \in Seq(E)
  OBVIOUS

\* Appending to the second of two is appending to both.
LEMMA CatAppend ==
  ASSUME NEW E, NEW s \in Seq(E), NEW t \in Seq(E), NEW e \in E
  PROVE  s \o Append(t, e) = Append(s \o t, e) /\ s \o t \in Seq(E) /\ Append(t, e) \in Seq(E)
  OBVIOUS

\* Concatenating nothing.
LEMMA CatEmpty == ASSUME NEW E, NEW s \in Seq(E) PROVE s \o <<>> = s /\ <<>> \o s = s
  OBVIOUS

\* The fold of Visit from any state.
VF(b, s) == FoldLeft(Visit, b, s)

\* The fold of visits, one vertex at a time.
LEMMA VFSteps ==
  ASSUME NEW b \in VisitStates
  PROVE  /\ VF(b, <<>>) = b
         /\ \A s \in Seq(Vertices) : VF(b, s) \in VisitStates
         /\ \A s \in Seq(Vertices), v \in Vertices : VF(b, Append(s, v)) = Visit(VF(b, s), v)
<1>0. VisitOp \in [VisitStates \X Vertices -> VisitStates]
  BY VisitOpType
<1>1. ASSUME NEW s \in Seq(Vertices)
      PROVE  /\ VF(b, s) = Folded(VisitStates, b, VisitOp, s)
             /\ Folded(VisitStates, b, VisitOp, s) \in VisitStates
             /\ Folded(VisitStates, b, VisitOp, <<>>) = b
             /\ \A e \in Vertices : Folded(VisitStates, b, VisitOp, Append(s, e)) =
                           VisitOp[<<Folded(VisitStates, b, VisitOp, s), e>>]
  <2>1. VF(b, s) = Folded(VisitStates, b, VisitOp, s)
    BY VisitFolds DEF VF
  <2>2. FoldLaws(VisitStates, Vertices, b, VisitOp, s)
    BY <1>0, FoldedSteps
  <2>. QED BY <2>1, <2>2 DEF FoldLaws
<1>2. <<>> \in Seq(Vertices)
  OBVIOUS
<1>3. \A s \in Seq(Vertices), v \in Vertices : Append(s, v) \in Seq(Vertices)
  OBVIOUS
<1>4. \A s \in Seq(Vertices), v \in Vertices : VF(b, Append(s, v)) = Visit(VF(b, s), v)
  <2>. TAKE s \in Seq(Vertices), v \in Vertices
  <2>1. Append(s, v) \in Seq(Vertices)
    BY <1>3
  <2>. QED BY <2>1, <1>1, VisitOpType
<1>. QED BY <1>1, <1>2, <1>4

\* Visiting one list after another is visiting both.
LEMMA VFCat ==
  ASSUME NEW b \in VisitStates, NEW s \in Seq(Vertices)
  PROVE  \A t \in Seq(Vertices) : VF(b, s \o t) = VF(VF(b, s), t)
<1>. DEFINE S == {t \in Seq(Vertices) : VF(b, s \o t) = VF(VF(b, s), t)}
<1>0. VF(b, s) \in VisitStates
  BY VFSteps
<1>1. <<>> \in S
  <2>1. s \o <<>> = s /\ <<>> \in Seq(Vertices)
    BY CatEmpty
  <2>. QED BY <2>1, <1>0, VFSteps
<1>2. ASSUME NEW t \in Seq(Vertices), NEW v \in Vertices, t \in S PROVE Append(t, v) \in S
  <2>1. s \o Append(t, v) = Append(s \o t, v) /\ s \o t \in Seq(Vertices) /\ Append(t, v) \in Seq(Vertices)
    BY CatAppend
  <2>2. VF(b, Append(s \o t, v)) = Visit(VF(b, s \o t), v)
    BY <2>1, VFSteps
  <2>3. VF(VF(b, s), Append(t, v)) = Visit(VF(VF(b, s), t), v)
    BY <1>0, VFSteps
  <2>. QED BY <2>1, <2>2, <2>3, <1>2
<1>. HIDE DEF S
<1>3. Seq(Vertices) \subseteq S
  BY <1>1, <1>2, SeqSet
<1>. QED BY <1>3 DEF S

\* What is to be expanded next does not depend on what already was.
LEMMA VFShift ==
  ASSUME NEW V \in SUBSET Vertices, NEW N \in Seq(Vertices)
  PROVE  \A t \in Seq(Vertices) :
           VF([visited |-> V, next |-> N], t) =
             [visited |-> VF([visited |-> V, next |-> <<>>], t).visited,
              next |-> N \o VF([visited |-> V, next |-> <<>>], t).next]
<1>. DEFINE b == [visited |-> V, next |-> N]
            z == [visited |-> V, next |-> <<>>]
            S == {t \in Seq(Vertices) : VF(b, t) =
                    [visited |-> VF(z, t).visited, next |-> N \o VF(z, t).next]}
<1>0. b \in VisitStates /\ z \in VisitStates
  BY DEF VisitStates
<1>1. <<>> \in S
  <2>1. N \o <<>> = N /\ <<>> \in Seq(Vertices)
    BY CatEmpty
  <2>2. VF(b, <<>>) = b /\ VF(z, <<>>) = z
    BY <1>0, VFSteps
  <2>. QED BY <2>1, <2>2
<1>2. ASSUME NEW t \in Seq(Vertices), NEW v \in Vertices, t \in S PROVE Append(t, v) \in S
  <2>0. Append(t, v) \in Seq(Vertices)
    OBVIOUS
  <2>1. VF(b, Append(t, v)) = Visit(VF(b, t), v) /\ VF(z, Append(t, v)) = Visit(VF(z, t), v)
    <3>. HIDE DEF b, z
    <3>. QED BY <1>0, VFSteps
  <2>2. VF(z, t) \in VisitStates
    <3>. HIDE DEF b, z
    <3>. QED BY <1>0, VFSteps
  <2>3. N \o Append(VF(z, t).next, v) = Append(N \o VF(z, t).next, v)
    BY <2>2 DEF VisitStates
  <2>4. VF(b, t) = [visited |-> VF(z, t).visited, next |-> N \o VF(z, t).next]
    BY <1>2
  <2>. HIDE DEF b, z
  <2>5. Visit(VF(b, t), v) = [visited |-> Visit(VF(z, t), v).visited, next |-> N \o Visit(VF(z, t), v).next]
    <3>1. CASE v \in VF(z, t).visited
      <4>1. Visit(VF(b, t), v) = VF(b, t) /\ Visit(VF(z, t), v) = VF(z, t)
        BY <2>4, <3>1 DEF Visit
      <4>. QED BY <4>1, <2>4
    <3>2. CASE v \notin VF(z, t).visited
      <4>1. Visit(VF(b, t), v) = [visited |-> VF(z, t).visited \cup {v},
                                  next |-> Append(N \o VF(z, t).next, v)]
        BY <2>4, <3>2 DEF Visit
      <4>2. Visit(VF(z, t), v) = [visited |-> VF(z, t).visited \cup {v},
                                  next |-> Append(VF(z, t).next, v)]
        BY <3>2 DEF Visit
      <4>3. /\ Visit(VF(z, t), v).visited = VF(z, t).visited \cup {v}
            /\ Visit(VF(z, t), v).next = Append(VF(z, t).next, v)
        BY <4>2
      <4>. QED BY <4>1, <4>3, <2>3
    <3>. QED BY <3>1, <3>2
  <2>. QED BY <2>0, <2>1, <2>5
<1>. HIDE DEF S
<1>3. Seq(Vertices) \subseteq S
  BY <1>1, <1>2, SeqSet
<1>. QED BY <1>3 DEF S

-----------------------------------------------------------------------------
(* Edges out of a list of vertices.                                        *)

\* One element of Only, and as a function.
Keep(S, x) == IF x[2] \in S THEN Append(x[1], x[2]) ELSE x[1]
OnlyOp(E, S) == [x \in Seq(E) \X E |-> Keep(S, x)]

\* That function does it.
OnlyOpOk(E, S) ==
  /\ OnlyOp(E, S) \in [Seq(E) \X E -> Seq(E)]
  /\ \A kept \in Seq(E), x \in E :
       OnlyOp(E, S)[<<kept, x>>] = IF x \in S THEN Append(kept, x) ELSE kept

\* Keeping an element or not, as a function.
LEMMA OnlyOpType ==
  ASSUME NEW E, NEW S
  PROVE  OnlyOpOk(E, S)
  BY DEF OnlyOp, Keep, OnlyOpOk

\* Only is such a fold.
LEMMA OnlyFolds ==
  ASSUME NEW E, NEW S, NEW s \in Seq(E)
  PROVE  Only(s, S) = Folded(Seq(E), <<>>, OnlyOp(E, S), s)
<1>. DEFINE P(I) == I = [t \in SUBSET (1..Len(s)) |->
                           IF t = {} THEN <<>>
                           ELSE IF s[Max(t)] \in S THEN Append(I[t \ {Max(t)}], s[Max(t)])
                                ELSE I[t \ {Max(t)}]]
            iter == CHOOSE I : P(I)
<1>1. DOMAIN s = 1..Len(s) /\ \A k \in 1..Len(s) : s[k] \in E
  OBVIOUS
<1>. DEFINE V == Seq(E)
            apply == OnlyOp(E, S)
<1>a. OnlyOpOk(E, S)
  BY OnlyOpType
<1>0. apply \in [V \X E -> V] /\ <<>> \in V
  BY <1>a, SMT DEF OnlyOpOk
<1>10. \A kept \in V, x \in E : apply[<<kept, x>>] = IF x \in S THEN Append(kept, x) ELSE kept
  BY <1>a, Zenon DEF OnlyOpOk
<1>. HIDE DEF V, apply
<1>2. PICK I : Sound(I, V, <<>>, apply, s)
  BY <1>0, IterExists
<1>3. P(I)
  BY <1>1, <1>2, <1>10 DEF Sound
<1>4. P(iter)
  <2>. HIDE DEF P
  <2>. QED BY <1>3
<1>5. Only(s, S) = iter[1..Len(s)]
  BY <1>1 DEF Only, FoldLeft, MapThenFoldSet
<1>. HIDE DEF iter
<1>6. iter[{}] = <<>>
  BY <1>4
<1>7. \A t \in SUBSET (1..Len(s)) : t # {} /\ iter[t \ {Max(t)}] \in V =>
        iter[t] = apply[<<iter[t \ {Max(t)}], s[Max(t)]>>]
  <2>. TAKE t \in SUBSET (1..Len(s))
  <2>. HAVE t # {} /\ iter[t \ {Max(t)}] \in V
  <2>1. iter[t] = IF s[Max(t)] \in S THEN Append(iter[t \ {Max(t)}], s[Max(t)])
                  ELSE iter[t \ {Max(t)}]
    BY <1>4
  <2>2. s[Max(t)] \in E
    BY <1>1, <1>2 DEF Sound
  <2>. QED BY <2>1, <2>2, <1>10
<1>8. Stepwise(iter, V, <<>>, apply, s)
  BY <1>6, <1>7 DEF Stepwise
<1>9. AtEnd(iter, s) = Folded(V, <<>>, apply, s)
  <2>. HIDE DEF P
  <2>. QED BY <1>0, <1>8, IterFolded
<1>. QED BY <1>5, <1>9 DEF AtEnd, V, apply

\* Only, one element at a time.
LEMMA OnlySteps ==
  ASSUME NEW E, NEW S
  PROVE  /\ Only(<<>>, S) = <<>>
         /\ \A s \in Seq(E) : Only(s, S) \in Seq(E)
         /\ \A s \in Seq(E), e \in E :
              Only(Append(s, e), S) = IF e \in S THEN Append(Only(s, S), e) ELSE Only(s, S)
<1>. DEFINE V == Seq(E)
            apply == OnlyOp(E, S)
<1>a. OnlyOpOk(E, S)
  BY OnlyOpType
<1>0. apply \in [V \X E -> V] /\ <<>> \in V
  BY <1>a, SMT DEF OnlyOpOk
<1>1. \A kept \in V, x \in E : apply[<<kept, x>>] = IF x \in S THEN Append(kept, x) ELSE kept
  BY <1>a, Zenon DEF OnlyOpOk
<1>2. \A s \in Seq(E) : Only(s, S) = Folded(V, <<>>, apply, s)
  BY OnlyFolds
<1>. HIDE DEF V, apply
<1>3. \A s \in Seq(E) : FoldLaws(V, E, <<>>, apply, s)
  BY <1>0, FoldedSteps
<1>4. <<>> \in Seq(E) /\ \A s \in Seq(E), e \in E : Append(s, e) \in Seq(E)
  OBVIOUS
<1>5. Only(<<>>, S) = <<>>
  BY <1>2, <1>3, <1>4 DEF FoldLaws
<1>6. \A s \in Seq(E) : Only(s, S) \in V
  BY <1>2, <1>3 DEF FoldLaws
<1>7. \A s \in Seq(E), e \in E :
        Only(Append(s, e), S) = IF e \in S THEN Append(Only(s, S), e) ELSE Only(s, S)
  <2>. TAKE s \in Seq(E), e \in E
  <2>1. Only(Append(s, e), S) = apply[<<Only(s, S), e>>]
    BY <1>2, <1>3, <1>4 DEF FoldLaws
  <2>. QED BY <2>1, <1>1, <1>6
<1>. QED BY <1>5, <1>6, <1>7 DEF V

\* The stored edges, and their destinations.
Edges == [dst : Vertices, type : Nat \ {EdgeTypeAny}]
Stored == [Vertices -> Seq(Edges)]
Dsts(s) == [i \in DOMAIN s |-> s[i].dst]

\* The edges out of a vertex are edges, and lead to vertices.
LEMMA OutType ==
  ASSUME NEW g \in Stored, NEW type, NEW v \in Vertices
  PROVE  /\ OutEdges(g, type, v) \in Seq(Edges)
         /\ Dsts(OutEdges(g, type, v)) \in Seq(Vertices)
<1>1. g[v] \in Seq(Edges)
  BY DEF Stored
<1>2. OutEdges(g, type, v) \in Seq(Edges)
  BY <1>1, OnlySteps DEF OutEdges
<1>3. \A s \in Seq(Edges) : Dsts(s) \in Seq(Vertices)
  <2>. TAKE s \in Seq(Edges)
  <2>1. DOMAIN s = 1..Len(s) /\ Len(s) \in Nat /\ \A i \in 1..Len(s) : s[i] \in Edges
    OBVIOUS
  <2>2. \A i \in 1..Len(s) : s[i].dst \in Vertices
    BY <2>1 DEF Edges
  <2>3. Dsts(s) \in [1..Len(s) -> Vertices]
    BY <2>1, <2>2 DEF Dsts
  <2>. QED BY <2>1, <2>3, SeqDef
<1>. QED BY <1>2, <1>3

\* The destinations of the edges of a list of vertices, in order.
Dest(g, type, s) == Destinations(g, type, s)
DestOp(g, type) == [x \in Seq(Vertices) \X Vertices |-> x[1] \o Dsts(OutEdges(g, type, x[2]))]

\* That function does it.
DestOpOk(g, type) ==
  /\ DestOp(g, type) \in [Seq(Vertices) \X Vertices -> Seq(Vertices)]
  /\ \A d \in Seq(Vertices), v \in Vertices :
       DestOp(g, type)[<<d, v>>] = d \o Dsts(OutEdges(g, type, v))

\* Appending the destinations of one vertex, as a function.
LEMMA DestOpType ==
  ASSUME NEW g \in Stored, NEW type
  PROVE  DestOpOk(g, type)
<1>1. \A v \in Vertices : Dsts(OutEdges(g, type, v)) \in Seq(Vertices)
  BY OutType
<1>2. \A d \in Seq(Vertices), v \in Vertices : d \o Dsts(OutEdges(g, type, v)) \in Seq(Vertices)
  BY <1>1
<1>3. DestOp(g, type) \in [Seq(Vertices) \X Vertices -> Seq(Vertices)]
  BY <1>2 DEF DestOp
<1>4. \A d \in Seq(Vertices), v \in Vertices :
       DestOp(g, type)[<<d, v>>] = d \o Dsts(OutEdges(g, type, v))
  BY DEF DestOp
<1>. QED BY <1>3, <1>4 DEF DestOpOk

\* The destinations of a list are such a fold.
LEMMA DestFolds ==
  ASSUME NEW g \in Stored, NEW type, NEW s \in Seq(Vertices)
  PROVE  Dest(g, type, s) = Folded(Seq(Vertices), <<>>, DestOp(g, type), s)
<1>. DEFINE P(I) == I = [t \in SUBSET (1..Len(s)) |->
                           IF t = {} THEN <<>>
                           ELSE I[t \ {Max(t)}] \o Dsts(OutEdges(g, type, s[Max(t)]))]
            iter == CHOOSE I : P(I)
<1>1. DOMAIN s = 1..Len(s) /\ \A k \in 1..Len(s) : s[k] \in Vertices
  OBVIOUS
<1>. DEFINE V == Seq(Vertices)
            apply == DestOp(g, type)
<1>a. DestOpOk(g, type)
  BY DestOpType
<1>0. apply \in [V \X Vertices -> V] /\ <<>> \in V
  BY <1>a, SMT DEF DestOpOk
<1>10. \A d \in V, v \in Vertices : apply[<<d, v>>] = d \o Dsts(OutEdges(g, type, v))
  BY <1>a, Zenon DEF DestOpOk
<1>. HIDE DEF V, apply
<1>2. PICK I : Sound(I, V, <<>>, apply, s)
  BY <1>0, IterExists
<1>3. P(I)
  BY <1>1, <1>2, <1>10 DEF Sound
<1>4. P(iter)
  <2>. HIDE DEF P
  <2>. QED BY <1>3
<1>5. Dest(g, type, s) = iter[1..Len(s)]
  BY <1>1 DEF Dest, Destinations, Dsts, FoldLeft, MapThenFoldSet
<1>. HIDE DEF iter
<1>6. iter[{}] = <<>>
  BY <1>4
<1>7. \A t \in SUBSET (1..Len(s)) : t # {} /\ iter[t \ {Max(t)}] \in V =>
        iter[t] = apply[<<iter[t \ {Max(t)}], s[Max(t)]>>]
  <2>. TAKE t \in SUBSET (1..Len(s))
  <2>. HAVE t # {} /\ iter[t \ {Max(t)}] \in V
  <2>1. iter[t] = iter[t \ {Max(t)}] \o Dsts(OutEdges(g, type, s[Max(t)]))
    BY <1>4
  <2>2. s[Max(t)] \in Vertices
    BY <1>1, <1>2 DEF Sound
  <2>. QED BY <2>1, <2>2, <1>10
<1>8. Stepwise(iter, V, <<>>, apply, s)
  BY <1>6, <1>7 DEF Stepwise
<1>9. AtEnd(iter, s) = Folded(V, <<>>, apply, s)
  <2>. HIDE DEF P
  <2>. QED BY <1>0, <1>8, IterFolded
<1>. QED BY <1>5, <1>9 DEF AtEnd, V, apply

\* The destinations of a list, one vertex at a time.
LEMMA DestSteps ==
  ASSUME NEW g \in Stored, NEW type
  PROVE  /\ Dest(g, type, <<>>) = <<>>
         /\ \A s \in Seq(Vertices) : Dest(g, type, s) \in Seq(Vertices)
         /\ \A s \in Seq(Vertices), v \in Vertices :
              Dest(g, type, Append(s, v)) = Dest(g, type, s) \o Dsts(OutEdges(g, type, v))
<1>. DEFINE V == Seq(Vertices)
            apply == DestOp(g, type)
<1>a. DestOpOk(g, type)
  BY DestOpType
<1>0. apply \in [V \X Vertices -> V] /\ <<>> \in V
  BY <1>a, SMT DEF DestOpOk
<1>1. \A d \in V, v \in Vertices : apply[<<d, v>>] = d \o Dsts(OutEdges(g, type, v))
  BY <1>a, Zenon DEF DestOpOk
<1>2. \A s \in Seq(Vertices) : Dest(g, type, s) = Folded(V, <<>>, apply, s)
  BY DestFolds
<1>. HIDE DEF V, apply
<1>3. \A s \in Seq(Vertices) : FoldLaws(V, Vertices, <<>>, apply, s)
  BY <1>0, FoldedSteps
<1>4. <<>> \in Seq(Vertices) /\ \A s \in Seq(Vertices), e \in Vertices : Append(s, e) \in Seq(Vertices)
  OBVIOUS
<1>5. Dest(g, type, <<>>) = <<>>
  BY <1>2, <1>3, <1>4 DEF FoldLaws
<1>6. \A s \in Seq(Vertices) : Dest(g, type, s) \in V
  BY <1>2, <1>3 DEF FoldLaws
<1>7. \A s \in Seq(Vertices), v \in Vertices :
        Dest(g, type, Append(s, v)) = Dest(g, type, s) \o Dsts(OutEdges(g, type, v))
  <2>. TAKE s \in Seq(Vertices), v \in Vertices
  <2>1. Dest(g, type, Append(s, v)) = apply[<<Dest(g, type, s), v>>]
    BY <1>2, <1>3, <1>4 DEF FoldLaws
  <2>. QED BY <2>1, <1>1, <1>6
<1>. QED BY <1>5, <1>6, <1>7 DEF V

\* The destinations of one list after another.
LEMMA DestCat ==
  ASSUME NEW g \in Stored, NEW type, NEW s \in Seq(Vertices)
  PROVE  \A t \in Seq(Vertices) : Dest(g, type, s \o t) = Dest(g, type, s) \o Dest(g, type, t)
<1>. DEFINE S == {t \in Seq(Vertices) : Dest(g, type, s \o t) = Dest(g, type, s) \o Dest(g, type, t)}
<1>1. <<>> \in S
  <2>1. s \o <<>> = s /\ <<>> \in Seq(Vertices)
    BY CatEmpty
  <2>2. Dest(g, type, s) \o <<>> = Dest(g, type, s)
    BY DestSteps, CatEmpty
  <2>. QED BY <2>1, <2>2, DestSteps
<1>2. ASSUME NEW t \in Seq(Vertices), NEW v \in Vertices, t \in S PROVE Append(t, v) \in S
  <2>1. s \o Append(t, v) = Append(s \o t, v) /\ s \o t \in Seq(Vertices) /\ Append(t, v) \in Seq(Vertices)
    BY CatAppend
  <2>. DEFINE o == Dsts(OutEdges(g, type, v))
  <2>2. Dest(g, type, Append(s \o t, v)) = Dest(g, type, s \o t) \o o
    BY <2>1, DestSteps
  <2>3. Dest(g, type, Append(t, v)) = Dest(g, type, t) \o o
    BY DestSteps
  <2>4. o \in Seq(Vertices)
    BY OutType
  <2>. HIDE DEF o
  <2>5. (Dest(g, type, s) \o Dest(g, type, t)) \o o = Dest(g, type, s) \o (Dest(g, type, t) \o o)
    <3>1. Dest(g, type, s) \in Seq(Vertices) /\ Dest(g, type, t) \in Seq(Vertices)
      BY DestSteps
    <3>. QED BY <3>1, <2>4, CatAssoc
  <2>. QED BY <2>1, <2>2, <2>3, <2>5, <1>2
<1>. HIDE DEF S
<1>3. Seq(Vertices) \subseteq S
  BY <1>1, <1>2, SeqSet
<1>. QED BY <1>3 DEF S

-----------------------------------------------------------------------------
(* The walk along edge-steps, and the search by hops.                      *)

\* The walk from a seed along the edge-steps s.
Start(seed) == [visited |-> {seed}, next |-> <<>>]
Walked(seed, s) == VF(Start(seed), s)

\* What a walk's state says of its steps.
Honest(seed, st, s) ==
  /\ st.visited = {seed} \cup ToSet(st.next)
  /\ st.visited = {seed} \cup ToSet(s)
  /\ seed \notin ToSet(st.next)
  /\ IsFiniteSet(st.visited)
  /\ Cardinality(st.visited) = Len(st.next) + 1
  /\ IsInjective(st.next)
  /\ Len(st.next) <= Len(s)

\* The set of a sequence with one element more.
LEMMA AppendSet ==
  ASSUME NEW E, NEW s \in Seq(E), NEW v \in E
  PROVE  /\ ToSet(Append(s, v)) = ToSet(s) \cup {v}
         /\ IsInjective(s) /\ v \notin ToSet(s) => IsInjective(Append(s, v))
<1>. DEFINE t == Append(s, v)
<1>1. /\ Len(t) = Len(s) + 1 /\ Len(s) \in Nat /\ DOMAIN t = 1..(Len(s) + 1) /\ DOMAIN s = 1..Len(s)
      /\ \A i \in 1..Len(s) : t[i] = s[i]
      /\ t[Len(s) + 1] = v
  OBVIOUS
<1>. HIDE DEF t
<1>2. ToSet(t) = ToSet(s) \cup {v}
  <2>1. \A x \in ToSet(t) : x \in ToSet(s) \cup {v}
    BY <1>1 DEF ToSet
  <2>2. \A x \in ToSet(s) : x \in ToSet(t)
    <3>. SUFFICES ASSUME NEW i \in DOMAIN s PROVE s[i] \in ToSet(t)
      BY DEF ToSet
    <3>1. i \in DOMAIN t /\ t[i] = s[i]
      BY <1>1
    <3>. QED BY <3>1 DEF ToSet
  <2>3. v \in ToSet(t)
    <3>1. Len(s) + 1 \in DOMAIN t
      BY <1>1
    <3>. QED BY <3>1, <1>1 DEF ToSet
  <2>. QED BY <2>1, <2>2, <2>3
<1>3. ASSUME IsInjective(s), v \notin ToSet(s) PROVE IsInjective(t)
  <2>1. \A i \in 1..Len(s) : s[i] # v
    BY <1>1, <1>3 DEF ToSet
  <2>. QED BY <1>1, <1>3, <2>1 DEF IsInjective
<1>. QED BY <1>2, <1>3 DEF t

\* The empty sequence has no elements,
LEMMA EmptySet == ToSet(<<>>) = {}
  BY DEF ToSet

\* and none twice.
LEMMA EmptyInjective == IsInjective(<<>>)
  BY DEF IsInjective

\* The state that a traversal starts in.
LEMMA StartType == ASSUME NEW seed \in Vertices PROVE Start(seed) \in VisitStates
  BY DEF Start, VisitStates

\* A walk from the seed, one edge-step at a time.
LEMMA WalkSteps ==
  ASSUME NEW seed \in Vertices
  PROVE  /\ Walked(seed, <<>>) = Start(seed)
         /\ \A s \in Seq(Vertices) : Walked(seed, s) \in VisitStates
         /\ \A s \in Seq(Vertices), v \in Vertices :
              Walked(seed, Append(s, v)) = Visit(Walked(seed, s), v)
  BY VFSteps, StartType DEF Walked

\* After any edge-steps the list is of what they newly reached, each vertex once
\* and without the seed, and the visited are the seed and the list.
LEMMA WalkHonest ==
  ASSUME NEW seed \in Vertices
  PROVE  \A s \in Seq(Vertices) : Honest(seed, Walked(seed, s), s)
<1>. DEFINE S == {s \in Seq(Vertices) : Honest(seed, Walked(seed, s), s)}
<1>1. <<>> \in S
  <2>1. Cardinality({seed}) = 1 /\ IsFiniteSet({seed})
    BY FS_Singleton
  <2>2. Walked(seed, <<>>) = Start(seed) /\ Len(<<>>) = 0 /\ <<>> \in Seq(Vertices)
    BY WalkSteps
  <2>3. Start(seed).visited = {seed} /\ Start(seed).next = <<>>
    BY DEF Start
  <2>4. Honest(seed, Start(seed), <<>>)
    <3>1. Cardinality(Start(seed).visited) = Len(Start(seed).next) + 1 /\ Len(Start(seed).next) <= Len(<<>>)
      BY <2>1, <2>2, <2>3
    <3>2. Start(seed).visited = {seed} \cup ToSet(Start(seed).next)
      BY <2>3, EmptySet, Zenon
    <3>3. IsInjective(Start(seed).next) /\ IsFiniteSet(Start(seed).visited)
      BY <2>1, <2>3, EmptyInjective, Zenon
    <3>4. seed \notin ToSet(Start(seed).next)
      BY <2>3, EmptySet, Zenon
    <3>5. Start(seed).visited = {seed} \cup ToSet(<<>>)
      BY <2>3, EmptySet, Zenon
    <3>. QED BY <3>1, <3>2, <3>3, <3>4, <3>5 DEF Honest
  <2>. QED BY <2>2, <2>4
<1>2. ASSUME NEW s \in Seq(Vertices), NEW v \in Vertices, s \in S PROVE Append(s, v) \in S
  <2>. DEFINE st == Walked(seed, s)
              st2 == Walked(seed, Append(s, v))
  <2>1. st \in VisitStates /\ st2 = Visit(st, v)
    BY WalkSteps
  <2>2. Honest(seed, st, s)
    BY <1>2
  <2>3. Len(Append(s, v)) = Len(s) + 1 /\ Len(s) \in Nat /\ Append(s, v) \in Seq(Vertices)
    OBVIOUS
  <2>. HIDE DEF st, st2
  <2>4. Honest(seed, st2, Append(s, v))
    <3>1. CASE v \in st.visited
      <4>1. st2 = st /\ Len(st.next) \in Nat
        BY <3>1, <2>1 DEF Visit, VisitStates
      <4>2. Len(st.next) <= Len(Append(s, v))
        BY <4>1, <2>2, <2>3 DEF Honest
      <4>3. st.visited = {seed} \cup ToSet(Append(s, v))
        BY <3>1, <2>2, AppendSet DEF Honest
      <4>. QED BY <4>1, <4>2, <4>3, <2>2 DEF Honest
    <3>2. CASE v \notin st.visited
      <4>1. st2.visited = st.visited \cup {v} /\ st2.next = Append(st.next, v) /\ st.next \in Seq(Vertices)
        BY <3>2, <2>1 DEF Visit, VisitStates
      <4>2. ToSet(st2.next) = ToSet(st.next) \cup {v} /\ IsInjective(st2.next)
        BY <4>1, <2>2, <3>2, AppendSet DEF Honest
      <4>3. Len(st2.next) = Len(st.next) + 1 /\ Len(st.next) \in Nat
        BY <4>1
      <4>4. IsFiniteSet(st2.visited) /\ Cardinality(st2.visited) = Cardinality(st.visited) + 1
        <5>1. IsFiniteSet(st.visited)
          BY <2>2 DEF Honest
        <5>2. IsFiniteSet(st.visited \cup {v})
              /\ Cardinality(st.visited \cup {v}) = Cardinality(st.visited) + 1
          <6>. DEFINE V == st.visited
          <6>1. IsFiniteSet(V) /\ v \notin V
            BY <5>1, <3>2
          <6>. HIDE DEF V
          <6>2. IsFiniteSet(V \cup {v}) /\ Cardinality(V \cup {v}) = Cardinality(V) + 1
            BY <6>1, FS_AddElement
          <6>. QED BY <6>2 DEF V
        <5>. QED BY <4>1, <5>2
      <4>5. st2.visited = {seed} \cup ToSet(Append(s, v))
        BY <4>1, <2>2, AppendSet DEF Honest
      <4>6. seed # v
        BY <3>2, <2>2 DEF Honest
      <4>7. Len(st2.next) <= Len(Append(s, v))
        BY <4>3, <2>2, <2>3 DEF Honest
      <4>. QED BY <4>1, <4>2, <4>3, <4>4, <4>5, <4>6, <4>7, <2>2 DEF Honest
    <3>. QED BY <3>1, <3>2
  <2>. QED BY <2>3, <2>4 DEF st2
<1>. HIDE DEF S
<1>3. Seq(Vertices) \subseteq S
  BY <1>1, <1>2, SeqSet
<1>. QED BY <1>3 DEF S

\* What a longer walk adds comes after.
LEMMA WalkGrows ==
  ASSUME NEW seed \in Vertices, NEW s \in Seq(Vertices), NEW t \in Seq(Vertices)
  PROVE  /\ Walked(seed, s \o t) = VF(Walked(seed, s), t)
         /\ \E u \in Seq(Vertices) : Walked(seed, s \o t).next = Walked(seed, s).next \o u
<1>1. Walked(seed, s \o t) = VF(Walked(seed, s), t)
  BY StartType, VFCat DEF Walked
<1>2. Walked(seed, s) \in VisitStates
  BY WalkSteps
<1>3. Walked(seed, s) = [visited |-> Walked(seed, s).visited, next |-> Walked(seed, s).next]
      /\ Walked(seed, s).visited \in SUBSET Vertices /\ Walked(seed, s).next \in Seq(Vertices)
  BY <1>2 DEF VisitStates
<1>. DEFINE z == [visited |-> Walked(seed, s).visited, next |-> <<>>]
<1>4. VF(z, t) \in VisitStates
  <2>1. z \in VisitStates
    BY <1>3 DEF VisitStates
  <2>. HIDE DEF z
  <2>. QED BY <2>1, VFSteps
<1>5. VF(Walked(seed, s), t) = [visited |-> VF(z, t).visited, next |-> Walked(seed, s).next \o VF(z, t).next]
  <2>. DEFINE V == Walked(seed, s).visited
              N == Walked(seed, s).next
  <2>1. V \in SUBSET Vertices /\ N \in Seq(Vertices) /\ Walked(seed, s) = [visited |-> V, next |-> N]
    BY <1>3
  <2>. HIDE DEF V, N
  <2>2. VF([visited |-> V, next |-> N], t) =
             [visited |-> VF([visited |-> V, next |-> <<>>], t).visited,
              next |-> N \o VF([visited |-> V, next |-> <<>>], t).next]
    BY <2>1, VFShift
  <2>. QED BY <2>1, <2>2 DEF V, N
<1>6. VF(z, t).next \in Seq(Vertices)
  BY <1>4 DEF VisitStates
<1>. HIDE DEF z
<1>7. Walked(seed, s \o t).next = Walked(seed, s).next \o VF(z, t).next
  <2>. DEFINE N == Walked(seed, s).next \o VF(z, t).next
              B == VF(z, t).visited
              W == VF(Walked(seed, s), t)
  <2>0. W = [visited |-> B, next |-> N]
    BY <1>5
  <2>. HIDE DEF N, B, W
  <2>1. W.next = N
    BY <2>0
  <2>. USE DEF N, W
  <2>. QED BY <1>1, <2>1
<1>. QED BY <1>1, <1>6, <1>7

-----------------------------------------------------------------------------
\* The states of the search by hops.
SearchStates == [visited : SUBSET Vertices, frontier : Seq(Vertices),
                 ids : Seq(Vertices), steps : Seq(Vertices)]
First(seed) == [visited |-> {seed}, frontier |-> <<seed>>, ids |-> <<>>, steps |-> <<>>]

\* One hop of the search, by what it visits.
LEMMA HopIs ==
  ASSUME NEW g \in Stored, NEW type, NEW x \in SearchStates
  PROVE  LET dsts == Dest(g, type, x.frontier)
             st == VF([visited |-> x.visited, next |-> <<>>], dsts)
         IN  /\ dsts \in Seq(Vertices) /\ st \in VisitStates
             /\ Hop(g, type, x) = [visited |-> st.visited, frontier |-> st.next,
                                   ids |-> x.ids \o st.next, steps |-> x.steps \o dsts]
             /\ Hop(g, type, x) \in SearchStates
<1>. DEFINE dsts == Dest(g, type, x.frontier)
            z == [visited |-> x.visited, next |-> <<>>]
            st == VF(z, dsts)
<1>1. x.frontier \in Seq(Vertices) /\ x.ids \in Seq(Vertices) /\ x.steps \in Seq(Vertices) /\ z \in VisitStates
  BY DEF SearchStates, VisitStates
<1>2. dsts \in Seq(Vertices)
  BY <1>1, DestSteps
<1>3. Hop(g, type, x) = [visited |-> st.visited, frontier |-> st.next,
                         ids |-> x.ids \o st.next, steps |-> x.steps \o dsts]
  BY DEF Hop, VF, Dest
<1>. HIDE DEF dsts, z
<1>4. st \in VisitStates
  BY <1>1, <1>2, VFSteps
<1>. HIDE DEF st
<1>5. Hop(g, type, x) \in SearchStates
  <2>1. st.next \in Seq(Vertices) /\ st.visited \in SUBSET Vertices
    BY <1>4 DEF VisitStates
  <2>2. x.ids \o st.next \in Seq(Vertices) /\ x.steps \o dsts \in Seq(Vertices)
    BY <2>1, <1>1, <1>2
  <2>. QED BY <2>1, <2>2, <1>3 DEF SearchStates
<1>. QED BY <1>2, <1>3, <1>4, <1>5 DEF dsts, z, st

\* The search of d hops is one hop more than of d - 1: the recursion's equations.
LEMMA SearchIs ==
  ASSUME NEW g \in Stored, NEW type, NEW seed \in Vertices
  PROVE  \A d \in Int :
           /\ Search(g, seed, d, type) \in SearchStates
           /\ d <= 0 => Search(g, seed, d, type) = First(seed)
           /\ d > 0 => Search(g, seed, d, type) = Hop(g, type, Search(g, seed, d - 1, type))
<1>. DEFINE step == [x \in Nat \X SearchStates |-> Hop(g, type, x[2])]
            P(A) == A = [d \in Int |-> IF d <= 0 THEN [visited |-> {seed}, frontier |-> <<seed>>,
                                                       ids |-> <<>>, steps |-> <<>>]
                                       ELSE Hop(g, type, A[d - 1])]
            after == CHOOSE A : P(A)
<1>1. First(seed) \in SearchStates
  BY DEF First, SearchStates
<1>2. step \in [Nat \X SearchStates -> SearchStates]
  BY HopIs
<1>3. \A n \in Nat, x \in SearchStates : step[<<n, x>>] = Hop(g, type, x)
  OBVIOUS
<1>. HIDE DEF step
<1>4. PICK f : Recursion(f, SearchStates, First(seed), step)
  BY <1>1, <1>2, NatRec, Zenon
<1>. DEFINE A == [d \in Int |-> IF d <= 0 THEN f[0] ELSE f[d]]
<1>5. /\ f \in [Nat -> SearchStates] /\ f[0] = First(seed)
      /\ \A n \in Nat : f[n + 1] = Hop(g, type, f[n])
  BY <1>3, <1>4 DEF Recursion
<1>6. P(A)
  <2>1. \A d \in Int : d > 0 => f[d] = Hop(g, type, A[d - 1])
    <3>. TAKE d \in Int
    <3>. HAVE d > 0
    <3>1. d - 1 \in Nat /\ (d - 1) + 1 = d
      OBVIOUS
    <3>2. f[d] = Hop(g, type, f[d - 1])
      BY <3>1, <1>5
    <3>3. A[d - 1] = f[d - 1]
      BY <3>1
    <3>. QED BY <3>2, <3>3
  <2>2. A = [d \in Int |-> IF d <= 0 THEN First(seed) ELSE Hop(g, type, A[d - 1])]
    BY <2>1, <1>5
  <2>. HIDE DEF A
  <2>. QED BY <2>2 DEF First
<1>7. P(after)
  <2>. HIDE DEF P, A
  <2>. QED BY <1>6
<1>8. \A d \in Int : Search(g, seed, d, type) = after[d]
  BY DEF Search
<1>9. \A d \in Int : after[d] = IF d <= 0 THEN First(seed) ELSE Hop(g, type, after[d - 1])
  <2>. HIDE DEF after
  <2>. QED BY <1>7 DEF First
<1>. HIDE DEF P, after
<1>10. \A d \in Int :
           /\ d <= 0 => Search(g, seed, d, type) = First(seed)
           /\ d > 0 => Search(g, seed, d, type) = Hop(g, type, Search(g, seed, d - 1, type))
  <2>1. \A d \in Int : d - 1 \in Int
    OBVIOUS
  <2>. QED BY <1>8, <1>9, <2>1
<1>. DEFINE N == {d \in Nat : Search(g, seed, d, type) \in SearchStates}
<1>11. 0 \in N
  BY <1>1, <1>10
<1>12. ASSUME NEW d \in Nat, d \in N PROVE d + 1 \in N
  <2>1. d + 1 > 0 /\ (d + 1) - 1 = d /\ d + 1 \in Int /\ d + 1 \in Nat
    OBVIOUS
  <2>2. Search(g, seed, d + 1, type) = Hop(g, type, Search(g, seed, d, type))
    BY <2>1, <1>10
  <2>3. Hop(g, type, Search(g, seed, d, type)) \in SearchStates
    BY <1>12, HopIs
  <2>. QED BY <2>1, <2>2, <2>3
<1>. HIDE DEF N
<1>13. Nat \subseteq N
  BY <1>11, <1>12, NatSet
<1>14. \A d \in Int : Search(g, seed, d, type) \in SearchStates
  <2>. TAKE d \in Int
  <2>1. CASE d <= 0
    BY <2>1, <1>1, <1>10
  <2>2. CASE d > 0
    BY <2>2, <1>13 DEF N
  <2>. QED BY <2>1, <2>2
<1>. QED BY <1>10, <1>14

\* V and what one edge from it reaches.
Reached(g, type, V) == V \cup UNION {{e.dst : e \in ToSet(OutEdges(g, type, v))} : v \in V}

\* The recursion of WithinHops.
WithinLaws(g, type, from) ==
  \A n \in Int :
    /\ WithinHops(g, type, from, n) \in SUBSET Vertices
    /\ n <= 0 => WithinHops(g, type, from, n) = from
    /\ n > 0 => WithinHops(g, type, from, n) = Reached(g, type, WithinHops(g, type, from, n - 1))

\* The same for the vertices within so many hops.
LEMMA WithinIs ==
  ASSUME NEW g \in Stored, NEW type, NEW from, from \subseteq Vertices
  PROVE  WithinLaws(g, type, from)
<1>. DEFINE step == [x \in Nat \X SUBSET Vertices |-> Reached(g, type, x[2])]
            P(A) == A = [k \in Int |-> IF k <= 0 THEN from
                           ELSE A[k - 1] \cup
                                UNION {{e.dst : e \in ToSet(OutEdges(g, type, v))} : v \in A[k - 1]}]
            within == CHOOSE A : P(A)
<1>1. \A V \in SUBSET Vertices : Reached(g, type, V) \in SUBSET Vertices
  <2>. SUFFICES ASSUME NEW v \in Vertices, NEW e \in ToSet(OutEdges(g, type, v)) PROVE e.dst \in Vertices
    BY DEF Reached
  <2>1. OutEdges(g, type, v) \in Seq(Edges)
    BY OutType
  <2>2. e \in Edges
    BY <2>1 DEF ToSet
  <2>. QED BY <2>2 DEF Edges
<1>2. step \in [Nat \X SUBSET Vertices -> SUBSET Vertices]
  BY <1>1
<1>3. \A n \in Nat, x \in SUBSET Vertices : step[<<n, x>>] = Reached(g, type, x)
  OBVIOUS
<1>. HIDE DEF step
<1>4. PICK f : Recursion(f, SUBSET Vertices, from, step)
  BY <1>2, NatRec, Zenon
<1>. DEFINE A == [d \in Int |-> IF d <= 0 THEN f[0] ELSE f[d]]
<1>5. /\ f \in [Nat -> SUBSET Vertices] /\ f[0] = from
      /\ \A n \in Nat : f[n + 1] = Reached(g, type, f[n])
  BY <1>3, <1>4 DEF Recursion
<1>6. P(A)
  <2>1. \A d \in Int : d > 0 => f[d] = Reached(g, type, A[d - 1])
    <3>. TAKE d \in Int
    <3>. HAVE d > 0
    <3>1. d - 1 \in Nat /\ (d - 1) + 1 = d
      OBVIOUS
    <3>2. f[d] = Reached(g, type, f[d - 1])
      BY <3>1, <1>5
    <3>3. A[d - 1] = f[d - 1]
      BY <3>1
    <3>. QED BY <3>2, <3>3
  <2>2. A = [d \in Int |-> IF d <= 0 THEN from ELSE Reached(g, type, A[d - 1])]
    BY <2>1, <1>5
  <2>. HIDE DEF A
  <2>. QED BY <2>2 DEF Reached
<1>7. P(within)
  <2>. HIDE DEF P, A
  <2>. QED BY <1>6
<1>8. \A d \in Int : WithinHops(g, type, from, d) = within[d]
  BY DEF WithinHops
<1>9. \A d \in Int : within[d] = IF d <= 0 THEN from ELSE Reached(g, type, within[d - 1])
  <2>. HIDE DEF within
  <2>. QED BY <1>7 DEF Reached
<1>. HIDE DEF P, within
<1>10. \A d \in Int :
           /\ d <= 0 => WithinHops(g, type, from, d) = from
           /\ d > 0 => WithinHops(g, type, from, d) = Reached(g, type, WithinHops(g, type, from, d - 1))
  <2>1. \A d \in Int : d - 1 \in Int
    OBVIOUS
  <2>. QED BY <1>8, <1>9, <2>1
<1>. DEFINE N == {d \in Nat : WithinHops(g, type, from, d) \in SUBSET Vertices}
<1>11. 0 \in N
  BY <1>10
<1>12. ASSUME NEW d \in Nat, d \in N PROVE d + 1 \in N
  <2>1. d + 1 > 0 /\ (d + 1) - 1 = d /\ d + 1 \in Int /\ d + 1 \in Nat
    OBVIOUS
  <2>2. WithinHops(g, type, from, d + 1) = Reached(g, type, WithinHops(g, type, from, d))
    BY <2>1, <1>10
  <2>. QED BY <2>1, <2>2, <1>12, <1>1
<1>. HIDE DEF N
<1>13. Nat \subseteq N
  BY <1>11, <1>12, NatSet
<1>14. \A d \in Int : WithinHops(g, type, from, d) \in SUBSET Vertices
  <2>. TAKE d \in Int
  <2>1. CASE d <= 0
    BY <2>1, <1>10
  <2>2. CASE d > 0
    BY <2>2, <1>13 DEF N
  <2>. QED BY <2>1, <2>2
<1>. QED BY <1>10, <1>14 DEF WithinLaws

-----------------------------------------------------------------------------
(* How a search is laid out, and what it lists.                            *)

\* The seed and what the search of d hops lists: what it expands next.
Upto(g, seed, d, type) == IF d < 0 THEN <<>> ELSE <<seed>> \o Search(g, seed, d, type).ids

\* How the search of d hops is laid out.
Laid(g, seed, d, type) ==
  LET x == Search(g, seed, d, type) IN
  /\ x.steps = Dest(g, type, Upto(g, seed, d - 1, type))
  /\ Upto(g, seed, d, type) = Upto(g, seed, d - 1, type) \o x.frontier
  /\ Walked(seed, x.steps) = [visited |-> x.visited, next |-> x.ids]

\* What is to be expanded is a list of vertices.
LEMMA UptoType ==
  ASSUME NEW g \in Stored, NEW type, NEW seed \in Vertices, NEW d \in Int
  PROVE  Upto(g, seed, d, type) \in Seq(Vertices)
<1>0. Search(g, seed, d, type) \in SearchStates
  BY SearchIs
<1>1. Search(g, seed, d, type).ids \in Seq(Vertices) /\ <<seed>> \in Seq(Vertices)
  BY <1>0 DEF SearchStates
<1>. QED BY <1>1 DEF Upto

\* The search of every bound: its frontier is the end of its list, its steps
\* are those of expanding the list of the bound before, and walking them is the list.
LEMMA SearchLaid ==
  ASSUME NEW g \in Stored, NEW type, NEW seed \in Vertices
  PROVE  \A d \in Nat : Laid(g, seed, d, type)
<1>. DEFINE S == {d \in Nat : Laid(g, seed, d, type)}
<1>1. 0 \in S
  <2>1. Search(g, seed, 0, type) = First(seed)
    BY SearchIs
  <2>2. Upto(g, seed, 0 - 1, type) = <<>>
    BY DEF Upto
  <2>3. First(seed).steps = <<>> /\ First(seed).frontier = <<seed>> /\ First(seed).ids = <<>>
        /\ First(seed).visited = {seed}
    BY DEF First
  <2>4. Upto(g, seed, 0, type) = <<seed>> \o <<>>
    <3>1. Upto(g, seed, 0, type) = <<seed>> \o Search(g, seed, 0, type).ids
      BY DEF Upto
    <3>. QED BY <3>1, <2>1, <2>3, Zenon
  <2>5. <<seed>> \o <<>> = <<seed>> /\ <<>> \o <<seed>> = <<seed>>
    OBVIOUS
  <2>6. Dest(g, type, <<>>) = <<>>
    BY DestSteps
  <2>7. Walked(seed, <<>>) = Start(seed)
    BY WalkSteps
  <2>8. Upto(g, seed, 0, type) = Upto(g, seed, 0 - 1, type) \o Search(g, seed, 0, type).frontier
    BY <2>1, <2>2, <2>3, <2>4, <2>5
  <2>9. Search(g, seed, 0, type).steps = Dest(g, type, Upto(g, seed, 0 - 1, type))
    BY <2>1, <2>2, <2>3, <2>6
  <2>10. Walked(seed, Search(g, seed, 0, type).steps) =
           [visited |-> Search(g, seed, 0, type).visited, next |-> Search(g, seed, 0, type).ids]
    BY <2>1, <2>3, <2>7 DEF Start
  <2>. QED BY <2>8, <2>9, <2>10 DEF Laid
<1>2. ASSUME NEW d \in Nat, d \in S PROVE d + 1 \in S
  <2>. DEFINE x == Search(g, seed, d, type)
              y == Search(g, seed, d + 1, type)
              dsts == Dest(g, type, x.frontier)
              z == [visited |-> x.visited, next |-> <<>>]
              st == VF(z, dsts)
              T == Upto(g, seed, d, type)
              B == Upto(g, seed, d - 1, type)
  <2>0. d + 1 \in Int /\ d + 1 > 0 /\ (d + 1) - 1 = d /\ d \in Int /\ d - 1 \in Int /\ ~(d < 0) /\ ~(d + 1 < 0)
    OBVIOUS
  <2>1. x \in SearchStates /\ y \in SearchStates /\ y = Hop(g, type, x)
    BY <2>0, SearchIs
  <2>2. /\ dsts \in Seq(Vertices) /\ st \in VisitStates
        /\ y = [visited |-> st.visited, frontier |-> st.next,
                ids |-> x.ids \o st.next, steps |-> x.steps \o dsts]
    <3>. HIDE DEF x, y
    <3>. QED BY <2>1, HopIs
  <2>3. B \in Seq(Vertices) /\ T \in Seq(Vertices) /\ Laid(g, seed, d, type)
    BY <1>2, <2>0, UptoType
  <2>4. x.steps = Dest(g, type, B) /\ T = B \o x.frontier
        /\ Walked(seed, x.steps) = [visited |-> x.visited, next |-> x.ids]
    BY <2>3 DEF Laid
  <2>5. T = <<seed>> \o x.ids /\ Upto(g, seed, d + 1, type) = <<seed>> \o y.ids
    BY <2>0 DEF Upto
  <2>6. x.frontier \in Seq(Vertices) /\ x.ids \in Seq(Vertices) /\ x.steps \in Seq(Vertices)
        /\ x.visited \in SUBSET Vertices /\ st.next \in Seq(Vertices) /\ <<seed>> \in Seq(Vertices)
    <3>. HIDE DEF x, st
    <3>. QED BY <2>1, <2>2 DEF SearchStates, VisitStates
  <2>. HIDE DEF x, y, B, T, st
  <2>7. y.steps = x.steps \o dsts /\ y.frontier = st.next /\ y.ids = x.ids \o st.next /\ y.visited = st.visited
    <3>. HIDE DEF dsts
    <3>. QED BY <2>2
  <2>8. y.steps = Dest(g, type, T)
    <3>1. Dest(g, type, B \o x.frontier) = Dest(g, type, B) \o Dest(g, type, x.frontier)
      BY <2>3, <2>6, DestCat
    <3>. QED BY <3>1, <2>4, <2>7
  <2>9. Upto(g, seed, d + 1, type) = T \o y.frontier
    <3>1. (<<seed>> \o x.ids) \o st.next = <<seed>> \o (x.ids \o st.next)
      <4>. DEFINE one == <<seed>>
      <4>1. one \in Seq(Vertices)
        OBVIOUS
      <4>. HIDE DEF one
      <4>2. (one \o x.ids) \o st.next = one \o (x.ids \o st.next)
        <5>1. \A a \in Seq(Vertices), b \in Seq(Vertices) : (one \o a) \o b = one \o (a \o b)
          BY <4>1, CatAssoc
        <5>. QED BY <5>1, <2>6
      <4>. QED BY <4>2 DEF one
    <3>. QED BY <3>1, <2>5, <2>7
  <2>10. Walked(seed, y.steps) = [visited |-> y.visited, next |-> y.ids]
    <3>1. Walked(seed, x.steps \o dsts) = VF(Walked(seed, x.steps), dsts)
      BY <2>2, <2>6, WalkGrows
    <3>2. VF([visited |-> x.visited, next |-> x.ids], dsts) =
            [visited |-> st.visited, next |-> x.ids \o st.next]
      <4>. HIDE DEF dsts
      <4>. QED BY <2>2, <2>6, VFShift DEF st
    <3>. QED BY <3>1, <3>2, <2>4, <2>7
  <2>11. Upto(g, seed, (d + 1) - 1, type) = T
    BY <2>0 DEF T
  <2>12. Laid(g, seed, d + 1, type)
    BY <2>8, <2>9, <2>10, <2>11 DEF Laid, y
  <2>. QED BY <2>12
<1>. HIDE DEF S
<1>3. Nat \subseteq S
  BY <1>1, <1>2, NatSet
<1>. QED BY <1>3 DEF S

\* What holds of the search at every bound, the negative ones too.
LEMMA SearchFacts ==
  ASSUME NEW g \in Stored, NEW type, NEW seed \in Vertices, NEW d \in Int
  PROVE  LET x == Search(g, seed, d, type) IN
         /\ x.steps \in Seq(Vertices) /\ x.ids \in Seq(Vertices)
         /\ x.steps = Dest(g, type, Upto(g, seed, d - 1, type))
         /\ Walked(seed, x.steps).next = x.ids
         /\ Walked(seed, x.steps).visited = x.visited
<1>. DEFINE x == Search(g, seed, d, type)
<1>0. x \in SearchStates
  BY SearchIs
<1>1. x.steps \in Seq(Vertices) /\ x.ids \in Seq(Vertices)
  BY <1>0 DEF SearchStates
<1>2. CASE d \in Nat
  <2>1. Laid(g, seed, d, type)
    BY <1>2, SearchLaid
  <2>2. x.steps = Dest(g, type, Upto(g, seed, d - 1, type))
        /\ Walked(seed, x.steps) = [visited |-> x.visited, next |-> x.ids]
    BY <2>1 DEF Laid
  <2>. HIDE DEF x
  <2>3. Walked(seed, x.steps).next = x.ids /\ Walked(seed, x.steps).visited = x.visited
    BY <2>2
  <2>. QED BY <1>1, <2>2, <2>3 DEF x
<1>3. CASE d < 0
  <2>1. x = First(seed) /\ Upto(g, seed, d - 1, type) = <<>>
    BY <1>3, SearchIs DEF Upto
  <2>2. First(seed).steps = <<>> /\ First(seed).ids = <<>> /\ First(seed).visited = {seed}
    BY DEF First
  <2>3. Dest(g, type, <<>>) = <<>> /\ Walked(seed, <<>>) = Start(seed)
    BY DestSteps, WalkSteps
  <2>4. Start(seed).next = <<>> /\ Start(seed).visited = {seed}
    BY DEF Start
  <2>. QED BY <1>1, <2>1, <2>2, <2>3, <2>4
<1>. QED BY <1>2, <1>3

\* A longer search begins with the shorter one.
LEMMA UptoGrows ==
  ASSUME NEW g \in Stored, NEW type, NEW seed \in Vertices, NEW i \in Int
  PROVE  \A n \in Nat : \E u \in Seq(Vertices) :
           Upto(g, seed, i + n, type) = Upto(g, seed, i, type) \o u
<1>. DEFINE S == {n \in Nat : \E u \in Seq(Vertices) :
                    Upto(g, seed, i + n, type) = Upto(g, seed, i, type) \o u}
<1>0. Upto(g, seed, i, type) \in Seq(Vertices)
  BY UptoType
<1>1. 0 \in S
  <2>1. Upto(g, seed, i, type) \o <<>> = Upto(g, seed, i, type) /\ <<>> \in Seq(Vertices) /\ i + 0 = i
    BY <1>0, CatEmpty
  <2>. QED BY <2>1
<1>2. ASSUME NEW n \in Nat, n \in S PROVE n + 1 \in S
  <2>. DEFINE T == Upto(g, seed, i, type)
              d == i + n
  <2>1. PICK u \in Seq(Vertices) : Upto(g, seed, d, type) = T \o u
    BY <1>2
  <2>2. d \in Int /\ d + 1 \in Int /\ i + (n + 1) = d + 1 /\ (d + 1) - 1 = d
    OBVIOUS
  <2>. HIDE DEF d, T
  <2>3. \E w \in Seq(Vertices) : Upto(g, seed, d + 1, type) = Upto(g, seed, d, type) \o w
    <3>1. CASE d + 1 \in Nat
      <4>1. Laid(g, seed, d + 1, type) /\ Search(g, seed, d + 1, type).frontier \in Seq(Vertices)
        BY <3>1, <2>2, SearchLaid, SearchIs DEF SearchStates
      <4>. QED BY <4>1, <2>2 DEF Laid
    <3>2. CASE d + 1 < 0
      <4>1. Upto(g, seed, d + 1, type) = <<>> /\ Upto(g, seed, d, type) = <<>>
        BY <3>2, <2>2 DEF Upto
      <4>2. <<>> \o <<>> = <<>> /\ <<>> \in Seq(Vertices)
        OBVIOUS
      <4>. QED BY <4>1, <4>2
    <3>. QED BY <3>1, <3>2, <2>2
  <2>4. PICK w \in Seq(Vertices) : Upto(g, seed, d + 1, type) = Upto(g, seed, d, type) \o w
    BY <2>3
  <2>5. (T \o u) \o w = T \o (u \o w) /\ u \o w \in Seq(Vertices)
    BY <1>0, CatAssoc DEF T
  <2>6. Upto(g, seed, i + (n + 1), type) = T \o (u \o w)
    BY <2>1, <2>2, <2>4, <2>5
  <2>7. n + 1 \in Nat
    OBVIOUS
  <2>8. \E w2 \in Seq(Vertices) : Upto(g, seed, i + (n + 1), type) = T \o w2
    BY <2>5, <2>6
  <2>. QED BY <2>7, <2>8 DEF T
<1>. HIDE DEF S
<1>3. Nat \subseteq S
  BY <1>1, <1>2, NatSet
<1>. QED BY <1>3 DEF S

-----------------------------------------------------------------------------
\* The set of a concatenation.
LEMMA CatSet ==
  ASSUME NEW E, NEW s \in Seq(E), NEW t \in Seq(E)
  PROVE  ToSet(s \o t) = ToSet(s) \cup ToSet(t)
<1>. DEFINE w == s \o t
<1>1. /\ Len(w) = Len(s) + Len(t) /\ Len(s) \in Nat /\ Len(t) \in Nat
      /\ DOMAIN w = 1..Len(w) /\ DOMAIN s = 1..Len(s) /\ DOMAIN t = 1..Len(t)
      /\ \A i \in 1..Len(s) : w[i] = s[i]
      /\ \A i \in 1..Len(t) : w[Len(s) + i] = t[i]
  OBVIOUS
<1>. HIDE DEF w
<1>2. \A x \in ToSet(w) : x \in ToSet(s) \cup ToSet(t)
  <2>. SUFFICES ASSUME NEW i \in DOMAIN w PROVE w[i] \in ToSet(s) \cup ToSet(t)
    BY DEF ToSet
  <2>1. CASE i <= Len(s)
    BY <2>1, <1>1 DEF ToSet
  <2>2. CASE i > Len(s)
    <3>1. i - Len(s) \in 1..Len(t) /\ Len(s) + (i - Len(s)) = i
      BY <2>2, <1>1
    <3>2. w[i] = t[i - Len(s)]
      BY <3>1, <1>1
    <3>. QED BY <3>1, <3>2, <1>1 DEF ToSet
  <2>. QED BY <2>1, <2>2, <1>1
<1>3. \A x \in ToSet(s) : x \in ToSet(w)
  <2>. SUFFICES ASSUME NEW i \in DOMAIN s PROVE s[i] \in ToSet(w)
    BY DEF ToSet
  <2>1. i \in DOMAIN w /\ w[i] = s[i]
    BY <1>1
  <2>. QED BY <2>1 DEF ToSet
<1>4. \A x \in ToSet(t) : x \in ToSet(w)
  <2>. SUFFICES ASSUME NEW i \in DOMAIN t PROVE t[i] \in ToSet(w)
    BY DEF ToSet
  <2>1. Len(s) + i \in DOMAIN w /\ w[Len(s) + i] = t[i]
    BY <1>1
  <2>. QED BY <2>1 DEF ToSet
<1>. QED BY <1>2, <1>3, <1>4 DEF w

\* The destinations of V's edges.
Out(g, type, V) == UNION {{e.dst : e \in ToSet(OutEdges(g, type, v))} : v \in V}

\* The set of destinations is that of the vertices' edges.
LEMMA DestSet ==
  ASSUME NEW g \in Stored, NEW type
  PROVE  \A s \in Seq(Vertices) : ToSet(Dest(g, type, s)) = Out(g, type, ToSet(s))
<1>. DEFINE S == {s \in Seq(Vertices) : ToSet(Dest(g, type, s)) = Out(g, type, ToSet(s))}
<1>1. <<>> \in S
  <2>1. Dest(g, type, <<>>) = <<>>
    BY DestSteps
  <2>2. Out(g, type, {}) = {}
    BY DEF Out
  <2>3. ToSet(Dest(g, type, <<>>)) = Out(g, type, ToSet(<<>>))
    BY <2>1, <2>2, EmptySet, Zenon
  <2>. QED BY <2>3
<1>2. ASSUME NEW s \in Seq(Vertices), NEW v \in Vertices, s \in S PROVE Append(s, v) \in S
  <2>. DEFINE o == OutEdges(g, type, v)
  <2>1. o \in Seq(Edges) /\ Dsts(o) \in Seq(Vertices) /\ Dest(g, type, s) \in Seq(Vertices)
    BY OutType, DestSteps
  <2>2. Dest(g, type, Append(s, v)) = Dest(g, type, s) \o Dsts(o)
    BY DestSteps
  <2>3. ToSet(Dsts(o)) = {e.dst : e \in ToSet(o)}
    <3>1. DOMAIN Dsts(o) = DOMAIN o /\ \A i \in DOMAIN o : Dsts(o)[i] = o[i].dst
      BY DEF Dsts
    <3>. HIDE DEF o
    <3>. QED BY <3>1 DEF ToSet
  <2>4. Out(g, type, ToSet(s) \cup {v}) = Out(g, type, ToSet(s)) \cup {e.dst : e \in ToSet(o)}
    BY DEF Out
  <2>. HIDE DEF o
  <2>5. ToSet(Dest(g, type, s) \o Dsts(o)) = ToSet(Dest(g, type, s)) \cup ToSet(Dsts(o))
    BY <2>1, CatSet
  <2>6. ToSet(Append(s, v)) = ToSet(s) \cup {v}
    BY AppendSet
  <2>7. Append(s, v) \in Seq(Vertices)
    OBVIOUS
  <2>. QED BY <2>2, <2>3, <2>4, <2>5, <2>6, <2>7, <1>2
<1>. HIDE DEF S
<1>3. Seq(Vertices) \subseteq S
  BY <1>1, <1>2, SeqSet
<1>. QED BY <1>3 DEF S

\* What the search lists.
ReachLaws(g, type, seed, d) ==
  /\ Search(g, seed, d, type).visited = WithinHops(g, type, {seed}, d)
  /\ ToSet(Search(g, seed, d, type).ids) = WithinHops(g, type, {seed}, d) \ {seed}
  /\ IsInjective(Search(g, seed, d, type).ids)

\* The search lists what is within its hops, once each, and not the seed.
LEMMA SearchReach ==
  ASSUME NEW g \in Stored, NEW type, NEW seed \in Vertices, NEW d \in Int
  PROVE  ReachLaws(g, type, seed, d)
<1>1. ASSUME NEW n \in Int
      PROVE  LET x == Search(g, seed, n, type) IN
             /\ x.visited = {seed} \cup ToSet(x.ids) /\ seed \notin ToSet(x.ids) /\ IsInjective(x.ids)
             /\ x.visited = {seed} \cup ToSet(x.steps)
             /\ x.visited \in SUBSET Vertices
  <2>. DEFINE x == Search(g, seed, n, type)
  <2>1. x.steps \in Seq(Vertices) /\ Walked(seed, x.steps).next = x.ids /\ Walked(seed, x.steps).visited = x.visited
    BY SearchFacts
  <2>2. Honest(seed, Walked(seed, x.steps), x.steps)
    BY <2>1, WalkHonest
  <2>3. x.visited \in SUBSET Vertices
    BY SearchIs DEF SearchStates
  <2>. QED BY <2>1, <2>2, <2>3 DEF Honest
<1>. DEFINE F == {seed}
<1>a. F \in SUBSET Vertices
  OBVIOUS
<1>. HIDE DEF F
<1>. DEFINE W(n) == WithinHops(g, type, F, n)
            S == {n \in Nat : Search(g, seed, n, type).visited = W(n)}
<1>b. \A n \in Int : /\ n <= 0 => W(n) = F
                     /\ n > 0 => W(n) = Reached(g, type, W(n - 1))
  <2>1. F \subseteq Vertices
    BY <1>a
  <2>2. WithinLaws(g, type, F)
    BY <2>1, WithinIs
  <2>. QED BY <2>2 DEF WithinLaws
<1>. HIDE DEF W
<1>2. 0 \in S
  <2>1. Search(g, seed, 0, type) = First(seed) /\ W(0) = F
    BY <1>b, SearchIs
  <2>2. First(seed).visited = F
    BY DEF First, F
  <2>3. Search(g, seed, 0, type).visited = W(0)
    BY <2>1, <2>2
  <2>. QED BY <2>3
<1>3. ASSUME NEW n \in Nat, n \in S PROVE n + 1 \in S
  <2>. DEFINE x == Search(g, seed, n, type)
              y == Search(g, seed, n + 1, type)
              T == Upto(g, seed, n, type)
  <2>0. n \in Int /\ n + 1 \in Int /\ (n + 1) - 1 = n /\ n + 1 > 0 /\ ~(n < 0)
    OBVIOUS
  <2>1. y.steps = Dest(g, type, T) /\ T \in Seq(Vertices)
    BY <2>0, SearchFacts, UptoType
  <2>2. ToSet(T) = x.visited
    <3>1. T = <<seed>> \o x.ids
      BY <2>0 DEF Upto
    <3>2. <<seed>> \in Seq(Vertices) /\ x.ids \in Seq(Vertices)
      BY <2>0, SearchFacts
    <3>3. ToSet(<<seed>>) = {seed}
      BY DEF ToSet
    <3>4. ToSet(<<seed>> \o x.ids) = ToSet(<<seed>>) \cup ToSet(x.ids)
      BY <3>2, CatSet
    <3>. QED BY <3>1, <3>3, <3>4, <1>1, <2>0
  <2>3. ToSet(Upto(g, seed, n + 1, type)) = y.visited
    <3>1. Upto(g, seed, n + 1, type) = <<seed>> \o y.ids
      BY <2>0 DEF Upto
    <3>2. <<seed>> \in Seq(Vertices) /\ y.ids \in Seq(Vertices)
      BY <2>0, SearchFacts
    <3>3. ToSet(<<seed>>) = {seed}
      BY DEF ToSet
    <3>4. ToSet(<<seed>> \o y.ids) = ToSet(<<seed>>) \cup ToSet(y.ids)
      BY <3>2, CatSet
    <3>. QED BY <3>1, <3>3, <3>4, <1>1, <2>0
  <2>4. x.visited \subseteq y.visited
    <3>1. PICK u \in Seq(Vertices) : Upto(g, seed, n + 1, type) = T \o u
      <4>1. 1 \in Nat
        OBVIOUS
      <4>. QED BY <4>1, <2>0, UptoGrows
    <3>2. ToSet(T \o u) = ToSet(T) \cup ToSet(u)
      BY <3>1, <2>1, CatSet
    <3>. QED BY <3>1, <3>2, <2>2, <2>3
  <2>5. y.visited = {seed} \cup Out(g, type, x.visited)
    BY <2>0, <2>1, <2>2, DestSet, <1>1
  <2>6. seed \in x.visited
    BY <2>0, <1>1
  <2>7. W(n + 1) = x.visited \cup Out(g, type, x.visited)
    <3>1. W(n + 1) = Reached(g, type, W(n))
      BY <2>0, <1>b
    <3>. QED BY <3>1, <1>3 DEF Reached, Out
  <2>. QED BY <2>4, <2>5, <2>6, <2>7
<1>. HIDE DEF S
<1>4. Nat \subseteq S
  BY <1>2, <1>3, NatSet
<1>5. Search(g, seed, d, type).visited = W(d)
  <2>1. CASE d \in Nat
    BY <2>1, <1>4 DEF S
  <2>2. CASE d < 0
    <3>1. Search(g, seed, d, type) = First(seed) /\ W(d) = F
      BY <2>2, <1>b, SearchIs
    <3>. QED BY <3>1 DEF First, F
  <2>. QED BY <2>1, <2>2
<1>. QED BY <1>1, <1>5 DEF F, W, ReachLaws

-----------------------------------------------------------------------------
(* The line of vertices to expand, and its cost.                           *)

\* What is expanded, or found, in order; and the edge-steps of doing so.
Line(g, seed, d, type) == <<seed>> \o Search(g, seed, d, type).ids
Steps(g, seed, d, type) == Search(g, seed, d, type).steps
\* The edge-steps of expanding the first i of the line.
Cost(g, seed, d, type, i) == Len(Dest(g, type, SubSeq(Line(g, seed, d, type), 1, i)))
\* How many of the line are at most h hops away.
Near(g, seed, h, type) == Len(Upto(g, seed, h, type))
\* What the first k edge-steps have visited.
Got(g, seed, d, type, k) == Walked(seed, SubSeq(Steps(g, seed, d, type), 1, k))
Found(g, seed, d, type, k) == Len(Got(g, seed, d, type, k).next)

\* The types of the line, the steps and the counts.
LEMMA LineType ==
  ASSUME NEW g \in Stored, NEW type, NEW seed \in Vertices, NEW d \in Int
  PROVE  /\ Line(g, seed, d, type) \in Seq(Vertices)
         /\ Len(Line(g, seed, d, type)) \in Nat
         /\ Len(Line(g, seed, d, type)) = 1 + Len(Search(g, seed, d, type).ids)
         /\ Len(Search(g, seed, d, type).ids) \in Nat
         /\ Line(g, seed, d, type)[1] = seed
         /\ \A i \in 1..Len(Search(g, seed, d, type).ids) :
              Line(g, seed, d, type)[1 + i] = Search(g, seed, d, type).ids[i]
         /\ Steps(g, seed, d, type) \in Seq(Vertices) /\ Len(Steps(g, seed, d, type)) \in Nat
         /\ \A h \in Int : Near(g, seed, h, type) \in Nat
<1>. DEFINE ids == Search(g, seed, d, type).ids
<1>1. ids \in Seq(Vertices) /\ Steps(g, seed, d, type) \in Seq(Vertices)
  BY SearchFacts DEF Steps
<1>2. \A h \in Int : Near(g, seed, h, type) \in Nat
  <2>. TAKE h \in Int
  <2>1. Upto(g, seed, h, type) \in Seq(Vertices)
    BY UptoType
  <2>. QED BY <2>1 DEF Near
<1>. HIDE DEF ids
<1>3. \A s \in Seq(Vertices) :
        /\ <<seed>> \o s \in Seq(Vertices)
        /\ Len(<<seed>> \o s) = 1 + Len(s) /\ Len(s) \in Nat
        /\ (<<seed>> \o s)[1] = seed
        /\ \A i \in 1..Len(s) : (<<seed>> \o s)[1 + i] = s[i]
  OBVIOUS
<1>. QED BY <1>1, <1>2, <1>3 DEF Line, ids

\* The line begins with what fewer hops reach.
LEMMA NearLine ==
  ASSUME NEW g \in Stored, NEW type, NEW seed \in Vertices, NEW d \in Int, NEW h \in Int, h <= d
  PROVE  /\ Near(g, seed, h, type) <= Len(Line(g, seed, d, type))
         /\ Upto(g, seed, h, type) = SubSeq(Line(g, seed, d, type), 1, Near(g, seed, h, type))
<1>. DEFINE L == Line(g, seed, d, type)
            U == Upto(g, seed, h, type)
<1>1. U \in Seq(Vertices) /\ L \in Seq(Vertices)
  BY UptoType, LineType
<1>2. CASE d < 0
  <2>1. U = <<>>
    BY <1>2 DEF Upto
  <2>2. SubSeq(L, 1, 0) = <<>> /\ Len(<<>>) = 0 /\ Len(L) \in Nat
    BY <1>1
  <2>. QED BY <2>1, <2>2 DEF Near
<1>3. CASE d >= 0
  <2>1. L = Upto(g, seed, d, type)
    BY <1>3 DEF Line, Upto
  <2>2. d - h \in Nat /\ h + (d - h) = d
    OBVIOUS
  <2>3. PICK u \in Seq(Vertices) : Upto(g, seed, h + (d - h), type) = U \o u
    BY <2>2, UptoGrows
  <2>4. L = U \o u
    BY <2>1, <2>2, <2>3
  <2>. HIDE DEF U, L
  <2>5. Len(U) <= Len(U \o u) /\ U = SubSeq(U \o u, 1, Len(U))
    BY <1>1
  <2>. QED BY <2>4, <2>5 DEF Near, U, L
<1>. QED BY <1>2, <1>3

\* More hops reach no fewer.
LEMMA NearGrows ==
  ASSUME NEW g \in Stored, NEW type, NEW seed \in Vertices
  PROVE  /\ \A h \in Int : h < 0 => Near(g, seed, h, type) = 0
         /\ Near(g, seed, 0, type) = 1
         /\ \A h \in Int, j \in Int : h <= j => Near(g, seed, h, type) <= Near(g, seed, j, type)
<1>1. \A h \in Int : h < 0 => Near(g, seed, h, type) = 0
  BY DEF Near, Upto
<1>2. Near(g, seed, 0, type) = 1
  <2>1. Search(g, seed, 0, type) = First(seed)
    BY SearchIs
  <2>2. First(seed).ids = <<>>
    BY DEF First
  <2>3. Upto(g, seed, 0, type) = <<seed>> \o Search(g, seed, 0, type).ids
    BY DEF Upto
  <2>4. Search(g, seed, 0, type).ids = <<>>
    BY <2>1, <2>2
  <2>5. Len(<<seed>> \o <<>>) = 1
    OBVIOUS
  <2>6. Len(Upto(g, seed, 0, type)) = Len(<<seed>> \o <<>>)
    BY <2>3, <2>4, Zenon
  <2>. QED BY <2>5, <2>6 DEF Near
<1>3. ASSUME NEW h \in Int, NEW j \in Int, h <= j PROVE Near(g, seed, h, type) <= Near(g, seed, j, type)
  <2>1. j - h \in Nat /\ h + (j - h) = j
    BY <1>3
  <2>2. PICK u \in Seq(Vertices) : Upto(g, seed, h + (j - h), type) = Upto(g, seed, h, type) \o u
    BY <2>1, UptoGrows
  <2>3. Upto(g, seed, h, type) \in Seq(Vertices)
    BY UptoType
  <2>4. Len(Upto(g, seed, h, type)) <= Len(Upto(g, seed, h, type) \o u)
    BY <2>3
  <2>. QED BY <2>1, <2>2, <2>4 DEF Near
<1>. QED BY <1>1, <1>2, <1>3

\* Expanding one vertex more costs its edges.
LEMMA CostSteps ==
  ASSUME NEW g \in Stored, NEW type, NEW seed \in Vertices, NEW d \in Int
  PROVE  /\ Cost(g, seed, d, type, 0) = 0
         /\ \A i \in 0..Len(Line(g, seed, d, type)) : Cost(g, seed, d, type, i) \in Nat
         /\ \A i \in Nat : i < Len(Line(g, seed, d, type)) =>
              /\ Cost(g, seed, d, type, i + 1) =
                   Cost(g, seed, d, type, i) + Len(OutEdges(g, type, Line(g, seed, d, type)[i + 1]))
<1>. DEFINE L == Line(g, seed, d, type)
<1>1. L \in Seq(Vertices) /\ Len(L) \in Nat
  BY LineType
<1>2. Cost(g, seed, d, type, 0) = 0
  <2>1. Dest(g, type, <<>>) = <<>>
    BY DestSteps
  <2>2. SubSeq(L, 1, 0) = <<>>
    <3>. HIDE DEF L
    <3>. QED BY <1>1
  <2>3. Dest(g, type, SubSeq(L, 1, 0)) = <<>>
    BY <2>1, <2>2, Zenon
  <2>. QED BY <2>3 DEF Cost
<1>3. \A i \in 0..Len(L) : Cost(g, seed, d, type, i) \in Nat
  <2>. TAKE i \in 0..Len(L)
  <2>. HIDE DEF L
  <2>1. SubSeq(L, 1, i) \in Seq(Vertices)
    BY <1>1
  <2>2. Dest(g, type, SubSeq(L, 1, i)) \in Seq(Vertices)
    BY <2>1, DestSteps
  <2>. QED BY <2>2 DEF Cost, L
<1>4. ASSUME NEW i \in Nat, i < Len(L)
      PROVE  Cost(g, seed, d, type, i + 1) = Cost(g, seed, d, type, i) + Len(OutEdges(g, type, L[i + 1]))
  <2>. DEFINE s == SubSeq(L, 1, i)
              o == OutEdges(g, type, L[i + 1])
  <2>0. SubSeq(L, 1, i + 1) = Append(s, L[i + 1]) /\ s \in Seq(Vertices) /\ L[i + 1] \in Vertices
    <3>. HIDE DEF L
    <3>. QED BY <1>1, <1>4, PrefixStep
  <2>1. Dest(g, type, SubSeq(L, 1, i + 1)) = Dest(g, type, s) \o Dsts(o)
    <3>. HIDE DEF L, s
    <3>. QED BY <2>0, DestSteps
  <2>2. o \in Seq(Edges) /\ Dsts(o) \in Seq(Vertices) /\ Dest(g, type, s) \in Seq(Vertices)
    BY <2>0, OutType, DestSteps
  <2>3. Len(Dsts(o)) = Len(o)
    <3>. HIDE DEF o
    <3>1. DOMAIN Dsts(o) = DOMAIN o
      BY DEF Dsts
    <3>. QED BY <3>1, <2>2
  <2>4. Len(Dest(g, type, s) \o Dsts(o)) = Len(Dest(g, type, s)) + Len(Dsts(o))
    BY <2>2
  <2>. QED BY <2>1, <2>3, <2>4 DEF Cost
<1>. QED BY <1>2, <1>3, <1>4

\* Expanding more costs no less.
LEMMA CostGrows ==
  ASSUME NEW g \in Stored, NEW type, NEW seed \in Vertices, NEW d \in Int
  PROVE  \A i \in Nat, j \in Nat : i <= j /\ j <= Len(Line(g, seed, d, type)) =>
           Cost(g, seed, d, type, i) <= Cost(g, seed, d, type, j)
<1>. DEFINE L == Line(g, seed, d, type)
            C(i) == Cost(g, seed, d, type, i)
<1>1. L \in Seq(Vertices) /\ Len(L) \in Nat
  BY LineType
<1>2. \A i \in 0..Len(L) : C(i) \in Nat
  BY CostSteps
<1>3. \A i \in Nat : i < Len(L) => C(i) <= C(i + 1)
  <2>. TAKE i \in Nat
  <2>. HAVE i < Len(L)
  <2>1. C(i + 1) = C(i) + Len(OutEdges(g, type, L[i + 1]))
    BY CostSteps
  <2>2. L[i + 1] \in Vertices
    BY <1>1
  <2>3. OutEdges(g, type, L[i + 1]) \in Seq(Edges)
    BY <2>2, OutType
  <2>4. Len(OutEdges(g, type, L[i + 1])) \in Nat /\ C(i) \in Nat
    BY <2>3, <1>1, <1>2
  <2>. QED BY <2>1, <2>4
<1>. HIDE DEF L, C
<1>4. ASSUME NEW i \in Nat PROVE \A n \in Nat : i + n <= Len(L) => C(i) <= C(i + n)
  <2>. DEFINE S == {n \in Nat : i + n <= Len(L) => C(i) <= C(i + n)}
  <2>1. 0 \in S
    <3>1. i + 0 = i
      OBVIOUS
    <3>2. i <= Len(L) => C(i) <= C(i)
      BY <1>1, <1>2
    <3>. QED BY <3>1, <3>2
  <2>2. ASSUME NEW n \in Nat, n \in S PROVE n + 1 \in S
    <3>. SUFFICES ASSUME i + (n + 1) <= Len(L) PROVE C(i) <= C(i + (n + 1))
      OBVIOUS
    <3>1. i + (n + 1) = (i + n) + 1 /\ i + n \in Nat /\ i + n < Len(L)
          /\ i \in 0..Len(L) /\ i + n \in 0..Len(L) /\ (i + n) + 1 \in 0..Len(L)
      BY <1>1
    <3>2. C(i) <= C(i + n) /\ C(i + n) <= C((i + n) + 1)
      BY <3>1, <2>2, <1>3
    <3>3. C(i) \in Nat /\ C(i + n) \in Nat /\ C((i + n) + 1) \in Nat
      BY <3>1, <1>2
    <3>. QED BY <3>1, <3>2, <3>3
  <2>. HIDE DEF S
  <2>3. Nat \subseteq S
    BY <2>1, <2>2, NatSet
  <2>. QED BY <2>3 DEF S
<1>5. ASSUME NEW i \in Nat, NEW j \in Nat, i <= j, j <= Len(L) PROVE C(i) <= C(j)
  <2>1. j - i \in Nat /\ i + (j - i) = j
    BY <1>5
  <2>2. C(i) <= C(i + (j - i))
    BY <2>1, <1>4, <1>5
  <2>. QED BY <2>1, <2>2
<1>. QED BY <1>5 DEF L, C

\* The steps are those of expanding the line up to the last hop but one, in order.
LEMMA StepsInLine ==
  ASSUME NEW g \in Stored, NEW type, NEW seed \in Vertices, NEW d \in Int,
         NEW i \in Nat, i <= Near(g, seed, d - 1, type)
  PROVE  /\ Cost(g, seed, d, type, Near(g, seed, d - 1, type)) = Len(Steps(g, seed, d, type))
         /\ Cost(g, seed, d, type, i) <= Len(Steps(g, seed, d, type))
         /\ Dest(g, type, SubSeq(Line(g, seed, d, type), 1, i)) =
              SubSeq(Steps(g, seed, d, type), 1, Cost(g, seed, d, type, i))
<1>. DEFINE L == Line(g, seed, d, type)
            E == Near(g, seed, d - 1, type)
            A == Steps(g, seed, d, type)
            D(j) == Dest(g, type, SubSeq(L, 1, j))
<1>0. d - 1 \in Int
  OBVIOUS
<1>1. L \in Seq(Vertices) /\ Len(L) \in Nat /\ A \in Seq(Vertices) /\ E \in Nat
  BY <1>0, LineType
<1>2. E <= Len(L) /\ Upto(g, seed, d - 1, type) = SubSeq(L, 1, E)
  <2>1. \A h \in Int : h <= d =>
          /\ Near(g, seed, h, type) <= Len(L)
          /\ Upto(g, seed, h, type) = SubSeq(L, 1, Near(g, seed, h, type))
    BY NearLine
  <2>2. d - 1 <= d
    OBVIOUS
  <2>. QED BY <1>0, <2>1, <2>2
<1>3. A = D(E)
  BY <1>0, <1>2, SearchFacts DEF Steps
<1>. HIDE DEF L, E, A
<1>4. PICK t \in Seq(Vertices) : SubSeq(L, 1, E) = SubSeq(L, 1, i) \o t
  <2>1. i <= E
    BY DEF E
  <2>2. E <= Len(L)
    BY <1>2
  <2>3. Extends(SubSeq(L, 1, E), SubSeq(L, 1, i), Vertices)
    BY <1>1, <2>1, <2>2, PrefixCat
  <2>. QED BY <2>3 DEF Extends
<1>5. SubSeq(L, 1, i) \in Seq(Vertices)
  <2>1. i <= E
    BY DEF E
  <2>. QED BY <1>1, <1>2, <2>1
<1>6. D(E) = D(i) \o Dest(g, type, t)
  <2>1. Dest(g, type, SubSeq(L, 1, i) \o t) = Dest(g, type, SubSeq(L, 1, i)) \o Dest(g, type, t)
    BY <1>5, DestCat
  <2>. QED BY <2>1, <1>4
<1>7. D(i) \in Seq(Vertices) /\ Dest(g, type, t) \in Seq(Vertices)
  BY <1>5, DestSteps
<1>8. Cost(g, seed, d, type, i) = Len(D(i)) /\ Cost(g, seed, d, type, E) = Len(D(E))
  BY DEF Cost, L
<1>. HIDE DEF D
<1>. DEFINE b == Dest(g, type, t)
            a == D(i)
<1>9. a \in Seq(Vertices) /\ b \in Seq(Vertices) /\ A = a \o b
  BY <1>3, <1>6, <1>7
<1>. HIDE DEF a, b
<1>10. Len(a) <= Len(a \o b) /\ a = SubSeq(a \o b, 1, Len(a))
  BY <1>9
<1>. QED BY <1>3, <1>8, <1>9, <1>10 DEF a, A, E, D, L

-----------------------------------------------------------------------------
(* What the edge-steps reach.                                              *)

\* What each edge-step does to a walk.
GotFacts(g, seed, d, type) ==
  /\ Got(g, seed, d, type, 0) = Start(seed)
  /\ \A k \in 0..Len(Steps(g, seed, d, type)) :
       /\ Got(g, seed, d, type, k) \in VisitStates
       /\ Found(g, seed, d, type, k) \in Nat
       /\ Got(g, seed, d, type, k).visited = {seed} \cup ToSet(Got(g, seed, d, type, k).next)
       /\ Cardinality(Got(g, seed, d, type, k).visited) = Found(g, seed, d, type, k) + 1
       /\ Found(g, seed, d, type, k) <= k
       /\ \A i \in 1..k : Steps(g, seed, d, type)[i] \in Got(g, seed, d, type, k).visited
  /\ \A k \in Nat : k < Len(Steps(g, seed, d, type)) =>
       Got(g, seed, d, type, k + 1) =
         Visit(Got(g, seed, d, type, k), Steps(g, seed, d, type)[k + 1])
  /\ Got(g, seed, d, type, Len(Steps(g, seed, d, type))).next = Search(g, seed, d, type).ids

\* What the steps reach, one at a time: the next step reaches a vertex that
\* was visited, or one more of the list.
LEMMA GotSteps ==
  ASSUME NEW g \in Stored, NEW type, NEW seed \in Vertices, NEW d \in Int
  PROVE  GotFacts(g, seed, d, type)
<1>. DEFINE A == Steps(g, seed, d, type)
<1>1. A \in Seq(Vertices) /\ Len(A) \in Nat
  BY LineType
<1>2. Walked(seed, A).next = Search(g, seed, d, type).ids
  BY SearchFacts DEF Steps
<1>. HIDE DEF A
<1>3. Walked(seed, SubSeq(A, 1, 0)) = Start(seed)
  <2>1. SubSeq(A, 1, 0) = <<>>
    BY <1>1
  <2>2. Walked(seed, <<>>) = Start(seed)
    BY WalkSteps
  <2>. QED BY <2>1, <2>2, Zenon
<1>4. SubSeq(A, 1, Len(A)) = A
  BY <1>1, SubSeqAll
<1>5. ASSUME NEW k \in 0..Len(A)
      PROVE  LET w == Walked(seed, SubSeq(A, 1, k)) IN
             /\ w \in VisitStates /\ Len(w.next) \in Nat
             /\ w.visited = {seed} \cup ToSet(w.next)
             /\ Cardinality(w.visited) = Len(w.next) + 1
             /\ Len(w.next) <= k
             /\ \A i \in 1..k : A[i] \in w.visited
  <2>. DEFINE p == SubSeq(A, 1, k)
              w == Walked(seed, p)
  <2>1. p \in Seq(Vertices) /\ Len(p) = k /\ \A i \in 1..k : i \in DOMAIN p /\ p[i] = A[i]
    BY <1>1
  <2>. HIDE DEF p
  <2>2. w \in VisitStates /\ Honest(seed, w, p)
    BY <2>1, WalkSteps, WalkHonest
  <2>. HIDE DEF w
  <2>3. w.next \in Seq(Vertices)
    BY <2>2 DEF VisitStates
  <2>4. /\ w \in VisitStates /\ Len(w.next) \in Nat
        /\ w.visited = {seed} \cup ToSet(w.next)
        /\ Cardinality(w.visited) = Len(w.next) + 1
        /\ Len(w.next) <= k
    BY <2>1, <2>2, <2>3 DEF Honest
  <2>5. \A i \in 1..k : A[i] \in w.visited
    <3>1. \A i \in 1..k : A[i] \in ToSet(p)
      BY <2>1 DEF ToSet
    <3>. QED BY <3>1, <2>2 DEF Honest
  <2>. QED BY <2>4, <2>5 DEF w, p
<1>6. ASSUME NEW k \in Nat, k < Len(A)
      PROVE  Walked(seed, SubSeq(A, 1, k + 1)) = Visit(Walked(seed, SubSeq(A, 1, k)), A[k + 1])
  <2>1. /\ SubSeq(A, 1, k + 1) = Append(SubSeq(A, 1, k), A[k + 1])
        /\ SubSeq(A, 1, k) \in Seq(Vertices) /\ A[k + 1] \in Vertices
    BY <1>1, <1>6, PrefixStep
  <2>2. Walked(seed, Append(SubSeq(A, 1, k), A[k + 1])) = Visit(Walked(seed, SubSeq(A, 1, k)), A[k + 1])
    BY <2>1, WalkSteps
  <2>. QED BY <2>1, <2>2
<1>. QED BY <1>2, <1>3, <1>4, <1>5, <1>6 DEF GotFacts, Got, Found, A

\* More steps find no fewer, and find the same ones first.
LEMMA GotGrows ==
  ASSUME NEW g \in Stored, NEW type, NEW seed \in Vertices, NEW d \in Int,
         NEW k \in Nat, NEW l \in Nat, k <= l, l <= Len(Steps(g, seed, d, type))
  PROVE  /\ Found(g, seed, d, type, k) <= Found(g, seed, d, type, l)
         /\ Got(g, seed, d, type, k).next =
              SubSeq(Got(g, seed, d, type, l).next, 1, Found(g, seed, d, type, k))
<1>. DEFINE A == Steps(g, seed, d, type)
<1>1. A \in Seq(Vertices) /\ Len(A) \in Nat
  BY LineType
<1>0. l <= Len(A)
  OBVIOUS
<1>. HIDE DEF A
<1>2. Extends(SubSeq(A, 1, l), SubSeq(A, 1, k), Vertices)
  BY <1>0, <1>1, PrefixCat
<1>3. PICK t \in Seq(Vertices) : SubSeq(A, 1, l) = SubSeq(A, 1, k) \o t
  BY <1>2 DEF Extends
<1>. DEFINE p == SubSeq(A, 1, k)
<1>4. p \in Seq(Vertices)
  BY <1>0, <1>1
<1>. HIDE DEF p
<1>5. PICK u \in Seq(Vertices) : Walked(seed, p \o t).next = Walked(seed, p).next \o u
  BY <1>4, WalkGrows
<1>. DEFINE a == Walked(seed, p).next
<1>6. a \in Seq(Vertices)
  <2>1. Walked(seed, p) \in VisitStates
    BY <1>4, WalkSteps
  <2>. QED BY <2>1 DEF VisitStates
<1>7. Walked(seed, SubSeq(A, 1, l)).next = a \o u
  BY <1>3, <1>5 DEF p
<1>. HIDE DEF a
<1>8. Len(a) <= Len(a \o u) /\ a = SubSeq(a \o u, 1, Len(a))
  BY <1>6
<1>. QED BY <1>7, <1>8 DEF Found, Got, A, a, p

\* Expanding all that is at most h hops away finds all that is at most h + 1.
LEMMA HopEnd ==
  ASSUME NEW g \in Stored, NEW type, NEW seed \in Vertices, NEW d \in Int, NEW h \in Nat, h < d
  PROVE  /\ Cost(g, seed, d, type, Near(g, seed, h, type)) <= Len(Steps(g, seed, d, type))
         /\ 1 + Found(g, seed, d, type, Cost(g, seed, d, type, Near(g, seed, h, type))) =
              Near(g, seed, h + 1, type)
<1>. DEFINE L == Line(g, seed, d, type)
            A == Steps(g, seed, d, type)
            N == Near(g, seed, h, type)
            c == Cost(g, seed, d, type, N)
            y == Search(g, seed, h + 1, type)
<1>0. h \in Int /\ h + 1 \in Int /\ (h + 1) - 1 = h /\ h <= d /\ d - 1 \in Int /\ h <= d - 1 /\ ~(h + 1 < 0)
  OBVIOUS
<1>1. \A j \in Int : j <= d =>
          /\ Near(g, seed, j, type) <= Len(L)
          /\ Upto(g, seed, j, type) = SubSeq(L, 1, Near(g, seed, j, type))
  BY NearLine
<1>2. y.steps = Dest(g, type, SubSeq(L, 1, N)) /\ Walked(seed, y.steps).next = y.ids /\ y.ids \in Seq(Vertices)
  <2>1. /\ y.steps = Dest(g, type, Upto(g, seed, (h + 1) - 1, type))
        /\ Walked(seed, y.steps).next = y.ids /\ y.ids \in Seq(Vertices)
    BY <1>0, SearchFacts
  <2>2. Upto(g, seed, h, type) = SubSeq(L, 1, N)
    BY <1>0, <1>1
  <2>3. Dest(g, type, Upto(g, seed, (h + 1) - 1, type)) = Dest(g, type, SubSeq(L, 1, N))
    BY <1>0, <2>2
  <2>. HIDE DEF y
  <2>. QED BY <2>1, <2>3
<1>3. N <= Near(g, seed, d - 1, type) /\ N \in Nat
  BY <1>0, NearGrows, LineType
<1>4. c <= Len(A) /\ Dest(g, type, SubSeq(L, 1, N)) = SubSeq(A, 1, c)
  <2>. HIDE DEF N
  <2>. QED BY <1>3, StepsInLine
<1>5. Got(g, seed, d, type, c).next = y.ids
  BY <1>2, <1>4 DEF Got
<1>6. Near(g, seed, h + 1, type) = 1 + Len(y.ids)
  <2>1. Upto(g, seed, h + 1, type) = <<seed>> \o y.ids
    BY <1>0 DEF Upto
  <2>. HIDE DEF y
  <2>2. Len(<<seed>> \o y.ids) = 1 + Len(y.ids)
    BY <1>2
  <2>. QED BY <2>1, <2>2 DEF Near
<1>. QED BY <1>4, <1>5, <1>6 DEF Found

\* What expanding the i-th of the line costs, and what it is served.
LEMMA EdgesOf ==
  ASSUME NEW g \in Stored, NEW type, NEW seed \in Vertices, NEW d \in Int,
         NEW i \in Nat, i < Near(g, seed, d - 1, type)
  PROVE  LET o == OutEdges(g, type, Line(g, seed, d, type)[i + 1]) IN
         /\ o \in Seq(Edges)
         /\ Cost(g, seed, d, type, i + 1) = Cost(g, seed, d, type, i) + Len(o)
         /\ \A j \in 1..Len(o) :
              o[j].dst = Steps(g, seed, d, type)[Cost(g, seed, d, type, i) + j]
<1>. DEFINE L == Line(g, seed, d, type)
            A == Steps(g, seed, d, type)
            E == Near(g, seed, d - 1, type)
            C(j) == Cost(g, seed, d, type, j)
            o == OutEdges(g, type, L[i + 1])
<1>0. d - 1 \in Int /\ d - 1 <= d
  OBVIOUS
<1>1. L \in Seq(Vertices) /\ Len(L) \in Nat /\ A \in Seq(Vertices) /\ Len(A) \in Nat /\ E \in Nat
  BY <1>0, LineType
<1>2. E <= Len(L)
  <2>1. \A j \in Int : j <= d => Near(g, seed, j, type) <= Len(L)
    BY NearLine
  <2>. QED BY <1>0, <2>1
<1>3. i < Len(L) /\ i + 1 <= E /\ i <= E /\ i + 1 \in Nat /\ i + 1 \in 1..Len(L)
  BY <1>1, <1>2
<1>4. L[i + 1] \in Vertices
  BY <1>1, <1>3
<1>5. o \in Seq(Edges) /\ Dsts(o) \in Seq(Vertices)
  BY <1>4, OutType
<1>6. C(i + 1) = C(i) + Len(o) /\ C(i) \in Nat
  <2>1. C(i + 1) = C(i) + Len(o)
    BY <1>3, CostSteps
  <2>2. i \in 0..Len(L)
    BY <1>1, <1>3
  <2>3. \A j \in 0..Len(L) : C(j) \in Nat
    BY CostSteps
  <2>. QED BY <2>1, <2>2, <2>3
<1>7. /\ C(i) <= Len(A) /\ C(i + 1) <= Len(A)
      /\ Dest(g, type, SubSeq(L, 1, i)) = SubSeq(A, 1, C(i))
      /\ Dest(g, type, SubSeq(L, 1, i + 1)) = SubSeq(A, 1, C(i + 1))
  BY <1>3, StepsInLine
<1>8. Dest(g, type, SubSeq(L, 1, i + 1)) = Dest(g, type, SubSeq(L, 1, i)) \o Dsts(o)
  <2>1. SubSeq(L, 1, i + 1) = Append(SubSeq(L, 1, i), L[i + 1]) /\ SubSeq(L, 1, i) \in Seq(Vertices)
    <3>. HIDE DEF L
    <3>. QED BY <1>1, <1>3, PrefixStep
  <2>2. Dest(g, type, Append(SubSeq(L, 1, i), L[i + 1])) = Dest(g, type, SubSeq(L, 1, i)) \o Dsts(o)
    <3>. HIDE DEF L
    <3>. QED BY <2>1, <1>4, DestSteps
  <2>. QED BY <2>1, <2>2
<1>9. DOMAIN Dsts(o) = DOMAIN o /\ \A j \in DOMAIN o : Dsts(o)[j] = o[j].dst
  BY DEF Dsts
<1>. DEFINE c == C(i)
            e == C(i + 1)
            q == Dsts(o)
<1>10. /\ c \in Nat /\ e = c + Len(o) /\ c <= Len(A) /\ e <= Len(A)
       /\ SubSeq(A, 1, e) = SubSeq(A, 1, c) \o q
       /\ q \in Seq(Vertices) /\ DOMAIN q = DOMAIN o /\ \A j \in DOMAIN o : q[j] = o[j].dst
       /\ o \in Seq(Edges) /\ A \in Seq(Vertices)
  BY <1>1, <1>5, <1>6, <1>7, <1>8, <1>9
<1>11. C(i + 1) = c + Len(o)
  BY <1>10
<1>. HIDE DEF c, e, q, o, A
<1>12. \A j \in 1..Len(o) : o[j].dst = A[c + j]
  <2>. TAKE j \in 1..Len(o)
  <2>0. Len(o) \in Nat /\ Len(A) \in Nat /\ DOMAIN o = 1..Len(o)
    BY <1>10
  <2>1. Len(SubSeq(A, 1, c)) = c /\ SubSeq(A, 1, c) \in Seq(Vertices)
    BY <1>10
  <2>2. (SubSeq(A, 1, c) \o q)[c + j] = q[j]
    BY <2>0, <2>1, <1>10
  <2>3. SubSeq(A, 1, e)[c + j] = A[c + j]
    BY <2>0, <1>10
  <2>. QED BY <2>0, <2>2, <2>3, <1>10
<1>. QED BY <1>10, <1>11, <1>12 DEF c, A, o, L

-----------------------------------------------------------------------------
(* The laws of a call.                                                     *)

\* The arguments of a traversal.
Args == [seed : Vertices, depth : Int, type : Nat, budget : Nat \ {0}]

\* The same, of a call's arguments.
LineOf(g, a) == Line(g, a.seed, a.depth, a.type)
StepsOf(g, a) == Steps(g, a.seed, a.depth, a.type)
IdsOf(g, a) == Search(g, a.seed, a.depth, a.type).ids
CostOf(g, a, i) == Cost(g, a.seed, a.depth, a.type, i)
NearOf(g, a, h) == Near(g, a.seed, h, a.type)
GotOf(g, a, k) == Got(g, a.seed, a.depth, a.type, k)
FoundOf(g, a, k) == Found(g, a.seed, a.depth, a.type, k)
\* How many of the line are expanded.
ExpandedOf(g, a) == NearOf(g, a, a.depth - 1)

\* The lemmas above for a call's arguments, by what they are about.
LineLaws(g, a) ==
  /\ LineOf(g, a) \in Seq(Vertices) /\ Len(LineOf(g, a)) \in Nat
  /\ IdsOf(g, a) \in Seq(Vertices) /\ Len(IdsOf(g, a)) \in Nat
  /\ Len(LineOf(g, a)) = 1 + Len(IdsOf(g, a))
  /\ LineOf(g, a)[1] = a.seed
  /\ \A i \in 1..Len(IdsOf(g, a)) : LineOf(g, a)[1 + i] = IdsOf(g, a)[i]
  /\ StepsOf(g, a) \in Seq(Vertices) /\ Len(StepsOf(g, a)) \in Nat
  /\ ExpandedOf(g, a) \in Nat /\ ExpandedOf(g, a) <= Len(LineOf(g, a))

NearLaws(g, a) ==
  /\ \A h \in Int : NearOf(g, a, h) \in Nat
  /\ \A h \in Int : h < 0 => NearOf(g, a, h) = 0
  /\ NearOf(g, a, 0) = 1
  /\ \A h \in Int, j \in Int : h <= j => NearOf(g, a, h) <= NearOf(g, a, j)
  /\ \A h \in Int : h <= a.depth => NearOf(g, a, h) <= Len(LineOf(g, a))

CostLaws(g, a) ==
  /\ CostOf(g, a, 0) = 0
  /\ \A i \in 0..Len(LineOf(g, a)) : CostOf(g, a, i) \in Nat
  /\ \A i \in Nat, j \in Nat : i <= j /\ j <= Len(LineOf(g, a)) => CostOf(g, a, i) <= CostOf(g, a, j)
  /\ CostOf(g, a, ExpandedOf(g, a)) = Len(StepsOf(g, a))

EdgeLaws(g, a) ==
  \A i \in Nat : i < ExpandedOf(g, a) =>
    LET o == OutEdges(g, a.type, LineOf(g, a)[i + 1]) IN
    /\ o \in Seq(Edges)
    /\ CostOf(g, a, i + 1) = CostOf(g, a, i) + Len(o)
    /\ \A j \in 1..Len(o) : o[j].dst = StepsOf(g, a)[CostOf(g, a, i) + j]

GotLaws(g, a) ==
  /\ GotOf(g, a, 0) = Start(a.seed)
  /\ \A k \in 0..Len(StepsOf(g, a)) :
       /\ GotOf(g, a, k) \in VisitStates
       /\ Len(GotOf(g, a, k).next) = FoundOf(g, a, k)
       /\ FoundOf(g, a, k) \in Nat
       /\ GotOf(g, a, k).visited = {a.seed} \cup ToSet(GotOf(g, a, k).next)
       /\ Cardinality(GotOf(g, a, k).visited) = FoundOf(g, a, k) + 1
       /\ FoundOf(g, a, k) <= k
       /\ \A i \in 1..k : StepsOf(g, a)[i] \in GotOf(g, a, k).visited
       /\ GotOf(g, a, k).next = SubSeq(IdsOf(g, a), 1, FoundOf(g, a, k))
       /\ FoundOf(g, a, k) <= Len(IdsOf(g, a))
  /\ \A k \in Nat : k < Len(StepsOf(g, a)) =>
       GotOf(g, a, k + 1) = Visit(GotOf(g, a, k), StepsOf(g, a)[k + 1])
  /\ GotOf(g, a, Len(StepsOf(g, a))).next = IdsOf(g, a)

HopLaws(g, a) ==
  /\ \A k \in Nat, l \in Nat : k <= l /\ l <= Len(StepsOf(g, a)) => FoundOf(g, a, k) <= FoundOf(g, a, l)
  /\ \A h \in Nat : h < a.depth =>
       /\ CostOf(g, a, NearOf(g, a, h)) <= Len(StepsOf(g, a))
       /\ 1 + FoundOf(g, a, CostOf(g, a, NearOf(g, a, h))) = NearOf(g, a, h + 1)

\* The laws above, for the arguments of a call.
LEMMA Laws ==
  ASSUME NEW g \in Stored, NEW a \in Args
  PROVE  LineLaws(g, a) /\ NearLaws(g, a) /\ CostLaws(g, a) /\ EdgeLaws(g, a)
         /\ GotLaws(g, a) /\ HopLaws(g, a)
<1>. DEFINE seed == a.seed
            d == a.depth
            type == a.type
<1>0. seed \in Vertices /\ d \in Int /\ d - 1 \in Int /\ d - 1 <= d
  BY DEF Args
<1>. HIDE DEF seed, d, type
<1>1. /\ Line(g, seed, d, type) \in Seq(Vertices)
      /\ Len(Line(g, seed, d, type)) \in Nat
      /\ Len(Line(g, seed, d, type)) = 1 + Len(Search(g, seed, d, type).ids)
      /\ Len(Search(g, seed, d, type).ids) \in Nat
      /\ Line(g, seed, d, type)[1] = seed
      /\ \A i \in 1..Len(Search(g, seed, d, type).ids) :
           Line(g, seed, d, type)[1 + i] = Search(g, seed, d, type).ids[i]
      /\ Steps(g, seed, d, type) \in Seq(Vertices) /\ Len(Steps(g, seed, d, type)) \in Nat
      /\ \A h \in Int : Near(g, seed, h, type) \in Nat
  BY <1>0, LineType
<1>2. Search(g, seed, d, type).ids \in Seq(Vertices)
  BY <1>0, SearchFacts
<1>3. \A h \in Int : h <= d => Near(g, seed, h, type) <= Len(Line(g, seed, d, type))
  BY <1>0, NearLine
<1>4. LineLaws(g, a)
  BY <1>0, <1>1, <1>2, <1>3 DEF LineLaws, LineOf, StepsOf, IdsOf, ExpandedOf, NearOf, seed, d, type
<1>5. NearLaws(g, a)
  BY <1>0, <1>1, <1>3, NearGrows DEF NearLaws, NearOf, LineOf, seed, d, type
<1>6. CostLaws(g, a)
  <2>1. /\ Cost(g, seed, d, type, 0) = 0
        /\ \A i \in 0..Len(Line(g, seed, d, type)) : Cost(g, seed, d, type, i) \in Nat
    BY <1>0, CostSteps
  <2>2. \A i \in Nat, j \in Nat : i <= j /\ j <= Len(Line(g, seed, d, type)) =>
           Cost(g, seed, d, type, i) <= Cost(g, seed, d, type, j)
    BY <1>0, CostGrows
  <2>3. Cost(g, seed, d, type, Near(g, seed, d - 1, type)) = Len(Steps(g, seed, d, type))
    <3>1. 0 <= Near(g, seed, d - 1, type)
      BY <1>0, <1>1
    <3>. QED BY <3>1, <1>0, StepsInLine
  <2>. QED BY <2>1, <2>2, <2>3 DEF CostLaws, CostOf, LineOf, StepsOf, ExpandedOf, NearOf, seed, d, type
<1>7. EdgeLaws(g, a)
  <2>1. \A i \in Nat : i < Near(g, seed, d - 1, type) =>
          LET o == OutEdges(g, type, Line(g, seed, d, type)[i + 1]) IN
           /\ o \in Seq(Edges)
           /\ Cost(g, seed, d, type, i + 1) = Cost(g, seed, d, type, i) + Len(o)
           /\ \A j \in 1..Len(o) :
                o[j].dst = Steps(g, seed, d, type)[Cost(g, seed, d, type, i) + j]
    BY <1>0, EdgesOf
  <2>. QED BY <2>1 DEF EdgeLaws, CostOf, LineOf, StepsOf, ExpandedOf, NearOf, seed, d, type
<1>8. \A k \in Nat, l \in Nat : k <= l /\ l <= Len(Steps(g, seed, d, type)) =>
         /\ Found(g, seed, d, type, k) <= Found(g, seed, d, type, l)
         /\ Got(g, seed, d, type, k).next =
              SubSeq(Got(g, seed, d, type, l).next, 1, Found(g, seed, d, type, k))
  BY <1>0, GotGrows
<1>9. HopLaws(g, a)
  <2>1. \A h \in Nat : h < d =>
         /\ Cost(g, seed, d, type, Near(g, seed, h, type)) <= Len(Steps(g, seed, d, type))
         /\ 1 + Found(g, seed, d, type, Cost(g, seed, d, type, Near(g, seed, h, type))) =
              Near(g, seed, h + 1, type)
    BY <1>0, HopEnd
  <2>. QED BY <1>8, <2>1 DEF HopLaws, CostOf, StepsOf, FoundOf, NearOf, seed, d, type
<1>10. GotLaws(g, a)
  <2>1. GotFacts(g, seed, d, type)
    BY <1>0, GotSteps
  <2>2. Found(g, seed, d, type, Len(Steps(g, seed, d, type))) = Len(Search(g, seed, d, type).ids)
    BY <2>1 DEF GotFacts, Found
  <2>3. ASSUME NEW k \in 0..Len(Steps(g, seed, d, type))
        PROVE  /\ Got(g, seed, d, type, k).next = SubSeq(Search(g, seed, d, type).ids, 1, Found(g, seed, d, type, k))
               /\ Found(g, seed, d, type, k) <= Len(Search(g, seed, d, type).ids)
    <3>1. k \in Nat /\ k <= Len(Steps(g, seed, d, type))
          /\ Len(Steps(g, seed, d, type)) <= Len(Steps(g, seed, d, type))
      BY <1>1
    <3>. QED BY <3>1, <1>1, <1>8, <2>1, <2>2 DEF GotFacts
  <2>. QED BY <2>1, <2>3 DEF GotFacts, GotLaws, GotOf, FoundOf, Found, StepsOf, IdsOf, seed, d, type
<1>. QED BY <1>4, <1>5, <1>6, <1>7, <1>9, <1>10

-----------------------------------------------------------------------------
(* The traversals: the invariant and the steps between edges.              *)

\* What the queue holds, and the open scan.
Queued == [vid : Vertices, depth : Nat]
Scanning == [open : BOOLEAN, depth : Nat, rest : Seq(Edges)]

\* How many vertices of the line have been dequeued.
Dequeued == Len(emitted) + 1 - Len(queue)

\* The i-th of the line is h hops away.
IsDepth(g, a, i, h) == NearOf(g, a, h - 1) < i /\ i <= NearOf(g, a, h)

\* The state's type.
TravTypeOK ==
  /\ adj \in Stored /\ args \in Args
  /\ listed = IdsOf(adj, args)
  /\ queue \in Seq(Queued)
  /\ curScan \in Scanning
  /\ used \in Nat
  /\ state \in {"pulling", "exact", "censored"}

\* What has been visited is what the steps spent visit.
SpentInv ==
  /\ used <= Len(StepsOf(adj, args)) /\ used <= args.budget
  /\ visited = GotOf(adj, args, used).visited
  /\ emitted = GotOf(adj, args, used).next

\* The queue is the end of the line so far, each vertex with its depth.
QueueInv ==
  /\ Len(queue) <= Len(emitted) + 1
  /\ \A i \in 1..Len(queue) :
       /\ queue[i].vid = LineOf(adj, args)[Dequeued + i]
       /\ IsDepth(adj, args, Dequeued + i, queue[i].depth)

\* Between two expansions the steps spent are those of what was dequeued.
BetweenInv ==
  state = "pulling" /\ ~curScan.open =>
    /\ used < args.budget
    /\ Dequeued <= ExpandedOf(adj, args) => used = CostOf(adj, args, Dequeued)
    /\ Dequeued >= ExpandedOf(adj, args) => used = CostOf(adj, args, ExpandedOf(adj, args))

\* What the open scan has still to serve are the next steps.
ScanInv ==
  curScan.open =>
    /\ state = "pulling"
    /\ 1 <= Dequeued /\ Dequeued <= ExpandedOf(adj, args)
    /\ curScan.depth < args.depth
    /\ IsDepth(adj, args, Dequeued, curScan.depth)
    /\ CostOf(adj, args, Dequeued - 1) <= used
    /\ used + Len(curScan.rest) = CostOf(adj, args, Dequeued)
    /\ \A j \in 1..Len(curScan.rest) : curScan.rest[j].dst = StepsOf(adj, args)[used + j]

\* Why it ended.
EndInv ==
  /\ state = "exact" => used = Len(StepsOf(adj, args)) /\ used < args.budget
  /\ state = "censored" => used = args.budget

\* The inductive invariant of a traversal.
TravInv == TravTypeOK /\ SpentInv /\ QueueInv /\ BetweenInv /\ ScanInv /\ EndInv

\* A traversal begins in the invariant.
LEMMA TravInitInv == TravInit => TravInv
<1>. SUFFICES ASSUME TravInit PROVE TravInv
  OBVIOUS
<1>1. adj \in Stored /\ args \in Args
  BY AdjacenciesAssumption, ArgumentsAssumption DEF TravInit, Stored, Edges, Args
<1>2. LineLaws(adj, args) /\ NearLaws(adj, args) /\ CostLaws(adj, args) /\ GotLaws(adj, args)
  BY <1>1, Laws
<1>3. args.seed \in Vertices /\ args.depth \in Int /\ args.budget \in Nat /\ args.budget > 0
  BY <1>1 DEF Args
<1>4. /\ visited = {args.seed} /\ emitted = <<>> /\ used = 0 /\ state = "pulling" /\ ~curScan.open
      /\ queue = <<[vid |-> args.seed, depth |-> 0]>> /\ curScan = NoScan
  BY DEF TravInit, NoScan
<1>5. Len(queue) = 1 /\ queue[1] = [vid |-> args.seed, depth |-> 0] /\ Len(emitted) = 0 /\ Dequeued = 0
      /\ queue \in Seq(Queued)
  BY <1>3, <1>4 DEF Dequeued, Queued
<1>6. TravTypeOK
  <2>1. curScan \in Scanning
    BY <1>4 DEF NoScan, Scanning
  <2>2. listed = IdsOf(adj, args)
    BY DEF TravInit, IdsOf
  <2>. QED BY <1>1, <1>4, <1>5, <2>1, <2>2 DEF TravTypeOK
<1>7. SpentInv
  BY <1>2, <1>3, <1>4 DEF SpentInv, LineLaws, GotLaws, Start
<1>8. QueueInv
  <2>1. IsDepth(adj, args, 1, 0)
    <3>1. 0 - 1 \in Int /\ 0 - 1 < 0
      OBVIOUS
    <3>2. NearOf(adj, args, 0 - 1) = 0 /\ NearOf(adj, args, 0) = 1
      BY <1>2, <3>1 DEF NearLaws
    <3>. QED BY <3>2 DEF IsDepth
  <2>2. LineOf(adj, args)[1] = args.seed
    BY <1>2 DEF LineLaws
  <2>. QED BY <1>5, <2>1, <2>2 DEF QueueInv
<1>9. BetweenInv
  <2>1. ExpandedOf(adj, args) \in Nat /\ CostOf(adj, args, 0) = 0
    BY <1>2 DEF LineLaws, CostLaws
  <2>. QED BY <1>3, <1>4, <1>5, <2>1 DEF BetweenInv
<1>10. ScanInv /\ EndInv
  BY <1>4 DEF ScanInv, EndInv
<1>. QED BY <1>6, <1>7, <1>8, <1>9, <1>10 DEF TravInv

\* What every step uses.
LEMMA TravGiven ==
  ASSUME TravInv
  PROVE  /\ LineLaws(adj, args) /\ NearLaws(adj, args) /\ CostLaws(adj, args) /\ EdgeLaws(adj, args)
         /\ GotLaws(adj, args) /\ HopLaws(adj, args)
         /\ args.depth \in Int /\ args.depth - 1 \in Int /\ args.budget \in Nat
         /\ Len(emitted) \in Nat /\ emitted \in Seq(Vertices) /\ Len(queue) \in Nat /\ Dequeued \in Nat
         /\ used \in 0..Len(StepsOf(adj, args))
         /\ Len(emitted) = FoundOf(adj, args, used)
<1>1. adj \in Stored /\ args \in Args /\ queue \in Seq(Queued) /\ used \in Nat
  BY DEF TravInv, TravTypeOK
<1>2. /\ LineLaws(adj, args) /\ NearLaws(adj, args) /\ CostLaws(adj, args) /\ EdgeLaws(adj, args)
      /\ GotLaws(adj, args) /\ HopLaws(adj, args)
  BY <1>1, Laws
<1>3. used \in 0..Len(StepsOf(adj, args))
  BY <1>1, <1>2 DEF TravInv, SpentInv, LineLaws
<1>4. emitted \in Seq(Vertices) /\ Len(emitted) = FoundOf(adj, args, used)
  BY <1>2, <1>3 DEF TravInv, SpentInv, GotLaws, VisitStates
<1>5. args.depth \in Int /\ args.depth - 1 \in Int /\ args.budget \in Nat
  BY <1>1 DEF Args
<1>6. Len(emitted) \in Nat /\ Len(queue) \in Nat /\ Len(queue) <= Len(emitted) + 1
  BY <1>1, <1>4 DEF TravInv, QueueInv
<1>7. Dequeued \in Nat
  BY <1>6 DEF Dequeued
<1>. QED BY <1>2, <1>3, <1>4, <1>5, <1>6, <1>7

\* Taking the next of the queue (gph_traverse_bounded) keeps the invariant.
LEMMA DequeueInv == TravInv /\ Dequeue => TravInv'
<1>. SUFFICES ASSUME TravInv, Dequeue PROVE TravInv'
  OBVIOUS
<1>. DEFINE n == Dequeued
            E == ExpandedOf(adj, args)
            L == LineOf(adj, args)
<1>1. /\ LineLaws(adj, args) /\ NearLaws(adj, args) /\ CostLaws(adj, args) /\ EdgeLaws(adj, args)
      /\ args.depth \in Int /\ args.depth - 1 \in Int
      /\ Len(emitted) \in Nat /\ Len(queue) \in Nat /\ n \in Nat
  BY TravGiven
<1>2. /\ state = "pulling" /\ ~curScan.open /\ queue # <<>> /\ queue' = Tail(queue)
      /\ adj' = adj /\ args' = args /\ listed' = listed /\ visited' = visited
      /\ used' = used /\ emitted' = emitted /\ state' = state
  BY DEF Dequeue
<1>3. queue \in Seq(Queued) /\ TravTypeOK
  BY DEF TravInv, TravTypeOK
<1>4. /\ Len(queue) > 0 /\ queue' \in Seq(Queued) /\ Len(queue') = Len(queue) - 1
      /\ \A i \in 1..Len(queue') : queue'[i] = queue[i + 1] /\ i + 1 \in 1..Len(queue)
      /\ Head(queue) = queue[1] /\ queue[1] \in Queued
  BY <1>2, <1>3
<1>5. Dequeued' = n + 1 /\ Dequeued' \in Nat
  BY <1>1, <1>2, <1>4 DEF Dequeued
<1>. DEFINE h == queue[1].depth
<1>6. h \in Nat /\ queue[1].vid = L[n + 1] /\ IsDepth(adj, args, n + 1, h)
  <2>1. 1 \in 1..Len(queue)
    BY <1>1, <1>4
  <2>. QED BY <2>1, <1>4 DEF TravInv, QueueInv, Queued
<1>7. E \in Nat /\ E <= Len(L) /\ Len(L) \in Nat
  BY <1>1 DEF LineLaws
<1>8. QueueInv'
  <2>1. \A i \in 1..Len(queue) : queue[i].vid = L[n + i] /\ IsDepth(adj, args, n + i, queue[i].depth)
    BY DEF TravInv, QueueInv
  <2>2. ASSUME NEW i \in 1..Len(queue')
        PROVE  queue'[i].vid = L[(n + 1) + i] /\ IsDepth(adj, args, (n + 1) + i, queue'[i].depth)
    <3>1. n + (i + 1) = (n + 1) + i
      BY <1>1
    <3>. QED BY <2>1, <3>1, <1>4
  <2>3. Len(queue') <= Len(emitted') + 1
    BY <1>1, <1>2, <1>4 DEF TravInv, QueueInv
  <2>. HIDE DEF n
  <2>4. \A i \in 1..Len(queue') :
          queue'[i].vid = LineOf(adj', args')[Dequeued' + i] /\ IsDepth(adj', args', Dequeued' + i, queue'[i].depth)
    BY <2>2, <1>2, <1>5
  <2>. QED BY <2>3, <2>4 DEF QueueInv
<1>9. SpentInv' /\ EndInv'
  BY <1>2 DEF TravInv, SpentInv, EndInv
<1>10. /\ used < args.budget
       /\ n <= E => used = CostOf(adj, args, n)
       /\ n >= E => used = CostOf(adj, args, E)
  BY <1>2 DEF TravInv, BetweenInv
<1>11. CASE h >= args.depth
  <2>1. curScan' = NoScan
    BY <1>11, <1>4 DEF Dequeue
  <2>2. TravTypeOK'
    BY <2>1, <1>2, <1>3, <1>4 DEF TravTypeOK, NoScan, Scanning
  <2>3. n >= E
    <3>1. h - 1 \in Int /\ args.depth - 1 <= h - 1
      BY <1>6, <1>1, <1>11
    <3>2. E <= NearOf(adj, args, h - 1) /\ NearOf(adj, args, h - 1) \in Nat
      BY <3>1, <1>1 DEF NearLaws, ExpandedOf
    <3>3. NearOf(adj, args, h - 1) < n + 1
      BY <1>6 DEF IsDepth
    <3>. QED BY <3>2, <3>3, <1>1, <1>7
  <2>4. used = CostOf(adj, args, E)
    BY <2>3, <1>10
  <2>5. BetweenInv'
    <3>1. ~(Dequeued' <= E)
      BY <2>3, <1>1, <1>5, <1>7
    <3>. QED BY <3>1, <2>4, <1>2, <1>10 DEF BetweenInv
  <2>6. ScanInv'
    BY <2>1 DEF ScanInv, NoScan
  <2>. QED BY <2>2, <2>5, <2>6, <1>8, <1>9 DEF TravInv
<1>12. CASE h < args.depth
  <2>. DEFINE o == OutEdges(adj, args.type, L[n + 1])
  <2>1. curScan' = [open |-> TRUE, depth |-> h, rest |-> o]
    <3>1. ~(h >= args.depth)
      BY <1>12, <1>6, <1>1
    <3>. QED BY <3>1, <1>4, <1>6 DEF Dequeue
  <2>2. n + 1 <= E /\ n < E
    <3>1. h \in Int /\ h <= args.depth - 1
      BY <1>6, <1>1, <1>12
    <3>2. NearOf(adj, args, h) <= E /\ NearOf(adj, args, h) \in Nat
      BY <3>1, <1>1 DEF NearLaws, ExpandedOf
    <3>3. n + 1 <= NearOf(adj, args, h)
      BY <1>6 DEF IsDepth
    <3>. QED BY <3>2, <3>3, <1>1, <1>7
  <2>3. /\ o \in Seq(Edges)
        /\ CostOf(adj, args, n + 1) = CostOf(adj, args, n) + Len(o)
        /\ \A j \in 1..Len(o) : o[j].dst = StepsOf(adj, args)[CostOf(adj, args, n) + j]
    <3>. HIDE DEF n
    <3>. QED BY <2>2, <1>1 DEF EdgeLaws
  <2>4. used = CostOf(adj, args, n) /\ CostOf(adj, args, n) \in Nat
    BY <2>2, <1>1, <1>7, <1>10 DEF CostLaws
  <2>. HIDE DEF o
  <2>5. TravTypeOK'
    BY <2>1, <2>3, <1>2, <1>3, <1>4, <1>6 DEF TravTypeOK, Scanning
  <2>6. BetweenInv'
    BY <2>1 DEF BetweenInv
  <2>7. ScanInv'
    <3>. HIDE DEF n
    <3>1. (n + 1) - 1 = n /\ 1 <= n + 1
      BY <1>1
    <3>2. CostOf(adj, args, n) <= used /\ used + Len(o) = CostOf(adj, args, n + 1)
      BY <2>3, <2>4
    <3>3. \A j \in 1..Len(o) : o[j].dst = StepsOf(adj, args)[used + j]
      BY <2>3, <2>4
    <3>4. curScan'.open /\ curScan'.depth = h /\ curScan'.rest = o
      BY <2>1
    <3>. HIDE DEF h
    <3>. QED BY <3>1, <3>2, <3>3, <3>4, <2>2, <1>2, <1>5, <1>6, <1>12 DEF ScanInv
  <2>. QED BY <2>5, <2>6, <2>7, <1>8, <1>9 DEF TravInv
<1>. QED BY <1>11, <1>12, <1>1, <1>6

\* With nothing left in the queue, all that is to be expanded was.
LEMMA AllDequeued ==
  ASSUME TravInv, state = "pulling", ~curScan.open, queue = <<>>
  PROVE  Dequeued >= ExpandedOf(adj, args)
<1>. DEFINE n == Dequeued
            E == ExpandedOf(adj, args)
            S == {h \in Nat : h <= args.depth - 1 => NearOf(adj, args, h) <= n}
<1>1. /\ LineLaws(adj, args) /\ NearLaws(adj, args) /\ CostLaws(adj, args)
      /\ HopLaws(adj, args)
      /\ args.depth \in Int /\ args.depth - 1 \in Int
      /\ Len(emitted) \in Nat /\ n \in Nat
      /\ used \in 0..Len(StepsOf(adj, args))
      /\ Len(emitted) = FoundOf(adj, args, used)
  BY TravGiven
<1>2. n = Len(emitted) + 1
  BY <1>1 DEF Dequeued
<1>3. E \in Nat /\ E <= Len(LineOf(adj, args)) /\ Len(StepsOf(adj, args)) \in Nat /\ Len(LineOf(adj, args)) \in Nat
  BY <1>1 DEF LineLaws
<1>4. n <= E => used = CostOf(adj, args, n)
  BY DEF TravInv, BetweenInv
<1>. HIDE DEF n, E
<1>. SUFFICES ASSUME n < E PROVE FALSE
  BY <1>1, <1>3 DEF n, E
<1>5. 0 \in S
  <2>1. NearOf(adj, args, 0) = 1
    BY <1>1 DEF NearLaws
  <2>. QED BY <2>1, <1>1, <1>2
<1>6. ASSUME NEW h \in Nat, h \in S PROVE h + 1 \in S
  <2>. SUFFICES ASSUME h + 1 <= args.depth - 1 PROVE NearOf(adj, args, h + 1) <= n
    OBVIOUS
  <2>0. NearLaws(adj, args) /\ \A j \in Int : NearOf(adj, args, j) \in Nat
    BY <1>1 DEF NearLaws
  <2>1. h <= args.depth - 1 /\ h < args.depth /\ h \in Int /\ h + 1 \in Int
    BY <1>1
  <2>. DEFINE N == NearOf(adj, args, h)
              c == CostOf(adj, args, N)
  <2>2. N <= n /\ N \in Nat
    <3>1. NearOf(adj, args, h) \in Nat
      BY <2>0, <2>1
    <3>. QED BY <3>1, <1>6, <2>1
  <2>3. c <= Len(StepsOf(adj, args)) /\ 1 + FoundOf(adj, args, c) = NearOf(adj, args, h + 1)
    BY <2>1, <1>1 DEF HopLaws
  <2>4. c <= used /\ c \in Nat
    <3>1. n <= Len(LineOf(adj, args)) /\ N \in 0..Len(LineOf(adj, args))
      BY <1>1, <1>3, <2>2
    <3>2. c <= CostOf(adj, args, n) /\ c \in Nat
      <4>. HIDE DEF N
      <4>. QED BY <3>1, <2>2, <1>1 DEF CostLaws
    <3>3. used = CostOf(adj, args, n)
      BY <1>1, <1>3, <1>4
    <3>. QED BY <3>2, <3>3
  <2>. HIDE DEF c
  <2>5. FoundOf(adj, args, c) <= FoundOf(adj, args, used)
    BY <2>4, <1>1, <1>3 DEF HopLaws
  <2>6. NearOf(adj, args, h + 1) <= 1 + Len(emitted)
    <3>1. NearOf(adj, args, h + 1) \in Nat
      BY <2>0, <2>1
    <3>2. FoundOf(adj, args, used) = Len(emitted) /\ Len(emitted) \in Nat
      BY <1>1
    <3>3. FoundOf(adj, args, c) = NearOf(adj, args, h + 1) - 1
      <4>1. c \in 0..Len(StepsOf(adj, args))
        BY <2>3, <2>4, <1>3
      <4>2. FoundOf(adj, args, c) \in Nat
        BY <4>1, TravGiven DEF GotLaws
      <4>. QED BY <4>2, <3>1, <2>3
    <3>. QED BY <3>1, <3>2, <3>3, <2>5
  <2>. QED BY <2>6, <1>2
<1>. HIDE DEF S
<1>7. Nat \subseteq S
  BY <1>5, <1>6, NatSet
<1>8. E <= n
  <2>1. CASE args.depth - 1 \in Nat
    BY <2>1, <1>7 DEF S, E, ExpandedOf
  <2>2. CASE args.depth - 1 < 0
    <3>1. E = 0
      BY <2>2, <1>1 DEF NearLaws, E, ExpandedOf
    <3>. QED BY <3>1, <1>1
  <2>. QED BY <2>1, <2>2, <1>1
<1>. QED BY <1>8, <1>1, <1>3

\* Ending with an empty queue keeps it.
LEMMA FrontierEmptyInv == TravInv /\ FrontierEmpty => TravInv'
<1>. SUFFICES ASSUME TravInv, FrontierEmpty PROVE TravInv'
  OBVIOUS
<1>1. /\ state = "pulling" /\ ~curScan.open /\ queue = <<>> /\ state' = "exact"
      /\ adj' = adj /\ args' = args /\ listed' = listed /\ visited' = visited
      /\ used' = used /\ emitted' = emitted /\ queue' = queue /\ curScan' = curScan
  BY DEF FrontierEmpty
<1>2. Dequeued >= ExpandedOf(adj, args)
  BY <1>1, AllDequeued
<1>3. used = CostOf(adj, args, ExpandedOf(adj, args)) /\ used < args.budget
  BY <1>1, <1>2 DEF TravInv, BetweenInv
<1>4. used = Len(StepsOf(adj, args))
  BY <1>3, TravGiven DEF CostLaws
<1>5. Dequeued' = Dequeued
  BY <1>1 DEF Dequeued
<1>6. TravTypeOK'
  BY <1>1 DEF TravInv, TravTypeOK
<1>7. SpentInv' /\ EndInv'
  BY <1>1, <1>3, <1>4 DEF TravInv, SpentInv, EndInv
<1>8. QueueInv'
  BY <1>1, <1>5 DEF TravInv, QueueInv
<1>9. BetweenInv' /\ ScanInv'
  BY <1>1 DEF BetweenInv, ScanInv
<1>. QED BY <1>6, <1>7, <1>8, <1>9 DEF TravInv

\* Ending with the budget spent keeps it.
LEMMA BudgetSpentInv == TravInv /\ BudgetSpent => TravInv'
<1>. SUFFICES ASSUME TravInv, BudgetSpent PROVE TravInv'
  OBVIOUS
<1>1. /\ curScan.open /\ used >= args.budget /\ state' = "censored" /\ curScan' = NoScan
      /\ adj' = adj /\ args' = args /\ listed' = listed /\ visited' = visited
      /\ used' = used /\ emitted' = emitted /\ queue' = queue
  BY DEF BudgetSpent
<1>2. used = args.budget
  BY <1>1, TravGiven DEF TravInv, SpentInv
<1>3. Dequeued' = Dequeued
  BY <1>1 DEF Dequeued
<1>4. TravTypeOK'
  BY <1>1 DEF TravInv, TravTypeOK, NoScan, Scanning
<1>5. SpentInv' /\ EndInv'
  BY <1>1, <1>2 DEF TravInv, SpentInv, EndInv
<1>6. QueueInv'
  BY <1>1, <1>3 DEF TravInv, QueueInv
<1>7. BetweenInv' /\ ScanInv'
  BY <1>1 DEF BetweenInv, ScanInv, NoScan
<1>. QED BY <1>4, <1>5, <1>6, <1>7 DEF TravInv

\* Ending the scan of one vertex keeps it.
LEMMA VertexDrainedInv == TravInv /\ VertexDrained => TravInv'
<1>. SUFFICES ASSUME TravInv, VertexDrained PROVE TravInv'
  OBVIOUS
<1>1. /\ curScan.open /\ used < args.budget /\ curScan.rest = <<>> /\ curScan' = NoScan
      /\ adj' = adj /\ args' = args /\ listed' = listed /\ visited' = visited
      /\ used' = used /\ emitted' = emitted /\ queue' = queue /\ state' = state
  BY DEF VertexDrained
<1>2. /\ state = "pulling" /\ 1 <= Dequeued /\ Dequeued <= ExpandedOf(adj, args)
      /\ used + Len(curScan.rest) = CostOf(adj, args, Dequeued)
  BY <1>1 DEF TravInv, ScanInv
<1>3. used \in Nat /\ Dequeued \in Nat /\ ExpandedOf(adj, args) \in Nat
  BY TravGiven DEF TravInv, TravTypeOK, LineLaws
<1>4. used = CostOf(adj, args, Dequeued)
  <2>1. Len(curScan.rest) = 0
    BY <1>1
  <2>. QED BY <2>1, <1>2, <1>3
<1>5. Dequeued' = Dequeued
  BY <1>1 DEF Dequeued
<1>6. TravTypeOK'
  BY <1>1 DEF TravInv, TravTypeOK, NoScan, Scanning
<1>7. SpentInv' /\ EndInv'
  BY <1>1 DEF TravInv, SpentInv, EndInv
<1>8. QueueInv'
  BY <1>1, <1>5 DEF TravInv, QueueInv
<1>9. BetweenInv'
  <2>1. Dequeued >= ExpandedOf(adj, args) => Dequeued = ExpandedOf(adj, args)
    BY <1>2, <1>3
  <2>. QED BY <1>1, <1>4, <1>5, <2>1 DEF BetweenInv
<1>10. ScanInv'
  BY <1>1 DEF ScanInv, NoScan
<1>. QED BY <1>6, <1>7, <1>8, <1>9, <1>10 DEF TravInv

-----------------------------------------------------------------------------
(* The traversals: an edge-step.                                           *)

\* One edge-step keeps it, whether its vertex was visited or is emitted.
LEMMA EdgeStepInv == TravInv /\ EdgeStep => TravInv'
<1>. SUFFICES ASSUME TravInv, EdgeStep PROVE TravInv'
  OBVIOUS
<1>. DEFINE n == Dequeued
            E == ExpandedOf(adj, args)
            L == LineOf(adj, args)
            A == StepsOf(adj, args)
            h == curScan.depth
            dst == Head(curScan.rest).dst
<1>1. /\ LineLaws(adj, args) /\ NearLaws(adj, args) /\ CostLaws(adj, args)
      /\ GotLaws(adj, args) /\ HopLaws(adj, args)
      /\ args.depth \in Int /\ args.depth - 1 \in Int /\ args.budget \in Nat
      /\ Len(emitted) \in Nat /\ emitted \in Seq(Vertices) /\ Len(queue) \in Nat /\ n \in Nat
      /\ used \in 0..Len(A) /\ Len(emitted) = FoundOf(adj, args, used)
  BY TravGiven
<1>2. /\ curScan.open /\ used < args.budget /\ curScan.rest # <<>>
      /\ curScan' = [curScan EXCEPT !.rest = Tail(@)]
      /\ used' = used + 1
      /\ adj' = adj /\ args' = args /\ listed' = listed /\ state' = state
      /\ IF dst \in visited THEN visited' = visited /\ queue' = queue /\ emitted' = emitted
         ELSE /\ visited' = visited \cup {dst}
              /\ queue' = Append(queue, [vid |-> dst, depth |-> h + 1])
              /\ emitted' = Append(emitted, dst)
  BY DEF EdgeStep
<1>3. /\ state = "pulling" /\ 1 <= n /\ n <= E /\ h < args.depth
      /\ IsDepth(adj, args, n, h)
      /\ CostOf(adj, args, n - 1) <= used
      /\ used + Len(curScan.rest) = CostOf(adj, args, n)
      /\ \A j \in 1..Len(curScan.rest) : curScan.rest[j].dst = A[used + j]
  BY <1>2 DEF TravInv, ScanInv
<1>4. curScan \in Scanning /\ queue \in Seq(Queued) /\ TravTypeOK
  BY DEF TravInv, TravTypeOK
<1>5. curScan.rest \in Seq(Edges) /\ h \in Nat
  BY <1>4 DEF Scanning
<1>. DEFINE r == curScan.rest
<1>6. /\ Len(r) \in Nat /\ Len(r) > 0 /\ Head(r) = r[1] /\ r[1] \in Edges
      /\ Tail(r) \in Seq(Edges) /\ Len(Tail(r)) = Len(r) - 1
      /\ \A j \in 1..Len(Tail(r)) : Tail(r)[j] = r[j + 1] /\ j + 1 \in 1..Len(r)
  <2>. HIDE DEF r
  <2>1. r \in Seq(Edges) /\ r # <<>>
    BY <1>2, <1>5 DEF r
  <2>. QED BY <2>1
<1>7. curScan'.open /\ curScan'.depth = h /\ curScan'.rest = Tail(r) /\ curScan' \in Scanning
  BY <1>2, <1>4, <1>6 DEF Scanning
<1>8. dst = A[used + 1] /\ dst \in Vertices
  <2>1. 1 \in 1..Len(r)
    BY <1>6
  <2>. QED BY <2>1, <1>3, <1>6 DEF Edges
<1>. HIDE DEF r
<1>9. E \in Nat /\ E <= Len(L) /\ Len(L) \in Nat /\ Len(A) \in Nat
  BY <1>1 DEF LineLaws
<1>10. /\ CostOf(adj, args, n) \in Nat /\ CostOf(adj, args, n) <= Len(A)
  <2>1. n \in 0..Len(L) /\ E \in Nat /\ n <= E /\ E <= Len(L)
    BY <1>1, <1>3, <1>9
  <2>2. CostOf(adj, args, n) <= CostOf(adj, args, E) /\ CostOf(adj, args, E) = Len(A)
    <3>. HIDE DEF n
    <3>. QED BY <2>1, <1>1 DEF CostLaws
  <2>3. CostOf(adj, args, n) \in Nat
    <3>. HIDE DEF n
    <3>. QED BY <2>1, <1>1 DEF CostLaws
  <2>. QED BY <2>2, <2>3
<1>11. used + 1 <= CostOf(adj, args, n) /\ used < Len(A) /\ used + 1 \in 0..Len(A) /\ used \in Nat
  <2>1. used + Len(r) = CostOf(adj, args, n) /\ used \in 0..Len(A)
    BY <1>1, <1>3 DEF r
  <2>2. Len(r) \in Nat /\ Len(r) > 0
    BY <1>6
  <2>. HIDE DEF A, n
  <2>. QED BY <2>1, <2>2, <1>9, <1>10
<1>12. GotOf(adj, args, used + 1) = Visit(GotOf(adj, args, used), A[used + 1])
  BY <1>1, <1>11 DEF GotLaws
<1>13. visited = GotOf(adj, args, used).visited /\ emitted = GotOf(adj, args, used).next
  BY DEF TravInv, SpentInv
<1>14. visited' = GotOf(adj, args, used + 1).visited /\ emitted' = GotOf(adj, args, used + 1).next
  <2>. HIDE DEF dst
  <2>1. CASE dst \in visited
    <3>1. GotOf(adj, args, used + 1) = GotOf(adj, args, used)
      BY <2>1, <1>8, <1>12, <1>13 DEF Visit
    <3>. QED BY <3>1, <2>1, <1>2, <1>13
  <2>2. CASE dst \notin visited
    <3>1. GotOf(adj, args, used + 1) = [visited |-> visited \cup {dst}, next |-> Append(emitted, dst)]
      BY <2>2, <1>8, <1>12, <1>13 DEF Visit
    <3>2. /\ GotOf(adj, args, used + 1).visited = visited \cup {dst}
          /\ GotOf(adj, args, used + 1).next = Append(emitted, dst)
      BY <3>1
    <3>. QED BY <3>2, <2>2, <1>2
  <2>. QED BY <2>1, <2>2
<1>15. SpentInv' /\ EndInv'
  <2>1. used' <= Len(A) /\ used' <= args.budget
    BY <1>1, <1>2, <1>11
  <2>2. state' = "pulling"
    BY <1>2, <1>3
  <2>3. /\ used' <= Len(StepsOf(adj', args')) /\ used' <= args'.budget
        /\ visited' = GotOf(adj', args', used').visited /\ emitted' = GotOf(adj', args', used').next
    BY <2>1, <1>2, <1>14
  <2>. QED BY <2>2, <2>3 DEF SpentInv, EndInv
<1>16. ASSUME dst \in visited PROVE TravTypeOK' /\ QueueInv' /\ Dequeued' = n
  <2>1. queue' = queue /\ emitted' = emitted /\ Dequeued' = Dequeued
    BY <1>2, <1>16 DEF Dequeued
  <2>2. QueueInv'
    BY <2>1, <1>2 DEF TravInv, QueueInv
  <2>3. TravTypeOK'
    BY <2>1, <1>2, <1>4, <1>7, <1>11 DEF TravTypeOK
  <2>. QED BY <2>1, <2>2, <2>3
<1>17. ASSUME dst \notin visited PROVE TravTypeOK' /\ QueueInv' /\ Dequeued' = n
  <2>. DEFINE q == [vid |-> dst, depth |-> h + 1]
              m == Len(emitted)
  <2>1. /\ queue' = Append(queue, q) /\ emitted' = Append(emitted, dst)
    BY <1>2, <1>17
  <2>2. q \in Queued
    BY <1>5, <1>8 DEF Queued
  <2>3. /\ queue' \in Seq(Queued) /\ Len(queue') = Len(queue) + 1
        /\ queue'[Len(queue) + 1] = q /\ \A i \in 1..Len(queue) : queue'[i] = queue[i]
    <3>. HIDE DEF q
    <3>. QED BY <2>1, <2>2, <1>4
  <2>4. Len(emitted') = m + 1 /\ emitted'[m + 1] = dst
    <3>. HIDE DEF dst
    <3>. QED BY <2>1, <1>1, <1>8
  <2>5. Dequeued' = n /\ n + (Len(queue) + 1) = m + 2
    BY <2>3, <2>4, <1>1 DEF Dequeued
  <2>6. FoundOf(adj, args, used + 1) = m + 1
    BY <2>4, <1>1, <1>11, <1>14 DEF GotLaws
  <2>7. L[m + 2] = dst
    <3>1. /\ emitted' = SubSeq(IdsOf(adj, args), 1, m + 1)
          /\ m + 1 <= Len(IdsOf(adj, args))
      <4>. HIDE DEF m
      <4>. QED BY <2>6, <1>1, <1>11, <1>14 DEF GotLaws
    <3>2. IdsOf(adj, args) \in Seq(Vertices) /\ Len(IdsOf(adj, args)) \in Nat
          /\ \A i \in 1..Len(IdsOf(adj, args)) : L[1 + i] = IdsOf(adj, args)[i]
      BY <1>1 DEF LineLaws
    <3>3. m + 1 \in 1..Len(IdsOf(adj, args)) /\ 1 + (m + 1) = m + 2
      BY <3>1, <3>2, <1>1
    <3>4. emitted'[m + 1] = IdsOf(adj, args)[m + 1]
      <4>. HIDE DEF m
      <4>. QED BY <3>1, <3>2, <3>3
    <3>. HIDE DEF m, dst
    <3>. QED BY <3>2, <3>3, <3>4, <2>4
  <2>8. IsDepth(adj, args, m + 2, h + 1)
    <3>. DEFINE c == CostOf(adj, args, NearOf(adj, args, h))
    <3>0. \A j \in Int : NearOf(adj, args, j) \in Nat
      BY <1>1 DEF NearLaws
    <3>1. /\ c <= Len(A) /\ 1 + FoundOf(adj, args, c) = NearOf(adj, args, h + 1)
      BY <1>1, <1>3, <1>5 DEF HopLaws
    <3>a. h \in Nat /\ h < args.depth /\ args.depth \in Int
      BY <1>1, <1>3, <1>5
    <3>b. IsDepth(adj, args, n, h)
      BY <1>3
    <3>2. h \in Int /\ h - 1 \in Int /\ h + 1 \in Int /\ NearOf(adj, args, h) <= Len(L)
      <4>1. h \in Int /\ h - 1 \in Int /\ h + 1 \in Int /\ h <= args.depth
        <5>. HIDE DEF h
        <5>. QED BY <3>a
      <4>2. \A j \in Int : j <= args.depth => NearOf(adj, args, j) <= Len(L)
        BY <1>1 DEF NearLaws
      <4>. HIDE DEF h
      <4>. QED BY <4>1, <4>2
    <3>3. n <= NearOf(adj, args, h) /\ NearOf(adj, args, h) \in Nat /\ NearOf(adj, args, h) \in 0..Len(L)
      <4>1. n <= NearOf(adj, args, h)
        BY <3>b DEF IsDepth
      <4>. HIDE DEF h, n, L
      <4>. QED BY <4>1, <3>0, <3>2, <1>9
    <3>4. CostOf(adj, args, n) <= c /\ c \in Nat
      <4>. HIDE DEF n
      <4>. QED BY <3>2, <3>3, <1>1 DEF CostLaws
    <3>5. m + 1 <= FoundOf(adj, args, c)
      <4>1. used + 1 <= c /\ used + 1 \in Nat
        BY <3>4, <1>10, <1>11
      <4>. HIDE DEF c
      <4>2. FoundOf(adj, args, used + 1) <= FoundOf(adj, args, c)
        BY <4>1, <3>1, <3>4, <1>1 DEF HopLaws
      <4>. QED BY <4>2, <2>6
    <3>6. m + 2 <= NearOf(adj, args, h + 1)
      <4>1. NearOf(adj, args, h + 1) \in Nat
        BY <3>0, <3>2
      <4>2. FoundOf(adj, args, c) = NearOf(adj, args, h + 1) - 1
        <5>1. c \in 0..Len(A)
          BY <3>1, <3>4, <1>9
        <5>. HIDE DEF c
        <5>2. FoundOf(adj, args, c) \in Nat
          BY <5>1, <1>1 DEF GotLaws
        <5>. QED BY <5>2, <4>1, <3>1
      <4>. QED BY <4>1, <4>2, <3>5, <1>1
    <3>7. NearOf(adj, args, h) <= m + 1
      <4>1. CASE h = 0
        BY <4>1, <1>1 DEF NearLaws
      <4>2. CASE h > 0
        <5>. DEFINE N == NearOf(adj, args, h - 1)
                    e == CostOf(adj, args, N)
        <5>1. h - 1 \in Nat /\ h - 1 < args.depth /\ (h - 1) + 1 = h
          <6>. HIDE DEF h
          <6>. QED BY <4>2, <3>a
        <5>2. e <= Len(A) /\ 1 + FoundOf(adj, args, e) = NearOf(adj, args, (h - 1) + 1)
          BY <5>1, <1>1 DEF HopLaws
        <5>3. N \in Nat /\ N <= n - 1 /\ n - 1 \in Nat /\ n - 1 <= Len(L) /\ N \in 0..Len(L)
          <6>1. N < n /\ N \in Nat
            BY <3>0, <3>2, <1>3 DEF IsDepth
          <6>. QED BY <6>1, <1>1, <1>3, <1>9
        <5>4. e <= CostOf(adj, args, n - 1) /\ e \in Nat /\ CostOf(adj, args, n - 1) \in Nat
          <6>1. n - 1 \in 0..Len(L)
            BY <5>3, <1>9
          <6>. HIDE DEF N, n
          <6>. QED BY <5>3, <6>1, <1>1 DEF CostLaws
        <5>5. e <= used
          BY <5>4, <1>3, <1>11
        <5>6. FoundOf(adj, args, e) <= FoundOf(adj, args, used)
          <6>1. used <= Len(A)
            BY <1>9, <1>11
          <6>. HIDE DEF e
          <6>. QED BY <6>1, <5>4, <5>5, <1>1, <1>11 DEF HopLaws
        <5>7. FoundOf(adj, args, e) \in Nat
          <6>1. e \in 0..Len(A)
            BY <5>2, <5>4, <1>9
          <6>. HIDE DEF e
          <6>. QED BY <6>1, <1>1 DEF GotLaws
        <5>8. NearOf(adj, args, h) = 1 + FoundOf(adj, args, e)
          <6>. HIDE DEF e
          <6>. QED BY <5>1, <5>2
        <5>. QED BY <5>6, <5>7, <5>8, <1>1
      <4>. QED BY <4>1, <4>2, <1>5
    <3>8. (h + 1) - 1 = h
      BY <1>5
    <3>9. NearOf(adj, args, h) < m + 2
      BY <3>3, <3>7, <1>1
    <3>. QED BY <3>6, <3>8, <3>9 DEF IsDepth
  <2>9. QueueInv'
    <3>1. \A i \in 1..Len(queue) : queue[i].vid = L[n + i] /\ IsDepth(adj, args, n + i, queue[i].depth)
      BY DEF TravInv, QueueInv
    <3>2. Len(queue') <= Len(emitted') + 1
      BY <2>3, <2>4, <1>1 DEF TravInv, QueueInv
    <3>3. ASSUME NEW i \in 1..Len(queue')
          PROVE  queue'[i].vid = L[n + i] /\ IsDepth(adj, args, n + i, queue'[i].depth)
      <4>1. CASE i <= Len(queue)
        <5>1. i \in 1..Len(queue)
          BY <4>1, <1>1, <2>3
        <5>. QED BY <5>1, <3>1, <2>3
      <4>2. CASE i = Len(queue) + 1
        <5>1. n + i = m + 2
          BY <4>2, <2>5
        <5>2. queue'[i].vid = dst /\ queue'[i].depth = h + 1
          BY <4>2, <2>3
        <5>. HIDE DEF n, m, dst, h
        <5>. QED BY <5>1, <5>2, <2>7, <2>8
      <4>. QED BY <4>1, <4>2, <1>1, <2>3
    <3>. HIDE DEF n
    <3>4. \A i \in 1..Len(queue') :
            queue'[i].vid = LineOf(adj', args')[Dequeued' + i] /\ IsDepth(adj', args', Dequeued' + i, queue'[i].depth)
      BY <3>3, <2>5, <1>2
    <3>. QED BY <3>2, <3>4 DEF QueueInv
  <2>10. TravTypeOK'
    BY <2>3, <1>2, <1>4, <1>7, <1>11 DEF TravTypeOK
  <2>. QED BY <2>5, <2>9, <2>10
<1>18. TravTypeOK' /\ QueueInv' /\ Dequeued' = n
  BY <1>16, <1>17
<1>19. BetweenInv'
  BY <1>7 DEF BetweenInv
<1>20. ScanInv'
  <2>. HIDE DEF n, h
  <2>1. CostOf(adj, args, n - 1) \in Nat
    <3>1. n - 1 \in 0..Len(L)
      BY <1>1, <1>3, <1>9 DEF n
    <3>. QED BY <3>1, <1>1 DEF CostLaws
  <2>2. CostOf(adj, args, n - 1) <= used + 1
    BY <2>1, <1>3, <1>11
  <2>3. (used + 1) + Len(Tail(r)) = CostOf(adj, args, n)
    <3>1. used + Len(r) = CostOf(adj, args, n)
      BY <1>3 DEF r
    <3>2. Len(r) \in Nat /\ Len(Tail(r)) = Len(r) - 1 /\ used \in Nat
      BY <1>6, <1>11
    <3>. DEFINE x == Len(r)
                y == Len(Tail(r))
    <3>3. used + x = CostOf(adj, args, n) /\ x \in Nat /\ y = x - 1 /\ used \in Nat
      BY <3>1, <3>2
    <3>. HIDE DEF x, y
    <3>4. (used + 1) + y = CostOf(adj, args, n)
      BY <3>3
    <3>. QED BY <3>4 DEF y
  <2>4. \A j \in 1..Len(Tail(r)) : Tail(r)[j].dst = A[(used + 1) + j]
    <3>. TAKE j \in 1..Len(Tail(r))
    <3>1. Tail(r)[j] = r[j + 1] /\ j + 1 \in 1..Len(r) /\ used + (j + 1) = (used + 1) + j
      BY <1>6, <1>11
    <3>. QED BY <3>1, <1>3 DEF r
  <2>. QED BY <2>2, <2>3, <2>4, <1>2, <1>3, <1>7, <1>18 DEF ScanInv
<1>. QED BY <1>15, <1>18, <1>19, <1>20 DEF TravInv

\* Every step of a traversal keeps it.
LEMMA TravStepInv == TravInv /\ [TravNext]_travVars => TravInv'
<1>. SUFFICES ASSUME TravInv, [TravNext]_travVars PROVE TravInv'
  OBVIOUS
<1>1. CASE UNCHANGED travVars
  BY <1>1 DEF travVars, TravInv, TravTypeOK, SpentInv, QueueInv, BetweenInv, ScanInv, EndInv, Dequeued
<1>. QED BY <1>1, DequeueInv, FrontierEmptyInv, BudgetSpentInv, VertexDrainedInv, EdgeStepInv DEF TravNext

-----------------------------------------------------------------------------
\* By the invariant the full traversal lists the reach,
LEMMA InvReach == TravInv => BfsIsReach
<1>. SUFFICES ASSUME TravInv PROVE BfsIsReach
  OBVIOUS
<1>1. adj \in Stored /\ args \in Args /\ listed = IdsOf(adj, args)
  BY DEF TravInv, TravTypeOK
<1>. DEFINE seed == args.seed
            d == args.depth
            type == args.type
<1>2. seed \in Vertices /\ d \in Int
  BY <1>1 DEF Args
<1>. HIDE DEF seed, d, type
<1>3. ReachLaws(adj, type, seed, d)
  BY <1>1, <1>2, SearchReach
<1>. QED BY <1>1, <1>3 DEF BfsIsReach, ReachLaws, IdsOf, seed, d, type

\* the bounded one emits a prefix of it,
LEMMA InvPrefix == TravInv => EmitsPrefix
<1>. SUFFICES ASSUME TravInv PROVE EmitsPrefix
  OBVIOUS
<1>1. GotLaws(adj, args) /\ LineLaws(adj, args) /\ used \in 0..Len(StepsOf(adj, args))
  BY TravGiven
<1>2. listed = IdsOf(adj, args) /\ emitted = GotOf(adj, args, used).next
  BY DEF TravInv, TravTypeOK, SpentInv
<1>3. emitted = SubSeq(listed, 1, FoundOf(adj, args, used)) /\ FoundOf(adj, args, used) <= Len(listed)
      /\ FoundOf(adj, args, used) \in Nat /\ listed \in Seq(Vertices)
  BY <1>1, <1>2 DEF GotLaws, LineLaws
<1>4. IsPrefix(emitted, listed)
  BY <1>3 DEF IsPrefix
<1>5. state = "exact" => emitted = listed
  BY <1>1, <1>2 DEF TravInv, EndInv, GotLaws
<1>6. state = "censored" => used = args.budget
  BY DEF TravInv, EndInv
<1>. QED BY <1>4, <1>5, <1>6 DEF EmitsPrefix

\* ends as the function says,
LEMMA InvPull == TravInv => PullIsTraversal
<1>. SUFFICES ASSUME TravInv, state # "pulling" PROVE PulledIs(Pull(adj, args.seed, args.depth, args.type, args.budget))
  BY DEF PullIsTraversal
<1>. DEFINE A == StepsOf(adj, args)
            b == args.budget
            P == Pull(adj, args.seed, args.depth, args.type, args.budget)
            u == IF Len(A) < b THEN Len(A) ELSE b
<1>1. used \in 0..Len(A) /\ Len(A) \in Nat /\ b \in Nat /\ used <= b
  BY TravGiven DEF TravInv, SpentInv, LineLaws
<1>2. state \in {"exact", "censored"}
  BY DEF TravInv, TravTypeOK
<1>3. used = u /\ (state = "censored" <=> Len(A) >= b)
  <2>1. CASE state = "exact"
    <3>1. used = Len(A) /\ used < b
      BY <2>1 DEF TravInv, EndInv
    <3>. QED BY <3>1, <2>1, <1>1
  <2>2. CASE state = "censored"
    <3>1. used = b
      BY <2>2 DEF TravInv, EndInv
    <3>. QED BY <3>1, <2>2, <1>1
  <2>. QED BY <2>1, <2>2, <1>2
<1>4. P = [ids |-> FoldLeft(Visit, [visited |-> {args.seed}, next |-> <<>>], SubSeq(A, 1, u)).next,
           used |-> u, censored |-> Len(A) >= b]
  BY DEF Pull, StepsOf, Steps
<1>5. P.ids = FoldLeft(Visit, [visited |-> {args.seed}, next |-> <<>>], SubSeq(A, 1, u)).next
      /\ P.used = u /\ P.censored = (Len(A) >= b)
  <2>. HIDE DEF P, A, u
  <2>. QED BY <1>4
<1>6. emitted = FoldLeft(Visit, [visited |-> {args.seed}, next |-> <<>>], SubSeq(A, 1, used)).next
  BY DEF TravInv, SpentInv, GotOf, Got, Walked, VF, Start, StepsOf
<1>7. emitted = P.ids
  BY <1>3, <1>5, <1>6
<1>. HIDE DEF P, A, u
<1>. QED BY <1>3, <1>5, <1>7 DEF PulledIs, P

\* and stays within its budget.
LEMMA InvBudget == TravInv => BudgetBoundsWork
<1>. SUFFICES ASSUME TravInv PROVE BudgetBoundsWork
  OBVIOUS
<1>1. GotLaws(adj, args) /\ used \in 0..Len(StepsOf(adj, args)) /\ used \in Nat
      /\ Len(emitted) = FoundOf(adj, args, used) /\ Len(emitted) \in Nat
  BY TravGiven DEF TravInv, TravTypeOK
<1>2. used <= args.budget /\ visited = GotOf(adj, args, used).visited /\ emitted = GotOf(adj, args, used).next
  BY DEF TravInv, SpentInv
<1>3. /\ visited = {args.seed} \cup ToSet(emitted)
      /\ Cardinality(visited) = Len(emitted) + 1
      /\ Len(emitted) <= used
  BY <1>1, <1>2 DEF GotLaws
<1>. QED BY <1>1, <1>2, <1>3 DEF BudgetBoundsWork

\* Of every graph, seed, depth, type and budget: the full traversal lists the
\* reach, the bounded one emits a prefix of it, its end is what the function
\* says, and the budget bounds its work (gph_traverse_bfs, gph_traverse_bounded,
\* graph_am.c:1834-1939, 2032-2171).
THEOREM TraversalsSafe == TravSpec => [](BfsIsReach /\ EmitsPrefix /\ PullIsTraversal /\ BudgetBoundsWork)
<1>1. TravInv => BfsIsReach /\ EmitsPrefix /\ PullIsTraversal /\ BudgetBoundsWork
  BY InvReach, InvPrefix, InvPull, InvBudget
<1>. QED BY <1>1, TravInitInv, TravStepInv, PTL DEF TravSpec

-----------------------------------------------------------------------------
(* Loops and heaps.                                                        *)

\* f goes from x to jump[x] until stop[x], and gives what out is there.
Loop(f, D, H, stop, out, jump) ==
  /\ f \in [D -> H]
  /\ f = [x \in D |-> IF stop[x] THEN out[x] ELSE f[jump[x]]]

\* A loop whose rank falls at every turn is a function.
LEMMA LoopExists ==
  ASSUME NEW D, NEW H, NEW n \in Nat, NEW rank \in [D -> 0..n],
         NEW stop \in [D -> BOOLEAN], NEW out \in [D -> H], NEW jump,
         \A x \in D : ~stop[x] => jump[x] \in D /\ rank[jump[x]] < rank[x]
  PROVE  \E f : Loop(f, D, H, stop, out, jump)
<1>. DEFINE W == [D -> H]
            up == [F \in W |-> [x \in D |-> IF stop[x] THEN out[x] ELSE F[jump[x]]]]
            next == [x \in Nat \X W |-> up[x[2]]]
<1>1. \A F \in W : up[F] \in W
  OBVIOUS
<1>2. \A F \in W, x \in D : up[F][x] = IF stop[x] THEN out[x] ELSE F[jump[x]]
  OBVIOUS
<1>3. \A F \in W : up[F] = [x \in D |-> IF stop[x] THEN out[x] ELSE F[jump[x]]]
  OBVIOUS
<1>4. next \in [Nat \X W -> W]
  BY <1>1
<1>5. \A k \in Nat, F \in W : next[<<k, F>>] = up[F]
  OBVIOUS
<1>6. out \in W
  OBVIOUS
<1>. HIDE DEF W, next, up
<1>7. PICK G : Recursion(G, W, out, next)
  BY <1>4, <1>6, NatRec, Zenon
<1>8. \A k \in Nat : G[k] \in W /\ G[k + 1] = up[G[k]]
  BY <1>5, <1>7 DEF Recursion
<1>. DEFINE S == {k \in Nat : \A x \in D : rank[x] < k => G[k + 1][x] = G[k][x]}
<1>9. 0 \in S
  <2>1. \A x \in D : ~(rank[x] < 0)
    OBVIOUS
  <2>. QED BY <2>1
<1>10. ASSUME NEW k \in Nat, k \in S PROVE k + 1 \in S
  <2>. SUFFICES ASSUME NEW x \in D, rank[x] < k + 1 PROVE G[(k + 1) + 1][x] = G[k + 1][x]
    OBVIOUS
  <2>1. /\ G[(k + 1) + 1] = up[G[k + 1]] /\ G[k + 1] = up[G[k]]
        /\ G[k + 1] \in W /\ G[k] \in W
    <3>1. k + 1 \in Nat
      OBVIOUS
    <3>. QED BY <1>8, <3>1
  <2>2. CASE stop[x]
    <3>1. up[G[k + 1]][x] = out[x] /\ up[G[k]][x] = out[x]
      BY <2>1, <2>2, <1>2
    <3>. QED BY <2>1, <3>1
  <2>3. CASE ~stop[x]
    <3>1. jump[x] \in D /\ rank[jump[x]] < k
      BY <2>3
    <3>2. G[k + 1][jump[x]] = G[k][jump[x]]
      BY <3>1, <1>10
    <3>3. up[G[k + 1]][x] = G[k + 1][jump[x]] /\ up[G[k]][x] = G[k][jump[x]]
      BY <2>1, <2>3, <1>2
    <3>. QED BY <2>1, <3>2, <3>3
  <2>. QED BY <2>2, <2>3
<1>. HIDE DEF S
<1>11. Nat \subseteq S
  BY <1>9, <1>10, NatSet
<1>. DEFINE f == G[n + 1]
<1>12. n + 1 \in Nat /\ n + 1 \in S
  BY <1>11
<1>13. f \in W /\ up[f] \in W /\ G[(n + 1) + 1] = up[f]
  BY <1>1, <1>8, <1>12
<1>14. \A x \in D : up[f][x] = f[x]
  <2>. TAKE x \in D
  <2>1. rank[x] < n + 1
    OBVIOUS
  <2>2. G[(n + 1) + 1][x] = G[n + 1][x]
    BY <2>1, <1>12 DEF S
  <2>. QED BY <2>2, <1>13
<1>. HIDE DEF f
<1>15. up[f] = f
  BY <1>13, <1>14 DEF W
<1>16. Loop(f, D, H, stop, out, jump)
  BY <1>3, <1>13, <1>15 DEF W, Loop
<1>. QED BY <1>16

-----------------------------------------------------------------------------
\* The arrays of n candidates.
Heaps(d, n) == [1..n -> DOMAIN d]

\* r holds what h does, each once if h does.
Shuffle(r, h) ==
  /\ ToSet(r) = ToSet(h)
  /\ IsInjective(h) => IsInjective(r)

\* What a swap is.
SwapLaws(r, X, n, h, i, j) ==
  /\ r \in [1..n -> X]
  /\ r[i] = h[j] /\ r[j] = h[i]
  /\ \A k \in 1..n : k # i /\ k # j => r[k] = h[k]
  /\ Shuffle(r, h)

\* Swapping two positions shuffles.
LEMMA SwapIs ==
  ASSUME NEW X, NEW n \in Nat, NEW h \in [1..n -> X], NEW i \in 1..n, NEW j \in 1..n, i # j
  PROVE  SwapLaws(Swapped(h, i, j), X, n, h, i, j)
<1>. DEFINE r == Swapped(h, i, j)
<1>1. /\ r \in [1..n -> X] /\ r[i] = h[j] /\ r[j] = h[i]
      /\ \A k \in 1..n : k # i /\ k # j => r[k] = h[k]
  BY DEF Swapped
<1>2. DOMAIN r = 1..n /\ DOMAIN h = 1..n
  BY <1>1
<1>. HIDE DEF r
<1>3. \A k \in 1..n : \E l \in 1..n : r[k] = h[l]
  BY <1>1
<1>4. \A k \in 1..n : \E l \in 1..n : h[k] = r[l]
  <2>. TAKE k \in 1..n
  <2>1. CASE k = i
    BY <2>1, <1>1
  <2>2. CASE k = j
    BY <2>2, <1>1
  <2>3. CASE k # i /\ k # j
    BY <2>3, <1>1
  <2>. QED BY <2>1, <2>2, <2>3
<1>5. ToSet(r) = ToSet(h)
  <2>1. ASSUME NEW k \in 1..n PROVE r[k] \in ToSet(h)
    <3>1. PICK l \in 1..n : r[k] = h[l]
      BY <1>3
    <3>. QED BY <3>1, <1>2 DEF ToSet
  <2>2. ASSUME NEW k \in 1..n PROVE h[k] \in ToSet(r)
    <3>1. PICK l \in 1..n : h[k] = r[l]
      BY <1>4
    <3>. QED BY <3>1, <1>2 DEF ToSet
  <2>3. ToSet(r) = {r[k] : k \in 1..n} /\ ToSet(h) = {h[k] : k \in 1..n}
    BY <1>2 DEF ToSet
  <2>. QED BY <2>1, <2>2, <2>3
<1>6. ASSUME IsInjective(h) PROVE IsInjective(r)
  <2>1. \A a \in 1..n, b \in 1..n : h[a] = h[b] => a = b
    BY <1>2, <1>6 DEF IsInjective
  <2>2. ASSUME NEW a \in 1..n, NEW b \in 1..n, r[a] = r[b] PROVE a = b
    BY <1>1, <2>1, <2>2
  <2>. QED BY <2>2, <1>2 DEF IsInjective
<1>. QED BY <1>1, <1>5, <1>6 DEF r, Shuffle, SwapLaws

\* A shuffle of a shuffle is a shuffle.
LEMMA ShuffleTwice ==
  ASSUME NEW r, NEW s, NEW h, Shuffle(r, s), Shuffle(s, h) PROVE Shuffle(r, h)
  BY DEF Shuffle

\* No child is farther than its parent.
IsHeap(d, n, h) == \A j \in 2..n : d[h[j \div 2]] >= d[h[j]]

\* A heap but for the edge above i.
UpTo(d, n, h, i) ==
  /\ \A j \in 2..n : j # i => d[h[j \div 2]] >= d[h[j]]
  /\ \A j \in 2..n : j \div 2 = i /\ i >= 2 => d[h[i \div 2]] >= d[h[j]]

\* A heap but for the edges below i.
DownTo(d, n, h, i) ==
  /\ \A j \in 2..n : j \div 2 # i => d[h[j \div 2]] >= d[h[j]]
  /\ \A j \in 2..n : j \div 2 = i /\ i >= 2 => d[h[i \div 2]] >= d[h[j]]

\* A parent is before its child.
LEMMA Half == \A j \in Nat : j >= 2 => j \div 2 \in Nat /\ j \div 2 >= 1 /\ j \div 2 < j
  OBVIOUS

\* A turn of the sift up moves the one disorder to the parent.
LEMMA UpStep ==
  ASSUME NEW X, NEW d \in [X -> Nat], NEW n \in Nat, NEW h \in [1..n -> X], NEW i \in 2..n,
         UpTo(d, n, h, i), d[h[i \div 2]] < d[h[i]]
  PROVE  UpTo(d, n, Swapped(h, i, i \div 2), i \div 2)
<1>. DEFINE p == i \div 2
            r == Swapped(h, i, p)
<1>1. i \in 1..n /\ p \in 1..n /\ i # p /\ i \in Nat /\ p \in Nat /\ p < i
  BY Half
<1>2. /\ r \in [1..n -> X] /\ r[i] = h[p] /\ r[p] = h[i]
      /\ \A k \in 1..n : k # i /\ k # p => r[k] = h[k]
  <2>1. SwapLaws(r, X, n, h, i, p)
    <3>. HIDE DEF p
    <3>. QED BY <1>1, SwapIs
  <2>. QED BY <2>1 DEF SwapLaws
<1>3. \A j \in 2..n : j \in 1..n /\ j \div 2 \in 1..n /\ j \div 2 < j
  BY Half
<1>4. \A k \in 1..n : d[h[k]] \in Nat
  OBVIOUS
<1>5. d[h[p]] < d[h[i]]
  OBVIOUS
<1>6. /\ \A j \in 2..n : j # i => d[h[j \div 2]] >= d[h[j]]
      /\ \A j \in 2..n : j \div 2 = i /\ i >= 2 => d[h[p]] >= d[h[j]]
      /\ i >= 2 /\ p = i \div 2
  BY DEF UpTo
<1>. HIDE DEF r, p
<1>7. ASSUME NEW j \in 2..n, j # p PROVE d[r[j \div 2]] >= d[r[j]]
  <2>. DEFINE q == j \div 2
  <2>1. q \in 1..n /\ j \in 1..n
    BY <1>3
  <2>2. CASE j = i
    <3>1. q = p /\ r[q] = h[i] /\ r[j] = h[p]
      BY <2>2, <1>2, <1>6
    <3>. QED BY <3>1, <1>1, <1>4, <1>5
  <2>3. CASE j # i /\ q = i
    <3>1. r[q] = h[p] /\ r[j] = h[j]
      BY <2>1, <2>3, <1>2, <1>7
    <3>2. d[h[p]] >= d[h[j]]
      BY <2>3, <1>6
    <3>. QED BY <3>1, <3>2
  <2>4. CASE j # i /\ q = p
    <3>1. r[q] = h[i] /\ r[j] = h[j]
      BY <2>1, <2>4, <1>2, <1>7
    <3>2. d[h[p]] >= d[h[j]]
      BY <2>4, <1>6
    <3>. QED BY <3>1, <3>2, <1>1, <1>4, <1>5, <2>1
  <2>5. CASE j # i /\ q # i /\ q # p
    <3>1. r[q] = h[q] /\ r[j] = h[j]
      BY <2>1, <2>5, <1>2, <1>7
    <3>2. d[h[q]] >= d[h[j]]
      BY <2>5, <1>6
    <3>. QED BY <3>1, <3>2
  <2>. QED BY <2>2, <2>3, <2>4, <2>5
<1>8. ASSUME NEW j \in 2..n, j \div 2 = p, p >= 2 PROVE d[r[p \div 2]] >= d[r[j]]
  <2>. DEFINE q == p \div 2
  <2>1. q \in 1..n /\ q < p /\ j \in 1..n /\ p < j /\ p \in 2..n
    BY <1>1, <1>3, <1>8
  <2>2. r[q] = h[q]
    BY <2>1, <1>1, <1>2
  <2>3. d[h[q]] >= d[h[p]]
    BY <2>1, <1>1, <1>6
  <2>4. CASE j = i
    <3>1. r[j] = h[p]
      BY <2>4, <1>2
    <3>. QED BY <3>1, <2>2, <2>3
  <2>5. CASE j # i
    <3>1. r[j] = h[j]
      BY <2>1, <2>5, <1>2
    <3>2. d[h[p]] >= d[h[j]]
      BY <2>5, <1>6, <1>8
    <3>. QED BY <3>1, <3>2, <2>1, <2>2, <2>3, <1>1, <1>4
  <2>. QED BY <2>4, <2>5
<1>9. UpTo(d, n, r, p)
  BY <1>7, <1>8 DEF UpTo
<1>. QED BY <1>9 DEF r, p

\* The i-th of h and its children: none is farther than the m-th.
LEMMA FartherIs ==
  ASSUME NEW X, NEW d \in [X -> Nat], NEW n \in Nat, NEW h \in [1..n -> X], NEW i \in 1..n
  PROVE  LET m == FartherChild(d, h, i) IN
         /\ m \in 1..n /\ m >= i
         /\ m # i => m \div 2 = i /\ m >= 2 /\ d[h[m]] > d[h[i]]
         /\ d[h[m]] >= d[h[i]]
         /\ \A j \in 2..n : j \div 2 = i => d[h[m]] >= d[h[j]]
<1>1. Len(h) = n /\ \A k \in 1..n : d[h[k]] \in Nat
  OBVIOUS
<1>. DEFINE l == IF 2 * i <= n /\ d[h[2 * i]] > d[h[i]] THEN 2 * i ELSE i
            m == IF 2 * i + 1 <= n /\ d[h[2 * i + 1]] > d[h[l]] THEN 2 * i + 1 ELSE l
<1>2. FartherChild(d, h, i) = m
  BY <1>1 DEF FartherChild
<1>3. l \in 1..n /\ (l = i \/ l = 2 * i) /\ d[h[l]] >= d[h[i]] /\ (l # i => d[h[l]] > d[h[i]])
      /\ (2 * i <= n => d[h[l]] >= d[h[2 * i]])
  <2>1. 2 * i <= n => 2 * i \in 1..n
    OBVIOUS
  <2>. QED BY <1>1, <2>1
<1>. HIDE DEF l
<1>4. m \in 1..n /\ (m = l \/ m = 2 * i + 1) /\ d[h[m]] >= d[h[l]] /\ (m # l => d[h[m]] > d[h[l]])
      /\ (2 * i + 1 <= n => d[h[m]] >= d[h[2 * i + 1]])
  <2>1. 2 * i + 1 <= n => 2 * i + 1 \in 1..n
    OBVIOUS
  <2>. QED BY <1>1, <1>3, <2>1
<1>. HIDE DEF m
<1>5. d[h[m]] \in Nat /\ d[h[l]] \in Nat /\ d[h[i]] \in Nat
  BY <1>1, <1>3, <1>4
<1>6. d[h[m]] >= d[h[i]] /\ (m # i => d[h[m]] > d[h[i]])
  BY <1>3, <1>4, <1>5
<1>7. m >= i /\ (m # i => m \div 2 = i /\ m >= 2)
  BY <1>3, <1>4
<1>8. ASSUME NEW j \in 2..n, j \div 2 = i PROVE d[h[m]] >= d[h[j]]
  <2>1. j = 2 * i \/ j = 2 * i + 1
    BY <1>8
  <2>2. CASE j = 2 * i
    <3>1. d[h[l]] >= d[h[j]] /\ d[h[j]] \in Nat
      BY <2>2, <1>1, <1>3
    <3>. QED BY <3>1, <1>4, <1>5
  <2>3. CASE j = 2 * i + 1
    BY <2>3, <1>4
  <2>. QED BY <2>1, <2>2, <2>3
<1>. QED BY <1>2, <1>4, <1>6, <1>7, <1>8

\* A turn of the sift down moves the one disorder to the farther child.
LEMMA DownStep ==
  ASSUME NEW X, NEW d \in [X -> Nat], NEW n \in Nat, NEW h \in [1..n -> X], NEW i \in 1..n,
         DownTo(d, n, h, i), FartherChild(d, h, i) # i
  PROVE  DownTo(d, n, Swapped(h, i, FartherChild(d, h, i)), FartherChild(d, h, i))
<1>. DEFINE m == FartherChild(d, h, i)
            r == Swapped(h, i, m)
<1>1. /\ m \in 1..n /\ m > i /\ m \div 2 = i /\ d[h[m]] > d[h[i]] /\ m \in 2..n
      /\ \A j \in 2..n : j \div 2 = i => d[h[m]] >= d[h[j]]
  <2>1. /\ m \in 1..n /\ m >= i
        /\ m # i => m \div 2 = i /\ m >= 2 /\ d[h[m]] > d[h[i]]
        /\ \A j \in 2..n : j \div 2 = i => d[h[m]] >= d[h[j]]
    BY FartherIs
  <2>2. m # i
    OBVIOUS
  <2>. HIDE DEF m
  <2>. QED BY <2>1, <2>2
<1>2. /\ r \in [1..n -> X] /\ r[i] = h[m] /\ r[m] = h[i]
      /\ \A k \in 1..n : k # i /\ k # m => r[k] = h[k]
  <2>1. SwapLaws(r, X, n, h, i, m)
    <3>. HIDE DEF m
    <3>. QED BY <1>1, SwapIs
  <2>. QED BY <2>1 DEF SwapLaws
<1>3. \A j \in 2..n : j \in 1..n /\ j \div 2 \in 1..n /\ j \div 2 < j
  BY Half
<1>4. \A k \in 1..n : d[h[k]] \in Nat
  OBVIOUS
<1>5. /\ \A j \in 2..n : j \div 2 # i => d[h[j \div 2]] >= d[h[j]]
      /\ \A j \in 2..n : j \div 2 = i /\ i >= 2 => d[h[i \div 2]] >= d[h[j]]
  BY DEF DownTo
<1>. HIDE DEF r, m
<1>6. ASSUME NEW j \in 2..n, j \div 2 # m PROVE d[r[j \div 2]] >= d[r[j]]
  <2>. DEFINE q == j \div 2
  <2>1. q \in 1..n /\ j \in 1..n /\ q < j
    BY <1>3
  <2>2. CASE j = m
    <3>1. r[q] = h[m] /\ r[j] = h[i]
      BY <2>2, <1>1, <1>2
    <3>. QED BY <3>1, <1>1, <1>4
  <2>3. CASE j # m /\ q = i
    <3>1. r[q] = h[m] /\ r[j] = h[j]
      BY <2>1, <2>3, <1>2
    <3>. QED BY <3>1, <2>3, <1>1
  <2>4. CASE j = i
    <3>1. r[j] = h[m] /\ r[q] = h[q]
      BY <2>1, <2>4, <1>1, <1>2, <1>6
    <3>2. d[h[q]] >= d[h[m]]
      BY <2>1, <2>4, <1>1, <1>5
    <3>. QED BY <3>1, <3>2
  <2>5. CASE j # m /\ j # i /\ q # i
    <3>1. r[j] = h[j] /\ r[q] = h[q]
      BY <2>1, <2>5, <1>2, <1>6
    <3>. QED BY <3>1, <2>5, <1>5
  <2>. QED BY <2>2, <2>3, <2>4, <2>5
<1>7. ASSUME NEW j \in 2..n, j \div 2 = m, m >= 2 PROVE d[r[m \div 2]] >= d[r[j]]
  <2>1. j \in 1..n /\ m < j
    BY <1>3, <1>7
  <2>2. r[j] = h[j] /\ r[m \div 2] = h[m]
    <3>1. j # i /\ j # m
      BY <2>1, <1>1
    <3>. QED BY <3>1, <2>1, <1>1, <1>2
  <2>. QED BY <2>2, <1>1, <1>5, <1>7
<1>8. DownTo(d, n, r, m)
  BY <1>6, <1>7 DEF DownTo
<1>. QED BY <1>8 DEF r, m

-----------------------------------------------------------------------------
(* Sifting up.                                                             *)

\* r is h sifted.
Sifted(r, d, X, n, h) == r \in [1..n -> X] /\ Shuffle(r, h) /\ IsHeap(d, n, r)

\* An array is a shuffle of itself.
LEMMA Shuffled == ASSUME NEW h PROVE Shuffle(h, h)
  BY DEF Shuffle

\* What up is at i, from what it is at the parent.
UpEnds(d, h, i) == i = 1 \/ d[h[i \div 2]] >= d[h[i]]
UpLoop(up, d, n, H) ==
  up = [i \in 1..n |-> [h \in H |->
          IF UpEnds(d, h, i) THEN h ELSE up[i \div 2][Swapped(h, i, i \div 2)]]]

\* The recursive function that the sift up is.
LEMMA UpExists ==
  ASSUME NEW X, NEW d \in [X -> Nat], NEW n \in Nat
  PROVE  \E up : UpLoop(up, d, n, [1..n -> X])
<1>. DEFINE H == [1..n -> X]
            D == (1..n) \X H
            rank == [x \in D |-> x[1]]
            stop == [x \in D |-> UpEnds(d, x[2], x[1])]
            out == [x \in D |-> x[2]]
            jump == [x \in D |-> <<x[1] \div 2, Swapped(x[2], x[1], x[1] \div 2)>>]
<1>1. rank \in [D -> 0..n] /\ out \in [D -> H]
  OBVIOUS
<1>2. stop \in [D -> BOOLEAN]
  BY DEF UpEnds
<1>3. ASSUME NEW i \in 1..n, NEW h \in H, ~UpEnds(d, h, i)
      PROVE  i \div 2 \in 1..n /\ i \div 2 < i /\ Swapped(h, i, i \div 2) \in H
  <2>1. i >= 2
    BY <1>3 DEF UpEnds
  <2>2. i \div 2 \in 1..n /\ i \div 2 < i
    BY <2>1, Half
  <2>. DEFINE p == i \div 2
  <2>. HIDE DEF p
  <2>3. SwapLaws(Swapped(h, i, p), X, n, h, i, p)
    BY <2>2, SwapIs DEF p
  <2>. QED BY <2>2, <2>3 DEF SwapLaws, p
<1>4. \A x \in D : ~stop[x] => jump[x] \in D /\ rank[jump[x]] < rank[x]
  <2>. TAKE x \in D
  <2>. HAVE ~stop[x]
  <2>1. x[1] \in 1..n /\ x[2] \in H /\ ~UpEnds(d, x[2], x[1])
    OBVIOUS
  <2>2. x[1] \div 2 \in 1..n /\ x[1] \div 2 < x[1] /\ Swapped(x[2], x[1], x[1] \div 2) \in H
    BY <2>1, <1>3
  <2>3. jump[x] = <<x[1] \div 2, Swapped(x[2], x[1], x[1] \div 2)>>
    OBVIOUS
  <2>. HIDE DEF jump, H
  <2>. QED BY <2>1, <2>2, <2>3
<1>5. \A i \in 1..n, h \in H :
        /\ <<i, h>> \in D /\ stop[<<i, h>>] = UpEnds(d, h, i) /\ out[<<i, h>>] = h
        /\ jump[<<i, h>>] = <<i \div 2, Swapped(h, i, i \div 2)>>
  OBVIOUS
<1>. HIDE DEF rank, stop, out, jump
<1>6. PICK f : Loop(f, D, H, stop, out, jump)
  <2>. HIDE DEF D, H
  <2>. QED BY <1>1, <1>2, <1>4, LoopExists
<1>7. \A i \in 1..n, h \in H :
        f[<<i, h>>] = IF UpEnds(d, h, i) THEN h ELSE f[<<i \div 2, Swapped(h, i, i \div 2)>>]
  <2>. TAKE i \in 1..n, h \in H
  <2>1. \A x \in D : f[x] = IF stop[x] THEN out[x] ELSE f[jump[x]]
    <3>. HIDE DEF D, H
    <3>. QED BY <1>6 DEF Loop
  <2>. HIDE DEF D, H
  <2>. QED BY <2>1, <1>5
<1>. DEFINE up == [i \in 1..n |-> [h \in H |-> f[<<i, h>>]]]
<1>8. \A i \in 1..n, h \in H :
        f[<<i, h>>] = IF UpEnds(d, h, i) THEN h ELSE up[i \div 2][Swapped(h, i, i \div 2)]
  <2>. TAKE i \in 1..n, h \in H
  <2>1. CASE UpEnds(d, h, i)
    BY <2>1, <1>7
  <2>2. CASE ~UpEnds(d, h, i)
    <3>1. i \div 2 \in 1..n /\ Swapped(h, i, i \div 2) \in H
      BY <2>2, <1>3
    <3>2. up[i \div 2][Swapped(h, i, i \div 2)] = f[<<i \div 2, Swapped(h, i, i \div 2)>>]
      <4>. HIDE DEF H
      <4>. QED BY <3>1
    <3>. QED BY <2>2, <3>2, <1>7
  <2>. QED BY <2>1, <2>2
<1>9. up = [i \in 1..n |-> [h \in H |->
          IF UpEnds(d, h, i) THEN h ELSE up[i \div 2][Swapped(h, i, i \div 2)]]]
  <2>1. up = [i \in 1..n |-> [h \in H |-> f[<<i, h>>]]]
    OBVIOUS
  <2>. HIDE DEF up, H
  <2>. QED BY <2>1, <1>8
<1>. HIDE DEF up
<1>. QED BY <1>9 DEF UpLoop

\* Sifting up the last of an array makes it a heap of the same (tk_offer).
LEMMA SiftUpIs ==
  ASSUME NEW X, NEW d \in [X -> Nat], NEW n \in Nat \ {0}, NEW heap \in [1..n -> X],
         UpTo(d, n, heap, n)
  PROVE  Sifted(SiftUp(d, heap), d, X, n, heap)
<1>. DEFINE H == [1..n -> X]
            P(u) == UpLoop(u, d, n, H)
            up == CHOOSE u : P(u)
<1>1. P(up)
  <2>1. \E u : P(u)
    BY UpExists
  <2>. HIDE DEF P
  <2>. QED BY <2>1
<1>2. SiftUp(d, heap) = up[n][heap]
  <2>1. DOMAIN heap = 1..n /\ DOMAIN d = X /\ Len(heap) = n
    OBVIOUS
  <2>. QED BY <2>1 DEF SiftUp, UpLoop, UpEnds
<1>. HIDE DEF up
<1>3. \A i \in 1..n, h \in H :
        up[i][h] = IF UpEnds(d, h, i) THEN h ELSE up[i \div 2][Swapped(h, i, i \div 2)]
  <2>. TAKE i \in 1..n, h \in H
  <2>1. up = [a \in 1..n |-> [b \in H |->
               IF UpEnds(d, b, a) THEN b ELSE up[a \div 2][Swapped(b, a, a \div 2)]]]
    BY <1>1, Zenon DEF UpLoop
  <2>. HIDE DEF H, P
  <2>2. up[i] = [b \in H |->
               IF UpEnds(d, b, i) THEN b ELSE up[i \div 2][Swapped(b, i, i \div 2)]]
    BY <2>1, Zenon
  <2>. QED BY <2>2, Zenon
<1>. HIDE DEF P
<1>. DEFINE S == {k \in Nat : \A i \in 1..n, h \in H :
                   i <= k /\ UpTo(d, n, h, i) => Sifted(up[i][h], d, X, n, h)}
<1>4. 0 \in S
  OBVIOUS
<1>5. ASSUME NEW k \in Nat, k \in S PROVE k + 1 \in S
  <2>. SUFFICES ASSUME NEW i \in 1..n, NEW h \in H, i <= k + 1, UpTo(d, n, h, i)
                PROVE  Sifted(up[i][h], d, X, n, h)
    OBVIOUS
  <2>1. CASE UpEnds(d, h, i)
    <3>1. IsHeap(d, n, h)
      <4>1. CASE i = 1
        BY <4>1 DEF UpTo, IsHeap
      <4>2. CASE d[h[i \div 2]] >= d[h[i]]
        BY <4>2 DEF UpTo, IsHeap
      <4>. QED BY <4>1, <4>2, <2>1 DEF UpEnds
    <3>2. up[i][h] = h
      BY <1>3, <2>1
    <3>. QED BY <3>1, <3>2, Shuffled DEF Sifted
  <2>2. CASE ~UpEnds(d, h, i)
    <3>. DEFINE p == i \div 2
                r == Swapped(h, i, p)
    <3>1. i \in 2..n /\ d[h[i \div 2]] < d[h[i]]
      <4>1. i >= 2 /\ ~(d[h[i \div 2]] >= d[h[i]])
        BY <2>2 DEF UpEnds
      <4>2. i \div 2 \in 1..n
        BY <4>1, Half
      <4>3. d[h[i \div 2]] \in Nat /\ d[h[i]] \in Nat
        BY <4>2
      <4>. QED BY <4>1, <4>3
    <3>2. UpTo(d, n, r, p)
      BY <3>1, UpStep
    <3>3. p \in 1..n /\ p < i /\ i \in 1..n
      BY <3>1, Half
    <3>. HIDE DEF p
    <3>4. SwapLaws(r, X, n, h, i, p)
      BY <3>3, SwapIs
    <3>5. r \in H /\ Shuffle(r, h)
      BY <3>4 DEF SwapLaws
    <3>. HIDE DEF r
    <3>6. Sifted(up[p][r], d, X, n, r)
      <4>1. p <= k
        BY <3>3
      <4>. HIDE DEF H
      <4>. QED BY <4>1, <3>2, <3>3, <3>5, <1>5
    <3>7. up[i][h] = up[p][r]
      BY <1>3, <2>2 DEF p, r
    <3>. QED BY <3>5, <3>6, <3>7, ShuffleTwice DEF Sifted
  <2>. QED BY <2>1, <2>2
<1>. HIDE DEF S
<1>6. n \in S
  BY <1>4, <1>5, NatSet
<1>. QED BY <1>2, <1>6 DEF S

-----------------------------------------------------------------------------
(* Sifting down.                                                           *)

\* What down is at i, from what it is at the farther child.
DownLoop(down, d, n, H) ==
  down = [i \in 1..n |-> [h \in H |->
            IF FartherChild(d, h, i) = i THEN h
            ELSE down[FartherChild(d, h, i)][Swapped(h, i, FartherChild(d, h, i))]]]

\* A turn of the sift down goes on below, with the same elements.
LEMMA DownTurn ==
  ASSUME NEW X, NEW d \in [X -> Nat], NEW n \in Nat, NEW i \in 1..n, NEW h \in [1..n -> X],
         FartherChild(d, h, i) # i
  PROVE  /\ FartherChild(d, h, i) \in 1..n /\ FartherChild(d, h, i) > i
         /\ Swapped(h, i, FartherChild(d, h, i)) \in [1..n -> X]
         /\ Shuffle(Swapped(h, i, FartherChild(d, h, i)), h)
<1>. DEFINE m == FartherChild(d, h, i)
<1>1. m \in 1..n /\ m >= i
  BY FartherIs
<1>2. m # i
  OBVIOUS
<1>. HIDE DEF m
<1>3. SwapLaws(Swapped(h, i, m), X, n, h, i, m)
  BY <1>1, <1>2, SwapIs
<1>4. m > i
  BY <1>1, <1>2
<1>. QED BY <1>1, <1>3, <1>4 DEF SwapLaws, m

\* The recursive function that the sift down is.
LEMMA DownExists ==
  ASSUME NEW X, NEW d \in [X -> Nat], NEW n \in Nat
  PROVE  \E down : DownLoop(down, d, n, [1..n -> X])
<1>. DEFINE H == [1..n -> X]
            D == (1..n) \X H
            M(h, i) == FartherChild(d, h, i)
            rank == [x \in D |-> n - x[1]]
            stop == [x \in D |-> M(x[2], x[1]) = x[1]]
            out == [x \in D |-> x[2]]
            jump == [x \in D |-> <<M(x[2], x[1]), Swapped(x[2], x[1], M(x[2], x[1]))>>]
<1>3. ASSUME NEW i \in 1..n, NEW h \in H, M(h, i) # i
      PROVE  M(h, i) \in 1..n /\ M(h, i) > i /\ Swapped(h, i, M(h, i)) \in H
  BY <1>3, DownTurn
<1>. HIDE DEF M
<1>1. rank \in [D -> 0..n] /\ out \in [D -> H]
  OBVIOUS
<1>2. stop \in [D -> BOOLEAN]
  OBVIOUS
<1>4. \A x \in D : ~stop[x] => jump[x] \in D /\ rank[jump[x]] < rank[x]
  <2>. TAKE x \in D
  <2>. HAVE ~stop[x]
  <2>1. x[1] \in 1..n /\ x[2] \in H /\ M(x[2], x[1]) # x[1]
    OBVIOUS
  <2>2. M(x[2], x[1]) \in 1..n /\ M(x[2], x[1]) > x[1] /\ Swapped(x[2], x[1], M(x[2], x[1])) \in H
    BY <2>1, <1>3
  <2>3. jump[x] = <<M(x[2], x[1]), Swapped(x[2], x[1], M(x[2], x[1]))>>
    OBVIOUS
  <2>. HIDE DEF jump, H
  <2>. QED BY <2>1, <2>2, <2>3
<1>5. \A i \in 1..n, h \in H :
        /\ <<i, h>> \in D /\ stop[<<i, h>>] = (M(h, i) = i) /\ out[<<i, h>>] = h
        /\ jump[<<i, h>>] = <<M(h, i), Swapped(h, i, M(h, i))>>
  OBVIOUS
<1>. HIDE DEF rank, stop, out, jump
<1>6. PICK f : Loop(f, D, H, stop, out, jump)
  <2>. HIDE DEF D, H
  <2>. QED BY <1>1, <1>2, <1>4, LoopExists
<1>7. \A i \in 1..n, h \in H :
        f[<<i, h>>] = IF M(h, i) = i THEN h ELSE f[<<M(h, i), Swapped(h, i, M(h, i))>>]
  <2>. TAKE i \in 1..n, h \in H
  <2>1. \A x \in D : f[x] = IF stop[x] THEN out[x] ELSE f[jump[x]]
    <3>. HIDE DEF D, H
    <3>. QED BY <1>6 DEF Loop
  <2>2. /\ <<i, h>> \in D /\ stop[<<i, h>>] = (M(h, i) = i) /\ out[<<i, h>>] = h
        /\ jump[<<i, h>>] = <<M(h, i), Swapped(h, i, M(h, i))>>
    BY <1>5
  <2>. HIDE DEF D, H
  <2>3. f[<<i, h>>] = IF stop[<<i, h>>] THEN out[<<i, h>>] ELSE f[jump[<<i, h>>]]
    BY <2>1, <2>2
  <2>4. CASE stop[<<i, h>>]
    BY <2>2, <2>3, <2>4
  <2>5. CASE ~stop[<<i, h>>]
    BY <2>2, <2>3, <2>5
  <2>. QED BY <2>4, <2>5
<1>. DEFINE down == [i \in 1..n |-> [h \in H |-> f[<<i, h>>]]]
<1>8. \A i \in 1..n, h \in H :
        f[<<i, h>>] = IF M(h, i) = i THEN h ELSE down[M(h, i)][Swapped(h, i, M(h, i))]
  <2>. TAKE i \in 1..n, h \in H
  <2>1. CASE M(h, i) = i
    BY <2>1, <1>7
  <2>2. CASE M(h, i) # i
    <3>1. M(h, i) \in 1..n /\ Swapped(h, i, M(h, i)) \in H
      BY <2>2, <1>3
    <3>2. down[M(h, i)][Swapped(h, i, M(h, i))] = f[<<M(h, i), Swapped(h, i, M(h, i))>>]
      <4>. HIDE DEF H
      <4>. QED BY <3>1
    <3>. QED BY <2>2, <3>2, <1>7
  <2>. QED BY <2>1, <2>2
<1>9. down = [i \in 1..n |-> [h \in H |->
                IF M(h, i) = i THEN h ELSE down[M(h, i)][Swapped(h, i, M(h, i))]]]
  <2>1. down = [i \in 1..n |-> [h \in H |-> f[<<i, h>>]]]
    OBVIOUS
  <2>. HIDE DEF down, H
  <2>. QED BY <2>1, <1>8
<1>. HIDE DEF down
<1>. QED BY <1>9 DEF DownLoop, M

\* Sifting down a new root makes the array a heap of the same (tk_offer).
LEMMA SiftDownIs ==
  ASSUME NEW X, NEW d \in [X -> Nat], NEW n \in Nat \ {0}, NEW heap \in [1..n -> X],
         DownTo(d, n, heap, 1)
  PROVE  Sifted(SiftDown(d, heap), d, X, n, heap)
<1>. DEFINE H == [1..n -> X]
            P(u) == DownLoop(u, d, n, H)
            down == CHOOSE u : P(u)
<1>1. P(down)
  <2>1. \E u : P(u)
    BY DownExists
  <2>. HIDE DEF P
  <2>. QED BY <2>1
<1>2. SiftDown(d, heap) = down[1][heap]
  <2>1. DOMAIN heap = 1..n /\ DOMAIN d = X
    OBVIOUS
  <2>. QED BY <2>1 DEF SiftDown, DownLoop
<1>. HIDE DEF down
<1>3. \A i \in 1..n, h \in H :
        down[i][h] = IF FartherChild(d, h, i) = i THEN h
                     ELSE down[FartherChild(d, h, i)][Swapped(h, i, FartherChild(d, h, i))]
  <2>. TAKE i \in 1..n, h \in H
  <2>1. down = [a \in 1..n |-> [b \in H |->
                  IF FartherChild(d, b, a) = a THEN b
                  ELSE down[FartherChild(d, b, a)][Swapped(b, a, FartherChild(d, b, a))]]]
    BY <1>1, Zenon DEF DownLoop
  <2>. HIDE DEF H, P
  <2>2. down[i] = [b \in H |->
                  IF FartherChild(d, b, i) = i THEN b
                  ELSE down[FartherChild(d, b, i)][Swapped(b, i, FartherChild(d, b, i))]]
    BY <2>1, Zenon
  <2>. QED BY <2>2, Zenon
<1>. HIDE DEF P
<1>. DEFINE S == {k \in Nat : \A i \in 1..n, h \in H :
                   n - i <= k /\ DownTo(d, n, h, i) => Sifted(down[i][h], d, X, n, h)}
<1>4. ASSUME NEW i \in 1..n, NEW h \in H, DownTo(d, n, h, i), FartherChild(d, h, i) = i
      PROVE  Sifted(down[i][h], d, X, n, h)
  <2>1. \A j \in 2..n : j \div 2 = i => d[h[i]] >= d[h[j]]
    <3>1. \A j \in 2..n : j \div 2 = i => d[h[FartherChild(d, h, i)]] >= d[h[j]]
      BY FartherIs
    <3>. QED BY <3>1, <1>4
  <2>2. IsHeap(d, n, h)
    <3>. SUFFICES ASSUME NEW j \in 2..n PROVE d[h[j \div 2]] >= d[h[j]]
      BY DEF IsHeap
    <3>1. CASE j \div 2 = i
      BY <3>1, <2>1
    <3>2. CASE j \div 2 # i
      BY <3>2, <1>4 DEF DownTo
    <3>. QED BY <3>1, <3>2
  <2>3. down[i][h] = h
    BY <1>3, <1>4
  <2>. QED BY <2>2, <2>3, Shuffled DEF Sifted
<1>5. ASSUME NEW i \in 1..n, NEW h \in H, FartherChild(d, h, i) # i
      PROVE  FartherChild(d, h, i) \in 1..n /\ FartherChild(d, h, i) > i
  BY <1>5, DownTurn
<1>6. 0 \in S
  <2>. SUFFICES ASSUME NEW i \in 1..n, NEW h \in H, n - i <= 0, DownTo(d, n, h, i)
                PROVE  Sifted(down[i][h], d, X, n, h)
    OBVIOUS
  <2>1. FartherChild(d, h, i) = i
    BY <1>5
  <2>. QED BY <2>1, <1>4
<1>7. ASSUME NEW k \in Nat, k \in S PROVE k + 1 \in S
  <2>. SUFFICES ASSUME NEW i \in 1..n, NEW h \in H, n - i <= k + 1, DownTo(d, n, h, i)
                PROVE  Sifted(down[i][h], d, X, n, h)
    OBVIOUS
  <2>1. CASE FartherChild(d, h, i) = i
    BY <2>1, <1>4
  <2>2. CASE FartherChild(d, h, i) # i
    <3>. DEFINE m == FartherChild(d, h, i)
                r == Swapped(h, i, m)
    <3>1. DownTo(d, n, r, m)
      BY <2>2, DownStep
    <3>2. m \in 1..n /\ m > i /\ r \in H /\ Shuffle(r, h)
      BY <2>2, DownTurn
    <3>3. down[i][h] = down[m][r]
      BY <1>3, <2>2
    <3>. HIDE DEF m, r
    <3>4. n - m <= k
      BY <3>2
    <3>5. Sifted(down[m][r], d, X, n, r)
      <4>. HIDE DEF H
      <4>. QED BY <3>1, <3>2, <3>4, <1>7
    <3>. QED BY <3>2, <3>3, <3>5, ShuffleTwice DEF Sifted
  <2>. QED BY <2>1, <2>2
<1>. HIDE DEF S
<1>8. n \in S /\ n - 1 <= n /\ 1 \in 1..n
  <2>1. Nat \subseteq S
    BY <1>6, <1>7, NatSet
  <2>. QED BY <2>1
<1>. QED BY <1>2, <1>8 DEF S

-----------------------------------------------------------------------------
(* An offer to a heap.                                                     *)

\* An array without doubles has as many elements as positions.
LEMMA CardInjective ==
  ASSUME NEW X, NEW n \in Nat, NEW h \in [1..n -> X], IsInjective(h)
  PROVE  IsFiniteSet(ToSet(h)) /\ Cardinality(ToSet(h)) = n
<1>1. h \in Bijection(1..n, ToSet(h))
  BY DEF Bijection, Injection, Surjection, ToSet
<1>2. ExistsBijection(1..n, ToSet(h))
  BY <1>1 DEF ExistsBijection
<1>3. IsFiniteSet(1..n) /\ Cardinality(1..n) = n
  <2>1. 1 \in Int /\ n \in Int
    OBVIOUS
  <2>. QED BY <2>1, FS_Interval
<1>. QED BY <1>2, <1>3, FS_Bijection

\* The root of a heap is a farthest of it.
LEMMA RootFarthest ==
  ASSUME NEW X, NEW d \in [X -> Nat], NEW n \in Nat, NEW h \in [1..n -> X], IsHeap(d, n, h)
  PROVE  \A a \in ToSet(h) : d[h[1]] >= d[a]
<1>. DEFINE S == {k \in Nat : \A i \in 1..n : i <= k => d[h[1]] >= d[h[i]]}
<1>0. \A i \in 1..n : 1 \in 1..n /\ d[h[i]] \in Nat
  OBVIOUS
<1>1. 0 \in S
  OBVIOUS
<1>2. ASSUME NEW k \in Nat, k \in S PROVE k + 1 \in S
  <2>. SUFFICES ASSUME NEW i \in 1..n, i <= k + 1 PROVE d[h[1]] >= d[h[i]]
    OBVIOUS
  <2>1. CASE i = 1
    BY <2>1, <1>0
  <2>2. CASE i # 1
    <3>1. i \in 2..n /\ i \div 2 \in 1..n /\ i \div 2 <= k
      BY <2>2, Half
    <3>2. d[h[i \div 2]] >= d[h[i]]
      BY <3>1 DEF IsHeap
    <3>3. d[h[1]] >= d[h[i \div 2]]
      BY <3>1, <1>2
    <3>. DEFINE q == i \div 2
    <3>. HIDE DEF q
    <3>4. q \in 1..n /\ d[h[q]] >= d[h[i]] /\ d[h[1]] >= d[h[q]]
      BY <3>1, <3>2, <3>3 DEF q
    <3>. QED BY <3>4, <1>0
  <2>. QED BY <2>1, <2>2
<1>. HIDE DEF S
<1>3. Nat \subseteq S
  BY <1>1, <1>2, NatSet
<1>4. \A i \in 1..n : d[h[1]] >= d[h[i]]
  BY <1>3 DEF S
<1>5. ToSet(h) = {h[i] : i \in 1..n}
  BY DEF ToSet
<1>. QED BY <1>4, <1>5

\* h is a heap of k nearest of ids, each once.
Held(d, k, h, ids) ==
  /\ IsHeap(d, Len(h), h)
  /\ KNearest(d, k, ToSet(h), ids)
  /\ IsInjective(h)

\* What the heap of a call is after a candidate.
OfferLaws(r, d, k, h, id, ids, X) ==
  /\ r \in Seq(X)
  /\ Held(d, k, r, ids \cup {id})
  /\ Improves(d, k, h, id) => id \in ToSet(r)
  /\ ~Improves(d, k, h, id) => r = h /\ id \notin ToSet(r)

\* An offer to a heap of the k nearest of ids leaves the k nearest of ids and
\* the candidate (tk_offer, tjs_pg.c:407-438).
LEMMA Offer ==
  ASSUME NEW X, NEW d \in [X -> Nat], NEW k \in Nat \ {0}, NEW h \in Seq(X), NEW ids \in SUBSET X,
         IsFiniteSet(ids), NEW id \in X, id \notin ids, Held(d, k, h, ids)
  PROVE  OfferLaws(Offered(d, k, h, id), d, k, h, id, ids, X)
<1>. DEFINE n == Len(h)
            r == Offered(d, k, h, id)
            more == ids \cup {id}
<1>1. n \in Nat /\ h \in [1..n -> X] /\ DOMAIN h = 1..n
  OBVIOUS
<1>. HIDE DEF n
<1>2. IsHeap(d, n, h) /\ IsInjective(h) /\ KNearest(d, k, ToSet(h), ids)
  BY DEF Held, n
<1>3. Cardinality(ToSet(h)) = n /\ IsFiniteSet(ToSet(h))
  BY <1>1, <1>2, CardInjective
<1>4. /\ Cardinality(ids) \in Nat /\ IsFiniteSet(more)
      /\ Cardinality(more) = Cardinality(ids) + 1
  BY FS_CardinalityType, FS_AddElement
<1>5. /\ ToSet(h) \subseteq ids
      /\ n = IF Cardinality(ids) < k THEN Cardinality(ids) ELSE k
      /\ \A a \in ToSet(h), b \in ids \ ToSet(h) : d[a] <= d[b]
  BY <1>2, <1>3 DEF KNearest
<1>6. id \notin ToSet(h)
  BY <1>5
<1>7. n >= 1 => 1 \in 1..n /\ h[1] \in X /\ h[1] \in ToSet(h) /\ \A a \in ToSet(h) : d[h[1]] >= d[a]
  <2>. SUFFICES ASSUME n >= 1 PROVE 1 \in 1..n /\ h[1] \in X /\ h[1] \in ToSet(h) /\ \A a \in ToSet(h) : d[h[1]] >= d[a]
    OBVIOUS
  <2>1. 1 \in 1..n
    BY <1>1
  <2>2. \A a \in ToSet(h) : d[h[1]] >= d[a]
    BY <1>1, <1>2, RootFarthest
  <2>. QED BY <1>1, <2>1, <2>2 DEF ToSet
<1>8. CASE n < k
  <2>. DEFINE g == Append(h, id)
  <2>1. r = SiftUp(d, g)
    BY <1>8 DEF Offered, n
  <2>2. /\ g \in [1..(n + 1) -> X] /\ g[n + 1] = id /\ \A i \in 1..n : g[i] = h[i]
    <3>1. /\ g \in Seq(X) /\ Len(g) = n + 1 /\ g[n + 1] = id /\ \A i \in 1..n : g[i] = h[i]
      BY DEF n
    <3>2. n \in Nat
      BY <1>1
    <3>. HIDE DEF g, n
    <3>3. g \in [1..Len(g) -> X]
      BY <3>1, LenProperties
    <3>. QED BY <3>1, <3>3
  <2>3. ToSet(g) = ToSet(h) \cup {id} /\ IsInjective(g)
    BY <1>2, <1>6, AppendSet
  <2>. HIDE DEF g
  <2>4. UpTo(d, n + 1, g, n + 1)
    <3>1. ASSUME NEW j \in 2..(n + 1), j # n + 1 PROVE d[g[j \div 2]] >= d[g[j]]
      <4>1. j \in 2..n /\ j \in 1..n /\ j \div 2 \in 1..n
        BY <3>1, <1>1, Half
      <4>. QED BY <4>1, <2>2, <1>2 DEF IsHeap
    <3>2. \A j \in 2..(n + 1) : j \div 2 # n + 1
      BY <1>1, Half
    <3>. QED BY <3>1, <3>2 DEF UpTo
  <2>5. Sifted(r, d, X, n + 1, g)
    <3>. DEFINE m == n + 1
    <3>1. m \in Nat \ {0} /\ g \in [1..m -> X] /\ UpTo(d, m, g, m)
      BY <1>1, <2>2, <2>4
    <3>. HIDE DEF m
    <3>2. Sifted(SiftUp(d, g), d, X, m, g)
      BY <3>1, SiftUpIs
    <3>. QED BY <2>1, <3>2 DEF m
  <2>. HIDE DEF r
  <2>6. r \in [1..(n + 1) -> X] /\ IsHeap(d, n + 1, r) /\ IsInjective(r) /\ ToSet(r) = ToSet(h) \cup {id}
    BY <2>3, <2>5 DEF Sifted, Shuffle
  <2>7. Len(r) = n + 1 /\ r \in Seq(X)
    BY <2>6, <1>1, SeqDef
  <2>8. ToSet(h) = ids
    <3>1. Cardinality(ids) = Cardinality(ToSet(h))
      BY <1>3, <1>4, <1>5, <1>8
    <3>. QED BY <3>1, <1>5, FS_Subset
  <2>9. KNearest(d, k, ToSet(r), more)
    <3>1. ToSet(r) = more
      BY <2>6, <2>8
    <3>2. Cardinality(more) = n + 1 /\ n + 1 <= k
      BY <1>1, <1>3, <1>4, <1>8, <2>8
    <3>3. Cardinality(more) = IF Cardinality(more) < k THEN Cardinality(more) ELSE k
      BY <3>2, <1>1
    <3>. QED BY <3>1, <3>3 DEF KNearest
  <2>10. Improves(d, k, h, id) /\ id \in ToSet(r)
    BY <1>8, <2>6 DEF Improves, n
  <2>. QED BY <2>6, <2>7, <2>9, <2>10 DEF OfferLaws, Held, r
<1>9. ASSUME ~(n < k)
      PROVE n = k /\ n >= 1 /\ Cardinality(ids) >= k /\ ~(Cardinality(more) < k)
  BY <1>1, <1>4, <1>5, <1>9
<1>10. CASE ~(n < k) /\ d[id] < d[h[1]]
  <2>. DEFINE g == [h EXCEPT ![1] = id]
  <2>0. n = k /\ n >= 1 /\ Cardinality(ids) >= k /\ ~(Cardinality(more) < k)
    BY <1>9, <1>10
  <2>1. r = SiftDown(d, g)
    BY <1>10 DEF Offered, Improves, n
  <2>2. /\ g \in [1..n -> X] /\ g[1] = id /\ \A i \in 2..n : g[i] = h[i]
    BY <1>1, <2>0
  <2>. HIDE DEF g
  <2>3. /\ ToSet(g) = (ToSet(h) \ {h[1]}) \cup {id}
        /\ IsInjective(g)
    <3>1. \A i \in 1..n, j \in 1..n : h[i] = h[j] => i = j
      BY <1>1, <1>2 DEF IsInjective
    <3>2. \A i \in 1..n : h[i] # id
      BY <1>1, <1>6 DEF ToSet
    <3>3. \A i \in 1..n : i = 1 \/ i \in 2..n
      OBVIOUS
    <3>4. ToSet(h) = {h[i] : i \in 1..n} /\ ToSet(g) = {g[i] : i \in 1..n} /\ DOMAIN g = 1..n
      BY <1>1, <2>2 DEF ToSet
    <3>5. IsInjective(g)
      BY <2>2, <3>1, <3>2, <3>3, <3>4 DEF IsInjective
    <3>6. \A x \in ToSet(g) : x \in (ToSet(h) \ {h[1]}) \cup {id}
      <4>. SUFFICES ASSUME NEW i \in 1..n PROVE g[i] \in (ToSet(h) \ {h[1]}) \cup {id}
        BY <3>4
      <4>1. CASE i = 1
        BY <4>1, <2>2
      <4>2. CASE i \in 2..n
        <5>1. g[i] = h[i] /\ h[i] # h[1] /\ h[i] \in ToSet(h)
          BY <4>2, <2>0, <2>2, <3>1, <3>4, <1>7
        <5>. QED BY <5>1
      <4>. QED BY <3>3, <4>1, <4>2
    <3>7. \A x \in (ToSet(h) \ {h[1]}) \cup {id} : x \in ToSet(g)
      <4>. TAKE x \in (ToSet(h) \ {h[1]}) \cup {id}
      <4>1. CASE x = id
        BY <4>1, <2>0, <2>2, <3>4, <1>7
      <4>2. CASE x # id
        <5>1. PICK i \in 1..n : x = h[i]
          BY <4>2, <3>4
        <5>2. i \in 2..n /\ g[i] = h[i]
          BY <5>1, <4>2, <3>3, <2>2
        <5>. QED BY <5>1, <5>2, <3>4
      <4>. QED BY <4>1, <4>2
    <3>. QED BY <3>5, <3>6, <3>7
  <2>4. DownTo(d, n, g, 1)
    <3>1. ASSUME NEW j \in 2..n, j \div 2 # 1 PROVE d[g[j \div 2]] >= d[g[j]]
      <4>1. j \in 2..n /\ j \div 2 \in 2..n
        <5>1. j \div 2 \in Nat /\ j \div 2 >= 1 /\ j \div 2 < j
          BY Half
        <5>. DEFINE q == j \div 2
        <5>2. q \in Nat /\ q >= 1 /\ q < j /\ q # 1
          BY <5>1, <3>1
        <5>. HIDE DEF q
        <5>3. q \in 2..n
          BY <5>2, <1>1
        <5>. QED BY <5>3 DEF q
      <4>. QED BY <4>1, <2>2, <1>2 DEF IsHeap
    <3>. QED BY <3>1 DEF DownTo
  <2>5. Sifted(r, d, X, n, g)
    <3>1. n \in Nat \ {0}
      BY <1>1, <2>0
    <3>. QED BY <3>1, <2>1, <2>2, <2>4, SiftDownIs
  <2>. HIDE DEF r
  <2>6. r \in [1..n -> X] /\ IsHeap(d, n, r) /\ IsInjective(r) /\ ToSet(r) = (ToSet(h) \ {h[1]}) \cup {id}
    BY <2>3, <2>5 DEF Sifted, Shuffle
  <2>7. Len(r) = n /\ r \in Seq(X)
    BY <2>6, <1>1, SeqDef
  <2>8. Cardinality(ToSet(r)) = n
    BY <2>6, <1>1, CardInjective
  <2>9. ASSUME NEW a \in ToSet(r), NEW b \in more \ ToSet(r) PROVE d[a] <= d[b]
    <3>0. d[h[1]] \in Nat /\ d[a] \in Nat /\ d[b] \in Nat /\ d[id] \in Nat
      BY <2>0, <2>6, <1>5, <1>7
    <3>1. d[a] <= d[h[1]]
      <4>1. CASE a = id
        BY <4>1, <3>0, <1>10
      <4>2. CASE a \in ToSet(h)
        BY <4>2, <3>0, <2>0, <1>7
      <4>. QED BY <4>1, <4>2, <2>6
    <3>2. CASE b = h[1]
      BY <3>1, <3>2
    <3>3. CASE b # h[1]
      <4>1. b \in ids \ ToSet(h)
        BY <3>3, <2>6
      <4>2. d[h[1]] <= d[b]
        BY <4>1, <2>0, <1>5, <1>7
      <4>. QED BY <3>0, <3>1, <4>2
    <3>. QED BY <3>2, <3>3
  <2>10. KNearest(d, k, ToSet(r), more)
    <3>1. ToSet(r) \subseteq more
      BY <2>6, <1>5
    <3>. QED BY <3>1, <2>0, <2>8, <2>9 DEF KNearest
  <2>11. Improves(d, k, h, id) /\ id \in ToSet(r)
    BY <1>10, <2>6 DEF Improves
  <2>. QED BY <2>6, <2>7, <2>10, <2>11 DEF OfferLaws, Held, r
<1>11. CASE ~(n < k) /\ ~(d[id] < d[h[1]])
  <2>0. n = k /\ n >= 1 /\ Cardinality(ids) >= k /\ ~(Cardinality(more) < k)
    BY <1>9, <1>11
  <2>1. r = h /\ ~Improves(d, k, h, id)
    BY <1>11 DEF Offered, Improves, n
  <2>2. ASSUME NEW a \in ToSet(h), NEW b \in more \ ToSet(h) PROVE d[a] <= d[b]
    <3>1. CASE b = id
      <4>1. d[h[1]] >= d[a] /\ d[h[1]] \in Nat /\ d[a] \in Nat /\ d[id] \in Nat
        BY <2>0, <1>5, <1>7
      <4>. QED BY <4>1, <3>1, <1>11
    <3>2. CASE b # id
      BY <3>2, <1>5
    <3>. QED BY <3>1, <3>2
  <2>3. KNearest(d, k, ToSet(h), more)
    <3>1. ToSet(h) \subseteq more
      BY <1>5
    <3>. QED BY <3>1, <2>0, <2>2, <1>3 DEF KNearest
  <2>. QED BY <2>1, <2>3, <1>2, <1>6 DEF OfferLaws, Held, n
<1>. QED BY <1>8, <1>10, <1>11

-----------------------------------------------------------------------------
(* A call with a source: the invariant and the pull.                       *)

\* The elements of s that are in S: each of them, in order.
LEMMA OnlySet ==
  ASSUME NEW E, NEW S
  PROVE  \A s \in Seq(E) : Only(s, S) \in Seq(E) /\ ToSet(Only(s, S)) = ToSet(s) \cap S
<1>. DEFINE A == {s \in Seq(E) : ToSet(Only(s, S)) = ToSet(s) \cap S}
<1>0. \A s \in Seq(E) : Only(s, S) \in Seq(E)
  BY OnlySteps
<1>1. <<>> \in A
  <2>1. Only(<<>>, S) = <<>> /\ <<>> \in Seq(E)
    BY OnlySteps
  <2>2. ToSet(Only(<<>>, S)) = ToSet(<<>>) \cap S
    BY <2>1, EmptySet, Zenon
  <2>. QED BY <2>1, <2>2
<1>2. ASSUME NEW s \in Seq(E), NEW e \in E, s \in A PROVE Append(s, e) \in A
  <2>1. Append(s, e) \in Seq(E) /\ ToSet(Append(s, e)) = ToSet(s) \cup {e}
    BY AppendSet
  <2>2. Only(Append(s, e), S) = IF e \in S THEN Append(Only(s, S), e) ELSE Only(s, S)
    <3>1. \A a \in Seq(E), b \in E :
            Only(Append(a, b), S) = IF b \in S THEN Append(Only(a, S), b) ELSE Only(a, S)
      BY OnlySteps
    <3>. QED BY <3>1
  <2>3. ToSet(Append(Only(s, S), e)) = ToSet(Only(s, S)) \cup {e}
    BY <1>0, AppendSet
  <2>4. ToSet(Only(s, S)) = ToSet(s) \cap S
    BY <1>2
  <2>5. ToSet(Only(Append(s, e), S)) = ToSet(Append(s, e)) \cap S
    <3>1. CASE e \in S
      BY <3>1, <2>1, <2>2, <2>3, <2>4
    <3>2. CASE e \notin S
      BY <3>2, <2>1, <2>2, <2>4
    <3>. QED BY <3>1, <3>2
  <2>. QED BY <2>1, <2>5
<1>. HIDE DEF A
<1>3. Seq(E) \subseteq A
  BY <1>1, <1>2, SeqSet
<1>. QED BY <1>0, <1>3 DEF A

-----------------------------------------------------------------------------
\* What a call asks, and how it ends.
Asked == [k : Nat \ {0}, term : Nat, dist : [Vertices -> Nat], passes : SUBSET Vertices]
Ended == [phase : {"running", "exhausted", "dropped"}, censored : BOOLEAN]

\* The state's type.
CallTypeOK ==
  /\ query \in Asked
  /\ outcome \in Ended
  /\ topk \in Seq(Vertices)
  /\ drops \in Nat
  /\ taken \in Nat /\ taken <= Len(emitted)

\* The last edge-step reached the last vertex emitted, and none before did.
JustReached ==
  /\ state = "pulling"
  /\ used >= 1
  /\ StepsOf(adj, args)[used] = emitted[Len(emitted)]
  /\ \A i \in 1..(used - 1) : StepsOf(adj, args)[i] # emitted[Len(emitted)]

\* A vertex is looked at as soon as it is emitted.
PendingInv == taken < Len(emitted) => taken + 1 = Len(emitted) /\ JustReached

\* The heap holds the nearest of what was ranked.
HeldInv ==
  /\ Held(query.dist, query.k, topk, ToSet(RankedSoFar))
  /\ examined = Len(RankedSoFar)

\* The last to have entered the heap is as many back as there are drops.
DropInv ==
  /\ RankedSoFar = <<>> \/ query.term = 0 => drops = 0
  /\ RankedSoFar # <<>> /\ query.term > 0 =>
       /\ drops < Len(RankedSoFar)
       /\ RankedSoFar[Len(RankedSoFar) - drops] \in ToSet(topk)
       /\ \A i \in (Len(RankedSoFar) - drops + 1)..Len(RankedSoFar) :
            RankedSoFar[i] \notin ToSet(topk)

\* Why the call ended.
OutcomeInv ==
  /\ outcome.phase # "dropped" => drops < query.term \/ query.term = 0
  /\ outcome.phase = "dropped" =>
       drops = query.term /\ query.term > 0 /\ taken = Len(emitted) /\ JustReached
  /\ outcome = [phase |-> "exhausted", censored |-> FALSE] =>
       state = "exact" /\ taken = Len(emitted)

\* The inductive invariant of a call with a source.
CallInv == TravInv /\ CallTypeOK /\ PendingInv /\ HeldInv /\ DropInv /\ OutcomeInv

\* A call begins in the invariant.
LEMMA CallInitInv == CallInit => CallInv
<1>. SUFFICES ASSUME CallInit PROVE CallInv
  OBVIOUS
<1>1. /\ TravInv /\ emitted = <<>> /\ query \in Asked /\ topk = <<>> /\ drops = 0 /\ taken = 0
      /\ examined = 0 /\ outcome = [phase |-> "running", censored |-> FALSE]
  BY TravInitInv, QueriesAssumption DEF CallInit, TravInit, Running0, Asked
<1>2. RankedSoFar = <<>>
  <2>1. SubSeq(<<>>, 1, 0) = <<>>
    OBVIOUS
  <2>2. Only(<<>>, query.passes) = <<>>
    BY OnlySteps
  <2>. QED BY <1>1, <2>1, <2>2 DEF RankedSoFar
<1>3. CallTypeOK
  BY <1>1 DEF CallTypeOK, Ended
<1>4. PendingInv
  BY <1>1 DEF PendingInv
<1>5. HeldInv
  <2>1. ToSet(RankedSoFar) = {} /\ ToSet(topk) = {} /\ IsInjective(topk)
    BY <1>1, <1>2, EmptySet, EmptyInjective, Zenon
  <2>2. Cardinality({}) = 0
    BY FS_EmptySet
  <2>3. query.k \in Nat /\ query.k > 0
    BY <1>1 DEF Asked
  <2>4. KNearest(query.dist, query.k, ToSet(topk), ToSet(RankedSoFar))
    BY <2>1, <2>2, <2>3 DEF KNearest
  <2>5. IsHeap(query.dist, Len(topk), topk) /\ Len(RankedSoFar) = 0
    BY <1>1, <1>2 DEF IsHeap
  <2>. QED BY <2>1, <2>4, <2>5, <1>1 DEF HeldInv, Held
<1>6. DropInv
  BY <1>1, <1>2 DEF DropInv
<1>7. OutcomeInv
  <2>1. query.term \in Nat
    BY <1>1 DEF Asked
  <2>. QED BY <1>1, <2>1 DEF OutcomeInv
<1>. QED BY <1>1, <1>3, <1>4, <1>5, <1>6, <1>7 DEF CallInv

\* A traversal that goes on emits nothing, or one vertex and at once.
LEMMA GoesOn ==
  ASSUME TravInv, TravNext
  PROVE  \/ emitted' = emitted
         \/ /\ Len(emitted') = Len(emitted) + 1
            /\ SubSeq(emitted', 1, Len(emitted)) = emitted
            /\ JustReached'
<1>1. CASE ~EdgeStep
  BY <1>1 DEF TravNext, Dequeue, FrontierEmpty, BudgetSpent, VertexDrained
<1>2. CASE EdgeStep
  <2>. DEFINE A == StepsOf(adj, args)
              dst == Head(curScan.rest).dst
  <2>1. /\ curScan.open /\ used < args.budget /\ curScan.rest # <<>> /\ used' = used + 1
        /\ adj' = adj /\ args' = args /\ state' = state
        /\ IF dst \in visited THEN emitted' = emitted ELSE emitted' = Append(emitted, dst)
    BY <1>2 DEF EdgeStep
  <2>2. /\ state = "pulling" /\ \A j \in 1..Len(curScan.rest) : curScan.rest[j].dst = A[used + j]
    BY <2>1 DEF TravInv, ScanInv
  <2>3. curScan.rest \in Seq(Edges)
    BY DEF TravInv, TravTypeOK, Scanning
  <2>4. 1 \in 1..Len(curScan.rest) /\ Head(curScan.rest) = curScan.rest[1] /\ curScan.rest[1] \in Edges
    <3>. DEFINE r == curScan.rest
    <3>1. r \in Seq(Edges) /\ r # <<>>
      BY <2>1, <2>3
    <3>. HIDE DEF r
    <3>2. 1 \in 1..Len(r) /\ Head(r) = r[1] /\ r[1] \in Edges
      BY <3>1
    <3>. QED BY <3>2 DEF r
  <2>5. dst = A[used + 1] /\ dst \in Vertices
    BY <2>2, <2>4 DEF Edges
  <2>6. emitted \in Seq(Vertices) /\ GotLaws(adj, args) /\ used \in 0..Len(A)
    BY TravGiven
  <2>7. \A i \in 1..used : A[i] \in visited
    BY <2>6 DEF GotLaws, TravInv, SpentInv
  <2>8. used \in Nat
    BY DEF TravInv, TravTypeOK
  <2>. HIDE DEF dst, A
  <2>9. CASE dst \notin visited
    <3>1. emitted' = Append(emitted, dst)
      BY <2>1, <2>9
    <3>2. /\ Len(emitted') = Len(emitted) + 1
          /\ SubSeq(emitted', 1, Len(emitted)) = emitted
          /\ emitted'[Len(emitted')] = dst
      BY <3>1, <2>5, <2>6
    <3>3. /\ used' >= 1 /\ used' - 1 = used /\ A[used'] = dst
          /\ \A i \in 1..used : A[i] # dst
      BY <2>1, <2>5, <2>7, <2>8, <2>9
    <3>4. StepsOf(adj', args') = A
      BY <2>1 DEF A
    <3>5. JustReached'
      BY <3>2, <3>3, <3>4, <2>1, <2>2 DEF JustReached
    <3>. QED BY <3>2, <3>5
  <2>. QED BY <2>1, <2>9
<1>. QED BY <1>1, <1>2

\* Pulling the traversal once keeps the invariant (amgettuple of the scan).
LEMMA FetchInv == CallInv /\ Fetch => CallInv'
<1>. SUFFICES ASSUME CallInv, Fetch PROVE CallInv'
  OBVIOUS
<1>1. /\ outcome.phase = "running" /\ taken = Len(emitted) /\ TravNext
      /\ query' = query /\ topk' = topk /\ drops' = drops /\ taken' = taken
      /\ examined' = examined /\ outcome' = outcome
  BY DEF Fetch, callVars
<1>2. TravInv /\ TravInv'
  BY <1>1, TravStepInv DEF CallInv
<1>3. emitted \in Seq(Vertices) /\ emitted' \in Seq(Vertices) /\ Len(emitted) \in Nat
  <2>1. emitted \in Seq(Vertices) /\ Len(emitted) \in Nat
    BY <1>2, TravGiven
  <2>2. emitted' \in Seq(Vertices)
    <3>1. (adj \in Stored /\ args \in Args)' /\ used' \in Nat /\ (SpentInv)'
      BY <1>2 DEF TravInv, TravTypeOK
    <3>2. GotLaws(adj', args') /\ LineLaws(adj', args')
      BY <3>1, Laws
    <3>3. used' \in 0..Len(StepsOf(adj', args')) /\ emitted' = GotOf(adj', args', used').next
      BY <3>1, <3>2 DEF SpentInv, LineLaws
    <3>. QED BY <3>2, <3>3 DEF GotLaws, VisitStates
  <2>. QED BY <2>1, <2>2
<1>4. \/ emitted' = emitted
      \/ /\ Len(emitted') = Len(emitted) + 1
         /\ SubSeq(emitted', 1, Len(emitted)) = emitted
         /\ JustReached'
  BY <1>1, <1>2, GoesOn
<1>5. RankedSoFar' = RankedSoFar
  <2>1. SubSeq(emitted', 1, taken) = SubSeq(emitted, 1, taken)
    BY <1>1, <1>3, <1>4, SubSeqAll
  <2>. QED BY <2>1, <1>1 DEF RankedSoFar
<1>6. CallTypeOK'
  <2>1. taken' <= Len(emitted')
    BY <1>1, <1>3, <1>4
  <2>. QED BY <2>1, <1>1 DEF CallInv, CallTypeOK
<1>7. PendingInv'
  BY <1>1, <1>3, <1>4 DEF PendingInv
<1>8. HeldInv' /\ DropInv'
  BY <1>1, <1>5 DEF CallInv, HeldInv, DropInv
<1>9. OutcomeInv'
  <2>1. outcome # [phase |-> "exhausted", censored |-> FALSE]
    BY <1>1
  <2>. QED BY <2>1, <1>1 DEF CallInv, OutcomeInv
<1>. QED BY <1>2, <1>6, <1>7, <1>8, <1>9 DEF CallInv

\* What looking at the next candidate adds to what was ranked.
LEMMA NextRanked ==
  ASSUME CallInv, taken < Len(emitted)
  PROVE  /\ Candidate \in Vertices /\ taken + 1 = Len(emitted) /\ Len(emitted) \in Nat
         /\ RankedSoFar \in Seq(Vertices)
         /\ Candidate \notin ToSet(RankedSoFar)
         /\ Only(SubSeq(emitted, 1, taken + 1), query.passes) =
              IF Candidate \in query.passes THEN Append(RankedSoFar, Candidate) ELSE RankedSoFar
<1>1. emitted \in Seq(Vertices) /\ taken \in Nat /\ taken + 1 = Len(emitted) /\ Len(emitted) \in Nat
  <2>1. emitted \in Seq(Vertices)
    BY TravGiven DEF CallInv
  <2>. QED BY <2>1 DEF CallInv, CallTypeOK, PendingInv
<1>. DEFINE p == SubSeq(emitted, 1, taken)
            c == emitted[taken + 1]
<1>2. p \in Seq(Vertices) /\ c \in Vertices /\ SubSeq(emitted, 1, taken + 1) = Append(p, c)
      /\ DOMAIN p = 1..taken /\ \A i \in 1..taken : p[i] = emitted[i]
  BY <1>1
<1>3. IsInjective(emitted)
  <2>1. BfsIsReach /\ EmitsPrefix
    BY InvReach, InvPrefix DEF CallInv
  <2>2. IsInjective(listed) /\ IsPrefix(emitted, listed)
    BY <2>1 DEF BfsIsReach, EmitsPrefix
  <2>3. listed \in Seq(Vertices)
    <3>1. adj \in Stored /\ args \in Args /\ listed = IdsOf(adj, args)
      BY DEF CallInv, TravInv, TravTypeOK
    <3>. QED BY <3>1, Laws DEF LineLaws
  <2>4. \A i \in 1..Len(emitted) : i \in DOMAIN listed /\ listed[i] = emitted[i]
    <3>1. Len(emitted) <= Len(listed) /\ SubSeq(listed, 1, Len(emitted)) = emitted
      BY <2>2, <2>3, <1>1 DEF IsPrefix
    <3>. QED BY <3>1, <2>3, <1>1
  <2>. QED BY <2>2, <2>4, <1>1 DEF IsInjective
<1>4. c \notin ToSet(p)
  <2>1. \A i \in 1..taken : emitted[i] # c
    BY <1>1, <1>3 DEF IsInjective
  <2>. QED BY <2>1, <1>2 DEF ToSet
<1>5. RankedSoFar = Only(p, query.passes) /\ Candidate = c
  BY DEF RankedSoFar, Candidate
<1>. HIDE DEF p, c
<1>6. Only(p, query.passes) \in Seq(Vertices) /\ ToSet(Only(p, query.passes)) = ToSet(p) \cap query.passes
  BY <1>2, OnlySet
<1>7. Only(Append(p, c), query.passes) =
        IF c \in query.passes THEN Append(Only(p, query.passes), c) ELSE Only(p, query.passes)
  <2>. DEFINE S == query.passes
  <2>. HIDE DEF S
  <2>1. \A a \in Seq(Vertices), b \in Vertices :
          Only(Append(a, b), S) = IF b \in S THEN Append(Only(a, S), b) ELSE Only(a, S)
    BY OnlySteps
  <2>2. Only(Append(p, c), S) = IF c \in S THEN Append(Only(p, S), c) ELSE Only(p, S)
    BY <1>2, <2>1
  <2>. QED BY <2>2 DEF S
<1>. QED BY <1>1, <1>2, <1>4, <1>5, <1>6, <1>7

-----------------------------------------------------------------------------
(* A call with a source: ranking.                                          *)

\* Nothing the traversal keeps has changed.
LEMMA Stopped ==
  ASSUME TravInv, UNCHANGED travVars
  PROVE  /\ TravInv' /\ adj' = adj /\ args' = args /\ used' = used /\ emitted' = emitted
         /\ state' = state /\ JustReached' = JustReached
<1>1. TravInv'
  BY TravStepInv
<1>2. adj' = adj /\ args' = args /\ used' = used /\ emitted' = emitted /\ state' = state
  BY DEF travVars
<1>. QED BY <1>1, <1>2 DEF JustReached

\* A candidate that the filter rejects keeps it,
LEMMA ExcludedInv == CallInv /\ Excluded => CallInv'
<1>. SUFFICES ASSUME CallInv, Excluded PROVE CallInv'
  OBVIOUS
<1>1. /\ outcome.phase = "running" /\ taken < Len(emitted) /\ Candidate \notin query.passes
      /\ taken' = taken + 1 /\ UNCHANGED travVars /\ query' = query /\ topk' = topk
      /\ drops' = drops /\ examined' = examined /\ outcome' = outcome
  BY DEF Excluded
<1>2. TravInv' /\ emitted' = emitted
  BY <1>1, Stopped DEF CallInv
<1>3. RankedSoFar' = RankedSoFar /\ taken + 1 = Len(emitted)
  BY <1>1, <1>2, NextRanked DEF RankedSoFar
<1>4. CallTypeOK' /\ PendingInv'
  BY <1>1, <1>2, <1>3 DEF CallInv, CallTypeOK, PendingInv
<1>5. HeldInv' /\ DropInv'
  BY <1>1, <1>3 DEF CallInv, HeldInv, DropInv
<1>6. OutcomeInv'
  <2>1. outcome # [phase |-> "exhausted", censored |-> FALSE]
    BY <1>1
  <2>. QED BY <2>1, <1>1 DEF CallInv, OutcomeInv
<1>. QED BY <1>2, <1>4, <1>5, <1>6 DEF CallInv

\* one that is ranked does,
LEMMA RankedInv == CallInv /\ RankedCandidate => CallInv'
<1>. SUFFICES ASSUME CallInv, RankedCandidate PROVE CallInv'
  OBVIOUS
<1>. DEFINE d == query.dist
            k == query.k
            c == Candidate
            seen == RankedSoFar
            improves == Improves(d, k, topk, c)
            dropped == ~improves /\ query.term > 0
<1>1. /\ outcome.phase = "running" /\ taken < Len(emitted) /\ c \in query.passes
      /\ taken' = taken + 1 /\ examined' = examined + 1 /\ UNCHANGED travVars /\ query' = query
      /\ topk' = Offered(d, k, topk, c)
      /\ drops' = (IF improves THEN 0 ELSE IF dropped THEN drops + 1 ELSE drops)
      /\ outcome' = (IF dropped /\ drops' >= query.term
                     THEN [phase |-> "dropped", censored |-> FALSE] ELSE outcome)
  BY DEF RankedCandidate
<1>2. /\ TravInv' /\ emitted' = emitted /\ JustReached' = JustReached
  BY <1>1, Stopped DEF CallInv
<1>3. /\ c \in Vertices /\ taken + 1 = Len(emitted) /\ Len(emitted) \in Nat
      /\ seen \in Seq(Vertices) /\ c \notin ToSet(seen)
      /\ RankedSoFar' = Append(seen, c)
      /\ JustReached
  <2>1. JustReached
    BY <1>1 DEF CallInv, PendingInv
  <2>2. RankedSoFar' = Only(SubSeq(emitted, 1, taken + 1), query.passes)
    BY <1>1, <1>2 DEF RankedSoFar
  <2>. QED BY <2>1, <2>2, <1>1, NextRanked
<1>4. /\ query \in Asked /\ outcome \in Ended /\ drops \in Nat /\ taken \in Nat /\ topk \in Seq(Vertices)
  BY DEF CallInv, CallTypeOK
<1>5. d \in [Vertices -> Nat] /\ k \in Nat \ {0} /\ query.term \in Nat
  BY <1>4 DEF Asked
<1>6. Held(d, k, topk, ToSet(seen)) /\ examined = Len(seen)
  BY DEF CallInv, HeldInv
<1>7. IsFiniteSet(ToSet(seen)) /\ ToSet(seen) \in SUBSET Vertices
  <2>1. IsFiniteSet(1..Len(seen)) /\ seen \in [1..Len(seen) -> Vertices]
    <3>1. 1 \in Int /\ Len(seen) \in Int
      <4>. HIDE DEF seen
      <4>. QED BY <1>3
    <3>2. IsFiniteSet(1..Len(seen))
      <4>. HIDE DEF seen
      <4>. QED BY <3>1, FS_Interval
    <3>3. seen \in [1..Len(seen) -> Vertices]
      <4>. HIDE DEF seen
      <4>. QED BY <1>3
    <3>. QED BY <3>2, <3>3
  <2>2. seen \in Surjection(1..Len(seen), ToSet(seen))
    BY <2>1 DEF Surjection, ToSet
  <2>3. IsFiniteSet(ToSet(seen))
    <3>. DEFINE I == 1..Len(seen)
                T == ToSet(seen)
    <3>1. IsFiniteSet(I) /\ seen \in Surjection(I, T)
      BY <2>1, <2>2
    <3>. HIDE DEF I, T, seen
    <3>2. IsFiniteSet(T)
      BY <3>1, FS_Surjection
    <3>. QED BY <3>2 DEF T
  <2>4. ToSet(seen) \subseteq Vertices
    BY <2>1 DEF ToSet
  <2>. QED BY <2>3, <2>4
<1>8. OfferLaws(topk', d, k, topk, c, ToSet(seen), Vertices)
  <2>. DEFINE ids == ToSet(seen)
  <2>1. IsFiniteSet(ids) /\ ids \in SUBSET Vertices /\ c \notin ids /\ Held(d, k, topk, ids)
    BY <1>3, <1>6, <1>7
  <2>. HIDE DEF ids, c, d, k
  <2>2. OfferLaws(Offered(d, k, topk, c), d, k, topk, c, ids, Vertices)
    BY <2>1, <1>3, <1>4, <1>5, Offer
  <2>. QED BY <2>2, <1>1 DEF ids
<1>. DEFINE n == Len(seen)
            seen2 == Append(seen, c)
<1>9. /\ n \in Nat /\ Len(seen2) = n + 1 /\ seen2[n + 1] = c /\ seen2 # <<>>
      /\ \A i \in 1..n : seen2[i] = seen[i]
      /\ ToSet(seen2) = ToSet(seen) \cup {c}
  <2>. HIDE DEF seen, c
  <2>. QED BY <1>3, AppendSet
<1>. HIDE DEF seen, c, d, k, seen2
<1>10. CallTypeOK'
  <2>1. topk' \in Seq(Vertices)
    BY <1>8 DEF OfferLaws
  <2>2. drops' \in Nat
    BY <1>1, <1>4
  <2>3. outcome' \in Ended
    BY <1>1, <1>4 DEF Ended
  <2>. QED BY <2>1, <2>2, <2>3, <1>1, <1>2, <1>3, <1>4 DEF CallTypeOK
<1>11. PendingInv'
  BY <1>1, <1>2, <1>3 DEF PendingInv
<1>12. HeldInv'
  <2>1. Held(d, k, topk', ToSet(seen2))
    BY <1>8, <1>9 DEF OfferLaws
  <2>2. examined' = Len(seen2)
    BY <1>1, <1>6, <1>9
  <2>3. query'.dist = d /\ query'.k = k /\ RankedSoFar' = seen2
    BY <1>1, <1>3 DEF d, k, seen2
  <2>. QED BY <2>1, <2>2, <2>3 DEF HeldInv
<1>13. /\ seen = <<>> \/ query.term = 0 => drops = 0
       /\ seen # <<>> /\ query.term > 0 =>
            /\ drops < n
            /\ seen[n - drops] \in ToSet(topk)
            /\ \A i \in (n - drops + 1)..n : seen[i] \notin ToSet(topk)
  BY DEF CallInv, DropInv, seen
<1>14. outcome.phase = "running" /\ (drops < query.term \/ query.term = 0)
  BY <1>1 DEF CallInv, OutcomeInv
<1>15. CASE improves
  <2>1. drops' = 0 /\ outcome' = outcome /\ c \in ToSet(topk')
    BY <1>1, <1>8, <1>15 DEF OfferLaws
  <2>2. DropInv'
    <3>1. RankedSoFar' = seen2 /\ Len(seen2) - drops' = n + 1 /\ (n + 1) + 1 > n + 1 /\ drops' < Len(seen2)
      BY <2>1, <1>3, <1>9 DEF seen2
    <3>2. \A i \in (Len(seen2) - drops' + 1)..Len(seen2) : FALSE
      BY <3>1, <1>9
    <3>3. seen2[Len(seen2) - drops'] \in ToSet(topk')
      BY <2>1, <3>1, <1>9
    <3>. QED BY <2>1, <3>1, <3>2, <3>3 DEF DropInv
  <2>3. OutcomeInv'
    <3>1. outcome # [phase |-> "exhausted", censored |-> FALSE]
      BY <1>1
    <3>. QED BY <3>1, <2>1, <1>1, <1>5 DEF OutcomeInv
  <2>. QED BY <2>2, <2>3, <1>2, <1>10, <1>11, <1>12 DEF CallInv
<1>16. CASE ~improves
  <2>1. topk' = topk /\ c \notin ToSet(topk')
    BY <1>8, <1>16 DEF OfferLaws
  <2>2. seen # <<>>
    <3>. SUFFICES ASSUME seen = <<>> PROVE FALSE
      OBVIOUS
    <3>1. ToSet(seen) = {}
      BY EmptySet, Zenon
    <3>2. ToSet(topk) = {}
      BY <3>1, <1>6 DEF Held, KNearest
    <3>3. Len(topk) = 0
      <4>1. \A i \in 1..Len(topk) : topk[i] \in ToSet(topk)
        BY <1>4 DEF ToSet
      <4>. QED BY <4>1, <3>2, <1>4
    <3>. QED BY <3>3, <1>5, <1>16 DEF Improves
  <2>3. CASE query.term = 0
    <3>1. drops' = drops /\ outcome' = outcome /\ drops = 0
      BY <2>3, <1>1, <1>13, <1>16
    <3>2. DropInv'
      BY <2>3, <3>1, <1>1 DEF DropInv
    <3>3. OutcomeInv'
      <4>1. outcome # [phase |-> "exhausted", censored |-> FALSE]
        BY <1>1
      <4>. QED BY <4>1, <3>1, <2>3, <1>1 DEF OutcomeInv
    <3>. QED BY <3>2, <3>3, <1>2, <1>10, <1>11, <1>12 DEF CallInv
  <2>4. CASE query.term > 0
    <3>1. drops' = drops + 1 /\ drops < query.term
      BY <2>4, <1>1, <1>5, <1>14, <1>16
    <3>2. DropInv'
      <4>1. RankedSoFar' = seen2 /\ query' = query
        BY <1>1, <1>3 DEF seen2
      <4>2. /\ drops < n /\ seen[n - drops] \in ToSet(topk)
            /\ \A i \in (n - drops + 1)..n : seen[i] \notin ToSet(topk)
        BY <2>2, <2>4, <1>13
      <4>3. drops' < Len(seen2) /\ Len(seen2) - drops' = n - drops /\ n - drops \in 1..n
        BY <3>1, <4>2, <1>4, <1>9
      <4>4. seen2[Len(seen2) - drops'] \in ToSet(topk')
        BY <4>2, <4>3, <2>1, <1>9
      <4>5. ASSUME NEW i \in (Len(seen2) - drops' + 1)..Len(seen2) PROVE seen2[i] \notin ToSet(topk')
        <5>1. i \in (n - drops + 1)..(n + 1) /\ i \in Nat
          BY <4>3, <1>9, <1>4
        <5>2. CASE i = n + 1
          BY <5>2, <2>1, <1>9
        <5>3. CASE i # n + 1
          <6>1. i \in (n - drops + 1)..n /\ i \in 1..n
            BY <5>1, <5>3, <4>3, <1>9, <1>4
          <6>. QED BY <6>1, <4>2, <2>1, <1>9
        <5>. QED BY <5>2, <5>3
      <4>. QED BY <2>4, <4>1, <4>3, <4>4, <4>5, <1>9 DEF DropInv
    <3>3. OutcomeInv'
      <4>1. CASE drops' >= query.term
        <5>1. outcome' = [phase |-> "dropped", censored |-> FALSE] /\ drops' = query.term
          BY <4>1, <2>4, <3>1, <1>1, <1>4, <1>5, <1>16
        <5>2. outcome'.phase = "dropped" /\ outcome' # [phase |-> "exhausted", censored |-> FALSE]
          <6>1. outcome'.phase = "dropped"
            BY <5>1
          <6>. QED BY <6>1
        <5>. QED BY <5>1, <5>2, <2>4, <1>1, <1>2, <1>3 DEF OutcomeInv
      <4>2. CASE ~(drops' >= query.term)
        <5>1. outcome' = outcome /\ drops' < query.term
          BY <4>2, <3>1, <1>1, <1>4, <1>5
        <5>2. outcome # [phase |-> "exhausted", censored |-> FALSE]
          BY <1>1
        <5>. QED BY <5>1, <5>2, <1>1 DEF OutcomeInv
      <4>. QED BY <4>1, <4>2
    <3>. QED BY <3>2, <3>3, <1>2, <1>10, <1>11, <1>12 DEF CallInv
  <2>. QED BY <2>3, <2>4, <1>5
<1>. QED BY <1>15, <1>16

\* and so does the end of the traversal.
LEMMA ExhaustedInv == CallInv /\ Exhausted => CallInv'
<1>. SUFFICES ASSUME CallInv, Exhausted PROVE CallInv'
  OBVIOUS
<1>1. /\ outcome.phase = "running" /\ taken = Len(emitted) /\ state # "pulling"
      /\ outcome' = [phase |-> "exhausted", censored |-> (state = "censored")]
      /\ UNCHANGED travVars /\ query' = query /\ topk' = topk /\ drops' = drops
      /\ taken' = taken /\ examined' = examined
  BY DEF Exhausted
<1>2. TravInv' /\ emitted' = emitted /\ state' = state
  BY <1>1, Stopped DEF CallInv
<1>3. RankedSoFar' = RankedSoFar
  BY <1>1, <1>2 DEF RankedSoFar
<1>4. CallTypeOK' /\ PendingInv'
  <2>1. outcome' \in Ended
    BY <1>1 DEF Ended
  <2>. QED BY <2>1, <1>1, <1>2 DEF CallInv, CallTypeOK, PendingInv
<1>5. HeldInv' /\ DropInv'
  BY <1>1, <1>3 DEF CallInv, HeldInv, DropInv
<1>6. OutcomeInv'
  <2>1. outcome'.phase = "exhausted" /\ outcome'.censored = (state = "censored")
    BY <1>1
  <2>2. outcome' = [phase |-> "exhausted", censored |-> FALSE] => state = "exact"
    <3>1. state \in {"pulling", "exact", "censored"}
      BY DEF CallInv, TravInv, TravTypeOK
    <3>2. outcome' = [phase |-> "exhausted", censored |-> FALSE] => outcome'.censored = FALSE
      OBVIOUS
    <3>. QED BY <3>1, <3>2, <2>1, <1>1
  <2>3. drops < query.term \/ query.term = 0
    BY <1>1 DEF CallInv, OutcomeInv
  <2>. QED BY <2>1, <2>2, <2>3, <1>1, <1>2 DEF OutcomeInv
<1>. QED BY <1>2, <1>4, <1>5, <1>6 DEF CallInv

\* Every step of a call keeps the invariant.
LEMMA CallStepInv == CallInv /\ [CallNext]_ffVars => CallInv'
<1>. SUFFICES ASSUME CallInv, [CallNext]_ffVars PROVE CallInv'
  OBVIOUS
<1>1. CASE UNCHANGED ffVars
  <2>1. UNCHANGED travVars /\ UNCHANGED callVars
    BY <1>1 DEF ffVars
  <2>2. TravInv' /\ emitted' = emitted /\ state' = state /\ JustReached' = JustReached
    BY <2>1, Stopped DEF CallInv
  <2>3. /\ query' = query /\ topk' = topk /\ drops' = drops /\ taken' = taken
        /\ examined' = examined /\ outcome' = outcome
    BY <2>1 DEF callVars
  <2>4. RankedSoFar' = RankedSoFar
    BY <2>2, <2>3 DEF RankedSoFar
  <2>. QED BY <2>2, <2>3, <2>4 DEF CallInv, CallTypeOK, PendingInv, HeldInv, DropInv, OutcomeInv
<1>. QED BY <1>1, FetchInv, ExcludedInv, RankedInv, ExhaustedInv DEF CallNext

-----------------------------------------------------------------------------
\* What a call with a source says of its answer follows from the invariant.
LEMMA CallIsHonest ==
  CallInv => HoldsNearest /\ UncensoredIsExact /\ DropsAreConsecutive /\ DroppedStopsWork
<1>. SUFFICES ASSUME CallInv
              PROVE  HoldsNearest /\ UncensoredIsExact /\ DropsAreConsecutive /\ DroppedStopsWork
  OBVIOUS
<1>1. HoldsNearest
  BY DEF CallInv, HeldInv, Held, IsHeap, HoldsNearest
<1>2. UncensoredIsExact
  <2>. SUFFICES ASSUME outcome = [phase |-> "exhausted", censored |-> FALSE]
                PROVE  KNearest(query.dist, query.k, ToSet(topk), ToSet(listed) \cap query.passes)
    BY DEF UncensoredIsExact
  <2>1. state = "exact" /\ taken = Len(emitted)
    BY DEF CallInv, OutcomeInv
  <2>2. emitted = listed
    BY <2>1, InvPrefix DEF CallInv, EmitsPrefix
  <2>3. emitted \in Seq(Vertices)
    BY TravGiven DEF CallInv
  <2>4. RankedSoFar = Only(listed, query.passes)
    BY <2>1, <2>2, <2>3, SubSeqAll DEF RankedSoFar
  <2>5. ToSet(RankedSoFar) = ToSet(listed) \cap query.passes
    BY <2>2, <2>3, <2>4, OnlySet
  <2>. QED BY <2>5 DEF CallInv, HeldInv, Held
<1>3. DropsAreConsecutive
  <2>1. /\ query.term \in Nat /\ drops \in Nat
    BY DEF CallInv, CallTypeOK, Asked
  <2>2. query.term > 0 /\ RankedSoFar # <<>> =>
          /\ RankedSoFar[Len(RankedSoFar) - drops] \in ToSet(topk)
          /\ \A i \in (Len(RankedSoFar) - drops + 1)..Len(RankedSoFar) :
               RankedSoFar[i] \notin ToSet(topk)
    BY DEF CallInv, DropInv
  <2>3. outcome.phase = "dropped" <=> query.term > 0 /\ drops = query.term
    BY <2>1 DEF CallInv, OutcomeInv
  <2>. QED BY <2>2, <2>3 DEF DropsAreConsecutive
<1>4. DroppedStopsWork
  BY DEF CallInv, OutcomeInv, JustReached, DroppedStopsWork, StepsOf, Steps
<1>. QED BY <1>1, <1>2, <1>3, <1>4

\* A call with a source, for every graph and query: its answer is the nearest
\* of what it pulled, exact when no flag is raised, and it stops when as many
\* drops as asked for came in a row (tjs_open, filter-first, tjs_pg.c:1258-1322).
THEOREM CallSafe ==
  CallSpec => [](HoldsNearest /\ UncensoredIsExact /\ DropsAreConsecutive /\ DroppedStopsWork)
BY CallInitInv, CallStepInv, CallIsHonest, PTL DEF CallSpec

-----------------------------------------------------------------------------
(* Among the forms.                                                        *)

\* While the form is not this one, its invariant is not asked for.
SourceInv == form \in {"source", "no source", "scan"} /\ (form = "source" => CallInv)

\* The composition begins in it: only a call with a source asks for it.
LEMMA SourceInitInv == MCInit => SourceInv
BY CallInitInv DEF MCInit, SourceInv

\* A step of one form leaves the others' state alone.
LEMMA SourceStepInv ==
  SourceInv /\ [Sourced \/ Streamed \/ Scanned]_<<form, ffVars, seedlessVars, scanVars>> => SourceInv'
<1>. SUFFICES ASSUME SourceInv, [Sourced \/ Streamed \/ Scanned]_<<form, ffVars, seedlessVars, scanVars>>
             PROVE  SourceInv'
  OBVIOUS
<1>1. CASE Sourced
  <2>1. form = "source" /\ form' = form /\ CallInv /\ CallNext
    BY <1>1 DEF Sourced, SourceInv
  <2>. QED BY <2>1, CallStepInv DEF SourceInv
<1>2. CASE Streamed \/ Scanned
  BY <1>2 DEF Streamed, Scanned, SourceInv
<1>3. CASE UNCHANGED <<form, ffVars, seedlessVars, scanVars>>
  <2>1. form' = form /\ UNCHANGED ffVars
    BY <1>3
  <2>2. CallInv => CallInv'
    BY <2>1, CallStepInv
  <2>. QED BY <2>1, <2>2 DEF SourceInv
<1>. QED BY <1>1, <1>2, <1>3

\* Whatever form a behaviour is of, the traversals of a call agree: the full one
\* lists the reach, the bounded one emits a prefix of it, ends as the function
\* says and within its budget (gph_traverse_bfs and gph_traverse_bounded).
THEOREM ReadsAgree == MCSpec => []TraversalsAgree
<1>1. SourceInv => TraversalsAgree
  BY InvReach, InvPrefix, InvPull, InvBudget DEF SourceInv, TraversalsAgree, CallInv
<1>. QED BY <1>1, SourceInitInv, SourceStepInv, PTL DEF MCSpec

\* And a call with a source says what its answer is: the nearest of what it
\* pulled, exact when no flag is raised (tjs_open, filter-first).
THEOREM ReadsAreHonest == MCSpec => []FilterFirstHonest
<1>1. SourceInv => FilterFirstHonest
  BY CallIsHonest DEF SourceInv, FilterFirstHonest
<1>. QED BY <1>1, SourceInitInv, SourceStepInv, PTL DEF MCSpec

=============================================================================
