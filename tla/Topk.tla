-------------------------------- MODULE Topk --------------------------------
(***************************************************************************)
(* The bounded max-heap on distance of tjs_pg.c: it holds up to k ids, its *)
(* root is a farthest of them.  A heap is the sequence of its items' ids,  *)
(* d[id] the distance.  Positions count from 1, the array's from 0.        *)
(*                                                                         *)
(* Both forms of the operator rank into one heap, count the candidates in  *)
(* a row that did not improve it, and report how many they examined.       *)
(***************************************************************************)
EXTENDS Integers, Sequences, SequencesExt, FiniteSetsExt

VARIABLES
  topk,     \* the heap of the k nearest vectors
  drops,    \* candidates in a row that did not improve it, once full
  examined  \* tjs_examined

Swapped(h, i, j) == [h EXCEPT ![i] = h[j], ![j] = h[i]]

\* The h of up[i][h] is the array when the loop is at i.
SiftUp(d, heap) ==
  LET up[i \in DOMAIN heap] == [h \in [DOMAIN heap -> DOMAIN d] |->
        LET p == i \div 2 IN
        IF i = 1 \/ d[h[p]] >= d[h[i]] THEN h ELSE up[p][Swapped(h, i, p)]]
  IN  up[Len(heap)][heap]

\* The position of the farthest of i and its children; a tie leaves i.
FartherChild(d, h, i) ==
  LET far(j, m) == IF j <= Len(h) /\ d[h[j]] > d[h[m]] THEN j ELSE m
  IN  far(2 * i + 1, far(2 * i, i))

SiftDown(d, heap) ==
  LET down[i \in DOMAIN heap] == [h \in [DOMAIN heap -> DOMAIN d] |->
        LET m == FartherChild(d, h, i) IN
        IF m = i THEN h ELSE down[m][Swapped(h, i, m)]]
  IN  down[1][heap]

\* topk_offer's answer: the candidate enters the held set.
Improves(d, k, h, id) == Len(h) < k \/ d[id] < d[h[1]]

\* The heap after topk_offer.
Offered(d, k, h, id) ==
  IF Len(h) < k THEN SiftUp(d, Append(h, id))
  ELSE IF Improves(d, k, h, id) THEN SiftDown(d, [h EXCEPT ![1] = id])
  ELSE h

\* topk_cmp_dist: nearest first, ties by id.
Nearer(d, a, b) == d[a] < d[b] \/ (d[a] = d[b] /\ a < b)

\* The ids in that order: as many are before an id as are nearer.
Ranked(d, ids) ==
  [i \in 1..Cardinality(ids) |->
     CHOOSE v \in ids : Cardinality({u \in ids : Nearer(d, u, v)}) = i - 1]

\* near is a choice of the k nearest of ids; which of several at the same
\* distance are chosen is left open.
KNearest(d, k, near, ids) ==
  /\ near \subseteq ids
  /\ Cardinality(near) = IF Cardinality(ids) < k THEN Cardinality(ids) ELSE k
  /\ \A a \in near, b \in ids \ near : d[a] <= d[b]

=============================================================================
