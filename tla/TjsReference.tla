---------------------------- MODULE TjsReference ----------------------------
(***************************************************************************)
(* The host reference of the seedless joint operator: for a question, the  *)
(* bounded forward push from the nearest vectors, then the merge of the    *)
(* two descending streams by the FR bound, or the baseline that stops      *)
(* after consecutive drops; and the driver that sweeps both over a corpus. *)
(*                                                                         *)
(* Mass and scores are whole grains, Unit of them in 1.0; a division       *)
(* rounds down where the floats round.                                     *)
(***************************************************************************)
EXTENDS Naturals, Sequences, SequencesExt, FiniteSetsExt, Functions

CONSTANTS
  Paragraphs,    \* n_paragraphs
  EdgeLists,     \* inputs: edge sets of manifests, pairs of numbers
  Questions,     \* inputs: [dist : squared distances, gold : ids], a sequence;
                 \* a question without gold ids is passed over, and is not here
  Ks, K5,        \* inputs: k; the depth of the closing comparison
  MSeeds, VecLimit,
  AlphaDiv,      \* 1 / alpha
  RmaxSweep, TermSweep,
  Unit

VARIABLES
  adj,    \* the adjacency lists
  k,
  job,    \* the driver: sweep, position in it, question
  stage,  \* of the question in hand
  push,   \* residue, reserve, touched and heap
  streams,\* the two ranked streams, [id, score], best first
  merge,  \* the merge in progress
  answer, \* ids of the question in hand
  curve,  \* recall sums of the r_max sweep, and of the term_cond sweep
  five    \* recall sums of the closing comparison

rvars == <<adj, k, job, stage, push, streams, merge, answer, curve, five>>

Node == 0..(Paragraphs - 1)

\* Undirected, without self-loops, strangers and repetitions.
BuildAdjacency(edges) ==
  [u \in Node |-> {v \in Node \ {u} : {<<u, v>>, <<v, u>>} \cap edges # {}}]

Question == Questions[job.q]

\* Every sequence of the scores' ids that descends; ties are in any order.
Descending(scores) ==
  {s \in SetToSeqs(DOMAIN scores) :
     \A i, j \in DOMAIN s : i < j => scores[s[i]] >= scores[s[j]]}

Nearest(dist, n) ==
  {SubSeq(s, 1, Min({n, Len(s)})) :
     s \in Descending([v \in DOMAIN dist |-> Unit - dist[v]])}

-----------------------------------------------------------------------------
(* bounded_push_ppr.                                                       *)

Fresh == [residue |-> [v \in Node |-> 0], reserve |-> << >>, touched |-> {},
          heap |-> {}, lost |-> 0]

NoMerge == [at |-> "none"]

\* The drops are swept at the middle r_max.
Rmax == IF job.phase = "drops" THEN RmaxSweep[Len(RmaxSweep) \div 2 + 1]
        ELSE RmaxSweep[job.i]

\* ann_seeds and the personalization vector.
Seed ==
  /\ stage = "seed"
  /\ \E seeds \in Nearest(Question.dist, MSeeds) :
       LET share == Unit \div Len(seeds)
           given == [v \in Node |-> IF v \in ToSet(seeds) THEN share ELSE 0] IN
       push' = [Fresh EXCEPT !.residue = given, !.touched = ToSet(seeds),
                             !.heap = {<<share, v>> : v \in ToSet(seeds)}]
  /\ stage' = "push"
  /\ UNCHANGED <<adj, k, job, streams, merge, answer, curve, five>>

\* The largest residue, the lowest id among equals.
HeapTop ==
  CHOOSE e \in push.heap :
    \A f \in push.heap : e[1] > f[1] \/ (e[1] = f[1] /\ e[2] <= f[2])

\* Mutant: a vertex that was touched before is not put on the heap again.
HeapedOnce(v, residue) == v \notin push.touched

\* A neighbour goes on the heap with its new residue.
Heaped(v, residue) == residue >= Rmax

Bank(reserve, u, grains) ==
  [v \in DOMAIN reserve \cup {u} |->
     (IF v \in DOMAIN reserve THEN reserve[v] ELSE 0)
       + (IF v = u THEN grains ELSE 0)]

\* One pop; an entry that is stale or below the floor is dropped.
PushPop ==
  /\ stage = "push"
  /\ push.heap # {}
  /\ LET u == HeapTop[2]
         ru == push.residue[u]
         rest == push.heap \ {HeapTop}
         kept == ru \div AlphaDiv
         deg == Cardinality(adj[u])
         share == (ru - kept) \div deg
         residue == [v \in Node |->
                       IF v \in adj[u] THEN push.residue[v] + share
                       ELSE IF v = u THEN 0 ELSE push.residue[v]]
     IN  \/ /\ HeapTop[1] # ru \/ ru < Rmax
            /\ push' = [push EXCEPT !.heap = rest]
         \/ /\ HeapTop[1] = ru /\ ru >= Rmax
            /\ deg = 0
            /\ push' = [push EXCEPT !.heap = rest, !.residue[u] = 0,
                                    !.reserve = Bank(@, u, kept),
                                    !.lost = @ + ru - kept]
         \/ /\ HeapTop[1] = ru /\ ru >= Rmax
            /\ deg > 0
            /\ push' = [residue |-> residue,
                        reserve |-> Bank(push.reserve, u, kept),
                        touched |-> push.touched \cup adj[u],
                        heap |-> rest \cup {<<residue[v], v>> :
                                   v \in {w \in adj[u] : Heaped(w, residue[w])}},
                        lost |-> push.lost + (ru - kept) - deg * share]
  /\ UNCHANGED <<adj, k, job, stage, streams, merge, answer, curve, five>>

-----------------------------------------------------------------------------
(* The streams.                                                            *)

\* _minmax_norm.
MinMaxNorm(scores) ==
  LET lo == Min(Range(scores))
      hi == Max(Range(scores))
  IN  [v \in DOMAIN scores |-> IF hi = lo THEN Unit
                               ELSE (Unit * (scores[v] - lo)) \div (hi - lo)]

Stream(scores, order) ==
  [i \in DOMAIN order |-> [id |-> order[i], score |-> scores[order[i]]]]

\* vector_ranked: the window of the nearest, normalized over the window.
VectorScores(window) ==
  MinMaxNorm([v \in ToSet(window) |-> 4 * Unit - Question.dist[v]])

PprScores == IF push.reserve = << >> THEN << >> ELSE MinMaxNorm(push.reserve)

\* The baseline's one stream: the larger of an id's two scores.
MaxScore(vec, ppr) ==
  [v \in DOMAIN vec \cup DOMAIN ppr |->
     Max((IF v \in DOMAIN vec THEN {vec[v]} ELSE {})
         \cup (IF v \in DOMAIN ppr THEN {ppr[v]} ELSE {}))]

Head1(s) == IF s = << >> THEN 0 ELSE s[1].score

Sorted ==
  /\ stage = "push"
  /\ push.heap = {}
  /\ \E window \in Nearest(Question.dist, VecLimit) :
       LET vec == VectorScores(window)
           ppr == PprScores
           fused == MaxScore(vec, ppr) IN
       \/ /\ job.phase # "drops"
          /\ \E p \in Descending(ppr) :
               LET s == <<Stream(vec, window), Stream(ppr, p)>> IN
               /\ streams' = s
               /\ merge' = [at |-> "fr", i |-> <<0, 0>>, seen |-> << >>,
                            part |-> << >>, frontier |-> <<Head1(s[1]), Head1(s[2])>>]
       \/ /\ job.phase = "drops"
          /\ \E f \in Descending(fused) :
               /\ streams' = <<Stream(fused, f), << >>>>
               /\ merge' = [at |-> "drops", i |-> 0, heap |-> {}, drops |-> 0]
  /\ stage' = "merge"
  /\ UNCHANGED <<adj, k, job, push, answer, curve, five>>

-----------------------------------------------------------------------------
(* nra_fr_merge.  part[id] holds the legs' scores seen so far; seen lists  *)
(* the ids in the order they were first pulled.                            *)

Depth == IF job.phase = "five" THEN K5 ELSE k

Legs == {1, 2}
Unpulled(leg) == merge.i[leg] < Len(streams[leg])
Next1(leg) == streams[leg][merge.i[leg] + 1]

\* The leg whose next item scores higher; the vectors' on a tie.
PullLeg ==
  IF Unpulled(1) /\ (~Unpulled(2) \/ Next1(1).score >= Next1(2).score) THEN 1 ELSE 2

Pulled(m, leg, item) ==
  LET old == IF item.id \in DOMAIN m.part THEN m.part[item.id] ELSE << >>
      part == [l \in DOMAIN old \cup {leg} |-> IF l = leg THEN item.score ELSE old[l]]
  IN  [m EXCEPT !.i[leg] = @ + 1,
                !.seen = IF item.id \in DOMAIN m.part THEN @ ELSE Append(@, item.id),
                !.part = [v \in DOMAIN @ \cup {item.id} |->
                            IF v = item.id THEN part ELSE @[v]],
                !.frontier = [l \in Legs |->
                   IF m.i[l] + (IF l = leg THEN 1 ELSE 0) >= Len(streams[l]) THEN 0
                   ELSE IF l = leg THEN item.score ELSE @[l]]]

Worst(m, v) == MapThenSumSet(LAMBDA l : m.part[v][l], DOMAIN m.part[v])
Best(m, v)  == Worst(m, v) + MapThenSumSet(LAMBDA l : m.frontier[l],
                                           Legs \ DOMAIN m.part[v])

\* By worst score, stable.
ByWorst(m) ==
  LET at(v) == CHOOSE i \in DOMAIN m.seen : m.seen[i] = v IN
  SetToSortSeq(ToSet(m.seen), LAMBDA a, b :
    Worst(m, a) > Worst(m, b) \/ (Worst(m, a) = Worst(m, b) /\ at(a) < at(b)))

\* Mutant: an outsider counts with what is known of it.
SettledByWorst(m) ==
  LET w == ByWorst(m)
      depth == Depth IN
  /\ Len(w) >= depth
  /\ \A j \in (depth + 1)..Len(w) : Worst(m, w[depth]) >= Worst(m, w[j])
  /\ Worst(m, w[depth]) >= m.frontier[1] + m.frontier[2]

\* The FR bound: no outsider, seen or not, can still pass the k-th.
Settled(m) ==
  LET w == ByWorst(m)
      depth == Depth IN
  /\ Len(w) >= depth
  /\ \A j \in (depth + 1)..Len(w) : Worst(m, w[depth]) >= Best(m, w[j])
  /\ Worst(m, w[depth]) >= m.frontier[1] + m.frontier[2]

Pull ==
  /\ merge.at = "fr"
  /\ \E leg \in Legs : Unpulled(leg)
  /\ LET m == Pulled(merge, PullLeg, Next1(PullLeg)) IN
     /\ merge' = m
     /\ IF Settled(m)
        THEN /\ answer' = SubSeq(ByWorst(m), 1, Depth)
             /\ stage' = "grade"
        ELSE UNCHANGED <<answer, stage>>
  /\ stage = "merge"
  /\ UNCHANGED <<adj, k, job, push, streams, curve, five>>

\* The streams are exhausted: by final score, ties by id.
Exhausted ==
  /\ stage = "merge"
  /\ merge.at = "fr"
  /\ \A leg \in Legs : ~Unpulled(leg)
  /\ LET final == SetToSortSeq(ToSet(merge.seen), LAMBDA a, b :
           Worst(merge, a) > Worst(merge, b)
             \/ (Worst(merge, a) = Worst(merge, b) /\ a < b)) IN
     answer' = SubSeq(final, 1, Min({Depth, Len(final)}))
  /\ stage' = "grade"
  /\ UNCHANGED <<adj, k, job, push, streams, merge, curve, five>>

-----------------------------------------------------------------------------
(* consecutive_drops_merge: a min-heap of the best so far.                 *)

Floor(heap) == Min({e[1] : e \in heap})
Root(heap)  == CHOOSE e \in heap : e[1] = Floor(heap) /\
                 \A f \in heap : f[1] = e[1] => e[2] <= f[2]

DropsPull ==
  /\ stage = "merge"
  /\ merge.at = "drops"
  /\ LET item == streams[1][merge.i + 1]
         entry == <<item.score, item.id>>
         enters == Cardinality(merge.heap) < k
         better == ~enters /\ item.score > Floor(merge.heap)
     IN  /\ merge.i < Len(streams[1])
         /\ merge.drops < TermSweep[job.i]
         /\ merge' = [merge EXCEPT
              !.i = @ + 1,
              !.drops = IF enters \/ better THEN 0 ELSE @ + 1,
              !.heap = IF enters THEN @ \cup {entry}
                       ELSE IF better THEN (@ \ {Root(@)}) \cup {entry} ELSE @]
  /\ UNCHANGED <<adj, k, job, stage, push, streams, answer, curve, five>>

DropsEnd ==
  /\ stage = "merge"
  /\ merge.at = "drops"
  /\ merge.i = Len(streams[1]) \/ merge.drops = TermSweep[job.i]
  /\ answer' = [i \in 1..Cardinality(merge.heap) |->
                  SetToSortSeq(merge.heap, LAMBDA a, b :
                    a[1] > b[1] \/ (a[1] = b[1] /\ a[2] < b[2]))[i][2]]
  /\ stage' = "grade"
  /\ UNCHANGED <<adj, k, job, push, streams, merge, curve, five>>

-----------------------------------------------------------------------------
(* run_corpus.                                                             *)

Grade(ids, depth) ==
  (Unit * Cardinality(Question.gold \cap ToSet(SubSeq(ids, 1, Min({depth, Len(ids)})))))
    \div Cardinality(Question.gold)

Leading(leg) == [i \in 1..Min({Depth, Len(streams[leg])}) |-> streams[leg][i].id]

\* _a_oracle_recall_at_k: the seeds and their neighbours, reranked.
OracleIds(seeds, depth) ==
  LET reach == ToSet(seeds) \cup UNION {adj[s] : s \in ToSet(seeds)}
  IN  Nearest([v \in reach |-> Question.dist[v]], depth)

\* rrf_fuse, ranks from 1, c = 60; the best first, ties by id.
RrfIds(legs, depth) ==
  LET score(v) == MapThenSumSet(LAMBDA l : MapThenSumSet(
                    LAMBDA i : (Unit * 10000) \div (60 + i),
                    {i \in DOMAIN legs[l] : legs[l][i].id = v}), Legs)
      all == UNION {{legs[l][i].id : i \in DOMAIN legs[l]} : l \in Legs}
      ranked == SetToSortSeq(all, LAMBDA a, b :
                  score(a) > score(b) \/ (score(a) = score(b) /\ a < b))
  IN  SubSeq(ranked, 1, Min({depth, Len(ranked)}))

SweepLen == IF job.phase = "curve" THEN Len(RmaxSweep)
            ELSE IF job.phase = "drops" THEN Len(TermSweep) ELSE job.i

\* max(rmax_curve, key): the first of the best.
BestRmax(c) ==
  CHOOSE i \in DOMAIN c : \A j \in DOMAIN c : c[j] < c[i] \/ (c[j] = c[i] /\ i <= j)

\* The next question; then the next r_max or term_cond; then the next sweep.
NextJob(c) ==
  IF job.q < Len(Questions) THEN [job EXCEPT !.q = @ + 1]
  ELSE IF job.i < SweepLen THEN [job EXCEPT !.q = 1, !.i = @ + 1]
  ELSE IF job.phase = "curve" THEN [phase |-> "drops", i |-> 1, q |-> 1]
  ELSE IF job.phase = "drops" THEN [phase |-> "five", i |-> BestRmax(c), q |-> 1]
  ELSE [job EXCEPT !.phase = "done"]

Graded ==
  /\ stage = "grade"
  /\ LET g == Grade(answer, Depth) IN
     /\ curve' = IF job.phase = "curve" THEN [curve EXCEPT ![job.i] = @ + g] ELSE curve
     /\ five' = IF job.phase = "five"
                THEN [fr |-> five.fr + g, vector |-> five.vector + Grade(Leading(1), K5),
                      ppr |-> five.ppr + Grade(Leading(2), K5),
                      rrf |-> five.rrf + Grade(RrfIds(streams, K5), K5)]
                ELSE five
     /\ job' = NextJob(curve')
  /\ stage' = "seed"
  /\ push' = Fresh
  /\ streams' = <<<< >>, << >>>>
  /\ merge' = NoMerge
  /\ answer' = << >>
  /\ UNCHANGED <<adj, k>>

RefInit ==
  /\ \E edges \in EdgeLists : adj = BuildAdjacency(edges)
  /\ k \in Ks
  /\ job = [phase |-> "curve", i |-> 1, q |-> 1]
  /\ stage = "seed"
  /\ push = Fresh
  /\ streams = <<<< >>, << >>>>
  /\ merge = NoMerge
  /\ answer = << >>
  /\ curve = [i \in DOMAIN RmaxSweep |-> 0]
  /\ five = [fr |-> 0, vector |-> 0, ppr |-> 0, rrf |-> 0]

RefNext ==
  /\ job.phase # "done"
  /\ \/ Seed \/ PushPop \/ Sorted
     \/ Pull \/ Exhausted
     \/ DropsPull \/ DropsEnd
     \/ Graded

-----------------------------------------------------------------------------
(* Properties.                                                             *)

\* The push stops only when no residue reaches the floor, and every grain is
\* in a reserve, in a residue or was lost at a dead end (bounded_push_ppr's
\* lazy deletion drops no live entry).
PushLeavesLittle ==
  stage \in {"push", "merge", "grade"} =>
    /\ push.heap = {} => \A v \in Node : push.residue[v] < Rmax
    /\ MapThenSumSet(LAMBDA v : push.residue[v], Node)
         + MapThenSumSet(LAMBDA v : push.reserve[v], DOMAIN push.reserve) + push.lost
         <= Unit

\* The score of an id over whole streams, a missing leg counting nothing.
Total(v) ==
  MapThenSumSet(LAMBDA l : MapThenSumSet(LAMBDA i : streams[l][i].score,
                  {i \in DOMAIN streams[l] : streams[l][i].id = v}), Legs)

Streamed == UNION {{streams[l][i].id : i \in DOMAIN streams[l]} : l \in Legs}

\* However early the merge stops, by the FR bound or by drops, its answer is
\* a top k of the whole streams: no id left out scores more than one kept.
MergeIsExact ==
  stage = "grade" =>
    /\ Len(answer) = Min({Depth, Cardinality(Streamed)})
    /\ IsInjective(answer)
    /\ \A a \in ToSet(answer), b \in Streamed \ ToSet(answer) : Total(a) >= Total(b)

\* With no more answers than seeds the oracle of the comparison is the vector
\* search alone: the seeds are in its reach, whatever the graph
\* (_a_oracle_recall_at_k at k5 = m_seeds).
OracleIsVectorOnly ==
  stage = "push" /\ K5 <= MSeeds =>
    \A seeds \in Nearest(Question.dist, MSeeds) :
      OracleIds(seeds, K5) \subseteq Nearest(Question.dist, K5)
=============================================================================
