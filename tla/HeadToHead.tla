----------------------------- MODULE HeadToHead -----------------------------
(***************************************************************************)
(* The wiki head-to-head (wiki_h2h): four commands that hand files to each *)
(* other, in any order and as often as an operator likes.  `oracle` grades *)
(* the questions exactly, `tridb-emit` writes the SQL of a sweep that psql *)
(* runs on the engine, `baseline` sweeps Milvus, Neo4j and pgvector, and   *)
(* `report` grades both and prints a latency ratio or the reasons why not. *)
(*                                                                         *)
(* The stores hold the same slice of the corpus: rows of its articles, and *)
(* the edges between them.  The oracle reads files instead, an array with  *)
(* a row of zeros for each gap in the ids, and edges that may lead to one. *)
(* The engine's operator is external and approximate; of the Milvus search *)
(* too, an answer that misses a nearest vector is possible.  Latency is    *)
(* free: any combo that clears the target may be the fastest.              *)
(***************************************************************************)
EXTENDS Integers, Sequences, SequencesExt, FiniteSetsExt

CONSTANTS
  Ids,           \* the ids of the slice, naturals
  Gaps,          \* those without an article: rows of zeros
  Place,         \* [Ids -> Nat]; the distance of two articles is that of their places
  GapDistance,   \* a row of zeros is as far from every article
  Graphs,        \* inputs: the induced edges, each a set of pairs
  NQueries, Ks, OracleKnobs,  \* inputs: --queries; --k; [m, hops] of the oracle
  TridbGrid, BaseGrid,        \* sequence and set of [m, hops]
  Cap,           \* tjs_max_examined
  Target, Eps, Unit,
  MaxOracles,    \* bound: runs of `oracle`
  Missing        \* a file that is not there

ASSUME HeadToHeadAssumption ==
  /\ Ids \subseteq Nat /\ Gaps \subseteq Ids
  /\ {GapDistance, NQueries, Cap, Target, Eps, Unit, MaxOracles} \subseteq Nat
  /\ Ks \subseteq Nat \ {0}

VARIABLES
  adj,     \* the slice's graph, out-neighbours
  version, \* history: runs of `oracle` so far
  oracle,  \* wiki_h2h_oracle.json
  script,  \* the emitted SQL
  raw,     \* psql's transcript
  base,    \* wiki_h2h_baseline.json
  report   \* what the last report compared

hvars == <<adj, version, oracle, script, raw, base, report>>

-----------------------------------------------------------------------------
(* The corpus.                                                             *)

\* Every store holds these.
Articles == Ids \ Gaps

Distance(a, b) == IF b \in Gaps THEN GapDistance
                  ELSE IF Place[a] > Place[b] THEN Place[a] - Place[b]
                  ELSE Place[b] - Place[a]

\* Nearest first; ties are taken by id.
Reranked(q, ids, n) ==
  LET s == SetToSortSeq(ids, LAMBDA a, b :
             Distance(q, a) < Distance(q, b)
               \/ (Distance(q, a) = Distance(q, b) /\ a < b))
  IN  SubSeq(s, 1, Min({n, Len(s)}))

\* load_induced_adj: both ends below the slice's size, gaps or not.
Induced(edges) ==
  [s \in Ids |-> {d \in Ids : <<s, d>> \in edges}]

\* sample_queries: rows with a vector.
Samples == kSubset(NQueries, Articles)

\* expand: breadth-first, until a level adds nothing.
Expand(seeds, hops) ==
  LET level[h \in 0..hops] ==
        IF h = 0 THEN [seen |-> seeds, frontier |-> seeds]
        ELSE LET l == level[h - 1]
                 next == UNION {adj[s] : s \in l.frontier} \ l.seen
             IN  [seen |-> l.seen \cup next, frontier |-> next]
  IN  level[hops].seen

\* compute_oracle for one question: every row of the array is ranked.
OracleSeeds(q, m) == Reranked(q, Ids, m)
OracleAnswer(q, k, m, hops) ==
  Reranked(q, Expand(ToSet(OracleSeeds(q, m)), hops), k)

\* recall_at_k, in grains.
Recall(top, gold, k) ==
  LET firsts(s) == ToSet(SubSeq(s, 1, Min({k, Len(s)}))) IN
  (Unit * Cardinality(firsts(gold) \cap firsts(top))) \div Cardinality(firsts(gold))

HInit ==
  /\ \E edges \in Graphs : adj = Induced(edges)
  /\ version = 0
  /\ oracle = Missing
  /\ script = Missing
  /\ raw = Missing
  /\ base = Missing
  /\ report = Missing

OracleCmd ==
  /\ version < MaxOracles
  /\ version' = version + 1
  /\ \E qs \in Samples, k \in Ks, o \in OracleKnobs :
       oracle' = [version |-> version', queries |-> qs, k |-> k, knobs |-> o,
                  gold |-> [q \in qs |-> OracleAnswer(q, k, o.m, o.hops)]]
  /\ UNCHANGED <<adj, script, raw, base, report>>

-----------------------------------------------------------------------------
(* The engine's side.                                                      *)

\* emit_tridb_sql: each question with each combo, and DONE.
Emit ==
  /\ oracle # Missing
  /\ script' = [version |-> oracle.version, k |-> oracle.k,
                calls |-> [i \in 1..(Cardinality(oracle.queries) * Len(TridbGrid)) |->
                  [q |-> SetToSortSeq(oracle.queries, <)[((i - 1) \div Len(TridbGrid)) + 1],
                   tag |-> ((i - 1) % Len(TridbGrid)) + 1]]]
  /\ UNCHANGED <<adj, version, oracle, raw, base, report>>

\* tjs_open: the fused answer; a drain cut at the cap, with the seeds alone;
\* or a scan that ran into the statement's end with nothing examined.  A gap has
\* a vertex, and no row to be answered with.
TjsOpen(q, m, hops, k) ==
  LET seeds == Reranked(q, Articles, m) IN
  {[ids |-> Reranked(q, Expand(ToSet(seeds), hops) \cap Articles, k), examined |-> 1],
   [ids |-> Reranked(q, ToSet(seeds), k), examined |-> Cap],
   [ids |-> << >>, examined |-> 0]}

\* `> raw` empties the transcript.
PsqlStart ==
  /\ script # Missing
  /\ raw' = [script |-> script, blocks |-> << >>, done |-> FALSE]
  /\ UNCHANGED <<adj, version, oracle, script, base, report>>

Running == raw # Missing /\ ~raw.done

\* ON_ERROR_STOP, a lost connection: psql ends between two blocks, so any
\* transcript without DONE may be all there is.
PsqlBlock ==
  /\ Running
  /\ Len(raw.blocks) < Len(raw.script.calls)
  /\ LET c == raw.script.calls[Len(raw.blocks) + 1] IN
     \E a \in TjsOpen(c.q, TridbGrid[c.tag].m, TridbGrid[c.tag].hops, raw.script.k) :
       raw' = [raw EXCEPT !.blocks = Append(@, c @@ a)]
  /\ UNCHANGED <<adj, version, oracle, script, base, report>>

PsqlDone ==
  /\ Running
  /\ Len(raw.blocks) = Len(raw.script.calls)
  /\ raw' = [raw EXCEPT !.done = TRUE]
  /\ UNCHANGED <<adj, version, oracle, script, base, report>>

\* Mutant: a transcript is graded as far as it goes.
ParsesAny == raw # Missing

\* parse_tridb refuses a transcript that did not reach DONE.
Parses == raw # Missing /\ raw.done

-----------------------------------------------------------------------------
(* The baseline's side.                                                    *)

\* Milvus: the nearest vectors, or all but one of them and the next.
MilvusSeed(q, m) ==
  {[exact |-> TRUE, ids |-> Reranked(q, Articles, m)],
   [exact |-> FALSE, ids |-> Tail(Reranked(q, Articles, m + 1))]}

Trails(rels, hops) ==
  UNION {{t \in [1..n -> rels] :
            /\ \A i \in 1..(n - 1) : t[i][2] = t[i + 1][1]
            /\ \A i, j \in 1..n : i # j => t[i] # t[j]} : n \in 1..hops}

\* MATCH (a)-[*1..hops]->(b): the ends of trails, no relationship twice.  The
\* loader made no relationship with a gap at an end.
Neo4jHop(seeds, hops) ==
  LET rels == {<<a, b>> \in Articles \X Articles : b \in adj[a]} IN
  {t[Len(t)][2] : t \in {u \in Trails(rels, hops) : u[1][1] \in seeds}}

\* One pass over the three stores; what is reranked has a row.
BaselineAnswer(q, seeds, hops, k) ==
  Reranked(q, Neo4jHop(ToSet(seeds), hops) \cup ToSet(seeds), k)

\* run_baseline: the file is written when the whole sweep is done.
Baseline ==
  /\ oracle # Missing
  /\ \E ef \in BOOLEAN :
       base' = [version |-> oracle.version, queries |-> oracle.queries, exact |-> ef,
                ids |-> [g \in BaseGrid |-> [q \in oracle.queries |->
                  LET s == CHOOSE x \in MilvusSeed(q, g.m) : x.exact = ef
                  IN  BaselineAnswer(q, s.ids, g.hops, oracle.k)]]]
  /\ UNCHANGED <<adj, version, oracle, script, raw, report>>

-----------------------------------------------------------------------------
(* report.                                                                 *)

Mean(f) == MapThenSumSet(LAMBDA q : f[q], DOMAIN f) \div Cardinality(DOMAIN f)

Median(f) ==
  LET s == SetToSortSeq(DOMAIN f, LAMBDA a, b : f[a] < f[b] \/ (f[a] = f[b] /\ a < b))
      n == Len(s)
  IN  (f[s[(n + 1) \div 2]] + f[s[(n \div 2) + 1]]) \div 2

Block(tag, q) == CHOOSE b \in ToSet(raw.blocks) : b.tag = tag /\ b.q = q

\* grade_tridb: a question the oracle does not list is passed over.
GradeTridb ==
  LET of(tag) == {b.q : b \in {c \in ToSet(raw.blocks) : c.tag = tag}} \cap oracle.queries
  IN  [tag \in {t \in DOMAIN TridbGrid : of(t) # {}} |->
         [queries |-> of(tag),
          recall |-> Mean([q \in of(tag) |->
                       Recall(Block(tag, q).ids, oracle.gold[q], oracle.k)]),
          examined |-> Median([q \in of(tag) |-> Block(tag, q).examined])]]

GradeBaseline ==
  LET of == base.queries \cap oracle.queries IN
  [g \in {h \in BaseGrid : of # {}} |->
     [queries |-> of,
      recall |-> Mean([q \in of |-> Recall(base.ids[g][q], oracle.gold[q], oracle.k)])]]

\* operating_point: the fastest of the combos that clear the target, or none.
OperatingPoints(curve) ==
  LET ok == {t \in DOMAIN curve : curve[t].recall >= Target} IN
  IF ok = {} THEN {Missing} ELSE ok

Away(a, b) == IF a > b THEN a - b ELSE b - a

\* publication_gate.  declared: the edge counts are given and equal, the
\* timers' boundary is acknowledged, and every index build was healthy.
Blocked(tri, tp, bas, bp, declared) ==
  \/ ~declared
  \/ Missing \in {tp, bp}
  \/ Away(tri[tp].recall, bas[bp].recall) > Eps
  \/ tri[tp].examined <= 0
  \/ tri[tp].examined >= Cap

\* A report without a transcript has an empty curve and no headline.
Report ==
  /\ oracle # Missing
  /\ Parses
  /\ base # Missing
  /\ LET tri == GradeTridb
         bas == GradeBaseline IN
     \E declared \in BOOLEAN, tp \in OperatingPoints(tri), bp \in OperatingPoints(bas) :
       report' =
         [headline |-> ~Blocked(tri, tp, bas, bp, declared),
          of |-> oracle.queries,
          tridb |-> IF tp = Missing THEN {} ELSE tri[tp].queries,
          baseline |-> IF bp = Missing THEN {} ELSE bas[bp].queries,
          asked |-> [tridb |-> {c.q : c \in ToSet(raw.script.calls)},
                     baseline |-> base.queries],
          from |-> [tridb |-> raw.script.version, baseline |-> base.version,
                    oracle |-> oracle.version]]
  /\ UNCHANGED <<adj, version, oracle, script, raw, base>>

HNext ==
  \/ OracleCmd
  \/ Emit \/ PsqlStart \/ PsqlBlock \/ PsqlDone
  \/ Baseline
  \/ Report

-----------------------------------------------------------------------------
(* Properties.                                                             *)

\* Behind a headline each leg is graded on every question that it was asked and
\* the oracle lists, and on no other, whatever ran into errors, was run again or
\* was overwritten in between; so a leg of this oracle on all its questions, and
\* two legs of one oracle, though it be an older one, on the same.  Legs of
\* different oracles may share fewer, never none
\* (parse_tridb's DONE, run_baseline's single write, grade_tridb's skip).
HeadlineIsWhole ==
  report # Missing /\ report.headline =>
    /\ report.tridb = report.of \cap report.asked.tridb
    /\ report.baseline = report.of \cap report.asked.baseline
    /\ {} \notin {report.tridb, report.baseline}
    /\ report.from.tridb = report.from.oracle => report.tridb = report.of
    /\ report.from.baseline = report.from.oracle => report.baseline = report.of
    /\ report.from.tridb = report.from.baseline => report.tridb = report.baseline

\* The pipeline of three stores is exact where its parts are: with an exact
\* vector search and the oracle's own seeds and hops it misses of the oracle's
\* answer the gaps, which no store can answer, and nothing else: trails reach
\* what the levels reach, though no trail goes to a gap.  A question with a gap
\* among the oracle's seeds is the exception: Milvus has another seed there
\* (run_baseline beside compute_oracle).
ExactMeetsOracle ==
  oracle # Missing /\ base # Missing /\ base.exact
    /\ base.version = oracle.version /\ oracle.knobs \in BaseGrid =>
      \A q \in oracle.queries :
        LET gold == ToSet(oracle.gold[q]) IN
        ToSet(OracleSeeds(q, oracle.knobs.m)) \subseteq Articles =>
          gold \ ToSet(base.ids[oracle.knobs][q]) = gold \cap Gaps

=============================================================================
