-------------------------- MODULE TypedHeadToHead --------------------------
(***************************************************************************)
(* The Wikidata head-to-head (wikidata_h2h) and its plain-SQL contender    *)
(* (wd_allpg_baseline): the question "entities of type t within reach of x *)
(* over property p, nearest to x first", answered by                       *)
(*   - the oracle: breadth-first search, filter, sort;                     *)
(*   - the engine: one statement over the native traversal;                *)
(*   - three stores: trails in Neo4j, a filter and a rank in Postgres;     *)
(*   - one Postgres: a recursive CTE over a table of links.                *)
(* The commands hand files to each other and can be run again at any time. *)
(*                                                                         *)
(* The engine, Neo4j and Postgres hold the slice the way the loaders left  *)
(* it; their query languages are modelled by what the statements ask for.  *)
(***************************************************************************)
EXTENDS HeadToHead

CONSTANTS
  Slices,        \* inputs: [entities, edges: sequences; claims: function]
  TypedHops, MinCands, TypedK,  \* inputs: --hops, --min-candidates, --k
  TypedQueries,  \* --queries
  TypedGrid,     \* set of [hops, frontier]
  TypedCap, TypedTarget,
  ExpectedEdges, \* EXPECTED_EDGES
  MaxVersions    \* bound: runs of `oracle`

VARIABLES
  slice,     \* the loaded shards: dense edges and types
  wdVersion, \* history: runs of `oracle`
  wdOracle,  \* wikidata_h2h_oracle.json
  wdScript,  \* the emitted SQL
  wdRaw,     \* psql's transcript
  wdBase,    \* wikidata_h2h_baseline.json
  wdGraded,  \* wikidata_h2h_graded.json
  headline,  \* history: the last report's comparison
  links,     \* the table of links
  pinned     \* the "pinned" part of the all-Postgres metrics

tvars == <<slice, wdVersion, wdOracle, wdScript, wdRaw, wdBase, wdGraded,
           headline, links, pinned>>

-----------------------------------------------------------------------------
(* The slice.                                                              *)

\* load_dense_map: an entity is its place among the first occurrences.
DenseToQid(shards) ==
  FoldLeft(LAMBDA ids, q : IF q \in ToSet(ids) THEN ids ELSE Append(ids, q),
           << >>, shards.entities)

\* _load_all.  load_typed_adj and iter_kept_edges keep the lines with both ends
\* in the slice, duplicates too; load_types keeps the types in the slice.
LoadAll(shards) ==
  LET qids == DenseToQid(shards)
      dense(qid) == (CHOOSE i \in DOMAIN qids : qids[i] = qid) - 1
      kept == SelectSeq(shards.edges, LAMBDA e : {e[1], e[3]} \subseteq ToSet(qids))
  IN  [edges |-> [i \in DOMAIN kept |-> <<dense(kept[i][1]), kept[i][2], dense(kept[i][3])>>],
       types |-> [e \in 0..(Len(qids) - 1) |->
                    IF qids[e + 1] \notin DOMAIN shards.claims THEN {}
                    ELSE {dense(t) : t \in shards.claims[qids[e + 1]] \cap ToSet(qids)}]]

Entities  == DOMAIN slice.types
KeptEdges == slice.edges
Types(e)  == slice.types[e]

Successors(from, p) == {e[3] : e \in {f \in ToSet(KeptEdges) : f[1] \in from /\ f[2] = p}}

-----------------------------------------------------------------------------
(* oracle.                                                                 *)

\* Mutant: a cycle puts the anchor in its own reach.
FoundWithAnchor(x, dsts) == dsts

\* What a step of the search adds to the answer: never the anchor.
Found(x, dsts) == dsts \ {x}

\* typed_reach: each vertex is expanded once, at its depth.
TypedReach(x, p, hops) ==
  LET level[h \in 0..hops] ==
        IF h = 0 THEN [seen |-> {}, visited |-> {x}, frontier |-> {x}]
        ELSE LET l == level[h - 1]
                 dsts == Successors(l.frontier, p)
             IN  [seen |-> l.seen \cup Found(x, dsts),
                  visited |-> l.visited \cup dsts,
                  frontier |-> dsts \ l.visited]
  IN  level[hops].seen

OfType(es, t) == {e \in es : t \in Types(e)}

Candidates(qy, hops) == OfType(TypedReach(qy.x, qy.p, hops), qy.t)

\* sample_queries for one subject: the first property with a type that enough
\* of the reach has, and the first such type.
Askable(x, hops, least) ==
  LET types(p) == {t \in Entities :
                     Cardinality(OfType(TypedReach(x, p, hops), t)) >= least}
      props == {p \in {e[2] : e \in ToSet(KeptEdges)} :
                  Successors({x}, p) # {} /\ types(p) # {}}
  IN  IF props = {} THEN {}
      ELSE {[x |-> x, p |-> Min(props), t |-> Min(types(Min(props)))]}

\* In the order of a permutation of the subjects.
TypedSamples(hops, least) ==
  LET all == UNION {Askable(x, hops, least) : x \in Entities}
      n == Min({TypedQueries, Cardinality(all)})
  IN  {s \in [1..n -> all] : IsInjective(s)}

TInit ==
  /\ \E shards \in Slices : slice = LoadAll(shards)
  /\ wdVersion = 0
  /\ wdOracle = Missing
  /\ wdScript = Missing
  /\ wdRaw = Missing
  /\ wdBase = Missing
  /\ wdGraded = Missing
  /\ headline = Missing
  /\ links = Missing
  /\ pinned = Missing

TypedOracle ==
  /\ wdVersion < MaxVersions
  /\ wdVersion' = wdVersion + 1
  /\ \E hops \in TypedHops, least \in MinCands, n \in TypedK :
     \E qs \in TypedSamples(hops, least) :
       wdOracle' = [version |-> wdVersion', k |-> n, hops |-> hops, queries |-> qs,
                    gold |-> [i \in DOMAIN qs |->
                                Reranked(qs[i].x, Candidates(qs[i], hops), n)]]
  /\ UNCHANGED <<slice, wdScript, wdRaw, wdBase, wdGraded, headline, links, pinned>>

-----------------------------------------------------------------------------
(* The engine's side.                                                      *)

\* emit_tridb_sql: one combo, the oracle's hops.
TypedEmit ==
  /\ wdOracle # Missing
  /\ wdScript' = [version |-> wdOracle.version, k |-> wdOracle.k,
                  hops |-> wdOracle.hops, queries |-> wdOracle.queries]
  /\ UNCHANGED <<slice, wdVersion, wdOracle, wdRaw, wdBase, wdGraded, headline,
                 links, pinned>>

\* gph_traverse_bfs: vertices at a distance of 1 to hops, with the visits.
Native(x, p, hops) ==
  LET level[h \in 0..hops] ==
        IF h = 0 THEN {x} ELSE level[h - 1] \cup Successors(level[h - 1], p)
  IN  [dst |-> level[hops] \ {x}, visits |-> Cardinality(level[hops])]

\* The fused statement: traversal, join, filter, `e.id <> x`, rank.
SqlFused(qy, hops, n) ==
  Reranked(qy.x, OfType(Native(qy.x, qy.p, hops).dst, qy.t) \ {qy.x}, n)

\* psql, which may end after any block; the transcript is replaced.
TypedPsql ==
  /\ wdScript # Missing
  /\ \E n \in 0..Len(wdScript.queries), done \in BOOLEAN :
       /\ done => n = Len(wdScript.queries)
       /\ wdRaw' = [version |-> wdScript.version, done |-> done,
                    blocks |-> [i \in 1..n |->
                      LET qy == wdScript.queries[i] IN
                      [ids |-> SqlFused(qy, wdScript.hops, wdScript.k),
                       examined |-> Native(qy.x, qy.p, wdScript.hops).visits]]]
  /\ UNCHANGED <<slice, wdVersion, wdOracle, wdScript, wdBase, wdGraded, headline,
                 links, pinned>>

-----------------------------------------------------------------------------
(* The three stores.                                                       *)

\* The order of ids as strings of decimal digits (below 100).
StringKey(id) == IF id < 10 THEN 11 * id ELSE 11 * (id \div 10) + 1 + (id % 10)

Limited(ids, frontier) ==
  LET s == SetToSortSeq(ids, LAMBDA a, b : StringKey(a) < StringKey(b))
  IN  ToSet(SubSeq(s, 1, Min({frontier, Len(s)})))

\* neo4j_traverse: ends of trails of p-typed relationships, `b <> a`, DISTINCT.
Neo4jTraverse(qy, hops, frontier) ==
  LET rels == {<<e[1], e[3]>> : e \in {f \in ToSet(KeptEdges) : f[2] = qy.p}}
      ends == {t[Len(t)][2] : t \in {u \in Trails(rels, hops) : u[1][1] = qy.x}}
  IN  Limited(ends \ {qy.x}, frontier)

\* pg_type_filter, then pg_rerank (or the same on the host).
FilteredFirst(qy, cand, n) == Reranked(qy.x, OfType(cand, qy.t), n)

\* run_baseline: written when the sweep is done.
TypedBaseline ==
  /\ wdOracle # Missing
  /\ wdBase' = [version |-> wdOracle.version,
                ids |-> [g \in TypedGrid |-> [i \in DOMAIN wdOracle.queries |->
                  LET qy == wdOracle.queries[i] IN
                  FilteredFirst(qy, Neo4jTraverse(qy, g.hops, g.frontier), wdOracle.k)]]]
  /\ UNCHANGED <<slice, wdVersion, wdOracle, wdScript, wdRaw, wdGraded, headline,
                 links, pinned>>

-----------------------------------------------------------------------------
(* grade and report.  Answers meet the oracle by the question's number, so *)
(* a file made before the oracle was sampled again is graded against other *)
(* questions.                                                              *)

GradedAnswers(ids) ==
  LET of == DOMAIN ids \cap DOMAIN wdOracle.gold IN
  [queries |-> of,
   recall |-> Mean([i \in of |-> Recall(ids[i], wdOracle.gold[i], wdOracle.k)])]

\* A transcript or a baseline that is not given leaves an empty curve.
Grade ==
  /\ wdOracle # Missing
  /\ Len(wdOracle.gold) > 0
  /\ wdRaw # Missing /\ wdRaw.done /\ Len(wdRaw.blocks) > 0
  /\ wdBase # Missing
  /\ wdGraded' =
       [fused |-> GradedAnswers([i \in DOMAIN wdRaw.blocks |-> wdRaw.blocks[i].ids])
                  @@ [examined |-> Median([i \in DOMAIN wdRaw.blocks \cap DOMAIN wdOracle.gold
                                             |-> wdRaw.blocks[i].examined])],
        baseline |-> [g \in {h \in TypedGrid : DOMAIN wdBase.ids[h] # {}} |->
                        GradedAnswers(wdBase.ids[g])],
        fresh |-> {wdRaw.version, wdBase.version} = {wdOracle.version}]
  /\ UNCHANGED <<slice, wdVersion, wdOracle, wdScript, wdRaw, wdBase, headline,
                 links, pinned>>

\* render_report: wiki_h2h's operating_point and publication_gate.
TypedReport ==
  /\ wdGraded # Missing
  /\ LET ok == {g \in DOMAIN wdGraded.baseline :
                  wdGraded.baseline[g].recall >= TypedTarget}
         fused == wdGraded.fused IN
     \E declared \in BOOLEAN, bp \in IF ok = {} THEN {Missing} ELSE ok :
       headline' =
         /\ declared
         /\ fused.recall >= TypedTarget
         /\ bp # Missing
         /\ Away(fused.recall, wdGraded.baseline[bp].recall) <= Eps
         /\ fused.examined \in 1..(TypedCap - 1)
  /\ UNCHANGED <<slice, wdVersion, wdOracle, wdScript, wdRaw, wdBase, wdGraded,
                 links, pinned>>

-----------------------------------------------------------------------------
(* One Postgres.                                                           *)

\* load-links: every statement commits by itself; a COPY that does not end, or
\* an index that is not built, leaves the table behind.
LinksCreate(force) ==
  /\ links # Missing => force
  /\ links' = [rows |-> << >>, at |-> "copy"]
  /\ UNCHANGED <<slice, wdVersion, wdOracle, wdScript, wdRaw, wdBase, wdGraded,
                 headline, pinned>>

LinksCopy ==
  /\ links # Missing /\ links.at = "copy"
  /\ links' = [rows |-> KeptEdges, at |-> "gate"]
  /\ UNCHANGED <<slice, wdVersion, wdOracle, wdScript, wdRaw, wdBase, wdGraded,
                 headline, pinned>>

\* links = native = staged = EXPECTED_EDGES; a failed gate drops nothing.
LinksGate ==
  /\ links # Missing /\ links.at = "gate"
  /\ links' = [links EXCEPT !.at = IF Len(links.rows) = ExpectedEdges
                                   THEN "passed" ELSE "failed"]
  /\ UNCHANGED <<slice, wdVersion, wdOracle, wdScript, wdRaw, wdBase, wdGraded,
                 headline, pinned>>

\* The recursive CTE: rows (dst, depth), UNION without duplicates.
CteReach(qy, hops) ==
  LET out(from) == {l[3] : l \in {r \in ToSet(links.rows) : r[1] \in from /\ r[2] = qy.p}}
      reach[d \in 1..hops] ==
        IF d = 1 THEN {<<n, 1>> : n \in out({qy.x})}
        ELSE reach[d - 1] \cup {<<n, d>> : n \in
               out({r[1] : r \in {s \in reach[d - 1] : s[2] = d - 1}})}
  IN  {r[1] : r \in reach[hops]} \ {qy.x}

SqlAllPg(qy, hops, n) == Reranked(qy.x, OfType(CteReach(qy, hops), qy.t), n)

\* cmd_run: for each question the parity of the reaches, both answers and
\* their recalls; the summary is written at the end.
RunPinned ==
  /\ wdOracle # Missing
  /\ links # Missing
  /\ pinned' =
       [version |-> wdOracle.version, gate |-> links.at,
        reachAllEqual |-> \A i \in DOMAIN wdOracle.queries :
          LET qy == wdOracle.queries[i] IN
          Native(qy.x, qy.p, wdOracle.hops).dst = CteReach(qy, wdOracle.hops),
        idsAllEqual |-> \A i \in DOMAIN wdOracle.queries :
          LET qy == wdOracle.queries[i] IN
          SqlFused(qy, wdOracle.hops, wdOracle.k) = SqlAllPg(qy, wdOracle.hops, wdOracle.k),
        recallB |-> {Recall(SqlAllPg(wdOracle.queries[i], wdOracle.hops, wdOracle.k),
                            wdOracle.gold[i], wdOracle.k) : i \in DOMAIN wdOracle.queries}]
  /\ UNCHANGED <<slice, wdVersion, wdOracle, wdScript, wdRaw, wdBase, wdGraded,
                 headline, links>>

StoresNext ==
  \/ TypedOracle
  \/ TypedEmit \/ TypedPsql
  \/ TypedBaseline
  \/ Grade \/ TypedReport

LinksNext ==
  \/ TypedOracle
  \/ \E force \in BOOLEAN : LinksCreate(force)
  \/ LinksCopy \/ LinksGate
  \/ RunPinned

-----------------------------------------------------------------------------
(* Properties.                                                             *)

Fresh(file) == file # Missing /\ wdOracle # Missing /\ file.version = wdOracle.version

\* The four ways to answer are one: with files made from the current oracle,
\* the engine's transcript and the baseline without an effective cap hold the
\* oracle's answers in the oracle's order, on graphs with cycles through the
\* anchor and repeated edges ("33/50 queries missed only [x]").
ExactAgree ==
  /\ Fresh(wdRaw) =>
       \A i \in DOMAIN wdRaw.blocks : wdRaw.blocks[i].ids = wdOracle.gold[i]
  /\ Fresh(wdBase) =>
       \A g \in TypedGrid :
         g.hops = wdOracle.hops /\ g.frontier >= Cardinality(Entities) =>
           wdBase.ids[g] = wdOracle.gold

\* "recall MUST match if the reached sets match": and they match whenever the
\* gate on the links passed.
ReachDecides ==
  pinned # Missing =>
    /\ pinned.gate = "passed" => pinned.reachAllEqual
    /\ pinned.reachAllEqual => pinned.idsAllEqual /\ pinned.recallB \subseteq {Unit}

\* The knobs of the baseline only lose answers.  Within the oracle's hops it
\* returns candidates, and a larger frontier never lowers a question's recall:
\* the cap is applied before the filter and the rank.  (With more hops it can:
\* what is not a candidate displaces the oracle's answers.)
CapOnlyLoses ==
  Fresh(wdBase) =>
    \A i \in DOMAIN wdOracle.queries, g, h \in TypedGrid :
      /\ g.hops <= wdOracle.hops =>
           ToSet(wdBase.ids[g][i]) \subseteq Candidates(wdOracle.queries[i], wdOracle.hops)
      /\ g.hops = h.hops /\ g.hops <= wdOracle.hops /\ g.frontier <= h.frontier =>
           Recall(wdBase.ids[g][i], wdOracle.gold[i], wdOracle.k)
             <= Recall(wdBase.ids[h][i], wdOracle.gold[i], wdOracle.k)
=============================================================================
