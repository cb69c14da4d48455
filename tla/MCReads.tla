------------------------------- MODULE MCReads -------------------------------
(***************************************************************************)
(* The read side: a behaviour is of one call of either form of tjs_open    *)
(* over the traversals, or of one edge scan among writers.                 *)
(***************************************************************************)
EXTENDS FilterFirst, Seedless, GraphScan

CONSTANT s1

VARIABLE form   \* "source", "no source", "scan"

\* One type from any source (gph_neighbors), and any type of one source
\* (gph_traverse_typed).
MCFilters == {[type |-> 1, scope |-> AnyVid], [type |-> AnyType, scope |-> 0]}

None == <<>>

\* What the other forms keep.
NoSeedless ==
  /\ call = None /\ phase = None /\ reason = None /\ streamed = None /\ buf = None
  /\ seeded = None /\ seeds = None /\ push = None /\ bridges = None
  /\ injected = None /\ fetched = None /\ answer = None

NoTraversal ==
  /\ adj = None /\ args = None /\ listed = None /\ visited = None /\ queue = None
  /\ curScan = None /\ used = None /\ emitted = None /\ state = None
  /\ query = None /\ taken = None /\ outcome = None

NoTopk == topk = None /\ drops = None /\ examined = None

NoReader == ScanInit /\ scan.filter.type = AnyType

MCInit ==
  \/ form = "source" /\ CallInit /\ NoSeedless /\ NoReader
  \/ form = "no source" /\ SeedlessInit /\ NoTraversal /\ NoReader
  \/ form = "scan" /\ ScanInit /\ NoSeedless /\ NoTraversal /\ NoTopk

Sourced ==
  /\ form = "source"
  /\ CallNext
  /\ UNCHANGED <<form, scanVars, call, phase, reason, streamed, buf, seeded, seeds,
                 push, bridges, injected, fetched, answer>>

Streamed ==
  /\ form = "no source"
  /\ SeedlessNext
  /\ UNCHANGED <<form, scanVars, travVars, query, taken, outcome>>

Scanned ==
  /\ form = "scan"
  /\ ScanNext
  /\ UNCHANGED <<form, ffVars, seedlessVars>>

MCSpec == MCInit /\ [][Sourced \/ Streamed \/ Scanned]_<<form, ffVars, seedlessVars, scanVars>>

-----------------------------------------------------------------------------
(* What is checked.                                                        *)

\* The traversals agree: the full one lists the reach, the bounded one emits a
\* prefix of it, its end is what the function says, and the budget bounds its
\* work (gph_traverse_bfs and gph_traverse_bounded, graph_am.c:1834-1939, 2032-2171).
TraversalsAgree ==
  form = "source" => BfsIsReach /\ EmitsPrefix /\ PullIsTraversal /\ BudgetBoundsWork

\* A call with a source says what its answer is: the nearest of what it pulled,
\* exact when no flag is raised, stopped by as many drops as asked for, and
\* stopped then (tjs_open, filter-first, tjs_pg.c:1258-1322).
FilterFirstHonest ==
  form = "source" =>
    HoldsNearest /\ UncensoredIsExact /\ DropsAreConsecutive /\ DroppedStopsWork

\* Membership scoring: the bridges have their share, the vectors theirs, and
\* each bridge is counted once (tjs_pg.c:1876-1986).
SharesAreKept ==
  form = "no source" => BridgesGuaranteed /\ VectorsKeepRoom /\ BridgesCountedOnce

\* What ends a call, and what bounds its work (tjs_pg.c:1453-1464, 1547-1607).
EndIsJustified == form = "no source" => TermCondJustified /\ WorkBounded

\* The censored flag of the graph leg, and the mass it moves (tjs_pg.c:750-810,
\* 883-1047).
ReachIsHonest == form = "no source" => CensoredHonest /\ MassNeverMade

\* The heaps hold the nearest of what was met, and the fused answer is the best
\* of them (tjs_pg.c:407-438, 1786-1848).
BestIsAnswered ==
  form = "no source" => SeedlessTypeOK /\ HeapsHoldNearest /\ BestFusedKept

-----------------------------------------------------------------------------
(* The calls with a source. *)

\* A seed with two ways on, a diamond, a cycle back and a cross edge; vertex 3
\* over both types.
MCEdges(v) ==
  CASE v = 1 -> {[dst |-> 2, type |-> 1], [dst |-> 3, type |-> 1],
                 [dst |-> 3, type |-> 2]}
    [] v = 2 -> {[dst |-> 4, type |-> 2], [dst |-> 1, type |-> 1]}
    [] v = 3 -> {[dst |-> 5, type |-> 2], [dst |-> 2, type |-> 1]}
    [] v = 4 -> {[dst |-> 3, type |-> 2], [dst |-> 5, type |-> 1]}
    [] OTHER -> {}

\* Every order and multiplicity of at most two of those edges, of one at 4.
MCAdjacencies ==
  LET lists(v, max) == UNION {[1..n -> MCEdges(v)] : n \in 0..max}
  IN  {[v \in Vertices |-> CASE v = 1 -> l1 [] v = 2 -> l2 [] v = 3 -> l3
                             [] v = 4 -> l4 [] OTHER -> <<>>] :
         l1 \in lists(1, 2), l2 \in lists(2, 2), l3 \in lists(3, 2),
         l4 \in lists(4, 1)}

\* Heaps of one, two and three, with and without term_cond; near vertices
\* come early, or late, or tie; the filter may reject one.
Late == [v \in Vertices |-> IF v = 5 THEN 0 ELSE v]
Desc == [v \in Vertices |-> 5 - v]
Tied == [v \in Vertices |-> IF v = 3 THEN 1 ELSE 2]

MCQueries ==
  {[k |-> 3, term |-> 0, dist |-> Desc, passes |-> Vertices],
   [k |-> 2, term |-> 0, dist |-> Tied, passes |-> Vertices \ {2}],
   [k |-> 1, term |-> 1, dist |-> Tied, passes |-> Vertices],
   [k |-> 1, term |-> 2, dist |-> Late, passes |-> Vertices]}
-----------------------------------------------------------------------------
(* The calls without. *)

MCWindow == <<2, 3>>

Edge(v) == [dst |-> v, type |-> 1]

\* Stores over a near seed 1, a farther one 2 and a far vertex 4: a path out
\* and back, two ways to one vertex with a double edge, a hub, and a vertex
\* without a row.
Stores ==
  {[v \in Vertices |-> CASE v = 1 -> <<Edge(4)>> [] v = 4 -> <<Edge(3), Edge(1)>>
                         [] v = 2 -> <<Edge(5)>> [] OTHER -> <<>>],
   [v \in Vertices |-> CASE v = 1 -> <<Edge(2), Edge(3), Edge(3)>>
                         [] v = 2 -> <<Edge(4), Edge(1)>>
                         [] v = 3 -> <<Edge(4)>> [] OTHER -> <<>>],
   [v \in Vertices |-> CASE v = 1 -> <<Edge(5), Edge(4), Edge(3)>>
                         [] v = 5 -> <<Edge(2)>> [] OTHER -> <<>>]}

Distances == {<<0, 1, 3, 7, 0>>, <<1, 1, 1, 3, 0>>}

MCCalls ==
  {[g |-> g, dist |-> d, rows |-> 1..4, passes |-> p, k |-> k, term |-> t,
    m |-> m, hops |-> 2, type |-> EdgeTypeAny, scanBudget |-> s, workBudget |-> w,
    scoring |-> sc] :
     g \in Stores, d \in Distances, p \in {1..4, {1, 2, 4}}, k \in {1, 2},
     t \in 0..2, m \in 0..2, s \in {0, 3}, w \in {2, 9},
     sc \in {"membership", "ppr"}}

=============================================================================
