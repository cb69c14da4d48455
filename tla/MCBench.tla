------------------------------ MODULE MCBench -------------------------------
(***************************************************************************)
(* The benchmarks: a behaviour is of the head-to-head on Wikipedia, of the *)
(* sweep and race of the fusion benchmark, of the typed head-to-head or    *)
(* its all-Postgres baseline, or of the reference of the joint operator.   *)
(***************************************************************************)
EXTENDS TypedHeadToHead, FusionSweep, TLC

CONSTANTS
  Paragraphs, EdgeLists, Questions, RefKs, K5, MSeeds, VecLimit, AlphaDiv, RmaxSweep,
  TermSweep

VARIABLES
  part,
  refAdj, refK, job, stage, push, streams, merge, answer, curve, five

Ref == INSTANCE TjsReference WITH Ks <- RefKs, adj <- refAdj, k <- refK

refVars == <<refAdj, refK, job, stage, push, streams, merge, answer, curve, five>>

-----------------------------------------------------------------------------
(* Wikipedia: three articles and a gap, two questions.  Edges lead to the  *)
(* gap, none starts there.  It is nearer to article 2 than the others are, *)
(* and the second graph brings it into answers of one seed.                *)

MCPlace == 0 :> 0 @@ 1 :> 1 @@ 2 :> 5 @@ 3 :> 0
Ring == {<<0, 1>>, <<1, 2>>, <<2, 0>>, <<0, 0>>, <<1, 3>>}
MCGraphs == {Ring, {<<1, 2>>, <<2, 1>>, <<1, 3>>, <<0, 3>>}}
MCKnobs == {[m |-> 1, hops |-> 2], [m |-> 2, hops |-> 1]}
MCGrid == <<[m |-> 1, hops |-> 2]>>

MCSweepQueries == <<0, 2>>
MCHops == <<1, 2>>
MCSteps == <<90, 75, 50>>

-----------------------------------------------------------------------------
(* Wikidata.  Entity 32 is a type; 39 is not in the slice; a line is       *)
(* repeated.                                                               *)

Doubled ==
  [entities |-> <<31, 30, 33, 30, 32>>,
   edges |-> << <<31, 1, 30>>, <<30, 1, 31>>, <<30, 1, 33>>, <<31, 1, 30>>,
                <<31, 1, 39>>, <<33, 1, 32>>, <<31, 2, 32>> >>,
   claims |-> 31 :> {32} @@ 30 :> {32, 39} @@ 33 :> {32}]
Cycle ==
  [entities |-> <<30, 31, 32, 33>>,
   edges |-> << <<30, 1, 33>>, <<33, 1, 31>>, <<31, 1, 30>>, <<33, 1, 32>>,
                <<30, 1, 30>> >>,
   claims |-> 33 :> {32} @@ 31 :> {32, 30} @@ 30 :> {30}]
MCSlices == {Doubled, Cycle}
MCTypedGrid == {[hops |-> 1, frontier |-> 4], [hops |-> 2, frontier |-> 1],
                [hops |-> 2, frontier |-> 2], [hops |-> 2, frontier |-> 4]}

-----------------------------------------------------------------------------
(* The reference: graphs over four paragraphs.                             *)

MCPairs == {<<0, 1>>, <<1, 2>>, <<2, 3>>, <<3, 0>>, <<1, 3>>}
MCEdges == {e \cup {<<2, 2>>, <<0, 9>>} : e \in SUBSET MCPairs}
MCQuestions ==
  << [dist |-> (0 :> 1 @@ 1 :> 2 @@ 2 :> 5 @@ 3 :> 9), gold |-> {1, 2}],
     [dist |-> (0 :> 6 @@ 1 :> 3 @@ 2 :> 3 @@ 3 :> 1), gold |-> {0}] >>
MCRmax == <<40, 12, 4>>
MCTerm == <<1, 2>>

-----------------------------------------------------------------------------

MCInit ==
  /\ part \in {"wiki", "fusion", "stores", "links", "reference"}
  /\ HInit /\ FInit /\ TInit /\ Ref!RefInit
  /\ part \notin {"wiki", "fusion"} => adj = Induced(Ring)
  /\ part \notin {"stores", "links"} => slice = LoadAll(Cycle)
  /\ part # "reference" => refK = 1 /\ refAdj = Ref!BuildAdjacency({})

WikiStep == part = "wiki" /\ HNext /\ UNCHANGED <<fvars, tvars, refVars, part>>
FusionStep == part = "fusion" /\ FNext /\ UNCHANGED <<hvars, tvars, refVars, part>>
StoresStep == part = "stores" /\ StoresNext /\ UNCHANGED <<hvars, fvars, refVars, part>>
LinksStep == part = "links" /\ LinksNext /\ UNCHANGED <<hvars, fvars, refVars, part>>
ReferenceStep ==
  part = "reference" /\ Ref!RefNext /\ UNCHANGED <<hvars, fvars, tvars, part>>

MCSpec ==
  MCInit /\ [][WikiStep \/ FusionStep \/ StoresStep \/ LinksStep \/ ReferenceStep]_
                <<hvars, fvars, tvars, refVars, part>>

-----------------------------------------------------------------------------
(* What is checked.                                                        *)

\* The reference is what it refers to: its push leaves no residue it should
\* have moved, its merge stops with a top k of the whole streams, and its oracle
\* at k5 = m_seeds is the vector search alone (bench/tjs_open_ref.py).
ReferenceIsExact ==
  part = "reference" => Ref!PushLeavesLittle /\ Ref!MergeIsExact /\ Ref!OracleIsVectorOnly

\* A headline counts of each side every question that it and the oracle share,
\* and the exact baseline misses of the oracle's answers the gaps alone
\* (bench/wiki_h2h.py).
HeadlineIsExact == part = "wiki" => HeadlineIsWhole /\ ExactMeetsOracle

\* The four ways to answer the typed question are one, equal reach is equal
\* recall, and the baseline's knobs only lose answers (bench/wikidata_h2h.py,
\* bench/wd_allpg_baseline.py).
TypedAnswersAgree ==
  part \in {"stores", "links"} => ExactAgree /\ ReachDecides /\ CapOnlyLoses

=============================================================================
