----------------------------- MODULE MCCorpora ------------------------------
(***************************************************************************)
(* The tools around the engine: a behaviour is of the Wikipedia corpus,    *)
(* from the dump to the loaded stores, of the Wikidata slice, or of a      *)
(* recorded window of edits and its replay.                                *)
(***************************************************************************)
EXTENDS MCWiki, CrossStore

CONSTANTS
  TypeProp, LiteralProps, WdDumps, Langs, WdLimits, BatchSizes, Specs, NoData, Tables,
  EmbedBatch, Absent, WdRuns, WdKills

VARIABLES
  part,   \* "wiki", "wikidata", "replay"
  tool, dump, sidecar, slice, asked, wdRuns, wdKills, wdEmb, wdEngine, engineOut,
  stores, baseOut

WD == INSTANCE WikidataLoad WITH
  Dumps <- WdDumps, Limits <- WdLimits, MaxRuns <- WdRuns, MaxKills <- WdKills,
  runs <- wdRuns, kills <- wdKills, emb <- wdEmb, engine <- wdEngine

-----------------------------------------------------------------------------
(* Wikidata.                                                               *)

St(rank, kind, value) == [rank |-> rank, kind |-> kind, value |-> value]
Item(q, texts, claims) == [type |-> "item", q |-> q, texts |-> texts, claims |-> claims]

NoEntity == [type |-> "noise", q |-> 0, texts |-> {}, claims |-> <<>>]

\* A line that is no entity, an entity twice, one with no text, a property
\* entity, a deprecated statement beside a normal one, targets that are not in
\* the dump, a key that is no property.
Old ==
  << NoEntity,
     Item(3, {"en", "de"}, 31 :> <<St(1, "item", 5), St(0, "item", 4)>>
                             @@ 7 :> <<St(1, "item", 4), St(1, "item", 9), St(1, "item", 4)>>),
     Item(4, {"de"}, 31 :> <<St(0, "item", 5)>> @@ 0 :> <<St(1, "item", 3)>>),
     [type |-> "property", q |-> 0, texts |-> {"en"}, claims |-> 31 :> <<St(1, "item", 3)>>],
     Item(5, {"en"}, 7 :> <<St(2, "item", 6), St(1, "item", 3)>>
                     @@ 31 :> <<St(1, "unknown", 0), St(1, "item", 3)>>
                     @@ 8 :> <<St(1, "literal", "x"), St(0, "literal", "y")>>),
     Item(3, {"en"}, 7 :> <<St(1, "item", 5), St(1, "item", 6)>>),
     Item(6, {"en"}, 7 :> <<St(1, "item", 3)>>) >>

New == << Item(5, {"en"}, 7 :> <<St(1, "item", 2)>>),
          Item(2, {"en", "de"}, 31 :> <<St(1, "item", 5)>> @@ 7 :> <<St(1, "item", 5)>>),
          NoEntity >>

MCWdDumps == {Old, New}
MCSpecs == { [seeds |-> <<3>>, target |-> 4, limit |-> 0],
             [seeds |-> <<5>>, target |-> 0, limit |-> 3],
             [seeds |-> <<>>, target |-> 0, limit |-> 3] }
MCWdLimits == {0, 3}

-----------------------------------------------------------------------------
(* Edits.                                                                  *)

Edit(q, rev) ==
  [wiki |-> "wikidatawiki", namespace |-> 0, type |-> "edit", entity |-> q, rev |-> rev]

\* Edits of two items, an edit elsewhere and an event that is no edit.
MCFeed ==
  << Edit(1, 11), [Edit(2, 7) EXCEPT !.wiki = "enwiki"], Edit(2, 12),
     [Edit(2, 9) EXCEPT !.type = "log"], Edit(1, 13) >>

MCDraws == {<<1, 2, 1>>}

\* The simulation of a replay (bench/wiki_consistency.py), for every window that
\* up to four draws of two entities make.
ASSUME SimulationAssumption ==
  \A n \in 1..4 : \A draw \in [1..n -> 1..2] : SimulationTears(SyntheticEdits(draw))

-----------------------------------------------------------------------------

wikiVars == <<htmlVars, embedVars, overlay, loadVars>>
wdVars ==
  <<tool, dump, sidecar, slice, asked, wdRuns, wdKills, wdEmb, wdEngine, engineOut,
    stores, baseOut>>
editVars == <<recorderVars, crossVars>>

MCInit ==
  /\ part \in {"wiki", "wikidata", "replay"}
  /\ WikiInit /\ WD!Init /\ Init
  /\ part # "wikidata" => dump = Old

WikiStep == part = "wiki" /\ WikiNext /\ UNCHANGED <<wdVars, editVars, part>>
WikidataStep == part = "wikidata" /\ WD!Next /\ UNCHANGED <<wikiVars, editVars, part>>
EditStep == part = "replay" /\ Next /\ UNCHANGED <<wikiVars, wdVars, part>>

MCSpec ==
  MCInit /\ [][WikiStep \/ WikidataStep \/ EditStep]_<<wikiVars, wdVars, editVars, part>>

-----------------------------------------------------------------------------
(* What is checked.                                                        *)

\* The Wikipedia corpus is its source, and the files its manifest lists are
\* there, whatever was killed and resumed (tools/wiki_extract.py,
\* tools/wiki_extract_html.py).
WikiCorpusIsWhole == part = "wiki" => CorpusIsWhole /\ ListedShardsHold

\* A checkpoint that calls itself complete is aligned with the corpus, whichever
\* workers wrote it, unless the creation of another began over it; what a cut
\* creation left is never completed unaligned (tools/wiki_embed_hybrid.py).
WikiCompleteIsAligned == part = "wiki" => CompleteIsAligned

\* The overlay and the loaded stores are the corpus (tools/wiki_enrich_batch.py,
\* tools/wiki_engine_load.py, tools/wiki_neo4j_load.py).
WikiLoadsAreTheCorpus == part = "wiki" => SuggestionsAreTheGaps /\ LoadsAreTheCorpus

\* A finished slice is the dump's, and every vector loaded stands in its entity's
\* row (tools/wikidata_ingest.py, tools/wikidata_embed.py).
SliceIsAligned == part = "wikidata" => WD!CorpusIsPure /\ WD!VectorsAligned

\* No step reports a complete load of anything but the slice
\* (tools/wikidata_engine_load.py, tools/wikidata_baseline_load.py).
CompleteIsTheSlice == WD!CompleteIsTheSlice

=============================================================================
