------------------------------ MODULE WikiLoad ------------------------------
(***************************************************************************)
(* What is made of a corpus: the overlay of the facts in its infoboxes and *)
(* the attributes that are missing (tools/wiki_enrich_batch.py: a shard is *)
(* read in one transaction, which also marks it); the files and the script *)
(* that load the engine (tools/wiki_engine_load.py); and the batches merged*)
(* into a graph database, with the reconciliation of the counts            *)
(* (tools/wiki_neo4j_load.py).                                             *)
(***************************************************************************)
EXTENDS WikiEmbed

CONSTANTS
  Reciprocal,  \* _RECIPROCAL_PROPS
  LoadLimits,  \* --limit, 0 for all
  BatchSize    \* --batch-size

VARIABLES
  overlay,     \* [facts, titles, links, done, suggestions], and whether it runs
  engine,      \* what was prepared for the engine, or loaded into it
  neo          \* the graph database, and the loader that fills it

-----------------------------------------------------------------------------
(* The overlay.                                                            *)

NoOverlay == [facts |-> <<>>, titles |-> {}, links |-> {}, done |-> {}, suggestions |-> {},
              phaseB |-> FALSE, up |-> FALSE]

EnrichInit == overlay = NoOverlay

EnrichBegin ==
  /\ Gate /\ ~overlay.up /\ ~launcher.up /\ runs < MaxRuns
  /\ overlay' = [overlay EXCEPT !.up = TRUE]
  /\ runs' = runs + 1
  /\ UNCHANGED <<dir, manifest, proc, job, kills, work, embedVars>>

ToDo == DOMAIN dir.articles \ overlay.done

\* The rows of the three tables for one article.
FactsOf(row) ==
  LET facts == ParseInfoboxFacts(row.body) IN
  [i \in DOMAIN facts |-> [subject |-> row.id, prop |-> facts[i].prop, value |-> facts[i].value]]
LinksOf(row) ==
  LET facts == ParseInfoboxFacts(row.body) IN
  UNION {{[target |-> Key[t], prop |-> facts[i].prop, source |-> row.id] :
            t \in {facts[i].links[j] : j \in DOMAIN facts[i].links}} :
          i \in {j \in DOMAIN facts : facts[j].prop \in Reciprocal}}

\* process_shard: what an earlier attempt left is deleted first; a title takes the
\* place of one with its id.
ProcessShard ==
  /\ overlay.up /\ ToDo # {}
  /\ LET shard == CHOOSE s \in ToDo : \A t \in ToDo : s <= t
         rows  == dir.articles[shard]
         facts == FlattenSeq([j \in DOMAIN rows |-> FactsOf(rows[j])])
         new   == {[id |-> rows[i].id, title |-> rows[i].title, shard |-> shard] : i \in DOMAIN rows}
     IN overlay' = [overlay EXCEPT
          !.facts = SelectSeq(@, LAMBDA f : f.shard # shard)
                      \o [i \in DOMAIN facts |-> [shard |-> shard] @@ facts[i]],
          !.titles = {t \in @ : t.shard # shard /\ \A n \in new : n.id # t.id} \cup new,
          !.links = {l \in @ : l.shard # shard}
                      \cup {[shard |-> shard] @@ l : l \in UNION {LinksOf(rows[i]) : i \in DOMAIN rows}},
          !.done = @ \cup {shard}]
  /\ UNCHANGED <<htmlVars, embedVars>>

\* The subject's infobox lacks the property.
Gap(subject, prop) ==
  ~ \E i \in DOMAIN overlay.facts : overlay.facts[i].subject = subject /\ overlay.facts[i].prop = prop

\* build_suggestions, in one transaction: all of them again.
BuildSuggestions ==
  /\ overlay.up /\ ToDo = {}
  /\ overlay' = [overlay EXCEPT !.up = FALSE, !.phaseB = TRUE,
       !.suggestions =
         {[subject |-> a.id, prop |-> l.prop, value |-> b.title, source |-> l.source] :
            <<l, a, b>> \in {x \in overlay.links \X overlay.titles \X overlay.titles :
               /\ Key[x[2].title] = x[1].target
               /\ x[3].id = x[1].source
               /\ x[2].id # x[1].source
               /\ Gap(x[2].id, x[1].prop)}}]
  /\ UNCHANGED <<htmlVars, embedVars>>

KillEnrich ==
  /\ overlay.up /\ kills < MaxKills
  /\ kills' = kills + 1
  /\ overlay' = [overlay EXCEPT !.up = FALSE]
  /\ UNCHANGED <<dir, manifest, proc, job, runs, work, embedVars>>

EnrichNext == EnrichBegin \/ ProcessShard \/ BuildSuggestions \/ KillEnrich

\* The articles of the corpus that state a property of themselves.
States(row, prop) == \E i \in DOMAIN FactsOf(row) : FactsOf(row)[i].prop = prop

\* Once a batch has ended, the overlay has each fact of the corpus as often as the
\* corpus states it, and it suggests exactly the reciprocal of each relation that
\* one article states of another which does not state that relation itself
\* (tools/wiki_enrich_batch.py: "a crash mid-shard is idempotent").
SuggestionsAreTheGaps ==
  Gate /\ ~overlay.up /\ overlay.phaseB /\ ToDo = {} =>
    LET rows == {CorpusRows[i] : i \in 1..NRows} IN
    /\ Len(overlay.facts) = FoldLeft(LAMBDA n, r : n + Len(FactsOf(r)), 0, CorpusRows)
    /\ {[subject |-> s.subject, prop |-> s.prop, source |-> s.source] : s \in overlay.suggestions} =
         {[subject |-> x[1].id, prop |-> x[2], source |-> x[3].id] :
            x \in {y \in rows \X Reciprocal \X rows :
                     /\ y[1].id # y[3].id
                     /\ \E l \in LinksOf(y[3]) : l.prop = y[2] /\ l.target = Key[y[1].title]
                     /\ \A r \in rows : r.id = y[1].id => ~States(r, y[2])}}

-----------------------------------------------------------------------------
(* The loaders.                                                            *)

loadVars == <<engine, neo>>

NoEngine == [at |-> "empty"]
NoNeo == [nodes |-> {}, rels |-> {}, at |-> "idle", pos |-> 0, limit |-> 0, code |-> 1]

LoadInit == engine = NoEngine /\ neo = NoNeo

Idle == proc = Quiet /\ ~launcher.up /\ ~overlay.up /\ neo.at = "idle"

\* The files that the manifest lists, each once.
Shards(k) ==
  FoldLeft(LAMBDA s, f : IF \E i \in DOMAIN s : s[i] = f.shard THEN s ELSE Append(s, f.shard),
           <<>>, manifest.files[k])
RowsOf(shards, k) == FlattenSeq([i \in DOMAIN shards |-> dir[k][shards[i]]])
FirstOf(n, s) == SubSeq(s, 1, IF n < Len(s) THEN n ELSE Len(s))

\* prepare: the articles below the limit, as many as it says.
Prepared(n) ==
  FirstOf(n, SelectSeq(RowsOf(Shards("articles"), "articles"), LAMBDA r : r.id < n))

\* How many articles a shard is taken to hold.
ShardRows == IF manifest.job.tool = "extract" THEN ShardSize ELSE manifest.files.articles[1].rows

\* The edge files that are read for n articles; or one less.
EdgeShards(n) == FirstOf((n - 1) \div ShardRows + 1, Shards("edges"))
EdgeShardsShort(n) == FirstOf((n - 1) \div ShardRows, Shards("edges"))

InducedFiles(n) == EdgeShards(n)

\* The induced edges: both ends below the limit.
Induced(n) ==
  SelectSeq(RowsOf(InducedFiles(n), "edges"), LAMBDA e : e[1] < n /\ e[2] < n)

\* prepare: a load of everything must be what the manifest counts.
Prepare ==
  /\ Idle /\ manifest # NoManifest /\ runs < MaxRuns
  /\ manifest.counts.articles > 0 /\ ShardRows > 0
  /\ runs' = runs + 1
  /\ \E limit \in LoadLimits :
       LET total    == manifest.counts.articles
           n        == IF limit # 0 /\ limit < total THEN limit ELSE total
           articles == Prepared(n)
           edges    == Induced(Len(articles))
       IN engine' =
            IF limit = 0 /\ (Len(articles) # total \/ Len(edges) # manifest.counts.edges)
            THEN NoEngine
            ELSE [at |-> "prepared", job |-> manifest.job, limit |-> limit, asked |-> n,
                  articles |-> articles, edges |-> edges]
  /\ UNCHANGED <<dir, manifest, proc, job, kills, work, embedVars, overlay, neo>>

\* The script on an empty engine: the key of the articles is their id, the
\* vertices are as many as the highest id asks for, and the counts are asserted.
RunScript ==
  /\ engine.at = "prepared"
  /\ LET ids == {engine.articles[i].id : i \in DOMAIN engine.articles}
         top == IF ids = {} THEN 0 ELSE 1 + CHOOSE i \in ids : \A j \in ids : j <= i
     IN engine' = IF Cardinality(ids) = Len(engine.articles)
                  THEN [at |-> "complete", job |-> engine.job, limit |-> engine.limit,
                        asked |-> engine.asked, articles |-> ids, vertices |-> top,
                        edges |-> {engine.edges[i] : i \in DOMAIN engine.edges}]
                  ELSE NoEngine
  /\ UNCHANGED <<htmlVars, embedVars, overlay, neo>>

-----------------------------------------------------------------------------
(* tools/wiki_neo4j_load.py *)

Capped(s) == IF neo.limit = 0 THEN s ELSE FirstOf(neo.limit, s)
Listing(k) == RowsOf([i \in DOMAIN manifest.files[k] |-> manifest.files[k][i].shard], k)

NeoBegin ==
  /\ Idle /\ manifest # NoManifest /\ runs < MaxRuns
  /\ \E limit \in LoadLimits :
       neo' = [neo EXCEPT !.at = "nodes", !.pos = 0, !.limit = limit, !.code = 1]
  /\ runs' = runs + 1
  /\ UNCHANGED <<dir, manifest, proc, job, kills, work, embedVars, overlay, engine>>

Batch(s) == SubSeq(s, neo.pos + 1, IF neo.pos + BatchSize < Len(s) THEN neo.pos + BatchSize ELSE Len(s))

\* MERGE adds what is not there; a relationship needs both of its ends.
MergeNodes ==
  /\ neo.at = "nodes"
  /\ LET all == Capped(Listing("articles")) IN
     IF neo.pos >= Len(all) THEN neo' = [neo EXCEPT !.at = "edges", !.pos = 0]
     ELSE neo' = [neo EXCEPT !.pos = @ + BatchSize,
                    !.nodes = @ \cup {Batch(all)[i].id : i \in DOMAIN Batch(all)}]
  /\ UNCHANGED <<htmlVars, embedVars, overlay, engine>>

MergeEdges ==
  /\ neo.at = "edges" /\ neo.pos < Len(Capped(Listing("edges")))
  /\ LET batch == Batch(Capped(Listing("edges"))) IN
     neo' = [neo EXCEPT !.pos = @ + BatchSize,
               !.rels = @ \cup {e \in {batch[i] : i \in DOMAIN batch} : {e[1], e[2]} \subseteq neo.nodes}]
  /\ UNCHANGED <<htmlVars, embedVars, overlay, engine>>

\* _reconcile: the nodes as many as the manifest counts, the relationships no more
\* than the rows that were read.
Reconcile ==
  /\ neo.at = "edges" /\ neo.pos >= Len(Capped(Listing("edges")))
  /\ neo' = [neo EXCEPT !.at = "idle",
               !.code = IF neo.limit = 0
                          /\ (Cardinality(neo.nodes) # manifest.counts.articles
                                \/ Cardinality(neo.rels) > Len(Listing("edges")))
                        THEN 1 ELSE 0]
  /\ UNCHANGED <<htmlVars, embedVars, overlay, engine>>

KillNeo ==
  /\ neo.at # "idle" /\ kills < MaxKills
  /\ kills' = kills + 1
  /\ neo' = [neo EXCEPT !.at = "idle"]
  /\ UNCHANGED <<dir, manifest, proc, job, runs, work, embedVars, overlay, engine>>

-----------------------------------------------------------------------------

WikiInit == HtmlInit /\ EmbedInit /\ EnrichInit /\ LoadInit

\* One tool at a time; the workers that were left behind go on.
WikiNext ==
  \/ /\ ExtractBegin \/ SkipPage \/ WritePage \/ RefuseShard \/ EndExtract \/ KillExtract
     /\ UNCHANGED work
     /\ ~launcher.up /\ ~overlay.up /\ neo.at = "idle"
     /\ UNCHANGED <<embedVars, overlay, loadVars>>
  \/ /\ StartOver /\ Idle /\ EmbedCleared
     /\ overlay' = NoOverlay /\ engine' = NoEngine /\ neo' = NoNeo
  \/ /\ \/ HtmlBegin \/ HtmlFirstPass \/ SkipMember \/ OpenMember \/ HtmlLine
        \/ CloseMember \/ EndHtml \/ KillHtml \/ Rebuild
     /\ ~launcher.up /\ ~overlay.up /\ neo.at = "idle"
     /\ UNCHANGED <<embedVars, overlay, loadVars>>
  \/ EmbedNext /\ ~overlay.up /\ neo.at = "idle" /\ UNCHANGED <<overlay, loadVars>>
  \/ EnrichNext /\ neo.at = "idle" /\ UNCHANGED loadVars
  \/ Prepare \/ RunScript
  \/ NeoBegin \/ MergeNodes \/ MergeEdges \/ Reconcile \/ KillNeo

WikiSpec == WikiInit /\ [][WikiNext]_<<htmlVars, embedVars, overlay, loadVars>>

CorpusEdges == {AllRows("edges")[i] : i \in DOMAIN AllRows("edges")}
CorpusIds == {CorpusRows[i].id : i \in 1..NRows}

\* What the loaders leave behind is the corpus: an engine that was loaded has the
\* articles below its limit and all the edges between them, on vertices that are
\* dense, when the shards are the wikitext extractor's or the load has no limit;
\* a graph database that reconciles has every article and every edge, however
\* many loads of it were killed before
\* (tools/wiki_engine_load.py: "Refusing to emit a silently-truncated corpus").
LoadsAreTheCorpus ==
  /\ engine.at = "complete" /\ Gate /\ manifest.job = engine.job
       /\ (manifest.job.tool = "extract" \/ engine.limit = 0) =>
       /\ engine.articles = {i \in CorpusIds : i < engine.asked}
       /\ engine.vertices = Cardinality(engine.articles)
       /\ engine.edges = {e \in CorpusEdges : e[1] < engine.asked /\ e[2] < engine.asked}
  /\ neo.at = "idle" /\ neo.code = 0 /\ neo.limit = 0 /\ Gate =>
       neo.nodes = CorpusIds /\ neo.rels = CorpusEdges

=============================================================================
