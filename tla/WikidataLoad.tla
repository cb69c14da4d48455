---------------------------- MODULE WikidataLoad ----------------------------
(***************************************************************************)
(* A finished Wikidata slice on its way into the engine and the baseline   *)
(* (tools/wikidata_embed.py, wikidata_engine_load.py,                      *)
(* wikidata_baseline_load.py).  Every statement of the load script commits *)
(* by itself: a statement that fails, or a loader that is killed, leaves   *)
(* what came before it, and the next run meets it.                         *)
(***************************************************************************)
EXTENDS WikidataSidecar

CONSTANTS
  Tables,      \* --table
  EmbedBatch,  \* --batch of the embedder
  Absent       \* a table or a file that does not exist

VARIABLES
  emb,         \* the embeddings: one vector per dense id, Zero, or absent
  engine,      \* tables, vertex map, next vid, edges, edge counter, indexed tables
  engineOut,   \* engine_load_manifest.json
  stores,      \* the three stores of the baseline
  baseOut      \* baseline_load_manifest.json

loadVars == <<emb, engine, engineOut, stores, baseOut>>

Zero == 0
NoOut == [status |-> "none"]
EmptyEngine ==
  [table |-> [t \in Tables |-> Absent], vids |-> <<>>, nextVid |-> 0,
   edges |-> <<>>, counter |-> 0, hnsw |-> {}]
EmptyStores == [pg |-> Absent, nodes |-> <<>>, rels |-> <<>>, milvus |-> Absent]

LoadInit ==
  /\ emb = Absent
  /\ engine = EmptyEngine
  /\ engineOut = NoOut
  /\ stores = EmptyStores
  /\ baseOut = NoOut

-----------------------------------------------------------------------------
(* The slice as its readers see it. *)

\* Dense id d is the d-th entity in the order of emission, its first occurrence.
BuildDenseMap(m) == Distinct(FlattenSeq([i \in DOMAIN m.shards |-> m.shards[i].entities]))

DenseId(dense, q) == (CHOOSE d \in DOMAIN dense : dense[d] = q) - 1

\* The types of an entity that are entities of the slice, by its first claims row.
LoadP31Dense(m, dense) ==
  LET rows == FlattenSeq([i \in DOMAIN m.shards |-> m.shards[i].claims])
      first(q) == rows[SelectInSeq(rows, LAMBDA r : r.id = q)]
  IN [d \in DOMAIN dense |->
        {DenseId(dense, t) : t \in ToSet(first(dense[d]).types) \cap ToSet(dense)}]

\* The edges with both ends in the slice, as dense ids.
IterKeptEdges(m, dense) ==
  LET all  == FlattenSeq([i \in DOMAIN m.shards |-> m.shards[i].edges])
      kept == SelectSeq(all, LAMBDA e : {e[1], e[3]} \subseteq ToSet(dense))
  IN [i \in DOMAIN kept |-> <<DenseId(dense, kept[i][1]), kept[i][2], DenseId(dense, kept[i][3])>>]

TableRows(m, dense) ==
  LET p31 == LoadP31Dense(m, dense) IN
  [d \in DOMAIN dense |-> [id |-> d - 1, qid |-> dense[d], types |-> p31[d], vec |-> emb[d]]]

\* Both loaders refuse an empty slice and embeddings with too few rows.
Loadable(dense) == dense # <<>> /\ emb # Absent /\ Len(emb) >= Len(dense)

-----------------------------------------------------------------------------
(* embed_slice *)

\* The entities of the shards, without dropping a repeated id.
IterEveryEntity(m) == FlattenSeq([i \in DOMAIN m.shards |-> m.shards[i].entities])

\* The entities of the shards in dense order: each id once.
IterDenseEntities(m) == BuildDenseMap(m)

\* The rows are laid out, all zero, before the first is encoded.
EmbedBegin ==
  /\ Operator /\ Whole(slice.manifest)
  /\ LET rows == IterDenseEntities(slice.manifest) IN
     /\ emb' = [d \in DOMAIN rows |-> Zero]
     /\ tool' = [name |-> "embed", rows |-> rows, at |-> 0]
  /\ UNCHANGED <<dump, sidecar, slice, asked, kills, engine, engineOut, stores, baseOut>>

\* One full batch, or what is left, is encoded and written to its own rows.
EmbedFlush ==
  /\ tool.name = "embed"
  /\ LET upto == IF tool.at + EmbedBatch < Len(tool.rows) THEN tool.at + EmbedBatch
                 ELSE Len(tool.rows)
     IN /\ emb' = [d \in DOMAIN emb |-> IF d > tool.at /\ d <= upto THEN tool.rows[d] ELSE emb[d]]
        /\ tool' = IF upto = Len(tool.rows) THEN Idle ELSE [tool EXCEPT !.at = upto]
  /\ UNCHANGED <<dump, sidecar, slice, asked, runs, kills, engine, engineOut, stores, baseOut>>

-----------------------------------------------------------------------------
(* The load script, statement by statement. *)

Phases == <<"prologue", "create", "copy", "vertices", "etypes", "edges", "assert", "hnsw",
            "epilogue", "done">>

After(phase) == Phases[SelectInSeq(Phases, LAMBDA p : p = phase) + 1]

\* iter_load_sql: the script of a slice.
EngineBegin ==
  /\ Operator /\ Whole(slice.manifest)
  /\ LET m == slice.manifest  dense == BuildDenseMap(m) IN
     /\ Loadable(dense)
     /\ \E table \in Tables, force \in BOOLEAN :
          tool' = [name |-> "engine", at |-> "prologue", table |-> table, force |-> force,
                   rows |-> TableRows(m, dense), edges |-> IterKeptEdges(m, dense), marks |-> <<>>]
  /\ UNCHANGED <<dump, sidecar, slice, asked, kills, loadVars>>

\* --force drops the table and the extension with all that it holds.
SqlPrologue ==
  IF tool.force
  THEN [engine EXCEPT !.table[tool.table] = Absent, !.hnsw = @ \ {tool.table},
                      !.vids = <<>>, !.nextVid = 0, !.edges = <<>>, !.counter = 0]
  ELSE engine

\* gph_upsert_vertex: the vid of a known id, or the next one.
Upsert(eng, q) ==
  IF q \in DOMAIN eng.vids THEN eng
  ELSE [eng EXCEPT !.vids = @ @@ (q :> eng.nextVid), !.nextVid = @ + 1]

\* Every entity in the order of its id must get its id for a vid.
VertexVerify ==
  LET t   == engine.table[tool.table]
      eng == FoldLeft(LAMBDA e, r : Upsert(e, r.qid), engine, t)
  IN [ok  |-> Len(t) = Len(tool.rows) /\ \A d \in DOMAIN t : eng.vids[t[d].qid] = t[d].id,
      eng |-> eng]

\* Grouped by source and type, the targets of a group in ascending order.
Groups(edges) ==
  SortSeq(edges, LAMBDA e, f : \/ e[1] < f[1]
                               \/ e[1] = f[1] /\ e[2] < f[2]
                               \/ e[1] = f[1] /\ e[2] = f[2] /\ e[3] < f[3])

SqlEdgeInsert ==
  [engine EXCEPT !.edges = @ \o Groups(tool.edges), !.counter = @ + Len(tool.edges)]

\* The counts compared with what this script put in alone.
CountsAgreeStaged == Cardinality(DOMAIN engine.vids) = Len(tool.rows)

\* The counts of the whole store, against what this script put in.
CountsAgree ==
  engine.counter = Len(tool.edges) /\ Cardinality(DOMAIN engine.vids) = Len(tool.rows)

\* What the script checks in a statement, beyond running it.
Checks ==
  CASE tool.at = "create"   -> engine.table[tool.table] = Absent
    [] tool.at = "vertices" -> VertexVerify.ok
    [] tool.at = "assert"   -> CountsAgree
    [] OTHER                -> TRUE

Effect ==
  CASE tool.at = "prologue" -> SqlPrologue
    [] tool.at = "create"   -> [engine EXCEPT !.table[tool.table] = <<>>]
    [] tool.at = "copy"     -> [engine EXCEPT !.table[tool.table] = tool.rows]
    [] tool.at = "vertices" -> VertexVerify.eng
    [] tool.at = "edges"    -> SqlEdgeInsert
    [] tool.at = "hnsw"     -> [engine EXCEPT !.hnsw = @ \cup {tool.table}]
    [] OTHER                -> engine

\* The markers of a statement in the transcript; only counts that the engine gave.
Markers ==
  CASE tool.at = "assert"   -> <<[mark |-> "ASSERT", edges |-> engine.counter]>>
    [] tool.at = "hnsw"     -> <<[mark |-> "HNSW_HEALTH"]>>
    [] tool.at = "epilogue" -> <<[mark |-> "FINAL", edges |-> engine.counter],
                                 [mark |-> "LOAD_COMPLETE"]>>
    [] OTHER                -> <<>>

\* parse_transcript: FINAL over the last ASSERT, each phase by its own marker.
ParseTranscript(marks) ==
  LET of(m) == SelectSeq(marks, LAMBDA x : x.mark = m)
      counted == of("ASSERT") \o of("FINAL")
  IN [graph    |-> counted # <<>>,
      edges    |-> IF counted = <<>> THEN {} ELSE {Last(counted).edges},
      healthy  |-> of("HNSW_HEALTH") # <<>>,
      complete |-> of("LOAD_COMPLETE") # <<>>]

EngineManifest(rc, marks) ==
  LET e == ParseTranscript(marks) IN
  [status |-> IF rc = 0 /\ e.complete THEN "complete" ELSE "failed",
   engine |-> e, gate |-> e.edges]

\* A statement commits and the script goes on.
StatementOk ==
  /\ tool.name = "engine" /\ tool.at # "done"
  /\ Checks
  /\ engine' = Effect
  /\ tool' = [tool EXCEPT !.at = After(@), !.marks = @ \o Markers]
  /\ UNCHANGED <<dump, sidecar, slice, asked, runs, kills, emb, engineOut, stores, baseOut>>

\* A statement raises, by its own check or by the server's, and is rolled back;
\* the vids it had allocated stay taken, the edges it had placed stay counted.
StatementFails ==
  /\ tool.name = "engine" /\ tool.at # "done"
  /\ \/ ~Checks /\ UNCHANGED kills
     \/ kills < MaxKills /\ kills' = kills + 1
  /\ \/ engine' = engine
     \/ /\ tool.at = "edges"
        /\ \E n \in 1..Len(tool.edges) : engine' = [engine EXCEPT !.counter = @ + n]
     \/ /\ tool.at = "vertices" /\ VertexVerify.eng.nextVid > engine.nextVid
        /\ \E n \in engine.nextVid..VertexVerify.eng.nextVid : engine' = [engine EXCEPT !.nextVid = n]
  /\ engineOut' = EngineManifest(3, tool.marks)
  /\ tool' = Idle
  /\ UNCHANGED <<runs, dump, sidecar, slice, asked, emb, stores, baseOut>>

EngineDone ==
  /\ tool.name = "engine" /\ tool.at = "done"
  /\ engineOut' = EngineManifest(0, tool.marks)
  /\ tool' = Idle
  /\ UNCHANGED <<dump, sidecar, slice, asked, runs, kills, emb, engine, stores, baseOut>>

\* --emit-sql: the script is written and not run; nothing was observed.
EngineEmit ==
  /\ Operator /\ Whole(slice.manifest) /\ Loadable(BuildDenseMap(slice.manifest))
  /\ engineOut' = [status |-> "emitted", engine |-> [executed |-> FALSE], gate |-> {}]
  /\ UNCHANGED <<tool, dump, sidecar, slice, asked, kills, emb, engine, stores, baseOut>>

-----------------------------------------------------------------------------
(* The baseline: three stores, one after the other. *)

BaselineBegin ==
  /\ Operator /\ Whole(slice.manifest)
  /\ LET m == slice.manifest  dense == BuildDenseMap(m) IN
     /\ Loadable(dense)
     /\ \E force \in BOOLEAN :
          tool' = [name |-> "baseline", at |-> "postgres", force |-> force,
                   rows |-> TableRows(m, dense), edges |-> IterKeptEdges(m, dense)]
  /\ UNCHANGED <<dump, sidecar, slice, asked, kills, loadVars>>

\* A store that is populated ends the run, unless --force.
Populated ==
  \/ tool.at = "postgres" /\ stores.pg # Absent
  \/ tool.at = "neo4j" /\ stores.nodes # <<>>
  \/ tool.at = "milvus" /\ stores.milvus # Absent

BaselineRefused ==
  /\ tool.name = "baseline" /\ Populated /\ ~tool.force
  /\ tool' = Idle
  /\ UNCHANGED <<dump, sidecar, slice, asked, runs, kills, loadVars>>

\* One transaction: the table is dropped, created and filled, or it is as it was.
LoadPostgres ==
  /\ tool.name = "baseline" /\ tool.at = "postgres" /\ (Populated => tool.force)
  /\ stores' = [stores EXCEPT !.pg = [d \in DOMAIN tool.rows |->
                 <<tool.rows[d].id, tool.rows[d].qid, tool.rows[d].types, tool.rows[d].vec>>]]
  /\ tool' = [tool EXCEPT !.at = "neo4j"]
  /\ UNCHANGED <<dump, sidecar, slice, asked, runs, kills, emb, engine, engineOut, baseOut>>

\* The wipe, the nodes and the relationships of each property commit one by one.
LoadNeo4jNodes ==
  /\ tool.name = "baseline" /\ tool.at = "neo4j" /\ (Populated => tool.force)
  /\ stores' = [stores EXCEPT !.rels = <<>>,
                  !.nodes = [d \in DOMAIN tool.rows |-> <<tool.rows[d].id, tool.rows[d].qid>>]]
  /\ tool' = [tool EXCEPT !.at = "rels"]
  /\ UNCHANGED <<dump, sidecar, slice, asked, runs, kills, emb, engine, engineOut, baseOut>>

\* edges_by_pid, one property after the other; a relationship needs both its ends.
EdgesByPid(edges) ==
  LET pids == Ascending({edges[i][2] : i \in DOMAIN edges}) IN
  [k \in DOMAIN pids |-> SelectSeq(edges, LAMBDA e : e[2] = pids[k])]

LoadNeo4jRels ==
  /\ tool.name = "baseline" /\ tool.at = "rels"
  /\ LET ids == {stores.nodes[d][1] : d \in DOMAIN stores.nodes} IN
     stores' = [stores EXCEPT !.rels =
                 SelectSeq(FlattenSeq(EdgesByPid(tool.edges)), LAMBDA e : {e[1], e[3]} \subseteq ids)]
  /\ tool' = [tool EXCEPT !.at = "milvus"]
  /\ UNCHANGED <<dump, sidecar, slice, asked, runs, kills, emb, engine, engineOut, baseOut>>

LoadMilvus ==
  /\ tool.name = "baseline" /\ tool.at = "milvus" /\ (Populated => tool.force)
  /\ stores' = [stores EXCEPT !.milvus = [d \in DOMAIN tool.rows |-> tool.rows[d].vec]]
  /\ tool' = [tool EXCEPT !.at = "done"]
  /\ UNCHANGED <<dump, sidecar, slice, asked, runs, kills, emb, engine, engineOut, baseOut>>

BaselineDone ==
  /\ tool.name = "baseline" /\ tool.at = "done"
  /\ baseOut' = [status |-> "complete", gate |-> {Len(stores.rels)}]
  /\ tool' = Idle
  /\ UNCHANGED <<dump, sidecar, slice, asked, runs, kills, emb, engine, engineOut, stores>>

-----------------------------------------------------------------------------

\* A loader that is killed: the stream ends, and psql takes the end of the input
\* for the end of a COPY; a store that is filled in batches keeps some.
LoaderKilled ==
  /\ tool.name \in {"embed", "engine", "baseline"} /\ kills < MaxKills
  /\ kills' = kills + 1
  /\ tool' = Idle
  /\ \/ UNCHANGED <<engine, stores>>
     \/ /\ tool.name = "engine" /\ tool.at = "copy"
        /\ \E n \in 1..Len(tool.rows) :
             engine' = [engine EXCEPT !.table[tool.table] = SubSeq(tool.rows, 1, n)]
        /\ UNCHANGED stores
     \/ /\ tool.name = "baseline" /\ tool.at = "milvus" /\ (Populated => tool.force)
        /\ stores' = [stores EXCEPT !.milvus = <<>>]
        /\ UNCHANGED engine
     \/ /\ tool.name = "baseline" /\ tool.at = "rels"
        /\ \E n \in 1..Len(tool.edges) : stores' = [stores EXCEPT !.rels = SubSeq(tool.edges, 1, n)]
        /\ UNCHANGED engine
  /\ UNCHANGED <<runs, dump, sidecar, slice, asked, emb, engineOut, baseOut>>

\* Emptying the slice directory takes the embeddings and the manifests with it.
SliceCleared ==
  /\ Operator /\ slice # EmptyDir
  /\ slice' = EmptyDir /\ emb' = Absent /\ engineOut' = NoOut /\ baseOut' = NoOut
  /\ UNCHANGED <<tool, dump, sidecar, asked, kills, engine, stores>>

\* A table dropped by hand, and the graph store left as it was.
TableDropped ==
  /\ Operator
  /\ \E t \in Tables : /\ engine.table[t] # Absent
                       /\ engine' = [engine EXCEPT !.table[t] = Absent, !.hnsw = @ \ {t}]
  /\ UNCHANGED <<tool, dump, sidecar, slice, asked, kills, emb, engineOut, stores, baseOut>>

Init == SidecarInit /\ LoadInit

Next ==
  \/ SidecarNext /\ UNCHANGED loadVars
  \/ EmbedBegin \/ EmbedFlush
  \/ EngineBegin \/ StatementOk \/ StatementFails \/ EngineDone \/ EngineEmit
  \/ BaselineBegin \/ BaselineRefused \/ LoadPostgres \/ LoadNeo4jNodes \/ LoadNeo4jRels
  \/ LoadMilvus \/ BaselineDone
  \/ LoaderKilled \/ SliceCleared \/ TableDropped

Spec == Init /\ [][Next]_<<sidecarVars, loadVars>>

SameBag(s, t) ==
  /\ Len(s) = Len(t)
  /\ \A x \in ToSet(s) \cup ToSet(t) :
       Cardinality({i \in DOMAIN s : s[i] = x}) = Cardinality({i \in DOMAIN t : t[i] = x})

\* A run that reports a complete load leaves the engine with the slice and nothing
\* else, whatever earlier runs, kills, failed statements and dropped tables left
\* behind: the vid of each entity is its dense id and the id of its row, the edges
\* are the statements of the slice, each once, and the count it publishes is
\* theirs (tools/wikidata_engine_load.py, "ENGINE-OBSERVED").  The baseline that
\* completes has the same edges between the same ids.
CompleteIsTheSlice ==
  [][/\ engineOut' # engineOut /\ engineOut'.status = "complete" =>
          LET dense == BuildDenseMap(slice.manifest)
              kept  == IterKeptEdges(slice.manifest, dense)
          IN /\ DOMAIN engine.vids = ToSet(dense)
             /\ \A d \in DOMAIN dense : engine.vids[dense[d]] = d - 1
             /\ SameBag(engine.edges, kept)
             /\ engine.table[tool.table] = tool.rows
             /\ engineOut'.gate = {Len(kept)}
     /\ baseOut' # baseOut /\ baseOut'.status = "complete" =>
          LET dense == BuildDenseMap(slice.manifest)
              kept  == IterKeptEdges(slice.manifest, dense)
          IN /\ SameBag(stores.rels, kept) /\ baseOut'.gate = {Len(kept)}
             /\ Len(stores.pg) = Len(dense) /\ Len(stores.nodes) = Len(dense)
             /\ \A d \in DOMAIN dense : /\ stores.pg[d][2] = dense[d]
                                        /\ stores.nodes[d] = <<d - 1, dense[d]>>
    ]_<<sidecarVars, loadVars>>

\* Every vector that a store holds stands in the row of the entity that it was
\* computed from, or is zero, though the embedding may have been killed in between
\* and the shards may repeat an entity (tools/wikidata_embed.py: "row i of the
\* emitted matrix is dense id i").
VectorsAligned ==
  /\ \A t \in Tables : engine.table[t] # Absent =>
       \A d \in DOMAIN engine.table[t] : engine.table[t][d].vec \in {Zero, engine.table[t][d].qid}
  /\ stores.pg # Absent => \A d \in DOMAIN stores.pg : stores.pg[d][4] \in {Zero, stores.pg[d][2]}

=============================================================================
