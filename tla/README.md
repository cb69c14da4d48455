# TriDB: TLA+ verification of the engine and the tools around it

TriDB adds a graph store and a joint vector/graph/relational operator to
PostgreSQL, and keeps beside it the Python programs that fill it, serve from it
and measure it: an agent-memory server, a wiki reader, the corpus tools and the
benchmarks. This directory holds TLA+ models of them, the TLC runs that check
the models and TLAPS proofs about them. Paths are relative to the repository,
except that `graph_am.c`, `gph_page.h` and `graph_store_am--0.2.0.sql` are in
`src/graph_store/`, and `tjs_pg.c` and `tjs_pg--0.2.0.sql` in `src/tjs_pg/`.

## 1. Inventory

The engine:

| Component | State | Operations | Hard part | What makes it correct |
|---|---|---|---|---|
| **Graph store, write side** `graph_am.c`, `gph_page.h` | metapage (counters, ends of the vertex chain, freeze horizon), vertex pages, adjacency pages; `pg_class.relfrozenxid` | `gph_insert_vertex`, `gph_insert_edge`, `gph_insert_edges`, `gph_tombstone_edge`, `gph_tombstone_vertex`, `gph_freeze` | no undo: visibility is by raw xid; several WAL records per operation; errors and crashes between them; the single-writer lock; zero blocks left by a failed extension | readers see whole committed transactions only; chains never broken or crossed; freezing invisible; nothing asks clog about an id below the horizon |
| **Host transactions** (PostgreSQL, external) | ids, clog, proc array, advisory lock, WAL | commit, abort, crash, redo | asynchronous commit of transactions without an id | as used by the store |
| **Metapage bootstrap** `gph_ensure_meta` | block 0 | first use of an empty relation | two first writers, an error before the record | one metapage, never read half-made |
| **Scans** `gs_open`/`gs_getnext`/`gs_close`, `gph_neighbors`, `gph_traverse`, `gph_traverse_typed` | page copy, position, visited counters | open, next, close | a reader that keeps a page copy while writers go on | an edge live throughout the scan is emitted once |
| **Traversals** `gph_traverse_bfs`, `gph_traverse_bounded`, `gph_traverse_bounded_censored` | frontier, visited set, budget | breadth-first walk under depth and edge budgets | budget and depth boundaries, the censored flag | every emitted vertex is within the depth; an uncensored answer is complete |
| **Identity map** `gph_vid_map`, `gph_upsert_vertex`, `gph_set_identity_mode`, the reverse cache in `graph_am.c` | external id -> vid rows, the identity flag, a per-backend cache | upsert, remove, lookups | concurrent upserts of one id, aborts, a stale cache | one live vid per external id |
| **Edge-type dictionary** `edge_type`, `register_edge_type` | name -> id rows | register | two sessions registering at once | one id per name |
| **Statistics, dump and restore** `gph_visible_edge_count`, `gph_allocated_vids`, `gph_dump_vertices`, `gph_dump_edges` | counters | read; dump and replay | two statements, two snapshots; holes in the vids | a restored store answers as the source did |
| **Joint operator** `tjs_pg.c` | top-k heaps, seed window, reach set, reserves and residues, budgets, counters | `tjs_open` with a source (filter-first) and without (seedless stream, with membership or PPR scoring) | early termination, ties at the k-th rank, two budgets, the reserved share of the bridges | the answer is the top k of the candidates the form admits, and what cut it short is disclosed |
| **Planner** `src/planner/join_order*.c` | none (legstats reads the metapage) | `join_order_choose`, `_estimate`, cost model | clamping, division, thresholds | the choice follows the documented rule |
| **Graph query lowering** `graph_store.graph_query`, `src/graph_store_ext` | the recorded join order | parse, choose, run | text handling | out of scope |

Around it:

| Component | State | Operations | Hard part | What makes it correct |
|---|---|---|---|---|
| **Agent memory over MCP** `tools/tridb_mcp.py` | `memories`, the map, edge types; one connection per server | `init_schema`, `store`, `connect`, `recall`, `neighbors` | several servers on one database; a rollback burns a vid; a connection lost at a commit | a memory's vid is its id; what an agent is told of is there |
| **Wiki reader, requests** `tools/wiki_reader.py` | pending suggestions, SQLite overlay, model slots, per-process tokens | enrich, accept, dismiss, and every route's gate | threads without a common lock; expiry; a commit that raises; restarts | one use of an id; what was acknowledged is stored; slots come back |
| **Wiki reader, index and pages** `tools/wiki_reader.py` | offset and adjacency arrays, SQLite tables, memory-mapped; in-degrees counted lazily | `build` in stages; search, path, ask, article and related pages | kills between and inside stages, leftovers of an older corpus; caps that cut a search | an index that says it is built is the corpus; answers are true of it |
| **Wikipedia corpus tools** `tools/wiki_extract*.py`, `wiki_manifest_verify.py`, `wiki_embed_hybrid.py`, `wiki_enrich_batch.py`, `wiki_engine_load.py`, `wiki_neo4j_load.py` | shard files, id map, checkpoints, manifest, vectors, overlay, loaded stores | extract, gate, embed, enrich, load | kill and resume at any point; workers that outlive their launcher | the corpus is its source, vectors and loads are the corpus |
| **Wikidata tools** `tools/wikidata_compact.py`, `wikidata_ingest.py`, `wikidata_embed.py`, `wikidata_engine_load.py`, `wikidata_baseline_load.py` | sidecar, slice, manifest, vectors, staging tables, loaded stores | build, publish and verify the sidecar; three slices; load | repeated entities, a stale sidecar, statement-wise commits | a slice is the dump's; a load that says complete is the slice |
| **Edit recording and replay** `tools/wikidata_record_edits.py`, `bench/wikidata_consistency.py`, `bench/wiki_consistency.py` | event stream position, window file; one engine, three stores | record, resume; write and read at the same time | disconnects in the middle of an event; reads between two commits | a window has no silent gap; a torn read has a named cause |
| **Benchmarks** `bench/tjs_open_ref.py`, `wiki_h2h.py`, `wiki_fusion.py`, `wikidata_h2h.py`, `wd_allpg_baseline.py`, `scripts/race_probe.py` | oracle, legs, sweeps and reports as files | run a leg, grade, match, report | legs run again in any order over old files; medians, cut queries | a headline compares what it says it compares |
| **Comparison stack, fork patches, site** `baseline/`, `fork/`, `site/` | | | drivers of other systems | out of scope |

How they interact: the SQL layer and the loaders call the mutators in their own
transactions; every mutator and `gph_freeze` take the advisory lock first and
keep it to the end of the transaction; scans and traversals take no such lock,
read one page at a time under a share lock and filter each record by the
transaction ids on it; the joint operator pulls the bounded traversal (or
single-hop scans, for the push) through cursors, one row at a time, and may stop
pulling at any row. The MCP server is a client of the SQL layer. The corpus
tools hand each other files: extractor -> gate -> embedding -> overlay and
loaders, dump -> sidecar -> slice -> vectors -> loaders; the reader is built from
the extractor's files and serves the overlay beside them; the benchmarks read
the loaded stores and each other's result files.

## 2. Plan

Ordered by what the system cannot do without. Built:

1. `GraphStore` refining `TxnGraph`, proved with five more theorems; `GraphRecovery`,
   the same store under crashes with its WAL, with six; `GraphScan`, a reader
   among writers, with one.
2. `Reach`, `Traversal`, and the joint operator: `Topk`, `FilterFirst`,
   `Seedless`, with eight proved theorems.
3. `VidMap` (identity map), with two proved theorems; `AgentMemory` (the MCP server
   and `register_edge_type`), with one; `GraphDump` (dump and replay), with two.
4. The wiki reader: `Enrichment`, `ReaderHttp` for its requests, with five proved
   theorems; `ReaderIndex`, `ReaderSearch`, `ReaderPage` for its index.
5. The corpora: `WikiMarkup`, `WikiExtract`, `WikiHtml`, `WikiEmbed`, `WikiLoad`;
   `WikidataSlice`, `WikidataSidecar`, `WikidataLoad`; `EditRecorder`, `CrossStore`,
   with one proved theorem.
6. The benchmarks: `TjsReference`, `HeadToHead`, `FusionSweep`, `TypedHeadToHead`.

Next: `gph_ensure_meta`; reads through the map composed with
`gph_tombstone_vertex`; two interleaved calls of the joint operator in one
backend; `join_order` over bounded inputs; a rebuild of the reader's index under a
running server. Next theorems: the workers of `WikiEmbed`, and the convergence of
the reader's index over interrupted builds.

Abstract specifications: `TxnGraph` for the store; a replayed store as a function
of the dumped one; the full traversal as the reference of the bounded one;
ranking as the reference of the heap; the corpus as a function of the dump for
every extractor and loader; a breadth-first ball for the reader's path search.

## 3. Modules and the code

`A <- B` reads: B EXTENDS A.

    TxnGraph                          (instantiated by GraphStore)
    GraphStore  <- GraphRecovery
    GraphStore  <- GraphScan
    GraphStore  <- GraphDump
    VidMap, AgentMemory <- MCGraphDump        (instantiates GraphDump)
    MCGraphDump <- SqlProofs                  (instantiates DumpProofs)
    GraphStore  <- GraphStoreProofs
    GraphScan, GraphRecovery, GraphStoreProofs <- ServingProofs
    GraphDump, GraphStoreProofs <- DumpProofs
    Reach <- Traversal <- FilterFirst     Topk <- FilterFirst, Seedless
    Reach <- Seedless                     FilterFirst, Seedless, GraphScan <- MCReads
    MCReads <- ReadProofs <- SeedlessProofs
    Enrichment <- ReaderHttp <- ReaderProofs
    ReaderIndex <- ReaderSearch <- ReaderPage
    ReaderHttp, ReaderPage <- MCReader
    WikiMarkup <- WikiExtract <- WikiHtml <- WikiEmbed <- WikiLoad <- MCWiki
    MCWiki, CrossStore <- MCCorpora
    WikidataSlice <- WikidataSidecar <- WikidataLoad  (instantiated by MCCorpora)
    EditRecorder <- CrossStore <- EditProofs
    HeadToHead <- FusionSweep, TypedHeadToHead <- MCBench  (instantiates TjsReference)

An MC module that joins components which do not interact has a variable (`part`,
`form`) that says which of them a behaviour is of; the others keep a state they
start in, and a property is about one part: it names it, or holds of every state
the part starts in. A run of such a module
explores the sum of its parts' states.

**GraphStore.** `meta` is `GphMeta`; `page[b]` is block b after the metapage, an
all-zero page, a vertex page or an adjacency page, with `next` for
`gph_next_pageno`; `eof` the relation's length; `relfrozenxid` pg_class's.
`xid`, `nextXid`, `committed` are the host's: a session has an id from
`AssignXid` to its end, and clog is asked for an id that has ended. `lock` is the
advisory lock, `op` the local variables of the loop that its holder is in
(`gph_insert_edges`, `gph_tombstone_adjacency`, `gph_freeze`). One action is one
WAL record: `InsertVertex`, `InsertEdge`, `InsertEdges` and
`ContinueInsertEdges`, `TombstoneEdge`, `TombstoneVertex` and
`TombstoneAdjacency`, `FreezeBegin`, `FreezeVertexPage`, `FreezeDescend`,
`FreezeAdjPage`, `FreezeRecordHorizon`, `FreezeRelstats`. `Abort` may come
between any two of them; `AbortExtended` is an error between a file extension
and the record that would have initialised the block, which leaves a zero block.
A freeze stops with an error in the same way and leaves its pages half done.
`XminVisible` and `DeletedVisible` are the code's two tests, and `GraphView(own)`
is what a reader whose own id is `own` would get by locating every vertex and
walking its chain in one instant.

**TxnGraph.** One committed graph and one private one; commit and rollback
replace one by the other. The refinement maps them to the views of a session
without an id and of the holder of the lock.

**GraphRecovery.** `wal` holds the store after each record that may still be
lost, `durable` the one at the last flush. Commits with an id flush;
`gph_freeze` flushes up to its metapage record (`FlushPass`); `Crash` keeps any
prefix and any zero blocks at the end of the file.

**GraphScan.** One scan: `ScanOpen`/`ScanOpenDense`, the locate page by page
(`ScanLocate`, `ScanLocateDense`), `ReadPage` for `gs_read_page_into_buf`,
`Serve` for one slot in `gs_getnext`, `Finish`; `StoreStep` is any step of
GraphStore. `FreezeRespectsSnapshot` is the host's promise that the oldest xmin
is held back by the reader's snapshot: `gph_freeze` refuses a horizon beyond it.

**Reach, Traversal.** `Search` is `gph_traverse_bfs`, hop by hop. `Traversal` is
`gph_traverse_bounded_impl`, one step per dequeue, edge-step or end, beside it.
`Pull` is the function that the steps compute when the caller goes on to the
end; `PullIsTraversal` checks that, and `Seedless` uses `Pull`.

**Topk, FilterFirst.** `Topk` is the array heap with its sifts. `FilterFirst`
is the first half of `tjs_open`: `Fetch` runs the traversal of `Traversal` only
when the last vertex has been looked at; `Excluded`, `RankedCandidate` and
`Exhausted` are the ways on. A closed cursor takes no further step of it.

**Seedless.** The second half of `tjs_open`. `Popped` is one pop of
`graph_reach_ppr_push`. `Seedless` goes through the stream (`StreamExcluded`,
`StreamBuffered`, `StreamRanked`, `StreamEnds`), the seeds (`SeedPull`,
`PushPop`), the window (`AdmitWindow`), the fetch of what the stream did not
bring (`FetchBridge`), and `Finalize`, in either scoring.

**VidMap.** Statements of the READ COMMITTED level over the map's rows. A call of
`gph_upsert_vertex` is `UpsertProbe`, `UpsertVertex`, `UpsertRow` (disabled
while a row of the same external id is uncommitted elsewhere: that is the wait)
and `UpsertReread`; `gph_set_identity_mode` is its check and its update; the
reverse cache is built and flushed.

**GraphDump.** `DumpVertices` and `DumpEdges`, with writers in between; then the
replay of docs/INSTALL_stock_pg.md into an empty store, which uses the
mutators of GraphStore themselves. Freeze passes are left out of it: no step of one
changes an answer (`FreezeInvisible`).

**AgentMemory.** One action per SQL statement of `MemoryStore`, for several
servers; `register_edge_type` as `connect` runs it; a lost connection may have
committed or not. Embedding and ranking are left out.

**Enrichment, ReaderHttp.** `Enrichment` is `PendingSuggestions`, a method a
step, as its lock makes it, and the three requests that use it, one action for each stretch between two points that other threads may
see: `EnrichRead` (sources and the model's answer), `EnrichDismissed`,
`EnrichAccepted`, `EnrichRegister`; `ClaimPending`, `AcceptSource`, `AcceptWrite`,
`DismissWrite`, `Decided`. `overlay` is the two tables as the server's one
connection sees them, `stored` as last committed; a commit that raises leaves
them apart. `uses` and `acked` are history, no guard reads them. `ReaderHttp`
adds what comes before: the gates of every route in the order of the handler,
the body's length and form, the operator's and the page's token, the slots that
bound model calls (`AskModel`, `ModelAnswered`), and `ServerRestart`.

**ReaderIndex, ReaderSearch, ReaderPage.** `ReaderIndex` is `build`:
`BuildBegin`, one `BuildStage` after the other, `BuildOne` for a stage run alone,
`Killed` inside any of them, `ReExtracted` for a new corpus under the old index,
`Serve` for a server that loads the arrays. `ReaderSearch` is the walks and
rankings as functions of those arrays and tables; `ReaderPage` the body's lines
and the link layers (`NextLine`, `NextWord`), and the sanitizer tag by tag
(`NextTag`); its last part says what an answer promises of the index it was
read from.

**WikiMarkup, WikiExtract, WikiHtml.** Titles, redirects, the sanitizer and the
infobox parser as functions over tokens; the wikitext extractor (two passes,
shards opened once); the HTML extractor with its id map and its checkpoint of
finished members, the manifest, and the gate of the runner.

**WikiEmbed, WikiLoad.** Workers that claim units of rows, write them and mark
them (`Claim`, `WriteUnit`, `MarkDone`), under a launcher that may be killed before
its workers. A creation is the four writes that it is in the code (`WipeVectors`,
`WipeIds`, `WipeMarks`, `WriteMeta`), with a kill between any two and workers of an
earlier launcher still writing; `emb.wiped` is a history variable. `WikiLoad` is the overlay of `wiki_enrich_batch` (`ProcessShard`,
`BuildSuggestions`), the files and the load of the engine, and the batches merged
into Neo4j.

**WikidataSlice, WikidataSidecar, WikidataLoad.** The truthy statements and the
prefix and breadth-first slices as functions of a dump; build, publication and
verification of the compact sidecar (`BuildStream`, `PublishData`, `PublishMeta`)
and the ingest that may read it; vectors, the engine's load statement by
statement to its staged manifest (`StatementOk`, `StatementFails`, `EngineDone`), the
baseline's three loads.

**EditRecorder, CrossStore.** The lines of the event stream's frames, a disconnect
after any of them, resumption with the last id; then the recorded window
replayed by a writer while a reader reads: on one engine, whose edge is read from a
copy of a page (`CopySlots`, `JudgeSlot`), and on three stores, a commit and a read
each, with injected failures. `Simulate` is the benchmark's own account of a replay;
that it tears no transaction, and three commits at most twice, is an ASSUME of
MCCorpora that TLC evaluates over bounded windows.

**TjsReference, HeadToHead, FusionSweep, TypedHeadToHead.** The reference
operator step by step (`Seed`, `PushPop`, `Sorted`, `Pull`, `Exhausted`) under its
driver; the commands of the head-to-head (`OracleCmd`, `Emit`, `PsqlBlock`,
`Baseline`, `Report`), the sweep and race, and the typed comparison, each reading
the files that earlier commands left. The engine and the other stores answer by
what their statements ask for; an approximate index may miss. No store holds a row
for a gap in the ids (`Gaps`), and Neo4j no edge to one; the oracle ranks gaps
and walks to them. A report records of which oracle each leg is, which the code
does not, so that a property can speak of legs that are older than the oracle.

Definitions that begin with the comment *Mutant:* are not used by any
specification. Each is a faulty form of the definition that follows it;
PROJECT.json pairs it with the property that it breaks when it takes the
definition's place, which shows that the property depends on that code.

## 4. Runs

Most cfgs say CHECK_DEADLOCK FALSE: the counters that the models bound
(`MaxXid`, `MaxVid`, `MaxEdges`, `MaxBlock`, `MaxCrashes`, `MaxRuns`, `MaxKills`) and calls, scans and
replays that are over stop the model where the program would go on. That nothing
stops *inside* an operation of the store is what `OperationEnds` is for. The
reader's run checks deadlock: its requests always have a way on.

| Run | Question | Bounds, and why they suffice |
|---|---|---|
| StoreChains | Are the chains whole, the O(1) locate right, and the writer alone, under every order of operations and errors? | Pages of one record: each append meets the end of its chain. Two sessions, two transactions, three vertices, two edges, four blocks: a third vertex page behind an adjacency page or a zero block, and chains of two pages. |
| StoreRefines | Does the store implement TxnGraph? | Pages that edges of different destinations share, so that a tombstone of one destination has slots to leave alone. |
| Recovery | What survives a crash at any record; does any reader notice a freeze; does every operation end? | One crash, at most two transactions; a freeze pass of up to five records, each prefix of it kept; horizons between and beyond the transactions. |
| FreezeCompletion | Does the freeze's flush do what its comment says? | A violation is expected: section 7. |
| Reads | What may a scan among writers miss or repeat? Are traversal, flags, shares, counts and answers of both forms of `tjs_open` right? | Scan: pages of two slots and three edges, both kinds of filter. With a source: every order and multiplicity of up to two edges at each of three vertices and one at a fourth, on a graph with a diamond, a cycle and a cross edge; budgets that end before, at and after the last edge-step; depths 0, 1 and 3. Without: five vertices, one without a row; every order and end of the stream; heaps of one and two, term_cond 0 to 2, no seed to two seeds, budgets that run out in the stream, in a pull and in a push, and that do not. |
| SqlLayer | Does a restored store answer as the source did, do racing upserts agree, are memories vertices? | Dump: two vertices, two edges, two types, writers between the two statements, one-slot pages. Map: two sessions, two external ids, three transactions with aborts. Memory: two servers, three memories, four vids, one lost connection. |
| DumpUnregistered | Does the dump keep the visible edge count? | A violation is expected: section 7. |
| Reader | Requests: one use of an id, what expires and what may not, slots, what a 200 means, what has been decided. Index: is it the corpus, are paths shortest, answers cited, links true? | Two threads, two ids, one pending entry, one slot, and either time passes, a commit raises or a source has changed. Three corpora (lines that do not parse, an id twice, a title twice, links to ids without an article, articles without vectors, no redirects, no edges), one kill, one new extraction; texts of two events and three tags. |
| OverlayCommit | Is an id consumed only after a successful write? | A violation is expected: section 7. |
| Corpora | Is every corpus its source and every load its corpus, whatever is killed and resumed? Has a recorded window a gap, a torn read no cause? | Wikipedia: two dumps and two archives of two members, shards of two rows, three runs (and one after a creation that was cut) and two kills, two workers. Wikidata: two dumps (an entity twice, a deprecated statement, targets that are not in the dump), three specs, five runs and a kill. Edits: a feed of five events, two edits wanted, two disconnects, one failed write. The simulation: every window of up to four edits of two items. |
| WikiDates | Does the manifest name the archive the corpus is from? | A violation is expected: section 7. |
| Bench | Is the reference what it refers to, the headline whole, the match common, are the typed answers one? | Reference: 32 graphs over four paragraphs, two questions, three thresholds. Head-to-heads: four ids, one of them a gap to which edges lead (among an oracle's seeds, among its answers only, in neither), two questions, two oracles or versions of a file, legs in any order; races over one question and over both. |

Stand-ins in these bounds. The code's minimum of 128 for the graph budget is not
kept (a budget of 2 or 3 is where a five-vertex graph runs out); the seed window
is a constant function of m (the code's is max(8m, m + 32), above any stream of
four rows), of which the model needs only that it is larger than m; the push's
real-valued mass is counted in grains, so that divisions round down and
`MassNeverMade` can be checked exactly; scores of the reader and of the reference
are whole numbers for the same reason. In Corpora an operator who extracts anew
also removes what was made of the old corpus; only WikiDates keeps the working
directory from one archive to the next. The benchmarks' commands run one at a
time over one slice, and no recall is NaN: an oracle's answer is never empty. A
server beyond loopback differs from one on it only by taking fewer tokens, so its
other steps are left out.

What the deepest properties would catch:

- `ChainsWellFormed`, `DenseIsLinear`: an append to a page that is not the tail;
  a locate by arithmetic that lands on an adjacency page or a zero block.
- `WriterOwnsUncommitted`: a mutator that locates before it locks.
- `EveryPrefixSound`: an id left behind on a page, of an inserter or of a
  deleter, that a later clog lookup could not answer, in any crash image.
- `FreezeIsInvisible`, `ImplementsTxnGraph`: a rewrite, a tombstone or a batch
  that shows to the wrong reader, or in parts.
- `ScanExact`: a slot served twice or lost between two page reads.
- `FilterFirstHonest`, `ReachIsHonest`, `EndIsJustified`: a cut that is not told,
  an end that nothing justified. `SharesAreKept`, `BestIsAnswered`: one leg of
  the answer deleting the other.
- `MemoriesAreVertices`: a memory stored under another's vertex after a rollback.
- `OneUse`, `DecidedStaysAway`, `AckedIsStored`: an id claimed twice, a rejected
  fact that comes back, a 200 for something that a restart loses.
- `IndexIsWhole`: a half-built table or array that passes for a whole one.
- `WikiCompleteIsAligned`, `SliceIsAligned`: vectors of other rows or rows of zeroes,
  a creation that was cut and is then taken for done.
- `HeadlineIsExact`, `MatchIsCommon`: a ratio over part of a leg's questions, or at a
  recall that only one side has.

## 5. Fairness

Only `OperationEnds` needs any: `FairRecoverySpec` assumes weak fairness of
`RecoveryContinue(s)`, the next record of the loop that session s is in. The
loops at graph_am.c:928-976, 1081-1125, 1226-1281 and 1370-1431 wait for nothing
but buffer locks, which are held for one page, and leave early only by an
interrupt, which is `Abort`, or by a crash. No fairness is assumed of sessions'
decisions to begin, commit or abort. The other models have no liveness property:
scans, pulls and streams may be abandoned by their callers, and clients, operators
and their tools may stop at any point.

## 6. Proofs

TLAPS checks these theorems of the store, for every set of sessions and edge
types, every page size and every bound (from `SessionsAssumption`,
`EdgeTypesAssumption`, `PageSizeAssumption` and `BoundsAssumption` of GraphStore
only):

- **TypeCorrect** (GraphStoreProofs): `Spec => []TypeOK`. One lemma per group of
  actions; those of the appends rest on `AppendSlotsType` and `WriteRunType`,
  of the freeze on `FreezeRecord`'s.
- **WriterIsolation** (GraphStoreProofs): `Spec => []WriterOwnsUncommitted`. The
  inductive invariant is `WriterInv`: beside the property itself, that every id
  on a page has been handed out (`KnownXids`, so that a new id is on no page) and
  that sessions' ids differ (`DistinctXids`, so that the end of one transaction
  leaves the others' running). Every operation leaves on the pages only ids that
  were there, the lock holder's, or the two special ones
  (`OperationKeepsContract`).
- **FreezeInvisible** (GraphStoreProofs): `Spec => FreezeIsInvisible`. Its invariant
  `FreezeInv` says that the horizon of the pass under way precedes every running
  id (`HorizonHolds`): the horizon was checked only when the pass began.
  `FreezeRecordLive` shows that rewriting one record keeps it live or dead for
  every reader (clog's answer is baked in), `SameView` that a store whose records
  are pairwise alike in place, links and liveness gives the same graph.
- **ChainsStayWellFormed** (GraphStoreProofs): `Spec => []ChainsWellFormed`.
  `ChainsWellFormed` speaks of walks. A walk is the least set of blocks that holds
  its first one and that the links do not leave (`WalkClosed`, `WalkLeast`), so that
  no induction along it is needed; `IsChain` says where it ends, and `ChainExtended` and `Concatenated` that
  a page or a batch's pages added after the last one make it longer. The
  inductive invariant `ChainInv` adds to the property what an append relies on:
  blocks beyond the end of the file are untouched and no link leads to them
  (`Extent`), a vid is on one record (`VidsOnce`), no page is owned by a vid not handed
  out yet (`OwnedPages`), and a batch between two records has edges left. An
  operation then either leaves kinds, links, owners and lengths alone
  (`ShapeKept`: tombstones, freezes, the marks of an abort) or appends one
  record or some pages (`ShapeVertexAppended`, `ShapeVertexPaged`,
  `ShapeSlotsAppended`, `ShapeSlotsPaged`).
- **DenseLocateIsLinear** (GraphStoreProofs): `Spec => []DenseIsLinear`. Given
  the shape, a record that holds the vid at the computed place is the only one.
- **ImplementsTransactions** (GraphStoreProofs): `Spec => ImplementsTxnGraph`, the
  refinement that the run StoreRefines checks. The graph of a reader is defined
  by walks; with the chains well formed they meet every record, so that it equals
  the set of the records whose ids the reader sees (`WalkedIsFlat`, `Graph`), and
  a step is judged record by record. Transactions leave the pages and change what
  ids mean: an id of a session without the lock is on no page (`RunningStamp`), so its
  end shows to nobody, and the holder's commit makes the others see what it saw
  (`TransactionReads`). Writes leave the ids' meaning and change records:
  each of `GraphRecordAdded`, `GraphSlotsAdded`, `GraphRecordDeleted` and
  `GraphSlotsDeleted` says what one kind of change makes of the writer's graph,
  and that it makes nothing of the others', to whom a running id means nothing. The
  invariant `TxnInv` joins those of the theorems above and adds what an operation
  cut into several records still relies on (`OperationInv`): a batch goes on from a
  vertex to vertices still alive to its writer, although they were located before
  its first record, and the sweep after a vertex's tombstone stays on the chain
  of a vertex that is already gone, so that its slots' marks change no graph. `UncommittedRun`
  says that no running id has committed.

one of a scan among the writers (ServingProofs), for every set of filters as well:

- **ScansAreExact**: `ScanSpec => []ScanExact`. What every step of every writer
  does to the pages behind the reader's back is `PagesGrow` (`StoreGrows`): a
  page in use stays what it is, a link that is set stays, and a slot keeps its
  edge and changes its marks in three ways only (`Follows`): as clog has decided
  (to the frozen id), to nothing if the transaction is over and lost, or by a
  tombstone where there was none or a lost one. Hence a walk from a link that
  was read long ago still meets the rest of the chain (`WalkGrows`), and a
  copied slot, judged by what clog says when it is served, agrees with its
  page on the insert and is never ahead of it on the delete (`FollowsReads`).
  `ScanInv` has one part for each of these: the locate has not passed
  the record of a vertex that has something to answer (`OnVertexChain`), the page
  copied is one of the vertex's and its link was the last or still holds
  (`OnAdjChain`), the copy is behind its page by what `Follows` allows and knows
  what had been deleted (`Behind`), and what was answered lies before the reader's
  place in the chain, what is owed after it (`InOrder`). Nothing is answered
  twice because a chain does not come back to a page (`ChainAcyclic`).
  The proof does not use `FreezeRespectsSnapshot`: a freeze pass that
  rewrites ids newer than the reader's snapshot would not disturb this kind of scan,
  which asks clog at each slot and never its snapshot.

six of the store under crashes (ServingProofs), from `CrashesAssumption` as well,
for any number of crashes:

- **PrefixesAreSound**, **FreezeSurvives**: `RecoverySpec => []EveryPrefixSound` and
  `[]ReturnedFreezeKeepsPages`. `RecoveryInv` says of the store in memory what
  `LiveInv` collects, and of each store that a crash may restore (`Images`) that
  one can start from it (`Restartable`): its chains are whole, its records need no id
  below its horizons or beyond its counter, its horizon is not behind a freeze
  that returned, and its committed graph is the one in memory. `LiveImage` shows
  that the store in memory is such a store at every moment, so a record appended
  to the log adds no other kind. What is new in `LiveInv` is about the freeze:
  `SweepInv` says that a page outside of what the pass has still to walk (`Unswept`)
  has nothing below the pass's horizon left, which at the end is every page
  (`SweepEnds`), whatever the chains; `HorizonsInv` that every running or stamped id
  is at or above both horizons.
- **CrashesKeepCommitted**: `RecoverySpec => CrashKeepsCommitted`. Images keep the
  committed graph because only a commit changes it (`CommittedViewKept`, by
  the refinement of GraphStoreProofs) and a commit with an id leaves no older image behind.
- **CrashesAreRollbacks**: `RecoverySpec => ImplementsTxnGraph`. A crash is a
  rollback of TxnGraph; the other steps are GraphStore's. No run checks the
  refinement under crashes, the property is StoreRefines'.
- **StoreSurvivesCrashes**, **FreezeInvisibleAfterCrashes**: the invariants of
  GraphStore and `FreezeIsInvisible` under `RecoverySpec`. After a crash `RecoveryInv`
  gives back all of `TxnInv` (`CrashKeeps`), also where a half-done pass or
  the records of stopped transactions were restored.

two of the dump and its replay, in a database whose dictionary has every edge type
in use (`Registered = EdgeTypes`: without it edges are lost, as DumpUnregistered
shows):

- **BackupsAreFaithful** (DumpProofs): under `DumpSpec`, always `CountIsReads`,
  `RestoredEdgeCount`, `RestoredAnswers` and `RefusedOnlyIfMoved`. What a traversal
  answers is a recursion over slots inside one over pages, and two stores are
  compared by it. `Emission` and `Emitting` are the same recursions over a set of
  places that are emitted; they are functions by induction over sets, of numbers and
  of blocks from the last one down, because every link leads to a later
  block (`Rising`, an invariant of the store: a page is linked when the file is
  extended). An answer is then as long as the live edges that leave its vertex
  are many, and answers and live edges count off against each other
  (`CountHolds`). That needs `NoOrphans` in `WholeInv`: no live edge leaves a vertex
  that is gone, because the sweep is of the same transaction as the tombstone, so
  that in between only the deleter sees the vertex gone, and an abort takes both
  away. The groups of the dump exist in their order (`SortedExists`) and name each
  answer once (`DumpedScript`). `DumpInv` adds what holds of each phase (`PhaseInv`).
  During the replay there is one transaction, nothing has been deleted, vids are
  numbered from zero without a gap and fill their page before the next is begun
  (`Numbered`, `Counting`), so that the dense locate finds every vid that was dumped
  (`DenseFinds`) and only a vid never dumped is refused (`NotRefused`). What has been
  written for a source and a type, the rest of the batch under way and what the
  script still has of it make up the source's answer (`Progress`); an append puts its
  slots behind the last answer of one vertex and leaves the others
  (`WriteRunAnswers`, `OthersAnswer`). A commit makes readers see all of it.
- **DumpsStayFaithful** (SqlProofs): `MCSpec => []DumpIsFaithful`, the property of the
  run SqlLayer, from the theorem above for the dump's part of that module; its
  constants are as `DumpAssumption` of MCGraphDump says, which the run evaluates.

five of the reader's server (ReaderProofs), for every finite set of threads,
every set of requests, and any bounds on ids, suggestions and slots
(`ThreadsAssumption`, `IdsAssumption`, `PendingAssumption`, `SlotsAssumption`):

- **UsedOnce**: `ReaderSpec => []OneUse`. `uses` alone is not inductive. `UseInv`
  adds that ids in the store were handed out (`EntriesKnown`), that a thread in the
  middle of a decision holds an id which is in flight, in the store, and in no
  other thread's hands (`ClaimsOwned`), and that what is in the store, or not
  handed out yet, was never used (`StoredUnused`). The claim is where it could
  break: an id that is in the store and not in flight is in nobody's hands.
  Eviction enters by `EvictionKeeps`: what is in flight is not dropped.
- **SlotsComeBack**: `ReaderSpec => []SlotsConserved`. One thread's step changes
  the set of threads that hold a slot by that thread at most (`SlotTaken`,
  `SlotReturned`, `SlotMoved`).
- **PendingIsSound**: `ReaderSpec => []PendingSound`. Beside `UseInv`,
  `PendingInv` says that an id is of one suggestion, that no id is in flight
  which nobody holds, and that only a thread that is deciding holds one
  (`HoldersKnown`). The bound is where it could break: eviction goes by age and
  skips what is in flight. If anything not in flight is left, consider its oldest
  entry: every older one that may go has gone, so there is room for one more
  (`KeptBounded`, by `LeastNat`). Otherwise all that is left is in flight, each in
  another thread's hands, and the thread that registers holds none
  (`FlightBounded`): with the new one there are no more than threads. The run
  Reader, with two threads and two ids, hardly presses on the bound: for the bound,
  unlike the rest of `PendingSound`, this proof is what counts.
- **AckedStaysStored**: `ReaderSpec => []AckedIsStored`. `LedgerInv` follows a
  decision from the claim to the answer: the table on disk is the connection's
  while no commit has raised, a thread about to consume has its decision on disk
  (`DecisionInv`), tables only grow (`Grows`, `StoredStays`), and of two facts of
  one subject SQLite would have found the first when the second came
  (`PairsFound`). The last is about SQLite's letters and the property is about Python's;
  they agree on a pair only if SQLite lowers it as Python does, which is why
  the property speaks of those pairs only (section 7).
- **DecidedNeverReturns**: `ReaderSpec => DecidedStaysAway`, an action property.
  What was answered with success when the request began is in the tables
  (`AckedIsDecided`, from `LedgerInv`). `KnownInv` follows it through the two
  reads, which are not one snapshot: before the first it is in the two tables,
  between them in what was read or in the accepted ones (tables only grow, so a
  decision that lands between the reads does no harm), after them in what was read.

two of the identity map (SqlProofs), for every set of sessions and external
ids and every bound (`MapBoundsAssumption`):

- **MapStaysSound**, **CacheNeverLies**: `Spec => []MapIsSound` and
  `[]CacheNeverWrong`. `MapInv` has a part for each variable.
  `HostInv`: a running transaction's id is new and its own, so that a row which
  is lost stays lost (`LostStays`). `RowsInv`: a mapped vid's vertex is of the
  transaction that mapped it, no vid is mapped twice, even by rows that are lost,
  and no external id twice by rows that stand. `CallsInv`: a session about to
  insert holds a vertex that nobody has mapped, and one about to read again will
  see a row, its own or the one it waited for (`RowKeeps`). `CachesInv`: what is
  cached is in the map, so that a vid never used twice makes it right for good.

one of agent memory (SqlProofs), for every set of servers and of relations,
every choice of dimensions and of servers with a model, and every bound
(`ServersAssumption`, `MemoryBoundsAssumption`):

- **MemoriesStayVertices**: `MemSpec => []MemoriesAreVertices`. The property speaks of
  committed rows, and a commit makes all rows of a transaction committed at once, so
  `MemInv` says what a transaction's own rows are at each of its statements. A memory
  that is not committed is that of a request between its insert and its commit, and
  a request about to compare vid and id has both rows (`IdsInv`, `StoringInv`): the
  comparison is what makes the commit safe (`CommitKeeps`), and without it ids
  and vertices drift apart after the first rollback. `LinksInv` follows the ends of
  a link from connect's check, which reads committed memories only because the
  server has none of its own then (`SeenIsStored`), and its type from the probe or
  the insert: the type may be the transaction's own, which a rollback takes
  together with the link. `CountsInv`: what `memory_stats` counted first stays
  below the vertices that it counts next, because the first count is of ids that
  are mapped one to one (`CountedAreMapped`) and mappings only grow until then.

one of the edit tools (EditProofs), for every feed, every window drawn, and any
number of broken connections, failed writes and crashes, from no assumption:

- **EditsStaySound**: `Spec => []WindowAndTears`. The window: `RecorderInv` says that a
  connection goes on after the last event that was read (`ConnInv`), so an event read
  adds the greatest id to what has been sent and, if it is a usable edit, one line
  to the file (`EventRead`), an event cut short included. The engine: in
  every instant exactly one slot is out there, of the row's version (`EngineInv`).
  That a commit exchanges one for the other needs what `WriterInv` says of the
  statements before it: what is out there carries the writer's mark, and the one
  slot of its own is the new version's. Steps that commit nothing, rollbacks and
  crashes included, change what no slot shows (`QuietSlots`), so `ReaderInv` can say of
  a copy judged slot by slot that it answers with its row's version until a write
  commits. The stores: `LegsInv` says which of them a write has been to,
  `ReadingInv` that a read which met no write has read what the stores have.

eight of the read side, from the assumptions on the arguments of a call only
(`AdjacenciesAssumption`, `ArgumentsAssumption`, `QueriesAssumption`;
`VerticesAssumption`, `CallsAssumption`, `PushAssumption`), four in ReadProofs, for
every store, seed, depth, type, budget and query of a traversal or of a call with a
source:

- **ReadsAgree** and **ReadsAreHonest**: `MCSpec => []TraversalsAgree` and
  `[]FilterFirstHonest`; **TraversalsSafe** and **CallSafe** say the same of a
  traversal and of a call on their own. The search by hops, the pull and the heap's
  sifts are recursions over data, and the library's induction takes an operator, which
  the provers here cannot instantiate. So induction is over *sets* of numbers or of
  sequences (`NatSet`, `SeqSet`): a partial fold is unique and exists (`PartialUnique`,
  `PartialExists`), hence the function that a fold of the community modules chooses
  satisfies its equations (`IterExists`, `FoldedSteps`), the search does
  (`SearchIs`), and a loop whose rank falls is a function (`LoopExists`).
  With these, `SearchLaid` lays the search out: what it expands, in order, is a
  line of vertices, and what it visits and lists is what the edge-steps along the
  line newly reach. `TravInv` then says where the bounded traversal is on that line:
  the steps it has spent are the first of the search's (`SpentInv`), its queue
  is the end of the line so far (`QueueInv`). The budget is where it could
  break: the flag must not be raised when the last step was also the last edge.
  `SiftUpIs` and `SiftDownIs` say that a sift shuffles the array and leaves no child
  farther than its parent, though halfway there is one disorder, which a turn moves
  (`UpStep`, `DownStep`); `Offer` that the root is then the one to lose. `CallInv` adds
  to the heap's promise what the drops in a row are (`DropInv`) and why a call
  ended (`OutcomeInv`).

and four in SeedlessProofs, for every call without a source, every order and end of
its stream:

- **SharesKept**, **EndsJustified**, **ReachHonest**, **BestAnswered**:
  `MCSpec => []SharesAreKept`, `[]EndIsJustified`, `[]ReachIsHonest` and
  `[]BestIsAnswered`. What is promised of an answer is about the last state, so
  the invariant `SeedlessInv` is about the way there. `StreamOK`: the types, and
  what goes with each phase, as that seeds are left only while seeding and that the
  window is closed with the seeds chosen from it. `HeapsInv`: each heap holds the nearest of
  what it has been offered *so far*, which is nothing while the window is held
  back, then all of it at once (`AdmitHeaps`, by `OffersHold`), then
  row by row; the bridges' heap is offered a member from the stream or by id, never
  both. `StopInv`: the drops in a row are as many rows outside window and
  heap; a row that enters the heap may push one of them out of consideration,
  but sets the drops to zero (`RankedStops`). `LimitInv`: what the reach may still
  gain is paid for by an edge-step or a seed not yet pulled. `AnswerInv`: a call that
  is done answers from the heaps as they are. `MassInv`: no pop makes mass
  (`PoppedLaws`), also when the budget cuts an expansion and the few ends walked
  share all of it, and equal shares round down. `ReachInv`: under ppr a queued vertex
  is within its own depth of the seeds, so what its edges lead to is within the hops;
  under membership, without the flag, the reach is all that the seeds pulled
  so far lead to (`PulledLaws`, by the traversal's line).
  From `HeapsInv` to the shares: `Filled` gives the reserved places to the nearest
  bridges, and `RankedLaws` with `PrefixNearest` say that what it takes of a ranking
  are its nearest; the vectors keep k less that share because no more bridges than it
  come before them (`MembershipIs`, `FusedIs`). A sum over a finite set is chosen
  by the library in an arbitrary order; `SumLaws` shows it does not matter.

Only model-checked, and why:

- Liveness (`OperationEnds`): no fairness and no ENABLED in these provers.
- `PathIsShortest`, `AskCitesSeeds`, `ShownIsHonest`: ReaderSearch and ReaderPage
  declare RECURSIVE operators (searches and a sanitizer over data), over which
  these provers have no SMT backend.
- `IndexIsWhole`, `WikiCorpusIsWhole`, `WikiCompleteIsAligned`, `WikiLoadsAreTheCorpus`,
  `SliceIsAligned`: files that are functions of a dump, through parsers and folds.
  The first-order induction above could reach them, one fold at a time.
- `ReferenceIsExact`, `HeadlineIsExact`, `MatchIsCommon`, `TypedAnswersAgree`: one
  program after another over files; not attempted.

## 7. Where the code and its documents differ

Shown by a run:

- *FreezeCompletion.* graph_am.c:1332-1335 says of the flush at the end of
  `gph_freeze` that it is "sufficient on its own". It flushes to the metapage's
  record, the relfrozenxid advance is logged after it. A crash then keeps the
  new horizon on the metapage and the old relfrozenxid, and running the freeze
  again with that horizon returns before it comes to relfrozenxid
  (graph_am.c:1214-1221); a larger horizon mends it. What was done to the pages is
  safe (`ReturnedFreezeKeepsPages`).
- *DumpUnregistered.* docs/INSTALL_stock_pg.md:246, 287-288 call the dump complete
  and the visible edge count preserved. `gph_dump_edges` joins the dictionary,
  inserts take any type id: edges of an unregistered type are read, counted and not
  dumped. With registered types only the count is preserved (`BackupsAreFaithful`).
- *OverlayCommit.* tools/wiki_reader.py:2146-2147 says that an id is consumed "only
  after a successful write". When the overlay's commit raises, the inserted row
  stays in the connection's open transaction; the retry finds it, writes
  nothing, consumes the id and answers 200, and a restart rolls the row back.
- *WikiDates.* tools/wiki_extract_html.py:42 calls the manifest the corpus's
  provenance. The id map and the finished members of an older archive are
  taken up by a run over a newer one; the manifest then names the newer one only.

Read while modelling:

- tools/wiki_reader.py:2148-2149 says of accept that "the write stays idempotent per
  subject + property + value". The SELECT (2176-2180) compares SQLite's `lower()` of
  the stored value, which leaves capitals outside ASCII, with Python's of the new
  one: the row of "Evora" with its accented capital is never found again, and
  each suggestion of it that is accepted adds a row. The run Reader has such a pair,
  and `AckedIsStored` promises single rows for the other ones only.
- graph_store_am--0.2.0.sql:200-201 says dangling in-edges are filtered at read
  time; the scans serve them (graph_am.c:1697-1746), as TxnGraph records.
- graph_store_am--0.2.0.sql:161 says the edge counter is rolled back by an abort;
  there is no undo, and only a crash that loses the record takes it back.
- graph_am.c:1654-1655 says that a buffered page is filtered exactly as slot by
  slot before; ids that end between the copy and the serve make a difference in
  both directions, within what `ScanExact` allows.
- graph_store_am--0.2.0.sql:255-263 describes the identity flag as the present state of the
  map; it is checked when it is set and an upsert may falsify it. An external id
  whose vertex is tombstoned natively keeps its row in the map (line 385).
- tjs_pg--0.2.0.sql's comment on `tjs_open_budget_capped` says it is never true;
  tjs_pg.c:2072-2074 returns true after a scan budget.
- tjs_pg--0.2.0.sql's comment on `tjs_open_bridges_injected` counts every
  filter-passing member of the reach; under PPR scoring those that the vectors'
  heap holds are not counted (`BridgesCountedOnce` is stated for membership).
- tjs_pg.c:856-863 takes the push for independent of order; with a hop bound and
  a budget the reserves depend on which pop finds a vertex first.
- tjs_pg.c:879 bounds what is touched by the edge-steps; the seeds are touched
  without one (`WorkBounded` adds them).
- tools/tridb_mcp.py:185-191 says a drifted vid means that another writer broke
  the dense scheme; a rolled-back store of the server itself burns a vid and makes
  every later store drift, and be refused.
- tools/wiki_reader.py:1240-1241 reserves the label 'meaning only' for results that
  the graph did not find; a result found by meaning and over two hops gets it too
  (1301-1304).
- tools/wiki_engine_load.py:204-212 refuses "a silently-truncated corpus"; the HTML
  tool with a limit leaves a checkpoint in which the cut member is complete.
- bench/wiki_consistency.py:28-31, 157-158 take one statement for one snapshot; the
  edge is read through graph_store, which judges slots by what has committed when
  they are served. `WindowAndTears` allows that tear and no other in the engine.
- tools/wiki_embed_hybrid.py:19-22 says "RESUMABLE + CRASH-SAFE ... Kill the process and
  re-run; it skips completed shards and continues". `create_checkpoint` (156-187)
  wipes vectors, ids and marks before it writes meta.json. Killed in between, over a
  complete checkpoint (`--no-resume`), it leaves "complete" in meta.json over
  wiped rows, until somebody runs the tool again. If the marks are not wiped yet,
  each resumed run finds nothing to do and fails in `verify`, until one with
  `--no-resume` starts over; with them wiped a resumed run redoes everything. `CompleteIsAligned` therefore excepts
  what was wiped since meta.json was written, and no more: rows of another article
  never, and never once a later run has said "complete" again.
- bench/wiki_h2h.py:763 prints "Same queries both sides" for legs that 523-540 and
  932-945 let answer different subsets: no file names the oracle it was made from,
  and a leg older than the oracle is graded on the questions that they share.
  `HeadlineIsWhole` says which those are, and that two legs of one oracle agree.
- bench/wiki_h2h.py:181-185 keeps gap ids out of the questions, "so the recall average
  is not polluted by phantom-gap ids that neither store holds a row for". The
  oracle's seeds and answers (231-240) may still hold gaps: a question that reaches
  few articles has them in its answer, and no store can then reach recall 1, which
  `ExactMeetsOracle` states exactly. Also, 142 says "the oracle's graph == the loaded
  slice's graph", while tools/wiki_neo4j_load.py:47-55 skips edges to a gap.
- bench/tjs_open_ref.py:464-465 says the lowest r_max is picked; among equal recalls
  it is the first, which is the largest.
- scripts/race_probe.py:55 calls its pair "stricter than matched_points"; its rule
  (55-71) is another one, neither stricter nor weaker.

## 8. Not modelled

- Savepoints: a subtransaction's id would be one more id of the session that
  ends before the session's; the store asks clog about it as about any other.
- Snapshots in GraphStore: the code asks clog, not a snapshot, and so does the
  model. Multixacts do not occur. Ids grow without wraparound: comparisons are
  those of ids less than 2^31 apart.
- The metapage's bootstrap (`gph_ensure_meta`, graph_am.c:215: an error after the
  extension leaves a zero block 0), the validation of type ids, and a crash during
  a scan, which takes the scan with it.
- Reads through the identity map, and `gph_tombstone_vertex` under it.
- The two evaluators of the operator's filter (prefetched set or per-row probe):
  the filter is the set of rows that pass. Rows the index serves and the snapshot
  does not see are skipped by the code without a count, and are left out.
- The joint operator and the traversals run over a store at rest, as one snapshot
  of the table and a graph without concurrent writers. A reader among writers is
  GraphScan's subject, for one vertex. Two calls interleaved in one backend, which
  share counters and the censored flag, are left out.
- Planner and graph query lowering: arithmetic on estimates, and text.
- A reader whose index is rebuilt while it serves: arrays are loaded once and
  tables read live, and nothing is promised of the mixture; so the answers'
  properties are stated for the index of a finished build. `random_article`'s cache
  of the largest id. What the language model says is any answer. Layout of pages.
- A run of a corpus tool over the leftovers of another corpus of the same size
  (the embedding checkpoint, the overlay's finished shards, the Wikidata vectors
  compare counts only): the models' operator removes them with the corpus, except in WikiDates.
- Two corpus tools at the same time over one directory, and a dump replaced while
  it is read.
- The seedless leg of wd_allpg_baseline and the sm4 synthetic drivers; report
  writers; the clocks themselves (a latency is free).
- `baseline/`, `fork/`, `site/`: drivers of other systems, patches to another code
  base, and static pages.
