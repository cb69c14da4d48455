-------------------------- MODULE WikidataSidecar ---------------------------
(***************************************************************************)
(* The compact sidecar of a dump and the ingest that may consume it        *)
(* (tools/wikidata_compact.py, tools/wikidata_ingest.py).  A build streams *)
(* its rows into a temporary file and publishes them with two renames, the *)
(* data and then the metadata that names it; it can be killed before,      *)
(* between and after them.  An ingest verifies the pair, or reads the dump *)
(* alone, and writes one shard after another and the manifest last; it     *)
(* never opens a shard that exists.                                        *)
(*                                                                         *)
(* The tools are run one at a time, and the dump is replaced between runs: *)
(* by one of another size, which is all that is recorded of it.            *)
(***************************************************************************)
EXTENDS WikidataSlice, TLC

CONSTANTS
  Dumps,        \* the dumps that are downloaded
  Langs,        \* --lang
  Limits,       \* --limit of a build, 0 for none
  BatchSizes,   \* lines per batch of a build
  Specs,        \* what an ingest is asked for: [seeds, target, limit]
  ShardSize,    \* entities per shard
  NoData,       \* a sidecar that was never published
  MaxRuns,      \* bound on what the operator does
  MaxKills      \* bound on the tools that are killed

VARIABLES
  tool,         \* the tool that is running, and its locals
  dump,         \* the dump on disk
  sidecar,      \* the published pair: [data, meta]
  slice,        \* the slice directory: [shards, manifest]
  asked,        \* history: what the ingest of slice was asked for
  runs,         \* what the operator did so far
  kills         \* tools killed so far

sidecarVars == <<tool, dump, sidecar, slice, asked, runs, kills>>

Idle == [name |-> "idle"]
NoMeta == [lang |-> "none"]
NoSliceManifest == [counts |-> "none"]
Cut == [counts |-> "cut short"]
EmptyDir == [shards |-> <<>>, manifest |-> NoSliceManifest]

SidecarInit ==
  /\ tool = Idle
  /\ dump \in Dumps
  /\ sidecar = [data |-> NoData, meta |-> NoMeta]
  /\ slice = EmptyDir
  /\ asked = [lang |-> "none"]
  /\ runs = 0
  /\ kills = 0

\* The operator starts the next thing once the last has ended.
Operator ==
  /\ tool = Idle /\ runs < MaxRuns
  /\ runs' = runs + 1

-----------------------------------------------------------------------------
(* build_compact *)

\* The scan, to a temporary file, and the metadata that describes it.
BuildStream ==
  /\ Operator
  /\ \E lang \in Langs, limit \in Limits, batch \in BatchSizes :
       LET rows == CompactRows(lang, dump, batch, limit) IN
       tool' = [name |-> "build", at |-> "data", rows |-> rows,
                meta |-> [lang |-> lang, limit |-> limit, dumpSize |-> Len(dump),
                          size |-> Len(rows), sha |-> rows]]
  /\ UNCHANGED <<dump, sidecar, slice, asked, kills>>

PublishData ==
  /\ tool.name = "build" /\ tool.at = "data"
  /\ sidecar' = [sidecar EXCEPT !.data = tool.rows]
  /\ tool' = [tool EXCEPT !.at = "meta"]
  /\ UNCHANGED <<dump, slice, asked, runs, kills>>

PublishMeta ==
  /\ tool.name = "build" /\ tool.at = "meta"
  /\ sidecar' = [sidecar EXCEPT !.meta = tool.meta]
  /\ tool' = Idle
  /\ UNCHANGED <<dump, slice, asked, runs, kills>>

-----------------------------------------------------------------------------
(* ingest *)

\* verify_compact_sidecar: the pair belongs together, is of this whole dump and
\* of this language.
VerifyCompactSidecar(lang) ==
  /\ sidecar.data # NoData
  /\ sidecar.meta # NoMeta
  /\ sidecar.meta.lang = lang
  /\ sidecar.meta.limit = 0
  /\ sidecar.meta.dumpSize = Len(dump)
  /\ sidecar.meta.size = Len(sidecar.data)
  /\ sidecar.meta.sha = sidecar.data

\* The slice and what will be written of it; without --seeds a --limit is needed.
IngestBegin ==
  /\ Operator
  /\ \E spec \in Specs, lang \in Langs, compact \in BOOLEAN :
       /\ spec.seeds # <<>> \/ spec.limit > 0
       /\ compact => sidecar.data # NoData /\ VerifyCompactSidecar(lang)
       /\ LET corpus == IF compact THEN CorpusCompact(dump, sidecar.data, spec, lang, ShardSize)
                        ELSE Corpus(dump, spec, lang, ShardSize)
          IN tool' = [name |-> "ingest", corpus |-> corpus, at |-> 0, 
                      asked |-> [spec |-> spec, lang |-> lang, dump |-> dump]]
  /\ UNCHANGED <<dump, sidecar, slice, asked, kills>>

\* _rotate: the next shard is created, or is there already and the run fails.
IngestShard ==
  /\ tool.name = "ingest" /\ tool.at < Len(tool.corpus.shards)
  /\ IF tool.at < Len(slice.shards)
     THEN tool' = Idle /\ UNCHANGED slice
     ELSE /\ slice' = [slice EXCEPT !.shards = Append(@, tool.corpus.shards[tool.at + 1])]
          /\ tool' = [tool EXCEPT !.at = @ + 1]
  /\ UNCHANGED <<dump, sidecar, asked, runs, kills>>

IngestManifest ==
  /\ tool.name = "ingest" /\ tool.at = Len(tool.corpus.shards)
  /\ slice' = [slice EXCEPT !.manifest = tool.corpus]
  /\ asked' = tool.asked
  /\ tool' = Idle
  /\ UNCHANGED <<dump, sidecar, runs, kills>>

-----------------------------------------------------------------------------

\* A kill leaves the files as they are: the temporary ones are no one's, a
\* manifest may be cut short.
SidecarKilled ==
  /\ tool.name \in {"build", "ingest"} /\ kills < MaxKills
  /\ tool' = Idle
  /\ kills' = kills + 1
  /\ \/ slice' = slice
     \/ /\ tool.name = "ingest" /\ tool.at = Len(tool.corpus.shards)
        /\ slice' = [slice EXCEPT !.manifest = Cut]
  /\ UNCHANGED <<runs, dump, sidecar, asked>>

\* The operator's part: a newer dump.
Downloaded ==
  /\ Operator
  /\ \E d \in Dumps \ {dump} : dump' = d
  /\ UNCHANGED <<tool, sidecar, slice, asked, kills>>

SidecarNext ==
  \/ BuildStream \/ PublishData \/ PublishMeta
  \/ IngestBegin \/ IngestShard \/ IngestManifest
  \/ SidecarKilled \/ Downloaded

Whole(m) == m \notin {NoSliceManifest, Cut}

\* What a breadth-first slice keeps: the seeds, never more than the target, as
\* many as the in-memory reference keeps, and the same where no cut is made.
ReachedFrom(d, spec, kept) ==
  LET objs   == Objects(d)
      out(u) == FlattenSeq([i \in DOMAIN objs |->
                  IF objs[i].q # u THEN <<>>
                  ELSE LET es == EntityEdges(objs[i].claims) IN [k \in DOMAIN es |-> es[k][2]]])
      adj    == [u \in ToSet(Ids(objs)) \ {0} |-> out(u)]
      bfs    == BfsClosure(spec.seeds, adj, Target(spec)) \cup ToSet(spec.seeds)
  IN /\ ToSet(spec.seeds) \subseteq kept
     /\ Cardinality(kept) = Cardinality(bfs)
     /\ Cardinality(kept) < Target(spec) => kept = bfs

\* A finished slice is the one the dump itself gives, whether or not a sidecar
\* stood in for it: no sidecar that was cut, trimmed, of another language or of
\* another dump is consumed, batches and their trimming lose no row, and the
\* shards that the manifest lists are there and add up to its counts; a breadth-first slice is the
\* closure of its seeds
\* (tools/wikidata_ingest.py: "byte-identical output").
CorpusIsPure ==
  Whole(slice.manifest) =>
    LET m == slice.manifest
        rows(kind) == FlattenSeq([i \in DOMAIN m.shards |-> slice.shards[i][kind]])
    IN /\ m = Corpus(asked.dump, asked.spec, asked.lang, ShardSize)
       /\ asked.spec.seeds # <<>> =>
            ReachedFrom(asked.dump, asked.spec,
                        ClosureIds(asked.dump, ToSet(asked.spec.seeds), Target(asked.spec)).kept)
       /\ IsPrefix(m.shards, slice.shards)
       /\ Len(rows("entities")) = m.counts.entities
       /\ Len(rows("claims")) = m.counts.entities
       /\ \A i \in DOMAIN rows("edges") :
            {rows("edges")[i][1], rows("edges")[i][3]} \subseteq ToSet(rows("entities"))

=============================================================================
