---------------------------- MODULE WikiExtract ----------------------------
(***************************************************************************)
(* The wikitext extractor (tools/wiki_extract.py): two passes over a dump, *)
(* the second writing articles, edges and categories into shard files that *)
(* are opened once.  A directory of shard files is                         *)
(*   [articles, edges, cats]                                               *)
(* each a function from the shards that exist to the rows of the file; a   *)
(* shard of a manifest is [shard, rows].                                   *)
(***************************************************************************)
EXTENDS WikiMarkup

CONSTANTS
  Dumps,       \* the wikitext dumps: sequences of pages
  Limits,      \* --max-articles, or NoLimit
  ShardSize,   \* --shard-size
  NoManifest,
  MaxRuns,     \* bound on the runs of tools
  MaxKills     \* bound on the processes that are killed

VARIABLES
  dir,         \* the shard files of the corpus
  manifest,    \* manifest.json
  proc,        \* the extractor that runs, or Quiet
  job,         \* what the corpus is made from: [dump, limit], set by its first run
  runs, kills

extractVars == <<dir, manifest, proc, job, runs, kills>>

Quiet == [tool |-> "none"]
NoFiles == [articles |-> <<>>, edges |-> <<>>, cats |-> <<>>]
Kinds == {"articles", "edges", "cats"}
NoJob == [tool |-> "none"]

ExtractInit ==
  /\ dir = NoFiles
  /\ manifest = NoManifest
  /\ proc = Quiet
  /\ job = NoJob
  /\ runs = 0
  /\ kills = 0

IsArticle(p) == p.ns = 0 /\ p.to = NotRedirect

\* first_pass, and the start of the second.
ExtractBegin ==
  /\ proc = Quiet /\ runs < MaxRuns
  /\ \E d \in Dumps, max \in Limits :
       /\ job \in {NoJob, [tool |-> "extract", dump |-> d, limit |-> max]}
       /\ job' = [tool |-> "extract", dump |-> d, limit |-> max]
       /\ LET titles == SelectSeq(d, IsArticle) IN
          proc' = [tool |-> "extract", pos |-> 1, emitted |-> 0, files |-> <<>>,
                   ids |-> Index([i \in DOMAIN titles |-> titles[i].title], max),
                   redirects |-> Redirects(d, max)]
  /\ runs' = runs + 1
  /\ UNCHANGED <<dir, manifest, kills>>

Page == job.dump[proc.pos]
Emits(p) == IsArticle(p) /\ Key[p.title] \in DOMAIN proc.ids
More == proc.tool = "extract" /\ proc.pos <= Len(job.dump) /\ proc.emitted < job.limit

SkipPage ==
  /\ More /\ ~Emits(Page)
  /\ proc' = [proc EXCEPT !.pos = @ + 1]
  /\ UNCHANGED <<dir, manifest, job, runs, kills>>

\* What the second pass makes of an article: rows for the three files.
Rows(p) ==
  LET aid    == proc.ids[Key[p.title]]
      parsed == ParseArticle(p)
      keys   == [i \in DOMAIN parsed.links |-> ResolveLinkTarget(parsed.links[i])]
      cats   == SetToSeq(parsed.cats)
  IN [articles |-> << [id |-> aid, title |-> p.title, body |-> p.body] >>,
      edges |-> OutEdges(aid, keys, proc.ids, proc.redirects),
      cats |-> [i \in DOMAIN cats |-> <<aid, CopyEscape(cats[i])>>]]

ShardOf(aid) == aid \div ShardSize

AddRows(files, shard, rows) ==
  [k \in Kinds |-> IF shard \in DOMAIN files[k]
                   THEN [files[k] EXCEPT ![shard] = @ \o rows[k]]
                   ELSE files[k] @@ (shard :> rows[k])]

\* A shard is opened by its first article, and once: not when this writer has
\* closed it, nor when one of its files exists.
CanOpen(shard) ==
  /\ \A i \in DOMAIN proc.files : proc.files[i].shard # shard
  /\ \A k \in Kinds : shard \notin DOMAIN dir[k]

\* Does this shard need to be opened, which closes the current one.
Rotates(shard) == proc.files # <<>> => Last(proc.files).shard # shard

\* The writer's own count of the rows of its current shard.
Count(files, rows) ==
  [files EXCEPT ![Len(files)].articles = @ + Len(rows.articles),
                ![Len(files)].edges = @ + Len(rows.edges),
                ![Len(files)].cats = @ + Len(rows.cats)]

NoRows(shard) == [shard |-> shard, articles |-> 0, edges |-> 0, cats |-> 0]
Without(files, shard) ==
  [k \in Kinds |-> [s \in DOMAIN files[k] \ {shard} |-> files[k][s]]]

WritePage ==
  /\ More /\ Emits(Page)
  /\ LET rows  == Rows(Page)
         shard == ShardOf(rows.articles[1].id)
         opens == Rotates(shard)
     IN /\ opens => CanOpen(shard)
        /\ dir' = AddRows(IF opens THEN Without(dir, shard) ELSE dir, shard, rows)
        /\ proc' = [proc EXCEPT !.pos = @ + 1, !.emitted = @ + 1,
                      !.files = Count(IF opens THEN Append(@, NoRows(shard)) ELSE @, rows)]
  /\ UNCHANGED <<manifest, job, runs, kills>>

\* A shard that may not be opened stops the extractor.
RefuseShard ==
  /\ More /\ Emits(Page)
  /\ LET shard == ShardOf(proc.ids[Key[Page.title]]) IN Rotates(shard) /\ ~CanOpen(shard)
  /\ proc' = Quiet
  /\ UNCHANGED <<dir, manifest, job, runs, kills>>

\* build_manifest: what the writer counted, file by file.
Listed(files, k) ==
  [i \in DOMAIN files |-> [shard |-> files[i].shard, rows |-> files[i][k]]]
SumRows(list) == FoldLeft(LAMBDA n, f : n + f.rows, 0, list)
BuildManifest(files, redirects, truncated) ==
  LET list == [k \in Kinds |-> Listed(files, k)] IN
  [files |-> list, counts |-> [k \in Kinds |-> SumRows(list[k])],
   redirects |-> redirects, truncated |-> truncated, job |-> job,
   rebuilt |-> FALSE]

EndExtract ==
  /\ proc.tool = "extract" /\ ~More
  /\ manifest' = BuildManifest(proc.files, Cardinality(DOMAIN proc.redirects), FALSE)
  /\ proc' = Quiet
  /\ UNCHANGED <<dir, job, runs, kills>>

\* A kill loses what the open files had buffered: a tail of each.
CutShard(files, shard) ==
  {[k \in Kinds |-> [files[k] EXCEPT ![shard] = cut[k]]] :
     cut \in {[articles |-> a, edges |-> e, cats |-> c] :
                a \in Prefixes(files.articles[shard]), e \in Prefixes(files.edges[shard]),
                c \in Prefixes(files.cats[shard])}}

KillExtract ==
  /\ proc.tool = "extract" /\ kills < MaxKills
  /\ kills' = kills + 1
  /\ proc' = Quiet
  /\ IF proc.files = <<>> THEN UNCHANGED dir ELSE dir' \in CutShard(dir, Last(proc.files).shard)
  /\ UNCHANGED <<manifest, job, runs>>

\* The operator starts over, after a run that left files without a manifest or
\* one that says its source was cut.
CleanDirectory ==
  /\ proc = Quiet /\ job # NoJob
  /\ manifest # NoManifest => manifest.truncated
  /\ dir' = NoFiles
  /\ manifest' = NoManifest
  /\ job' = NoJob
  /\ UNCHANGED <<proc, runs, kills>>

=============================================================================
