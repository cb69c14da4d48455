------------------------------ MODULE WikiHtml ------------------------------
(***************************************************************************)
(* The HTML extractor (tools/wiki_extract_html.py): one set of shard files *)
(* for each member of the archive, a map of ids and a checkpoint of the    *)
(* members that are done, both kept for the next run; and the gate of the  *)
(* runner (tools/wiki_manifest_verify.py, scripts/wiki_reextract_run.sh).  *)
(*                                                                         *)
(* An archive is [date, members, cut]: the lines of each member that can   *)
(* be read, and whether the archive ends before its end.  A line is        *)
(*   [title, ns, cats, doc].                                               *)
(***************************************************************************)
EXTENDS WikiExtract

CONSTANTS
  Archives,     \* the archives that a download may leave
  RedirectRows, \* the redirects.tsv that is handed in
  MayChange     \* may the archive or the limit change under files that exist

VARIABLES
  work          \* the work directory: [map, done, ckpt]

htmlVars == <<extractVars, work>>

NoWork == [map |-> <<>>, done |-> FALSE, ckpt |-> <<>>]

HtmlInit == ExtractInit /\ work = NoWork

IsNs0(o) == o.ns = 0

HtmlBegin ==
  /\ proc = Quiet /\ runs < MaxRuns
  /\ \E a \in Archives, max \in Limits :
       LET new == [tool |-> "html", archive |-> a, limit |-> max] IN
       /\ job.tool # "extract" /\ (job \in {NoJob, new} \/ MayChange)
       /\ job' = new
  /\ proc' = [tool |-> "index"]
  /\ runs' = runs + 1
  /\ UNCHANGED <<dir, manifest, work, kills>>

\* An archive that was read before keeps its map.
ArchiveTitles(a) ==
  LET lines == SelectSeq(FlattenSeq(a.members), IsNs0) IN
  [i \in DOMAIN lines |-> lines[i].title]

HtmlFirstPass ==
  /\ proc.tool = "index"
  /\ work' = IF work.done THEN work
             ELSE [work EXCEPT !.map = Index(ArchiveTitles(job.archive), job.limit),
                               !.done = TRUE]
  /\ proc' = [tool |-> "html", member |-> 1, line |-> 0, emitted |-> 0]
  /\ UNCHANGED <<dir, manifest, job, runs, kills>>

Members == job.archive.members
AtMember == proc.tool = "html" /\ proc.member <= Len(Members) /\ proc.line = 0
InMember == proc.tool = "html" /\ proc.line > 0
Full == proc.emitted >= job.limit

SkipMember ==
  /\ AtMember /\ proc.member \in DOMAIN work.ckpt
  /\ proc' = [proc EXCEPT !.member = @ + 1]
  /\ UNCHANGED <<dir, manifest, job, runs, kills, work>>

\* What a file is when it is opened: empty; or as a crash left it.
Emptied(files, shard) == [k \in Kinds |-> (shard :> <<>>) @@ files[k]]
Appended(files, shard) ==
  [k \in Kinds |-> IF shard \in DOMAIN files[k] THEN files[k] ELSE (shard :> <<>>) @@ files[k]]

Opened(files, shard) == Emptied(files, shard)

OpenMember ==
  /\ AtMember /\ proc.member \notin DOMAIN work.ckpt
  /\ dir' = Opened(dir, proc.member)
  /\ proc' = [proc EXCEPT !.line = 1]
  /\ UNCHANGED <<manifest, job, runs, kills, work>>

Line == Members[proc.member][proc.line]
Reading == InMember /\ proc.line <= Len(Members[proc.member]) /\ ~Full

\* The rows of an article: its links are those the sanitizer met.
HtmlRows(o) ==
  LET aid  == work.map[Key[o.title]]
      page == Sanitize(o.doc)
      keys == [i \in DOMAIN page.links |-> NormalizeTitle(page.links[i])]
      cats == SelectSeq(o.cats, LAMBDA c : CategoryName(c) # NoKey)
  IN [articles |-> << [id |-> aid, title |-> o.title, body |-> page.out] >>,
      edges |-> OutEdges(aid, keys, work.map, LoadRedirects(RedirectRows)),
      cats |-> [i \in DOMAIN cats |-> <<aid, CopyEscape(CategoryName(cats[i]))>>]]

HtmlEmits(o) == IsNs0(o) /\ Key[o.title] \in DOMAIN work.map

HtmlLine ==
  /\ Reading
  /\ dir' = IF HtmlEmits(Line) THEN AddRows(dir, proc.member, HtmlRows(Line)) ELSE dir
  /\ proc' = [proc EXCEPT !.line = @ + 1, !.emitted = IF HtmlEmits(Line) THEN @ + 1 ELSE @]
  /\ UNCHANGED <<manifest, job, runs, kills, work>>

\* A member is recorded when it is written: whole, or the last of a slice.
Record(m) == (m :> [k \in Kinds |-> Len(dir[k][m])])

CloseMember ==
  /\ InMember /\ ~Reading
  /\ work' = [work EXCEPT !.ckpt = Record(proc.member) @@ @]
  /\ proc' = [proc EXCEPT !.line = 0, !.member = IF Full THEN Len(Members) + 1 ELSE @ + 1]
  /\ UNCHANGED <<dir, manifest, job, runs, kills>>

\* The manifest of the checkpoint, in the order of the members.
EndHtml ==
  /\ proc.tool = "html" /\ proc.member > Len(Members) /\ proc.line = 0
  /\ LET done  == SetToSortSeq(DOMAIN work.ckpt, <)
         files == [i \in DOMAIN done |->
                     [shard |-> done[i]] @@ work.ckpt[done[i]]]
     IN manifest' = BuildManifest(files, Cardinality(DOMAIN LoadRedirects(RedirectRows)),
                                  job.archive.cut /\ ~Full)
  /\ proc' = Quiet
  /\ UNCHANGED <<dir, job, runs, kills, work>>

\* Killed: the open member loses a tail of each file, and is not recorded.
KillHtml ==
  /\ proc.tool \in {"index", "html"} /\ kills < MaxKills
  /\ kills' = kills + 1
  /\ proc' = Quiet
  /\ IF proc.tool = "html" /\ proc.line > 0 THEN dir' \in CutShard(dir, proc.member)
     ELSE UNCHANGED dir
  /\ UNCHANGED <<manifest, job, runs, work>>

StartOver == CleanDirectory /\ work' = NoWork

-----------------------------------------------------------------------------
(* tools/wiki_manifest_verify.py *)

\* scan: the shards that exist, with the lines that they hold.
Scan(k) ==
  LET shards == SetToSortSeq(DOMAIN dir[k], <) IN
  [i \in DOMAIN shards |-> [shard |-> shards[i], rows |-> Len(dir[k][shards[i]])]]

Verify(m) ==
  \A k \in Kinds : SumRows(Scan(k)) = SumRows(m.files[k]) /\ SumRows(Scan(k)) = m.counts[k]

\* --rebuild: the files are the truth, in the order of their names.
Rebuild ==
  /\ proc = Quiet /\ manifest # NoManifest
  /\ manifest' = [manifest EXCEPT !.rebuilt = TRUE, !.files = [k \in Kinds |-> Scan(k)],
                                  !.counts = [k \in Kinds |-> SumRows(Scan(k))]]
  /\ UNCHANGED <<dir, proc, job, runs, kills, work>>

\* The runner's gate, before the corpus is used.
Gate == proc = Quiet /\ manifest # NoManifest /\ Verify(manifest) /\ ~manifest.truncated

-----------------------------------------------------------------------------

AllRows(k) == FlattenSeq([i \in DOMAIN Scan(k) |-> dir[k][Scan(k)[i].shard]])

\* The articles of the source, each by its key once.
SourceKeys ==
  {Key[t] : t \in IF manifest.job.tool = "html"
                  THEN {ArchiveTitles(manifest.job.archive)[i] :
                          i \in DOMAIN ArchiveTitles(manifest.job.archive)}
                  ELSE {manifest.job.dump[i].title :
                          i \in {j \in DOMAIN manifest.job.dump : IsArticle(manifest.job.dump[j])}}}
  \ {NoKey}

\* The articles on the chain of redirects of a title.
Reaches(t) ==
  {work.map[k] : k \in {Hop(Key[t], LoadRedirects(RedirectRows))[n] : n \in 0..(MaxHops - 1)}
                         \cap DOMAIN work.map}

\* The edges of a row: one for every link that reaches another article.
EdgesOfRow(m, row) ==
  LET targets == {dir.edges[m][i][2] : i \in {j \in DOMAIN dir.edges[m] : dir.edges[m][j][1] = row.id}}
      links   == {row.body[i].to : i \in {j \in DOMAIN row.body : row.body[j].tag = "a"
                                          /\ row.body[j].k = "start" /\ row.body[j].to # NoKey}}
  IN targets = UNION {Reaches(t) : t \in links} \ {row.id}

\* A corpus that passed the gate and was not sliced holds the source that its
\* manifest names: every article once, under ids that are dense and that every
\* later run agrees on, its edges between articles of the corpus, its markup the
\* part of the page outside the dropped elements
\* (tools/wiki_extract_html.py: resume and checkpoint; tools/wiki_extract.py).
CorpusIsWhole ==
  Gate /\ manifest.job.limit = NoLimit =>
    LET rows == AllRows("articles")
        ids  == {rows[i].id : i \in DOMAIN rows}
    IN /\ {Key[rows[i].title] : i \in DOMAIN rows} = SourceKeys
       /\ ids = 0..(Cardinality(SourceKeys) - 1)
       /\ \A i, j \in DOMAIN rows : rows[i].id = rows[j].id <=> Key[rows[i].title] = Key[rows[j].title]
       /\ \A i \in DOMAIN AllRows("edges") :
            AllRows("edges")[i][1] \in ids /\ AllRows("edges")[i][2] \in ids
       /\ manifest.job.tool = "html" =>
            \A m \in DOMAIN manifest.job.archive.members :
              LET lines == SelectSeq(manifest.job.archive.members[m], IsNs0) IN
              /\ Len(dir.articles[m]) = Len(lines)
              /\ \A i \in DOMAIN lines :
                   /\ dir.articles[m][i].body = KeptTokens(lines[i].doc)
                   /\ EdgesOfRow(m, dir.articles[m][i])
       /\ \A k \in DOMAIN dir.cats : \A i \in DOMAIN dir.cats[k] :
            \E c \in DOMAIN Key : Key[c] = CopyRead(dir.cats[k][i][2])

\* What a manifest says of where a corpus that passed the gate is from
\* (tools/wiki_extract_html.py: "provenance (source dump + date + params)").
ManifestNamesItsSource ==
  Gate /\ manifest.job.limit = NoLimit =>
    {Key[AllRows("articles")[i].title] : i \in DOMAIN AllRows("articles")} = SourceKeys

\* The files that a manifest lists keep the rows that it counts, whatever is
\* killed, resumed or run again (tools/wiki_extract.py: "shard_idx is opened AT
\* MOST ONCE").
ListedShardsHold ==
  manifest # NoManifest =>
    \A k \in Kinds : \A i \in DOMAIN manifest.files[k] :
      LET f == manifest.files[k][i] IN
      f.shard \in DOMAIN dir[k] /\ Len(dir[k][f.shard]) = f.rows

=============================================================================
