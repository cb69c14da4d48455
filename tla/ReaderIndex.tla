---------------------------- MODULE ReaderIndex -----------------------------
(***************************************************************************)
(* `wiki_reader build` (tools/wiki_reader.py): what each stage makes of an *)
(* extracted corpus, and the command that runs the stages one after        *)
(* another over whatever an earlier run, perhaps a killed one or one of an *)
(* older extraction, has left.                                             *)
(*                                                                         *)
(* A corpus holds article shards (sequences of lines), edge shards, the    *)
(* embedded ids by row, redirects and category lines; an absent shard is   *)
(* an empty one.  A line that does not parse is Junk; a byte offset is the *)
(* line's number.                                                          *)
(***************************************************************************)
EXTENDS Integers, Sequences, FiniteSets, SequencesExt, FiniteSetsExt, TLC

CONSTANTS
  Corpora,      \* the extractions there may be
  MaxKills,     \* bound on the builds that are killed
  Junk,         \* a line that does not parse
  NotBuilt,     \* an artifact no stage has made
  Torn,         \* an artifact a kill has left
  Down          \* no reader is up

VARIABLES
  corpus,       \* what is extracted now
  disk,         \* stage -> what it left in reader.db or beside it
  next,         \* the stage the build under way is at; 0 when there is none
  since,        \* history: the corpus of the build under way, or of the last
  whole,        \* history: that build ended, and all on disk is of it
  kills,
  server        \* what the reader loaded when it was started, or Down

indexVars == <<corpus, disk, next, since, whole, kills, server>>

-----------------------------------------------------------------------------
(* The stages, as functions of the corpus and of the stages before them.   *)

\* Mutant: a line that does not parse takes no room.
LinesPacked(shards) ==
  UNION {{[shard |-> s, line |-> shards[s][l],
           offset |-> Cardinality({j \in 1..l : shards[s][j] # Junk})] :
            l \in {i \in DOMAIN shards[s] : shards[s][i] # Junk}} :
         s \in DOMAIN shards}

\* Every line that parses, with the place it starts at.
Lines(shards) ==
  UNION {{[shard |-> s, offset |-> l, line |-> shards[s][l]] :
            l \in {i \in DOMAIN shards[s] : shards[s][i] # Junk}} :
         s \in DOMAIN shards}

Before(x, y) ==
  x.shard < y.shard \/ (x.shard = y.shard /\ x.offset < y.offset)

\* INSERT OR IGNORE: of two lines with one id the first stays.
Articles(shards) ==
  {[id |-> x.line.id, title |-> x.line.title, shard |-> x.shard,
    offset |-> x.offset] :
     x \in {y \in Lines(shards) :
              ~\E z \in Lines(shards) : z.line.id = y.line.id /\ Before(z, y)}}

TitleFts(articles) == {[id |-> a.id, title |-> a.title] : a \in articles}

\* Of the rows of one id the last stays; -1 where there is none.
Id2Row(ids) ==
  [a \in 0..Max(ToSet(ids)) |->
     LET rows == {r \in DOMAIN ids : ids[r] = a} IN
     IF rows = {} THEN -1 ELSE Max(rows)]

\* Edges grouped by their first end, each group in the order of the files.
Grouped(edges) ==
  LET last == IF edges = <<>> THEN 0 ELSE Max({edges[i][1] : i \in DOMAIN edges})
      of(u) == SelectSeq(edges, LAMBDA e : e[1] = u)
      size(u) == Len(of(u))
      group == [u \in 1..(last + 1) |-> [i \in 1..size(u - 1) |-> of(u - 1)[i][2]]]
  IN  [dst |-> FlattenSeq(group),
       off |-> [u \in 0..(last + 1) |->
                  Cardinality({i \in DOMAIN edges : edges[i][1] < u})]]

EdgeCsr(shards) == Grouped(FlattenSeq(shards))

\* A node past the last source has no entry in the offsets.
Nodes(csr) == {u \in DOMAIN csr.off : u + 1 \in DOMAIN csr.off}

Out(csr, u) ==
  IF u \in Nodes(csr) THEN SubSeq(csr.dst, csr.off[u] + 1, csr.off[u + 1]) ELSE <<>>

\* Every edge both ways, the forward halves first; doubles stay.
UndirectedCsr(csr) ==
  LET forward == FlattenSeq([k \in 1..Cardinality(Nodes(csr)) |->
                   [i \in DOMAIN Out(csr, k - 1) |-> <<k - 1, Out(csr, k - 1)[i]>>]])
      back    == [i \in DOMAIN forward |-> <<forward[i][2], forward[i][1]>>]
  IN  Grouped(forward \o back)

\* Prose aliases only, of titles that are articles; of two articles with one
\* title the later.
Redirects(lines, articles) ==
  LET named(t) == {a.id : a \in {b \in articles : b.title = t}}
      kept == SelectSeq(lines, LAMBDA l :
                l # Junk /\ l.prose /\ named(l.canon) # {})
  IN  [i \in DOMAIN kept |-> [target |-> Max(named(kept[i].canon)),
                              alias |-> kept[i].alias]]

\* Lines <<article, category>>.
Categories(shards) ==
  SelectSeq(FlattenSeq(shards), LAMBDA l : l # Junk)

Stages == <<"articles", "fts", "id2row", "csr", "undirected", "redirects",
            "categories">>

\* What a stage makes, given the corpus and the artifacts already there.
Made(stage, c, d) ==
  CASE stage = "articles"   -> Articles(c.articles)
    [] stage = "fts"        -> TitleFts(d.articles)
    [] stage = "id2row"     -> Id2Row(c.ids)
    [] stage = "csr"        -> EdgeCsr(c.edges)
    [] stage = "undirected" -> UndirectedCsr(d.csr)
    [] stage = "redirects"  -> IF ~c.hasRedirects THEN d.redirects
                               ELSE Redirects(c.redirects, d.articles)
    [] stage = "categories" -> Categories(c.categories)

\* The tables of reader.db; the other stages write files of their own.
Tables == {"articles", "fts", "redirects", "categories"}

\* numpy refuses to join no edges, and the maximum of no ids.
Refuses(stage, c) ==
  \/ stage = "csr" /\ FlattenSeq(c.edges) = <<>>
  \/ stage = "id2row" /\ c.ids = <<>>

Optional == {"undirected", "redirects", "categories"}

-----------------------------------------------------------------------------

BuildInit ==
  /\ corpus \in Corpora
  /\ disk = [s \in ToSet(Stages) |-> NotBuilt]
  /\ next = 0
  /\ since = corpus
  /\ whole = FALSE
  /\ kills = 0
  /\ server = Down

\* cmd_build; the operator stops the reader first and begins one at a time.
BuildBegin ==
  /\ next = 0
  /\ next' = 1
  /\ since' = corpus
  /\ whole' = FALSE
  /\ server' = Down
  /\ UNCHANGED <<corpus, disk, kills>>

\* A stage drops what was there before it makes its own.
BuildStage ==
  /\ next \in DOMAIN Stages
  /\ ~Refuses(Stages[next], corpus)
  /\ disk' = [disk EXCEPT ![Stages[next]] = Made(Stages[next], corpus, disk)]
  /\ next' = IF next = Len(Stages) THEN 0 ELSE next + 1
  /\ whole' = (next = Len(Stages))
  /\ UNCHANGED <<corpus, since, kills, server>>

\* An input that numpy refuses, or a database that an earlier kill left
\* malformed: the exception ends the build.
BuildFails ==
  /\ next \in DOMAIN Stages
  /\ \/ Refuses(Stages[next], corpus)
     \/ Stages[next] \in Tables /\ \E t \in Tables : disk[t] = Torn
  /\ next' = 0
  /\ UNCHANGED <<corpus, disk, since, whole, kills, server>>

\* build-undirected, build-redirects and build-categories alone, when what
\* they read is there.
BuildOne(stage) ==
  /\ next = 0
  /\ stage \in Optional
  /\ \A s \in {"articles", "csr"} : disk[s] \notin {NotBuilt, Torn}
  /\ disk' = [disk EXCEPT ![stage] = Made(stage, corpus, disk)]
  /\ whole' = (whole /\ corpus = since)
  /\ server' = Down
  /\ UNCHANGED <<corpus, next, since, kills>>

\* Without a journal, and with files written in place, the stage that was
\* under way leaves neither the old nor the new.
Killed ==
  /\ next \in DOMAIN Stages
  /\ kills < MaxKills
  /\ kills' = kills + 1
  /\ disk' = [disk EXCEPT ![Stages[next]] = Torn]
  /\ next' = 0
  /\ UNCHANGED <<corpus, since, whole, server>>

\* The corpus is extracted again; the operator does not do so under a build
\* or a reader.
ReExtracted ==
  /\ next = 0
  /\ corpus' \in Corpora
  /\ corpus' # corpus
  /\ server' = Down
  /\ UNCHANGED <<disk, next, since, whole, kills>>

\* Reader.__init__: the arrays are loaded, the tables are read as they are
\* asked for, and what is absent of the optional ones is noted.
Serve ==
  /\ next = 0
  /\ server = Down
  /\ \A s \in ToSet(Stages) : disk[s] # Torn
  /\ \A s \in ToSet(Stages) \ Optional : disk[s] # NotBuilt
  /\ server' = [id2row |-> disk.id2row, csr |-> disk.csr,
                undirected |-> disk.undirected,
                hasRedir |-> disk.redirects # NotBuilt,
                hasCats |-> disk.categories # NotBuilt]
  /\ UNCHANGED <<corpus, disk, next, since, whole, kills>>

BuildNext ==
  \/ BuildBegin \/ BuildStage \/ BuildFails \/ Killed \/ ReExtracted \/ Serve
  \/ \E stage \in Optional : BuildOne(stage)

-----------------------------------------------------------------------------
(* Correctness.                                                            *)

\* The artifacts of a build over nothing.
Fresh(c) ==
  FoldLeft(LAMBDA d, stage : [d EXCEPT ![stage] = Made(stage, c, d)],
           [s \in ToSet(Stages) |-> NotBuilt], Stages)

\* A build that ends leaves what a first build of its corpus would have
\* left, whatever was there: torn by a kill, of an older extraction, partly
\* rebuilt (cmd_build, 428-475). Without a redirects file an older redirect
\* table stays (328-331).
BuildConverges ==
  whole => \A s \in ToSet(Stages) :
             \/ s = "redirects" /\ ~since.hasRedirects
             \/ disk[s] = Fresh(since)[s]

\* The adjacencies are those of the edge files: every edge once in the out
\* lists, in order, twice in the undirected ones (227-305); and each article
\* is found at its own line, beside lines that do not parse (163-203).
IndexIsTheCorpus ==
  whole =>
    LET edges == FlattenSeq(since.edges)
        ends == UNION {{edges[i][1], edges[i][2]} : i \in DOMAIN edges}
        out(u) == SelectSeq(edges, LAMBDA e : e[1] = u)
    IN /\ \A u \in ends :
            /\ Out(disk.csr, u) = [i \in DOMAIN out(u) |-> out(u)[i][2]]
            /\ \A v \in ends :
                 Cardinality({i \in DOMAIN Out(disk.undirected, u) :
                                Out(disk.undirected, u)[i] = v}) =
                 Cardinality({i \in DOMAIN edges : edges[i] = <<u, v>>}) +
                 Cardinality({i \in DOMAIN edges : edges[i] = <<v, u>>})
       /\ \A a \in disk.articles :
            LET line == since.articles[a.shard][a.offset] IN
            line # Junk /\ line.id = a.id /\ line.title = a.title

\* An index that a build has ended is the extraction's, however often builds
\* were killed and over whatever they left (cmd_build, 428-475; 163-305).
IndexIsWhole == BuildConverges /\ IndexIsTheCorpus

=============================================================================
