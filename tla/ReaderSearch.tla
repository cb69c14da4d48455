---------------------------- MODULE ReaderSearch ----------------------------
(***************************************************************************)
(* The wiki reader's queries (tools/wiki_reader.py): the walks of its link *)
(* graph (the connection finder, the sources of an enrichment, the hops    *)
(* with which an answer is grounded), title search, what is near in        *)
(* meaning, the fused ranking, and the filtered searches, over the         *)
(* reader's arrays and the tables as they are on disk.                     *)
(*                                                                         *)
(* Adjacencies are those of ReaderIndex; `titled' are the ids that have a  *)
(* row in articles, `near' the labels the vector index returns for a       *)
(* query, nearest first.  A title is a sequence of words in lower case.    *)
(* Cosine is the score of a label; scores are integers, in ten-            *)
(* thousandths.                                                            *)
(***************************************************************************)
EXTENDS Integers, Sequences, FiniteSets, SequencesExt, FiniteSetsExt, TLC, ReaderIndex

CONSTANTS
  MaxHops,        \* connection_path: levels of both sides together
  MaxExpand,      \* connection_path: nodes touched
  PerSeed,        \* _expand_graph: out-links read per node
  MaxSources,     \* ENRICH_MAX_SOURCES
  SeedPassages,   \* ask: seeds of an expanded answer
  MaxPassages,    \* ask: passages of one answer
  Starts,         \* the pairs <<a, b>> of words of which a begins b
  Log1p,          \* degree -> log(1 + degree)
  Cosine,         \* id -> its similarity to the query
  RrfK,           \* rrf_k
  CapDirect,      \* related_fused: direct links whose links are counted
  CapOut,         \* links read of one article
  LinkTargetCap   \* LINK_TARGET_CAP

NoNode == -1

Prefix(s, n) == SubSeq(s, 1, Min({n, Len(s)}))

WithTitle(ids, titled) == SelectSeq(ids, LAMBDA i : i \in titled)

Undirected(undir, u) == Out(undir, u)

-----------------------------------------------------------------------------
(* connection_path: two breadth-first searches, the smaller frontier       *)
(* first.  A side is [parent, frontier]; parent maps visited nodes to the  *)
(* node they were reached from.                                            *)

\* One neighbour of a node; `level` is [parent, nxt, meet].
VisitNeighbor(level, nb, node, other) ==
  IF level.meet # NoNode \/ nb \in DOMAIN level.parent THEN level
  ELSE [parent |-> level.parent @@ (nb :> node),
        meet   |-> IF nb \in DOMAIN other THEN nb ELSE NoNode,
        nxt    |-> IF nb \in DOMAIN other THEN level.nxt ELSE Append(level.nxt, nb)]

Spent(level, other) ==
  Cardinality(DOMAIN level.parent) + Cardinality(DOMAIN other) > MaxExpand

ExpandNode(level, node, other, undir) ==
  IF level.meet # NoNode \/ level.stop THEN level
  ELSE LET met == FoldLeft(LAMBDA l, nb : VisitNeighbor(l, nb, node, other),
                           [parent |-> level.parent, nxt |-> level.nxt, meet |-> NoNode],
                           Undirected(undir, node))
       IN  met @@ [stop |-> Spent(met, other)]

\* Mutant: a level is its first node.
ExpandLevelFirst(side, other, undir) ==
  ExpandNode([parent |-> side.parent, nxt |-> <<>>, meet |-> NoNode, stop |-> FALSE],
             side.frontier[1], other.parent, undir)

\* A whole level of one side.
ExpandLevel(side, other, undir) ==
  FoldLeft(LAMBDA l, node : ExpandNode(l, node, other.parent, undir),
           [parent |-> side.parent, nxt |-> <<>>, meet |-> NoNode, stop |-> FALSE],
           side.frontier)

WalkBack(parent, x) ==
  LET RECURSIVE Up(_)
      Up(y) == IF y = NoNode THEN <<>> ELSE Append(Up(parent[y]), y)
  IN  Up(x)

Joined(pa, pb, meet) == WalkBack(pa, meet) \o Reverse(WalkBack(pb, pb[meet]))

RECURSIVE Search(_, _, _, _)
Search(A, B, hops, undir) ==
  IF hops = 0 \/ A.frontier = <<>> \/ B.frontier = <<>> THEN <<>>
  ELSE LET ofA   == Len(A.frontier) <= Len(B.frontier)
           level == IF ofA THEN ExpandLevel(A, B, undir) ELSE ExpandLevel(B, A, undir)
           grown == [parent |-> level.parent, frontier |-> level.nxt]
       IN  IF level.meet # NoNode
           THEN IF ofA THEN Joined(level.parent, B.parent, level.meet)
                       ELSE Joined(A.parent, level.parent, level.meet)
           ELSE IF level.stop THEN <<>>
           ELSE IF ofA THEN Search(grown, B, hops - 1, undir)
                       ELSE Search(A, grown, hops - 1, undir)

\* <<>> for None.
ConnectionPath(undir, a, b) ==
  IF a = b THEN <<a>>
  ELSE IF {a, b} \subseteq Nodes(undir)
  THEN Search([parent |-> (a :> NoNode), frontier |-> <<a>>],
              [parent |-> (b :> NoNode), frontier |-> <<b>>], MaxHops, undir)
  ELSE <<>>

-----------------------------------------------------------------------------
(* Enrichment sources.                                                     *)

InNeighbors(csr, undir, aid) ==
  (ToSet(Undirected(undir, aid)) \ ToSet(Out(csr, aid))) \ {aid}

\* In-links first, in any order, then out-links, then what is near in
\* meaning; each once, never the article itself, at most MaxSources.
EnrichSourceIds(csr, undir, aid, sem) ==
  LET all == SetToSeq(InNeighbors(csr, undir, aid)) \o Out(csr, aid) \o sem
      first == {i \in DOMAIN all : all[i] # aid /\ ~\E j \in 1..(i - 1) : all[j] = all[i]}
      kept == [i \in 1..Cardinality(first) |->
                 all[CHOOSE k \in first : Cardinality({j \in first : j <= k}) = i]]
  IN  Prefix(kept, MaxSources)

-----------------------------------------------------------------------------
(* _expand_graph and ask.  A candidate is [id, via]: the seed it was       *)
(* reached from.                                                           *)

\* Mutant: the article before it is named, not the seed.
ReachOneStep(acc, x, node) ==
  IF x \in DOMAIN acc.via THEN acc
  ELSE [via |-> acc.via @@ (x :> node), nxt |-> Append(acc.nxt, x)]

ReachOne(acc, x, node) ==
  IF x \in DOMAIN acc.via THEN acc
  ELSE [via |-> acc.via @@ (x :> acc.via[node]), nxt |-> Append(acc.nxt, x)]

ReachLevel(via, frontier, csr) ==
  FoldLeft(LAMBDA acc, node :
             FoldLeft(LAMBDA a, x : ReachOne(a, x, node), acc,
                      Prefix(Out(csr, node), PerSeed)),
           [via |-> via, nxt |-> <<>>], frontier)

RECURSIVE Hops(_, _, _, _)
Hops(via, frontier, n, csr) ==
  IF n = 0 \/ frontier = <<>> THEN via
  ELSE LET level == ReachLevel(via, frontier, csr)
       IN  Hops(level.via, level.nxt, n - 1, csr)

\* The neighbours that have a vector, most relevant to the query first; no
\* hops are one.
ExpandGraph(csr, seeds, hops, near, cap) ==
  LET start == [s \in ToSet(seeds) |-> s]
      via   == Hops(start, seeds, Max({1, hops}), csr)
      found == SelectSeq(near, LAMBDA x : x \in DOMAIN via /\ x \notin ToSet(seeds))
  IN  [i \in DOMAIN Prefix(found, cap) |-> [id |-> found[i], via |-> via[found[i]]]]

\* Labels whose article is gone are skipped; four more than k are asked for.
KnnPassages(near, k, titled) == Prefix(WithTitle(Prefix(near, k + 4), titled), k)

\* The passages of an answer: seeds, then the neighbours that have an article.
Ask(csr, near, titled, expand, hops, k) ==
  LET seeds == KnnPassages(near, IF expand THEN SeedPassages ELSE k, titled)
      picks == IF ~expand \/ seeds = <<>> THEN <<>>
               ELSE ExpandGraph(csr, seeds, hops, near, MaxPassages - Len(seeds))
  IN  [i \in DOMAIN seeds |-> [id |-> seeds[i], via |-> NoNode]] \o
      SelectSeq(picks, LAMBDA p : p.id \in titled)

-----------------------------------------------------------------------------
(* Articles and titles.                                                    *)

RowOf(aid) == {a \in disk.articles : a.id = aid}

TitledIds == {a.id : a \in disk.articles}

TitleOf(aid) == (CHOOSE a \in RowOf(aid) : TRUE).title

\* The record at the place the row names, or nothing.
Article(aid) ==
  {corpus.articles[a.shard][a.offset] @@ ("row" :> a.title) : a \in RowOf(aid)}

\* What a pick r of the random page shows.
RandomArticle(r) ==
  LET above == {i \in TitledIds : i >= r} IN
  IF TitledIds = {} THEN {} ELSE {Min(IF above = {} THEN TitledIds ELSE above)}

OutTargetTitles(aid) ==
  ToSet(Prefix(Out(server.csr, aid), LinkTargetCap)) \cap TitledIds

\* By target, as the index on the table gives them.
AliasesFor(ids) ==
  LET of(i) == SelectSeq(disk.redirects, LAMBDA r : r.target = i)
      sorted == SetToSortSeq(ids, <)
  IN  IF ~server.hasRedir THEN <<>>
      ELSE FlattenSeq([k \in DOMAIN sorted |-> of(sorted[k])])

InDegree(aid) ==
  Cardinality({i \in DOMAIN server.csr.dst : server.csr.dst[i] = aid})

-----------------------------------------------------------------------------
(* search and resolve.                                                     *)

BeginsWith(w, t) == w = t \/ <<t, w>> \in Starts

Matches(title, q) ==
  LET last == Len(q) IN
  /\ \A i \in 1..(last - 1) : q[i] \in ToSet(title)
  /\ \E w \in ToSet(title) : BeginsWith(w, q[last])

TextBegins(title, q) ==
  LET n == Len(q) IN
  /\ n <= Len(title)
  /\ SubSeq(title, 1, n - 1) = SubSeq(q, 1, n - 1)
  /\ BeginsWith(title[n], q[n])

HasWords(title, q) ==
  \E i \in 0..(Len(title) - Len(q)) : SubSeq(title, i + 1, i + Len(q)) = q

Nudge(title, q) ==
  CASE title = q             -> 25000
    [] TextBegins(title, q)  -> 10000
    [] HasWords(title, q)    -> 5000
    [] OTHER                 -> 0

TitleScore(pos, aid, q) ==
  Log1p[InDegree(aid)] + Nudge(TitleOf(aid), q) - pos

\* `order`: the articles as the text index ranks them.
SearchTitles(order, q, limit) ==
  IF q = <<>> THEN <<>>
  ELSE LET rows == Prefix(SelectSeq(order, LAMBDA a : \E f \in disk.fts :
                                      f.id = a /\ Matches(f.title, q)),
                          Max({limit * 5, 200}))
           score(i) == TitleScore(i, rows[i], q)
           ranked == SetToSortSeq(DOMAIN rows, LAMBDA i, j :
                       score(i) > score(j) \/ (score(i) = score(j) /\ i < j))
       IN  Prefix([i \in DOMAIN ranked |-> rows[ranked[i]]], limit)

\* A token is a number (an id) or words.
Resolve(order, token) ==
  IF token.kind = "none" THEN {}
  ELSE IF token.kind = "id" THEN {token.id} \cap TitledIds
  ELSE LET exact == {i \in TitledIds : TitleOf(i) = token.words} IN
       IF exact # {} THEN {Min(exact)} ELSE ToSet(SearchTitles(order, token.words, 1))

\* The /path answer: the ends, and the chain when there is one.
PathAnswer(a, b) ==
  LET chain == IF server.undirected = NotBuilt THEN <<>>
               ELSE ConnectionPath(server.undirected, a, b)
  IN  [found |-> chain # <<>>, path |-> chain, hops |-> Len(chain) - 1]

-----------------------------------------------------------------------------
(* What is near.                                                           *)

Embedded(aid) == aid \in DOMAIN server.id2row /\ server.id2row[aid] >= 0

\* `labels`: the ids the index returns for the article's vector.
Semantic(aid, labels, k) ==
  IF ~Embedded(aid) THEN <<>>
  ELSE WithTitle(Prefix(SelectSeq(Prefix(labels, k + 1), LAMBDA l : l # aid), k),
                 TitledIds)

LastAt(s, x) == Max({i \in DOMAIN s : s[i] = x})
FirstAt(s, x) == Min({i \in DOMAIN s : s[i] = x})
Count(s, x) == Cardinality({i \in DOMAIN s : s[i] = x})

\* Counter.most_common: by count, then as first met.
MostCommon(s, n) ==
  Prefix(SetToSortSeq(ToSet(s), LAMBDA x, y :
           \/ Count(s, x) > Count(s, y)
           \/ Count(s, x) = Count(s, y) /\ FirstAt(s, x) < FirstAt(s, y)), n)

\* What the first direct links link to, once for each link.
TwoHopWalk(aid) ==
  LET direct == Out(server.csr, aid)
      near == Prefix(direct, CapDirect)
      out(u) == SelectSeq(Prefix(Out(server.csr, u), CapOut),
                          LAMBDA x : x # aid /\ x \notin ToSet(direct))
  IN  FlattenSeq([i \in DOMAIN near |-> out(near[i])])

\* A rank counts from 0; of an id listed twice the last rank is kept, as a
\* dictionary of ranks keeps it.
RankIn(s, x) == LastAt(s, x) - 1

\* Reciprocal ranks, as a fraction of D: a missing rank adds nothing.
Share(s, x, D) == IF x \in ToSet(s) THEN D \div (RrfK + RankIn(s, x)) ELSE 0

\* D is divided by every denominator there is.
RrfScore(x, sem, graph, D) == Share(sem, x, D) + Share(graph, x, D)

Provenance(x, sem, direct) ==
  CASE x \in ToSet(sem) /\ x \in ToSet(direct) -> "meaning + linked"
    [] x \in ToSet(sem)                         -> "meaning only"
    [] x \in ToSet(direct)                      -> "linked (1-hop)"
    [] OTHER                                    -> "linked (2-hop)"

Denominators(n) == FoldLeft(LAMBDA p, d : p * d, 1, [i \in 1..n |-> RrfK + i - 1])

RelatedFused(aid, labels, k, pool) ==
  LET sem    == Semantic(aid, labels, pool)
      direct == Out(server.csr, aid)
      graph  == direct \o MostCommon(TwoHopWalk(aid), pool)
      D      == Denominators(Max({Len(sem), Len(graph)}))
      score(x) == RrfScore(x, sem, graph, D)
      ranked == SetToSortSeq((ToSet(sem) \cup ToSet(graph)) \ {aid}, LAMBDA x, y :
                  score(x) > score(y) \/ (score(x) = score(y) /\ x < y))
      top    == Prefix(WithTitle(Prefix(ranked, 2 * k), TitledIds), k)
  IN  [i \in DOMAIN top |-> [id |-> top[i], prov |-> Provenance(top[i], sem, direct)]]

-----------------------------------------------------------------------------
(* The filtered searches.  A filter is [minIn, minLen, maxLen, cat]; 0 and *)
(* "" ask for nothing.                                                     *)

FilterByCategory(ids, cat) ==
  {x \in ids : <<x, cat>> \in ToSet(disk.categories)}

CatsFor(aid, per) ==
  IF ~server.hasCats THEN <<>>
  ELSE Prefix(SelectSeq(disk.categories, LAMBDA c : c[1] = aid), per)

Dedup(s) == SelectSeq([i \in DOMAIN s |-> <<i, s[i]>>], LAMBDA p : FirstAt(s, p[2]) = p[1])

Distinct(s) == [i \in DOMAIN Dedup(s) |-> Dedup(s)[i][2]]

\* A minimum of nothing is not asked; an article whose line is gone fails.
LengthPasses(x, f) ==
  \E art \in Article(x) :
    (f.minLen = 0 \/ art.len >= f.minLen) /\ (f.maxLen = 0 \/ art.len <= f.maxLen)

\* Degree, then category, then length: each looks at what the last left.
\* Without a category table a category asks for nothing.
Filtered(cand, f) ==
  LET linked == IF f.minIn = 0 THEN cand
                ELSE SelectSeq(cand, LAMBDA x : InDegree(x) >= f.minIn)
      tagged == IF f.cat = "" \/ ~server.hasCats THEN linked
                ELSE SelectSeq(linked, LAMBDA x :
                       x \in FilterByCategory(ToSet(linked), f.cat))
  IN  IF f.minLen = 0 /\ f.maxLen = 0 THEN tagged
      ELSE SelectSeq(tagged, LAMBDA x : LengthPasses(x, f))

SearchSemantic(labels, pool, f) ==
  LET cand == WithTitle(Distinct(Prefix(labels, pool)), TitledIds)
      kept == Filtered(cand, f)
  IN  [pre |-> Len(cand), ids |-> kept,
       cats |-> [i \in DOMAIN kept |-> CatsFor(kept[i], 3)]]

\* An article without a vector scores nothing.
ScoreByQuery(x) == IF Embedded(x) THEN Cosine[x] ELSE 0

\* The out-links of the seeds, once for each link, without the seeds.
GraphHits(seeds) ==
  LET out(u) == SelectSeq(Prefix(Out(server.csr, u), CapOut), LAMBDA x : x \notin ToSet(seeds))
  IN  FlattenSeq([i \in DOMAIN seeds |-> out(seeds[i])])

SearchTrimodal(labels, seed, pool, expand, f) ==
  LET seeds == Distinct(Prefix(labels, seed))
      hits  == IF expand THEN GraphHits(seeds) ELSE <<>>
      cand  == WithTitle(Distinct(seeds \o MostCommon(hits, pool)), TitledIds)
      kept  == Filtered(cand, f)
      most  == IF hits = <<>> THEN 1 ELSE Max({Count(hits, x) : x \in ToSet(hits)})
      score(x) == ScoreByQuery(x) + (5000 * Count(hits, x) + most) \div (2 * most)
      ranked == SetToSortSeq(ToSet(kept), LAMBDA x, y :
                  score(x) > score(y) \/ (score(x) = score(y) /\ x < y))
      prov(x) == CASE x \in ToSet(seeds) /\ x \in ToSet(hits) -> "meaning + linked"
                   [] x \in ToSet(seeds) -> "meaning"
                   [] OTHER -> "linked"
  IN  [pre |-> Len(cand), seeds |-> Len(seeds),
       results |-> [i \in DOMAIN ranked |->
         [id |-> ranked[i], score |-> score(ranked[i]), graph |-> Count(hits, ranked[i]),
          prov |-> prov(ranked[i]), cats |-> CatsFor(ranked[i], 3)]]]

-----------------------------------------------------------------------------
(* Sections that articles near in meaning have and the article has not.    *)

SectionHeadings(art) == Distinct(art.heads)

MissingSections(aid, sem, atLeast) ==
  LET own == UNION {ToSet(SectionHeadings(art)) : art \in Article(aid)}
      seen(h) == SelectSeq(sem, LAMBDA x :
                   \E art \in Article(x) : h \in ToSet(SectionHeadings(art)))
      all == UNION {UNION {ToSet(SectionHeadings(art)) : art \in Article(x)} :
                      x \in ToSet(sem)} \ own
      often == {h \in all : Len(seen(h)) >= atLeast}
  IN  [h \in often |-> Prefix(seen(h), 6)]

=============================================================================
