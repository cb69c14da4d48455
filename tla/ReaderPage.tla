----------------------------- MODULE ReaderPage -----------------------------
(***************************************************************************)
(* What the wiki reader makes of an article (tools/wiki_reader.py): the    *)
(* lines of a plain body, the links put into a piece of text, and the      *)
(* sanitizer of structured HTML, which the parser calls tag by tag.        *)
(*                                                                         *)
(* A piece of text is a sequence of words [w, gap]: gap is what stands     *)
(* before the word, " " or something else.  A phrase is a sequence of      *)
(* words in lower case, as a title is.                                     *)
(***************************************************************************)
EXTENDS Integers, Sequences, FiniteSets, SequencesExt, FiniteSetsExt, TLC, ReaderSearch

CONSTANTS
  SkipWords,       \* _SKIP_WORDS
  OneLetter,       \* the words of one letter
  MaxPhrase,       \* MAX_PHRASE_WORDS
  LineKinds,       \* what a line may be: "heading", "bullet", "prose", "blank"
  Tags,            \* the tags of a document, each of a kind below
  Words,           \* the words of a piece of text
  MaxEvents,       \* bound on a body or a piece
  MaxTags,         \* bound on a document
  Orders,          \* the orders in which the vector index may return its labels
  Filters,         \* the filters of a search
  Queries          \* the words a title is searched for

VARIABLES
  aid,             \* the article shown, or NoNode
  body,            \* the lines of its plain body so far
  piece,           \* the piece of text so far
  doc              \* the sanitizer: [skip, astack, depth, out]

pageVars == <<aid, body, piece, doc>>

-----------------------------------------------------------------------------
(* Plain bodies: headings, runs of bullets, paragraphs.                    *)

Part(kind, lines) == [kind |-> kind, lines |-> lines]

Flush(acc) ==
  IF acc.buf = <<>> THEN acc
  ELSE [parts |-> Append(acc.parts, Part("p", acc.buf)), buf |-> <<>>]

\* One bullet alone is prose.
PutBullets(acc, run) ==
  IF Len(run) < 2 THEN [acc EXCEPT !.buf = @ \o run]
  ELSE [parts |-> Append(Flush(acc).parts, Part("ul", run)), buf |-> <<>>]

\* The bullets from line i on.
RunFrom(kinds, i) ==
  LET stop == {j \in i..Len(kinds) : kinds[j] # "bullet"}
      last == IF stop = {} THEN Len(kinds) ELSE Min(stop) - 1
  IN  [j \in 1..(last - i + 1) |-> i + j - 1]

RECURSIVE Parts(_, _, _)
Parts(kinds, i, acc) ==
  IF i > Len(kinds) THEN Flush(acc).parts
  ELSE CASE kinds[i] = "blank"   -> Parts(kinds, i + 1, acc)
         [] kinds[i] = "heading" -> Parts(kinds, i + 1,
              [parts |-> Append(Flush(acc).parts, Part("h3", <<i>>)), buf |-> <<>>])
         [] kinds[i] = "bullet"  -> LET run == RunFrom(kinds, i) IN
              Parts(kinds, i + (IF Len(run) < 2 THEN 1 ELSE Len(run)), PutBullets(acc, run))
         [] OTHER                -> Parts(kinds, i + 1, [acc EXCEPT !.buf = Append(@, i)])

\* The lines of each part, by number.
LinkBody(kinds) == Parts(kinds, 1, [parts |-> <<>>, buf |-> <<>>])

-----------------------------------------------------------------------------
(* Links in a piece of text.                                               *)

\* Surface -> article: titles of the article's out-links, then their aliases,
\* the first of each surface; a title of one letter is none.
SurfaceMap(a) ==
  LET ids    == OutTargetTitles(a)
      titles == SetToSortSeq({i \in ids : TitleOf(i) \notin {<<w>> : w \in OneLetter}}, <)
      alias  == AliasesFor(ids)
      all    == [i \in DOMAIN titles |-> <<TitleOf(titles[i]), titles[i]>>] \o
                [i \in DOMAIN alias |-> <<alias[i].alias, alias[i].target>>]
  IN  [s \in {all[i][1] : i \in DOMAIN all} |->
         all[Min({i \in DOMAIN all : all[i][1] = s})][2]]

\* Every title -> its article; of two of one title the one linked to more,
\* then the one read first.
GlobalMap ==
  LET keys == {TitleOf(i) : i \in TitledIds} \ {<<w>> : w \in SkipWords}
      of(k) == {i \in TitledIds : TitleOf(i) = k}
      best(k) == CHOOSE i \in of(k) : \A j \in of(k) :
                   InDegree(i) > InDegree(j) \/ (InDegree(i) = InDegree(j) /\ i <= j)
  IN  [k \in keys |-> best(k)]

Phrase(frag, i, n) == [j \in 1..n |-> frag[i + j - 1].w]

\* The layer-A expression matches the text as it stands; the tokens of the
\* other layer may have anything between them.
AsWritten(frag, i, n) == \A j \in (i + 1)..(i + n - 1) : frag[j].gap = " "

Lengths(frag, i) == 1..(Len(frag) - i + 1)

RECURSIVE LayerA(_, _, _)
LayerA(frag, i, surf) ==
  IF i > Len(frag) THEN {}
  ELSE LET hits == {n \in Lengths(frag, i) :
                      AsWritten(frag, i, n) /\ Phrase(frag, i, n) \in DOMAIN surf}
       IN  IF hits = {} THEN LayerA(frag, i + 1, surf)
           ELSE LET n == Max(hits) IN
                {[from |-> i, to |-> i + n - 1, id |-> surf[Phrase(frag, i, n)]]}
                  \cup LayerA(frag, i + n, surf)

Covered(spans) == UNION {s.from..s.to : s \in spans}

\* Mutant: only the first word of a phrase is looked at.
GlobalHitsFirst(frag, i, spans, gmap, a) ==
  {n \in Lengths(frag, i) \cap 1..MaxPhrase :
     /\ i \notin Covered(spans)
     /\ ~(n = 1 /\ frag[i].w \in SkipWords \cup OneLetter)
     /\ Phrase(frag, i, n) \in DOMAIN gmap
     /\ gmap[Phrase(frag, i, n)] # a}

\* The phrases of the other layer at i, the longest of which is taken.
GlobalHits(frag, i, spans, gmap, a) ==
  {n \in Lengths(frag, i) \cap 1..MaxPhrase :
     /\ (i..(i + n - 1)) \cap Covered(spans) = {}
     /\ ~(n = 1 /\ frag[i].w \in SkipWords \cup OneLetter)
     /\ Phrase(frag, i, n) \in DOMAIN gmap
     /\ gmap[Phrase(frag, i, n)] # a}

RECURSIVE LayerB(_, _, _, _, _)
LayerB(frag, i, spans, gmap, a) ==
  IF i > Len(frag) THEN {}
  ELSE LET hits == GlobalHits(frag, i, spans, gmap, a) IN
       IF hits = {} THEN LayerB(frag, i + 1, spans, gmap, a)
       ELSE LET n == Max(hits) IN
            {[from |-> i, to |-> i + n - 1, id |-> gmap[Phrase(frag, i, n)]]}
              \cup LayerB(frag, i + n, spans, gmap, a)

Linkify(frag, a) ==
  LET real == LayerA(frag, 1, SurfaceMap(a))
  IN  real \cup LayerB(frag, 1, real, GlobalMap, a)

-----------------------------------------------------------------------------
(* The sanitizer.  A tag is of a kind: "dropped" with all it holds,        *)
(* "void" (dropped alone), "kept", "unknown" (unwrapped), "link" (an a     *)
(* with a title), "filelink" (one whose title is of a dropped namespace),  *)
(* or "anchor" (any other a).                                              *)

NewDoc == [skip |-> 0, astack |-> <<>>, depth |-> 0, out |-> <<>>]

OpenA(kind) ==
  IF kind = "link"
  THEN doc' = [doc EXCEPT !.out = Append(@, "<a>"), !.depth = @ + 1,
                          !.astack = Append(@, TRUE)]
  ELSE doc' = [doc EXCEPT !.astack = Append(@, FALSE)]

HandleStartTag(kind) ==
  IF doc.skip > 0
  THEN doc' = [doc EXCEPT !.skip = IF kind = "dropped" THEN @ + 1 ELSE @]
  ELSE CASE kind = "dropped" -> doc' = [doc EXCEPT !.skip = 1]
         [] kind \in {"link", "filelink", "anchor"} -> OpenA(kind)
         [] kind = "kept"    -> doc' = [doc EXCEPT !.out = Append(@, "<kept>")]
         [] OTHER            -> UNCHANGED doc

HandleEndTag(kind) ==
  CASE doc.skip > 0 ->
         doc' = [doc EXCEPT !.skip = IF kind = "dropped" THEN @ - 1 ELSE @]
    [] doc.skip = 0 /\ kind \in {"link", "filelink", "anchor"} ->
         IF doc.astack = <<>> THEN UNCHANGED doc
         ELSE IF Last(doc.astack)
         THEN doc' = [doc EXCEPT !.astack = Front(@), !.out = Append(@, "</a>"),
                                 !.depth = @ - 1]
         ELSE doc' = [doc EXCEPT !.astack = Front(@)]
    [] doc.skip = 0 /\ kind = "kept" -> doc' = [doc EXCEPT !.out = Append(@, "</kept>")]
    [] OTHER -> UNCHANGED doc

HandleData ==
  IF doc.skip > 0 THEN UNCHANGED doc
  ELSE doc' = [doc EXCEPT !.out = Append(@, IF doc.depth = 0 THEN "linked" ELSE "text")]

-----------------------------------------------------------------------------

PageInit == aid = NoNode /\ body = <<>> /\ piece = <<>> /\ doc = NewDoc

\* A request shows one article, with whatever text it has.
Show(a) ==
  /\ aid = NoNode
  /\ aid' = a
  /\ UNCHANGED <<body, piece, doc, indexVars>>

NextLine(kind) ==
  /\ aid # NoNode /\ piece = <<>> /\ doc = NewDoc
  /\ Len(body) < MaxEvents
  /\ body' = Append(body, kind)
  /\ UNCHANGED <<aid, piece, doc, indexVars>>

NextWord(w, gap) ==
  /\ aid # NoNode /\ body = <<>> /\ doc = NewDoc
  /\ Len(piece) < MaxEvents
  /\ piece' = Append(piece, [w |-> w, gap |-> gap])
  /\ UNCHANGED <<aid, body, doc, indexVars>>

NextTag ==
  /\ aid # NoNode /\ body = <<>> /\ piece = <<>>
  /\ Len(doc.out) + Len(doc.astack) + doc.skip < MaxTags
  /\ \/ \E kind \in Tags : HandleStartTag(kind) \/ HandleEndTag(kind)
     \/ HandleData
  /\ UNCHANGED <<aid, body, piece, indexVars>>

Shown ==
  /\ aid # NoNode
  /\ aid' = NoNode /\ body' = <<>> /\ piece' = <<>> /\ doc' = NewDoc
  /\ UNCHANGED indexVars

IndexInit == BuildInit /\ PageInit

IndexNext ==
  \/ aid = NoNode /\ BuildNext /\ UNCHANGED pageVars
  \/ server # Down /\ \E a \in TitledIds : Show(a)
  \/ \E kind \in LineKinds : NextLine(kind)
  \/ \E w \in Words, gap \in {" ", ", "} : NextWord(w, gap)
  \/ NextTag
  \/ Shown

indexPageVars == <<indexVars, pageVars>>
IndexSpec == IndexInit /\ [][IndexNext]_indexPageVars

-----------------------------------------------------------------------------
(* Correctness: what the answers and the pages promise of the index.       *)

\* A reader that was started on a build that ended; its pages aside.
Serving == server # Down /\ whole /\ corpus = since /\ aid = NoNode

\* The index returns what is embedded.
Labels == {SelectSeq(o, Embedded) : o \in Orders}

-----------------------------------------------------------------------------
(* Paths.                                                                  *)

Beside(u) == ToSet(Out(server.undirected, u))

RECURSIVE Ball(_, _)
Ball(u, n) == IF n = 0 THEN {u}
              ELSE LET b == Ball(u, n - 1) IN b \cup UNION {Beside(x) : x \in b}

\* The connection finder's path is a path of links between its ends and no
\* shorter one exists; when it finds none, either there is none of MaxHops
\* links or the articles about the two ends exceed its bound
\* (connection_path, 1091-1159: "Shortest undirected hyperlink path a..b").
PathIsShortest ==
  Serving => \A a, b \in Nodes(server.undirected) :
    LET answer == PathAnswer(a, b)
        p == answer.path
    IN  IF answer.found
        THEN /\ p[1] = a /\ p[Len(p)] = b
             /\ \A i \in 1..(Len(p) - 1) : p[i + 1] \in Beside(p[i])
             /\ \A n \in 0..(answer.hops - 1) : b \notin Ball(a, n)
        ELSE \/ b \notin Ball(a, MaxHops)
             \/ Cardinality(Ball(a, MaxHops) \cup Ball(b, MaxHops)) > MaxExpand

-----------------------------------------------------------------------------
(* Answers and searches.                                                   *)

LinksFrom(u) == ToSet(Out(server.csr, u))

RECURSIVE Reached(_, _)
Reached(u, n) == IF n = 0 THEN {u}
                 ELSE LET r == Reached(u, n - 1) IN r \cup UNION {LinksFrom(x) : x \in r}

\* Every passage of an answer has an article; one that was not near the
\* question is within the hops of the seed the answer names for it, and it is
\* in no answer without its seed (_expand_graph, 1740-1778: "a 2-hop pick
\* still cites a real seed"; ask, 1780-1847).
AskCitesSeeds ==
  Serving => \A labels \in Labels, expand \in BOOLEAN, hops \in {0, 1, 2} :
    LET got == Ask(server.csr, labels, TitledIds, expand, hops, SeedPassages)
        seeds == {got[i].id : i \in {j \in DOMAIN got : got[j].via = NoNode}}
    IN  /\ Len(got) <= MaxPassages
        /\ \A i \in DOMAIN got :
             /\ got[i].id \in TitledIds
             /\ got[i].via # NoNode => /\ got[i].via \in seeds
                                       /\ got[i].id \notin seeds
                                       /\ got[i].id \in Reached(got[i].via, Max({1, hops}))

\* The conditions of a filter, each on its own.
Satisfies(x, f) ==
  /\ x \in TitledIds
  /\ InDegree(x) >= f.minIn
  /\ f.cat # "" /\ server.hasCats => \E i \in DOMAIN disk.categories :
                                       disk.categories[i] = <<x, f.cat>>
  /\ f.minLen > 0 \/ f.maxLen > 0 =>
       \E l \in Lines(corpus.articles) :
         /\ l.line.id = x /\ l.line.len >= f.minLen
         /\ f.maxLen > 0 => l.line.len <= f.maxLen
         /\ ~\E m \in Lines(corpus.articles) : m.line.id = x /\ Before(m, l)

SearchesAreHonest ==
  \A labels \in Labels, f \in Filters :
    /\ SearchSemantic(labels, Len(labels), f).ids =
         SelectSeq(labels, LAMBDA x : Satisfies(x, f))
    /\ \A seed \in 1..2 :
         LET seeds == ToSet(Prefix(labels, seed))
             linked == UNION {LinksFrom(s) : s \in seeds} \ seeds
             got == SearchTrimodal(labels, seed, 150, TRUE, f).results
         IN  /\ {got[i].id : i \in DOMAIN got} =
                  {x \in seeds \cup linked : Satisfies(x, f)}
             /\ \A i \in DOMAIN got :
                  /\ got[i].prov = IF got[i].id \in seeds THEN "meaning" ELSE "linked"
                  /\ got[i].graph > 0 <=> got[i].id \in linked
    /\ \A a \in TitledIds, k \in 1..2 :
         LET got == RelatedFused(a, labels, k, 50)
             near == ToSet(Semantic(a, labels, 50))
             out == LinksFrom(a) \cup UNION {LinksFrom(x) : x \in LinksFrom(a)}
             all == ((near \cup out) \cap TitledIds) \ {a}
             gone == ((near \cup out) \ TitledIds) \ {a}
         IN  /\ \A i \in DOMAIN got :
                  /\ got[i].id \in all
                  /\ got[i].prov = "meaning + linked" <=>
                       got[i].id \in near \cap LinksFrom(a)
             /\ Cardinality(gone) <= k => Len(got) = Min({k, Cardinality(all)})

InLinks(a) == {x \in Nodes(server.csr) : a \in LinksFrom(x)} \ ({a} \cup LinksFrom(a))

\* A title search shows articles that have the words, and an article's own
\* title leads to an article of that title; the sources of an enrichment are
\* distinct, and none that links here is left out while one that does not is
\* taken; a section is missed only when the article has it not.
OffersAreHonest ==
  LET order == SetToSortSeq(TitledIds, <) IN
  /\ \A q \in Queries, limit \in 1..2 :
       LET got == SearchTitles(order, q, limit) IN
       /\ Len(got) <= limit /\ IsInjective(got)
       /\ \A i \in DOMAIN got : got[i] \in TitledIds /\ Matches(TitleOf(got[i]), q)
  /\ \A a \in TitledIds :
       /\ \A i \in Resolve(order, [kind |-> "words", words |-> TitleOf(a)]) :
            TitleOf(i) = TitleOf(a)
       /\ \E r \in 0..Max(TitledIds) : RandomArticle(r) = {a}
       /\ \A labels \in Labels :
            LET sem == Semantic(a, labels, 6)
                got == EnrichSourceIds(server.csr, server.undirected, a, sem)
                missed == MissingSections(a, sem, 2)
            IN  /\ IsInjective(got) /\ a \notin ToSet(got) /\ Len(got) <= MaxSources
                /\ InLinks(a) \subseteq ToSet(got) \/ ToSet(got) \subseteq InLinks(a)
                /\ \A h \in DOMAIN missed :
                     /\ Len(missed[h]) >= 2
                     /\ \A art \in Article(a) : h \notin ToSet(art.heads)

\* A filtered search returns of what is near exactly what satisfies every
\* condition, in its order; the three-legged one adds nothing that no seed
\* links to, leaves out no seed, and tells linked from near; the fused list
\* is full while there are articles for it, without the article itself
\* (search_semantic 1420-1520, search_trimodal 1522-1675, related_fused
\* 1227-1327).
ListsAreHonest == Serving => SearchesAreHonest /\ OffersAreHonest

-----------------------------------------------------------------------------
(* Pages.                                                                  *)

Touching(s, t) == s.from <= t.to /\ t.from <= s.to

\* Of a plain body every line that is not blank is shown once and in order,
\* and a list has two items. Of a piece of text no two links touch, a link of
\* the article itself is kept whatever else its words name, no other link
\* leads to the article, and a word that names another article is in a link.
\* Of structured HTML the anchors closed are anchors opened, and text is
\* linked only outside of them (link_body 966-1036, _linkify 867-927,
\* _HtmlSanitizer 2310-2443).
PageIsWhole ==
  aid # NoNode =>
    LET parts  == LinkBody(body)
        shown  == FlattenSeq([i \in DOMAIN parts |-> parts[i].lines])
        spans  == Linkify(piece, aid)
        opened(n) == Cardinality({i \in 1..n : doc.out[i] = "<a>"})
        closed(n) == Cardinality({i \in 1..n : doc.out[i] = "</a>"})
    IN /\ shown = SelectSeq([i \in DOMAIN body |-> i], LAMBDA i : body[i] # "blank")
       /\ \A i \in DOMAIN parts : parts[i].kind = "ul" => Len(parts[i].lines) >= 2
       /\ \A s, t \in spans : s = t \/ ~Touching(s, t)
       /\ LayerA(piece, 1, SurfaceMap(aid)) \subseteq spans
       /\ \A s \in spans : s.id \in OutTargetTitles(aid) \/ s.id # aid
       /\ \A i \in DOMAIN piece :
            GlobalHits(piece, i, {}, GlobalMap, aid) \cap {1} # {} =>
              i \in Covered(spans)
       /\ \A n \in DOMAIN doc.out :
            /\ opened(n) >= closed(n)
            /\ doc.out[n] \in {"linked", "text"} =>
                 (doc.out[n] = "linked" <=> opened(n) = closed(n))

\* What a reader is shown: lists that keep to their conditions, and pages that
\* lose no line and whose links do not overlap (966-1675, 2310-2443).
ShownIsHonest == ListsAreHonest /\ PageIsWhole

=============================================================================
