----------------------------- MODULE WikiMarkup -----------------------------
(***************************************************************************)
(* Titles, links and redirects of a wiki dump (tools/wiki_extract.py,      *)
(* tools/wiki_extract_html.py), and the two HTML parsers of the corpus:    *)
(* the sanitizer of the latter, the infobox parser of                      *)
(* tools/wiki_enrich_batch.py.                                             *)
(*                                                                         *)
(* A page is [title, ns, to, links, cats, body], where `to' is the title   *)
(* it redirects to, or NotRedirect.  A wikilink is [colon, cat, title]: a  *)
(* leading colon, the Category prefix, the rest.                           *)
(*                                                                         *)
(* A document is a sequence of tokens [k, tag, cls, to], with k one of     *)
(* "start", "self", "end" and "text"; cls is "" or the one class that      *)
(* matters, `to' the title of a link or the text.                          *)
(***************************************************************************)
EXTENDS Naturals, Sequences, SequencesExt, FiniteSets, TLC

CONSTANTS
  Key,          \* normalize_title, as a function of the raw titles
  NoKey,        \* the empty key
  NotRedirect,  \* the page is an article
  MaxHops,      \* _MAX_REDIRECT_HOPS
  Allowed, Void, DropTags, CruftClasses,  \* _ALLOWED, _VOID, _DROP, _CRUFT_CLASS
  Property      \* _normalize_prop, as a function of the labels

NoLimit == 99                       \* --max-articles was not given

NormalizeTitle(raw) == Key[raw]

\* A link to a category page keeps the prefix in its key, which no article has.
ResolveLinkTarget(l) == IF l.cat THEN NoKey ELSE NormalizeTitle(l.title)

\* Membership is a category link without the leading colon.
CategoryName(l) == IF l.cat /\ ~l.colon THEN NormalizeTitle(l.title) ELSE NoKey

\* parse_article: the membership links are categories, the others are links.
ParseArticle(p) ==
  [links |-> SelectSeq(p.links, LAMBDA l : CategoryName(l) = NoKey),
   cats  |-> {CategoryName(p.links[i]) : i \in DOMAIN p.links} \ {NoKey}]

\* Where a chain of redirects stands after n hops.
Hop(key, redirects) ==
  LET at[n \in 0..MaxHops] ==
        IF n = 0 THEN key
        ELSE IF at[n - 1] \in DOMAIN redirects THEN redirects[at[n - 1]] ELSE NoKey
  IN at

\* The first key on the chain that is an article's, within the bound.
ResolveEdge(key, ids, redirects) ==
  LET at   == Hop(key, redirects)
      hits == {n \in 0..(MaxHops - 1) : at[n] \in DOMAIN ids}
  IN IF hits = {} THEN NoKey
     ELSE ids[at[CHOOSE n \in hits : \A m \in hits : n <= m]]

\* Out-edges of an article: resolved, not to itself, each target once.
OutEdges(aid, keys, ids, redirects) ==
  LET add(s, k) == LET dst == IF k = NoKey THEN NoKey ELSE ResolveEdge(k, ids, redirects)
                   IN IF dst = NoKey \/ dst = aid \/ (\E i \in DOMAIN s : s[i] = dst)
                      THEN s ELSE Append(s, dst)
      dsts == FoldLeft(add, <<>>, keys)
  IN [i \in DOMAIN dsts |-> <<aid, dsts[i]>>]

\* first_pass over the articles: ids in the order in which keys are met.
Index(titles, max) ==
  FoldLeft(LAMBDA ids, t :
             IF Cardinality(DOMAIN ids) >= max \/ Key[t] = NoKey \/ Key[t] \in DOMAIN ids THEN ids
             ELSE ids @@ (Key[t] :> Cardinality(DOMAIN ids)),
           <<>>, titles)

\* The redirects that are read before the last article is indexed; the first of
\* two with one source.
Redirects(pages, max) ==
  LET step(s, p) ==
        IF s.full \/ p.ns # 0 \/ Key[p.title] = NoKey THEN s
        ELSE IF p.to # NotRedirect
             THEN [s EXCEPT !.map = IF Key[p.to] = NoKey \/ Key[p.title] \in DOMAIN @ THEN @
                                    ELSE @ @@ (Key[p.title] :> Key[p.to])]
             ELSE LET seen == s.keys \cup {Key[p.title]} IN
                  [s EXCEPT !.keys = seen, !.full = Cardinality(seen) >= max]
  IN FoldLeft(step, [map |-> <<>>, keys |-> {}, full |-> FALSE], pages).map

\* load_redirects: both titles are normalised, the last of two sources stays.
LoadRedirects(rows) ==
  FoldLeft(LAMBDA m, r : IF Key[r[1]] = NoKey \/ Key[r[2]] = NoKey THEN m
                         ELSE (Key[r[1]] :> Key[r[2]]) @@ m,
           <<>>, rows)

\* COPY's text format: a backslash, a tab or a line end takes a backslash.
CopyEscape(field) ==
  FlattenSeq([i \in DOMAIN field |->
    IF field[i] \in {"\\", "\t", "\n"}
    THEN <<"\\", CASE field[i] = "\t" -> "t" [] field[i] = "\n" -> "n" [] OTHER -> "\\">>
    ELSE <<field[i]>>])

\* What COPY makes of a field.
CopyRead(field) ==
  LET step(s, c) ==
        IF s.escaped
        THEN [escaped |-> FALSE,
              out |-> Append(s.out, CASE c = "t" -> "\t" [] c = "n" -> "\n" [] OTHER -> c)]
        ELSE IF c = "\\" THEN [s EXCEPT !.escaped = TRUE]
        ELSE [s EXCEPT !.out = Append(@, c)]
  IN FoldLeft(step, [escaped |-> FALSE, out |-> <<>>], field).out

-----------------------------------------------------------------------------
(* The parsers.                                                            *)

Dropped(t) == t.tag \in DropTags \/ t.cls \in CruftClasses

\* _emit_start: inside a dropped subtree only the nesting is followed.
EmitStart(s, t) ==
  LET opens == t.k = "start" /\ t.tag \notin Void IN
  IF s.skip > 0 THEN [s EXCEPT !.skip = IF opens THEN @ + 1 ELSE @]
  ELSE IF ~s.body THEN [s EXCEPT !.body = (t.tag = "body")]
  ELSE IF Dropped(t) THEN [s EXCEPT !.skip = IF opens THEN 1 ELSE 0]
  ELSE IF t.tag \in Allowed
       THEN [s EXCEPT !.out = Append(@, t),
                      !.links = IF t.tag = "a" /\ t.to # NoKey THEN Append(@, t.to) ELSE @]
  ELSE s

EmitEnd(s, t) ==
  IF s.skip > 0 THEN [s EXCEPT !.skip = IF t.tag \in Void THEN @ ELSE @ - 1]
  ELSE IF ~s.body THEN s
  ELSE IF t.tag = "body" THEN [s EXCEPT !.body = FALSE]
  ELSE IF t.tag \in Allowed \ Void THEN [s EXCEPT !.out = Append(@, t)]
  ELSE s

EmitData(s, t) ==
  IF s.body /\ s.skip = 0 THEN [s EXCEPT !.out = Append(@, t)] ELSE s

\* sanitize: the fragment and the titles that it links to.
Sanitize(doc) ==
  FoldLeft(LAMBDA s, t : CASE t.k = "end" -> EmitEnd(s, t)
                           [] t.k = "text" -> EmitData(s, t)
                           [] OTHER -> EmitStart(s, t),
           [out |-> <<>>, links |-> <<>>, body |-> FALSE, skip |-> 0], doc)

\* The same by the definition: a token is kept when the elements around it include
\* the body and none that is dropped.  For documents whose elements nest.
Opens(doc, i) == doc[i].k = "start" /\ doc[i].tag \notin Void
Depth(doc, i) == Cardinality({j \in 1..i : Opens(doc, j)})
                   - Cardinality({j \in 1..i : doc[j].k = "end"})
Around(doc, i) ==
  {j \in 1..(i - 1) : Opens(doc, j)
      /\ \A m \in j..(i - 1) : Depth(doc, m) >= Depth(doc, j)}
Kept(doc, i) ==
  LET around == Around(doc, i)
      own    == IF doc[i].k = "end" THEN {} ELSE {i}
  IN /\ \E j \in around : doc[j].tag = "body"
     /\ doc[i].k = "text" \/ (doc[i].tag \in Allowed /\ (doc[i].k = "end" => doc[i].tag \notin Void))
     /\ \A j \in around \cup (IF doc[i].k = "text" THEN {} ELSE own) :
          doc[j].tag = "body" \/ ~Dropped(doc[j])
KeptTokens(doc) ==
  LET kept == SelectSeq([i \in DOMAIN doc |-> i], LAMBDA i : Kept(doc, i))
  IN [i \in DOMAIN kept |-> doc[kept[i]]]

-----------------------------------------------------------------------------
(* _InfoboxParser: rows of cells of the tables that are infoboxes. *)

NoCell == [tag |-> "", cls |-> "", text |-> <<>>, links |-> <<>>]
NoRow == <<NoCell>>                \* no row is open; a cell has a tag

BoxStart(s, t) ==
  IF t.tag = "table"
  THEN [s EXCEPT !.depth = @ + 1,
                 !.box = IF @ = 0 /\ t.cls = "infobox" THEN s.depth + 1 ELSE @]
  ELSE IF s.box = 0 THEN s
  ELSE CASE t.tag = "tr" -> [s EXCEPT !.row = <<>>]
         [] t.tag \in {"th", "td"} /\ s.row # NoRow ->
              [s EXCEPT !.cell = [tag |-> t.tag, cls |-> t.cls, text |-> <<>>, links |-> <<>>]]
         [] t.tag = "a" /\ s.cell # NoCell /\ t.to # NoKey ->
              [s EXCEPT !.cell.links = Append(@, t.to)]
         [] OTHER -> s

BoxEnd(s, t) ==
  CASE t.tag \in {"th", "td"} /\ s.cell # NoCell ->
         [s EXCEPT !.row = Append(@, s.cell), !.cell = NoCell]
    [] t.tag = "tr" /\ s.row # NoRow ->
         [s EXCEPT !.rows = IF s.row = <<>> THEN @ ELSE Append(@, s.row), !.row = NoRow]
    [] t.tag = "table" ->
         [s EXCEPT !.box = IF @ # 0 /\ s.depth = @ THEN 0 ELSE @, !.depth = @ - 1]
    [] OTHER -> s

BoxData(s, t) ==
  IF s.cell # NoCell THEN [s EXCEPT !.cell.text = Append(@, t.to)] ELSE s

InfoboxRows(doc) ==
  FoldLeft(LAMBDA s, t : CASE t.k = "end" -> BoxEnd(s, t)
                           [] t.k = "text" -> BoxData(s, t)
                           [] OTHER -> BoxStart(s, t),
           [rows |-> <<>>, depth |-> 0, box |-> 0, row |-> NoRow, cell |-> NoCell], doc).rows

\* parse_infobox_facts: the first label cell names the property, the other cells
\* that hold data are its value; a row without either is no fact.
RowFact(row) ==
  LET labels == {i \in DOMAIN row : row[i].tag = "th" \/ row[i].cls = "label"}
      label  == CHOOSE i \in labels : \A j \in labels : i <= j
      cells  == SelectSeq([i \in DOMAIN row |-> i],
                  LAMBDA i : i # label /\ (row[i].tag = "td" \/ row[i].cls = "data"))
      value  == FlattenSeq([i \in DOMAIN cells |-> row[cells[i]].text])
      links  == FlattenSeq([i \in DOMAIN cells |-> row[cells[i]].links])
  IN IF labels = {} THEN <<>>
     ELSE IF row[label].text = <<>> \/ cells = <<>> \/ (value = <<>> /\ links = <<>>) THEN <<>>
     ELSE IF Property[Head(row[label].text)] = NoKey THEN <<>>
     ELSE << [prop |-> Property[Head(row[label].text)], value |-> value, links |-> links] >>

ParseInfoboxFacts(doc) ==
  LET rows == InfoboxRows(doc) IN FlattenSeq([i \in DOMAIN rows |-> RowFact(rows[i])])

=============================================================================
