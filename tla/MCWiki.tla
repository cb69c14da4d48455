------------------------------- MODULE MCWiki -------------------------------
EXTENDS WikiLoad

\* Titles that fall together, a redirect, a red link, an empty title; the name of
\* a category has a character that COPY escapes.
MCKey ==
  ("a" :> "A") @@ ("A_" :> "A") @@ ("b" :> "B") @@ ("c" :> "C") @@ ("r" :> "R") @@ ("s" :> "S")
    @@ ("x" :> "X") @@ ("" :> NoKey) @@ ("cat" :> <<"C", "\\">>)

Link(t) == [colon |-> FALSE, cat |-> FALSE, title |-> t]
Category(t) == [colon |-> FALSE, cat |-> TRUE, title |-> t]
Mention(t) == [colon |-> TRUE, cat |-> TRUE, title |-> t]

\* Pages: two articles, a redirect between them, a talk page, a title seen twice.
Article(t, links) ==
  [title |-> t, ns |-> 0, to |-> NotRedirect, links |-> links, body |-> <<>>]
MCDump ==
  << Article("a", <<Link("r"), Link("A_"), Link("x"), Link("r"), Category("cat"), Mention("cat")>>),
     [Article("r", <<>>) EXCEPT !.to = "s"], [Article("s", <<>>) EXCEPT !.to = "b"],
     [Article("c", <<>>) EXCEPT !.ns = 1],
     Article("b", <<Link("a"), Category("cat"), Category("cat")>>), Article("c", <<Link("b")>>) >>
MCTwice == << Article("a", <<>>), Article("b", <<Link("a")>>), Article("c", <<>>), Article("A_", <<>>) >>
MCDumps == {MCDump, MCTwice}

Tok(k, tag) == [k |-> k, tag |-> tag, cls |-> "", to |-> NoKey]
S(tag) == Tok("start", tag)
E(tag) == Tok("end", tag)
A(t) == [S("a") EXCEPT !.to = t]
Text(v) == [Tok("text", "") EXCEPT !.to = v]
Body(seq) == <<S("html"), S("head"), E("head"), S("body")>> \o seq \o <<E("body"), E("html")>>
Box(label, value) ==
  << [S("table") EXCEPT !.cls = "infobox"], S("tr"), S("th"), Text(label), E("th"), S("td") >>
    \o value \o <<E("td"), E("tr"), E("table")>>

\* Documents: a dropped element with a link inside, an infobox, a transparent one.
DocA == Body(<<S("nav"), A("c"), E("a"), E("nav"), S("div"), S("p"), A("r"), Text("t"), E("a"),
               Tok("self", "br"), E("p"), E("div")>> \o Box("spouse", <<A("b"), Text("b"), E("a")>>))
DocB == Body(<<[S("p") EXCEPT !.cls = "navbox"], Text("t"), S("br"), E("p"), S("p"), A("x"), E("a"),
               A("a"), E("a"), E("p")>> \o Box("born", <<Text("1900")>>))
DocC == Body(Box("spouse", <<A("A_"), Text("a"), E("a"), A("b"), E("a")>>))

HtmlArticle(t, doc, cats) == [title |-> t, ns |-> 0, doc |-> doc, cats |-> cats]
MCArchive ==
  [date |-> 1, cut |-> FALSE, members |->
    << << HtmlArticle("a", DocA, <<Category("cat")>>) >>,
       << [HtmlArticle("x", DocB, <<>>) EXCEPT !.ns = 1], HtmlArticle("b", DocB, <<Category("cat")>>),
          HtmlArticle("c", DocC, <<>>) >> >>]
MCCut == [MCArchive EXCEPT !.cut = TRUE, !.members[2] = SubSeq(@, 1, 2)]
MCArchives == {MCArchive, MCCut}

\* The archive of another date: its first member lost an article to the second.
MCNewer ==
  [MCArchive EXCEPT !.date = 2, !.members[1] = << HtmlArticle("c", DocC, <<>>) >>,
                    !.members[2] = SubSeq(@, 1, 2)]
MCDates == {MCArchive, MCNewer}

MCRedirects == << <<"r", "s">>, <<"", "a">>, <<"s", "b">> >>

MCAllowed == {"p", "a", "br", "table", "tr", "th", "td"}
MCProperty == ("spouse" :> "spouse") @@ ("born" :> "born")

Alike == Permutations(Workers)
=============================================================================
