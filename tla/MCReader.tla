------------------------------ MODULE MCReader ------------------------------
(***************************************************************************)
(* The wiki reader: a behaviour is of its request threads and the overlay  *)
(* they write, or of its index, from the build to the pages shown from it. *)
(***************************************************************************)
EXTENDS ReaderHttp, ReaderPage

CONSTANTS t1, t2

-----------------------------------------------------------------------------
(* The requests.                                                           *)

Key(v) == [value |-> v, letters |-> "ASCII"]

MCRawFacts ==
  {[source |-> 2, key |-> Key("v"), snippet |-> "s"],
   [source |-> 2, key |-> [value |-> "v", letters |-> "lower"], snippet |-> "s"],
   [source |-> 2, key |-> [value |-> "v", letters |-> "other"], snippet |-> "s"],
   [source |-> 2, key |-> Key("long"), snippet |-> "s"]}

Raw(n) == [chars |-> 1, int |-> n]
Long == [chars |-> 600, int |-> -1]

Get(route, id, qs) == [route |-> route, id |-> id, qs |-> qs]
NoParams == <<>>

\* Routes that read and that ask the model, with parameters in range, at their
\* edge, past it, twice and missing.
MCGets ==
  {Get("/", 0, NoParams), Get("/nowhere", 0, NoParams), Get("/search", 0, NoParams),
   Get("/article", NotInt, NoParams), Get("/enrich", 1, NoParams), Get("/enrich", 9, NoParams)}
  \cup {Get("/ask", 0, [q |-> <<Raw(-1)>>, hops |-> h]) :
          h \in {<<Raw(2)>>, <<Raw(3)>>, <<Raw(1), Raw(1)>>}}
  \cup {Get("/path", 0, [from |-> <<p[1]>>, to |-> <<Raw(-1)>>, narrate |-> <<Raw(p[2])>>]) :
          p \in {<<Raw(-1), 1>>, <<Long, 0>>}}
  \cup {Get(p[1], 0, [q |-> <<Raw(-1)>>, min_len |-> <<Raw(5)>>, max_len |-> <<Raw(p[2])>>]) :
          p \in {<<"/search_semantic", 4>>, <<"/search_trimodal", 0>>}}

Post(route, length, token, b) ==
  [route |-> route, length |-> length, token |-> token, body |-> b]

Body(i, s) == [kind |-> "ids", id |-> i, subject |-> s]

MCPosts ==
  {Post(r, "ok", "operator", Body(i, 1)) : r \in Mutations, i \in 1..MaxIds}
  \cup {Post("/enrich/accept", "ok", k, Body(1, 1)) : k \in {"page", "none"}}
  \cup {Post("/enrich/accept", p[1], "operator", [kind |-> p[2]]) :
          p \in {<<"ok", "not JSON">>, <<"ok", "no ids">>, <<"long", "no ids">>, <<"junk", "no ids">>}}
  \cup {Post("/other", "ok", "operator", [kind |-> "no ids"]),
        Post("/enrich/dismiss", "ok", "operator", Body(1, 9))}

\* A server beyond loopback takes fewer tokens and does nothing else.
MCBinds ==
  {[loopback |-> TRUE, allowed |-> FALSE, tokenChars |-> 0],
   [loopback |-> FALSE, allowed |-> TRUE, tokenChars |-> 15],
   [loopback |-> FALSE, allowed |-> FALSE, tokenChars |-> 16]}

-----------------------------------------------------------------------------
(* The index.                                                              *)

Line(i, title, len, heads) == [id |-> i, title |-> title, len |-> len, heads |-> heads]

\* Two shards with a line that does not parse, one id twice, two articles of
\* one title, links to ids that have no article, and articles that have no
\* vector.
Full ==
  [articles |->
     << <<Line(1, <<"al">>, 2, <<"life">>), Junk,
          Line(2, <<"al", "gore">>, 5, <<"life", "works", "life">>)>>,
        <<Line(3, <<"gore">>, 9, <<"works", "life">>), Line(1, <<"gore">>, 7, <<>>),
          Junk, Line(4, <<"al", "gore">>, 5, <<"works">>), Line(6, <<"al">>, 5, <<>>)>> >>,
   edges |-> << << <<1, 2>>, <<2, 3>>, <<1, 3>>, <<3, 1>> >>, <<>>,
                << <<3, 4>>, <<3, 5>>, <<1, 2>>, <<5, 6>>, <<7, 6>>, <<8, 7>>, <<1, 1>>, <<6, 3>> >> >>,
   ids |-> <<1, 2, 3, 5, 4>>,
   hasRedirects |-> TRUE,
   redirects |-> << [alias |-> <<"the", "al">>, canon |-> <<"al", "gore">>, prose |-> TRUE],
                    Junk,
                    [alias |-> <<"gore", "al">>, canon |-> <<"gore">>, prose |-> TRUE],
                    [alias |-> <<"al">>, canon |-> <<"gore">>, prose |-> FALSE],
                    [alias |-> <<"al", "al">>, canon |-> <<"the">>, prose |-> TRUE] >>,
   categories |-> << << <<1, "c">>, Junk >>, << <<3, "c">>, <<2, "d">>, <<3, "d">> >> >>]

\* Two forks that meet, extracted without redirects.
Forks ==
  [articles |-> << <<Line(4, <<"al">>, 2, <<>>), Line(1, <<"the">>, 3, <<"life">>)>>,
                   <<Junk, Line(2, <<"gore">>, 4, <<"life">>)>> >>,
   edges |-> << << <<2, 1>>, <<2, 3>>, <<5, 0>>, <<5, 4>>, <<4, 3>> >> >>,
   ids |-> <<4, 2, 1>>,
   hasRedirects |-> FALSE, redirects |-> <<>>,
   categories |-> << <<>> >>]

\* No edges at all.
Bare == [Forks EXCEPT !.edges = << <<>> >>]

MCCorpora == {Full, Forks, Bare}

MCStarts == {<<"al", "albert">>, <<"go", "gore">>}
MCLog1p == [d \in 0..9 |-> <<0, 6931, 10986, 13863, 16094, 17918, 19459, 20794, 21972, 23026>>[d + 1]]
MCCosine == [i \in 0..9 |-> 9000 - 700 * i]

MCOrders == {<<1, 2, 3, 5, 4>>, <<5, 4, 3, 2, 1>>, <<2, 5, 1, 3, 4>>}
MCFilters == {[minIn |-> n, minLen |-> l[1], maxLen |-> l[2], cat |-> c] :
                n \in {0, 2}, l \in {<<0, 0>>, <<3, 0>>, <<0, 5>>, <<4, 6>>}, c \in {"", "c"}}
MCQueries == {<<>>, <<"al">>, <<"go">>, <<"al", "go">>, <<"gore">>}

-----------------------------------------------------------------------------
VARIABLE part   \* "requests", "index"

\* The other part keeps a state it starts in.
MCInit ==
  /\ part \in {"requests", "index"}
  /\ ReaderInit
  /\ IndexInit
  /\ part = "requests" => corpus = Bare
  /\ part = "index" => bind.loopback

\* Bound: time passes, a commit raises, or a source is not what it was.
RequestStep ==
  /\ part = "requests"
  /\ ReaderNext
  /\ now' + commitFails' + Cardinality({a \in SourceIds : text'[a] # Spans}) <= 1
  /\ UNCHANGED <<indexPageVars, part>>

IndexStep == part = "index" /\ IndexNext /\ UNCHANGED <<readerVars, part>>

MCSpec == MCInit /\ [][RequestStep \/ IndexStep]_<<readerVars, indexPageVars, part>>

ThreadSymmetry == Permutations(Threads)

=============================================================================
