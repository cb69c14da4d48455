------------------------------- MODULE Reach --------------------------------
(***************************************************************************)
(* The vertices within some hops of a seed, and the edge-steps it takes to *)
(* find them, in the order in which both traversals of the graph store     *)
(* serve them.  g[v] is what gs_open and gs_getnext give for v, in slot    *)
(* order and without a type filter; nothing for a vertex that is absent.   *)
(***************************************************************************)
EXTENDS Integers, Sequences, SequencesExt

CONSTANT Vertices   \* the vertices

EdgeTypeAny == 0

\* The elements of s that are in S, in order.
Only(s, S) ==
  FoldLeft(LAMBDA kept, x : IF x \in S THEN Append(kept, x) ELSE kept, <<>>, s)

\* The edges of v that pass gs_getnext's type filter.
OutEdges(g, type, v) ==
  Only(g[v], {e \in ToSet(g[v]) : type \in {EdgeTypeAny, e.type}})

Visit(st, v) ==
  IF v \in st.visited THEN st
  ELSE [visited |-> st.visited \cup {v}, next |-> Append(st.next, v)]

\* The destinations of the frontier's edges, in the order they are served.
Destinations(g, type, frontier) ==
  FoldLeft(LAMBDA dsts, v :
             LET out == OutEdges(g, type, v)
             IN  dsts \o [i \in DOMAIN out |-> out[i].dst],
           <<>>, frontier)

Hop(g, type, bfs) ==
  LET dsts == Destinations(g, type, bfs.frontier)
      st == FoldLeft(Visit, [visited |-> bfs.visited, next |-> <<>>], dsts)
  IN  [visited |-> st.visited, frontier |-> st.next,
       ids |-> bfs.ids \o st.next, steps |-> bfs.steps \o dsts]

\* gph_traverse_bfs: hop by hop, the whole frontier at a time.
Search(g, seed, depth, type) ==
  LET after[d \in Int] ==
        IF d <= 0 THEN [visited |-> {seed}, frontier |-> <<seed>>,
                        ids |-> <<>>, steps |-> <<>>]
        ELSE Hop(g, type, after[d - 1])
  IN  after[depth]

\* What a caller that pulls gph_traverse_bounded to its end is given, and what
\* it then reads of gph_visits and gph_traverse_bounded_censored.  The budget
\* is compared again after the last edge.
Pull(g, seed, depth, type, budget) ==
  LET steps == Search(g, seed, depth, type).steps
      used == IF Len(steps) < budget THEN Len(steps) ELSE budget
  IN  [ids |-> FoldLeft(Visit, [visited |-> {seed}, next |-> <<>>],
                        SubSeq(steps, 1, used)).next,
       used |-> used,
       censored |-> Len(steps) >= budget]

\* The vertices at the end of a path of at most n edges from those in from.
WithinHops(g, type, from, n) ==
  LET within[k \in Int] ==
        IF k <= 0 THEN from
        ELSE within[k - 1] \cup
               UNION {{e.dst : e \in ToSet(OutEdges(g, type, v))} : v \in within[k - 1]}
  IN  within[n]

=============================================================================
