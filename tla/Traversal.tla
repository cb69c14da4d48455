----------------------------- MODULE Traversal ------------------------------
(***************************************************************************)
(* gph_traverse_bounded, step by step, beside gph_traverse_bfs.            *)
(*                                                                         *)
(* Both list the vertices within max_depth hops of a seed.  The first is   *)
(* pulled one vertex per call and gives up when it has spent its budget of *)
(* edge-steps; the second runs to the end when it is opened.  A call of    *)
(* the first is a few steps of this module, up to the next emission, and   *)
(* a caller may stop after any of them.                                    *)
(*                                                                         *)
(* The store is at rest: adj[v] is what gs_open and gs_getnext give for v, *)
(* in slot order and without a type filter; nothing for a vertex that is   *)
(* absent or deleted.  GraphScan has the scan of one vertex among writers. *)
(***************************************************************************)
EXTENDS Reach, FiniteSets

CONSTANTS
  Seeds,        \* seed arguments
  Adjacencies,  \* the stores: functions from Vertices to sequences of edges
  Types,        \* type_id arguments, EdgeTypeAny for every type
  Depths,       \* max_depth arguments
  Budgets       \* budget arguments

ASSUME AdjacenciesAssumption ==
  Adjacencies \subseteq [Vertices -> Seq([dst : Vertices, type : Nat \ {EdgeTypeAny}])]
ASSUME ArgumentsAssumption ==
  /\ Seeds \subseteq Vertices
  /\ Types \subseteq Nat /\ Depths \subseteq Int
  /\ Budgets \subseteq Nat \ {0}

VARIABLES
  adj,      \* the store
  args,     \* the arguments of both calls
  listed,   \* what gph_traverse_bfs lists
  visited,  \* the vertices enqueued so far, the seed among them
  queue,    \* the (vertex, depth) pairs still to expand
  curScan,  \* cur_scan: the edges not yet served, the depth, whether it is open
  used,     \* edge-steps spent
  emitted,  \* the vertices returned so far
  state     \* "pulling", then "exact" or "censored"

travVars == <<adj, args, listed, visited, queue, curScan, used, emitted, state>>

-----------------------------------------------------------------------------
(* gph_traverse_bounded.                                                   *)

NoScan == [open |-> FALSE, depth |-> 0, rest |-> <<>>]

\* Open: no edge-step yet.
TravInit ==
  /\ adj \in Adjacencies
  /\ args \in [seed : Seeds, depth : Depths, type : Types, budget : Budgets]
  /\ listed = Search(adj, args.seed, args.depth, args.type).ids
  /\ visited = {args.seed}
  /\ queue = <<[vid |-> args.seed, depth |-> 0]>>
  /\ curScan = NoScan
  /\ used = 0
  /\ emitted = <<>>
  /\ state = "pulling"

\* The next vertex of the frontier; at the hop bound it is not expanded.
Dequeue ==
  /\ state = "pulling" /\ ~curScan.open /\ queue # <<>>
  /\ queue' = Tail(queue)
  /\ curScan' = IF Head(queue).depth >= args.depth THEN NoScan
                ELSE [open |-> TRUE, depth |-> Head(queue).depth,
                      rest |-> OutEdges(adj, args.type, Head(queue).vid)]
  /\ UNCHANGED <<adj, args, listed, visited, used, emitted, state>>

FrontierEmpty ==
  /\ state = "pulling" /\ ~curScan.open /\ queue = <<>>
  /\ state' = "exact"
  /\ UNCHANGED <<adj, args, listed, visited, queue, curScan, used, emitted>>

BudgetSpent ==
  /\ curScan.open /\ used >= args.budget
  /\ curScan' = NoScan
  /\ state' = "censored"
  /\ UNCHANGED <<adj, args, listed, visited, queue, used, emitted>>

VertexDrained ==
  /\ curScan.open /\ used < args.budget /\ curScan.rest = <<>>
  /\ curScan' = NoScan
  /\ UNCHANGED <<adj, args, listed, visited, queue, used, emitted, state>>

\* Mutant: the newly reached vertices are expanded first.
EdgeStepDepthFirst ==
  /\ curScan.open /\ used < args.budget /\ curScan.rest # <<>>
  /\ curScan' = [curScan EXCEPT !.rest = Tail(@)]
  /\ used' = used + 1
  /\ LET dst == Head(curScan.rest).dst IN
     IF dst \in visited THEN UNCHANGED <<visited, queue, emitted>>
     ELSE /\ visited' = visited \cup {dst}
          /\ queue' = <<[vid |-> dst, depth |-> curScan.depth + 1]>> \o queue
          /\ emitted' = Append(emitted, dst)
  /\ UNCHANGED <<adj, args, listed, state>>

\* One gs_getnext: it costs a step whether or not it reaches a new vertex.
EdgeStep ==
  /\ curScan.open /\ used < args.budget /\ curScan.rest # <<>>
  /\ curScan' = [curScan EXCEPT !.rest = Tail(@)]
  /\ used' = used + 1
  /\ LET dst == Head(curScan.rest).dst IN
     IF dst \in visited THEN UNCHANGED <<visited, queue, emitted>>
     ELSE /\ visited' = visited \cup {dst}
          /\ queue' = Append(queue, [vid |-> dst, depth |-> curScan.depth + 1])
          /\ emitted' = Append(emitted, dst)
  /\ UNCHANGED <<adj, args, listed, state>>

TravNext ==
  \/ Dequeue
  \/ FrontierEmpty
  \/ BudgetSpent
  \/ VertexDrained
  \/ EdgeStep

TravSpec == TravInit /\ [][TravNext]_travVars

-----------------------------------------------------------------------------
(* Correctness.                                                            *)

\* gph_traverse_bfs lists each vertex within max_depth hops once, and not
\* the seed (graph_am.c:1818-1825).
BfsIsReach ==
  /\ ToSet(listed) = WithinHops(adj, args.type, {args.seed}, args.depth) \ {args.seed}
  /\ IsInjective(listed)

\* Whenever its caller stops, and whatever the budget, the bounded traversal
\* has emitted a prefix of what the full one lists, depth-ascending, then in
\* slot order; an end without the censored flag is the end of the full one,
\* and only a spent budget raises the flag (graph_am.c:1948-1949, 1960-1967).
EmitsPrefix ==
  /\ IsPrefix(emitted, listed)
  /\ state = "exact" => emitted = listed
  /\ state = "censored" => used = args.budget

\* Pulled to its end, the traversal is the function Pull of its arguments.
PulledIs(pulled) ==
  /\ emitted = pulled.ids
  /\ used = pulled.used
  /\ state = "censored" <=> pulled.censored

PullIsTraversal ==
  state # "pulling" =>
    PulledIs(Pull(adj, args.seed, args.depth, args.type, args.budget))

\* The budget bounds the work, and the work bounds the memory: a vertex is
\* remembered only for an edge-step, and returned as soon as it is
\* (graph_am.c:1960-1963, 1969-1970).
BudgetBoundsWork ==
  /\ used <= args.budget
  /\ Cardinality(visited) <= used + 1
  /\ visited = {args.seed} \cup ToSet(emitted)
  /\ Len(emitted) = Cardinality(visited) - 1

=============================================================================
