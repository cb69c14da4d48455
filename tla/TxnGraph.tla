------------------------------ MODULE TxnGraph ------------------------------
(***************************************************************************)
(* What the graph store promises its readers (FR-7): there is one          *)
(* committed graph, and one private graph in which the transaction that    *)
(* writes sees its own changes.  A commit replaces the first by the        *)
(* second; a rollback, an error or a crash replaces the second by the      *)
(* first.  Freezing, page chaining and the transaction ids do not show.    *)
(*                                                                         *)
(* An edge has an identity (two edges may agree on everything else).  The  *)
(* writer's changes may show to itself a few edges at a time, never to     *)
(* others.  Removing a vertex removes its out-edges at once and leaves     *)
(* its in-edges, which then dangle.                                        *)
(***************************************************************************)
EXTENDS FiniteSets

VARIABLES
  stable,  \* [vertices, edges]: what every reader sees
  work     \* [vertices, edges]: what the writing transaction sees

Empty == [vertices |-> {}, edges |-> {}]

Init == stable = Empty /\ work = Empty

\* What one record of the writer can do to the graph g that it sees.

AddsVertex(g, h) ==
  \E v \in h.vertices \ g.vertices :
     h = [g EXCEPT !.vertices = @ \cup {v}]

\* New edges all leave one live vertex and end in live vertices.
AddsEdges(g, h) ==
  LET new == h.edges \ g.edges IN
  /\ new # {}
  /\ h = [g EXCEPT !.edges = @ \cup new]
  /\ \A e \in new : e.src \in g.vertices /\ e.dst \in g.vertices
  /\ \A e, f \in new : e.src = f.src /\ e.type = f.type

\* Removed edges all leave one vertex for one other.
RemovesEdges(g, h) ==
  LET gone == g.edges \ h.edges IN
  /\ gone # {}
  /\ h = [g EXCEPT !.edges = @ \ gone]
  /\ \A e, f \in gone : e.src = f.src /\ e.dst = f.dst

RemovesVertex(g, h) ==
  \E v \in g.vertices :
     h = [vertices |-> g.vertices \ {v},
          edges    |-> {e \in g.edges : e.src # v}]

Changes(g, h) ==
  AddsVertex(g, h) \/ AddsEdges(g, h) \/ RemovesEdges(g, h) \/ RemovesVertex(g, h)

Write == Changes(work, work') /\ UNCHANGED stable

Commit == stable' = work /\ UNCHANGED work

Rollback == work' = stable /\ UNCHANGED stable

Next == Rollback \/ Commit \/ Write

Spec == Init /\ [][Next]_<<stable, work>>

=============================================================================
