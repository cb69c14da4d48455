---------------------------- MODULE MCGraphDump -----------------------------
(***************************************************************************)
(* The SQL layer over the store: a behaviour is one of racing upserts of   *)
(* external ids, of two MCP servers on one database, and of a dump with    *)
(* its replay.                                                             *)
(***************************************************************************)
EXTENDS VidMap, AgentMemory, TLC

CONSTANTS
  Parts,
  s1, m1, m2, a1, a2,
  \* of the dump, whose store has a writer of its own:
  Writers, EdgeTypes, Registered, VerticesPerPage, EdgeSlotsPerPage,
  DumpXids, DumpVids, DumpedEdges, MaxBlock, MaxBatch

VARIABLES
  part,
  meta, page, eof, relfrozenxid, dumpNextXid, dumpCommitted, dumpXid, dumpLock,
  op, phase, backup, source

ASSUME DumpAssumption ==
  /\ NoSession \notin Writers
  /\ EdgeTypes \subseteq Nat \ {0}
  /\ VerticesPerPage \in Nat \ {0} /\ EdgeSlotsPerPage \in Nat \ {0}
  /\ DumpXids \in Nat /\ DumpXids > 2
  /\ DumpVids \in Nat \ {0}
  /\ DumpedEdges \in Nat /\ MaxBlock \in Nat /\ MaxBatch \in Nat

MCDim == [a \in Servers |-> 2]

Dump == INSTANCE GraphDump WITH
  Sessions <- Writers, MaxXid <- DumpXids, MaxVid <- DumpVids,
  MaxEdges <- DumpedEdges, nextXid <- dumpNextXid, committed <- dumpCommitted,
  xid <- dumpXid, lock <- dumpLock

dumpVars ==
  <<meta, page, eof, relfrozenxid, dumpNextXid, dumpCommitted, dumpXid, dumpLock,
    op, phase, backup, source>>

MCInit == part \in Parts /\ Dump!DumpInit /\ Init /\ MemInit

DumpStep == part = "dump" /\ Dump!DumpNext /\ UNCHANGED <<vars, mvars, part>>
MapStep == part = "map" /\ Next /\ UNCHANGED <<dumpVars, mvars, part>>
MemoryStep == part = "memory" /\ MemNext /\ UNCHANGED <<dumpVars, vars, part>>

MCSpec ==
  MCInit /\ [][DumpStep \/ MapStep \/ MemoryStep]_<<dumpVars, vars, mvars, part>>

MapSymmetry == Permutations(Sessions)

-----------------------------------------------------------------------------
(* What is checked beside MapIsSound and CacheNeverWrong of VidMap and     *)
(* MemoriesAreVertices of AgentMemory.                                     *)

\* A backup is the store: the statistic counts what traversals read, a replay
\* that goes through answers and counts as the source did when it was dumped,
\* and fails only if vertices came between the two dumps (gph_dump_vertices,
\* gph_dump_edges, gph_visible_edge_count, graph_am.c:2710-2727, 2800-2876).
DumpIsFaithful ==
  part = "dump" =>
    /\ Dump!CountIsReads
    /\ Dump!RestoredEdgeCount
    /\ Dump!RestoredAnswers
    /\ Dump!RefusedOnlyIfMoved

=============================================================================
