----------------------------- MODULE GraphDump ------------------------------
(***************************************************************************)
(* A logical backup of the topology: gph_dump_vertices and gph_dump_edges  *)
(* are taken as two statements while the writers of GraphStore go on, and  *)
(* later replayed into an empty store by the procedure of                  *)
(* docs/INSTALL_stock_pg.md, which inserts every vid that was ever         *)
(* allocated and then one batch per source and type.                       *)
(***************************************************************************)
EXTENDS GraphStore, SequencesExt

CONSTANT Registered   \* the ids in the edge_type dictionary

VARIABLES
  phase,   \* "source", "dumped", "replay", then "restored" or "refused"
  backup,  \* the two files, and the script that they still have to replay
  source   \* history: what the store answered when it was dumped

dumpVars == <<vars, phase, backup, source>>

-----------------------------------------------------------------------------
(* What the store answers.                                                 *)

\* The destinations of the live edges of type t among the slots of one page.
Emitted(own, slots, t) ==
  LET upto[i \in 0..Len(slots)] ==
        IF i = 0 THEN <<>>
        ELSE IF Live(own, slots[i]) /\ slots[i].type = t
             THEN Append(upto[i - 1], slots[i].dst)
             ELSE upto[i - 1]
  IN  upto[Len(slots)]

\* What a walk from b emits, page after page.
EmittedFrom(own, b, t) ==
  LET walk[c \in Link] ==
        IF c = NoBlock THEN <<>>
        ELSE Emitted(own, page[c].slots, t) \o walk[page[c].next]
  IN  walk[b]

\* gph_traverse_typed by a session without an id: v's live edges of type t.
TypedReads(v, t) ==
  LET found == Located(InvalidXid, v)
  IN  IF found = {} THEN <<>>
      ELSE EmittedFrom(InvalidXid, VertexAt(CHOOSE p \in found : TRUE).head, t)

Counts(e) == Live(InvalidXid, e)

\* gph_visible_edge_count: the chains of all vertices, live or not.
VisibleEdgeCount ==
  Cardinality(
    UNION {
      {<<b, i>> : i \in {j \in DOMAIN page[b].slots : Counts(page[b].slots[j])}} :
        b \in UNION {ChainFrom(VertexAt(p).head) :
                       p \in {q \in VertexPositions : q[1] \in ChainFrom(meta.first)}}})

Reads == [g \in Vid \X EdgeTypes |-> TypedReads(g[1], g[2])]

-----------------------------------------------------------------------------
(* The dump.                                                               *)

\* gph_dump_vertices.
DumpedVids == meta.nextVid

NoBackup == [vids |-> 0, script |-> <<>>]

DumpInit ==
  /\ Init
  /\ phase = "source"
  /\ backup = NoBackup
  /\ source = [reads |-> Reads, edges |-> 0,
              vids |-> 0, moved |-> FALSE]

DumpVertices ==
  /\ phase = "source"
  /\ phase' = "dumped"
  /\ backup' = [NoBackup EXCEPT !.vids = DumpedVids]
  /\ source' = [source EXCEPT !.vids = meta.nextVid]
  /\ UNCHANGED vars

GroupOrder(g, h) == g[1] < h[1] \/ (g[1] = h[1] /\ g[2] < h[2])

\* The (source, type) groups that gph_dump_edges gives rows for, in its order.
Groups ==
  LET given == {g \in (0..(meta.nextVid - 1)) \X Registered :
                  TypedReads(g[1], g[2]) # <<>>}
  IN  CHOOSE gs \in [1..Cardinality(given) -> given] :
        \A i, j \in 1..Cardinality(given) : i < j => GroupOrder(gs[i], gs[j])

\* The database to restore into has just been created.
NewDatabase ==
  /\ meta' = [nextVid |-> 0, vertexCount |-> 0, edgeCount |-> 0,
              frozenHorizon |-> InvalidXid, first |-> NoBlock, last |-> NoBlock]
  /\ page' = [b \in Block |-> ZeroPage]
  /\ eof' = 0
  /\ relfrozenxid' = FirstNormalXid
  /\ nextXid' = FirstNormalXid
  /\ committed' = {}
  /\ xid' = [s \in Sessions |-> InvalidXid]
  /\ lock' = NoSession
  /\ op' = Idle

\* The destinations dumped for one group.
Rows(v, t) == TypedReads(v, t)

\* gph_dump_edges.
DumpEdges ==
  /\ phase = "dumped"
  /\ phase' = "replay"
  /\ backup' = [backup EXCEPT !.script =
                  [i \in DOMAIN Groups |->
                     [src |-> Groups[i][1], type |-> Groups[i][2],
                      dsts |-> Rows(Groups[i][1], Groups[i][2])]]]
  /\ source' = [reads |-> Reads, edges |-> VisibleEdgeCount,
                vids |-> source.vids, moved |-> meta.nextVid # source.vids]
  /\ NewDatabase

-----------------------------------------------------------------------------
(* The replay, in one transaction.                                         *)

ReplayStart(s) ==
  /\ phase = "replay"
  /\ nextXid = FirstNormalXid
  /\ IF lock = s THEN AssignXid(s) ELSE AcquireWriterLock(s)
  /\ UNCHANGED <<phase, backup, source>>

ReplayVertex(s) ==
  /\ phase = "replay"
  /\ meta.nextVid < backup.vids
  /\ InsertVertex(s)
  /\ UNCHANGED <<phase, backup, source>>

\* Mutant: the untyped gph_insert_edges.
ReplayEdgesUntyped(s) ==
  LET run == Head(backup.script) IN
  /\ phase = "replay"
  /\ meta.nextVid = backup.vids
  /\ backup.script # <<>>
  /\ InsertEdges(s, run.src, run.dsts, 1)
  /\ backup' = [backup EXCEPT !.script = Tail(@)]
  /\ UNCHANGED <<phase, source>>

ReplayEdges(s) ==
  LET run == Head(backup.script) IN
  /\ phase = "replay"
  /\ meta.nextVid = backup.vids
  /\ backup.script # <<>>
  /\ InsertEdges(s, run.src, run.dsts, run.type)
  /\ backup' = [backup EXCEPT !.script = Tail(@)]
  /\ UNCHANGED <<phase, source>>

ReplayContinue(s) ==
  /\ phase = "replay"
  /\ ContinueInsertEdges(s)
  /\ UNCHANGED <<phase, backup, source>>

\* gph_insert_edges raises on an end that it does not find.
ReplayRefused(s) ==
  LET run == Head(backup.script) IN
  /\ phase = "replay"
  /\ MayWrite(s)
  /\ meta.nextVid = backup.vids
  /\ backup.script # <<>>
  /\ \E v \in {run.src} \cup ToSet(run.dsts) : DenseLocated(xid[s], v) = {}
  /\ Abort(s)
  /\ phase' = "refused"
  /\ UNCHANGED <<backup, source>>

ReplayCommit(s) ==
  /\ phase = "replay"
  /\ MayWrite(s)
  /\ meta.nextVid = backup.vids
  /\ backup.script = <<>>
  /\ Commit(s)
  /\ phase' = "restored"
  /\ UNCHANGED <<backup, source>>

\* The writers go on around the dump.  Freeze passes are left out: no step of
\* one changes an answer (FreezeInvisible in GraphStoreProofs).
SourceStep ==
  /\ phase \in {"source", "dumped"}
  /\ \E s \in Sessions : Session(s)
  /\ op'.name # "freeze"
  /\ UNCHANGED <<phase, backup, source>>

DumpNext ==
  \/ SourceStep
  \/ DumpVertices
  \/ DumpEdges
  \/ \E s \in Sessions :
       \/ ReplayStart(s)
       \/ ReplayVertex(s)
       \/ ReplayEdges(s)
       \/ ReplayContinue(s)
       \/ ReplayRefused(s)
       \/ ReplayCommit(s)

DumpSpec == DumpInit /\ [][DumpNext]_dumpVars

-----------------------------------------------------------------------------
(* Correctness.                                                            *)

\* The visible edge count is that of the edges a traversal can give, although
\* it also walks the chains of deleted and never committed vertices: those
\* have no live slots left (gph_visible_edge_count, graph_am.c:2785-2798).
CountIsReads == VisibleEdgeCount = Cardinality(EdgeView(InvalidXid))

\* A replay that goes through gives every typed traversal the answer, in the
\* same order, that it had when the edges were dumped, whatever was aborted,
\* deleted or frozen before; the vids keep their meaning
\* (gph_allocated_vids' and gph_dump_edges' comments, graph_am.c:2699-2708).
RestoredAnswers ==
  phase = "restored" =>
    \A v \in Vid, t \in Registered : TypedReads(v, t) = source.reads[<<v, t>>]

\* A replay fails only if vertices were added between the two dumps.
RefusedOnlyIfMoved == phase = "refused" => source.moved

\* What the procedure says is kept: the visible edge count
\* (docs/INSTALL_stock_pg.md, "What is NOT preserved").
RestoredEdgeCount == phase = "restored" => VisibleEdgeCount = source.edges

=============================================================================
