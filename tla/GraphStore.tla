----------------------------- MODULE GraphStore -----------------------------
(***************************************************************************)
(* The graph store's write side: graph_am.c's pages under the host's       *)
(* transaction manager.                                                    *)
(*                                                                         *)
(* A vertex or an edge slot carries raw transaction ids (xmin, xmax) and   *)
(* is filtered against them when it is read; nothing on a page is ever     *)
(* undone.  All mutators and the freeze pass take one advisory lock that   *)
(* is held to the end of the transaction.  A step of this module is one    *)
(* WAL record (one GenericXLogFinish): gph_insert_edges, the two           *)
(* tombstones and gph_freeze write several, and can be cut between any two *)
(* of them by an error; GraphRecovery cuts them by a crash.                *)
(*                                                                         *)
(* Block 0 is the metapage and is kept apart as `meta'; blocks 1..eof are  *)
(* the others.                                                             *)
(***************************************************************************)
EXTENDS Integers, Sequences, FiniteSets

CONSTANTS
  Sessions,          \* the backends
  NoSession,         \* the value of `lock' when nobody holds it
  EdgeTypes,         \* dictionary edge-type ids, 0 (GPH_EDGE_TYPE_ANY) excluded
  VerticesPerPage,   \* GphVerticesPerPage()
  EdgeSlotsPerPage,  \* GphEdgeSlotsPerPage()
  MaxXid,            \* bound: last transaction id handed out
  MaxVid,            \* bound: number of vertices
  MaxEdges,          \* bound: number of edge slots ever written
  MaxBlock,          \* bound: number of blocks after the metapage
  MaxBatch           \* bound: length of gph_insert_edges' array

ASSUME SessionsAssumption == NoSession \notin Sessions
ASSUME EdgeTypesAssumption == EdgeTypes \subseteq Nat \ {0}
ASSUME PageSizeAssumption ==
  /\ VerticesPerPage \in Nat \ {0}
  /\ EdgeSlotsPerPage \in Nat \ {0}
ASSUME BoundsAssumption ==
  /\ MaxXid \in Nat /\ MaxXid > 2
  /\ MaxVid \in Nat \ {0}
  /\ MaxEdges \in Nat
  /\ MaxBlock \in Nat
  /\ MaxBatch \in Nat

VARIABLES
  meta,          \* GphMeta: the counters and the vertex-page chain's two ends
  page,          \* the blocks after the metapage
  eof,           \* last block of the relation
  relfrozenxid,  \* pg_class.relfrozenxid of the container
  nextXid,       \* the transaction manager's next id
  committed,     \* the ids clog says committed
  xid,           \* each session's id, InvalidXid while it has none
  lock,          \* holder of the writer advisory lock
  op             \* the holder's operation in progress

store == <<meta, page, eof, relfrozenxid>>
txns  == <<nextXid, committed, xid, lock>>
vars  == <<meta, page, eof, relfrozenxid, nextXid, committed, xid, lock, op>>

-----------------------------------------------------------------------------
(* Transaction ids, as PostgreSQL numbers them.                            *)

InvalidXid     == 0
FrozenXid      == 2
FirstNormalXid == 3

NormalXid == FirstNormalXid..MaxXid
StoredXid == {InvalidXid, FrozenXid} \cup NormalXid

Running == {xid[s] : s \in Sessions} \ {InvalidXid}

\* GetOldestXmin / GetOldestNonRemovableTransactionId: nothing running is
\* older.  (Snapshots can hold it further back, which only refuses more.)
PrecedesOldestXmin(x) == x < nextXid /\ \A r \in Running : x < r

\* TransactionIdDidCommit: the permanent id counts as committed.
DidCommit(x) == x = FrozenXid \/ x \in committed

\* `own' is the reader's own id (InvalidXid if it has none).
XminVisible(own, x) == x # InvalidXid /\ (x = own \/ DidCommit(x))

\* Mutant: a tombstone counts before its transaction committed.
TombstoneAtOnce(own, r) == r.deleted

DeletedVisible(own, r) == r.deleted /\ XminVisible(own, r.xmax)

Live(own, r) == XminVisible(own, r.xmin) /\ ~DeletedVisible(own, r)

-----------------------------------------------------------------------------
(* Pages.                                                                  *)

NoBlock == -1
Block   == 1..MaxBlock
Link    == Block \cup {NoBlock}
Vid     == 0..(MaxVid - 1)
AnyType == 0
AnyVid  == -1

Meta ==
  [nextVid : 0..MaxVid, vertexCount : Nat, edgeCount : Nat,
   frozenHorizon : NormalXid \cup {InvalidXid}, first : Link, last : Link]

VertexRecord ==
  [vid : Vid, head : Link, tail : Link,
   xmin : StoredXid, xmax : StoredXid, deleted : BOOLEAN]

EdgeSlot ==
  [src : Vid, dst : Vid, type : EdgeTypes,
   xmin : StoredXid, xmax : StoredXid, deleted : BOOLEAN]

Page ==
  [kind : {"zero", "vertex", "adj"}, next : Link, owner : Vid,
   vertices : Seq(VertexRecord), slots : Seq(EdgeSlot)]

ZeroPage ==
  [kind |-> "zero", next |-> NoBlock, owner |-> 0,
   vertices |-> <<>>, slots |-> <<>>]

\* Mutant: the special area's link is left as PageInit zeroed it.
VertexPageUnlinked(vr) ==
  [ZeroPage EXCEPT !.kind = "vertex", !.vertices = <<vr>>, !.next = 0]

NewVertexPage(vr) == [ZeroPage EXCEPT !.kind = "vertex", !.vertices = <<vr>>]

NewAdjPage(v, ss) ==
  [ZeroPage EXCEPT !.kind = "adj", !.owner = v, !.slots = ss]

NewVertex(v, x) ==
  [vid |-> v, head |-> NoBlock, tail |-> NoBlock,
   xmin |-> x, xmax |-> InvalidXid, deleted |-> FALSE]

NewSlot(v, w, t, x) ==
  [src |-> v, dst |-> w, type |-> t,
   xmin |-> x, xmax |-> InvalidXid, deleted |-> FALSE]

\* Every block's gph_next_pageno.
NextBlock == [b \in Block |-> page[b].next]

\* A set of blocks that no walk along `next' leaves.
Closed(next, S) == \A b \in S : next[b] \in S \cup {NoBlock}

\* The blocks that a walk from b reads.
Walk(next, b) ==
  LET around == {S \in SUBSET Block : b \in S /\ Closed(next, S)}
  IN  IF b = NoBlock THEN {} ELSE {c \in Block : \A S \in around : c \in S}

ChainFrom(b) == Walk(NextBlock, b)

VertexPositions ==
  UNION {{<<b, i>> : i \in DOMAIN page[b].vertices} : b \in Block}

VertexAt(p) == page[p[1]].vertices[p[2]]

\* The vertices that a walk of the vertex chain does not skip.
LivePositions(own) ==
  LET chain == ChainFrom(meta.first)
  IN  {p \in VertexPositions : p[1] \in chain /\ Live(own, VertexAt(p))}

\* gph_locate_vertex: the live record of v on the vertex chain, if any.
Located(own, v) == {p \in LivePositions(own) : VertexAt(p).vid = v}

\* gph_locate_vertex_dense: v's position computed, then verified.
DensePosition(v) ==
  <<meta.first + (v \div VerticesPerPage), (v % VerticesPerPage) + 1>>

DenseInRange(v) == meta.first # NoBlock /\ v < meta.nextVid

\* Mutant: the record found at the computed place is not compared with v.
DenseUnverified(v) ==
  /\ DensePosition(v)[1] \in 1..eof
  /\ page[DensePosition(v)[1]].kind = "vertex"
  /\ DensePosition(v) \in VertexPositions

DenseVerified(v) ==
  /\ DensePosition(v)[1] \in 1..eof
  /\ page[DensePosition(v)[1]].kind = "vertex"
  /\ DensePosition(v) \in VertexPositions
  /\ VertexAt(DensePosition(v)).vid = v

\* The callers' uses of a miss and of an ERROR are the same: none goes on.
DenseLocated(own, v) ==
  {p \in {DensePosition(v)} :
     DenseInRange(v) /\ DenseVerified(v) /\ Live(own, VertexAt(p))}

-----------------------------------------------------------------------------
(* The operation in progress under the writer lock.                        *)

Idle == [name |-> "idle"]

Operation ==
  {Idle}
    \cup [name : {"edges"}, src : Vid, type : EdgeTypes, rest : Seq(Vid)]
    \cup [name : {"tombstone"}, blk : Link, dst : Vid \cup {AnyVid},
          type : EdgeTypes \cup {AnyType}]
    \cup [name : {"freeze"}, horizon : NormalXid, vblk : Link,
          ablk : Link, heads : Seq(Link)]
    \cup [name : {"relstats"}, horizon : NormalXid]

TypeOK ==
  /\ meta \in Meta
  /\ page \in [Block -> Page]
  /\ eof \in 0..MaxBlock
  /\ relfrozenxid \in FirstNormalXid..(MaxXid + 1)
  /\ nextXid \in FirstNormalXid..(MaxXid + 1)
  /\ committed \in SUBSET NormalXid
  /\ xid \in [Sessions -> NormalXid \cup {InvalidXid}]
  /\ lock \in Sessions \cup {NoSession}
  /\ op \in Operation

Init ==
  /\ meta = [nextVid |-> 0, vertexCount |-> 0, edgeCount |-> 0,
             frozenHorizon |-> InvalidXid, first |-> NoBlock, last |-> NoBlock]
  /\ page = [b \in Block |-> ZeroPage]
  /\ eof = 0
  /\ relfrozenxid = FirstNormalXid
  /\ nextXid = FirstNormalXid
  /\ committed = {}
  /\ xid = [s \in Sessions |-> InvalidXid]
  /\ lock = NoSession
  /\ op = Idle

-----------------------------------------------------------------------------
(* Transactions.                                                           *)

\* GetCurrentTransactionId, called by a mutator or by any other write of
\* the transaction.
AssignXid(s) ==
  /\ xid[s] = InvalidXid
  /\ nextXid <= MaxXid
  /\ xid' = [xid EXCEPT ![s] = nextXid]
  /\ nextXid' = nextXid + 1
  /\ UNCHANGED <<store, committed, lock, op>>

\* Mutant: the lock does not exclude the other writers.
AcquireSharedLock(s) ==
  /\ lock' = s
  /\ UNCHANGED <<store, nextXid, committed, xid, op>>

\* gph_acquire_writer_lock; a holder that asks again goes on at once.
AcquireWriterLock(s) ==
  /\ lock = NoSession
  /\ lock' = s
  /\ UNCHANGED <<store, nextXid, committed, xid, op>>

InTransaction(s) == xid[s] # InvalidXid \/ lock = s

\* What both ends of a transaction do: the id stops running and the
\* advisory lock is released.
EndTransaction(s) ==
  /\ InTransaction(s)
  /\ xid' = [xid EXCEPT ![s] = InvalidXid]
  /\ lock' = IF lock = s THEN NoSession ELSE lock
  /\ UNCHANGED nextXid

Commit(s) ==
  /\ lock = s => op = Idle
  /\ EndTransaction(s)
  /\ committed' = committed \cup ({xid[s]} \ {InvalidXid})
  /\ UNCHANGED <<store, op>>

\* ROLLBACK, or an ERROR at any point of an operation: no page changes.
Abort(s) ==
  /\ EndTransaction(s)
  /\ op' = IF lock = s THEN Idle ELSE op
  /\ UNCHANGED <<store, committed>>

\* An ERROR (an interrupt in gph_insert_edges' loop, say) after
\* gph_extend_page: the file keeps an all-zero block nobody links to.
AbortExtended(s) ==
  /\ lock = s
  /\ xid[s] # InvalidXid
  /\ op.name \in {"idle", "edges"}
  /\ eof < MaxBlock
  /\ eof' = eof + 1
  /\ EndTransaction(s)
  /\ op' = Idle
  /\ UNCHANGED <<meta, page, relfrozenxid, committed>>

-----------------------------------------------------------------------------
(* Inserts.                                                                *)

MayWrite(s) == lock = s /\ op = Idle /\ xid[s] # InvalidXid

InsertVertex(s) ==
  LET v    == meta.nextVid
      last == meta.last
      vr   == NewVertex(v, xid[s])
      room == last # NoBlock /\ Len(page[last].vertices) < VerticesPerPage
      new  == eof + 1
  IN
  /\ MayWrite(s)
  /\ v < MaxVid
  /\ \/ /\ room
        /\ page' = [page EXCEPT ![last].vertices = Append(@, vr)]
        /\ meta' = [meta EXCEPT !.nextVid = v + 1, !.vertexCount = @ + 1]
        /\ UNCHANGED eof
     \/ /\ ~room
        /\ eof < MaxBlock
        /\ eof' = new
        /\ page' = [b \in Block |->
                      IF b = new THEN NewVertexPage(vr)
                      ELSE IF b = last THEN [page[b] EXCEPT !.next = new]
                      ELSE page[b]]
        /\ meta' = [meta EXCEPT
                      !.nextVid = v + 1, !.vertexCount = @ + 1,
                      !.first = IF last = NoBlock THEN new ELSE @,
                      !.last = new]
  /\ UNCHANGED <<relfrozenxid, txns, op>>

\* The bounds leave n more slots (each might need a page of its own).
FitsBounds(n) == meta.edgeCount + n <= MaxEdges /\ eof + n <= MaxBlock

\* Mutant: a page that is just full still counts as having room.
NeedsPageLate(p) ==
  LET t == VertexAt(p).tail
  IN  t # NoBlock => Len(page[t].slots) > EdgeSlotsPerPage

\* Does the next slot of the vertex at p open a new adjacency page?
NeedsPage(p) ==
  LET t == VertexAt(p).tail
  IN  t # NoBlock => Len(page[t].slots) >= EdgeSlotsPerPage

\* How many slots one record can append for the vertex at p.
Room(p) ==
  IF NeedsPage(p) THEN EdgeSlotsPerPage
  ELSE EdgeSlotsPerPage - Len(page[VertexAt(p).tail].slots)

\* One record of gph_insert_edge(s): append the slots ss for the vertex src,
\* whose record is at p.
AppendSlots(p, src, ss) ==
  LET vr  == VertexAt(p)
      new == eof + 1
  IN
  /\ \/ /\ ~NeedsPage(p)
        /\ page' = [page EXCEPT ![vr.tail].slots = @ \o ss]
        /\ UNCHANGED eof
     \/ /\ NeedsPage(p)
        /\ eof < MaxBlock
        /\ eof' = new
        /\ page' = [b \in Block |->
                      IF b = new THEN NewAdjPage(src, ss)
                      ELSE IF b = vr.tail THEN [page[b] EXCEPT !.next = new]
                      ELSE IF b = p[1] THEN
                        [page[b] EXCEPT
                           !.vertices[p[2]].head = IF @ = NoBlock THEN new ELSE @,
                           !.vertices[p[2]].tail = new]
                      ELSE page[b]]
  /\ meta' = [meta EXCEPT !.edgeCount = @ + Len(ss)]

InsertEdge(s, src, dst, t) ==
  /\ MayWrite(s)
  /\ FitsBounds(1)
  /\ Located(xid[s], dst) # {}
  /\ \E p \in Located(xid[s], src) :
       AppendSlots(p, src, <<NewSlot(src, dst, t, xid[s])>>)
  /\ UNCHANGED <<relfrozenxid, txns, op>>

\* Write as many of dsts as one record holds and remember the others.
WriteRun(s, p, src, t, dsts) ==
  LET n     == IF Len(dsts) <= Room(p) THEN Len(dsts) ELSE Room(p)
      chunk == [i \in 1..n |-> NewSlot(src, dsts[i], t, xid[s])]
  IN
  /\ AppendSlots(p, src, chunk)
  /\ op' = IF n = Len(dsts) THEN Idle
           ELSE [name |-> "edges", src |-> src, type |-> t,
                 rest |-> SubSeq(dsts, n + 1, Len(dsts))]

InsertEdges(s, src, dsts, t) ==
  /\ MayWrite(s)
  /\ dsts # <<>>
  /\ FitsBounds(Len(dsts))
  /\ \A i \in DOMAIN dsts : DenseLocated(xid[s], dsts[i]) # {}
  /\ \E p \in DenseLocated(xid[s], src) : WriteRun(s, p, src, t, dsts)
  /\ UNCHANGED <<relfrozenxid, txns>>

\* The source's page stays locked throughout, its record where it was.
ContinueInsertEdges(s) ==
  /\ lock = s
  /\ op.name = "edges"
  /\ \E p \in VertexPositions :
       /\ VertexAt(p).vid = op.src
       /\ WriteRun(s, p, op.src, op.type, op.rest)
  /\ UNCHANGED <<relfrozenxid, txns>>

-----------------------------------------------------------------------------
(* Tombstones: one page, one record, of the chain at a time.               *)

TombstoneEdge(s, src, dst, t) ==
  /\ MayWrite(s)
  /\ \E p \in Located(xid[s], src) :
       op' = [name |-> "tombstone", blk |-> VertexAt(p).head,
              dst |-> dst, type |-> t]
  /\ UNCHANGED <<store, txns>>

TombstoneVertex(s, v) ==
  /\ MayWrite(s)
  /\ \E p \in Located(xid[s], v) :
       /\ page' = [page EXCEPT ![p[1]].vertices[p[2]].deleted = TRUE,
                               ![p[1]].vertices[p[2]].xmax = xid[s]]
       /\ op' = [name |-> "tombstone", blk |-> VertexAt(p).head,
                 dst |-> AnyVid, type |-> AnyType]
  /\ UNCHANGED <<meta, eof, relfrozenxid, txns>>

Matches(own, e, dst, t) ==
  /\ Live(own, e)
  /\ dst \in {AnyVid, e.dst}
  /\ t \in {AnyType, e.type}

TombstoneSlot(own, e, dst, t) ==
  IF Matches(own, e, dst, t) THEN [e EXCEPT !.deleted = TRUE, !.xmax = own]
  ELSE e

TombstoneAdjacency(s) ==
  /\ lock = s
  /\ op.name = "tombstone"
  /\ IF op.blk = NoBlock
     THEN op' = Idle /\ UNCHANGED page
     ELSE /\ page' = [page EXCEPT ![op.blk].slots =
                        [i \in DOMAIN @ |->
                           TombstoneSlot(xid[s], @[i], op.dst, op.type)]]
          /\ op' = [op EXCEPT !.blk = page[op.blk].next]
  /\ UNCHANGED <<meta, eof, relfrozenxid, txns>>

-----------------------------------------------------------------------------
(* Freeze.                                                                 *)

Freezable(x, horizon) == x >= FirstNormalXid /\ x < horizon

\* Mutant: an aborted inserter is frozen like a committed one.
FreezeXminCommitted(x, horizon) ==
  IF Freezable(x, horizon) THEN FrozenXid ELSE x

FreezeXmin(x, horizon) ==
  IF ~Freezable(x, horizon) THEN x
  ELSE IF DidCommit(x) THEN FrozenXid ELSE InvalidXid

\* Mutant: the tombstones' ids are not rewritten.
FreezeXminOnly(r, horizon) == [r EXCEPT !.xmin = FreezeXmin(@, horizon)]

\* gph_freeze_xid and gph_freeze_xmax on one record.
FreezeRecord(r, horizon) ==
  LET q == [r EXCEPT !.xmin = FreezeXmin(@, horizon)]
  IN  IF r.deleted /\ Freezable(r.xmax, horizon)
      THEN IF DidCommit(r.xmax) THEN [q EXCEPT !.xmax = FrozenXid]
           ELSE [q EXCEPT !.xmax = InvalidXid, !.deleted = FALSE]
      ELSE q

FreezeRecords(rs, horizon) == [i \in DOMAIN rs |-> FreezeRecord(rs[i], horizon)]

\* The chains to descend into after a vertex page, in page order; the walk
\* of a vertex without edges ends at once.
HeadsOf(vs) == [i \in DOMAIN vs |-> vs[i].head]

FreezeBegin(s, horizon) ==
  /\ lock = s
  /\ op = Idle
  /\ PrecedesOldestXmin(horizon)
  /\ meta.frozenHorizon = InvalidXid \/ meta.frozenHorizon < horizon
  /\ op' = [name |-> "freeze", horizon |-> horizon, vblk |-> meta.first,
            ablk |-> NoBlock, heads |-> <<>>]
  /\ UNCHANGED <<store, txns>>

Freezing(s) == lock = s /\ op.name = "freeze"

FreezeVertexPage(s) ==
  /\ Freezing(s)
  /\ op.ablk = NoBlock
  /\ op.heads = <<>>
  /\ op.vblk # NoBlock
  /\ page' = [page EXCEPT ![op.vblk].vertices = FreezeRecords(@, op.horizon)]
  /\ op' = [op EXCEPT !.vblk = page[op.vblk].next,
                      !.heads = HeadsOf(page[op.vblk].vertices)]
  /\ UNCHANGED <<meta, eof, relfrozenxid, txns>>

\* Mutant: the list of chains to visit does not shrink.
FreezeDescendAgain(s) ==
  /\ Freezing(s)
  /\ op.ablk = NoBlock
  /\ op.heads # <<>>
  /\ op' = [op EXCEPT !.ablk = Head(op.heads)]
  /\ UNCHANGED <<store, txns>>

\* The walk of one vertex's chain starts.
FreezeDescend(s) ==
  /\ Freezing(s)
  /\ op.ablk = NoBlock
  /\ op.heads # <<>>
  /\ op' = [op EXCEPT !.ablk = Head(op.heads), !.heads = Tail(@)]
  /\ UNCHANGED <<store, txns>>

FreezeAdjPage(s) ==
  /\ Freezing(s)
  /\ op.ablk # NoBlock
  /\ page' = [page EXCEPT ![op.ablk].slots = FreezeRecords(@, op.horizon)]
  /\ op' = [op EXCEPT !.ablk = page[op.ablk].next]
  /\ UNCHANGED <<meta, eof, relfrozenxid, txns>>

FreezeRecordHorizon(s) ==
  /\ Freezing(s)
  /\ op.ablk = NoBlock
  /\ op.heads = <<>>
  /\ op.vblk = NoBlock
  /\ meta' = [meta EXCEPT !.frozenHorizon = op.horizon]
  /\ op' = [name |-> "relstats", horizon |-> op.horizon]
  /\ UNCHANGED <<page, eof, relfrozenxid, txns>>

\* vac_update_relstats (never regresses), then XLogFlush of the pass.
FreezeRelstats(s) ==
  /\ lock = s
  /\ op.name = "relstats"
  /\ relfrozenxid' = IF relfrozenxid < op.horizon THEN op.horizon
                     ELSE relfrozenxid
  /\ op' = Idle
  /\ UNCHANGED <<meta, page, eof, txns>>

-----------------------------------------------------------------------------

Batches == UNION {[1..n -> Vid] : n \in 1..MaxBatch}

InsertSome(s) ==
  \/ InsertVertex(s)
  \/ \E src, dst \in Vid, t \in EdgeTypes : InsertEdge(s, src, dst, t)
  \/ \E src \in Vid, dsts \in Batches, t \in EdgeTypes :
       InsertEdges(s, src, dsts, t)

TombstoneSome(s) ==
  \/ \E src, dst \in Vid, t \in EdgeTypes \cup {AnyType} :
       TombstoneEdge(s, src, dst, t)
  \/ \E v \in Vid : TombstoneVertex(s, v)

FreezeStep(s) ==
  \/ FreezeVertexPage(s)
  \/ FreezeDescend(s)
  \/ FreezeAdjPage(s)
  \/ FreezeRecordHorizon(s)
  \/ FreezeRelstats(s)

\* The next record of the operation that s has under way.
ContinueOperation(s) ==
  \/ ContinueInsertEdges(s)
  \/ TombstoneAdjacency(s)
  \/ FreezeStep(s)

Session(s) ==
  \/ AssignXid(s)
  \/ AcquireWriterLock(s)
  \/ Commit(s)
  \/ Abort(s)
  \/ AbortExtended(s)
  \/ InsertSome(s)
  \/ TombstoneSome(s)
  \/ \E horizon \in NormalXid : FreezeBegin(s, horizon)
  \/ ContinueOperation(s)

Next == \E s \in Sessions : Session(s)

Spec == Init /\ [][Next]_vars

-----------------------------------------------------------------------------
(* What a reader sees: gs_open locates the vertex, gs_getnext walks its    *)
(* chain and drops the slots that are not live.  A slot's place is its     *)
(* identity.                                                               *)

VertexView(own) == {VertexAt(p).vid : p \in LivePositions(own)}

LiveSlots(own, b) == {i \in DOMAIN page[b].slots : Live(own, page[b].slots[i])}

EdgeView(own) ==
  UNION {
    UNION {
      {[id |-> <<b, i>>, src |-> VertexAt(p).vid,
        dst |-> page[b].slots[i].dst, type |-> page[b].slots[i].type] :
          i \in LiveSlots(own, b)} :
        b \in ChainFrom(VertexAt(p).head)} :
      p \in LivePositions(own)}

GraphView(own) == [vertices |-> VertexView(own), edges |-> EdgeView(own)]

\* The id under which the holder of the writer lock reads.
WriterXid == IF lock = NoSession THEN InvalidXid ELSE xid[lock]

Viewers == {InvalidXid} \cup Running

-----------------------------------------------------------------------------
(* Correctness.                                                            *)

\* The ids a read of the record can ask clog about.
XidsOf(r) == {r.xmin} \cup (IF r.deleted THEN {r.xmax} ELSE {})

XidsIn(rs) == UNION {XidsOf(rs[i]) : i \in DOMAIN rs}

PageXids(pg) == XidsIn(pg.vertices) \cup XidsIn(pg.slots)

StampedXids == UNION {PageXids(page[b]) : b \in Block}

\* An id that is still running marks a record only if its transaction holds
\* the writer lock: two transactions never have uncommitted changes in the
\* store together (the single-writer contract that gph_acquire_writer_lock
\* enforces, graph_am.c:120-179).
WriterOwnsUncommitted ==
  \A x \in StampedXids \cap Running : lock # NoSession /\ xid[lock] = x

\* The vertex pages are one chain from first to last, hold the vids
\* 0..nextVid-1 once each in order, and only the last has room.
VertexChainWellFormed ==
  LET pages == {b \in Block : page[b].kind = "vertex"} IN
  /\ ChainFrom(meta.first) = pages
  /\ {b \in pages : page[b].next = NoBlock} = {meta.last} \ {NoBlock}
  /\ \A b \in pages :
       /\ Len(page[b].vertices) \in 1..VerticesPerPage
       /\ b # meta.last => Len(page[b].vertices) = VerticesPerPage
  /\ \A v \in 0..(meta.nextVid - 1) :
       Cardinality({p \in VertexPositions : VertexAt(p).vid = v}) = 1

\* Each vertex record, live or not, reaches exactly the adjacency pages that
\* name it as their owner; its tail is the chain's last page and the only
\* one with room, and every slot on the chain leaves that vertex.
AdjacencyWellFormed ==
  \A p \in VertexPositions :
    LET vr    == VertexAt(p)
        pages == {b \in Block : page[b].kind = "adj" /\ page[b].owner = vr.vid}
    IN
    /\ ChainFrom(vr.head) = pages
    /\ {b \in pages : page[b].next = NoBlock} = {vr.tail} \ {NoBlock}
    /\ \A b \in pages :
         /\ Len(page[b].slots) \in 1..EdgeSlotsPerPage
         /\ b # vr.tail => Len(page[b].slots) = EdgeSlotsPerPage
         /\ \A i \in DOMAIN page[b].slots : page[b].slots[i].src = vr.vid

\* The page structure that every walk of the code relies on: nothing is
\* unreachable, nothing is reached twice, the append targets are the ends of
\* their chains (graph_am.c:272-323, 541-697, 738-986, 1163-1347).
ChainsWellFormed == VertexChainWellFormed /\ AdjacencyWellFormed

\* For every reader, when the dense locate's checks accept the computed
\* place of a vid, it and the linear walk give the same answer, whatever
\* pages ended up between the vertex pages (graph_am.c:325-342).
DenseIsLinear ==
  \A v \in Vid, own \in Viewers :
    DenseInRange(v) /\ DenseVerified(v) =>
      DenseLocated(own, v) = Located(own, v)

\* No reader's graph changes when a step of a freeze pass does: neither
\* that of a session without an id nor that of any running transaction
\* (graph_am.c:996-1001, gph_freeze_xmax' table at 1022-1047).
FreezeIsInvisible ==
  [][(\E s \in Sessions : FreezeStep(s)) =>
       \A own \in Viewers : GraphView(own)' = GraphView(own)]_vars

\* The pages and ids implement the transactional graph: readers see exactly
\* the committed changes, the writer its own as well, and a change of the
\* committed graph is always a whole transaction (FR-7, graph_am.c:66-80).
Abstract == INSTANCE TxnGraph WITH
  stable <- GraphView(InvalidXid),
  work   <- GraphView(WriterXid)

ImplementsTxnGraph == Abstract!Spec

\* Every operation ends: the walks of the tombstones, of the batch and of
\* the freeze pass run over finite chains (loops at graph_am.c:928-976,
\* 1081-1125, 1226-1281, 1370-1431).
OperationEnds == op # Idle ~> op = Idle

=============================================================================
