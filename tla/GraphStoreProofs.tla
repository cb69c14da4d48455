-------------------------- MODULE GraphStoreProofs --------------------------
(***************************************************************************)
(* The store, for every number of sessions, page size and bound.           *)
(*                                                                         *)
(* First the transactions: their types, then the single-writer contract:   *)
(* an id that is still running marks a record only if its session holds    *)
(* the writer lock; then what a freeze pass does with the ids of the       *)
(* others: nothing that a reader sees.  The contract alone is not          *)
(* inductive.  A new id must be one that no page has yet (KnownXids), and  *)
(* the id that leaves the running ones with the lock must not be another   *)
(* session's too (DistinctXids).                                           *)
(*                                                                         *)
(* Then the page structure: the vertex pages are one chain, the pages that *)
(* a vertex owns are its chain, the append targets are their ends, and a   *)
(* vid is the vid of one record.  A chain is kept as a closed set of       *)
(* blocks with its two ends, so that a page added at its end needs no      *)
(* induction along the links.  What an insert needs beside the property:   *)
(* the blocks beyond the end of the file are untouched and no link leads   *)
(* there (Extent), vertex records are on vertex pages only, and no page is *)
(* owned by a vid not handed out yet.                                      *)
(*                                                                         *)
(* Last, the store implements the transactional graph of TxnGraph.  On a   *)
(* well formed store the walks of a reader meet every record, so the graph *)
(* that it reads is a set of records filtered by the ids it sees           *)
(* (WalkedIsFlat), and a step can be judged record by record.  A           *)
(* transaction step changes what ids mean, and at most one running id is   *)
(* in the store; a write adds or deletes under that id, which nobody else  *)
(* sees; a freeze step shows to nobody.                                    *)
(***************************************************************************)
EXTENDS GraphStore, SequenceTheorems, FiniteSetTheorems, TLAPS

-----------------------------------------------------------------------------
(* Types of the helpers.                                                   *)

LEMMA Constants ==
  /\ MaxXid \in Nat /\ MaxXid > 2
  /\ MaxVid \in Nat /\ MaxVid > 0
  /\ MaxBlock \in Nat
  /\ 0 \in Vid
  /\ InvalidXid = 0 /\ FrozenXid = 2 /\ FirstNormalXid = 3
  /\ NormalXid = 3..MaxXid
BY BoundsAssumption DEF Vid, InvalidXid, FrozenXid, FirstNormalXid, NormalXid

\* A position names a record of a page.
LEMMA PositionType ==
  ASSUME page \in [Block -> Page], NEW p \in VertexPositions
  PROVE  /\ p = <<p[1], p[2]>>
         /\ p[1] \in Block
         /\ p[2] \in Nat
         /\ p[2] \in DOMAIN page[p[1]].vertices
         /\ VertexAt(p) \in VertexRecord
<1>0. PICK b \in Block : p \in {<<b, i>> : i \in DOMAIN page[b].vertices}
  BY DEF VertexPositions
<1>1. PICK i \in DOMAIN page[b].vertices : p = <<b, i>>
  BY <1>0
<1>2. page[b].vertices \in Seq(VertexRecord)
  BY DEF Page
<1>3. /\ DOMAIN page[b].vertices = 1..Len(page[b].vertices)
      /\ Len(page[b].vertices) \in Nat
  BY <1>2, LenProperties
<1>4. i \in Nat
  BY <1>1, <1>3
<1>5. page[b].vertices[i] \in VertexRecord
  BY <1>1, <1>2, <1>3, ElementOfSeq
<1>. QED
  BY <1>1, <1>4, <1>5 DEF VertexAt

LEMMA FreezeXminType ==
  ASSUME NEW x \in StoredXid, NEW h
  PROVE  FreezeXmin(x, h) \in StoredXid
BY DEF FreezeXmin, StoredXid

LEMMA FreezeVertexType ==
  ASSUME NEW r \in VertexRecord, NEW h
  PROVE  /\ FreezeRecord(r, h) \in VertexRecord
         /\ FreezeRecord(r, h).vid = r.vid
         /\ FreezeRecord(r, h).head = r.head
         /\ FreezeRecord(r, h).tail = r.tail
BY FreezeXminType DEF FreezeRecord, VertexRecord, StoredXid

LEMMA FreezeSlotType ==
  ASSUME NEW r \in EdgeSlot, NEW h
  PROVE  /\ FreezeRecord(r, h) \in EdgeSlot
         /\ FreezeRecord(r, h).src = r.src
         /\ FreezeRecord(r, h).dst = r.dst
         /\ FreezeRecord(r, h).type = r.type
BY FreezeXminType DEF FreezeRecord, EdgeSlot, StoredXid

LEMMA FreezeVerticesType ==
  ASSUME NEW rs \in Seq(VertexRecord), NEW h
  PROVE  /\ FreezeRecords(rs, h) \in Seq(VertexRecord)
         /\ DOMAIN FreezeRecords(rs, h) = DOMAIN rs
<1>1. DOMAIN rs = 1..Len(rs) /\ Len(rs) \in Nat
  BY LenProperties
<1>2. \A i \in 1..Len(rs) : FreezeRecord(rs[i], h) \in VertexRecord
  BY ElementOfSeq, FreezeVertexType
<1>3. FreezeRecords(rs, h) \in [1..Len(rs) -> VertexRecord]
  BY <1>1, <1>2 DEF FreezeRecords
<1>. QED
  BY <1>1, <1>3, SeqDef DEF FreezeRecords

LEMMA FreezeSlotsType ==
  ASSUME NEW rs \in Seq(EdgeSlot), NEW h
  PROVE  /\ FreezeRecords(rs, h) \in Seq(EdgeSlot)
         /\ DOMAIN FreezeRecords(rs, h) = DOMAIN rs
<1>1. DOMAIN rs = 1..Len(rs) /\ Len(rs) \in Nat
  BY LenProperties
<1>2. \A i \in 1..Len(rs) : FreezeRecord(rs[i], h) \in EdgeSlot
  BY ElementOfSeq, FreezeSlotType
<1>3. FreezeRecords(rs, h) \in [1..Len(rs) -> EdgeSlot]
  BY <1>1, <1>2 DEF FreezeRecords
<1>. QED
  BY <1>1, <1>3, SeqDef DEF FreezeRecords

LEMMA HeadsOfType ==
  ASSUME NEW vs \in Seq(VertexRecord)
  PROVE  HeadsOf(vs) \in Seq(Link)
<1>1. DOMAIN vs = 1..Len(vs) /\ Len(vs) \in Nat
  BY LenProperties
<1>2. \A i \in 1..Len(vs) : vs[i].head \in Link
  <2>1. \A i \in 1..Len(vs) : vs[i] \in VertexRecord
    BY ElementOfSeq
  <2>. QED
    BY <2>1 DEF VertexRecord
<1>3. HeadsOf(vs) \in [1..Len(vs) -> Link]
  BY <1>1, <1>2 DEF HeadsOf
<1>. QED
  BY <1>3, <1>1, SeqDef

LEMMA TombstonedType ==
  ASSUME NEW ss \in Seq(EdgeSlot), NEW x \in StoredXid, NEW dst, NEW t
  PROVE  [i \in DOMAIN ss |-> TombstoneSlot(x, ss[i], dst, t)] \in Seq(EdgeSlot)
<1>1. DOMAIN ss = 1..Len(ss) /\ Len(ss) \in Nat
  BY LenProperties
<1>2. ASSUME NEW i \in 1..Len(ss)
      PROVE  TombstoneSlot(x, ss[i], dst, t) \in EdgeSlot
  <2>1. ss[i] \in EdgeSlot
    BY ElementOfSeq
  <2>. QED
    BY <2>1 DEF TombstoneSlot, EdgeSlot
<1>3. [i \in DOMAIN ss |-> TombstoneSlot(x, ss[i], dst, t)] \in [1..Len(ss) -> EdgeSlot]
  BY <1>1, <1>2
<1>. QED
  BY <1>3, <1>1, SeqDef

LEMMA ZeroPageType == ZeroPage \in Page
<1>1. <<>> \in Seq(VertexRecord) /\ <<>> \in Seq(EdgeSlot)
  BY EmptySeq
<1>. QED
  BY <1>1, Constants DEF ZeroPage, Page, Link

\* The new page, the old tail's link and the vertex's chain ends are typed.
LEMMA NewAdjPageType ==
  ASSUME NEW v \in Vid, NEW ss \in Seq(EdgeSlot)
  PROVE  NewAdjPage(v, ss) \in Page
BY ZeroPageType DEF NewAdjPage, Page

LEMMA NewVertexPageType ==
  ASSUME NEW vr \in VertexRecord
  PROVE  NewVertexPage(vr) \in Page
<1>1. <<vr>> \in Seq(VertexRecord)
  OBVIOUS
<1>. QED
  BY <1>1, ZeroPageType DEF NewVertexPage, Page

LEMMA LinkedPageType ==
  ASSUME NEW pg \in Page, NEW b \in Block
  PROVE  [pg EXCEPT !.next = b] \in Page
BY DEF Page, Link

LEMMA AnchoredPageType ==
  ASSUME NEW pg \in Page, NEW i \in DOMAIN pg.vertices, NEW b \in Block
  PROVE  [pg EXCEPT !.vertices[i].head = IF @ = NoBlock THEN b ELSE @,
                    !.vertices[i].tail = b] \in Page
<1>1. pg.vertices \in Seq(VertexRecord)
  BY DEF Page
<1>2. DOMAIN pg.vertices = 1..Len(pg.vertices) /\ pg.vertices[i] \in VertexRecord
  BY <1>1, LenProperties, ElementOfSeq
<1>. DEFINE r == pg.vertices[i]
            q == [r EXCEPT !.head = IF @ = NoBlock THEN b ELSE @, !.tail = b]
            vs == [pg.vertices EXCEPT ![i] = q]
<1>3. q \in VertexRecord
  BY <1>2 DEF VertexRecord, Link
<1>4. vs \in Seq(VertexRecord)
  <2>. HIDE DEF q
  <2>. QED
    BY <1>1, <1>2, <1>3, ExceptSeq
<1>5. [pg EXCEPT !.vertices = vs] \in Page
  <2>. HIDE DEF vs
  <2>. QED
    BY <1>4 DEF Page
<1>6. [pg EXCEPT !.vertices[i].head = IF @ = NoBlock THEN b ELSE @,
                 !.vertices[i].tail = b]
        = [pg EXCEPT !.vertices = vs]
  BY <1>2 DEF Page, VertexRecord
<1>. QED
  BY <1>5, <1>6

\* The counters after n more edges, and after one more vertex, its page new
\* or not.
LEMMA CountedMetaType ==
  ASSUME NEW m \in Meta, NEW n \in Nat
  PROVE  [m EXCEPT !.edgeCount = @ + n] \in Meta
BY DEF Meta

LEMMA NumberedMetaType ==
  ASSUME NEW m \in Meta, NEW v \in 0..MaxVid, NEW n \in Nat,
         NEW f \in Link, NEW l \in Link
  PROVE  /\ [m EXCEPT !.nextVid = v, !.vertexCount = n] \in Meta
         /\ [m EXCEPT !.nextVid = v, !.vertexCount = n,
                      !.first = f, !.last = l] \in Meta
BY DEF Meta

LEMMA AppendSlotsType ==
  ASSUME TypeOK, NEW p \in VertexPositions, NEW src \in Vid,
         NEW ss \in Seq(EdgeSlot), AppendSlots(p, src, ss)
  PROVE  /\ page' \in [Block -> Page]
         /\ eof' \in 0..MaxBlock
         /\ meta' \in Meta
<1>. DEFINE vr == VertexAt(p)
            new == eof + 1
<1>1. /\ page \in [Block -> Page]
      /\ eof \in 0..MaxBlock
  BY DEF TypeOK
<1>2. /\ vr \in VertexRecord
      /\ p[1] \in Block
      /\ p[2] \in DOMAIN page[p[1]].vertices
  BY <1>1, PositionType
<1>3. vr.tail \in Link
  BY <1>2 DEF VertexRecord
<1>4. Len(ss) \in Nat
  BY LenProperties
<1>5. meta' \in Meta
  <2>1. meta' = [meta EXCEPT !.edgeCount = @ + Len(ss)]
    BY DEF AppendSlots
  <2>. QED
    BY <1>4, <2>1, CountedMetaType DEF TypeOK
<1>. HIDE DEF vr
<1>6. CASE ~NeedsPage(p)
  <2>1. vr.tail \in Block
    BY <1>3, <1>6 DEF NeedsPage, Link, vr
  <2>2. /\ page' = [page EXCEPT ![vr.tail].slots = @ \o ss]
        /\ eof' = eof
    BY <1>6 DEF AppendSlots, vr
  <2>3. page[vr.tail] \in Page /\ page[vr.tail].slots \in Seq(EdgeSlot)
    BY <1>1, <2>1 DEF Page
  <2>4. page[vr.tail].slots \o ss \in Seq(EdgeSlot)
    BY <2>3, ConcatProperties
  <2>5. [page[vr.tail] EXCEPT !.slots = page[vr.tail].slots \o ss] \in Page
    BY <2>3, <2>4 DEF Page
  <2>6. page' = [page EXCEPT ![vr.tail] =
                    [page[vr.tail] EXCEPT !.slots = page[vr.tail].slots \o ss]]
    BY <2>2
  <2>7. page' \in [Block -> Page]
    BY <1>1, <2>5, <2>6
  <2>8. \A b \in Block : page'[b].vertices = page[b].vertices
    BY <1>1, <2>1, <2>3, <2>6 DEF Page
  <2>. QED
    BY <1>1, <1>5, <2>2, <2>7, <2>8
<1>7. CASE NeedsPage(p)
  <2>. DEFINE linked(b) == [page[b] EXCEPT !.next = new]
              anchored(b) ==
                [page[b] EXCEPT
                   !.vertices[p[2]].head = IF @ = NoBlock THEN new ELSE @,
                   !.vertices[p[2]].tail = new]
  <2>1. /\ eof < MaxBlock
        /\ eof' = new
        /\ page' = [b \in Block |->
                      IF b = new THEN NewAdjPage(src, ss)
                      ELSE IF b = vr.tail THEN linked(b)
                      ELSE IF b = p[1] THEN anchored(b)
                      ELSE page[b]]
    BY <1>7 DEF AppendSlots, vr
  <2>2. new \in Block /\ eof' \in 0..MaxBlock
    <3>1. eof < MaxBlock /\ eof' = eof + 1 /\ eof \in 0..MaxBlock /\ MaxBlock \in Nat
      BY <1>1, <2>1, Constants
    <3>. QED
      BY <3>1 DEF Block
  <2>3. NewAdjPage(src, ss) \in Page
    BY <1>3, NewAdjPageType
  <2>4. \A b \in Block : linked(b) \in Page
    BY <1>1, <2>2, LinkedPageType
  <2>5. anchored(p[1]) \in Page
    BY <1>1, <1>2, <2>2, AnchoredPageType
  <2>6. page' \in [Block -> Page]
    <3>. HIDE DEF linked, anchored
    <3>. QED
      BY <1>1, <2>1, <2>3, <2>4, <2>5
  <2>. QED
    BY <1>5, <2>2, <2>6
<1>. QED
  BY <1>6, <1>7

\* The slots that a record of a batch appends, and how many they are.
LEMMA WriteRunChunk ==
  ASSUME TypeOK, NEW s \in Sessions, NEW p \in VertexPositions,
         NEW src \in Vid, NEW t \in EdgeTypes, NEW dsts \in Seq(Vid)
  PROVE  LET n == IF Len(dsts) <= Room(p) THEN Len(dsts) ELSE Room(p)
         IN  /\ n \in 0..Len(dsts)
             /\ [i \in 1..n |-> NewSlot(src, dsts[i], t, xid[s])] \in Seq(EdgeSlot)
<1>. DEFINE n     == IF Len(dsts) <= Room(p) THEN Len(dsts) ELSE Room(p)
            chunk == [i \in 1..n |-> NewSlot(src, dsts[i], t, xid[s])]
<1>1. /\ page \in [Block -> Page]
      /\ xid[s] \in StoredXid
      /\ InvalidXid \in StoredXid
  BY DEF TypeOK, StoredXid
<1>2. Len(dsts) \in Nat /\ \A i \in 1..Len(dsts) : dsts[i] \in Vid
  BY LenProperties, ElementOfSeq
<1>3. Room(p) \in Nat
  <2>1. VertexAt(p).tail \in Link
    BY <1>1, PositionType DEF VertexRecord
  <2>2. CASE NeedsPage(p)
    BY <2>2, PageSizeAssumption DEF Room
  <2>3. CASE ~NeedsPage(p)
    <3>1. VertexAt(p).tail \in Block
      BY <2>1, <2>3 DEF NeedsPage, Link
    <3>2. page[VertexAt(p).tail].slots \in Seq(EdgeSlot)
      BY <1>1, <3>1 DEF Page
    <3>3. Len(page[VertexAt(p).tail].slots) \in Nat
      BY <3>2, LenProperties
    <3>4. Len(page[VertexAt(p).tail].slots) < EdgeSlotsPerPage
      BY <2>3, <3>3, PageSizeAssumption DEF NeedsPage
    <3>. QED
      BY <2>3, <3>3, <3>4, PageSizeAssumption DEF Room
  <2>. QED
    BY <2>2, <2>3
<1>4. n \in 0..Len(dsts)
  BY <1>2, <1>3
<1>5. chunk \in Seq(EdgeSlot)
  <2>. HIDE DEF n
  <2>1. \A i \in 1..n : NewSlot(src, dsts[i], t, xid[s]) \in EdgeSlot
    BY <1>1, <1>2, <1>4 DEF NewSlot, EdgeSlot
  <2>2. chunk \in [1..n -> EdgeSlot]
    BY <2>1
  <2>. QED
    BY <1>4, <2>2, SeqDef
<1>. QED
  BY <1>4, <1>5

LEMMA BatchType == Batches \subseteq Seq(Vid)
<1>. SUFFICES ASSUME NEW dsts \in Batches PROVE dsts \in Seq(Vid)
  OBVIOUS
<1>1. PICK n \in 1..MaxBatch : dsts \in [1..n -> Vid]
  BY DEF Batches
<1>2. n \in Nat
  BY BoundsAssumption
<1>. QED
  BY <1>1, <1>2, SeqDef

\* A record of a batch leaves the store and the operation typed.
LEMMA WriteRunType ==
  ASSUME TypeOK, NEW s \in Sessions, NEW p \in VertexPositions,
         NEW src \in Vid, NEW t \in EdgeTypes, NEW dsts \in Seq(Vid),
         WriteRun(s, p, src, t, dsts)
  PROVE  /\ page' \in [Block -> Page]
         /\ eof' \in 0..MaxBlock
         /\ meta' \in Meta
         /\ op' \in Operation
<1>. DEFINE n     == IF Len(dsts) <= Room(p) THEN Len(dsts) ELSE Room(p)
            chunk == [i \in 1..n |-> NewSlot(src, dsts[i], t, xid[s])]
            rest  == SubSeq(dsts, n + 1, Len(dsts))
<1>1. Len(dsts) \in Nat /\ \A i \in 1..Len(dsts) : dsts[i] \in Vid
  BY LenProperties, ElementOfSeq
<1>2. n \in 0..Len(dsts) /\ chunk \in Seq(EdgeSlot)
  BY WriteRunChunk
<1>6. rest \in Seq(Vid)
  <2>. HIDE DEF n, chunk
  <2>1. \A i \in (n + 1)..Len(dsts) : dsts[i] \in Vid
    BY <1>1, <1>2
  <2>. QED
    BY <1>1, <1>2, <2>1, SubSeqProperties
<1>7. AppendSlots(p, src, chunk)
  BY DEF WriteRun
<1>8. op' = IF n = Len(dsts) THEN Idle
            ELSE [name |-> "edges", src |-> src, type |-> t, rest |-> rest]
  BY DEF WriteRun
<1>9. op' \in Operation
  <2>. HIDE DEF rest, n
  <2>. QED
    BY <1>6, <1>8 DEF Operation
<1>. QED
  <2>. HIDE DEF chunk
  <2>. QED
    BY <1>2, <1>7, <1>9, AppendSlotsType

-----------------------------------------------------------------------------
(* Type correctness.                                                       *)

LEMMA InitType == Init => TypeOK
<1>. SUFFICES ASSUME Init PROVE TypeOK
  OBVIOUS
<1>1. page \in [Block -> Page]
  BY ZeroPageType DEF Init
<1>. QED
  BY <1>1, Constants DEF Init, TypeOK, Meta, Link, Operation

LEMMA TransactionType ==
  ASSUME TypeOK, NEW s \in Sessions,
         \/ AssignXid(s)
         \/ AcquireWriterLock(s)
         \/ Commit(s)
         \/ Abort(s)
         \/ AbortExtended(s)
  PROVE  TypeOK'
<1>1. CASE AssignXid(s)
  BY <1>1, Constants DEF TypeOK, AssignXid, store, VertexPositions
<1>2. CASE AcquireWriterLock(s)
  BY <1>2 DEF TypeOK, AcquireWriterLock, store
<1>3. CASE Commit(s)
  <2>1. {xid[s]} \ {InvalidXid} \subseteq NormalXid
    BY DEF TypeOK
  <2>. QED
    BY <1>3, <2>1 DEF TypeOK, Commit, EndTransaction, store
<1>4. CASE Abort(s)
  BY <1>4 DEF TypeOK, Abort, EndTransaction, store, Operation
<1>5. CASE AbortExtended(s)
  BY <1>5, Constants DEF TypeOK, AbortExtended, EndTransaction, Operation
<1>. QED
  BY <1>1, <1>2, <1>3, <1>4, <1>5

LEMMA InsertVertexType ==
  ASSUME TypeOK, NEW s \in Sessions, InsertVertex(s)
  PROVE  TypeOK'
<1>. DEFINE v    == meta.nextVid
            last == meta.last
            vr   == NewVertex(v, xid[s])
            new  == eof + 1
            room == last # NoBlock /\ Len(page[last].vertices) < VerticesPerPage
<1>1. /\ page \in [Block -> Page]
      /\ v \in Vid
      /\ last \in Link
      /\ xid[s] \in StoredXid
  <2>1. /\ v \in 0..MaxVid /\ v < MaxVid
        /\ last \in Link
    BY DEF TypeOK, InsertVertex, Meta
  <2>. QED
    BY <2>1, Constants DEF TypeOK, StoredXid, Vid
<1>2. vr \in VertexRecord
  BY <1>1 DEF NewVertex, VertexRecord, Link, StoredXid
<1>3. /\ UNCHANGED <<relfrozenxid, nextXid, committed, xid, lock, op>>
      /\ v < MaxVid
  BY DEF InsertVertex, txns
<1>6. /\ meta \in Meta
      /\ v + 1 \in 0..MaxVid
      /\ meta.vertexCount + 1 \in Nat
      /\ meta.first \in Link
  <2>1. meta \in Meta
    BY DEF TypeOK
  <2>. QED
    BY <1>1, <1>3, <2>1, Constants DEF Meta, Vid
<1>. HIDE DEF vr
<1>4. CASE room
  <2>1. /\ page' = [page EXCEPT ![last].vertices = Append(@, vr)]
        /\ meta' = [meta EXCEPT !.nextVid = v + 1, !.vertexCount = @ + 1]
        /\ eof' = eof
    BY <1>4 DEF InsertVertex, vr
  <2>2. last \in Block
    BY <1>1, <1>4 DEF Link
  <2>3. Append(page[last].vertices, vr) \in Seq(VertexRecord)
    BY <1>1, <1>2, <2>2 DEF Page
  <2>4. page' = [page EXCEPT ![last] =
                   [page[last] EXCEPT !.vertices = Append(page[last].vertices, vr)]]
    BY <2>1
  <2>5. [page[last] EXCEPT !.vertices = Append(page[last].vertices, vr)] \in Page
    BY <1>1, <2>2, <2>3 DEF Page
  <2>6. page' \in [Block -> Page]
    BY <1>1, <2>4, <2>5
  <2>. QED
    BY <1>3, <1>6, <2>1, <2>6, NumberedMetaType DEF TypeOK
<1>5. CASE ~room
  <2>1. /\ eof < MaxBlock
        /\ eof' = new
        /\ page' = [b \in Block |->
                      IF b = new THEN NewVertexPage(vr)
                      ELSE IF b = last THEN [page[b] EXCEPT !.next = new]
                      ELSE page[b]]
        /\ meta' = [meta EXCEPT
                      !.nextVid = v + 1, !.vertexCount = @ + 1,
                      !.first = IF last = NoBlock THEN new ELSE @,
                      !.last = new]
    BY <1>5 DEF InsertVertex, vr
  <2>2. new \in Block /\ eof' \in 0..MaxBlock
    <3>1. eof < MaxBlock /\ eof' = eof + 1 /\ eof \in 0..MaxBlock /\ MaxBlock \in Nat
      BY <2>1, Constants DEF TypeOK
    <3>. QED
      BY <3>1 DEF Block
  <2>3. \A b \in Block : [page[b] EXCEPT !.next = new] \in Page
    BY <1>1, <2>2, LinkedPageType
  <2>4. NewVertexPage(vr) \in Page
    BY <1>2, NewVertexPageType
  <2>5. page' \in [Block -> Page]
    BY <1>1, <2>1, <2>3, <2>4
  <2>6. meta' \in Meta
    <3>. DEFINE first == IF last = NoBlock THEN new ELSE meta.first
    <3>1. first \in Link /\ new \in Link
      BY <1>6, <2>2 DEF Link
    <3>2. meta' = [meta EXCEPT !.nextVid = v + 1,
                               !.vertexCount = meta.vertexCount + 1,
                               !.first = first, !.last = new]
      BY <2>1
    <3>. HIDE DEF first, new, v
    <3>. QED
      BY <1>6, <3>1, <3>2, NumberedMetaType
  <2>. QED
    BY <1>3, <2>2, <2>5, <2>6 DEF TypeOK
<1>. QED
  BY <1>4, <1>5

LEMMA InsertEdgesType ==
  ASSUME TypeOK, NEW s \in Sessions,
         \/ \E src, dst \in Vid, t \in EdgeTypes : InsertEdge(s, src, dst, t)
         \/ \E src \in Vid, dsts \in Seq(Vid), t \in EdgeTypes :
              InsertEdges(s, src, dsts, t)
         \/ ContinueInsertEdges(s)
  PROVE  TypeOK'
<1>. SUFFICES /\ page' \in [Block -> Page]
              /\ eof' \in 0..MaxBlock
              /\ meta' \in Meta
              /\ op' \in Operation
  <2>1. UNCHANGED <<relfrozenxid, txns>>
    BY DEF InsertEdge, InsertEdges, ContinueInsertEdges, txns
  <2>. QED
    BY <2>1 DEF TypeOK, txns
<1>1. ASSUME NEW src \in Vid, NEW dst \in Vid, NEW t \in EdgeTypes,
             InsertEdge(s, src, dst, t)
      PROVE  /\ page' \in [Block -> Page]
             /\ eof' \in 0..MaxBlock
             /\ meta' \in Meta
             /\ op' \in Operation
  <2>1. PICK p \in Located(xid[s], src) :
          AppendSlots(p, src, <<NewSlot(src, dst, t, xid[s])>>)
    BY <1>1 DEF InsertEdge
  <2>2. p \in VertexPositions
    BY DEF Located, LivePositions
  <2>3. NewSlot(src, dst, t, xid[s]) \in EdgeSlot
    BY Constants DEF TypeOK, NewSlot, EdgeSlot, StoredXid
  <2>4. <<NewSlot(src, dst, t, xid[s])>> \in Seq(EdgeSlot)
    BY <2>3
  <2>5. op' = op /\ op \in Operation
    BY <1>1 DEF InsertEdge, TypeOK
  <2>. QED
    BY <2>1, <2>2, <2>4, <2>5, AppendSlotsType
<1>2. ASSUME NEW src \in Vid, NEW dsts \in Seq(Vid), NEW t \in EdgeTypes,
             InsertEdges(s, src, dsts, t)
      PROVE  /\ page' \in [Block -> Page]
             /\ eof' \in 0..MaxBlock
             /\ meta' \in Meta
             /\ op' \in Operation
  <2>1. PICK p \in DenseLocated(xid[s], src) : WriteRun(s, p, src, t, dsts)
    BY <1>2 DEF InsertEdges
  <2>2. p \in VertexPositions
    BY DEF DenseLocated, DenseVerified
  <2>. QED
    BY <2>1, <2>2, WriteRunType
<1>3. ASSUME ContinueInsertEdges(s)
      PROVE  /\ page' \in [Block -> Page]
             /\ eof' \in 0..MaxBlock
             /\ meta' \in Meta
             /\ op' \in Operation
  <2>1. PICK p \in VertexPositions : WriteRun(s, p, op.src, op.type, op.rest)
    BY <1>3 DEF ContinueInsertEdges
  <2>2. op \in [name : {"edges"}, src : Vid, type : EdgeTypes, rest : Seq(Vid)]
    BY <1>3 DEF ContinueInsertEdges, TypeOK, Operation, Idle
  <2>3. op.src \in Vid /\ op.type \in EdgeTypes /\ op.rest \in Seq(Vid)
    BY <2>2
  <2>. QED
    BY <2>1, <2>3, WriteRunType
<1>. QED
  BY <1>1, <1>2, <1>3

\* The page of the record at p once x has deleted the vertex.
TombstonedPage(p, x) ==
  [page[p[1]] EXCEPT !.vertices =
     [page[p[1]].vertices EXCEPT
        ![p[2]] = [VertexAt(p) EXCEPT !.deleted = TRUE, !.xmax = x]]]

LEMMA TombstoneVertexPage ==
  ASSUME TypeOK, NEW s \in Sessions, NEW v \in Vid, TombstoneVertex(s, v)
  PROVE  \E p \in VertexPositions :
           /\ p \in Located(xid[s], v)
           /\ page' = [page EXCEPT ![p[1]] = TombstonedPage(p, xid[s])]
           /\ op' = [name |-> "tombstone", blk |-> VertexAt(p).head,
                     dst |-> AnyVid, type |-> AnyType]
<1>1. PICK p \in VertexPositions :
        /\ p \in Located(xid[s], v)
        /\ page' = [page EXCEPT ![p[1]].vertices[p[2]].deleted = TRUE,
                                ![p[1]].vertices[p[2]].xmax = xid[s]]
        /\ op' = [name |-> "tombstone", blk |-> VertexAt(p).head,
                  dst |-> AnyVid, type |-> AnyType]
  BY DEF TombstoneVertex, Located, LivePositions
<1>2. /\ page \in [Block -> Page]
      /\ p[1] \in Block
      /\ p[2] \in DOMAIN page[p[1]].vertices
      /\ page[p[1]].vertices \in Seq(VertexRecord)
  BY PositionType DEF TypeOK, Page
<1>. DEFINE q1  == [VertexAt(p) EXCEPT !.deleted = TRUE]
            pg1 == [page[p[1]] EXCEPT
                      !.vertices = [page[p[1]].vertices EXCEPT ![p[2]] = q1]]
<1>3. page' = [[page EXCEPT ![p[1]] = pg1]
                 EXCEPT ![p[1]].vertices[p[2]].xmax = xid[s]]
  BY <1>1 DEF VertexAt
<1>4. pg1.vertices[p[2]] = q1
  BY <1>2 DEF Page
<1>5. [page EXCEPT ![p[1]] = pg1][p[1]] = pg1
  BY <1>2
<1>6. page' = [[page EXCEPT ![p[1]] = pg1] EXCEPT ![p[1]] =
                 [pg1 EXCEPT !.vertices =
                    [pg1.vertices EXCEPT ![p[2]] = [q1 EXCEPT !.xmax = xid[s]]]]]
  BY <1>3, <1>4, <1>5
<1>7. [pg1 EXCEPT !.vertices =
         [pg1.vertices EXCEPT ![p[2]] = [q1 EXCEPT !.xmax = xid[s]]]]
        = TombstonedPage(p, xid[s])
  BY <1>2 DEF Page, TombstonedPage
<1>8. page' = [page EXCEPT ![p[1]] = TombstonedPage(p, xid[s])]
  <2>. HIDE DEF pg1
  <2>. QED
    BY <1>6, <1>7
<1>. QED
  BY <1>1, <1>8

LEMMA TombstonedPageType ==
  ASSUME TypeOK, NEW p \in VertexPositions, NEW x \in StoredXid
  PROVE  TombstonedPage(p, x) \in Page
<1>. DEFINE q  == [VertexAt(p) EXCEPT !.deleted = TRUE, !.xmax = x]
            vs == [page[p[1]].vertices EXCEPT ![p[2]] = q]
<1>1. /\ page[p[1]] \in Page
      /\ p[2] \in DOMAIN page[p[1]].vertices
      /\ VertexAt(p) \in VertexRecord
  BY PositionType DEF TypeOK
<1>2. page[p[1]].vertices \in Seq(VertexRecord)
  BY <1>1 DEF Page
<1>3. q \in VertexRecord
  BY <1>1 DEF VertexRecord
<1>4. vs \in Seq(VertexRecord)
  <2>. HIDE DEF q
  <2>1. DOMAIN page[p[1]].vertices = 1..Len(page[p[1]].vertices)
    BY <1>2, LenProperties
  <2>. QED
    BY <1>1, <1>2, <1>3, <2>1, ExceptSeq
<1>5. TombstonedPage(p, x) = [page[p[1]] EXCEPT !.vertices = vs]
  BY DEF TombstonedPage
<1>. HIDE DEF vs
<1>. QED
  BY <1>1, <1>4, <1>5 DEF Page

LEMMA TombstoneType ==
  ASSUME TypeOK, NEW s \in Sessions,
         TombstoneSome(s) \/ TombstoneAdjacency(s)
  PROVE  TypeOK'
<1>. DEFINE Walks ==
              [name : {"tombstone"}, blk : Link, dst : Vid \cup {AnyVid},
               type : EdgeTypes \cup {AnyType}]
<1>1. /\ page \in [Block -> Page]
      /\ xid[s] \in StoredXid
  BY DEF TypeOK, StoredXid
<1>2. ASSUME NEW src \in Vid, NEW dst \in Vid, NEW t \in EdgeTypes \cup {AnyType},
             TombstoneEdge(s, src, dst, t)
      PROVE  TypeOK'
  <2>1. PICK p \in VertexPositions :
          op' = [name |-> "tombstone", blk |-> VertexAt(p).head,
                 dst |-> dst, type |-> t]
    BY <1>2 DEF TombstoneEdge, Located, LivePositions
  <2>2. VertexAt(p).head \in Link
    BY <1>1, PositionType DEF VertexRecord
  <2>3. op' \in Operation
    BY <2>1, <2>2 DEF Operation
  <2>. QED
    BY <1>2, <2>3 DEF TypeOK, TombstoneEdge, store, txns
<1>3. ASSUME NEW v \in Vid, TombstoneVertex(s, v)
      PROVE  TypeOK'
  <2>1. PICK p \in VertexPositions :
          /\ page' = [page EXCEPT ![p[1]] = TombstonedPage(p, xid[s])]
          /\ op' = [name |-> "tombstone", blk |-> VertexAt(p).head,
                    dst |-> AnyVid, type |-> AnyType]
    BY <1>3, TombstoneVertexPage
  <2>2. p[1] \in Block /\ VertexAt(p) \in VertexRecord
    BY <1>1, PositionType
  <2>8. page' \in [Block -> Page]
    BY <1>1, <2>1, <2>2, TombstonedPageType
  <2>9. op' \in Operation
    BY <2>1, <2>2 DEF Operation, VertexRecord
  <2>. QED
    BY <1>3, <2>8, <2>9 DEF TypeOK, TombstoneVertex, txns
<1>4. ASSUME TombstoneAdjacency(s)
      PROVE  TypeOK'
  <2>1. op \in Walks
    BY <1>4 DEF TombstoneAdjacency, TypeOK, Operation, Idle
  <2>2. op.blk \in Link
    BY <2>1
  <2>3. CASE op.blk = NoBlock
    BY <1>4, <2>3 DEF TombstoneAdjacency, TypeOK, Operation, txns
  <2>4. CASE op.blk # NoBlock
    <3>. DEFINE b  == op.blk
                ss == [i \in DOMAIN page[b].slots |->
                         TombstoneSlot(xid[s], page[b].slots[i], op.dst, op.type)]
    <3>1. b \in Block
      BY <2>2, <2>4 DEF Link
    <3>2. page[b] \in Page /\ page[b].slots \in Seq(EdgeSlot)
      BY <1>1, <3>1 DEF Page
    <3>3. ss \in Seq(EdgeSlot)
      BY <1>1, <3>2, TombstonedType
    <3>4. page' = [page EXCEPT ![b] = [page[b] EXCEPT !.slots = ss]]
      BY <1>4, <2>4 DEF TombstoneAdjacency
    <3>5. [page[b] EXCEPT !.slots = ss] \in Page
      <4>. HIDE DEF ss, b
      <4>. QED
        BY <3>2, <3>3 DEF Page
    <3>6. page' \in [Block -> Page]
      BY <1>1, <3>1, <3>4, <3>5
    <3>7. op' \in Walks
      <4>1. page[b].next \in Link
        BY <3>2 DEF Page
      <4>2. op' = [op EXCEPT !.blk = page[b].next]
        BY <1>4, <2>4 DEF TombstoneAdjacency
      <4>. QED
        BY <2>1, <4>1, <4>2
    <3>. QED
      BY <1>4, <3>6, <3>7 DEF TypeOK, TombstoneAdjacency, Operation, txns
  <2>. QED
    BY <2>3, <2>4
<1>. QED
  BY <1>2, <1>3, <1>4 DEF TombstoneSome

LEMMA FreezeType ==
  ASSUME TypeOK, NEW s \in Sessions,
         (\E horizon \in NormalXid : FreezeBegin(s, horizon)) \/ FreezeStep(s)
  PROVE  TypeOK'
<1>. DEFINE Passes ==
              [name : {"freeze"}, horizon : NormalXid, vblk : Link,
               ablk : Link, heads : Seq(Link)]
<1>1. /\ page \in [Block -> Page]
      /\ meta \in Meta
  BY DEF TypeOK
<1>2. ASSUME NEW horizon \in NormalXid, FreezeBegin(s, horizon)
      PROVE  TypeOK'
  <2>1. op' \in Passes
    <3>1. <<>> \in Seq(Link) /\ meta.first \in Link /\ NoBlock \in Link
      BY <1>1 DEF Meta, Link
    <3>. QED
      BY <1>2, <3>1 DEF FreezeBegin
  <2>. QED
    BY <1>2, <2>1 DEF TypeOK, FreezeBegin, store, txns, Operation
<1>3. ASSUME Freezing(s)
      PROVE  op \in Passes
  BY <1>3 DEF Freezing, TypeOK, Operation, Idle
<1>4. CASE FreezeVertexPage(s)
  <2>. DEFINE b  == op.vblk
              vs == FreezeRecords(page[b].vertices, op.horizon)
  <2>1. op \in Passes
    BY <1>3, <1>4 DEF FreezeVertexPage
  <2>2. b \in Block
    BY <1>4, <2>1 DEF FreezeVertexPage, Link
  <2>3. page[b] \in Page /\ page[b].vertices \in Seq(VertexRecord)
    BY <1>1, <2>2 DEF Page
  <2>4. vs \in Seq(VertexRecord) /\ HeadsOf(page[b].vertices) \in Seq(Link)
    BY <2>3, FreezeVerticesType, HeadsOfType
  <2>5. page' = [page EXCEPT ![b] = [page[b] EXCEPT !.vertices = vs]]
    BY <1>4 DEF FreezeVertexPage
  <2>6. [page[b] EXCEPT !.vertices = vs] \in Page
    <3>. HIDE DEF vs, b
    <3>. QED
      BY <2>3, <2>4 DEF Page
  <2>7. page' \in [Block -> Page]
    BY <1>1, <2>2, <2>5, <2>6
  <2>8. op' \in Passes
    <3>1. page[b].next \in Link
      BY <2>3 DEF Page
    <3>2. op' = [op EXCEPT !.vblk = page[b].next,
                           !.heads = HeadsOf(page[b].vertices)]
      BY <1>4 DEF FreezeVertexPage
    <3>. QED
      BY <2>1, <2>4, <3>1, <3>2
  <2>. QED
    BY <1>4, <2>7, <2>8 DEF TypeOK, FreezeVertexPage, Operation, txns
<1>5. CASE FreezeDescend(s)
  <2>1. op \in Passes
    BY <1>3, <1>5 DEF FreezeDescend
  <2>2. op.heads \in Seq(Link) /\ op.heads # <<>>
    BY <1>5, <2>1 DEF FreezeDescend
  <2>3. Head(op.heads) \in Link /\ Tail(op.heads) \in Seq(Link)
    BY <2>2, HeadTailProperties
  <2>4. op' \in Passes
    BY <1>5, <2>1, <2>3 DEF FreezeDescend
  <2>. QED
    BY <1>5, <2>4 DEF TypeOK, FreezeDescend, Operation, store, txns
<1>6. CASE FreezeAdjPage(s)
  <2>. DEFINE b  == op.ablk
              ss == FreezeRecords(page[b].slots, op.horizon)
  <2>1. op \in Passes
    BY <1>3, <1>6 DEF FreezeAdjPage
  <2>2. b \in Block
    BY <1>6, <2>1 DEF FreezeAdjPage, Link
  <2>3. page[b] \in Page /\ page[b].slots \in Seq(EdgeSlot)
    BY <1>1, <2>2 DEF Page
  <2>4. ss \in Seq(EdgeSlot)
    BY <2>3, FreezeSlotsType
  <2>5. page' = [page EXCEPT ![b] = [page[b] EXCEPT !.slots = ss]]
    BY <1>6 DEF FreezeAdjPage
  <2>6. [page[b] EXCEPT !.slots = ss] \in Page
    <3>. HIDE DEF ss, b
    <3>. QED
      BY <2>3, <2>4 DEF Page
  <2>7. page' \in [Block -> Page]
    BY <1>1, <2>2, <2>5, <2>6
  <2>8. op' \in Passes
    <3>1. page[b].next \in Link
      BY <2>3 DEF Page
    <3>2. op' = [op EXCEPT !.ablk = page[b].next]
      BY <1>6 DEF FreezeAdjPage
    <3>. QED
      BY <2>1, <3>1, <3>2
  <2>. QED
    BY <1>6, <2>7, <2>8 DEF TypeOK, FreezeAdjPage, Operation, txns
<1>7. CASE FreezeRecordHorizon(s)
  <2>1. op.horizon \in NormalXid
    BY <1>3, <1>7 DEF FreezeRecordHorizon
  <2>2. meta' \in Meta
    BY <1>1, <1>7, <2>1 DEF FreezeRecordHorizon, Meta
  <2>. QED
    BY <1>7, <2>1, <2>2 DEF TypeOK, FreezeRecordHorizon, Operation, txns
<1>8. CASE FreezeRelstats(s)
  <2>1. op \in [name : {"relstats"}, horizon : NormalXid]
    BY <1>8 DEF FreezeRelstats, TypeOK, Operation, Idle
  <2>2. op.horizon \in FirstNormalXid..(MaxXid + 1)
    BY <2>1, Constants
  <2>. QED
    BY <1>8, <2>2 DEF TypeOK, FreezeRelstats, Operation, txns
<1>. QED
  BY <1>2, <1>4, <1>5, <1>6, <1>7, <1>8 DEF FreezeStep

\* Every step keeps every variable in its type.
LEMMA NextType == TypeOK /\ [Next]_vars => TypeOK'
<1>. SUFFICES ASSUME TypeOK, [Next]_vars PROVE TypeOK'
  OBVIOUS
<1>1. CASE UNCHANGED vars
  BY <1>1 DEF TypeOK, vars
<1>2. ASSUME NEW s \in Sessions, Session(s)
      PROVE  TypeOK'
  BY <1>2, TransactionType, InsertVertexType, BatchType, InsertEdgesType, TombstoneType,
     FreezeType DEF Session, InsertSome, ContinueOperation
<1>. QED
  BY <1>1, <1>2 DEF Next

\* The store, the transactions and the operation in progress stay in their
\* types, whatever the number of sessions and the sizes of the pages.
THEOREM TypeCorrect == Spec => []TypeOK
<1>. QED
  BY InitType, NextType, PTL DEF Spec

-----------------------------------------------------------------------------
(* The single-writer contract.                                             *)

KnownXids ==
  /\ \A x \in StampedXids : x < nextXid
  /\ \A s \in Sessions : xid[s] < nextXid

DistinctXids ==
  \A s, t \in Sessions : xid[s] = xid[t] /\ xid[s] # InvalidXid => s = t

WriterInv == TypeOK /\ KnownXids /\ DistinctXids /\ WriterOwnsUncommitted

\* The ids an operation of s may leave on a page that were not there.
Stamps(s) == {InvalidXid, FrozenXid, xid[s]}

-----------------------------------------------------------------------------
(* The ids on changed sequences, pages and stores.                         *)

LEMMA XidsInAppend ==
  ASSUME NEW S, NEW rs \in Seq(S), NEW r \in S
  PROVE  XidsIn(Append(rs, r)) \subseteq XidsIn(rs) \cup XidsOf(r)
<1>1. /\ Len(rs) \in Nat
      /\ DOMAIN rs = 1..Len(rs)
      /\ DOMAIN Append(rs, r) = 1..(Len(rs) + 1)
      /\ Append(rs, r)[Len(rs) + 1] = r
      /\ \A i \in 1..Len(rs) : Append(rs, r)[i] = rs[i]
  BY AppendProperties, LenProperties
<1>2. \A i \in DOMAIN Append(rs, r) :
        XidsOf(Append(rs, r)[i]) \subseteq XidsIn(rs) \cup XidsOf(r)
  <2>1. \A i \in 1..(Len(rs) + 1) : i \in 1..Len(rs) \/ i = Len(rs) + 1
    BY <1>1
  <2>. QED
    BY <1>1, <2>1 DEF XidsIn
<1>. QED
  BY <1>2 DEF XidsIn

LEMMA XidsInConcat ==
  ASSUME NEW S, NEW rs \in Seq(S), NEW qs \in Seq(S)
  PROVE  XidsIn(rs \o qs) \subseteq XidsIn(rs) \cup XidsIn(qs)
<1>1. /\ Len(rs) \in Nat /\ Len(qs) \in Nat
      /\ DOMAIN rs = 1..Len(rs) /\ DOMAIN qs = 1..Len(qs)
      /\ DOMAIN (rs \o qs) = 1..(Len(rs) + Len(qs))
      /\ \A i \in 1..(Len(rs) + Len(qs)) :
           (rs \o qs)[i] = IF i <= Len(rs) THEN rs[i] ELSE qs[i - Len(rs)]
  BY ConcatProperties, LenProperties
<1>2. ASSUME NEW i \in 1..(Len(rs) + Len(qs))
      PROVE  XidsOf((rs \o qs)[i]) \subseteq XidsIn(rs) \cup XidsIn(qs)
  <2>1. CASE i <= Len(rs)
    BY <1>1, <2>1 DEF XidsIn
  <2>2. CASE i > Len(rs)
    <3>1. i - Len(rs) \in 1..Len(qs) /\ ~(i <= Len(rs))
      BY <1>1, <2>2
    <3>. QED
      BY <1>1, <3>1 DEF XidsIn
  <2>. QED
    BY <1>1, <2>1, <2>2
<1>. QED
  BY <1>1, <1>2 DEF XidsIn

LEMMA XidsInChanged ==
  ASSUME NEW rs, NEW qs, NEW X, DOMAIN qs = DOMAIN rs,
         \A i \in DOMAIN rs : XidsOf(qs[i]) \subseteq XidsOf(rs[i]) \cup X
  PROVE  XidsIn(qs) \subseteq XidsIn(rs) \cup X
BY DEF XidsIn

LEMMA StoreXids ==
  ASSUME NEW X,
         \A b \in Block : PageXids(page'[b]) \subseteq PageXids(page[b]) \cup X
  PROVE  StampedXids' \subseteq StampedXids \cup X
BY DEF StampedXids, XidsIn, PageXids

LEMMA StampedXidsType == TypeOK => StampedXids \subseteq Nat
<1>. SUFFICES ASSUME TypeOK, NEW b \in Block
              PROVE  PageXids(page[b]) \subseteq Nat
  BY DEF StampedXids
<1>1. page[b].vertices \in Seq(VertexRecord) /\ page[b].slots \in Seq(EdgeSlot)
  BY DEF TypeOK, Page
<1>2. StoredXid \subseteq Nat
  BY Constants DEF StoredXid
<1>3. \A i \in DOMAIN page[b].vertices : page[b].vertices[i] \in VertexRecord
  BY <1>1, ElementOfSeq, LenProperties
<1>4. \A i \in DOMAIN page[b].slots : page[b].slots[i] \in EdgeSlot
  BY <1>1, ElementOfSeq, LenProperties
<1>5. XidsIn(page[b].vertices) \subseteq Nat
  BY <1>2, <1>3 DEF XidsIn, XidsOf, VertexRecord
<1>6. XidsIn(page[b].slots) \subseteq Nat
  BY <1>2, <1>4 DEF XidsIn, XidsOf, EdgeSlot
<1>. QED
  BY <1>5, <1>6 DEF PageXids

LEMMA FreezeRecordXids ==
  ASSUME NEW r \in VertexRecord \cup EdgeSlot, NEW h
  PROVE  XidsOf(FreezeRecord(r, h)) \subseteq XidsOf(r) \cup {InvalidXid, FrozenXid}
<1>1. CASE r \in VertexRecord
  BY <1>1 DEF XidsOf, FreezeRecord, FreezeXmin, VertexRecord
<1>2. CASE r \in EdgeSlot
  BY <1>2 DEF XidsOf, FreezeRecord, FreezeXmin, EdgeSlot
<1>. QED
  BY <1>1, <1>2

LEMMA FreezeRecordsXids ==
  ASSUME NEW rs \in Seq(VertexRecord) \cup Seq(EdgeSlot), NEW h
  PROVE  XidsIn(FreezeRecords(rs, h)) \subseteq XidsIn(rs) \cup {InvalidXid, FrozenXid}
<1>1. \A i \in DOMAIN rs : rs[i] \in VertexRecord \cup EdgeSlot
  BY ElementOfSeq, LenProperties
<1>2. /\ DOMAIN FreezeRecords(rs, h) = DOMAIN rs
      /\ \A i \in DOMAIN rs : FreezeRecords(rs, h)[i] = FreezeRecord(rs[i], h)
  BY DEF FreezeRecords
<1>. QED
  BY <1>1, <1>2, FreezeRecordXids, XidsInChanged

LEMMA TombstonedXids ==
  ASSUME NEW ss \in Seq(EdgeSlot), NEW x, NEW dst, NEW t
  PROVE  XidsIn([i \in DOMAIN ss |-> TombstoneSlot(x, ss[i], dst, t)])
           \subseteq XidsIn(ss) \cup {x}
<1>1. \A i \in DOMAIN ss : ss[i] \in EdgeSlot
  BY ElementOfSeq, LenProperties
<1>2. \A e \in EdgeSlot : XidsOf(TombstoneSlot(x, e, dst, t)) \subseteq XidsOf(e) \cup {x}
  BY DEF XidsOf, TombstoneSlot, EdgeSlot
<1>. QED
  BY <1>1, <1>2, XidsInChanged

-----------------------------------------------------------------------------
(* The ids that each operation leaves in the store.                        *)

LEMMA VertexPageXids ==
  ASSUME NEW vr \in VertexRecord
  PROVE  PageXids(NewVertexPage(vr)) = XidsOf(vr)
<1>1. NewVertexPage(vr).vertices = <<vr>> /\ NewVertexPage(vr).slots = <<>>
  BY DEF NewVertexPage, ZeroPage
<1>2. XidsIn(<<vr>>) = XidsOf(vr)
  BY DEF XidsIn
<1>3. XidsIn(<<>>) = {}
  BY DEF XidsIn
<1>. QED
  BY <1>1, <1>2, <1>3 DEF PageXids

LEMMA AdjPageXids ==
  ASSUME NEW src, NEW ss
  PROVE  PageXids(NewAdjPage(src, ss)) = XidsIn(ss)
<1>1. NewAdjPage(src, ss).vertices = <<>> /\ NewAdjPage(src, ss).slots = ss
  BY DEF NewAdjPage, ZeroPage
<1>2. XidsIn(<<>>) = {}
  BY DEF XidsIn
<1>. QED
  BY <1>1, <1>2 DEF PageXids

\* Anchoring a chain at a vertex record changes no id.
LEMMA AnchoredPageXids ==
  ASSUME NEW pg \in Page, NEW i \in DOMAIN pg.vertices, NEW b
  PROVE  PageXids([pg EXCEPT !.vertices[i].head = IF @ = NoBlock THEN b ELSE @,
                             !.vertices[i].tail = b])
           \subseteq PageXids(pg)
<1>. DEFINE q  == [pg EXCEPT !.vertices[i].head = IF @ = NoBlock THEN b ELSE @,
                             !.vertices[i].tail = b]
<1>1. pg.vertices \in Seq(VertexRecord)
  BY DEF Page
<1>2. \A j \in DOMAIN pg.vertices : pg.vertices[j] \in VertexRecord
  BY <1>1, ElementOfSeq, LenProperties
<1>3. /\ q.slots = pg.slots
      /\ DOMAIN q.vertices = DOMAIN pg.vertices
  BY DEF Page
<1>4. \A j \in DOMAIN pg.vertices :
        /\ q.vertices[j].xmin = pg.vertices[j].xmin
        /\ q.vertices[j].xmax = pg.vertices[j].xmax
        /\ q.vertices[j].deleted = pg.vertices[j].deleted
  BY <1>2 DEF Page, VertexRecord
<1>5. \A j \in DOMAIN pg.vertices :
        XidsOf(q.vertices[j]) \subseteq XidsOf(pg.vertices[j]) \cup {}
  BY <1>4 DEF XidsOf
<1>6. XidsIn(q.vertices) \subseteq XidsIn(pg.vertices) \cup {}
  <2>. HIDE DEF q
  <2>. QED
    BY <1>3, <1>5, XidsInChanged
<1>. QED
  BY <1>3, <1>6 DEF PageXids

LEMMA InsertVertexXids ==
  ASSUME TypeOK, NEW s \in Sessions, InsertVertex(s)
  PROVE  StampedXids' \subseteq StampedXids \cup Stamps(s)
<1>. DEFINE vr   == NewVertex(meta.nextVid, xid[s])
            last == meta.last
            new  == eof + 1
            room == last # NoBlock /\ Len(page[last].vertices) < VerticesPerPage
<1>1. /\ page \in [Block -> Page]
      /\ last \in Link
      /\ xid[s] \in StoredXid
      /\ meta.nextVid \in Vid
  BY Constants DEF TypeOK, Meta, StoredXid, InsertVertex, Vid
<1>2. vr \in VertexRecord /\ XidsOf(vr) \subseteq Stamps(s)
  BY <1>1 DEF NewVertex, VertexRecord, Link, StoredXid, XidsOf, Stamps
<1>. HIDE DEF vr
<1>. SUFFICES ASSUME NEW b \in Block
              PROVE  PageXids(page'[b]) \subseteq PageXids(page[b]) \cup Stamps(s)
  BY StoreXids
<1>3. page[b] \in Page /\ page[b].vertices \in Seq(VertexRecord)
  BY <1>1 DEF Page
<1>4. CASE room
  <2>1. page' = [page EXCEPT ![last].vertices = Append(@, vr)]
    BY <1>4 DEF InsertVertex, vr
  <2>2. CASE b = last
    <3>1. page'[b] = [page[b] EXCEPT !.vertices = Append(page[b].vertices, vr)]
      BY <1>1, <2>1, <2>2
    <3>2. /\ page'[b].vertices = Append(page[b].vertices, vr)
          /\ page'[b].slots = page[b].slots
      BY <1>3, <3>1 DEF Page
    <3>. QED
      BY <1>2, <1>3, <3>2, XidsInAppend DEF PageXids
  <2>3. CASE b # last
    BY <1>1, <2>1, <2>3
  <2>. QED
    BY <2>2, <2>3
<1>5. CASE ~room
  <2>1. page' = [c \in Block |->
                   IF c = new THEN NewVertexPage(vr)
                   ELSE IF c = last THEN [page[c] EXCEPT !.next = new]
                   ELSE page[c]]
    BY <1>5 DEF InsertVertex, vr
  <2>2. CASE b = new
    BY <1>2, <2>1, <2>2, VertexPageXids
  <2>3. CASE b # new
    <3>1. /\ page'[b].vertices = page[b].vertices
          /\ page'[b].slots = page[b].slots
      BY <1>3, <2>1, <2>3 DEF Page
    <3>. QED
      BY <3>1 DEF PageXids
  <2>. QED
    BY <2>2, <2>3
<1>. QED
  BY <1>4, <1>5

LEMMA AppendSlotsXids ==
  ASSUME TypeOK, NEW p \in VertexPositions, NEW src \in Vid,
         NEW ss \in Seq(EdgeSlot), AppendSlots(p, src, ss),
         NEW X, XidsIn(ss) \subseteq X
  PROVE  StampedXids' \subseteq StampedXids \cup X
<1>. DEFINE vr  == VertexAt(p)
            new == eof + 1
<1>1. /\ page \in [Block -> Page]
      /\ p[2] \in DOMAIN page[p[1]].vertices
  BY PositionType DEF TypeOK
<1>. SUFFICES ASSUME NEW b \in Block
              PROVE  PageXids(page'[b]) \subseteq PageXids(page[b]) \cup X
  BY StoreXids
<1>2. page[b] \in Page /\ page[b].slots \in Seq(EdgeSlot)
  BY <1>1 DEF Page
<1>3. CASE ~NeedsPage(p)
  <2>1. page' = [page EXCEPT ![vr.tail].slots = @ \o ss]
    BY <1>3 DEF AppendSlots
  <2>. HIDE DEF vr
  <2>2. CASE b = vr.tail
    <3>1. page'[b] = [page[b] EXCEPT !.slots = page[b].slots \o ss]
      BY <1>1, <2>1, <2>2
    <3>2. /\ page'[b].vertices = page[b].vertices
          /\ page'[b].slots = page[b].slots \o ss
      BY <1>2, <3>1 DEF Page
    <3>. QED
      BY <1>2, <3>2, XidsInConcat DEF PageXids
  <2>3. CASE b # vr.tail
    BY <1>1, <2>1, <2>3
  <2>. QED
    BY <2>2, <2>3
<1>4. CASE NeedsPage(p)
  <2>. DEFINE anchored(c) ==
                [page[c] EXCEPT
                   !.vertices[p[2]].head = IF @ = NoBlock THEN new ELSE @,
                   !.vertices[p[2]].tail = new]
  <2>1. page' = [c \in Block |->
                   IF c = new THEN NewAdjPage(src, ss)
                   ELSE IF c = vr.tail THEN [page[c] EXCEPT !.next = new]
                   ELSE IF c = p[1] THEN anchored(c)
                   ELSE page[c]]
    BY <1>4 DEF AppendSlots
  <2>. HIDE DEF vr, new
  <2>2. CASE b = new
    BY <2>1, <2>2, AdjPageXids
  <2>3. CASE b # new /\ b = vr.tail
    <3>1. page'[b] = [page[b] EXCEPT !.next = new]
      BY <2>1, <2>3
    <3>2. /\ page'[b].vertices = page[b].vertices
          /\ page'[b].slots = page[b].slots
      BY <1>2, <3>1 DEF Page
    <3>. QED
      BY <3>2 DEF PageXids
  <2>4. CASE b # new /\ b # vr.tail /\ b = p[1]
    <3>1. page'[b] = anchored(b)
      BY <2>1, <2>4
    <3>2. p[2] \in DOMAIN page[b].vertices
      BY <1>1, <2>4
    <3>3. PageXids(anchored(b)) \subseteq PageXids(page[b])
      BY <1>2, <3>2, AnchoredPageXids
    <3>. HIDE DEF anchored
    <3>. QED
      BY <3>1, <3>3
  <2>5. CASE b # new /\ b # vr.tail /\ b # p[1]
    <3>1. page'[b] = page[b]
      BY <2>1, <2>5
    <3>. QED
      BY <3>1
  <2>. QED
    BY <2>2, <2>3, <2>4, <2>5
<1>. QED
  BY <1>3, <1>4

LEMMA WriteRunXids ==
  ASSUME TypeOK, NEW s \in Sessions, NEW p \in VertexPositions,
         NEW src \in Vid, NEW t \in EdgeTypes, NEW dsts \in Seq(Vid),
         WriteRun(s, p, src, t, dsts)
  PROVE  StampedXids' \subseteq StampedXids \cup Stamps(s)
<1>. DEFINE n     == IF Len(dsts) <= Room(p) THEN Len(dsts) ELSE Room(p)
            chunk == [i \in 1..n |-> NewSlot(src, dsts[i], t, xid[s])]
<1>1. chunk \in Seq(EdgeSlot)
  BY WriteRunChunk
<1>2. \A i \in 1..n : XidsOf(NewSlot(src, dsts[i], t, xid[s])) \subseteq Stamps(s)
  BY DEF XidsOf, NewSlot, Stamps
<1>3. XidsIn(chunk) \subseteq Stamps(s)
  <2>. HIDE DEF n
  <2>. QED
    BY <1>2 DEF XidsIn
<1>4. AppendSlots(p, src, chunk)
  BY DEF WriteRun
<1>. QED
  <2>. HIDE DEF chunk
  <2>. QED
    BY <1>1, <1>3, <1>4, AppendSlotsXids

LEMMA InsertEdgesXids ==
  ASSUME TypeOK, NEW s \in Sessions,
         \/ \E src, dst \in Vid, t \in EdgeTypes : InsertEdge(s, src, dst, t)
         \/ \E src \in Vid, dsts \in Seq(Vid), t \in EdgeTypes :
              InsertEdges(s, src, dsts, t)
         \/ ContinueInsertEdges(s)
  PROVE  StampedXids' \subseteq StampedXids \cup Stamps(s)
<1>1. ASSUME NEW src \in Vid, NEW dst \in Vid, NEW t \in EdgeTypes,
             InsertEdge(s, src, dst, t)
      PROVE  StampedXids' \subseteq StampedXids \cup Stamps(s)
  <2>. DEFINE e == NewSlot(src, dst, t, xid[s])
  <2>1. PICK p \in Located(xid[s], src) : AppendSlots(p, src, <<e>>)
    BY <1>1 DEF InsertEdge
  <2>2. p \in VertexPositions
    BY DEF Located, LivePositions
  <2>3. <<e>> \in Seq(EdgeSlot) /\ XidsOf(e) \subseteq Stamps(s)
    <3>1. e \in EdgeSlot
      BY Constants DEF TypeOK, NewSlot, EdgeSlot, StoredXid
    <3>2. XidsOf(e) \subseteq Stamps(s)
      BY DEF NewSlot, XidsOf, Stamps
    <3>. HIDE DEF e
    <3>. QED
      BY <3>1, <3>2
  <2>4. XidsIn(<<e>>) \subseteq Stamps(s)
    <3>. HIDE DEF e
    <3>. QED
      BY <2>3 DEF XidsIn
  <2>. QED
    BY <2>1, <2>2, <2>3, <2>4, AppendSlotsXids
<1>2. ASSUME NEW src \in Vid, NEW dsts \in Seq(Vid), NEW t \in EdgeTypes,
             InsertEdges(s, src, dsts, t)
      PROVE  StampedXids' \subseteq StampedXids \cup Stamps(s)
  <2>1. PICK p \in DenseLocated(xid[s], src) : WriteRun(s, p, src, t, dsts)
    BY <1>2 DEF InsertEdges
  <2>2. p \in VertexPositions
    BY DEF DenseLocated, DenseVerified
  <2>. QED
    BY <2>1, <2>2, WriteRunXids
<1>3. ASSUME ContinueInsertEdges(s)
      PROVE  StampedXids' \subseteq StampedXids \cup Stamps(s)
  <2>1. PICK p \in VertexPositions : WriteRun(s, p, op.src, op.type, op.rest)
    BY <1>3 DEF ContinueInsertEdges
  <2>2. op \in [name : {"edges"}, src : Vid, type : EdgeTypes, rest : Seq(Vid)]
    BY <1>3 DEF ContinueInsertEdges, TypeOK, Operation, Idle
  <2>3. op.src \in Vid /\ op.type \in EdgeTypes /\ op.rest \in Seq(Vid)
    BY <2>2
  <2>. QED
    BY <2>1, <2>3, WriteRunXids
<1>. QED
  BY <1>1, <1>2, <1>3

LEMMA TombstoneVertexXids ==
  ASSUME TypeOK, NEW s \in Sessions, NEW v \in Vid, TombstoneVertex(s, v)
  PROVE  StampedXids' \subseteq StampedXids \cup Stamps(s)
<1>1. PICK p \in VertexPositions :
        page' = [page EXCEPT ![p[1]] = TombstonedPage(p, xid[s])]
  BY TombstoneVertexPage
<1>2. /\ page \in [Block -> Page]
      /\ p[1] \in Block
      /\ p[2] \in DOMAIN page[p[1]].vertices
      /\ page[p[1]].vertices \in Seq(VertexRecord)
  BY PositionType DEF TypeOK, Page
<1>. DEFINE q == [VertexAt(p) EXCEPT !.deleted = TRUE, !.xmax = xid[s]]
            vs == [page[p[1]].vertices EXCEPT ![p[2]] = q]
<1>3. XidsOf(q) \subseteq XidsOf(VertexAt(p)) \cup Stamps(s)
  BY PositionType, <1>2 DEF XidsOf, VertexRecord, Stamps
<1>4. XidsIn(vs) \subseteq XidsIn(page[p[1]].vertices) \cup Stamps(s)
  <2>1. DOMAIN vs = DOMAIN page[p[1]].vertices
    OBVIOUS
  <2>2. ASSUME NEW i \in DOMAIN page[p[1]].vertices
        PROVE  XidsOf(vs[i]) \subseteq XidsOf(page[p[1]].vertices[i]) \cup Stamps(s)
    <3>1. vs[i] = IF i = p[2] THEN q ELSE page[p[1]].vertices[i]
      OBVIOUS
    <3>. HIDE DEF q, vs
    <3>. QED
      BY <1>3, <3>1 DEF VertexAt
  <2>. HIDE DEF vs
  <2>. QED
    BY <2>1, <2>2, XidsInChanged
<1>5. TombstonedPage(p, xid[s]) = [page[p[1]] EXCEPT !.vertices = vs]
  BY DEF TombstonedPage
<1>6. /\ TombstonedPage(p, xid[s]).vertices = vs
      /\ TombstonedPage(p, xid[s]).slots = page[p[1]].slots
  <2>. HIDE DEF vs
  <2>. QED
    BY <1>2, <1>5 DEF Page
<1>. SUFFICES ASSUME NEW b \in Block
              PROVE  PageXids(page'[b]) \subseteq PageXids(page[b]) \cup Stamps(s)
  BY StoreXids
<1>7. CASE b = p[1]
  <2>1. page'[b] = TombstonedPage(p, xid[s])
    BY <1>1, <1>2, <1>7
  <2>. HIDE DEF vs
  <2>. QED
    BY <1>4, <1>6, <1>7, <2>1 DEF PageXids
<1>8. CASE b # p[1]
  BY <1>1, <1>2, <1>8
<1>. QED
  BY <1>7, <1>8

\* Replacing a page's slots, or its records, by ones with no other ids.
LEMMA ReplacedPageXids ==
  ASSUME page \in [Block -> Page], NEW b \in Block, NEW rs, NEW X,
         \/ /\ page' = [page EXCEPT ![b] = [page[b] EXCEPT !.slots = rs]]
            /\ XidsIn(rs) \subseteq XidsIn(page[b].slots) \cup X
         \/ /\ page' = [page EXCEPT ![b] = [page[b] EXCEPT !.vertices = rs]]
            /\ XidsIn(rs) \subseteq XidsIn(page[b].vertices) \cup X
  PROVE  StampedXids' \subseteq StampedXids \cup X
<1>. SUFFICES ASSUME NEW c \in Block
              PROVE  PageXids(page'[c]) \subseteq PageXids(page[c]) \cup X
  BY StoreXids
<1>1. CASE c = b
  <2>1. page[b] \in Page
    OBVIOUS
  <2>2. \/ /\ page'[c].vertices = page[c].vertices
           /\ page'[c].slots = rs
           /\ XidsIn(rs) \subseteq XidsIn(page[b].slots) \cup X
        \/ /\ page'[c].vertices = rs
           /\ page'[c].slots = page[c].slots
           /\ XidsIn(rs) \subseteq XidsIn(page[b].vertices) \cup X
    BY <1>1, <2>1 DEF Page
  <2>. QED
    BY <1>1, <2>2 DEF PageXids
<1>2. CASE c # b
  BY <1>2
<1>. QED
  BY <1>1, <1>2

LEMMA TombstoneAdjacencyXids ==
  ASSUME TypeOK, NEW s \in Sessions, TombstoneAdjacency(s)
  PROVE  StampedXids' \subseteq StampedXids \cup Stamps(s)
<1>1. CASE op.blk = NoBlock
  BY <1>1 DEF TombstoneAdjacency, StampedXids
<1>2. CASE op.blk # NoBlock
  <2>. DEFINE b  == op.blk
              ss == [i \in DOMAIN page[b].slots |->
                       TombstoneSlot(xid[s], page[b].slots[i], op.dst, op.type)]
  <2>1. page' = [page EXCEPT ![b] = [page[b] EXCEPT !.slots = ss]]
    BY <1>2 DEF TombstoneAdjacency
  <2>2. b \in Block
    BY <1>2 DEF TombstoneAdjacency, TypeOK, Operation, Idle, Link
  <2>3. page \in [Block -> Page] /\ page[b].slots \in Seq(EdgeSlot)
    BY <2>2 DEF TypeOK, Page
  <2>4. XidsIn(ss) \subseteq XidsIn(page[b].slots) \cup {xid[s]}
    BY <2>3, TombstonedXids
  <2>5. XidsIn(ss) \subseteq XidsIn(page[b].slots) \cup Stamps(s)
    BY <2>4 DEF Stamps
  <2>. HIDE DEF ss, b
  <2>. QED
    BY <2>1, <2>2, <2>3, <2>5, ReplacedPageXids
<1>. QED
  BY <1>1, <1>2

LEMMA FreezePassType ==
  ASSUME TypeOK, NEW s \in Sessions, Freezing(s)
  PROVE  op.vblk \in Link /\ op.ablk \in Link /\ op.heads \in Seq(Link)
           /\ op.horizon \in NormalXid
BY DEF Freezing, TypeOK, Operation, Idle

LEMMA FreezeXids ==
  ASSUME TypeOK, NEW s \in Sessions, FreezeStep(s)
  PROVE  StampedXids' \subseteq StampedXids \cup {InvalidXid, FrozenXid}
<1>1. page \in [Block -> Page]
  BY DEF TypeOK
<1>2. CASE FreezeVertexPage(s)
  <2>. DEFINE b  == op.vblk
              vs == FreezeRecords(page[b].vertices, op.horizon)
  <2>1. page' = [page EXCEPT ![b] = [page[b] EXCEPT !.vertices = vs]]
    BY <1>2 DEF FreezeVertexPage
  <2>2. b \in Block
    BY <1>2, FreezePassType DEF FreezeVertexPage, Link
  <2>3. XidsIn(vs) \subseteq XidsIn(page[b].vertices) \cup {InvalidXid, FrozenXid}
    BY <1>1, <2>2, FreezeRecordsXids DEF Page
  <2>. HIDE DEF vs, b
  <2>. QED
    BY <1>1, <2>1, <2>2, <2>3, ReplacedPageXids
<1>3. CASE FreezeAdjPage(s)
  <2>. DEFINE b  == op.ablk
              ss == FreezeRecords(page[b].slots, op.horizon)
  <2>1. page' = [page EXCEPT ![b] = [page[b] EXCEPT !.slots = ss]]
    BY <1>3 DEF FreezeAdjPage
  <2>2. b \in Block
    BY <1>3, FreezePassType DEF FreezeAdjPage, Link
  <2>3. XidsIn(ss) \subseteq XidsIn(page[b].slots) \cup {InvalidXid, FrozenXid}
    BY <1>1, <2>2, FreezeRecordsXids DEF Page
  <2>. HIDE DEF ss, b
  <2>. QED
    BY <1>1, <2>1, <2>2, <2>3, ReplacedPageXids
<1>4. CASE page' = page
  BY <1>4 DEF StampedXids
<1>. QED
  BY <1>2, <1>3, <1>4 DEF FreezeStep, FreezeDescend, FreezeRecordHorizon,
     FreezeRelstats, store

\* A step of an operation under the lock, or the first one of it.
Operates(s) ==
  \/ InsertSome(s) \/ TombstoneSome(s) \/ ContinueOperation(s)
  \/ \E horizon \in NormalXid : FreezeBegin(s, horizon)

LEMMA OperationXids ==
  ASSUME TypeOK, TypeOK', NEW s \in Sessions, Operates(s)
  PROVE  /\ lock = s /\ UNCHANGED txns
         /\ StampedXids' \subseteq StampedXids \cup Stamps(s)
<1>1. CASE InsertSome(s) \/ ContinueInsertEdges(s)
  <2>1. lock = s /\ UNCHANGED txns
    BY <1>1 DEF InsertSome, InsertVertex, InsertEdge, InsertEdges,
       ContinueInsertEdges, MayWrite, txns
  <2>2. StampedXids' \subseteq StampedXids \cup Stamps(s)
    BY <1>1, BatchType, InsertVertexXids, InsertEdgesXids DEF InsertSome
  <2>. QED
    BY <2>1, <2>2
<1>2. CASE TombstoneSome(s) \/ TombstoneAdjacency(s)
  <2>1. lock = s /\ UNCHANGED txns
    BY <1>2 DEF TombstoneSome, TombstoneEdge, TombstoneVertex,
       TombstoneAdjacency, MayWrite, txns
  <2>2. StampedXids' \subseteq StampedXids \cup Stamps(s)
    <3>1. ASSUME NEW src \in Vid, NEW dst \in Vid,
                 NEW t \in EdgeTypes \cup {AnyType}, TombstoneEdge(s, src, dst, t)
          PROVE  StampedXids' = StampedXids
      BY <3>1 DEF TombstoneEdge, store, StampedXids
    <3>. QED
      BY <1>2, <3>1, TombstoneVertexXids, TombstoneAdjacencyXids
         DEF TombstoneSome
  <2>. QED
    BY <2>1, <2>2
<1>3. CASE (\E horizon \in NormalXid : FreezeBegin(s, horizon)) \/ FreezeStep(s)
  <2>1. lock = s /\ UNCHANGED txns
    BY <1>3 DEF FreezeBegin, FreezeStep, FreezeVertexPage, FreezeDescend,
       FreezeAdjPage, FreezeRecordHorizon, FreezeRelstats, Freezing, txns
  <2>2. StampedXids' \subseteq StampedXids \cup Stamps(s)
    <3>1. ASSUME NEW horizon \in NormalXid, FreezeBegin(s, horizon)
          PROVE  StampedXids' = StampedXids
      BY <3>1 DEF FreezeBegin, store, StampedXids
    <3>. QED
      BY <1>3, <3>1, FreezeXids DEF Stamps
  <2>. QED
    BY <2>1, <2>2
<1>. QED
  BY <1>1, <1>2, <1>3 DEF Operates, ContinueOperation

-----------------------------------------------------------------------------
(* The contract.                                                           *)

\* An operation under the lock, whatever it stamps.
LEMMA OperationKeepsContract ==
  ASSUME WriterInv, NEW s \in Sessions, lock = s, UNCHANGED txns,
         StampedXids' \subseteq StampedXids \cup Stamps(s)
  PROVE  KnownXids' /\ DistinctXids' /\ WriterOwnsUncommitted'
<1>1. UNCHANGED <<nextXid, committed, xid, lock>>
  BY DEF txns
<1>2. xid[s] < nextXid /\ InvalidXid < nextXid /\ FrozenXid < nextXid
  BY Constants DEF WriterInv, TypeOK, KnownXids
<1>3. KnownXids'
  BY <1>1, <1>2 DEF WriterInv, KnownXids, Stamps
<1>4. DistinctXids'
  BY <1>1 DEF WriterInv, DistinctXids
<1>5. FrozenXid \notin Running /\ InvalidXid \notin Running
  BY Constants DEF WriterInv, TypeOK, Running
<1>6. WriterOwnsUncommitted'
  <2>1. Running' = Running
    BY <1>1 DEF Running
  <2>2. lock # NoSession
    BY SessionsAssumption
  <2>. QED
    BY <1>1, <1>5, <2>1, <2>2 DEF WriterInv, WriterOwnsUncommitted, Stamps
<1>. QED
  BY <1>3, <1>4, <1>6

\* The ends and the beginnings of transactions leave the pages alone.
LEMMA TransactionKeepsContract ==
  ASSUME WriterInv, NEW s \in Sessions,
         \/ AssignXid(s)
         \/ AcquireWriterLock(s)
         \/ EndTransaction(s) /\ UNCHANGED page
  PROVE  KnownXids' /\ DistinctXids' /\ WriterOwnsUncommitted'
<1>1. /\ xid \in [Sessions -> NormalXid \cup {InvalidXid}]
      /\ nextXid \in Nat
      /\ \A x \in NormalXid \cup {InvalidXid} : x \in Nat
  BY Constants DEF WriterInv, TypeOK
<1>2. StampedXids' = StampedXids
  BY DEF StampedXids, AssignXid, AcquireWriterLock, store
<1>3. \A x \in StampedXids : x < nextXid
  BY DEF WriterInv, KnownXids
<1>4. \A t \in Sessions : xid[t] < nextXid
  BY DEF WriterInv, KnownXids
<1>5. CASE AssignXid(s)
  <2>1. /\ xid[s] = InvalidXid
        /\ xid' = [xid EXCEPT ![s] = nextXid]
        /\ nextXid' = nextXid + 1
        /\ lock' = lock
    BY <1>5 DEF AssignXid
  <2>2. \A t \in Sessions : xid'[t] = IF t = s THEN nextXid ELSE xid[t]
    BY <1>1, <2>1
  <2>3. \A x \in StampedXids : x \in Nat
    BY StampedXidsType DEF WriterInv
  <2>4. KnownXids'
    BY <1>1, <1>2, <1>3, <1>4, <2>1, <2>2, <2>3 DEF KnownXids
  <2>5. DistinctXids'
    BY <1>1, <1>4, <2>2 DEF WriterInv, DistinctXids
  <2>6. nextXid \notin StampedXids
    BY <1>1, <1>3
  <2>7. \A x \in StampedXids \cap Running' : x \in Running
    BY <2>2, <2>6 DEF Running
  <2>8. ASSUME NEW x \in StampedXids', x \in Running'
        PROVE  lock' # NoSession /\ xid'[lock'] = x
    <3>1. lock # NoSession /\ xid[lock] = x /\ x # InvalidXid
      BY <1>2, <2>7, <2>8 DEF WriterInv, WriterOwnsUncommitted, Running
    <3>2. lock \in Sessions /\ lock # s
      BY <2>1, <3>1 DEF WriterInv, TypeOK
    <3>. QED
      BY <2>1, <2>2, <3>1, <3>2
  <2>9. WriterOwnsUncommitted'
    BY <2>8 DEF WriterOwnsUncommitted
  <2>. QED
    BY <2>4, <2>5, <2>9
<1>6. CASE AcquireWriterLock(s)
  <2>1. /\ lock = NoSession
        /\ UNCHANGED <<nextXid, xid>>
    BY <1>6 DEF AcquireWriterLock
  <2>2. Running' = Running
    BY <2>1 DEF Running
  <2>3. StampedXids \cap Running = {}
    BY <2>1 DEF WriterInv, WriterOwnsUncommitted
  <2>. QED
    BY <1>2, <1>3, <1>4, <2>1, <2>2, <2>3
       DEF WriterInv, KnownXids, DistinctXids, WriterOwnsUncommitted
<1>7. CASE EndTransaction(s)
  <2>1. /\ \A t \in Sessions : xid'[t] = IF t = s THEN InvalidXid ELSE xid[t]
        /\ lock' = IF lock = s THEN NoSession ELSE lock
        /\ nextXid' = nextXid
    BY <1>1, <1>7 DEF EndTransaction
  <2>2. InvalidXid < nextXid
    BY Constants DEF WriterInv, TypeOK
  <2>3. KnownXids'
    BY <1>2, <1>3, <1>4, <2>1, <2>2 DEF KnownXids
  <2>4. DistinctXids'
    BY <2>1 DEF WriterInv, DistinctXids
  <2>5. ASSUME NEW x \in StampedXids', x \in Running'
        PROVE  lock' # NoSession /\ xid'[lock'] = x
    <3>1. PICK t \in Sessions : t # s /\ xid[t] = x /\ x # InvalidXid
      BY <2>1, <2>5 DEF Running
    <3>2. lock # NoSession /\ xid[lock] = x
      BY <1>2, <2>5, <3>1 DEF WriterInv, WriterOwnsUncommitted, Running
    <3>3. lock \in Sessions
      BY <3>2 DEF WriterInv, TypeOK
    <3>4. lock # s
      BY <3>1, <3>2, <3>3 DEF WriterInv, DistinctXids
    <3>. QED
      BY <2>1, <3>2, <3>3, <3>4
  <2>6. WriterOwnsUncommitted'
    BY <2>5 DEF WriterOwnsUncommitted
  <2>. QED
    BY <2>3, <2>4, <2>6
<1>. QED
  BY <1>5, <1>6, <1>7

LEMMA WriterInit == Init => WriterInv
<1>. SUFFICES ASSUME Init PROVE WriterInv
  OBVIOUS
<1>1. TypeOK
  BY InitType
<1>2. StampedXids = {}
  <2>1. \A b \in Block : page[b].vertices = <<>> /\ page[b].slots = <<>>
    BY DEF Init, ZeroPage
  <2>2. XidsIn(<<>>) = {}
    BY DEF XidsIn
  <2>. QED
    BY <2>1, <2>2 DEF StampedXids, PageXids
<1>. QED
  BY <1>1, <1>2, Constants
     DEF WriterInv, KnownXids, DistinctXids, WriterOwnsUncommitted, Init

LEMMA WriterNext == WriterInv /\ [Next]_vars => WriterInv'
<1>. SUFFICES ASSUME WriterInv, [Next]_vars PROVE WriterInv'
  OBVIOUS
<1>1. TypeOK /\ TypeOK'
  BY NextType DEF WriterInv
<1>2. CASE UNCHANGED vars
  BY <1>1, <1>2 DEF vars, WriterInv, KnownXids, DistinctXids,
     WriterOwnsUncommitted, StampedXids, Running
<1>3. ASSUME NEW s \in Sessions, Session(s)
      PROVE  KnownXids' /\ DistinctXids' /\ WriterOwnsUncommitted'
  <2>1. CASE AssignXid(s) \/ AcquireWriterLock(s) \/ Commit(s) \/ Abort(s)
               \/ AbortExtended(s)
    BY <2>1, TransactionKeepsContract DEF Commit, Abort, AbortExtended, store
  <2>2. CASE Operates(s)
    BY <1>1, <2>2, OperationXids, OperationKeepsContract
  <2>. QED
    BY <1>3, <2>1, <2>2 DEF Session, ContinueOperation, Operates
<1>. QED
  BY <1>1, <1>2, <1>3 DEF Next, WriterInv

\* No two transactions ever have uncommitted changes in the store together:
\* the contract gph_acquire_writer_lock is there for, also when transactions
\* end in the middle of a batch, a sweep or a freeze pass.
THEOREM WriterIsolation == Spec => []WriterOwnsUncommitted
<1>1. WriterInv => WriterOwnsUncommitted
  BY DEF WriterInv
<1>. QED
  BY <1>1, WriterInit, WriterNext, PTL DEF Spec

-----------------------------------------------------------------------------
(* Freezing is a storage rewrite and nothing else: no reader's graph       *)
(* changes with a step of a freeze pass.                                   *)
(*                                                                         *)
(* What makes it so is the horizon check at the start of the pass, and     *)
(* that it stays true while transactions begin and end during the pass:    *)
(* no id below the horizon is, or becomes, the id of a running session, so *)
(* clog has the last word on each id that is rewritten.                    *)

\* PrecedesOldestXmin(h) when n is the next id and the ids in r are running.
Precedes(h, n, r) == h < n /\ \A x \in r : h < x

HorizonHolds == op.name = "freeze" => Precedes(op.horizon, nextXid, Running)

FreezeInv == TypeOK /\ HorizonHolds

-----------------------------------------------------------------------------
(* The horizon stays behind every running transaction.                     *)

LEMMA FreezeInvInit == Init => FreezeInv
BY InitType DEF Init, Idle, FreezeInv, HorizonHolds

\* What a write leaves under way is never a pass.
LEMMA WriteOperation ==
  ASSUME TypeOK, NEW s \in Sessions,
         InsertSome(s) \/ ContinueInsertEdges(s) \/ TombstoneSome(s)
           \/ TombstoneAdjacency(s)
  PROVE  op'.name \in {"idle", "edges", "tombstone"}
<1>1. CASE InsertVertex(s)
  BY <1>1 DEF InsertVertex, MayWrite, Idle
<1>2. CASE \E src, dst \in Vid, t \in EdgeTypes : InsertEdge(s, src, dst, t)
  BY <1>2 DEF InsertEdge, MayWrite, Idle
<1>3. CASE \/ \E src \in Vid, dsts \in Batches, t \in EdgeTypes :
                InsertEdges(s, src, dsts, t)
           \/ ContinueInsertEdges(s)
  <2>1. \E p, src, t, dsts : WriteRun(s, p, src, t, dsts)
    BY <1>3 DEF InsertEdges, ContinueInsertEdges
  <2>. QED
    BY <2>1 DEF WriteRun, Idle
<1>4. CASE TombstoneSome(s)
  <2>1. \E b, dst, t : op' = [name |-> "tombstone", blk |-> b, dst |-> dst, type |-> t]
    BY <1>4 DEF TombstoneSome, TombstoneEdge, TombstoneVertex
  <2>. QED
    BY <2>1
<1>5. CASE TombstoneAdjacency(s)
  <2>1. op \in [name : {"tombstone"}, blk : Link, dst : Vid \cup {AnyVid},
                type : EdgeTypes \cup {AnyType}]
    BY <1>5 DEF TombstoneAdjacency, TypeOK, Operation, Idle
  <2>. QED
    BY <1>5, <2>1 DEF TombstoneAdjacency, Idle
<1>. QED
  BY <1>1, <1>2, <1>3, <1>4, <1>5 DEF InsertSome

\* A pass under way stays under way, or ends, or has just been checked.
LEMMA HorizonOfPass ==
  ASSUME TypeOK, NEW s \in Sessions, Session(s), op'.name = "freeze"
  PROVE  \/ op.name = "freeze" /\ op'.horizon = op.horizon
         \/ Precedes(op'.horizon, nextXid, Running) /\ UNCHANGED txns
<1>1. CASE \E horizon \in NormalXid : FreezeBegin(s, horizon)
  <2>1. PICK horizon \in NormalXid : FreezeBegin(s, horizon)
    BY <1>1
  <2>. QED
    BY <2>1 DEF FreezeBegin, PrecedesOldestXmin, Precedes
<1>2. CASE FreezeStep(s)
  <2>1. CASE FreezeRecordHorizon(s) \/ FreezeRelstats(s)
    BY <2>1 DEF FreezeRecordHorizon, FreezeRelstats, Idle
  <2>2. CASE FreezeVertexPage(s) \/ FreezeDescend(s) \/ FreezeAdjPage(s)
    <3>1. Freezing(s)
      BY <2>2 DEF FreezeVertexPage, FreezeDescend, FreezeAdjPage
    <3>2. op \in [name : {"freeze"}, horizon : NormalXid, vblk : Link,
                  ablk : Link, heads : Seq(Link)]
      BY <3>1 DEF Freezing, TypeOK, Operation, Idle
    <3>. QED
      BY <2>2, <3>2 DEF FreezeVertexPage, FreezeDescend, FreezeAdjPage
  <2>. QED
    BY <1>2, <2>1, <2>2 DEF FreezeStep
<1>3. CASE InsertSome(s) \/ ContinueInsertEdges(s) \/ TombstoneSome(s)
             \/ TombstoneAdjacency(s)
  BY <1>3, WriteOperation
<1>4. CASE AssignXid(s) \/ AcquireWriterLock(s) \/ Commit(s) \/ Abort(s)
             \/ AbortExtended(s)
  BY <1>4 DEF AssignXid, AcquireWriterLock, Commit, Abort, AbortExtended, Idle
<1>. QED
  BY <1>1, <1>2, <1>3, <1>4 DEF Session, ContinueOperation

LEMMA HorizonKept ==
  ASSUME TypeOK, NEW s \in Sessions, Session(s), NEW h \in NormalXid,
         Precedes(h, nextXid, Running)
  PROVE  Precedes(h, nextXid, Running)'
<1>1. \/ UNCHANGED <<nextXid, xid>>
      \/ xid' = [xid EXCEPT ![s] = nextXid] /\ nextXid' = nextXid + 1
      \/ xid' = [xid EXCEPT ![s] = InvalidXid] /\ nextXid' = nextXid
  <2>1. CASE AssignXid(s)
    BY <2>1 DEF AssignXid
  <2>2. CASE Commit(s) \/ Abort(s) \/ AbortExtended(s)
    BY <2>2 DEF Commit, Abort, AbortExtended, EndTransaction
  <2>3. CASE AcquireWriterLock(s)
    BY <2>3 DEF AcquireWriterLock
  <2>4. CASE InsertSome(s) \/ TombstoneSome(s)
    BY <2>4 DEF InsertSome, InsertVertex, InsertEdge, InsertEdges,
       TombstoneSome, TombstoneEdge, TombstoneVertex, txns
  <2>5. CASE \E horizon \in NormalXid : FreezeBegin(s, horizon)
    BY <2>5 DEF FreezeBegin, txns
  <2>6. CASE ContinueOperation(s)
    BY <2>6 DEF ContinueOperation, ContinueInsertEdges, TombstoneAdjacency,
       FreezeStep, FreezeVertexPage, FreezeDescend, FreezeAdjPage,
       FreezeRecordHorizon, FreezeRelstats, txns
  <2>. QED
    BY <2>1, <2>2, <2>3, <2>4, <2>5, <2>6 DEF Session
<1>2. /\ xid \in [Sessions -> NormalXid \cup {InvalidXid}]
      /\ nextXid \in Nat /\ h \in Nat /\ h < nextXid
  BY Constants DEF TypeOK, Precedes
<1>3. \A t \in Sessions : xid[t] # InvalidXid => h < xid[t]
  BY DEF Precedes, Running
<1>4. h < nextXid' /\ \A t \in Sessions : xid'[t] # InvalidXid => h < xid'[t]
  BY <1>1, <1>2, <1>3
<1>. QED
  BY <1>4 DEF Precedes, Running

LEMMA FreezeInvNext == FreezeInv /\ [Next]_vars => FreezeInv'
<1>. SUFFICES ASSUME FreezeInv, [Next]_vars PROVE FreezeInv'
  OBVIOUS
<1>1. TypeOK /\ TypeOK'
  BY NextType DEF FreezeInv
<1>2. CASE UNCHANGED vars
  BY <1>1, <1>2 DEF vars, FreezeInv, HorizonHolds, Running
<1>3. ASSUME NEW s \in Sessions, Session(s), op'.name = "freeze"
      PROVE  Precedes(op'.horizon, nextXid', Running')
  <2>1. op'.horizon \in NormalXid
    BY <1>1, <1>3 DEF TypeOK, Operation, Idle
  <2>2. CASE op.name = "freeze" /\ op'.horizon = op.horizon
    <3>1. Precedes(op.horizon, nextXid, Running)
      BY <2>2 DEF FreezeInv, HorizonHolds
    <3>2. Precedes(op.horizon, nextXid', Running')
      <4>. DEFINE h == op.horizon
      <4>1. h \in NormalXid
        BY <2>1, <2>2
      <4>2. \A k \in NormalXid : Precedes(k, nextXid, Running) =>
                                  Precedes(k, nextXid', Running')
        BY <1>1, <1>3, HorizonKept
      <4>. QED
        BY <3>1, <4>1, <4>2
    <3>. QED
      BY <2>2, <3>2
  <2>3. CASE Precedes(op'.horizon, nextXid, Running) /\ UNCHANGED txns
    BY <2>3 DEF Running, txns
  <2>. QED
    BY <1>1, <1>3, <2>2, <2>3, HorizonOfPass
<1>. QED
  BY <1>1, <1>2, <1>3 DEF Next, FreezeInv, HorizonHolds

-----------------------------------------------------------------------------
(* A step that keeps every record where it is, and keeps what the reader   *)
(* makes of it, keeps the reader's graph.                                  *)

LEMMA SameView ==
  ASSUME NEW own,
         meta'.first = meta.first,
         \A b \in Block :
           /\ page'[b].next = page[b].next
           /\ DOMAIN page'[b].vertices = DOMAIN page[b].vertices
           /\ DOMAIN page'[b].slots = DOMAIN page[b].slots,
         \A b \in Block : \A i \in DOMAIN page[b].vertices :
           /\ page'[b].vertices[i].vid = page[b].vertices[i].vid
           /\ page'[b].vertices[i].head = page[b].vertices[i].head
           /\ (Live(own, page[b].vertices[i]))' = Live(own, page[b].vertices[i]),
         \A b \in Block : \A i \in DOMAIN page[b].slots :
           /\ page'[b].slots[i].dst = page[b].slots[i].dst
           /\ page'[b].slots[i].type = page[b].slots[i].type
           /\ (Live(own, page[b].slots[i]))' = Live(own, page[b].slots[i])
  PROVE  (GraphView(own))' = GraphView(own)
<1>1. NextBlock' = NextBlock
  BY DEF NextBlock
<1>2. VertexPositions' = VertexPositions
  BY DEF VertexPositions
<1>3. ASSUME NEW p \in VertexPositions
      PROVE  /\ (VertexAt(p).vid)' = VertexAt(p).vid
             /\ (VertexAt(p).head)' = VertexAt(p).head
             /\ (Live(own, VertexAt(p)))' = Live(own, VertexAt(p))
  <2>1. PICK b \in Block : \E i \in DOMAIN page[b].vertices : p = <<b, i>>
    BY DEF VertexPositions
  <2>. QED
    BY <2>1 DEF VertexAt
<1>4. LivePositions(own)' = LivePositions(own)
  <2>1. ChainFrom(meta.first)' = ChainFrom(meta.first)
    BY <1>1 DEF ChainFrom
  <2>. QED
    BY <1>2, <1>3, <2>1 DEF LivePositions
<1>5. \A b \in Block : LiveSlots(own, b)' = LiveSlots(own, b)
  BY DEF LiveSlots
<1>6. VertexView(own)' = VertexView(own)
  BY <1>3, <1>4 DEF VertexView, LivePositions
<1>7. EdgeView(own)' = EdgeView(own)
  <2>. DEFINE E(v, b) ==
                {[id |-> <<b, i>>, src |-> v,
                  dst |-> page[b].slots[i].dst, type |-> page[b].slots[i].type] :
                    i \in LiveSlots(own, b)}
              E1(v, b) ==
                {[id |-> <<b, i>>, src |-> v,
                  dst |-> page'[b].slots[i].dst, type |-> page'[b].slots[i].type] :
                    i \in LiveSlots(own, b)'}
  <2>1. \A v : \A b \in Block : E1(v, b) = E(v, b)
    BY <1>5 DEF LiveSlots
  <2>3. EdgeView(own) =
          UNION {UNION {E(VertexAt(p).vid, b) : b \in Walk(NextBlock, VertexAt(p).head)} :
                   p \in LivePositions(own)}
    BY DEF EdgeView, ChainFrom
  <2>4. EdgeView(own)' =
          UNION {UNION {E1((VertexAt(p).vid)', b) :
                          b \in Walk(NextBlock', (VertexAt(p).head)')} :
                   p \in LivePositions(own)'}
    BY DEF EdgeView, ChainFrom
  <2>5. \A p \in LivePositions(own) :
          /\ p \in VertexPositions
          /\ Walk(NextBlock', (VertexAt(p).head)') = Walk(NextBlock, VertexAt(p).head)
          /\ (VertexAt(p).vid)' = VertexAt(p).vid
    BY <1>1, <1>3 DEF LivePositions
  <2>6. \A b : Walk(NextBlock, b) \subseteq Block
    BY DEF Walk
  <2>. DEFINE Of(p)  == UNION {E(VertexAt(p).vid, b) : b \in Walk(NextBlock, VertexAt(p).head)}
              Of1(p) == UNION {E1((VertexAt(p).vid)', b) :
                                 b \in Walk(NextBlock', (VertexAt(p).head)')}
  <2>. HIDE DEF E, E1
  <2>7. \A p \in LivePositions(own) : Of1(p) = Of(p)
    BY <2>1, <2>5, <2>6
  <2>8. EdgeView(own) = UNION {Of(p) : p \in LivePositions(own)}
    BY <2>3
  <2>9. (EdgeView(own))' = UNION {Of1(p) : p \in LivePositions(own)}
    BY <1>4, <2>4
  <2>. HIDE DEF Of, Of1
  <2>. QED
    BY <2>7, <2>8, <2>9
<1>. QED
  BY <1>6, <1>7 DEF GraphView

-----------------------------------------------------------------------------
(* What one record says to a reader is not changed by freezing it below a  *)
(* horizon that no running transaction's id precedes.                      *)

LEMMA FreezeXminVisible ==
  ASSUME TypeOK, NEW h \in NormalXid, Precedes(h, nextXid, Running),
         NEW own \in Viewers, NEW x \in StoredXid
  PROVE  XminVisible(own, FreezeXmin(x, h)) = XminVisible(own, x)
<1>1. own = InvalidXid \/ h < own
  BY DEF Viewers, Precedes
<1>2. h \in Nat /\ h >= 3 /\ x \in Nat /\ own \in Nat
  BY Constants DEF NormalXid, FirstNormalXid, StoredXid, InvalidXid, FrozenXid,
     Viewers, Running, TypeOK
<1>3. CASE Freezable(x, h)
  <2>1. x # own /\ x # InvalidXid /\ x # FrozenXid
    BY <1>1, <1>2, <1>3 DEF Freezable, FirstNormalXid, InvalidXid, FrozenXid
  <2>2. own # FrozenXid
    BY <1>1, <1>2 DEF InvalidXid, FrozenXid
  <2>. QED
    BY <1>3, <2>1, <2>2 DEF FreezeXmin, XminVisible, DidCommit, InvalidXid, FrozenXid
<1>4. CASE ~Freezable(x, h)
  BY <1>4 DEF FreezeXmin
<1>. QED
  BY <1>3, <1>4

LEMMA FreezeRecordFields ==
  ASSUME NEW h, NEW r \in VertexRecord \cup EdgeSlot
  PROVE  LET q == FreezeRecord(r, h)
             gone == r.deleted /\ Freezable(r.xmax, h)
         IN  /\ q.xmin = FreezeXmin(r.xmin, h)
             /\ gone /\ DidCommit(r.xmax) => q.deleted = r.deleted /\ q.xmax = FrozenXid
             /\ gone /\ ~DidCommit(r.xmax) => ~q.deleted
             /\ ~gone => q.deleted = r.deleted /\ q.xmax = r.xmax
             /\ r \in VertexRecord => q.vid = r.vid /\ q.head = r.head
             /\ r \in EdgeSlot => q.dst = r.dst /\ q.type = r.type
<1>1. CASE r \in VertexRecord
  BY <1>1 DEF FreezeRecord, VertexRecord, EdgeSlot
<1>2. CASE r \in EdgeSlot
  BY <1>2 DEF FreezeRecord, EdgeSlot, VertexRecord
<1>. QED
  BY <1>1, <1>2

LEMMA FreezeRecordLive ==
  ASSUME TypeOK, NEW h \in NormalXid, Precedes(h, nextXid, Running),
         NEW own \in Viewers, NEW r \in VertexRecord \cup EdgeSlot
  PROVE  Live(own, FreezeRecord(r, h)) = Live(own, r)
<1>. DEFINE q == FreezeRecord(r, h)
<1>1. r.xmin \in StoredXid /\ r.xmax \in StoredXid /\ r.deleted \in BOOLEAN
  BY DEF VertexRecord, EdgeSlot
<1>2. XminVisible(own, q.xmin) = XminVisible(own, r.xmin)
  BY <1>1, FreezeRecordFields, FreezeXminVisible
<1>3. DeletedVisible(own, q) = DeletedVisible(own, r)
  <2>1. XminVisible(own, FreezeXmin(r.xmax, h)) = XminVisible(own, r.xmax)
    BY <1>1, FreezeXminVisible
  <2>2. CASE r.deleted /\ Freezable(r.xmax, h) /\ DidCommit(r.xmax)
    <3>1. q.deleted /\ q.xmax = FreezeXmin(r.xmax, h)
      BY <2>2, FreezeRecordFields DEF FreezeXmin
    <3>. QED
      BY <2>1, <2>2, <3>1 DEF DeletedVisible
  <2>3. CASE r.deleted /\ Freezable(r.xmax, h) /\ ~DidCommit(r.xmax)
    <3>1. ~q.deleted /\ FreezeXmin(r.xmax, h) = InvalidXid
      BY <2>3, FreezeRecordFields DEF FreezeXmin
    <3>2. ~XminVisible(own, r.xmax)
      BY <2>1, <3>1 DEF XminVisible
    <3>. QED
      BY <3>1, <3>2 DEF DeletedVisible
  <2>4. CASE ~(r.deleted /\ Freezable(r.xmax, h))
    <3>1. q.deleted = r.deleted /\ q.xmax = r.xmax
      BY <2>4, FreezeRecordFields
    <3>. QED
      BY <3>1 DEF DeletedVisible
  <2>. QED
    BY <2>2, <2>3, <2>4
<1>. QED
  BY <1>2, <1>3 DEF Live

-----------------------------------------------------------------------------
(* The pass.                                                               *)

LEMMA FrozenPagesView ==
  ASSUME TypeOK, NEW h \in NormalXid, Precedes(h, nextXid, Running),
         NEW own \in Viewers, meta'.first = meta.first, committed' = committed,
         \A b \in Block :
           /\ page'[b].next = page[b].next
           /\ page'[b].vertices \in {page[b].vertices, FreezeRecords(page[b].vertices, h)}
           /\ page'[b].slots \in {page[b].slots, FreezeRecords(page[b].slots, h)}
  PROVE  (GraphView(own))' = GraphView(own)
<1>1. \A b \in Block : /\ page[b].vertices \in Seq(VertexRecord)
                       /\ page[b].slots \in Seq(EdgeSlot)
  BY DEF TypeOK, Page
<1>2. ASSUME NEW b \in Block, NEW i \in DOMAIN page[b].vertices
      PROVE  /\ page'[b].vertices[i].vid = page[b].vertices[i].vid
             /\ page'[b].vertices[i].head = page[b].vertices[i].head
             /\ (Live(own, page[b].vertices[i]))' = Live(own, page[b].vertices[i])
  <2>. DEFINE r == page[b].vertices[i]
  <2>1. r \in VertexRecord
    BY <1>1
  <2>2. page'[b].vertices[i] \in {r, FreezeRecord(r, h)}
    BY DEF FreezeRecords
  <2>3. Live(own, page'[b].vertices[i]) = Live(own, r)
    BY <2>1, <2>2, FreezeRecordLive
  <2>4. (Live(own, page[b].vertices[i]))' = Live(own, page'[b].vertices[i])
    BY DEF Live, XminVisible, DeletedVisible, DidCommit
  <2>5. page'[b].vertices[i].vid = r.vid /\ page'[b].vertices[i].head = r.head
    BY <2>1, <2>2, FreezeRecordFields
  <2>. QED
    BY <2>3, <2>4, <2>5
<1>3. ASSUME NEW b \in Block, NEW i \in DOMAIN page[b].slots
      PROVE  /\ page'[b].slots[i].dst = page[b].slots[i].dst
             /\ page'[b].slots[i].type = page[b].slots[i].type
             /\ (Live(own, page[b].slots[i]))' = Live(own, page[b].slots[i])
  <2>. DEFINE r == page[b].slots[i]
  <2>1. r \in EdgeSlot
    BY <1>1
  <2>2. page'[b].slots[i] \in {r, FreezeRecord(r, h)}
    BY DEF FreezeRecords
  <2>3. Live(own, page'[b].slots[i]) = Live(own, r)
    BY <2>1, <2>2, FreezeRecordLive
  <2>4. (Live(own, page[b].slots[i]))' = Live(own, page'[b].slots[i])
    BY DEF Live, XminVisible, DeletedVisible, DidCommit
  <2>5. page'[b].slots[i].dst = r.dst /\ page'[b].slots[i].type = r.type
    BY <2>1, <2>2, FreezeRecordFields
  <2>. QED
    BY <2>3, <2>4, <2>5
<1>4. \A b \in Block : /\ DOMAIN page'[b].vertices = DOMAIN page[b].vertices
                       /\ DOMAIN page'[b].slots = DOMAIN page[b].slots
  BY DEF FreezeRecords
<1>. QED
  BY <1>2, <1>3, <1>4, SameView

LEMMA FreezeStepInvisible ==
  ASSUME FreezeInv, NEW s \in Sessions, FreezeStep(s), NEW own \in Viewers
  PROVE  (GraphView(own))' = GraphView(own)
<1>. DEFINE h == op.horizon
<1>1. TypeOK
  BY DEF FreezeInv
<1>2. CASE Freezing(s) /\ meta' = meta /\ committed' = committed
             /\ (FreezeVertexPage(s) \/ FreezeDescend(s) \/ FreezeAdjPage(s))
  <2>1. op \in [name : {"freeze"}, horizon : NormalXid, vblk : Link,
                ablk : Link, heads : Seq(Link)]
    BY <1>1, <1>2 DEF Freezing, TypeOK, Operation, Idle
  <2>2. h \in NormalXid /\ Precedes(h, nextXid, Running)
    BY <1>2, <2>1 DEF Freezing, FreezeInv, HorizonHolds
  <2>3. page \in [Block -> Page]
    BY <1>1 DEF TypeOK
  <2>4. \A b \in Block :
           /\ page'[b].next = page[b].next
           /\ page'[b].vertices \in {page[b].vertices, FreezeRecords(page[b].vertices, h)}
           /\ page'[b].slots \in {page[b].slots, FreezeRecords(page[b].slots, h)}
    <3>1. CASE FreezeVertexPage(s)
      BY <2>1, <2>3, <3>1 DEF FreezeVertexPage, Page, Link
    <3>2. CASE FreezeDescend(s)
      BY <3>2 DEF FreezeDescend, store
    <3>3. CASE FreezeAdjPage(s)
      BY <2>1, <2>3, <3>3 DEF FreezeAdjPage, Page, Link
    <3>. QED
      BY <1>2, <3>1, <3>2, <3>3
  <2>. HIDE DEF h
  <2>. QED
    BY <1>1, <1>2, <2>2, <2>4, FrozenPagesView
<1>3. CASE FreezeRecordHorizon(s) \/ FreezeRelstats(s)
  <2>1. page' = page /\ committed' = committed
    BY <1>3 DEF FreezeRecordHorizon, FreezeRelstats, txns
  <2>2. meta'.first = meta.first
    BY <1>1, <1>3 DEF FreezeRecordHorizon, FreezeRelstats, TypeOK, Meta
  <2>3. \A r : Live(own, r)' = Live(own, r)
    BY <2>1 DEF Live, XminVisible, DeletedVisible, DidCommit
  <2>. QED
    BY <2>1, <2>2, <2>3, SameView
<1>4. FreezeVertexPage(s) \/ FreezeDescend(s) \/ FreezeAdjPage(s) =>
        Freezing(s) /\ meta' = meta /\ committed' = committed
  <2>1. Freezing(s) => op \in [name : {"freeze"}, horizon : NormalXid, vblk : Link,
                               ablk : Link, heads : Seq(Link)]
    BY <1>1 DEF Freezing, TypeOK, Operation, Idle
  <2>. QED
    BY <2>1 DEF FreezeVertexPage, FreezeDescend, FreezeAdjPage, Idle, store,
       txns, Freezing
<1>. QED
  BY <1>2, <1>3, <1>4 DEF FreezeStep

\* A freeze pass changes nothing that anybody can see: with every one of its
\* records, every reader's graph stays what it was (graph_am.c:1022-1047).
THEOREM FreezeInvisible == Spec => FreezeIsInvisible
<1>1. Init => FreezeInv
  BY FreezeInvInit
<1>2. FreezeInv /\ [Next]_vars => FreezeInv'
  BY FreezeInvNext
<1>3. FreezeInv /\ [Next]_vars =>
        [(\E s \in Sessions : FreezeStep(s)) =>
           \A own \in Viewers : GraphView(own)' = GraphView(own)]_vars
  BY FreezeStepInvisible
<1>. QED
  BY <1>1, <1>2, <1>3, PTL DEF Spec, FreezeIsInvisible

-----------------------------------------------------------------------------
(* The page structure.                                                     *)

Links == [Block -> Link]

\* S is what a walk from `first' reads, and `last' is where it ends.
IsChain(next, S, first, last) ==
  /\ first \in Link /\ last \in Link
  /\ first = NoBlock <=> last = NoBlock
  /\ S \subseteq Block
  /\ Walk(next, first) = S
  /\ {b \in S : next[b] = NoBlock} = {last} \ {NoBlock}

-----------------------------------------------------------------------------
(* Walks.                                                                  *)

LEMMA BlockType == NoBlock \notin Block /\ Block \subseteq Nat
BY BoundsAssumption DEF NoBlock, Block

LEMMA WalkClosed ==
  ASSUME NEW next, NEW b \in Block
  PROVE  /\ b \in Walk(next, b) /\ Walk(next, b) \subseteq Block
         /\ next \in Links => Closed(next, Walk(next, b))
<1>1. b # NoBlock
  BY BlockType
<1>2. Walk(next, b) =
        {c \in Block : \A S \in {T \in SUBSET Block : b \in T /\ Closed(next, T)} : c \in S}
  BY <1>1 DEF Walk
<1>3. b \in Walk(next, b) /\ Walk(next, b) \subseteq Block
  BY <1>2
<1>4. ASSUME next \in Links, NEW c \in Walk(next, b), next[c] # NoBlock
      PROVE  next[c] \in Walk(next, b)
  <2>1. c \in Block /\ next[c] \in Block
    BY <1>3, <1>4 DEF Links, Link
  <2>2. ASSUME NEW S \in SUBSET Block, b \in S, Closed(next, S)
        PROVE  next[c] \in S
    <3>1. c \in S
      BY <1>2, <1>4, <2>2
    <3>. QED
      BY <1>4, <2>2, <3>1 DEF Closed
  <2>. QED
    BY <1>2, <2>1, <2>2
<1>. QED
  BY <1>3, <1>4 DEF Closed

LEMMA WalkLeast ==
  ASSUME NEW next, NEW b \in Block, NEW S \in SUBSET Block, b \in S, Closed(next, S)
  PROVE  Walk(next, b) \subseteq S
<1>1. b # NoBlock
  BY BlockType
<1>. QED
  BY <1>1 DEF Walk

LEMMA WalkNowhere ==
  ASSUME NEW next
  PROVE  Walk(next, NoBlock) = {}
BY DEF Walk

LEMMA LinkType ==
  ASSUME NEW next \in Links, NEW b \in Block
  PROVE  next[b] \in Link /\ (next[b] # NoBlock => next[b] \in Block) /\ b # NoBlock
BY BlockType DEF Links, Link

\* A walk's first step.
LEMMA WalkUnfolds ==
  ASSUME NEW next \in Links, NEW b \in Block
  PROVE  Walk(next, b) = {b} \cup Walk(next, next[b])
<1>. DEFINE W == Walk(next, b)
            V == Walk(next, next[b])
<1>1. /\ next[b] # NoBlock => next[b] \in Block
      /\ b \in W /\ W \subseteq Block /\ Closed(next, W)
  BY LinkType, WalkClosed
<1>2. V \subseteq Block
  BY <1>1, WalkClosed, WalkNowhere
<1>3. V \subseteq W
  <2>1. CASE next[b] = NoBlock
    BY <2>1, WalkNowhere
  <2>2. CASE next[b] # NoBlock
    <3>1. next[b] \in W
      BY <1>1, <2>2 DEF Closed
    <3>. HIDE DEF W
    <3>. QED
      BY <1>1, <2>2, <3>1, WalkLeast
  <2>. QED
    BY <2>1, <2>2
<1>4. W \subseteq {b} \cup V
  <2>1. next[b] # NoBlock => next[b] \in V /\ Closed(next, V)
    BY <1>1, WalkClosed
  <2>2. next[b] = NoBlock => V = {}
    BY WalkNowhere
  <2>. DEFINE U == {b} \cup V
  <2>. HIDE DEF V
  <2>3. Closed(next, U)
    BY <2>1, <2>2 DEF Closed
  <2>4. U \in SUBSET Block /\ b \in U
    BY <1>2
  <2>. HIDE DEF U
  <2>5. W \subseteq U
    BY <2>3, <2>4, WalkLeast
  <2>. QED
    BY <2>5 DEF U
<1>. QED
  BY <1>1, <1>3, <1>4

\* Links outside a chain do not matter to it.
LEMMA ChainFrame ==
  ASSUME NEW next \in Links, NEW next2 \in Links,
         NEW S, NEW first, NEW last, IsChain(next, S, first, last),
         \A b \in S : next2[b] = next[b]
  PROVE  IsChain(next2, S, first, last)
<1>1. Walk(next2, first) = S
  <2>1. CASE first = NoBlock
    BY <2>1, WalkNowhere DEF IsChain
  <2>2. CASE first # NoBlock
    <3>1. first \in Block /\ S \subseteq Block /\ Walk(next, first) = S
      BY <2>2 DEF IsChain, Link
    <3>2. first \in S /\ Closed(next, S)
      BY <3>1, WalkClosed
    <3>3. Closed(next2, S)
      BY <3>2 DEF Closed
    <3>4. Walk(next2, first) \subseteq S
      BY <3>1, <3>2, <3>3, WalkLeast
    <3>. DEFINE T == Walk(next2, first)
    <3>5. first \in T /\ T \subseteq Block /\ Closed(next2, T)
      BY <3>1, WalkClosed
    <3>. HIDE DEF T
    <3>6. Closed(next, T \cap S)
      BY <3>2, <3>5 DEF Closed
    <3>7. Walk(next, first) \subseteq T \cap S
      BY <3>1, <3>2, <3>5, <3>6, WalkLeast
    <3>8. S \subseteq T
      BY <3>1, <3>7
    <3>. QED
      BY <3>4, <3>8 DEF T
  <2>. QED
    BY <2>1, <2>2
<1>. QED
  BY <1>1 DEF IsChain

LEMMA ChainClosed ==
  ASSUME NEW next \in Links, NEW S, NEW first, NEW last, IsChain(next, S, first, last)
  PROVE  S \in SUBSET Block /\ Closed(next, S) /\ first \in S \cup {NoBlock}
<1>1. CASE first = NoBlock
  BY <1>1, WalkNowhere DEF IsChain, Closed
<1>2. CASE first # NoBlock
  BY <1>2, WalkClosed DEF IsChain, Link
<1>. QED
  BY <1>1, <1>2

LEMMA ChainOfOne ==
  ASSUME NEW next \in Links, NEW b \in Block, next[b] = NoBlock
  PROVE  IsChain(next, {b}, b, b)
<1>1. Closed(next, {b})
  BY DEF Closed
<1>2. Walk(next, b) = {b}
  BY <1>1, WalkLeast, WalkClosed
<1>. QED
  BY <1>2, BlockType DEF IsChain, Link

\* A block that nothing led to is linked behind the last.
LEMMA ChainExtended ==
  ASSUME NEW next \in Links, NEW next2 \in Links,
         NEW S, NEW first, NEW last, IsChain(next, S, first, last), last # NoBlock,
         NEW new \in Block, new \notin S, next2[new] = NoBlock,
         \A b \in S : next[b] # new,
         \A b \in S : next2[b] = IF b = last THEN new ELSE next[b]
  PROVE  IsChain(next2, S \cup {new}, first, new)
<1>1. /\ first \in Block /\ S \subseteq Block /\ Walk(next, first) = S
      /\ last \in S /\ next[last] = NoBlock
      /\ \A b \in S : next[b] = NoBlock => b = last
  BY DEF IsChain, Link
<1>2. first \in S /\ Closed(next, S)
  BY <1>1, WalkClosed
<1>. DEFINE U == S \cup {new}
            T == Walk(next2, first)
<1>3. Closed(next2, U)
  BY <1>2 DEF Closed
<1>4. T \subseteq U
  BY <1>1, <1>2, <1>3, WalkLeast
<1>5. first \in T /\ T \subseteq Block /\ Closed(next2, T)
  BY <1>1, WalkClosed
<1>. HIDE DEF T
<1>6. Closed(next, T \cap S)
  <2>. SUFFICES ASSUME NEW b \in T \cap S, next[b] # NoBlock
                PROVE  next[b] \in T \cap S
    BY DEF Closed
  <2>1. b # last /\ next2[b] = next[b]
    BY <1>1
  <2>. QED
    BY <1>2, <1>5, <2>1 DEF Closed
<1>7. S \subseteq T
  BY <1>1, <1>2, <1>5, <1>6, WalkLeast
<1>8. new \in T
  <2>1. next2[last] = new /\ last \in T /\ new # NoBlock
    BY <1>1, <1>7, BlockType
  <2>. QED
    BY <1>5, <2>1 DEF Closed
<1>9. T = U
  BY <1>4, <1>7, <1>8
<1>10. {b \in U : next2[b] = NoBlock} = {new}
  BY <1>1, BlockType
<1>. QED
  BY <1>1, <1>9, <1>10, BlockType DEF T, IsChain, Link

LEMMA ChainOfNone ==
  ASSUME NEW next
  PROVE  IsChain(next, {}, NoBlock, NoBlock)
BY WalkNowhere DEF IsChain, Link

-----------------------------------------------------------------------------
(* The shape of a store, as a predicate of its pages and of the metapage's *)
(* counters.                                                               *)

Pages == [Block -> Page]

Nexts(pg) == [b \in Block |-> pg[b].next]

Positions(pg) == UNION {{<<b, i>> : i \in DOMAIN pg[b].vertices} : b \in Block}

RecordAt(pg, p) == pg[p[1]].vertices[p[2]]

VertexPages(pg) == {b \in Block : pg[b].kind = "vertex"}

OwnedPages(pg, v) == {b \in Block : pg[b].kind = "adj" /\ pg[b].owner = v}

Extent(pg, e) ==
  \A b \in Block :
    /\ pg[b].next <= e
    /\ b > e => pg[b].kind = "zero"
    /\ pg[b].kind # "vertex" => DOMAIN pg[b].vertices = {}
    /\ pg[b].kind # "adj" => DOMAIN pg[b].slots = {}

VertexShape(pg, first, last) ==
  /\ IsChain(Nexts(pg), VertexPages(pg), first, last)
  /\ \A b \in VertexPages(pg) :
       /\ Len(pg[b].vertices) \in 1..VerticesPerPage
       /\ b # last => Len(pg[b].vertices) = VerticesPerPage

VidsOnce(pg, n) ==
  /\ \A p \in Positions(pg) : RecordAt(pg, p).vid \in 0..(n - 1)
  /\ \A p, q \in Positions(pg) : RecordAt(pg, p).vid = RecordAt(pg, q).vid => p = q
  /\ \A v \in 0..(n - 1) : \E p \in Positions(pg) : RecordAt(pg, p).vid = v
  /\ \A b \in Block : pg[b].kind = "adj" => pg[b].owner \in 0..(n - 1)

\* The chain of the vertex v whose record has these ends.
ChainShape(pg, v, head, tail) ==
  /\ IsChain(Nexts(pg), OwnedPages(pg, v), head, tail)
  /\ \A b \in OwnedPages(pg, v) :
       /\ Len(pg[b].slots) \in 1..EdgeSlotsPerPage
       /\ b # tail => Len(pg[b].slots) = EdgeSlotsPerPage
       /\ \A i \in DOMAIN pg[b].slots : pg[b].slots[i].src = v

AdjacencyShape(pg) ==
  \A p \in Positions(pg) :
    ChainShape(pg, RecordAt(pg, p).vid, RecordAt(pg, p).head, RecordAt(pg, p).tail)

Shape(pg, e, first, last, n) ==
  /\ Extent(pg, e)
  /\ VertexShape(pg, first, last)
  /\ VidsOnce(pg, n)
  /\ AdjacencyShape(pg)

LEMMA NextsType ==
  ASSUME NEW pg \in Pages
  PROVE  /\ Nexts(pg) \in Links
         /\ \A b \in Block : Nexts(pg)[b] = pg[b].next
BY DEF Pages, Page, Nexts, Links

LEMMA RecordType ==
  ASSUME NEW pg \in Pages, NEW p \in Positions(pg)
  PROVE  /\ p[1] \in Block /\ p[2] \in DOMAIN pg[p[1]].vertices
         /\ p = <<p[1], p[2]>>
         /\ RecordAt(pg, p) \in VertexRecord
<1>1. PICK b \in Block : p \in {<<b, i>> : i \in DOMAIN pg[b].vertices}
  BY DEF Positions
<1>2. PICK i \in DOMAIN pg[b].vertices : p = <<b, i>>
  BY <1>1
<1>3. pg[b].vertices \in Seq(VertexRecord)
  BY DEF Pages, Page
<1>4. pg[b].vertices[i] \in VertexRecord
  BY <1>2, <1>3, LenProperties, ElementOfSeq
<1>. QED
  BY <1>2, <1>4 DEF RecordAt

LEMMA PositionOf ==
  ASSUME NEW pg, NEW b \in Block, NEW i \in DOMAIN pg[b].vertices
  PROVE  <<b, i>> \in Positions(pg)
BY DEF Positions

\* Pages that have kept their links and their fill keep the shape, whatever
\* became of the ids on their records.
LEMMA ShapeKept ==
  ASSUME NEW pg \in Pages, NEW qg \in Pages, NEW e, NEW first, NEW last, NEW n,
         Shape(pg, e, first, last, n),
         \A b \in Block :
           /\ qg[b].kind = pg[b].kind /\ qg[b].next = pg[b].next
           /\ qg[b].owner = pg[b].owner
           /\ DOMAIN qg[b].vertices = DOMAIN pg[b].vertices
           /\ DOMAIN qg[b].slots = DOMAIN pg[b].slots,
         \A b \in Block : \A i \in DOMAIN pg[b].vertices :
           /\ qg[b].vertices[i].vid = pg[b].vertices[i].vid
           /\ qg[b].vertices[i].head = pg[b].vertices[i].head
           /\ qg[b].vertices[i].tail = pg[b].vertices[i].tail,
         \A b \in Block : \A i \in DOMAIN pg[b].slots :
           qg[b].slots[i].src = pg[b].slots[i].src
  PROVE  Shape(qg, e, first, last, n)
<1>1. /\ Positions(qg) = Positions(pg)
      /\ Nexts(qg) = Nexts(pg)
      /\ VertexPages(qg) = VertexPages(pg)
      /\ \A v : OwnedPages(qg, v) = OwnedPages(pg, v)
  BY DEF Positions, Nexts, VertexPages, OwnedPages
<1>2. \A p \in Positions(pg) :
        /\ RecordAt(qg, p).vid = RecordAt(pg, p).vid
        /\ RecordAt(qg, p).head = RecordAt(pg, p).head
        /\ RecordAt(qg, p).tail = RecordAt(pg, p).tail
  BY RecordType DEF RecordAt
<1>3. \A b \in Block : /\ Len(qg[b].vertices) = Len(pg[b].vertices)
                       /\ Len(qg[b].slots) = Len(pg[b].slots)
  BY LenProperties DEF Pages, Page
<1>4. Extent(qg, e)
  BY DEF Shape, Extent
<1>5. VertexShape(qg, first, last)
  BY <1>1, <1>3 DEF Shape, VertexShape, VertexPages
<1>6. VidsOnce(qg, n)
  BY <1>1, <1>2 DEF Shape, VidsOnce
<1>7. AdjacencyShape(qg)
  <2>. SUFFICES ASSUME NEW p \in Positions(pg)
                PROVE  ChainShape(qg, RecordAt(pg, p).vid, RecordAt(pg, p).head,
                                  RecordAt(pg, p).tail)
    BY <1>1, <1>2 DEF AdjacencyShape
  <2>1. ChainShape(pg, RecordAt(pg, p).vid, RecordAt(pg, p).head, RecordAt(pg, p).tail)
    BY DEF Shape, AdjacencyShape
  <2>2. \A v : OwnedPages(pg, v) \subseteq Block
    BY DEF OwnedPages
  <2>. QED
    BY <1>1, <1>3, <2>1, <2>2 DEF ChainShape
<1>. QED
  BY <1>4, <1>5, <1>6, <1>7 DEF Shape

LEMMA SamePositions ==
  ASSUME NEW pg, NEW qg,
         \A b \in Block : DOMAIN qg[b].vertices = DOMAIN pg[b].vertices
  PROVE  Positions(qg) = Positions(pg)
BY DEF Positions

LEMMA SameVertexPages ==
  ASSUME NEW pg, NEW qg,
         \A b \in Block : qg[b].kind = "vertex" <=> pg[b].kind = "vertex"
  PROVE  VertexPages(qg) = VertexPages(pg)
BY DEF VertexPages

LEMMA OnceKept ==
  ASSUME NEW pg, NEW qg, NEW n, VidsOnce(pg, n),
         Positions(qg) = Positions(pg),
         \A p \in Positions(pg) : RecordAt(qg, p).vid = RecordAt(pg, p).vid,
         \A b \in Block : qg[b].kind = "adj" => qg[b].owner \in 0..(n - 1)
  PROVE  VidsOnce(qg, n)
BY DEF VidsOnce

\* An all-zero block is left at the end of the file.
LEMMA ShapeLonger ==
  ASSUME NEW pg \in Pages, NEW e \in Nat, NEW first, NEW last, NEW n,
         Shape(pg, e, first, last, n)
  PROVE  Shape(pg, e + 1, first, last, n)
<1>1. ASSUME NEW b \in Block
      PROVE  b \in Int /\ pg[b].next \in Int
  <2>1. \A c \in Block : c \in Nat
    BY BlockType
  <2>2. \A c \in Nat : c \in Int
    OBVIOUS
  <2>3. NoBlock \in Int
    BY DEF NoBlock
  <2>4. pg[b].next \in Block \/ pg[b].next = NoBlock
    BY DEF Pages, Page, Link
  <2>. QED
    BY <2>1, <2>2, <2>3, <2>4
<1>2. Extent(pg, e + 1)
  BY <1>1 DEF Shape, Extent
<1>. QED
  BY <1>2 DEF Shape

-----------------------------------------------------------------------------
(* A vertex is inserted.                                                   *)

\* The vid n is new, and its record has no chain.
LEMMA VidAdded ==
  ASSUME NEW pg \in Pages, NEW qg \in Pages, NEW n \in Nat, NEW np,
         VidsOnce(pg, n), AdjacencyShape(pg),
         Positions(qg) = Positions(pg) \cup {np}, np \notin Positions(pg),
         \A p \in Positions(pg) : RecordAt(qg, p) = RecordAt(pg, p),
         RecordAt(qg, np).vid = n,
         RecordAt(qg, np).head = NoBlock, RecordAt(qg, np).tail = NoBlock,
         \A b \in Block : pg[b].kind = "adj" => qg[b] = pg[b],
         \A b \in Block : qg[b].kind = "adj" => pg[b].kind = "adj"
  PROVE  VidsOnce(qg, n + 1) /\ AdjacencyShape(qg)
<1>1. /\ 0..((n + 1) - 1) = 0..(n - 1) \cup {n}
      /\ n \notin 0..(n - 1)
  OBVIOUS
<1>2. \A p \in Positions(pg) : RecordAt(qg, p).vid \in 0..(n - 1)
  BY DEF VidsOnce
<1>3. VidsOnce(qg, n + 1)
  <2>1. \A p \in Positions(qg) : RecordAt(qg, p).vid \in 0..((n + 1) - 1)
    BY <1>1, <1>2
  <2>2. \A p, q \in Positions(qg) : RecordAt(qg, p).vid = RecordAt(qg, q).vid => p = q
    BY <1>1, <1>2 DEF VidsOnce
  <2>3. \A v \in 0..((n + 1) - 1) : \E p \in Positions(qg) : RecordAt(qg, p).vid = v
    BY <1>1 DEF VidsOnce
  <2>4. \A b \in Block : qg[b].kind = "adj" => qg[b].owner \in 0..((n + 1) - 1)
    BY <1>1 DEF VidsOnce
  <2>. QED
    BY <2>1, <2>2, <2>3, <2>4 DEF VidsOnce
<1>4. /\ \A v : OwnedPages(qg, v) = OwnedPages(pg, v)
      /\ OwnedPages(qg, n) = {}
  BY <1>1 DEF OwnedPages, VidsOnce
<1>5. \A p \in Positions(pg) :
        ChainShape(qg, RecordAt(pg, p).vid, RecordAt(pg, p).head, RecordAt(pg, p).tail)
  <2>. SUFFICES ASSUME NEW v, NEW head, NEW tail, ChainShape(pg, v, head, tail)
                PROVE  ChainShape(qg, v, head, tail)
    BY DEF AdjacencyShape
  <2>1. \A b \in OwnedPages(pg, v) : b \in Block /\ qg[b] = pg[b]
    BY DEF OwnedPages
  <2>2. IsChain(Nexts(qg), OwnedPages(pg, v), head, tail)
    <3>1. \A b \in OwnedPages(pg, v) : Nexts(qg)[b] = Nexts(pg)[b]
      BY <2>1, NextsType
    <3>. QED
      BY <3>1, NextsType, ChainFrame DEF ChainShape
  <2>. QED
    BY <1>4, <2>1, <2>2 DEF ChainShape
<1>6. ChainShape(qg, n, NoBlock, NoBlock)
  BY <1>4, ChainOfNone DEF ChainShape
<1>. QED
  BY <1>3, <1>5, <1>6 DEF AdjacencyShape

\* The record vr is added, and that is all that happens to the records.
RecordAdded(pg, qg, vr) ==
  /\ \E np :
       /\ np \notin Positions(pg)
       /\ Positions(qg) = Positions(pg) \cup {np}
       /\ RecordAt(qg, np) = vr
  /\ \A p \in Positions(pg) : RecordAt(qg, p) = RecordAt(pg, p)
  /\ \A b \in Block : /\ DOMAIN qg[b].slots = DOMAIN pg[b].slots
                     /\ \A i \in DOMAIN pg[b].slots : qg[b].slots[i] = pg[b].slots[i]

LEMMA ShapeVertexAppended ==
  ASSUME NEW pg \in Pages, NEW qg \in Pages, NEW e \in Nat, NEW first, NEW last \in Block,
         NEW n \in Nat, NEW vr \in VertexRecord, Shape(pg, e, first, last, n),
         vr.vid = n, vr.head = NoBlock, vr.tail = NoBlock,
         Len(pg[last].vertices) < VerticesPerPage,
         qg = [pg EXCEPT ![last].vertices = Append(@, vr)]
  PROVE  Shape(qg, e, first, last, n + 1) /\ RecordAdded(pg, qg, vr)
<1>. DEFINE len == Len(pg[last].vertices)
            np  == <<last, len + 1>>
<1>1. /\ pg[last] \in Page /\ pg[last].vertices \in Seq(VertexRecord)
      /\ len \in Nat /\ DOMAIN pg[last].vertices = 1..len
  BY LenProperties DEF Pages, Page
<1>2. qg[last] = [pg[last] EXCEPT !.vertices = Append(pg[last].vertices, vr)]
  BY DEF Pages
<1>3. /\ qg[last].vertices = Append(pg[last].vertices, vr)
      /\ qg[last].kind = pg[last].kind /\ qg[last].next = pg[last].next
      /\ qg[last].owner = pg[last].owner /\ qg[last].slots = pg[last].slots
  BY <1>1, <1>2 DEF Page
<1>4. \A b \in Block : b # last => qg[b] = pg[b]
  BY DEF Pages
<1>5. /\ DOMAIN qg[last].vertices = 1..(len + 1)
      /\ Len(qg[last].vertices) = len + 1
      /\ qg[last].vertices[len + 1] = vr
      /\ \A i \in 1..len : qg[last].vertices[i] = pg[last].vertices[i]
  <2>. HIDE DEF len
  <2>1. /\ Append(pg[last].vertices, vr) \in Seq(VertexRecord)
        /\ Len(Append(pg[last].vertices, vr)) = Len(pg[last].vertices) + 1
        /\ \A i \in 1..Len(pg[last].vertices) :
             Append(pg[last].vertices, vr)[i] = pg[last].vertices[i]
        /\ Append(pg[last].vertices, vr)[Len(pg[last].vertices) + 1] = vr
    BY <1>1, AppendProperties
  <2>. QED
    BY <1>3, <2>1, LenProperties DEF len
<1>6. last \in VertexPages(pg)
  BY BlockType DEF Shape, VertexShape, IsChain
<1>7. Positions(qg) = Positions(pg) \cup {np}
  <2>1. 1..(len + 1) = 1..len \cup {len + 1}
    BY <1>1
  <2>. HIDE DEF len
  <2>2. \A p \in Positions(qg) : p \in Positions(pg) \cup {np}
    <3>. SUFFICES ASSUME NEW b \in Block, NEW i \in DOMAIN qg[b].vertices
                  PROVE  <<b, i>> \in Positions(pg) \cup {np}
      BY DEF Positions
    <3>1. b # last => i \in DOMAIN pg[b].vertices
      BY <1>4
    <3>2. b = last => i \in DOMAIN pg[b].vertices \/ i = len + 1
      BY <1>1, <1>5, <2>1
    <3>. QED
      BY <3>1, <3>2, PositionOf
  <2>3. \A b \in Block : DOMAIN pg[b].vertices \subseteq DOMAIN qg[b].vertices
    BY <1>1, <1>4, <1>5, <2>1
  <2>4. np \in Positions(qg)
    BY <1>5, <2>1, PositionOf
  <2>. QED
    BY <2>2, <2>3, <2>4 DEF Positions
<1>8. np \notin Positions(pg)
  BY <1>1, RecordType
<1>9. \A p \in Positions(pg) : RecordAt(qg, p) = RecordAt(pg, p)
  <2>. SUFFICES ASSUME NEW p \in Positions(pg)
                PROVE  RecordAt(qg, p) = RecordAt(pg, p)
    OBVIOUS
  <2>1. p[1] \in Block /\ p[2] \in DOMAIN pg[p[1]].vertices
    BY RecordType
  <2>. QED
    BY <1>1, <1>4, <1>5, <2>1 DEF RecordAt
<1>10. RecordAt(qg, np) = vr
  BY <1>5 DEF RecordAt
<1>11. VidsOnce(qg, n + 1) /\ AdjacencyShape(qg)
  <2>. HIDE DEF np
  <2>1. \A b \in Block : pg[b].kind = "adj" => qg[b] = pg[b]
    BY <1>4, <1>6 DEF VertexPages
  <2>2. \A b \in Block : qg[b].kind = "adj" => pg[b].kind = "adj"
    BY <1>3, <1>4
  <2>3. /\ RecordAt(qg, np).vid = n
        /\ RecordAt(qg, np).head = NoBlock /\ RecordAt(qg, np).tail = NoBlock
    BY <1>10
  <2>4. VidsOnce(pg, n) /\ AdjacencyShape(pg)
    BY DEF Shape
  <2>. QED
    BY <1>7, <1>8, <1>9, <2>1, <2>2, <2>3, <2>4, VidAdded
<1>12. Extent(qg, e)
  BY <1>3, <1>4, <1>6 DEF Shape, Extent, VertexPages
<1>13. VertexShape(qg, first, last)
  <2>0. \A b \in Block : qg[b].next = pg[b].next /\ qg[b].kind = pg[b].kind
    BY <1>3, <1>4
  <2>1. /\ \A b \in Block : Nexts(qg)[b] = Nexts(pg)[b]
        /\ VertexPages(qg) = VertexPages(pg)
        /\ VertexPages(pg) \subseteq Block
    BY <2>0, NextsType DEF VertexPages
  <2>2. IsChain(Nexts(qg), VertexPages(pg), first, last)
    BY <2>1, NextsType, ChainFrame DEF Shape, VertexShape
  <2>3. len + 1 \in 1..VerticesPerPage
    BY <1>1, PageSizeAssumption
  <2>. QED
    BY <1>4, <1>5, <2>1, <2>2, <2>3 DEF Shape, VertexShape
<1>14. RecordAdded(pg, qg, vr)
  <2>. HIDE DEF np
  <2>1. \A b \in Block : qg[b].slots = pg[b].slots
    BY <1>3, <1>4
  <2>. QED
    BY <1>7, <1>8, <1>9, <1>10, <2>1, Zenon DEF RecordAdded
<1>. QED
  BY <1>11, <1>12, <1>13, <1>14 DEF Shape

\* The block behind the end of the file is untouched and nothing leads there.
LEMMA NewBlock ==
  ASSUME NEW pg \in Pages, NEW e \in Nat, Extent(pg, e), e + 1 \in Block
  PROVE  /\ pg[e + 1].kind = "zero"
         /\ DOMAIN pg[e + 1].vertices = {} /\ DOMAIN pg[e + 1].slots = {}
         /\ \A b \in Block : pg[b].next # e + 1
<1>1. pg[e + 1].kind = "zero"
  BY DEF Extent
<1>2. ASSUME NEW b \in Block, pg[b].next = e + 1
      PROVE  FALSE
  <2>1. pg[b].next <= e
    BY DEF Extent
  <2>. QED
    BY <1>2, <2>1
<1>. QED
  BY <1>1, <1>2 DEF Extent

LEMMA NewPages ==
  ASSUME NEW vr, NEW v, NEW ss
  PROVE  /\ NewVertexPage(vr).kind = "vertex" /\ NewVertexPage(vr).next = NoBlock
         /\ NewVertexPage(vr).vertices = <<vr>>
         /\ DOMAIN NewVertexPage(vr).slots = {}
         /\ NewAdjPage(v, ss).kind = "adj" /\ NewAdjPage(v, ss).next = NoBlock
         /\ NewAdjPage(v, ss).owner = v /\ NewAdjPage(v, ss).slots = ss
         /\ DOMAIN NewAdjPage(v, ss).vertices = {}
BY DEF NewVertexPage, NewAdjPage, ZeroPage

LEMMA ShapeVertexPaged ==
  ASSUME NEW pg \in Pages, NEW qg \in Pages, NEW e \in Nat, NEW first, NEW last,
         NEW n \in Nat, NEW vr \in VertexRecord, Shape(pg, e, first, last, n),
         vr.vid = n, vr.head = NoBlock, vr.tail = NoBlock,
         last # NoBlock => Len(pg[last].vertices) = VerticesPerPage,
         NEW new \in Block, new = e + 1,
         qg = [b \in Block |->
                 IF b = new THEN NewVertexPage(vr)
                 ELSE IF b = last THEN [pg[b] EXCEPT !.next = new]
                 ELSE pg[b]]
  PROVE  /\ Shape(qg, e + 1, IF last = NoBlock THEN new ELSE first, new, n + 1)
         /\ RecordAdded(pg, qg, vr)
<1>. DEFINE np == <<new, 1>>
<1>1. /\ Extent(pg, e) /\ VertexShape(pg, first, last)
      /\ VidsOnce(pg, n) /\ AdjacencyShape(pg)
  BY DEF Shape
<1>2. /\ pg[new].kind = "zero"
      /\ DOMAIN pg[new].vertices = {} /\ DOMAIN pg[new].slots = {}
      /\ \A b \in Block : pg[b].next # new
  BY <1>1, NewBlock
<1>3. last # NoBlock => last \in VertexPages(pg)
  BY <1>1 DEF VertexShape, IsChain
<1>4. last # new
  BY <1>2, <1>3, BlockType DEF VertexPages
<1>5. /\ qg[new].kind = "vertex" /\ qg[new].next = NoBlock
      /\ qg[new].vertices = <<vr>> /\ DOMAIN qg[new].slots = {}
  <2>1. qg[new] = NewVertexPage(vr)
    OBVIOUS
  <2>. QED
    BY <2>1, NewPages
<1>6. ASSUME NEW b \in Block, b # new
      PROVE  /\ qg[b].kind = pg[b].kind /\ qg[b].owner = pg[b].owner
             /\ qg[b].vertices = pg[b].vertices /\ qg[b].slots = pg[b].slots
             /\ qg[b].next = IF b = last THEN new ELSE pg[b].next
             /\ b # last => qg[b] = pg[b]
  <2>1. pg[b] \in Page
    BY DEF Pages
  <2>2. qg[b] = IF b = last THEN [pg[b] EXCEPT !.next = new] ELSE pg[b]
    BY <1>6
  <2>. QED
    BY <2>1, <2>2 DEF Page
<1>7. DOMAIN qg[new].vertices = {1} /\ Len(qg[new].vertices) = 1 /\ qg[new].vertices[1] = vr
  <2>1. DOMAIN <<vr>> = 1..1 /\ Len(<<vr>>) = 1 /\ <<vr>>[1] = vr
    OBVIOUS
  <2>2. 1..1 = {1}
    OBVIOUS
  <2>. QED
    BY <1>5, <2>1, <2>2
<1>8. Positions(qg) = Positions(pg) \cup {np}
  <2>1. \A p \in Positions(qg) : p \in Positions(pg) \cup {np}
    <3>. SUFFICES ASSUME NEW b \in Block, NEW i \in DOMAIN qg[b].vertices
                  PROVE  <<b, i>> \in Positions(pg) \cup {np}
      BY DEF Positions
    <3>1. b # new => i \in DOMAIN pg[b].vertices
      BY <1>6
    <3>2. b = new => i = 1
      BY <1>7
    <3>. QED
      BY <3>1, <3>2, PositionOf
  <2>2. \A b \in Block : DOMAIN pg[b].vertices \subseteq DOMAIN qg[b].vertices
    BY <1>2, <1>6
  <2>3. np \in Positions(qg)
    BY <1>7, PositionOf
  <2>. QED
    BY <2>1, <2>2, <2>3 DEF Positions
<1>9. \A p \in Positions(pg) : p[1] \in Block /\ p[1] # new
  BY <1>2, RecordType
<1>10. np \notin Positions(pg)
  BY <1>9
<1>11. \A p \in Positions(pg) : RecordAt(qg, p) = RecordAt(pg, p)
  BY <1>6, <1>9 DEF RecordAt
<1>12. RecordAt(qg, np) = vr
  BY <1>7 DEF RecordAt
<1>13. VidsOnce(qg, n + 1) /\ AdjacencyShape(qg)
  <2>. HIDE DEF np
  <2>1. \A b \in Block : pg[b].kind = "adj" => qg[b] = pg[b]
    <3>. SUFFICES ASSUME NEW b \in Block, pg[b].kind = "adj" PROVE qg[b] = pg[b]
      OBVIOUS
    <3>1. b # new /\ b # last
      BY <1>2, <1>3, BlockType DEF VertexPages
    <3>. QED
      BY <1>6, <3>1
  <2>2. \A b \in Block : qg[b].kind = "adj" => pg[b].kind = "adj"
    BY <1>5, <1>6
  <2>3. /\ RecordAt(qg, np).vid = n
        /\ RecordAt(qg, np).head = NoBlock /\ RecordAt(qg, np).tail = NoBlock
    BY <1>12
  <2>. QED
    BY <1>1, <1>8, <1>10, <1>11, <2>1, <2>2, <2>3, VidAdded
<1>14. Extent(qg, e + 1)
  <2>. SUFFICES ASSUME NEW b \in Block
                PROVE  /\ qg[b].next <= e + 1
                       /\ b > e + 1 => qg[b].kind = "zero"
                       /\ qg[b].kind # "vertex" => DOMAIN qg[b].vertices = {}
                       /\ qg[b].kind # "adj" => DOMAIN qg[b].slots = {}
    BY DEF Extent
  <2>1. Shape(pg, e + 1, first, last, n)
    BY ShapeLonger
  <2>2. CASE b = new
    BY <1>5, <2>2 DEF NoBlock
  <2>3. CASE b # new
    <3>1. qg[b].next <= e + 1
      BY <1>6, <2>1, <2>3 DEF Shape, Extent
    <3>. QED
      BY <1>6, <2>1, <2>3, <3>1 DEF Shape, Extent
  <2>. QED
    BY <2>2, <2>3
<1>15. VertexShape(qg, IF last = NoBlock THEN new ELSE first, new)
  <2>1. VertexPages(qg) = VertexPages(pg) \cup {new} /\ VertexPages(pg) \subseteq Block
    BY <1>5, <1>6 DEF VertexPages
  <2>2. new \notin VertexPages(pg)
    BY <1>2 DEF VertexPages
  <2>3. /\ Nexts(qg) \in Links /\ Nexts(pg) \in Links
        /\ Nexts(qg)[new] = NoBlock
        /\ \A b \in VertexPages(pg) : Nexts(pg)[b] # new
        /\ \A b \in VertexPages(pg) :
             Nexts(qg)[b] = IF b = last THEN new ELSE Nexts(pg)[b]
    <3>1. /\ Nexts(qg) \in Links /\ Nexts(pg) \in Links
          /\ \A b \in Block : Nexts(qg)[b] = qg[b].next /\ Nexts(pg)[b] = pg[b].next
      BY NextsType
    <3>2. \A b \in VertexPages(pg) : b \in Block /\ b # new
      BY <2>1, <2>2
    <3>3. \A b \in VertexPages(pg) : qg[b].next = IF b = last THEN new ELSE pg[b].next
      BY <1>6, <3>2
    <3>4. Nexts(qg)[new] = NoBlock
      BY <1>5, <3>1
    <3>5. \A b \in VertexPages(pg) : Nexts(pg)[b] # new
      <4>. SUFFICES ASSUME NEW b \in VertexPages(pg) PROVE Nexts(pg)[b] # new
        OBVIOUS
      <4>1. b \in Block /\ Nexts(pg)[b] = pg[b].next
        BY <3>1, <3>2
      <4>2. pg[b].next # new
        BY <1>2, <4>1
      <4>. QED
        BY <4>1, <4>2
    <3>6. \A b \in VertexPages(pg) :
            Nexts(qg)[b] = IF b = last THEN new ELSE Nexts(pg)[b]
      <4>1. \A b \in VertexPages(pg) : Nexts(qg)[b] = qg[b].next /\ Nexts(pg)[b] = pg[b].next
        BY <3>1, <3>2
      <4>. QED
        BY <3>3, <4>1
    <3>. QED
      BY <3>1, <3>4, <3>5, <3>6
  <2>4. IsChain(Nexts(pg), VertexPages(pg), first, last)
    BY <1>1 DEF VertexShape
  <2>5. IsChain(Nexts(qg), VertexPages(qg), IF last = NoBlock THEN new ELSE first, new)
    <3>1. CASE last = NoBlock
      <4>1. VertexPages(pg) = {}
        BY <2>4, <3>1, WalkNowhere DEF IsChain
      <4>2. VertexPages(qg) = {new}
        BY <2>1, <4>1
      <4>. QED
        BY <2>3, <3>1, <4>2, ChainOfOne
    <3>2. CASE last # NoBlock
      <4>1. IsChain(Nexts(qg), VertexPages(pg) \cup {new}, first, new)
        BY <2>2, <2>3, <2>4, <3>2, ChainExtended
      <4>. QED
        BY <2>1, <3>2, <4>1
    <3>. QED
      BY <3>1, <3>2
  <2>6. ASSUME NEW b \in VertexPages(qg)
        PROVE  /\ Len(qg[b].vertices) \in 1..VerticesPerPage
               /\ b # new => Len(qg[b].vertices) = VerticesPerPage
    <3>1. CASE b = new
      <4>1. 1 \in 1..VerticesPerPage
        BY PageSizeAssumption
      <4>. QED
        BY <1>7, <3>1, <4>1
    <3>2. CASE b # new
      <4>1. b \in VertexPages(pg) /\ b \in Block
        BY <2>1, <2>6, <3>2
      <4>2. Len(pg[b].vertices) = VerticesPerPage
        BY <1>1, <4>1, BlockType DEF VertexShape
      <4>3. Len(qg[b].vertices) = VerticesPerPage
        BY <1>6, <3>2, <4>1, <4>2
      <4>4. VerticesPerPage \in 1..VerticesPerPage
        BY PageSizeAssumption
      <4>. QED
        BY <4>3, <4>4
    <3>. QED
      BY <3>1, <3>2
  <2>. QED
    BY <2>5, <2>6 DEF VertexShape
<1>16. RecordAdded(pg, qg, vr)
  <2>. HIDE DEF np
  <2>1. \A b \in Block : /\ DOMAIN qg[b].slots = DOMAIN pg[b].slots
                        /\ \A i \in DOMAIN pg[b].slots : qg[b].slots[i] = pg[b].slots[i]
    BY <1>2, <1>5, <1>6
  <2>. QED
    BY <1>8, <1>10, <1>11, <1>12, <2>1, Zenon DEF RecordAdded
<1>. QED
  BY <1>13, <1>14, <1>15, <1>16 DEF Shape

-----------------------------------------------------------------------------
(* Slots are appended for the vertex whose record is at p.                 *)

\* The ends of the chain that the record at p starts.
LEMMA TailOf ==
  ASSUME NEW pg \in Pages, NEW p \in Positions(pg), AdjacencyShape(pg),
         RecordAt(pg, p).tail # NoBlock
  PROVE  /\ RecordAt(pg, p).tail \in Block
         /\ RecordAt(pg, p).tail \in OwnedPages(pg, RecordAt(pg, p).vid)
         /\ pg[RecordAt(pg, p).tail].kind = "adj"
         /\ Len(pg[RecordAt(pg, p).tail].slots) \in 1..EdgeSlotsPerPage
<1>. DEFINE r == RecordAt(pg, p)
<1>1. ChainShape(pg, r.vid, r.head, r.tail)
  BY DEF AdjacencyShape
<1>. HIDE DEF r
<1>2. r.tail # NoBlock
  BY DEF r
<1>3. r.tail \in OwnedPages(pg, r.vid)
  BY <1>1, <1>2 DEF ChainShape, IsChain
<1>4. r.tail \in Block /\ pg[r.tail].kind = "adj"
  BY <1>3 DEF OwnedPages
<1>5. Len(pg[r.tail].slots) \in 1..EdgeSlotsPerPage
  BY <1>1, <1>3 DEF ChainShape
<1>. QED
  BY <1>3, <1>4, <1>5 DEF r

\* The slots of a page and those behind them.
LEMMA Concatenated ==
  ASSUME NEW old \in Seq(EdgeSlot), NEW ss \in Seq(EdgeSlot),
         NEW cat, cat = old \o ss
  PROVE  /\ Len(cat) = Len(old) + Len(ss)
         /\ \A i \in DOMAIN cat :
              \/ i \in DOMAIN old /\ cat[i] = old[i]
              \/ \E j \in DOMAIN ss : cat[i] = ss[j]
         /\ \A i \in DOMAIN old : i \in DOMAIN cat /\ cat[i] = old[i]
<1>. DEFINE m   == Len(old)
            k   == Len(ss)
<1>1. /\ cat \in Seq(EdgeSlot) /\ Len(cat) = m + k
      /\ \A i \in 1..(m + k) : cat[i] = IF i <= m THEN old[i] ELSE ss[i - m]
  BY ConcatProperties
<1>2. m \in Nat /\ k \in Nat /\ DOMAIN old = 1..m /\ DOMAIN ss = 1..k
  BY LenProperties
<1>. HIDE DEF m, k
<1>3. DOMAIN cat = 1..(m + k)
  BY <1>1, LenProperties
<1>4. \A i \in 1..(m + k) : i <= m => i \in 1..m
  BY <1>2
<1>5. \A i \in 1..(m + k) : ~(i <= m) => i - m \in 1..k
  BY <1>2
<1>6. \A i \in 1..m : i \in 1..(m + k) /\ i <= m
  BY <1>2
<1>7. \A i \in 1..(m + k) :
        \/ i \in 1..m /\ cat[i] = old[i]
        \/ \E j \in 1..k : cat[i] = ss[j]
  BY <1>1, <1>4, <1>5
<1>8. \A i \in 1..m : i \in 1..(m + k) /\ cat[i] = old[i]
  BY <1>1, <1>6
<1>. QED
  BY <1>1, <1>2, <1>3, <1>7, <1>8 DEF m, k

\* The slots ss are added at the end of the page `tail', and that is all.
SlotsGrown(pg, qg, tail, ss) ==
  /\ qg[tail].slots = pg[tail].slots \o ss
  /\ \A b \in Block : b # tail => qg[b] = pg[b]
  /\ \A b \in Block :
       /\ qg[b].kind = pg[b].kind /\ qg[b].next = pg[b].next
       /\ qg[b].owner = pg[b].owner /\ qg[b].vertices = pg[b].vertices

LEMMA SlotsReplaced ==
  ASSUME NEW P \in Page, NEW ss
  PROVE  LET Q == [P EXCEPT !.slots = ss]
         IN  /\ Q.slots = ss
             /\ Q.kind = P.kind /\ Q.next = P.next
             /\ Q.owner = P.owner /\ Q.vertices = P.vertices
BY DEF Page

LEMMA SlotsGrownBy ==
  ASSUME NEW pg \in Pages, NEW tail \in Block, NEW ss
  PROVE  \A qg : qg = [pg EXCEPT ![tail].slots = @ \o ss] => SlotsGrown(pg, qg, tail, ss)
<1>. DEFINE qg == [pg EXCEPT ![tail].slots = @ \o ss]
<1>1. pg[tail] \in Page
  BY DEF Pages
<1>2. qg[tail] = [pg[tail] EXCEPT !.slots = pg[tail].slots \o ss]
  BY DEF Pages
<1>3. \A b \in Block : b # tail => qg[b] = pg[b]
  BY DEF Pages
<1>. HIDE DEF qg
<1>4. /\ qg[tail].slots = pg[tail].slots \o ss
      /\ qg[tail].kind = pg[tail].kind /\ qg[tail].next = pg[tail].next
      /\ qg[tail].owner = pg[tail].owner /\ qg[tail].vertices = pg[tail].vertices
  BY <1>1, <1>2, SlotsReplaced
<1>5. SlotsGrown(pg, qg, tail, ss)
  BY <1>3, <1>4 DEF SlotsGrown
<1>. QED
  BY <1>5, Zenon DEF qg

LEMMA ShapeSlotsAppended ==
  ASSUME NEW pg \in Pages, NEW qg \in Pages, NEW e, NEW first, NEW last, NEW n,
         Shape(pg, e, first, last, n), NEW p \in Positions(pg),
         NEW tail \in Block, tail = RecordAt(pg, p).tail,
         NEW ss \in Seq(EdgeSlot),
         \A i \in DOMAIN ss : ss[i].src = RecordAt(pg, p).vid,
         Len(pg[tail].slots) + Len(ss) <= EdgeSlotsPerPage,
         SlotsGrown(pg, qg, tail, ss)
  PROVE  Shape(qg, e, first, last, n)
<1>0. /\ qg[tail].slots = pg[tail].slots \o ss
      /\ \A b \in Block : b # tail => qg[b] = pg[b]
      /\ \A b \in Block :
           /\ qg[b].kind = pg[b].kind /\ qg[b].next = pg[b].next
           /\ qg[b].owner = pg[b].owner /\ qg[b].vertices = pg[b].vertices
  BY DEF SlotsGrown
<1>1. /\ Extent(pg, e) /\ VertexShape(pg, first, last)
      /\ VidsOnce(pg, n) /\ AdjacencyShape(pg)
  BY DEF Shape
<1>. DEFINE v   == RecordAt(pg, p).vid
            len == Len(pg[tail].slots)
<1>2. /\ pg[tail].kind = "adj" /\ pg[tail].owner = v
      /\ len \in 1..EdgeSlotsPerPage
  <2>1. tail # NoBlock
    BY BlockType
  <2>2. tail \in OwnedPages(pg, v) /\ len \in 1..EdgeSlotsPerPage
    BY <1>1, <2>1, TailOf
  <2>. QED
    BY <2>2 DEF OwnedPages
<1>3. /\ pg[tail] \in Page /\ pg[tail].slots \in Seq(EdgeSlot)
      /\ len \in Nat /\ DOMAIN pg[tail].slots = 1..len
      /\ Len(ss) \in Nat /\ DOMAIN ss = 1..Len(ss)
  BY LenProperties DEF Pages, Page
<1>8. /\ Len(qg[tail].slots) = len + Len(ss)
      /\ \A i \in DOMAIN qg[tail].slots :
           \/ i \in DOMAIN pg[tail].slots /\ qg[tail].slots[i] = pg[tail].slots[i]
           \/ \E j \in DOMAIN ss : qg[tail].slots[i] = ss[j]
  <2>. DEFINE old == pg[tail].slots
              cat == qg[tail].slots
  <2>1. old \in Seq(EdgeSlot) /\ cat = old \o ss
    BY <1>3, <1>0
  <2>. HIDE DEF old, cat
  <2>2. /\ Len(cat) = Len(old) + Len(ss)
        /\ \A i \in DOMAIN cat :
             \/ i \in DOMAIN old /\ cat[i] = old[i]
             \/ \E j \in DOMAIN ss : cat[i] = ss[j]
    BY <2>1, Concatenated
  <2>. QED
    BY <2>2, Zenon DEF old, cat
<1>9. /\ Positions(qg) = Positions(pg)
      /\ Nexts(qg) = Nexts(pg)
      /\ VertexPages(qg) = VertexPages(pg)
      /\ \A w : OwnedPages(qg, w) = OwnedPages(pg, w)
  BY <1>0 DEF Positions, Nexts, VertexPages, OwnedPages
<1>10. \A q \in Positions(pg) : RecordAt(qg, q) = RecordAt(pg, q)
  BY <1>0, RecordType DEF RecordAt
<1>11. Extent(qg, e)
  <2>1. \A b \in Block : b # tail => qg[b].slots = pg[b].slots
    BY <1>0
  <2>. QED
    BY <1>1, <1>2, <1>0, <2>1 DEF Extent
<1>12. VertexShape(qg, first, last)
  BY <1>1, <1>0, <1>9 DEF VertexShape, VertexPages
<1>13. VidsOnce(qg, n)
  <2>1. \A b \in Block : qg[b].kind = "adj" => qg[b].owner \in 0..(n - 1)
    BY <1>1, <1>0 DEF VidsOnce
  <2>2. \A q \in Positions(pg) : RecordAt(qg, q).vid = RecordAt(pg, q).vid
    BY <1>10
  <2>3. VidsOnce(pg, n) /\ Positions(qg) = Positions(pg)
    BY <1>1, <1>9
  <2>. QED
    BY <2>1, <2>2, <2>3, OnceKept, Zenon
<1>14. ASSUME NEW q \in Positions(pg)
       PROVE  ChainShape(qg, RecordAt(pg, q).vid, RecordAt(pg, q).head,
                         RecordAt(pg, q).tail)
  <2>. DEFINE w == RecordAt(pg, q).vid
              h == RecordAt(pg, q).head
              t == RecordAt(pg, q).tail
  <2>1. ChainShape(pg, w, h, t)
    BY <1>1 DEF AdjacencyShape
  <2>2. w = v => t = tail
    BY <1>1 DEF VidsOnce
  <2>. HIDE DEF w, h, t, v
  <2>3. ASSUME NEW b \in OwnedPages(pg, w)
        PROVE  /\ Len(qg[b].slots) \in 1..EdgeSlotsPerPage
               /\ b # t => Len(qg[b].slots) = EdgeSlotsPerPage
               /\ \A i \in DOMAIN qg[b].slots : qg[b].slots[i].src = w
    <3>0. b \in Block /\ pg[b].owner = w
      BY DEF OwnedPages
    <3>1. CASE b = tail
      <4>1. w = v /\ b = t
        BY <1>2, <2>2, <3>0, <3>1
      <4>2. len + Len(ss) \in 1..EdgeSlotsPerPage
        BY <1>2, <1>3, PageSizeAssumption
      <4>3. \A i \in DOMAIN pg[tail].slots : pg[tail].slots[i].src = w
        BY <2>1, <3>1 DEF ChainShape
      <4>4. \A j \in DOMAIN ss : ss[j].src = w
        BY <4>1 DEF v
      <4>5. \A i \in DOMAIN qg[tail].slots : qg[tail].slots[i].src = w
        BY <1>8, <4>3, <4>4
      <4>. QED
        BY <1>8, <3>1, <4>1, <4>2, <4>5
    <3>2. CASE b # tail
      BY <1>0, <2>1, <3>0, <3>2 DEF ChainShape
    <3>. QED
      BY <3>1, <3>2
  <2>4. ChainShape(qg, w, h, t)
    <3>1. IsChain(Nexts(qg), OwnedPages(qg, w), h, t) /\ OwnedPages(qg, w) = OwnedPages(pg, w)
      BY <1>9, <2>1 DEF ChainShape
    <3>. QED
      BY <2>3, <3>1 DEF ChainShape
  <2>. QED
    BY <2>4 DEF w, h, t
<1>15. AdjacencyShape(qg)
  BY <1>9, <1>10, <1>14 DEF AdjacencyShape
<1>. QED
  BY <1>11, <1>12, <1>13, <1>15 DEF Shape

\* A record and its page after its chain's ends have moved.
Reanchored(r, b) ==
  [r EXCEPT !.head = IF r.head = NoBlock THEN b ELSE r.head, !.tail = b]

Anchored(pg, i, b) ==
  [pg EXCEPT !.vertices[i].head = IF @ = NoBlock THEN b ELSE @,
             !.vertices[i].tail = b]

LEMMA AnchoredPage ==
  ASSUME NEW pg \in Page, NEW i \in DOMAIN pg.vertices, NEW b \in Block,
         NEW qg, qg = Anchored(pg, i, b)
  PROVE  /\ qg.kind = pg.kind /\ qg.next = pg.next
         /\ qg.owner = pg.owner /\ qg.slots = pg.slots
         /\ DOMAIN qg.vertices = DOMAIN pg.vertices
         /\ \A j \in DOMAIN pg.vertices : j # i => qg.vertices[j] = pg.vertices[j]
         /\ qg.vertices[i] = Reanchored(pg.vertices[i], b)
<1>1. pg.vertices \in Seq(VertexRecord) /\ pg.vertices[i] \in VertexRecord
  <2>1. pg.vertices \in Seq(VertexRecord)
    BY DEF Page
  <2>. QED
    BY <2>1, LenProperties, ElementOfSeq
<1>. DEFINE r  == pg.vertices[i]
            q  == Reanchored(r, b)
            vs == [pg.vertices EXCEPT ![i] = q]
<1>2. qg = [pg EXCEPT !.vertices = vs]
  BY <1>1 DEF Page, VertexRecord, Anchored, Reanchored
<1>3. /\ DOMAIN vs = DOMAIN pg.vertices /\ vs[i] = q
      /\ \A j \in DOMAIN pg.vertices : j # i => vs[j] = pg.vertices[j]
  OBVIOUS
<1>4. /\ qg.kind = pg.kind /\ qg.next = pg.next
      /\ qg.owner = pg.owner /\ qg.slots = pg.slots /\ qg.vertices = vs
  <2>. HIDE DEF vs
  <2>. QED
    BY <1>2 DEF Page
<1>. QED
  BY <1>3, <1>4

\* What a page that is opened for slots changes: at the end of the file, at
\* the old end of the chain, at the record.
SlotsPaged(pg, qg, p, src, new, ss) ==
  qg = [b \in Block |->
          IF b = new THEN NewAdjPage(src, ss)
          ELSE IF b = RecordAt(pg, p).tail THEN [pg[b] EXCEPT !.next = new]
          ELSE IF b = p[1] THEN Anchored(pg[b], p[2], new)
          ELSE pg[b]]

PagedChanges(pg, qg, p, r, src, new, ss) ==
  /\ new # r.tail /\ new # p[1] /\ p[1] # r.tail
  /\ qg[new] = NewAdjPage(src, ss)
  /\ \A b \in Block : b # new =>
       /\ qg[b].kind = pg[b].kind /\ qg[b].owner = pg[b].owner
       /\ qg[b].slots = pg[b].slots
       /\ DOMAIN qg[b].vertices = DOMAIN pg[b].vertices
       /\ qg[b].next = IF b = r.tail THEN new ELSE pg[b].next
  /\ \A q \in Positions(pg) : q # p => RecordAt(qg, q) = RecordAt(pg, q)
  /\ RecordAt(qg, p) = Reanchored(r, new)

LEMMA SlotsPagedChanges ==
  ASSUME NEW pg \in Pages, NEW qg \in Pages, NEW e \in Nat,
         Extent(pg, e), AdjacencyShape(pg), NEW p \in Positions(pg),
         NEW new \in Block, new = e + 1, NEW ss,
         NEW r, r = RecordAt(pg, p), NEW src, SlotsPaged(pg, qg, p, src, new, ss)
  PROVE  PagedChanges(pg, qg, p, r, src, new, ss)
<1>1. /\ p[1] \in Block /\ p[2] \in DOMAIN pg[p[1]].vertices /\ p = <<p[1], p[2]>>
  BY RecordType
<1>2. /\ pg[new].kind = "zero" /\ DOMAIN pg[new].vertices = {}
  BY NewBlock
<1>3. r.tail # NoBlock => r.tail \in Block /\ pg[r.tail].kind = "adj"
  BY TailOf
<1>4. \A b \in Block : pg[b].kind = "adj" => DOMAIN pg[b].vertices = {}
  BY DEF Extent
<1>5. new # r.tail /\ new # p[1] /\ p[1] # r.tail
  BY <1>1, <1>2, <1>3, <1>4, BlockType
<1>6. /\ qg[new] = NewAdjPage(src, ss)
      /\ \A b \in Block : b \notin {new, r.tail, p[1]} => qg[b] = pg[b]
      /\ \A b \in Block : b = r.tail => qg[b] = [pg[b] EXCEPT !.next = new]
      /\ qg[p[1]] = Anchored(pg[p[1]], p[2], new)
  BY <1>1, <1>5 DEF SlotsPaged
<1>7. \A b \in Block : pg[b] \in Page
  BY DEF Pages
<1>8. ASSUME NEW b \in Block, b = r.tail
      PROVE  /\ qg[b].kind = pg[b].kind /\ qg[b].owner = pg[b].owner
             /\ qg[b].slots = pg[b].slots /\ qg[b].vertices = pg[b].vertices
             /\ qg[b].next = new
  <2>1. qg[b] = [pg[b] EXCEPT !.next = new] /\ pg[b] \in Page
    BY <1>6, <1>7, <1>8
  <2>. QED
    BY <2>1 DEF Page
<1>. DEFINE old == pg[p[1]]
            now == qg[p[1]]
<1>9. /\ now.kind = old.kind /\ now.next = old.next
      /\ now.owner = old.owner /\ now.slots = old.slots
      /\ DOMAIN now.vertices = DOMAIN old.vertices
      /\ \A j \in DOMAIN old.vertices : j # p[2] => now.vertices[j] = old.vertices[j]
      /\ now.vertices[p[2]] = Reanchored(old.vertices[p[2]], new)
  <2>1. /\ old \in Page /\ p[2] \in DOMAIN old.vertices
        /\ now = Anchored(old, p[2], new)
    BY <1>1, <1>6, <1>7
  <2>. HIDE DEF old, now
  <2>. QED
    BY <2>1, AnchoredPage
<1>10. ASSUME NEW b \in Block, b # new
       PROVE  /\ qg[b].kind = pg[b].kind /\ qg[b].owner = pg[b].owner
              /\ qg[b].slots = pg[b].slots
              /\ DOMAIN qg[b].vertices = DOMAIN pg[b].vertices
              /\ qg[b].next = IF b = r.tail THEN new ELSE pg[b].next
  BY <1>5, <1>6, <1>8, <1>9, <1>10
<1>11. ASSUME NEW q \in Positions(pg), q # p
       PROVE  RecordAt(qg, q) = RecordAt(pg, q)
  <2>1. /\ q[1] \in Block /\ q[2] \in DOMAIN pg[q[1]].vertices /\ q = <<q[1], q[2]>>
    BY RecordType
  <2>2. q[1] # new /\ (q[1] = p[1] => q[2] # p[2])
    BY <1>1, <1>2, <1>11, <2>1
  <2>3. qg[q[1]].vertices[q[2]] = pg[q[1]].vertices[q[2]]
    <3>1. CASE q[1] = p[1]
      BY <1>9, <2>1, <2>2, <3>1
    <3>2. CASE q[1] = r.tail
      BY <1>8, <2>1, <3>2
    <3>3. CASE q[1] # p[1] /\ q[1] # r.tail
      BY <1>6, <2>1, <2>2, <3>3
    <3>. QED
      BY <3>1, <3>2, <3>3
  <2>. QED
    BY <2>3 DEF RecordAt
<1>12. RecordAt(qg, p) = Reanchored(r, new)
  <2>1. r = old.vertices[p[2]] /\ RecordAt(qg, p) = now.vertices[p[2]]
    BY DEF RecordAt
  <2>. HIDE DEF old, now
  <2>. QED
    BY <1>9, <2>1
<1>. QED
  BY <1>5, <1>6, <1>10, <1>11, <1>12 DEF PagedChanges

LEMMA ReanchoredRecord ==
  ASSUME NEW r \in VertexRecord, NEW b \in Block
  PROVE  /\ Reanchored(r, b).vid = r.vid
         /\ Reanchored(r, b).head = IF r.head = NoBlock THEN b ELSE r.head
         /\ Reanchored(r, b).tail = b
         /\ Reanchored(r, b).xmin = r.xmin /\ Reanchored(r, b).xmax = r.xmax
         /\ Reanchored(r, b).deleted = r.deleted
BY DEF Reanchored, VertexRecord

LEMMA ShapeSlotsPaged ==
  ASSUME NEW pg \in Pages, NEW qg \in Pages, NEW e \in Nat, NEW first, NEW last, NEW n,
         Shape(pg, e, first, last, n), NEW p \in Positions(pg),
         NEW new \in Block, new = e + 1,
         NEW ss, Len(ss) \in 1..EdgeSlotsPerPage,
         \A i \in DOMAIN ss : ss[i].src = RecordAt(pg, p).vid,
         RecordAt(pg, p).tail # NoBlock =>
           Len(pg[RecordAt(pg, p).tail].slots) = EdgeSlotsPerPage,
         SlotsPaged(pg, qg, p, RecordAt(pg, p).vid, new, ss)
  PROVE  Shape(qg, e + 1, first, last, n)
<1>1. /\ Extent(pg, e) /\ VertexShape(pg, first, last)
      /\ VidsOnce(pg, n) /\ AdjacencyShape(pg)
  BY DEF Shape
<1>. DEFINE r == RecordAt(pg, p)
            v == r.vid
<1>2. r \in VertexRecord
  BY RecordType
<1>3. /\ r.tail # NoBlock => r.tail \in OwnedPages(pg, v) /\ pg[r.tail].kind = "adj"
      /\ r.tail # NoBlock => Len(pg[r.tail].slots) = EdgeSlotsPerPage
      /\ \A i \in DOMAIN ss : ss[i].src = v
  BY <1>1, TailOf
<1>. HIDE DEF r
<1>4. /\ new # r.tail /\ new # p[1] /\ p[1] # r.tail
      /\ qg[new] = NewAdjPage(v, ss)
      /\ \A b \in Block : b # new =>
           /\ qg[b].kind = pg[b].kind /\ qg[b].owner = pg[b].owner
           /\ qg[b].slots = pg[b].slots
           /\ DOMAIN qg[b].vertices = DOMAIN pg[b].vertices
           /\ qg[b].next = IF b = r.tail THEN new ELSE pg[b].next
      /\ \A q \in Positions(pg) : q # p => RecordAt(qg, q) = RecordAt(pg, q)
      /\ RecordAt(qg, p) = Reanchored(r, new)
  <2>1. r = RecordAt(pg, p) /\ SlotsPaged(pg, qg, p, v, new, ss)
    BY DEF r
  <2>. HIDE DEF v
  <2>2. PagedChanges(pg, qg, p, r, v, new, ss)
    BY <1>1, <2>1, SlotsPagedChanges
  <2>. QED
    BY <2>2 DEF PagedChanges
<1>5. /\ qg[new].kind = "adj" /\ qg[new].next = NoBlock
      /\ qg[new].owner = v /\ qg[new].slots = ss
      /\ DOMAIN qg[new].vertices = {}
  BY <1>4, NewPages
<1>6. /\ pg[new].kind = "zero"
      /\ DOMAIN pg[new].vertices = {} /\ DOMAIN pg[new].slots = {}
      /\ \A b \in Block : pg[b].next # new
  BY <1>1, NewBlock
<1>7. /\ RecordAt(qg, p).vid = v /\ RecordAt(qg, p).tail = new
      /\ RecordAt(qg, p).head = IF r.head = NoBlock THEN new ELSE r.head
  BY <1>2, <1>4, ReanchoredRecord
<1>8. Positions(qg) = Positions(pg)
  <2>1. \A b \in Block : DOMAIN qg[b].vertices = DOMAIN pg[b].vertices
    BY <1>4, <1>5, <1>6
  <2>. QED
    BY <2>1, SamePositions
<1>9. \A q \in Positions(pg) : RecordAt(qg, q).vid = RecordAt(pg, q).vid
  BY <1>4, <1>7 DEF r
<1>10. VidsOnce(qg, n)
  <2>1. v \in 0..(n - 1)
    BY <1>1 DEF VidsOnce, r
  <2>2. ASSUME NEW b \in Block, qg[b].kind = "adj"
        PROVE  qg[b].owner \in 0..(n - 1)
    BY <1>1, <1>4, <1>5, <2>1, <2>2 DEF VidsOnce
  <2>. QED
    BY <1>1, <1>8, <1>9, <2>2, OnceKept
<1>11. Extent(qg, e + 1)
  <2>. SUFFICES ASSUME NEW b \in Block
                PROVE  /\ qg[b].next <= e + 1
                       /\ b > e + 1 => qg[b].kind = "zero"
                       /\ qg[b].kind # "vertex" => DOMAIN qg[b].vertices = {}
                       /\ qg[b].kind # "adj" => DOMAIN qg[b].slots = {}
    BY DEF Extent
  <2>1. Shape(pg, e + 1, first, last, n)
    BY ShapeLonger
  <2>2. CASE b = new
    BY <1>5, <2>2 DEF NoBlock
  <2>3. CASE b # new
    <3>1. qg[b].next <= e + 1
      BY <1>4, <2>1, <2>3 DEF Shape, Extent
    <3>. QED
      BY <1>4, <2>1, <2>3, <3>1 DEF Shape, Extent
  <2>. QED
    BY <2>2, <2>3
<1>12. /\ Nexts(qg) \in Links /\ Nexts(pg) \in Links
       /\ \A b \in Block : Nexts(qg)[b] = qg[b].next /\ Nexts(pg)[b] = pg[b].next
  BY NextsType
<1>13. VertexShape(qg, first, last)
  <2>1. VertexPages(qg) = VertexPages(pg)
    <3>1. ASSUME NEW b \in Block
          PROVE  qg[b].kind = "vertex" <=> pg[b].kind = "vertex"
      <4>1. CASE b = new
        BY <1>5, <1>6, <4>1
      <4>2. CASE b # new
        BY <1>4, <4>2
      <4>. QED
        BY <4>1, <4>2
    <3>. QED
      BY <3>1, SameVertexPages
  <2>2. ASSUME NEW b \in VertexPages(pg)
        PROVE  /\ b \in Block /\ b # new /\ b # r.tail
               /\ Nexts(qg)[b] = Nexts(pg)[b]
    <3>1. b \in Block /\ pg[b].kind = "vertex"
      BY DEF VertexPages
    <3>2. b # new /\ b # r.tail
      BY <1>3, <1>6, <3>1, BlockType
    <3>. QED
      BY <1>4, <1>12, <3>1, <3>2
  <2>3. IsChain(Nexts(qg), VertexPages(pg), first, last)
    BY <1>1, <1>12, <2>2, ChainFrame DEF VertexShape
  <2>4. \A b \in Block : b # new => Len(qg[b].vertices) = Len(pg[b].vertices)
    <3>. SUFFICES ASSUME NEW b \in Block, b # new
                  PROVE  Len(qg[b].vertices) = Len(pg[b].vertices)
      OBVIOUS
    <3>1. qg[b].vertices \in Seq(VertexRecord) /\ pg[b].vertices \in Seq(VertexRecord)
      BY DEF Pages, Page
    <3>2. DOMAIN qg[b].vertices = DOMAIN pg[b].vertices
      BY <1>4
    <3>. QED
      BY <3>1, <3>2, LenProperties
  <2>5. \A b \in VertexPages(pg) : Len(qg[b].vertices) = Len(pg[b].vertices)
    BY <2>2, <2>4
  <2>. QED
    BY <1>1, <2>1, <2>3, <2>5 DEF VertexShape
<1>14. \A w : OwnedPages(qg, w) =
                IF w = v THEN OwnedPages(pg, w) \cup {new} ELSE OwnedPages(pg, w)
  <2>. SUFFICES ASSUME NEW w
                PROVE  \A b \in Block :
                         b \in OwnedPages(qg, w) <=>
                           b \in OwnedPages(pg, w) \/ (w = v /\ b = new)
    BY DEF OwnedPages
  <2>. SUFFICES ASSUME NEW b \in Block
                PROVE  qg[b].kind = "adj" /\ qg[b].owner = w <=>
                         (pg[b].kind = "adj" /\ pg[b].owner = w) \/ (w = v /\ b = new)
    BY DEF OwnedPages
  <2>1. CASE b = new
    BY <1>5, <1>6, <2>1
  <2>2. CASE b # new
    BY <1>4, <2>2
  <2>. QED
    BY <2>1, <2>2
<1>15. \A w : \A b \in OwnedPages(pg, w) : b \in Block /\ b # new
  BY <1>6 DEF OwnedPages
<1>16. ChainShape(pg, v, r.head, r.tail)
  BY <1>1 DEF AdjacencyShape, r
<1>17. ChainShape(qg, v, IF r.head = NoBlock THEN new ELSE r.head, new)
  <2>. DEFINE S == OwnedPages(pg, v)
              U == OwnedPages(qg, v)
  <2>1. U = S \cup {new} /\ new \notin S /\ S \subseteq Block
    BY <1>14, <1>15
  <2>2. IsChain(Nexts(pg), S, r.head, r.tail)
    BY <1>16 DEF ChainShape
  <2>3. ASSUME NEW b \in S
        PROVE  /\ Nexts(pg)[b] # new
               /\ Nexts(qg)[b] = IF b = r.tail THEN new ELSE Nexts(pg)[b]
    <3>1. b \in Block /\ b # new
      BY <1>15
    <3>. QED
      BY <1>4, <1>6, <1>12, <3>1
  <2>4. Nexts(qg)[new] = NoBlock
    BY <1>5, <1>12
  <2>. HIDE DEF S, U
  <2>5. IsChain(Nexts(qg), U, IF r.head = NoBlock THEN new ELSE r.head, new)
    <3>1. CASE r.tail = NoBlock
      <4>1. r.head = NoBlock /\ S = {}
        BY <2>2, <3>1, WalkNowhere DEF IsChain
      <4>. QED
        BY <1>12, <2>1, <2>4, <4>1, ChainOfOne
    <3>2. CASE r.tail # NoBlock
      <4>1. r.head # NoBlock
        BY <2>2, <3>2 DEF IsChain
      <4>2. IsChain(Nexts(qg), S \cup {new}, r.head, new)
        <5>1. /\ \A b \in S : Nexts(pg)[b] # new
              /\ \A b \in S : Nexts(qg)[b] = IF b = r.tail THEN new ELSE Nexts(pg)[b]
          BY <2>3
        <5>. DEFINE f == Nexts(pg)
                    g == Nexts(qg)
                    head == r.head
                    tail == r.tail
        <5>. HIDE DEF f, g, head, tail
        <5>2. /\ f \in Links /\ g \in Links /\ IsChain(f, S, head, tail)
              /\ tail # NoBlock /\ new \notin S /\ g[new] = NoBlock
              /\ \A b \in S : f[b] # new
              /\ \A b \in S : g[b] = IF b = tail THEN new ELSE f[b]
          BY <1>12, <2>1, <2>2, <2>4, <3>2, <5>1 DEF f, g, head, tail
        <5>3. IsChain(g, S \cup {new}, head, new)
          BY <5>2, ChainExtended
        <5>. QED
          BY <5>3 DEF g, head
      <4>. QED
        BY <2>1, <4>1, <4>2
    <3>. QED
      BY <3>1, <3>2
  <2>6. ASSUME NEW b \in U
        PROVE  /\ Len(qg[b].slots) \in 1..EdgeSlotsPerPage
               /\ b # new => Len(qg[b].slots) = EdgeSlotsPerPage
               /\ \A i \in DOMAIN qg[b].slots : qg[b].slots[i].src = v
    <3>1. CASE b = new
      BY <1>3, <1>5, <3>1
    <3>2. CASE b # new
      <4>1. b \in S /\ b \in Block
        BY <2>1, <3>2
      <4>2. /\ Len(pg[b].slots) \in 1..EdgeSlotsPerPage
            /\ b # r.tail => Len(pg[b].slots) = EdgeSlotsPerPage
            /\ \A i \in DOMAIN pg[b].slots : pg[b].slots[i].src = v
        BY <1>16, <4>1 DEF ChainShape, S
      <4>3. qg[b].slots = pg[b].slots
        BY <1>4, <3>2, <4>1
      <4>4. b = r.tail => Len(pg[b].slots) = EdgeSlotsPerPage
        BY <1>3, <4>1, BlockType
      <4>. QED
        BY <4>2, <4>3, <4>4
    <3>. QED
      BY <3>1, <3>2
  <2>. QED
    BY <2>5, <2>6 DEF ChainShape, U
<1>18. ASSUME NEW q \in Positions(pg), q # p
       PROVE  ChainShape(qg, RecordAt(pg, q).vid, RecordAt(pg, q).head,
                         RecordAt(pg, q).tail)
  <2>. DEFINE w == RecordAt(pg, q).vid
              h == RecordAt(pg, q).head
              t == RecordAt(pg, q).tail
  <2>1. ChainShape(pg, w, h, t)
    BY <1>1 DEF AdjacencyShape
  <2>2. w # v
    BY <1>1, <1>18 DEF VidsOnce, r
  <2>. HIDE DEF w, h, t
  <2>3. OwnedPages(qg, w) = OwnedPages(pg, w)
    BY <1>14, <2>2
  <2>4. ASSUME NEW b \in OwnedPages(pg, w)
        PROVE  /\ b # r.tail /\ qg[b].slots = pg[b].slots
               /\ Nexts(qg)[b] = Nexts(pg)[b]
    <3>1. b \in Block /\ b # new
      BY <1>15
    <3>2. b # r.tail
      BY <1>3, <2>2, <3>1, BlockType DEF OwnedPages
    <3>. QED
      BY <1>4, <1>12, <3>1, <3>2
  <2>5. IsChain(Nexts(qg), OwnedPages(pg, w), h, t)
    BY <1>12, <2>1, <2>4, ChainFrame DEF ChainShape
  <2>6. ChainShape(qg, w, h, t)
    BY <2>1, <2>3, <2>4, <2>5 DEF ChainShape
  <2>. QED
    BY <2>6 DEF w, h, t
<1>19. AdjacencyShape(qg)
  <2>. SUFFICES ASSUME NEW q \in Positions(pg)
                PROVE  ChainShape(qg, RecordAt(qg, q).vid, RecordAt(qg, q).head,
                                  RecordAt(qg, q).tail)
    BY <1>8 DEF AdjacencyShape
  <2>1. CASE q = p
    BY <1>7, <1>17, <2>1
  <2>2. CASE q # p
    BY <1>4, <1>18, <2>2
  <2>. QED
    BY <2>1, <2>2
<1>. QED
  BY <1>10, <1>11, <1>13, <1>19 DEF Shape

-----------------------------------------------------------------------------
(* The steps.                                                              *)

StoreShape == Shape(page, eof, meta.first, meta.last, meta.nextVid)

\* The last conjunct: a batch that is under way has a slot left to write, so
\* that no page is opened for none.
ChainInv ==
  /\ TypeOK
  /\ StoreShape
  /\ op.name = "edges" => op.rest # <<>>

LEMMA StorePages ==
  ASSUME TypeOK
  PROVE  /\ page \in Pages /\ eof \in Nat /\ meta \in Meta
         /\ meta.first \in Link /\ meta.last \in Link /\ meta.nextVid \in Nat
         /\ VertexPositions = Positions(page)
         /\ \A p : VertexAt(p) = RecordAt(page, p)
<1>1. meta \in Meta /\ page \in Pages
  BY DEF TypeOK, Pages
<1>2. eof \in Nat
  BY Constants DEF TypeOK
<1>3. \A k \in 0..MaxVid : k \in Nat
  BY Constants
<1>4. meta.first \in Link /\ meta.last \in Link /\ meta.nextVid \in 0..MaxVid
  BY <1>1 DEF Meta
<1>. QED
  BY <1>1, <1>2, <1>3, <1>4 DEF VertexPositions, Positions, VertexAt, RecordAt

LEMMA InitChains == Init => ChainInv
<1>. SUFFICES ASSUME Init PROVE ChainInv
  OBVIOUS
<1>1. TypeOK
  BY InitType
<1>2. /\ meta.first = NoBlock /\ meta.last = NoBlock /\ meta.nextVid = 0
      /\ eof = 0 /\ op.name = "idle"
  BY DEF Init, Idle
<1>3. \A b \in Block : /\ page[b].kind = "zero" /\ page[b].next = NoBlock
                       /\ DOMAIN page[b].vertices = {} /\ DOMAIN page[b].slots = {}
  BY DEF Init, ZeroPage
<1>4. Extent(page, 0)
  BY <1>3 DEF Extent, NoBlock
<1>5. Positions(page) = {} /\ VertexPages(page) = {}
  BY <1>3 DEF Positions, VertexPages
<1>6. VertexShape(page, NoBlock, NoBlock)
  BY <1>5, ChainOfNone DEF VertexShape
<1>7. VidsOnce(page, 0) /\ AdjacencyShape(page)
  BY <1>3, <1>5 DEF VidsOnce, AdjacencyShape
<1>. QED
  BY <1>1, <1>2, <1>4, <1>6, <1>7 DEF ChainInv, StoreShape, Shape

\* The room for the slots of one record.
LEMMA RoomLeft ==
  ASSUME TypeOK, StoreShape, NEW p \in VertexPositions
  PROVE  /\ Room(p) \in 1..EdgeSlotsPerPage
         /\ NeedsPage(p) => /\ Room(p) = EdgeSlotsPerPage
                            /\ VertexAt(p).tail # NoBlock =>
                                 Len(page[VertexAt(p).tail].slots) = EdgeSlotsPerPage
         /\ ~NeedsPage(p) => /\ VertexAt(p).tail \in Block
                             /\ Len(page[VertexAt(p).tail].slots) + Room(p)
                                  = EdgeSlotsPerPage
<1>. DEFINE t == VertexAt(p).tail
            k == Len(page[t].slots)
<1>1. t # NoBlock => t \in Block /\ k \in 1..EdgeSlotsPerPage
  BY StorePages, TailOf DEF StoreShape, Shape
<1>2. NeedsPage(p) <=> (t # NoBlock => k >= EdgeSlotsPerPage)
  BY DEF NeedsPage
<1>3. Room(p) = IF NeedsPage(p) THEN EdgeSlotsPerPage ELSE EdgeSlotsPerPage - k
  BY DEF Room
<1>. HIDE DEF t, k
<1>4. CASE NeedsPage(p)
  <2>1. EdgeSlotsPerPage \in 1..EdgeSlotsPerPage
    BY PageSizeAssumption
  <2>2. t # NoBlock => k = EdgeSlotsPerPage
    BY <1>1, <1>2, <1>4, PageSizeAssumption
  <2>. QED
    BY <1>3, <1>4, <2>1, <2>2 DEF t, k
<1>5. CASE ~NeedsPage(p)
  <2>1. t \in Block /\ k \in 1..EdgeSlotsPerPage /\ k < EdgeSlotsPerPage
    BY <1>1, <1>2, <1>5, PageSizeAssumption
  <2>2. EdgeSlotsPerPage - k \in 1..EdgeSlotsPerPage /\ k + (EdgeSlotsPerPage - k) = EdgeSlotsPerPage
    BY <2>1, PageSizeAssumption
  <2>. QED
    BY <1>3, <1>5, <2>1, <2>2 DEF t, k
<1>. QED
  BY <1>4, <1>5

LEMMA AppendSlotsShape ==
  ASSUME TypeOK, StoreShape, NEW p \in VertexPositions,
         NEW src \in Vid, src = VertexAt(p).vid,
         NEW ss \in Seq(EdgeSlot), Len(ss) \in 1..Room(p),
         \A i \in DOMAIN ss : ss[i].src = src,
         AppendSlots(p, src, ss)
  PROVE  StoreShape'
<1>. DEFINE r   == VertexAt(p)
            new == eof + 1
<1>1. /\ page \in Pages /\ eof \in Nat /\ meta \in Meta
      /\ p \in Positions(page) /\ r = RecordAt(page, p)
  BY StorePages
<1>2. page' \in Pages /\ eof' \in 0..MaxBlock
  BY AppendSlotsType DEF Pages
<1>3. /\ meta'.first = meta.first /\ meta'.last = meta.last
      /\ meta'.nextVid = meta.nextVid
  <2>1. meta' = [meta EXCEPT !.edgeCount = @ + Len(ss)]
    BY DEF AppendSlots
  <2>. QED
    BY <1>1, <2>1 DEF Meta
<1>4. Len(ss) \in Nat /\ Room(p) \in Nat /\ Len(ss) <= Room(p)
  <2>1. \A k \in 1..EdgeSlotsPerPage : k \in Nat
    BY PageSizeAssumption
  <2>2. Room(p) \in Nat /\ Len(ss) \in Nat
    BY <2>1, RoomLeft, LenProperties
  <2>. QED
    BY <2>2
<1>. HIDE DEF r, new
<1>5. CASE ~NeedsPage(p)
  <2>1. page' = [page EXCEPT ![r.tail].slots = @ \o ss] /\ eof' = eof
    BY <1>5 DEF AppendSlots, r
  <2>2. /\ r.tail \in Block
        /\ Len(page[r.tail].slots) + Room(p) = EdgeSlotsPerPage
    BY <1>5, RoomLeft DEF r
  <2>3. Len(page[r.tail].slots) \in Nat
    BY <1>1, <2>2, LenProperties DEF Pages, Page
  <2>4. Len(page[r.tail].slots) + Len(ss) <= EdgeSlotsPerPage
    <3>. DEFINE k == Len(page[r.tail].slots)
                l == Len(ss)
                m == Room(p)
    <3>. HIDE DEF k, l, m
    <3>1. k \in Nat /\ l \in Nat /\ m \in Nat /\ l <= m /\ k + m = EdgeSlotsPerPage
      BY <1>4, <2>2, <2>3 DEF k, l, m
    <3>2. k + l <= EdgeSlotsPerPage
      BY <3>1
    <3>. QED
      BY <3>2 DEF k, l
  <2>5. Shape(page', eof, meta.first, meta.last, meta.nextVid)
    <3>. DEFINE qg   == page'
                tail == r.tail
    <3>1. /\ qg \in Pages /\ SlotsGrown(page, qg, tail, ss)
          /\ tail \in Block /\ tail = RecordAt(page, p).tail
          /\ Len(page[tail].slots) + Len(ss) <= EdgeSlotsPerPage
          /\ \A i \in DOMAIN ss : ss[i].src = RecordAt(page, p).vid
      <4>1. qg = [page EXCEPT ![tail].slots = @ \o ss]
        BY <2>1
      <4>2. tail \in Block /\ page \in Pages
        BY <1>1, <2>2
      <4>. HIDE DEF qg, tail
      <4>3. SlotsGrown(page, qg, tail, ss)
        BY <4>1, <4>2, SlotsGrownBy
      <4>. QED
        BY <1>1, <1>2, <2>2, <2>4, <4>3 DEF r, qg, tail
    <3>. HIDE DEF qg, tail
    <3>2. Shape(qg, eof, meta.first, meta.last, meta.nextVid)
      BY <1>1, <3>1, ShapeSlotsAppended DEF StoreShape
    <3>. QED
      BY <3>2 DEF qg
  <2>. QED
    BY <1>3, <2>1, <2>5 DEF StoreShape
<1>6. CASE NeedsPage(p)
  <2>1. /\ eof < MaxBlock /\ eof' = new
        /\ page' = [b \in Block |->
                      IF b = new THEN NewAdjPage(src, ss)
                      ELSE IF b = r.tail THEN [page[b] EXCEPT !.next = new]
                      ELSE IF b = p[1] THEN
                        [page[b] EXCEPT
                           !.vertices[p[2]].head = IF @ = NoBlock THEN new ELSE @,
                           !.vertices[p[2]].tail = new]
                      ELSE page[b]]
    BY <1>6 DEF AppendSlots, r, new
  <2>2. new \in Block
    <3>1. eof \in Nat /\ MaxBlock \in Nat /\ eof < MaxBlock
      BY <1>1, <2>1, Constants
    <3>2. eof + 1 \in 1..MaxBlock
      BY <3>1
    <3>. QED
      BY <3>2 DEF Block, new
  <2>3. SlotsPaged(page, page', p, RecordAt(page, p).vid, new, ss)
    <3>1. SlotsPaged(page, page', p, src, new, ss)
      BY <2>1 DEF SlotsPaged, Anchored, r, RecordAt, VertexAt
    <3>. QED
      BY <1>1, <3>1 DEF r
  <2>4. /\ Room(p) = EdgeSlotsPerPage
        /\ r.tail # NoBlock => Len(page[r.tail].slots) = EdgeSlotsPerPage
    BY <1>6, RoomLeft DEF r
  <2>5. Shape(page', eof + 1, meta.first, meta.last, meta.nextVid)
    <3>. DEFINE qg == page'
    <3>1. /\ qg \in Pages
          /\ SlotsPaged(page, qg, p, RecordAt(page, p).vid, new, ss)
          /\ Len(ss) \in 1..EdgeSlotsPerPage
          /\ \A i \in DOMAIN ss : ss[i].src = RecordAt(page, p).vid
          /\ RecordAt(page, p).tail # NoBlock =>
               Len(page[RecordAt(page, p).tail].slots) = EdgeSlotsPerPage
      BY <1>1, <1>2, <2>3, <2>4 DEF r
    <3>. HIDE DEF qg
    <3>2. Shape(qg, eof + 1, meta.first, meta.last, meta.nextVid)
      BY <1>1, <2>2, <3>1, ShapeSlotsPaged DEF StoreShape, new
    <3>. QED
      BY <3>2 DEF qg
  <2>. QED
    BY <1>3, <2>1, <2>5 DEF StoreShape, new
<1>. QED
  BY <1>5, <1>6

LEMMA WriteRunShape ==
  ASSUME TypeOK, StoreShape, NEW s \in Sessions, NEW p \in VertexPositions,
         NEW src \in Vid, src = VertexAt(p).vid, NEW t \in EdgeTypes,
         NEW dsts \in Seq(Vid), dsts # <<>>, WriteRun(s, p, src, t, dsts)
  PROVE  StoreShape' /\ (op.name = "edges" => op.rest # <<>>)'
<1>. DEFINE n     == IF Len(dsts) <= Room(p) THEN Len(dsts) ELSE Room(p)
            chunk == [i \in 1..n |-> NewSlot(src, dsts[i], t, xid[s])]
            rest  == SubSeq(dsts, n + 1, Len(dsts))
<1>1. n \in 0..Len(dsts) /\ chunk \in Seq(EdgeSlot)
  BY WriteRunChunk
<1>2. Room(p) \in Nat /\ Room(p) > 0 /\ Len(dsts) \in Nat /\ Len(dsts) > 0
  <2>1. \A k \in 1..EdgeSlotsPerPage : k \in Nat /\ k > 0
    BY PageSizeAssumption
  <2>2. Room(p) \in 1..EdgeSlotsPerPage
    BY RoomLeft
  <2>3. Len(dsts) \in Nat /\ Len(dsts) # 0
    BY LenProperties, EmptySeq
  <2>. QED
    BY <2>1, <2>2, <2>3
<1>3. /\ AppendSlots(p, src, chunk)
      /\ op' = IF n = Len(dsts) THEN Idle
               ELSE [name |-> "edges", src |-> src, type |-> t, rest |-> rest]
  BY DEF WriteRun
<1>4. n \in Nat /\ n \in 1..Room(p)
  BY <1>2
<1>5. Len(chunk) \in 1..Room(p) /\ DOMAIN chunk = 1..n
  <2>. HIDE DEF n
  <2>1. DOMAIN chunk = 1..n
    OBVIOUS
  <2>2. Len(chunk) \in Nat /\ DOMAIN chunk = 1..Len(chunk)
    BY <1>1, LenProperties
  <2>. HIDE DEF chunk
  <2>3. Len(chunk) = n
    <3>. DEFINE k == Len(chunk)
    <3>. HIDE DEF k
    <3>1. k \in Nat /\ 1..k = 1..n
      BY <2>1, <2>2 DEF k
    <3>2. k = n
      BY <1>4, <3>1
    <3>. QED
      BY <3>2 DEF k
  <2>. QED
    BY <1>4, <2>1, <2>3
<1>6. \A i \in DOMAIN chunk : chunk[i].src = src
  <2>. HIDE DEF n
  <2>. QED
    BY <1>5 DEF NewSlot
<1>7. StoreShape'
  <2>. HIDE DEF chunk
  <2>. QED
    BY <1>1, <1>3, <1>5, <1>6, AppendSlotsShape
<1>8. n # Len(dsts) => rest # <<>>
  <2>. SUFFICES ASSUME n # Len(dsts) PROVE rest # <<>>
    OBVIOUS
  <2>. HIDE DEF n
  <2>1. \A i \in 1..Len(dsts) : dsts[i] \in Vid
    BY ElementOfSeq
  <2>2. n + 1 \in Nat /\ n + 1 <= Len(dsts) /\ n + 1 \in 1..Len(dsts)
    BY <1>1, <1>2, <1>4
  <2>3. Len(rest) = (Len(dsts) - (n + 1)) + 1
    <3>1. \A i \in (n + 1)..Len(dsts) : dsts[i] \in Vid
      BY <1>2, <1>4, <2>1
    <3>. QED
      BY <1>2, <2>2, <3>1, SubSeqProperties
  <2>4. Len(rest) # 0
    <3>. HIDE DEF rest
    <3>. QED
      BY <1>2, <2>2, <2>3
  <2>5. Len(<<>>) = 0
    OBVIOUS
  <2>. HIDE DEF rest
  <2>. QED
    BY <2>4, <2>5
<1>9. (op.name = "edges" => op.rest # <<>>)'
  <2>1. CASE n = Len(dsts)
    BY <1>3, <2>1 DEF Idle
  <2>2. CASE n # Len(dsts)
    <3>1. op'.rest = rest
      BY <1>3, <2>2
    <3>. QED
      BY <1>8, <2>2, <3>1
  <2>. QED
    BY <2>1, <2>2
<1>. QED
  BY <1>7, <1>9

LEMMA InsertEdgesShape ==
  ASSUME ChainInv, NEW s \in Sessions,
         \/ \E src, dst \in Vid, t \in EdgeTypes : InsertEdge(s, src, dst, t)
         \/ \E src \in Vid, dsts \in Seq(Vid), t \in EdgeTypes :
              InsertEdges(s, src, dsts, t)
         \/ ContinueInsertEdges(s)
  PROVE  StoreShape' /\ (op.name = "edges" => op.rest # <<>>)'
<1>1. TypeOK /\ StoreShape
  BY DEF ChainInv
<1>2. ASSUME NEW src \in Vid, NEW dst \in Vid, NEW t \in EdgeTypes,
             InsertEdge(s, src, dst, t)
      PROVE  StoreShape' /\ (op.name = "edges" => op.rest # <<>>)'
  <2>. DEFINE slot == NewSlot(src, dst, t, xid[s])
  <2>1. PICK p \in Located(xid[s], src) : AppendSlots(p, src, <<slot>>)
    BY <1>2 DEF InsertEdge
  <2>2. p \in VertexPositions /\ VertexAt(p).vid = src
    BY DEF Located, LivePositions
  <2>3. slot \in EdgeSlot /\ slot.src = src
    BY <1>1, Constants DEF TypeOK, NewSlot, EdgeSlot, StoredXid
  <2>. HIDE DEF slot
  <2>4. /\ <<slot>> \in Seq(EdgeSlot) /\ Len(<<slot>>) = 1
        /\ \A i \in DOMAIN <<slot>> : <<slot>>[i].src = src
    BY <2>3
  <2>5. 1 \in 1..Room(p)
    <3>1. \A k \in 1..EdgeSlotsPerPage : 1 \in 1..k
      BY PageSizeAssumption
    <3>. QED
      BY <1>1, <2>2, <3>1, RoomLeft
  <2>6. StoreShape'
    BY <1>1, <2>1, <2>2, <2>4, <2>5, AppendSlotsShape
  <2>. QED
    BY <1>2, <2>6 DEF InsertEdge, ChainInv
<1>3. ASSUME NEW src \in Vid, NEW dsts \in Seq(Vid), NEW t \in EdgeTypes,
             InsertEdges(s, src, dsts, t)
      PROVE  StoreShape' /\ (op.name = "edges" => op.rest # <<>>)'
  <2>1. PICK p \in DenseLocated(xid[s], src) : WriteRun(s, p, src, t, dsts)
    BY <1>3 DEF InsertEdges
  <2>2. p \in VertexPositions /\ VertexAt(p).vid = src
    BY DEF DenseLocated, DenseVerified
  <2>3. dsts # <<>>
    BY <1>3 DEF InsertEdges
  <2>. QED
    BY <1>1, <2>1, <2>2, <2>3, WriteRunShape
<1>4. ASSUME ContinueInsertEdges(s)
      PROVE  StoreShape' /\ (op.name = "edges" => op.rest # <<>>)'
  <2>1. PICK p \in VertexPositions :
          /\ VertexAt(p).vid = op.src
          /\ WriteRun(s, p, op.src, op.type, op.rest)
    BY <1>4 DEF ContinueInsertEdges
  <2>2. op \in [name : {"edges"}, src : Vid, type : EdgeTypes, rest : Seq(Vid)]
    BY <1>1, <1>4 DEF ContinueInsertEdges, TypeOK, Operation, Idle
  <2>3. /\ op.src \in Vid /\ op.type \in EdgeTypes /\ op.rest \in Seq(Vid)
        /\ op.rest # <<>>
    BY <2>2 DEF ChainInv
  <2>. QED
    BY <1>1, <2>1, <2>3, WriteRunShape
<1>. QED
  BY <1>2, <1>3, <1>4

LEMMA InsertVertexShape ==
  ASSUME ChainInv, NEW s \in Sessions, InsertVertex(s)
  PROVE  /\ StoreShape' /\ (op.name = "edges" => op.rest # <<>>)'
         /\ RecordAdded(page, page', NewVertex(meta.nextVid, xid[s]))
<1>. DEFINE v    == meta.nextVid
            last == meta.last
            vr   == NewVertex(v, xid[s])
            new  == eof + 1
            room == last # NoBlock /\ Len(page[last].vertices) < VerticesPerPage
<1>1. /\ TypeOK /\ page \in Pages /\ eof \in Nat /\ meta \in Meta
      /\ last \in Link /\ v \in Nat /\ v \in Vid
      /\ Shape(page, eof, meta.first, last, v)
  <2>1. TypeOK /\ StoreShape /\ v < MaxVid
    BY DEF ChainInv, InsertVertex
  <2>2. v \in Nat
    BY <2>1, StorePages
  <2>3. v \in Vid
    BY <2>1, <2>2, Constants DEF Vid
  <2>. QED
    BY <2>1, <2>3, StorePages DEF StoreShape
<1>2. /\ vr \in VertexRecord /\ vr.vid = v
      /\ vr.head = NoBlock /\ vr.tail = NoBlock
  <2>1. xid[s] \in StoredXid
    BY <1>1 DEF TypeOK, StoredXid
  <2>. QED
    BY <1>1, <2>1 DEF NewVertex, VertexRecord, Link, StoredXid
<1>3. TypeOK' /\ page' \in Pages
  <2>1. TypeOK'
    BY <1>1, InsertVertexType
  <2>. QED
    BY <2>1 DEF TypeOK, Pages
<1>4. (op.name = "edges" => op.rest # <<>>)'
  BY DEF InsertVertex, ChainInv
<1>. HIDE DEF vr, new
<1>5. CASE room
  <2>1. /\ page' = [page EXCEPT ![last].vertices = Append(@, vr)]
        /\ meta' = [meta EXCEPT !.nextVid = v + 1, !.vertexCount = @ + 1]
        /\ eof' = eof
    BY <1>5 DEF InsertVertex, vr
  <2>2. meta'.first = meta.first /\ meta'.last = last /\ meta'.nextVid = v + 1
    BY <1>1, <2>1 DEF Meta
  <2>3. last \in Block
    BY <1>1, <1>5 DEF Link
  <2>4. Shape(page', eof, meta.first, last, v + 1) /\ RecordAdded(page, page', vr)
    <3>. DEFINE qg == page'
                n  == v
                l  == last
    <3>1. /\ qg \in Pages /\ qg = [page EXCEPT ![l].vertices = Append(@, vr)]
          /\ l \in Block /\ Len(page[l].vertices) < VerticesPerPage
          /\ n \in Nat /\ vr.vid = n /\ Shape(page, eof, meta.first, l, n)
      BY <1>1, <1>2, <1>3, <1>5, <2>1, <2>3
    <3>. HIDE DEF qg, n, l
    <3>2. Shape(qg, eof, meta.first, l, n + 1) /\ RecordAdded(page, qg, vr)
      BY <1>1, <1>2, <3>1, ShapeVertexAppended
    <3>. QED
      BY <3>2 DEF qg, n, l
  <2>. QED
    BY <1>4, <2>1, <2>2, <2>4 DEF StoreShape, vr
<1>6. CASE ~room
  <2>1. /\ eof < MaxBlock /\ eof' = new
        /\ page' = [b \in Block |->
                      IF b = new THEN NewVertexPage(vr)
                      ELSE IF b = last THEN [page[b] EXCEPT !.next = new]
                      ELSE page[b]]
        /\ meta' = [meta EXCEPT
                      !.nextVid = v + 1, !.vertexCount = @ + 1,
                      !.first = IF last = NoBlock THEN new ELSE @,
                      !.last = new]
    BY <1>6 DEF InsertVertex, vr, new
  <2>2. /\ meta'.first = IF last = NoBlock THEN new ELSE meta.first
        /\ meta'.last = new /\ meta'.nextVid = v + 1
    BY <1>1, <2>1 DEF Meta
  <2>3. new \in Block
    <3>1. eof + 1 \in 1..MaxBlock
      BY <1>1, <2>1, Constants
    <3>. QED
      BY <3>1 DEF Block, new
  <2>4. last # NoBlock => Len(page[last].vertices) = VerticesPerPage
    <3>. SUFFICES ASSUME last # NoBlock
                  PROVE  Len(page[last].vertices) = VerticesPerPage
      OBVIOUS
    <3>1. Len(page[last].vertices) \in 1..VerticesPerPage
      BY <1>1 DEF Shape, VertexShape, IsChain
    <3>2. ~(Len(page[last].vertices) < VerticesPerPage)
      BY <1>6
    <3>. DEFINE k == Len(page[last].vertices)
    <3>. HIDE DEF k
    <3>3. k \in 1..VerticesPerPage /\ ~(k < VerticesPerPage)
      BY <3>1, <3>2 DEF k
    <3>4. k = VerticesPerPage
      BY <3>3, PageSizeAssumption
    <3>. QED
      BY <3>4 DEF k
  <2>5. /\ Shape(page', eof + 1, IF last = NoBlock THEN new ELSE meta.first, new, v + 1)
        /\ RecordAdded(page, page', vr)
    <3>. DEFINE qg == page'
                n  == v
                l  == last
    <3>1. /\ qg \in Pages
          /\ qg = [b \in Block |->
                     IF b = new THEN NewVertexPage(vr)
                     ELSE IF b = l THEN [page[b] EXCEPT !.next = new]
                     ELSE page[b]]
      BY <1>3, <2>1
    <3>2. /\ l # NoBlock => Len(page[l].vertices) = VerticesPerPage
          /\ n \in Nat /\ vr.vid = n /\ Shape(page, eof, meta.first, l, n)
          /\ new = eof + 1
      BY <1>1, <1>2, <2>4 DEF new
    <3>. HIDE DEF qg, n, l
    <3>3. /\ Shape(qg, eof + 1, IF l = NoBlock THEN new ELSE meta.first, new, n + 1)
          /\ RecordAdded(page, qg, vr)
      BY <1>1, <1>2, <2>3, <3>1, <3>2, ShapeVertexPaged
    <3>. QED
      BY <3>3 DEF qg, n, l
  <2>. QED
    BY <1>4, <2>1, <2>2, <2>5 DEF StoreShape, new, vr
<1>. QED
  BY <1>5, <1>6

\* The two ways a record of the log rewrites a page that it does not extend:
\* its slots in place, or its vertices in place.
WithSlots(pg, b, ss) == [pg EXCEPT ![b] = [pg[b] EXCEPT !.slots = ss]]

WithVertices(pg, b, vs) == [pg EXCEPT ![b] = [pg[b] EXCEPT !.vertices = vs]]

LEMMA SlotsRewritten ==
  ASSUME NEW pg \in Pages, NEW qg \in Pages, NEW e, NEW first, NEW last, NEW n,
         Shape(pg, e, first, last, n), NEW b \in Block, NEW ss \in Seq(EdgeSlot),
         qg = WithSlots(pg, b, ss),
         DOMAIN ss = DOMAIN pg[b].slots,
         \A i \in DOMAIN ss : ss[i].src = pg[b].slots[i].src
  PROVE  Shape(qg, e, first, last, n)
<1>1. /\ qg[b].kind = pg[b].kind /\ qg[b].next = pg[b].next
      /\ qg[b].owner = pg[b].owner /\ qg[b].vertices = pg[b].vertices
      /\ qg[b].slots = ss
  <2>1. pg[b] \in Page /\ qg[b] = [pg[b] EXCEPT !.slots = ss]
    BY DEF Pages, WithSlots
  <2>. QED
    BY <2>1 DEF Page
<1>2. \A c \in Block : c # b => qg[c] = pg[c]
  BY DEF Pages, WithSlots
<1>3. \A c \in Block :
        /\ qg[c].kind = pg[c].kind /\ qg[c].next = pg[c].next
        /\ qg[c].owner = pg[c].owner
        /\ DOMAIN qg[c].vertices = DOMAIN pg[c].vertices
        /\ DOMAIN qg[c].slots = DOMAIN pg[c].slots
  BY <1>1, <1>2
<1>4. \A c \in Block : \A i \in DOMAIN pg[c].vertices :
        /\ qg[c].vertices[i].vid = pg[c].vertices[i].vid
        /\ qg[c].vertices[i].head = pg[c].vertices[i].head
        /\ qg[c].vertices[i].tail = pg[c].vertices[i].tail
  BY <1>1, <1>2
<1>5. \A c \in Block : \A i \in DOMAIN pg[c].slots :
        qg[c].slots[i].src = pg[c].slots[i].src
  BY <1>1, <1>2
<1>. QED
  BY <1>3, <1>4, <1>5, ShapeKept

LEMMA VerticesRewritten ==
  ASSUME NEW pg \in Pages, NEW qg \in Pages, NEW e, NEW first, NEW last, NEW n,
         Shape(pg, e, first, last, n), NEW b \in Block, NEW vs \in Seq(VertexRecord),
         qg = WithVertices(pg, b, vs),
         DOMAIN vs = DOMAIN pg[b].vertices,
         \A i \in DOMAIN vs :
           /\ vs[i].vid = pg[b].vertices[i].vid
           /\ vs[i].head = pg[b].vertices[i].head
           /\ vs[i].tail = pg[b].vertices[i].tail
  PROVE  Shape(qg, e, first, last, n)
<1>1. /\ qg[b].kind = pg[b].kind /\ qg[b].next = pg[b].next
      /\ qg[b].owner = pg[b].owner /\ qg[b].slots = pg[b].slots
      /\ qg[b].vertices = vs
  <2>1. pg[b] \in Page /\ qg[b] = [pg[b] EXCEPT !.vertices = vs]
    BY DEF Pages, WithVertices
  <2>. QED
    BY <2>1 DEF Page
<1>2. \A c \in Block : c # b => qg[c] = pg[c]
  BY DEF Pages, WithVertices
<1>3. \A c \in Block :
        /\ qg[c].kind = pg[c].kind /\ qg[c].next = pg[c].next
        /\ qg[c].owner = pg[c].owner
        /\ DOMAIN qg[c].vertices = DOMAIN pg[c].vertices
        /\ DOMAIN qg[c].slots = DOMAIN pg[c].slots
  BY <1>1, <1>2
<1>4. \A c \in Block : \A i \in DOMAIN pg[c].vertices :
        /\ qg[c].vertices[i].vid = pg[c].vertices[i].vid
        /\ qg[c].vertices[i].head = pg[c].vertices[i].head
        /\ qg[c].vertices[i].tail = pg[c].vertices[i].tail
  BY <1>1, <1>2
<1>5. \A c \in Block : \A i \in DOMAIN pg[c].slots :
        qg[c].slots[i].src = pg[c].slots[i].src
  BY <1>1, <1>2
<1>. QED
  BY <1>3, <1>4, <1>5, ShapeKept

\* The slots of a page after a sweep by x.
SlotsMarked(x, ss, dst, t) == [i \in DOMAIN ss |-> TombstoneSlot(x, ss[i], dst, t)]

LEMMA SlotsKept ==
  ASSUME NEW ss \in Seq(EdgeSlot), NEW x \in StoredXid, NEW dst, NEW t
  PROVE  /\ SlotsMarked(x, ss, dst, t) \in Seq(EdgeSlot)
         /\ DOMAIN SlotsMarked(x, ss, dst, t) = DOMAIN ss
         /\ \A i \in DOMAIN ss : SlotsMarked(x, ss, dst, t)[i].src = ss[i].src
<1>1. \A i \in DOMAIN ss : ss[i] \in EdgeSlot
  BY LenProperties, ElementOfSeq
<1>2. \A i \in DOMAIN ss : TombstoneSlot(x, ss[i], dst, t).src = ss[i].src
  BY <1>1 DEF TombstoneSlot, EdgeSlot
<1>3. SlotsMarked(x, ss, dst, t) \in Seq(EdgeSlot)
  BY TombstonedType DEF SlotsMarked
<1>. QED
  BY <1>2, <1>3 DEF SlotsMarked

LEMMA TombstoneShape ==
  ASSUME ChainInv, NEW s \in Sessions,
         TombstoneSome(s) \/ TombstoneAdjacency(s)
  PROVE  StoreShape' /\ (op.name = "edges" => op.rest # <<>>)'
<1>1. /\ TypeOK /\ StoreShape /\ page \in Pages /\ xid[s] \in StoredXid
      /\ TypeOK' /\ page' \in Pages
  <2>1. TypeOK /\ TypeOK'
    BY TombstoneType DEF ChainInv
  <2>2. xid[s] \in StoredXid
    BY <2>1 DEF TypeOK, StoredXid
  <2>. QED
    BY <2>1, <2>2 DEF ChainInv, TypeOK, Pages
<1>2. ASSUME NEW src \in Vid, NEW dst \in Vid, NEW t \in EdgeTypes \cup {AnyType},
             TombstoneEdge(s, src, dst, t)
      PROVE  StoreShape' /\ (op.name = "edges" => op.rest # <<>>)'
  BY <1>1, <1>2 DEF TombstoneEdge, store, StoreShape
<1>3. ASSUME NEW v \in Vid, TombstoneVertex(s, v)
      PROVE  StoreShape' /\ (op.name = "edges" => op.rest # <<>>)'
  <2>1. PICK p \in VertexPositions :
          /\ page' = [page EXCEPT ![p[1]] = TombstonedPage(p, xid[s])]
          /\ op' = [name |-> "tombstone", blk |-> VertexAt(p).head,
                    dst |-> AnyVid, type |-> AnyType]
    BY <1>1, <1>3, TombstoneVertexPage
  <2>2. /\ p[1] \in Block /\ p[2] \in DOMAIN page[p[1]].vertices
        /\ VertexAt(p) \in VertexRecord
    BY <1>1, PositionType DEF TypeOK
  <2>. DEFINE b  == p[1]
              i  == p[2]
              r  == VertexAt(p)
              q  == [r EXCEPT !.deleted = TRUE, !.xmax = xid[s]]
              vs == [page[b].vertices EXCEPT ![i] = q]
  <2>3. page' = [page EXCEPT ![b] = [page[b] EXCEPT !.vertices = vs]]
    BY <2>1 DEF TombstonedPage
  <2>4. /\ q \in VertexRecord
        /\ q.vid = r.vid /\ q.head = r.head /\ q.tail = r.tail
    BY <1>1, <2>2 DEF VertexRecord
  <2>5. r = page[b].vertices[i]
    BY DEF VertexAt
  <2>. HIDE DEF q, r
  <2>6. page[b].vertices \in Seq(VertexRecord)
    BY <1>1, <2>2 DEF Pages, Page
  <2>7. /\ DOMAIN vs = DOMAIN page[b].vertices
        /\ \A j \in DOMAIN vs :
             /\ vs[j].vid = page[b].vertices[j].vid
             /\ vs[j].head = page[b].vertices[j].head
             /\ vs[j].tail = page[b].vertices[j].tail
    BY <2>2, <2>4, <2>5
  <2>8. vs \in Seq(VertexRecord)
    <3>1. DOMAIN page[b].vertices = 1..Len(page[b].vertices)
      BY <2>6, LenProperties
    <3>. QED
      BY <2>2, <2>4, <2>6, <3>1, ExceptSeq
  <2>9. Shape(page', eof, meta.first, meta.last, meta.nextVid)
    <3>. DEFINE qg == page'
    <3>. HIDE DEF vs, b, qg
    <3>1. b \in Block /\ qg \in Pages
      BY <1>1, <2>2 DEF b, qg
    <3>2. qg = WithVertices(page, b, vs)
      BY <2>3 DEF qg, WithVertices
    <3>3. Shape(qg, eof, meta.first, meta.last, meta.nextVid)
      BY <1>1, <2>7, <2>8, <3>1, <3>2, VerticesRewritten DEF StoreShape
    <3>. QED
      BY <3>3 DEF qg
  <2>10. op'.name = "tombstone" /\ UNCHANGED <<meta, eof>>
    BY <1>3, <2>1 DEF TombstoneVertex
  <2>. QED
    BY <2>9, <2>10 DEF StoreShape
<1>4. ASSUME TombstoneAdjacency(s)
      PROVE  StoreShape' /\ (op.name = "edges" => op.rest # <<>>)'
  <2>1. /\ op \in [name : {"tombstone"}, blk : Link, dst : Vid \cup {AnyVid},
                   type : EdgeTypes \cup {AnyType}]
        /\ UNCHANGED <<meta, eof>>
    BY <1>1, <1>4 DEF TombstoneAdjacency, TypeOK, Operation, Idle
  <2>2. CASE op.blk = NoBlock
    BY <1>1, <1>4, <2>2 DEF TombstoneAdjacency, StoreShape, Idle
  <2>3. CASE op.blk # NoBlock
    <3>. DEFINE b  == op.blk
                qg == page'
                ss == [i \in DOMAIN page[b].slots |->
                         TombstoneSlot(xid[s], page[b].slots[i], op.dst, op.type)]
    <3>1. b \in Block
      BY <2>1, <2>3 DEF Link
    <3>2. page[b].slots \in Seq(EdgeSlot)
      BY <1>1, <3>1 DEF Pages, Page
    <3>3. /\ ss \in Seq(EdgeSlot) /\ DOMAIN ss = DOMAIN page[b].slots
          /\ \A i \in DOMAIN ss : ss[i].src = page[b].slots[i].src
      <4>1. ss = SlotsMarked(xid[s], page[b].slots, op.dst, op.type)
        BY DEF SlotsMarked
      <4>. HIDE DEF ss, b
      <4>. QED
        BY <1>1, <3>2, <4>1, SlotsKept
    <3>4. qg = WithSlots(page, b, ss) /\ qg \in Pages
      BY <1>1, <1>4, <2>3 DEF TombstoneAdjacency, WithSlots
    <3>5. op'.name = "tombstone"
      BY <1>4, <2>1, <2>3 DEF TombstoneAdjacency
    <3>. HIDE DEF ss, b, qg
    <3>6. Shape(qg, eof, meta.first, meta.last, meta.nextVid)
      BY <1>1, <3>1, <3>3, <3>4, SlotsRewritten DEF StoreShape
    <3>. QED
      BY <2>1, <3>5, <3>6 DEF StoreShape, qg
  <2>. QED
    BY <2>2, <2>3
<1>. QED
  BY <1>2, <1>3, <1>4 DEF TombstoneSome

LEMMA FreezeShape ==
  ASSUME ChainInv, NEW s \in Sessions,
         (\E horizon \in NormalXid : FreezeBegin(s, horizon)) \/ FreezeStep(s)
  PROVE  StoreShape' /\ (op.name = "edges" => op.rest # <<>>)'
<1>1. /\ TypeOK /\ StoreShape /\ page \in Pages /\ page' \in Pages
      /\ meta \in Meta /\ meta' \in Meta
  <2>1. TypeOK /\ TypeOK'
    BY FreezeType DEF ChainInv
  <2>. QED
    BY <2>1 DEF ChainInv, TypeOK, Pages
<1>2. ASSUME NEW horizon \in NormalXid, FreezeBegin(s, horizon)
      PROVE  StoreShape' /\ (op.name = "edges" => op.rest # <<>>)'
  BY <1>1, <1>2 DEF FreezeBegin, store, StoreShape
<1>3. ASSUME Freezing(s)
      PROVE  op \in [name : {"freeze"}, horizon : NormalXid, vblk : Link,
                     ablk : Link, heads : Seq(Link)]
  BY <1>1, <1>3 DEF Freezing, TypeOK, Operation, Idle
<1>4. CASE FreezeVertexPage(s)
  <2>. DEFINE b  == op.vblk
              qg == page'
              vs == FreezeRecords(page[b].vertices, op.horizon)
  <2>1. b \in Block /\ op'.name = "freeze" /\ UNCHANGED <<meta, eof>>
    BY <1>3, <1>4 DEF FreezeVertexPage, Link
  <2>2. page[b].vertices \in Seq(VertexRecord)
    BY <1>1, <2>1 DEF Pages, Page
  <2>3. vs \in Seq(VertexRecord) /\ DOMAIN vs = DOMAIN page[b].vertices
    BY <2>2, FreezeVerticesType
  <2>4. \A i \in DOMAIN vs : /\ vs[i].vid = page[b].vertices[i].vid
                             /\ vs[i].head = page[b].vertices[i].head
                             /\ vs[i].tail = page[b].vertices[i].tail
    <3>1. \A i \in DOMAIN page[b].vertices : page[b].vertices[i] \in VertexRecord
      BY <2>2, LenProperties, ElementOfSeq
    <3>. QED
      BY <2>3, <3>1, FreezeVertexType DEF FreezeRecords
  <2>5. qg = WithVertices(page, b, vs) /\ qg \in Pages
    BY <1>1, <1>4 DEF FreezeVertexPage, WithVertices
  <2>. HIDE DEF vs, b, qg
  <2>6. Shape(qg, eof, meta.first, meta.last, meta.nextVid)
    BY <1>1, <2>1, <2>3, <2>4, <2>5, VerticesRewritten DEF StoreShape
  <2>. QED
    BY <2>1, <2>6 DEF StoreShape, qg
<1>5. CASE FreezeAdjPage(s)
  <2>. DEFINE b  == op.ablk
              qg == page'
              ss == FreezeRecords(page[b].slots, op.horizon)
  <2>1. b \in Block /\ op'.name = "freeze" /\ UNCHANGED <<meta, eof>>
    BY <1>3, <1>5 DEF FreezeAdjPage, Link
  <2>2. page[b].slots \in Seq(EdgeSlot)
    BY <1>1, <2>1 DEF Pages, Page
  <2>3. ss \in Seq(EdgeSlot) /\ DOMAIN ss = DOMAIN page[b].slots
    BY <2>2, FreezeSlotsType
  <2>4. \A i \in DOMAIN ss : ss[i].src = page[b].slots[i].src
    <3>1. \A i \in DOMAIN page[b].slots : page[b].slots[i] \in EdgeSlot
      BY <2>2, LenProperties, ElementOfSeq
    <3>. QED
      BY <2>3, <3>1, FreezeSlotType DEF FreezeRecords
  <2>5. qg = WithSlots(page, b, ss) /\ qg \in Pages
    BY <1>1, <1>5 DEF FreezeAdjPage, WithSlots
  <2>. HIDE DEF ss, b, qg
  <2>6. Shape(qg, eof, meta.first, meta.last, meta.nextVid)
    BY <1>1, <2>1, <2>3, <2>4, <2>5, SlotsRewritten DEF StoreShape
  <2>. QED
    BY <2>1, <2>6 DEF StoreShape, qg
<1>6. CASE FreezeDescend(s)
  <2>1. op'.name = "freeze" /\ UNCHANGED <<meta, page, eof>>
    BY <1>3, <1>6 DEF FreezeDescend, store
  <2>. QED
    BY <1>1, <2>1 DEF StoreShape
<1>7. CASE FreezeRecordHorizon(s)
  <2>1. /\ op'.name = "relstats" /\ UNCHANGED <<page, eof>>
        /\ meta' = [meta EXCEPT !.frozenHorizon = op.horizon]
    BY <1>7 DEF FreezeRecordHorizon
  <2>2. /\ meta'.first = meta.first /\ meta'.last = meta.last
        /\ meta'.nextVid = meta.nextVid
    BY <1>1, <2>1 DEF Meta
  <2>. QED
    BY <1>1, <2>1, <2>2 DEF StoreShape
<1>8. CASE FreezeRelstats(s)
  BY <1>1, <1>8 DEF FreezeRelstats, StoreShape, Idle
<1>. QED
  BY <1>2, <1>4, <1>5, <1>6, <1>7, <1>8 DEF FreezeStep

LEMMA TransactionShape ==
  ASSUME ChainInv, NEW s \in Sessions,
         \/ AssignXid(s)
         \/ AcquireWriterLock(s)
         \/ Commit(s)
         \/ Abort(s)
         \/ AbortExtended(s)
  PROVE  StoreShape' /\ (op.name = "edges" => op.rest # <<>>)'
<1>1. TypeOK /\ StoreShape /\ page \in Pages /\ eof \in Nat
  BY StorePages DEF ChainInv
<1>2. CASE AssignXid(s) \/ AcquireWriterLock(s) \/ Commit(s)
  <2>1. UNCHANGED <<meta, page, eof, op>>
    BY <1>2 DEF AssignXid, AcquireWriterLock, Commit, store
  <2>. QED
    BY <1>1, <2>1 DEF ChainInv, StoreShape
<1>3. CASE Abort(s)
  <2>1. UNCHANGED <<meta, page, eof>> /\ (op' = Idle \/ op' = op)
    BY <1>3 DEF Abort, store
  <2>. QED
    BY <1>1, <2>1 DEF ChainInv, StoreShape, Idle
<1>4. CASE AbortExtended(s)
  <2>1. UNCHANGED <<meta, page>> /\ op' = Idle /\ eof' = eof + 1
    BY <1>4 DEF AbortExtended
  <2>2. Shape(page, eof + 1, meta.first, meta.last, meta.nextVid)
    BY <1>1, ShapeLonger DEF StoreShape
  <2>. QED
    BY <2>1, <2>2 DEF StoreShape, Idle
<1>. QED
  BY <1>2, <1>3, <1>4

LEMMA NextChains == ChainInv /\ [Next]_vars => ChainInv'
<1>. SUFFICES ASSUME ChainInv, [Next]_vars PROVE ChainInv'
  OBVIOUS
<1>1. TypeOK'
  BY NextType DEF ChainInv
<1>2. CASE UNCHANGED vars
  BY <1>1, <1>2 DEF ChainInv, StoreShape, vars
<1>3. ASSUME NEW s \in Sessions, Session(s)
      PROVE  StoreShape' /\ (op.name = "edges" => op.rest # <<>>)'
  BY <1>3, BatchType, TransactionShape, InsertVertexShape, InsertEdgesShape, TombstoneShape,
     FreezeShape DEF Session, InsertSome, ContinueOperation
<1>. QED
  BY <1>1, <1>2, <1>3 DEF Next, ChainInv

-----------------------------------------------------------------------------
(* The properties.                                                         *)

LEMMA OneRecordPerVid ==
  ASSUME TypeOK, StoreShape, NEW v \in 0..(meta.nextVid - 1)
  PROVE  Cardinality({p \in VertexPositions : VertexAt(p).vid = v}) = 1
<1>1. /\ VertexPositions = Positions(page)
      /\ \A p : VertexAt(p) = RecordAt(page, p)
      /\ VidsOnce(page, meta.nextVid)
  BY StorePages DEF StoreShape, Shape
<1>2. PICK p \in Positions(page) : RecordAt(page, p).vid = v
  BY <1>1 DEF VidsOnce
<1>3. {q \in VertexPositions : VertexAt(q).vid = v} = {p}
  BY <1>1, <1>2 DEF VidsOnce
<1>. QED
  BY <1>3, FS_Singleton

LEMMA ShapeIsWellFormed == ChainInv => ChainsWellFormed
<1>. SUFFICES ASSUME ChainInv PROVE ChainsWellFormed
  OBVIOUS
<1>1. /\ TypeOK /\ StoreShape
      /\ VertexPositions = Positions(page)
      /\ \A p : VertexAt(p) = RecordAt(page, p)
      /\ VertexShape(page, meta.first, meta.last) /\ AdjacencyShape(page)
  BY StorePages DEF ChainInv, StoreShape, Shape
<1>2. \A b : ChainFrom(b) = Walk(Nexts(page), b)
  BY DEF ChainFrom, NextBlock, Nexts
<1>3. \A b \in Block : Nexts(page)[b] = page[b].next
  BY DEF Nexts
<1>4. \A S, first, last : IsChain(Nexts(page), S, first, last) =>
        /\ ChainFrom(first) = S
        /\ {b \in S : page[b].next = NoBlock} = {last} \ {NoBlock}
  BY <1>2, <1>3 DEF IsChain
<1>5. VertexChainWellFormed
  <2>1. /\ ChainFrom(meta.first) = VertexPages(page)
        /\ {b \in VertexPages(page) : page[b].next = NoBlock} = {meta.last} \ {NoBlock}
    BY <1>1, <1>4 DEF VertexShape
  <2>2. \A b \in VertexPages(page) :
          /\ Len(page[b].vertices) \in 1..VerticesPerPage
          /\ b # meta.last => Len(page[b].vertices) = VerticesPerPage
    BY <1>1 DEF VertexShape
  <2>3. \A v \in 0..(meta.nextVid - 1) :
          Cardinality({p \in VertexPositions : VertexAt(p).vid = v}) = 1
    BY <1>1, OneRecordPerVid
  <2>. QED
    BY <2>1, <2>2, <2>3 DEF VertexChainWellFormed, VertexPages
<1>6. ASSUME NEW p \in VertexPositions
      PROVE  LET vr    == VertexAt(p)
                 pages == {b \in Block : page[b].kind = "adj" /\ page[b].owner = vr.vid}
             IN
             /\ ChainFrom(vr.head) = pages
             /\ {b \in pages : page[b].next = NoBlock} = {vr.tail} \ {NoBlock}
             /\ \A b \in pages :
                  /\ Len(page[b].slots) \in 1..EdgeSlotsPerPage
                  /\ b # vr.tail => Len(page[b].slots) = EdgeSlotsPerPage
                  /\ \A i \in DOMAIN page[b].slots : page[b].slots[i].src = vr.vid
  <2>. DEFINE vr == VertexAt(p)
  <2>1. ChainShape(page, vr.vid, vr.head, vr.tail)
    BY <1>1 DEF AdjacencyShape
  <2>. HIDE DEF vr
  <2>2. /\ ChainFrom(vr.head) = OwnedPages(page, vr.vid)
        /\ {b \in OwnedPages(page, vr.vid) : page[b].next = NoBlock}
             = {vr.tail} \ {NoBlock}
    BY <1>4, <2>1 DEF ChainShape
  <2>. QED
    BY <2>1, <2>2 DEF ChainShape, OwnedPages, vr
<1>7. AdjacencyWellFormed
  BY <1>6 DEF AdjacencyWellFormed
<1>. QED
  BY <1>5, <1>7 DEF ChainsWellFormed

\* When the checks of the dense locate accept the place they compute, the
\* record there is the only one with that vid, and the walk reaches its page.
LEMMA ShapeIsDense == ChainInv => DenseIsLinear
<1>. SUFFICES ASSUME ChainInv, NEW v \in Vid, NEW own \in Viewers,
                     DenseInRange(v), DenseVerified(v)
              PROVE  DenseLocated(own, v) = Located(own, v)
  BY DEF DenseIsLinear
<1>. DEFINE d == DensePosition(v)
<1>1. /\ TypeOK
      /\ VertexPositions = Positions(page)
      /\ \A p : VertexAt(p) = RecordAt(page, p)
      /\ VidsOnce(page, meta.nextVid)
  BY StorePages DEF ChainInv, StoreShape, Shape
<1>2. /\ d \in VertexPositions /\ page[d[1]].kind = "vertex"
      /\ VertexAt(d).vid = v
  BY DEF DenseVerified
<1>3. d[1] \in ChainFrom(meta.first)
  <2>1. d[1] \in Block
    BY <1>1, <1>2, PositionType DEF TypeOK
  <2>2. ChainFrom(meta.first) = {b \in Block : page[b].kind = "vertex"}
    BY ShapeIsWellFormed DEF ChainsWellFormed, VertexChainWellFormed
  <2>. QED
    BY <1>2, <2>1, <2>2
<1>4. \A p \in VertexPositions : VertexAt(p).vid = v => p = d
  BY <1>1, <1>2 DEF VidsOnce
<1>. HIDE DEF d
<1>5. Located(own, v) = {p \in {d} : Live(own, VertexAt(p))}
  BY <1>2, <1>3, <1>4 DEF Located, LivePositions
<1>6. DenseLocated(own, v) = {p \in {d} : Live(own, VertexAt(p))}
  BY DEF DenseLocated, d
<1>. QED
  BY <1>5, <1>6

\* The page structure that every walk of the code relies on, for every page
\* size: each chain is whole, its append target is its end, and a vid is the
\* vid of one record (graph_am.c:272-323, 541-697, 738-986, 1163-1347).
THEOREM ChainsStayWellFormed == Spec => []ChainsWellFormed
<1>. QED
  BY InitChains, NextChains, ShapeIsWellFormed, PTL DEF Spec

\* The dense locate, when its checks pass, answers as the linear walk does,
\* whatever pages ended up between the vertex pages (graph_am.c:325-342).
THEOREM DenseLocateIsLinear == Spec => []DenseIsLinear
<1>. QED
  BY InitChains, NextChains, ShapeIsDense, PTL DEF Spec

-----------------------------------------------------------------------------
(* The graph that a session reads.                                         *)

Seen(com, own, x) == x # InvalidXid /\ (x = own \/ (x = FrozenXid \/ x \in com))

Alive(com, own, r) ==
  Seen(com, own, r.xmin) /\ ~(r.deleted /\ Seen(com, own, r.xmax))

\* The graph as the walks of the code read it.
WalkedPositions(pg, first, com, own) ==
  {p \in Positions(pg) :
     p[1] \in Walk(Nexts(pg), first) /\ Alive(com, own, RecordAt(pg, p))}

WalkedGraph(pg, first, com, own) ==
  [vertices |-> {RecordAt(pg, p).vid : p \in WalkedPositions(pg, first, com, own)},
   edges |->
     UNION {
       UNION {
         {[id |-> <<b, i>>, src |-> RecordAt(pg, p).vid,
           dst |-> pg[b].slots[i].dst, type |-> pg[b].slots[i].type] :
             i \in {j \in DOMAIN pg[b].slots : Alive(com, own, pg[b].slots[j])}} :
           b \in Walk(Nexts(pg), RecordAt(pg, p).head)} :
         p \in WalkedPositions(pg, first, com, own)}]

LEMMA NextViewIsWalked ==
  ASSUME NEW own
  PROVE  /\ GraphView(own) = WalkedGraph(page, meta.first, committed, own)
         /\ (GraphView(own))' = WalkedGraph(page', meta'.first, committed', own)
BY DEF GraphView, VertexView, EdgeView, LivePositions, LiveSlots, ChainFrom, NextBlock,
   VertexPositions, VertexAt, Live, DeletedVisible, XminVisible, DidCommit,
   WalkedGraph, WalkedPositions, Nexts, Positions, RecordAt, Alive, Seen

LEMMA ViewIsWalked ==
  /\ GraphView(InvalidXid) = WalkedGraph(page, meta.first, committed, InvalidXid)
  /\ GraphView(InvalidXid)' = WalkedGraph(page', meta'.first, committed', InvalidXid)
  /\ GraphView(WriterXid) = WalkedGraph(page, meta.first, committed, WriterXid)
  /\ GraphView(WriterXid)' = WalkedGraph(page', meta'.first, committed', WriterXid')
BY DEF GraphView, VertexView, EdgeView, LivePositions, LiveSlots, ChainFrom, NextBlock,
   VertexPositions, VertexAt, Live, DeletedVisible, XminVisible, DidCommit,
   WalkedGraph, WalkedPositions, Nexts, Positions, RecordAt, Alive, Seen

\* The same without a walk: on a well formed store every record is on a chain.
AlivePositions(pg, com, own) == {p \in Positions(pg) : Alive(com, own, RecordAt(pg, p))}

Vertices(pg, com, own) == {RecordAt(pg, p).vid : p \in AlivePositions(pg, com, own)}

Slots(pg) == UNION {{<<b, i>> : i \in DOMAIN pg[b].slots} : b \in Block}

SlotAt(pg, q) == pg[q[1]].slots[q[2]]

EdgeOf(pg, q) ==
  [id |-> q, src |-> SlotAt(pg, q).src,
   dst |-> SlotAt(pg, q).dst, type |-> SlotAt(pg, q).type]

AliveSlots(pg, com, own) ==
  {q \in Slots(pg) : /\ Alive(com, own, SlotAt(pg, q))
                     /\ SlotAt(pg, q).src \in Vertices(pg, com, own)}

Edges(pg, com, own) == {EdgeOf(pg, q) : q \in AliveSlots(pg, com, own)}

Graph(pg, com, own) ==
  [vertices |-> Vertices(pg, com, own), edges |-> Edges(pg, com, own)]

LEMMA SlotOf ==
  ASSUME NEW pg, NEW q \in Slots(pg)
  PROVE  q[1] \in Block /\ q[2] \in DOMAIN pg[q[1]].slots /\ q = <<q[1], q[2]>>
BY DEF Slots

LEMMA SlotIn ==
  ASSUME NEW pg, NEW b \in Block, NEW i \in DOMAIN pg[b].slots
  PROVE  /\ <<b, i>> \in Slots(pg)
         /\ SlotAt(pg, <<b, i>>) = pg[b].slots[i]
BY DEF Slots, SlotAt

\* A slot leaves the vertex that owns its page.
LEMMA SlotOwner ==
  ASSUME NEW pg, NEW e, NEW first, NEW last, NEW n,
         Shape(pg, e, first, last, n), NEW q \in Slots(pg)
  PROVE  /\ pg[q[1]].kind = "adj"
         /\ SlotAt(pg, q).src = pg[q[1]].owner
         /\ SlotAt(pg, q).src \in 0..(n - 1)
<1>1. q[1] \in Block /\ q[2] \in DOMAIN pg[q[1]].slots
  BY SlotOf
<1>2. pg[q[1]].kind = "adj"
  BY <1>1 DEF Shape, Extent
<1>3. pg[q[1]].owner \in 0..(n - 1)
  BY <1>1, <1>2 DEF Shape, VidsOnce
<1>4. PICK p \in Positions(pg) : RecordAt(pg, p).vid = pg[q[1]].owner
  BY <1>3 DEF Shape, VidsOnce
<1>5. ChainShape(pg, RecordAt(pg, p).vid, RecordAt(pg, p).head, RecordAt(pg, p).tail)
  BY DEF Shape, AdjacencyShape
<1>6. q[1] \in OwnedPages(pg, RecordAt(pg, p).vid)
  BY <1>1, <1>2, <1>4 DEF OwnedPages
<1>7. pg[q[1]].slots[q[2]].src = RecordAt(pg, p).vid
  BY <1>1, <1>5, <1>6 DEF ChainShape
<1>. QED
  BY <1>2, <1>3, <1>4, <1>7 DEF SlotAt

LEMMA WalkedIsFlat ==
  ASSUME NEW pg, NEW e, NEW first, NEW last, NEW n,
         Shape(pg, e, first, last, n), NEW com, NEW own
  PROVE  WalkedGraph(pg, first, com, own) = Graph(pg, com, own)
<1>1. WalkedPositions(pg, first, com, own) = AlivePositions(pg, com, own)
  <2>1. Walk(Nexts(pg), first) = VertexPages(pg)
    BY DEF Shape, VertexShape, IsChain
  <2>2. ASSUME NEW p \in Positions(pg)
        PROVE  p[1] \in VertexPages(pg)
    <3>1. p[1] \in Block /\ DOMAIN pg[p[1]].vertices # {}
      BY DEF Positions
    <3>. QED
      BY <3>1 DEF Shape, Extent, VertexPages
  <2>. QED
    BY <2>1, <2>2 DEF WalkedPositions, AlivePositions
<1>2. ASSUME NEW p \in Positions(pg)
      PROVE  Walk(Nexts(pg), RecordAt(pg, p).head) = OwnedPages(pg, RecordAt(pg, p).vid)
  BY DEF Shape, AdjacencyShape, ChainShape, IsChain
<1>. DEFINE At(p, b) ==
              {[id |-> <<b, i>>, src |-> RecordAt(pg, p).vid,
                dst |-> pg[b].slots[i].dst, type |-> pg[b].slots[i].type] :
                 i \in {j \in DOMAIN pg[b].slots : Alive(com, own, pg[b].slots[j])}}
            From(p) == UNION {At(p, b) : b \in Walk(Nexts(pg), RecordAt(pg, p).head)}
            all == UNION {From(p) : p \in WalkedPositions(pg, first, com, own)}
<1>3. ASSUME NEW f \in all
      PROVE  f \in Edges(pg, com, own)
  <2>1. PICK p \in AlivePositions(pg, com, own) : f \in From(p)
    BY <1>1
  <2>2. p \in Positions(pg) /\ RecordAt(pg, p).vid \in Vertices(pg, com, own)
    BY <2>1 DEF AlivePositions, Vertices
  <2>3. PICK b \in OwnedPages(pg, RecordAt(pg, p).vid) : f \in At(p, b)
    BY <1>2, <2>1, <2>2
  <2>4. PICK i \in DOMAIN pg[b].slots :
          /\ Alive(com, own, pg[b].slots[i])
          /\ f = [id |-> <<b, i>>, src |-> RecordAt(pg, p).vid,
                  dst |-> pg[b].slots[i].dst, type |-> pg[b].slots[i].type]
    BY <2>3
  <2>. DEFINE q == <<b, i>>
  <2>5. b \in Block /\ pg[b].owner = RecordAt(pg, p).vid
    BY DEF OwnedPages
  <2>6. q \in Slots(pg) /\ SlotAt(pg, q) = pg[b].slots[i] /\ q[1] = b
    BY <2>5, SlotIn
  <2>. HIDE DEF q
  <2>7. SlotAt(pg, q).src = RecordAt(pg, p).vid
    BY <2>5, <2>6, SlotOwner
  <2>8. q \in AliveSlots(pg, com, own)
    BY <2>2, <2>4, <2>6, <2>7 DEF AliveSlots
  <2>9. f = EdgeOf(pg, q)
    BY <2>4, <2>6, <2>7 DEF EdgeOf, q
  <2>. QED
    BY <2>8, <2>9 DEF Edges
<1>4. ASSUME NEW q \in AliveSlots(pg, com, own)
      PROVE  EdgeOf(pg, q) \in all
  <2>. DEFINE b == q[1]
              i == q[2]
  <2>1. /\ q \in Slots(pg) /\ Alive(com, own, SlotAt(pg, q))
        /\ b \in Block /\ i \in DOMAIN pg[b].slots /\ q = <<b, i>>
        /\ SlotAt(pg, q) = pg[b].slots[i]
    BY SlotOf DEF AliveSlots, SlotAt
  <2>2. PICK p \in AlivePositions(pg, com, own) : RecordAt(pg, p).vid = SlotAt(pg, q).src
    BY DEF AliveSlots, Vertices
  <2>3. p \in Positions(pg)
    BY DEF AlivePositions
  <2>4. b \in OwnedPages(pg, RecordAt(pg, p).vid)
    BY <2>1, <2>2, SlotOwner DEF OwnedPages
  <2>5. EdgeOf(pg, q) \in At(p, b)
    <3>1. EdgeOf(pg, q) = [id |-> <<b, i>>, src |-> RecordAt(pg, p).vid,
                           dst |-> pg[b].slots[i].dst, type |-> pg[b].slots[i].type]
      BY <2>1, <2>2 DEF EdgeOf
    <3>. QED
      BY <2>1, <3>1
  <2>. HIDE DEF At
  <2>6. EdgeOf(pg, q) \in From(p)
    BY <1>2, <2>3, <2>4, <2>5
  <2>. HIDE DEF From
  <2>. QED
    BY <1>1, <2>2, <2>6
<1>5. all = Edges(pg, com, own)
  BY <1>3, <1>4 DEF Edges
<1>6. {RecordAt(pg, p).vid : p \in WalkedPositions(pg, first, com, own)} = Vertices(pg, com, own)
  BY <1>1 DEF Vertices
<1>. QED
  BY <1>5, <1>6 DEF WalkedGraph, Graph

\* Two readings of two stores agree if they agree record by record.
LEMMA SameGraph ==
  ASSUME NEW pg, NEW com, NEW own, NEW qg, NEW com2, NEW own2,
         Positions(qg) = Positions(pg), Slots(qg) = Slots(pg),
         \A p \in Positions(pg) :
           /\ RecordAt(qg, p).vid = RecordAt(pg, p).vid
           /\ Alive(com2, own2, RecordAt(qg, p)) <=> Alive(com, own, RecordAt(pg, p)),
         \A q \in Slots(pg) :
           /\ EdgeOf(qg, q) = EdgeOf(pg, q)
           /\ SlotAt(qg, q).src = SlotAt(pg, q).src
           /\ Alive(com2, own2, SlotAt(qg, q)) <=> Alive(com, own, SlotAt(pg, q))
  PROVE  Graph(qg, com2, own2) = Graph(pg, com, own)
<1>1. AlivePositions(qg, com2, own2) = AlivePositions(pg, com, own)
  BY DEF AlivePositions
<1>2. Vertices(qg, com2, own2) = Vertices(pg, com, own)
  <2>1. \A p \in AlivePositions(pg, com, own) : RecordAt(qg, p).vid = RecordAt(pg, p).vid
    BY DEF AlivePositions
  <2>. QED
    BY <1>1, <2>1 DEF Vertices
<1>3. AliveSlots(qg, com2, own2) = AliveSlots(pg, com, own)
  BY <1>2 DEF AliveSlots
<1>4. \A q \in AliveSlots(pg, com, own) : EdgeOf(qg, q) = EdgeOf(pg, q)
  BY DEF AliveSlots
<1>. QED
  BY <1>2, <1>3, <1>4 DEF Graph, Edges

\* A reader to whom each id that is in the store means the same.
LEMMA SameReader ==
  ASSUME NEW com, NEW own, NEW com2, NEW own2,
         \A x \in StampedXids : Seen(com2, own2, x) <=> Seen(com, own, x)
  PROVE  Graph(page, com2, own2) = Graph(page, com, own)
<1>1. ASSUME NEW b \in Block, NEW i \in DOMAIN page[b].vertices
      PROVE  XidsOf(page[b].vertices[i]) \subseteq StampedXids
  BY DEF StampedXids, PageXids, XidsIn
<1>2. ASSUME NEW b \in Block, NEW i \in DOMAIN page[b].slots
      PROVE  XidsOf(page[b].slots[i]) \subseteq StampedXids
  BY DEF StampedXids, PageXids, XidsIn
<1>3. \A r : XidsOf(r) \subseteq StampedXids =>
        (Alive(com2, own2, r) <=> Alive(com, own, r))
  BY DEF XidsOf, Alive
<1>4. \A p \in Positions(page) : XidsOf(RecordAt(page, p)) \subseteq StampedXids
  BY <1>1 DEF Positions, RecordAt
<1>5. \A q \in Slots(page) : XidsOf(SlotAt(page, q)) \subseteq StampedXids
  BY <1>2, SlotOf DEF SlotAt
<1>. QED
  BY <1>3, <1>4, <1>5, SameGraph

-----------------------------------------------------------------------------
(* What each change of the pages does to a graph read from them.           *)

LEMMA EdgeFields ==
  ASSUME NEW pg, NEW q
  PROVE  /\ EdgeOf(pg, q).id = q /\ EdgeOf(pg, q).src = SlotAt(pg, q).src
         /\ EdgeOf(pg, q).dst = SlotAt(pg, q).dst
         /\ EdgeOf(pg, q).type = SlotAt(pg, q).type
BY DEF EdgeOf

LEMMA GraphRecordAdded ==
  ASSUME NEW pg, NEW qg, NEW e, NEW first, NEW last, NEW n \in Nat,
         Shape(pg, e, first, last, n), NEW vr, vr.vid = n,
         RecordAdded(pg, qg, vr), NEW com, NEW own
  PROVE  /\ ~Alive(com, own, vr) => Graph(qg, com, own) = Graph(pg, com, own)
         /\ Alive(com, own, vr) =>
              /\ n \notin Vertices(pg, com, own)
              /\ Vertices(qg, com, own) = Vertices(pg, com, own) \cup {n}
              /\ Edges(qg, com, own) = Edges(pg, com, own)
<1>1. PICK np : /\ np \notin Positions(pg)
                /\ Positions(qg) = Positions(pg) \cup {np}
                /\ RecordAt(qg, np) = vr
  BY DEF RecordAdded
<1>2. \A p \in Positions(pg) : RecordAt(qg, p) = RecordAt(pg, p)
  BY DEF RecordAdded
<1>3. Slots(qg) = Slots(pg)
  BY DEF RecordAdded, Slots
<1>4. \A q \in Slots(pg) : SlotAt(qg, q) = SlotAt(pg, q)
  BY SlotOf DEF RecordAdded, SlotAt
<1>5. \A q \in Slots(pg) : EdgeOf(qg, q) = EdgeOf(pg, q)
  BY <1>4 DEF EdgeOf
<1>6. \A p \in Positions(pg) : RecordAt(pg, p).vid \in 0..(n - 1)
  BY DEF Shape, VidsOnce
<1>7. n \notin 0..(n - 1)
  OBVIOUS
<1>8. n \notin Vertices(pg, com, own)
  BY <1>6, <1>7 DEF Vertices, AlivePositions
<1>9. CASE ~Alive(com, own, vr)
  <2>1. AlivePositions(qg, com, own) = AlivePositions(pg, com, own)
    BY <1>1, <1>2, <1>9 DEF AlivePositions
  <2>2. Vertices(qg, com, own) = Vertices(pg, com, own)
    BY <1>2, <2>1 DEF Vertices, AlivePositions
  <2>3. AliveSlots(qg, com, own) = AliveSlots(pg, com, own)
    BY <1>3, <1>4, <2>2 DEF AliveSlots
  <2>4. Edges(qg, com, own) = Edges(pg, com, own)
    BY <1>5, <2>3 DEF Edges, AliveSlots
  <2>. QED
    BY <1>9, <2>2, <2>4 DEF Graph
<1>10. CASE Alive(com, own, vr)
  <2>1. AlivePositions(qg, com, own) = AlivePositions(pg, com, own) \cup {np}
    BY <1>1, <1>2, <1>10 DEF AlivePositions
  <2>2. \A p \in AlivePositions(pg, com, own) : RecordAt(qg, p).vid = RecordAt(pg, p).vid
    BY <1>2 DEF AlivePositions
  <2>3. Vertices(qg, com, own) = Vertices(pg, com, own) \cup {n}
    BY <1>1, <2>1, <2>2 DEF Vertices
  <2>4. \A q \in Slots(pg) : SlotAt(pg, q).src # n
    BY <1>7, SlotOwner
  <2>5. AliveSlots(qg, com, own) = AliveSlots(pg, com, own)
    BY <1>3, <1>4, <2>3, <2>4 DEF AliveSlots
  <2>6. Edges(qg, com, own) = Edges(pg, com, own)
    BY <1>5, <2>5 DEF Edges, AliveSlots
  <2>. QED
    BY <1>8, <1>10, <2>3, <2>6
<1>. QED
  BY <1>9, <1>10

\* Slots are added, each one of ss, and that is all but for the chains.
SlotsAdded(pg, qg, ss) ==
  /\ \E N : /\ N # {} /\ N \cap Slots(pg) = {}
            /\ Slots(qg) = Slots(pg) \cup N
            /\ \A q \in N : \E j \in DOMAIN ss : SlotAt(qg, q) = ss[j]
  /\ \A q \in Slots(pg) : SlotAt(qg, q) = SlotAt(pg, q)
  /\ Positions(qg) = Positions(pg)
  /\ \A p \in Positions(pg) :
       /\ RecordAt(qg, p).vid = RecordAt(pg, p).vid
       /\ RecordAt(qg, p).xmin = RecordAt(pg, p).xmin
       /\ RecordAt(qg, p).xmax = RecordAt(pg, p).xmax
       /\ RecordAt(qg, p).deleted = RecordAt(pg, p).deleted

LEMMA GraphSlotsAdded ==
  ASSUME NEW pg, NEW qg, NEW ss, SlotsAdded(pg, qg, ss), NEW com, NEW own
  PROVE  /\ Vertices(qg, com, own) = Vertices(pg, com, own)
         /\ (\A j \in DOMAIN ss : ~Alive(com, own, ss[j])) =>
              Edges(qg, com, own) = Edges(pg, com, own)
         /\ (\A j \in DOMAIN ss : /\ Alive(com, own, ss[j])
                                  /\ ss[j].src \in Vertices(pg, com, own)) =>
              \E new :
                /\ new # {} /\ new \cap Edges(pg, com, own) = {}
                /\ Edges(qg, com, own) = Edges(pg, com, own) \cup new
                /\ \A f \in new : \E j \in DOMAIN ss :
                     f.src = ss[j].src /\ f.dst = ss[j].dst /\ f.type = ss[j].type
<1>1. PICK N : /\ N # {} /\ N \cap Slots(pg) = {}
               /\ Slots(qg) = Slots(pg) \cup N
               /\ \A q \in N : \E j \in DOMAIN ss : SlotAt(qg, q) = ss[j]
  BY DEF SlotsAdded
<1>2. AlivePositions(qg, com, own) = AlivePositions(pg, com, own)
  BY DEF SlotsAdded, AlivePositions, Alive
<1>3. Vertices(qg, com, own) = Vertices(pg, com, own)
  <2>1. \A p \in AlivePositions(pg, com, own) : RecordAt(qg, p).vid = RecordAt(pg, p).vid
    BY DEF SlotsAdded, AlivePositions
  <2>. QED
    BY <1>2, <2>1 DEF Vertices
<1>4. \A q \in Slots(pg) : SlotAt(qg, q) = SlotAt(pg, q)
  BY DEF SlotsAdded
<1>5. \A q \in AliveSlots(pg, com, own) : EdgeOf(qg, q) = EdgeOf(pg, q)
  BY <1>4 DEF EdgeOf, AliveSlots
<1>6. ASSUME \A j \in DOMAIN ss : ~Alive(com, own, ss[j])
      PROVE  Edges(qg, com, own) = Edges(pg, com, own)
  <2>1. \A q \in N : ~Alive(com, own, SlotAt(qg, q))
    BY <1>1, <1>6
  <2>2. AliveSlots(qg, com, own) = AliveSlots(pg, com, own)
    BY <1>1, <1>3, <1>4, <2>1 DEF AliveSlots
  <2>. QED
    BY <1>5, <2>2 DEF Edges
<1>7. ASSUME \A j \in DOMAIN ss : /\ Alive(com, own, ss[j])
                                  /\ ss[j].src \in Vertices(pg, com, own)
      PROVE  \E new :
               /\ new # {} /\ new \cap Edges(pg, com, own) = {}
               /\ Edges(qg, com, own) = Edges(pg, com, own) \cup new
               /\ \A f \in new : \E j \in DOMAIN ss :
                    f.src = ss[j].src /\ f.dst = ss[j].dst /\ f.type = ss[j].type
  <2>. DEFINE new == {EdgeOf(qg, q) : q \in N}
  <2>1. AliveSlots(qg, com, own) = AliveSlots(pg, com, own) \cup N
    <3>1. \A q \in N : /\ Alive(com, own, SlotAt(qg, q))
                       /\ SlotAt(qg, q).src \in Vertices(pg, com, own)
      BY <1>1, <1>7
    <3>. QED
      BY <1>1, <1>3, <1>4, <3>1 DEF AliveSlots
  <2>2. Edges(qg, com, own) = Edges(pg, com, own) \cup new
    BY <1>5, <2>1 DEF Edges
  <2>3. new # {}
    BY <1>1
  <2>4. new \cap Edges(pg, com, own) = {}
    <3>1. \A f \in new : f.id \in N
      BY EdgeFields
    <3>2. \A f \in Edges(pg, com, own) : f.id \in Slots(pg)
      BY EdgeFields DEF Edges, AliveSlots
    <3>. HIDE DEF new
    <3>. QED
      BY <1>1, <3>1, <3>2
  <2>5. ASSUME NEW f \in new
        PROVE  \E j \in DOMAIN ss :
                 f.src = ss[j].src /\ f.dst = ss[j].dst /\ f.type = ss[j].type
    <3>1. PICK q \in N : f = EdgeOf(qg, q)
      OBVIOUS
    <3>2. PICK j \in DOMAIN ss : SlotAt(qg, q) = ss[j]
      BY <1>1
    <3>. QED
      BY <3>1, <3>2, EdgeFields
  <2>. HIDE DEF new
  <2>. QED
    BY <2>2, <2>3, <2>4, <2>5
<1>. QED
  BY <1>3, <1>6, <1>7

\* The record at p is deleted under the id x by someone who saw it alive.
RecordDeleted(pg, qg, p, x) ==
  /\ Slots(qg) = Slots(pg) /\ Positions(qg) = Positions(pg)
  /\ \A q \in Slots(pg) : SlotAt(qg, q) = SlotAt(pg, q)
  /\ p \in Positions(pg)
  /\ \A q \in Positions(pg) : q # p => RecordAt(qg, q) = RecordAt(pg, q)
  /\ RecordAt(qg, p).vid = RecordAt(pg, p).vid
  /\ RecordAt(qg, p).xmin = RecordAt(pg, p).xmin
  /\ RecordAt(qg, p).xmax = x /\ RecordAt(qg, p).deleted

LEMMA GraphRecordDeleted ==
  ASSUME NEW pg, NEW qg, NEW n, VidsOnce(pg, n), NEW com, NEW x, NEW p,
         RecordDeleted(pg, qg, p, x), Alive(com, x, RecordAt(pg, p)),
         x # InvalidXid, x # FrozenXid, x \notin com
  PROVE  LET v == RecordAt(pg, p).vid
         IN  /\ Graph(qg, com, InvalidXid) = Graph(pg, com, InvalidXid)
             /\ v \in Vertices(pg, com, x)
             /\ Vertices(qg, com, x) = Vertices(pg, com, x) \ {v}
             /\ Edges(qg, com, x) = {f \in Edges(pg, com, x) : f.src # v}
<1>. DEFINE v == RecordAt(pg, p).vid
<1>1. \A q \in Slots(pg) : EdgeOf(qg, q) = EdgeOf(pg, q)
  BY DEF RecordDeleted, EdgeOf
<1>2. Graph(qg, com, InvalidXid) = Graph(pg, com, InvalidXid)
  <2>1. \A y : Seen(com, InvalidXid, y) => Seen(com, x, y)
    BY DEF Seen
  <2>2. ~Seen(com, InvalidXid, x)
    BY DEF Seen
  <2>3. Alive(com, InvalidXid, RecordAt(qg, p)) <=> Alive(com, InvalidXid, RecordAt(pg, p))
    BY <2>1, <2>2 DEF Alive, RecordDeleted
  <2>4. \A q \in Positions(pg) :
          /\ RecordAt(qg, q).vid = RecordAt(pg, q).vid
          /\ Alive(com, InvalidXid, RecordAt(qg, q)) <=> Alive(com, InvalidXid, RecordAt(pg, q))
    BY <2>3 DEF RecordDeleted
  <2>5. Positions(qg) = Positions(pg) /\ Slots(qg) = Slots(pg)
    BY DEF RecordDeleted
  <2>6. \A q \in Slots(pg) : SlotAt(qg, q) = SlotAt(pg, q)
    BY DEF RecordDeleted
  <2>. QED
    BY <1>1, <2>4, <2>5, <2>6, SameGraph
<1>3. v \in Vertices(pg, com, x)
  BY DEF Vertices, AlivePositions, RecordDeleted
<1>4. AlivePositions(qg, com, x) = AlivePositions(pg, com, x) \ {p}
  <2>1. ~Alive(com, x, RecordAt(qg, p))
    BY DEF Alive, Seen, RecordDeleted
  <2>. QED
    BY <2>1 DEF AlivePositions, RecordDeleted
<1>5. Vertices(qg, com, x) = Vertices(pg, com, x) \ {v}
  <2>1. \A q \in Positions(pg) : RecordAt(pg, q).vid = v => q = p
    BY DEF VidsOnce, RecordDeleted
  <2>2. \A q \in AlivePositions(pg, com, x) : q \in Positions(pg)
    BY DEF AlivePositions
  <2>3. \A q \in AlivePositions(qg, com, x) :
          q \in AlivePositions(pg, com, x) /\ q # p /\ RecordAt(qg, q) = RecordAt(pg, q)
    BY <1>4, <2>2 DEF RecordDeleted
  <2>4. \A w \in Vertices(qg, com, x) : w \in Vertices(pg, com, x) \ {v}
    BY <2>1, <2>2, <2>3 DEF Vertices
  <2>5. ASSUME NEW w \in Vertices(pg, com, x), w # v
        PROVE  w \in Vertices(qg, com, x)
    <3>1. PICK q \in AlivePositions(pg, com, x) : w = RecordAt(pg, q).vid
      BY DEF Vertices
    <3>2. q \in AlivePositions(qg, com, x)
      BY <1>4, <2>5, <3>1
    <3>. QED
      BY <2>3, <3>1, <3>2 DEF Vertices
  <2>. HIDE DEF v
  <2>. QED
    BY <2>4, <2>5
<1>. HIDE DEF v
<1>6. AliveSlots(qg, com, x) = {q \in AliveSlots(pg, com, x) : SlotAt(pg, q).src # v}
  BY <1>5 DEF AliveSlots, RecordDeleted
<1>7. Edges(qg, com, x) = {f \in Edges(pg, com, x) : f.src # v}
  <2>1. Edges(qg, com, x) = {EdgeOf(pg, q) : q \in AliveSlots(qg, com, x)}
    BY <1>1, <1>6 DEF Edges, AliveSlots
  <2>2. \A q \in AliveSlots(pg, com, x) : EdgeOf(pg, q).src = SlotAt(pg, q).src
    BY EdgeFields
  <2>. QED
    BY <1>6, <2>1, <2>2 DEF Edges
<1>. QED
  BY <1>2, <1>3, <1>5, <1>7 DEF v

\* The slots G are deleted under the id x.
SlotsDeleted(pg, qg, G, x) ==
  /\ Slots(qg) = Slots(pg) /\ Positions(qg) = Positions(pg)
  /\ \A p \in Positions(pg) : RecordAt(qg, p) = RecordAt(pg, p)
  /\ \A q \in Slots(pg) : q \notin G => SlotAt(qg, q) = SlotAt(pg, q)
  /\ \A q \in G :
       /\ q \in Slots(pg)
       /\ SlotAt(qg, q).src = SlotAt(pg, q).src
       /\ SlotAt(qg, q).dst = SlotAt(pg, q).dst
       /\ SlotAt(qg, q).type = SlotAt(pg, q).type
       /\ SlotAt(qg, q).xmin = SlotAt(pg, q).xmin
       /\ SlotAt(qg, q).xmax = x /\ SlotAt(qg, q).deleted

LEMMA GraphSlotsDeleted ==
  ASSUME NEW pg, NEW qg, NEW G, NEW com, NEW x, SlotsDeleted(pg, qg, G, x),
         \A q \in G : Alive(com, x, SlotAt(pg, q)),
         x # InvalidXid, x # FrozenXid, x \notin com
  PROVE  /\ Graph(qg, com, InvalidXid) = Graph(pg, com, InvalidXid)
         /\ Vertices(qg, com, x) = Vertices(pg, com, x)
         /\ Edges(qg, com, x) =
              Edges(pg, com, x) \ {EdgeOf(pg, q) : q \in G \cap AliveSlots(pg, com, x)}
<1>1. \A q \in Slots(pg) :
        EdgeOf(qg, q) = EdgeOf(pg, q) /\ SlotAt(qg, q).src = SlotAt(pg, q).src
  BY DEF SlotsDeleted, EdgeOf
<1>2. Graph(qg, com, InvalidXid) = Graph(pg, com, InvalidXid)
  <2>1. \A y : Seen(com, InvalidXid, y) => Seen(com, x, y)
    BY DEF Seen
  <2>2. ~Seen(com, InvalidXid, x)
    BY DEF Seen
  <2>3. \A q \in G : /\ SlotAt(qg, q).xmin = SlotAt(pg, q).xmin
                     /\ SlotAt(qg, q).xmax = x /\ SlotAt(qg, q).deleted
    BY DEF SlotsDeleted
  <2>4. \A q \in G : Alive(com, InvalidXid, SlotAt(qg, q)) <=> Alive(com, InvalidXid, SlotAt(pg, q))
    BY <2>1, <2>2, <2>3 DEF Alive
  <2>5. Positions(qg) = Positions(pg) /\ Slots(qg) = Slots(pg)
    BY DEF SlotsDeleted
  <2>6. \A p \in Positions(pg) : RecordAt(qg, p) = RecordAt(pg, p)
    BY DEF SlotsDeleted
  <2>7. \A q \in Slots(pg) : Alive(com, InvalidXid, SlotAt(qg, q)) <=> Alive(com, InvalidXid, SlotAt(pg, q))
    BY <2>4 DEF SlotsDeleted
  <2>. QED
    BY <1>1, <2>5, <2>6, <2>7, SameGraph
<1>3. Vertices(qg, com, x) = Vertices(pg, com, x)
  BY DEF Vertices, AlivePositions, SlotsDeleted
<1>4. AliveSlots(qg, com, x) = AliveSlots(pg, com, x) \ G
  <2>1. \A q \in G : ~Alive(com, x, SlotAt(qg, q))
    BY DEF Alive, Seen, SlotsDeleted
  <2>. QED
    BY <1>1, <1>3, <2>1 DEF AliveSlots, SlotsDeleted
<1>5. Edges(qg, com, x) = {EdgeOf(pg, q) : q \in AliveSlots(pg, com, x) \ G}
  BY <1>1, <1>4 DEF Edges, AliveSlots
<1>6. \A q, r : EdgeOf(pg, q) = EdgeOf(pg, r) => q = r
  <2>. SUFFICES ASSUME NEW q, NEW r, EdgeOf(pg, q) = EdgeOf(pg, r) PROVE q = r
    OBVIOUS
  <2>1. EdgeOf(pg, q).id = q /\ EdgeOf(pg, r).id = r
    BY EdgeFields
  <2>. QED
    BY <2>1
<1>7. Edges(qg, com, x) =
        Edges(pg, com, x) \ {EdgeOf(pg, q) : q \in G \cap AliveSlots(pg, com, x)}
  BY <1>5, <1>6 DEF Edges
<1>. QED
  BY <1>2, <1>3, <1>7

-----------------------------------------------------------------------------
(* The invariant: what the store and its writer keep, and what an          *)
(* operation cut into several records still relies on.                     *)

\* No running transaction has committed, no committed id is still to come.
UncommittedRun ==
  /\ \A s \in Sessions : xid[s] \notin committed
  /\ \A x \in committed : x < nextXid

\* The vertices that the holder of the writer lock sees.
WriterVertices == Vertices(page, committed, WriterXid)

\* A batch goes on from a vertex to vertices that are still alive to its
\* writer; a tombstone of a vertex walks edges of a vertex already gone.
OperationInv ==
  /\ op.name \in {"edges", "tombstone"} => lock \in Sessions /\ xid[lock] # InvalidXid
  /\ op.name = "edges" =>
       /\ op.src \in WriterVertices
       /\ \A i \in DOMAIN op.rest : op.rest[i] \in WriterVertices
  /\ op.name = "tombstone" =>
       (op.blk # NoBlock =>
          /\ page[op.blk].kind = "adj"
          /\ op.dst = AnyVid => page[op.blk].owner \notin WriterVertices)

TxnInv ==
  ChainInv /\ WriterInv /\ FreezeInv /\ UncommittedRun /\ OperationInv

\* What the steps use of it.
LEMMA TxnFacts ==
  ASSUME TxnInv
  PROVE  /\ ChainInv /\ WriterInv /\ FreezeInv /\ UncommittedRun /\ OperationInv
         /\ TypeOK /\ StoreShape
         /\ KnownXids /\ DistinctXids /\ WriterOwnsUncommitted
BY DEF TxnInv, ChainInv, WriterInv

LEMMA ViewsAreFlat ==
  ASSUME StoreShape
  PROVE  /\ GraphView(InvalidXid) = Graph(page, committed, InvalidXid)
         /\ GraphView(WriterXid) = Graph(page, committed, WriterXid)
<1>1. Shape(page, eof, meta.first, meta.last, meta.nextVid)
  BY DEF StoreShape
<1>. QED
  BY <1>1, ViewIsWalked, WalkedIsFlat

LEMMA NextViewsAreFlat ==
  ASSUME StoreShape'
  PROVE  /\ GraphView(InvalidXid)' = Graph(page', committed', InvalidXid)
         /\ GraphView(WriterXid)' = Graph(page', committed', WriterXid')
<1>1. Shape(page', eof', meta'.first, meta'.last, meta'.nextVid)
  BY DEF StoreShape
<1>. QED
  BY <1>1, ViewIsWalked, WalkedIsFlat

-----------------------------------------------------------------------------
(* Transactions: the pages stay, what the readers make of their ids may    *)
(* change.                                                                 *)

LEMMA XidTypes ==
  ASSUME TypeOK
  PROVE  /\ \A s \in Sessions : xid[s] \in Nat /\ xid[s] # FrozenXid
         /\ InvalidXid \notin committed /\ FrozenXid \notin committed
         /\ NoSession \notin Sessions
         /\ lock # NoSession => lock \in Sessions
         /\ nextXid \in Nat /\ nextXid # InvalidXid /\ nextXid # FrozenXid
         /\ InvalidXid # FrozenXid
         /\ WriterXid \in Nat
<1>1. /\ InvalidXid = 0 /\ FrozenXid = 2 /\ FirstNormalXid = 3
      /\ NormalXid = 3..MaxXid /\ MaxXid \in Nat
  BY Constants
<1>2. \A s \in Sessions : xid[s] \in NormalXid \cup {InvalidXid}
  BY DEF TypeOK
<1>3. NoSession \notin Sessions /\ (lock # NoSession => lock \in Sessions)
  BY SessionsAssumption DEF TypeOK
<1>4. nextXid \in FirstNormalXid..(MaxXid + 1)
  BY DEF TypeOK
<1>5. committed \subseteq NormalXid
  BY DEF TypeOK
<1>6. \A s \in Sessions : xid[s] \in Nat /\ xid[s] # FrozenXid
  BY <1>1, <1>2
<1>7. WriterXid \in Nat
  BY <1>1, <1>3, <1>6 DEF WriterXid
<1>. QED
  BY <1>1, <1>3, <1>4, <1>5, <1>6, <1>7

\* Only the writer's own uncommitted id is in the store.
LEMMA RunningStamp ==
  ASSUME TxnInv, NEW s \in Sessions, xid[s] # InvalidXid, xid[s] \in StampedXids
  PROVE  lock = s
<1>1. xid[s] \in Running
  BY DEF Running
<1>2. lock # NoSession /\ xid[lock] = xid[s]
  BY <1>1, TxnFacts DEF WriterOwnsUncommitted
<1>3. lock \in Sessions
  BY <1>2, TxnFacts, XidTypes
<1>. QED
  BY <1>2, <1>3, TxnFacts DEF DistinctXids

LEMMA NewStamp ==
  ASSUME TxnInv
  PROVE  nextXid \notin StampedXids
<1>1. \A x \in StampedXids : x < nextXid
  BY TxnFacts DEF KnownXids
<1>2. nextXid \in Nat
  BY TxnFacts, XidTypes
<1>. QED
  BY <1>1, <1>2

LEMMA Ends ==
  ASSUME NEW s \in Sessions,
         Commit(s) \/ Abort(s) \/ AbortExtended(s)
  PROVE  /\ EndTransaction(s)
         /\ page' = page
         /\ \/ committed' = committed /\ (lock = s => op' = Idle) /\ (lock # s => op' = op)
            \/ /\ committed' = committed \cup ({xid[s]} \ {InvalidXid})
               /\ op' = op /\ (lock = s => op = Idle)
BY DEF Commit, Abort, AbortExtended, store

\* To each reader a transaction step means a commit of the writer's graph, a
\* return to the stable one, or nothing.
LEMMA TransactionReads ==
  ASSUME TxnInv, NEW s \in Sessions,
         \/ AssignXid(s)
         \/ AcquireWriterLock(s)
         \/ Commit(s)
         \/ Abort(s)
         \/ AbortExtended(s)
  PROVE  LET g == Graph(page, committed, InvalidXid)
             h == Graph(page, committed, WriterXid)
             k == Graph(page, committed', InvalidXid)
             l == Graph(page, committed', WriterXid')
         IN  \/ k = g /\ l = h
             \/ k = h /\ l = h /\ lock' = NoSession
             \/ k = g /\ l = g /\ lock' = NoSession
<1>. USE TxnFacts, XidTypes
<1>1. CASE AssignXid(s)
  <2>1. xid[s] = InvalidXid /\ xid' = [xid EXCEPT ![s] = nextXid]
        /\ committed' = committed /\ lock' = lock
    BY <1>1 DEF AssignXid
  <2>2. CASE lock = s
    <3>1. WriterXid = InvalidXid /\ WriterXid' = nextXid
      BY <2>1, <2>2 DEF WriterXid, TypeOK
    <3>2. \A x \in StampedXids : Seen(committed, nextXid, x) <=> Seen(committed, InvalidXid, x)
      BY NewStamp DEF Seen
    <3>3. Graph(page, committed, nextXid) = Graph(page, committed, InvalidXid)
      BY <3>2, SameReader
    <3>. QED
      BY <2>1, <3>1, <3>3
  <2>3. CASE lock # s
    <3>1. WriterXid' = WriterXid
      BY <2>1, <2>3 DEF WriterXid, TypeOK
    <3>. QED
      BY <2>1, <3>1
  <2>. QED
    BY <2>2, <2>3
<1>2. CASE AcquireWriterLock(s)
  <2>1. lock = NoSession /\ lock' = s /\ xid' = xid /\ committed' = committed
    BY <1>2 DEF AcquireWriterLock
  <2>2. WriterXid = InvalidXid /\ WriterXid' = xid[s]
    BY <2>1 DEF WriterXid
  <2>3. \A x \in StampedXids : Seen(committed, xid[s], x) <=> Seen(committed, InvalidXid, x)
    BY <2>1, RunningStamp DEF Seen
  <2>4. Graph(page, committed, xid[s]) = Graph(page, committed, InvalidXid)
    BY <2>3, SameReader
  <2>. QED
    BY <2>1, <2>2, <2>4
<1>3. CASE (Commit(s) \/ Abort(s) \/ AbortExtended(s)) /\ lock = s
  <2>1. lock' = NoSession /\ WriterXid = xid[s] /\ WriterXid' = InvalidXid
    BY <1>3, Ends DEF EndTransaction, WriterXid
  <2>2. CASE committed' = committed
    BY <2>1, <2>2
  <2>3. CASE committed' = committed \cup ({xid[s]} \ {InvalidXid})
    <3>1. \A x \in StampedXids : Seen(committed', InvalidXid, x) <=> Seen(committed, xid[s], x)
      BY <2>3 DEF Seen
    <3>2. Graph(page, committed', InvalidXid) = Graph(page, committed, xid[s])
      BY <3>1, SameReader
    <3>. QED
      BY <2>1, <3>2
  <2>4. \/ committed' = committed
        \/ committed' = committed \cup ({xid[s]} \ {InvalidXid})
    BY <1>3, Ends
  <2>. QED
    BY <2>2, <2>3, <2>4
<1>4. CASE (Commit(s) \/ Abort(s) \/ AbortExtended(s)) /\ lock # s
  <2>1. lock' = lock /\ WriterXid' = WriterXid
    BY <1>4, Ends DEF EndTransaction, WriterXid, TypeOK
  <2>2. CASE committed' = committed
    BY <2>1, <2>2
  <2>3. CASE committed' = committed \cup ({xid[s]} \ {InvalidXid})
    <3>1. xid[s] # InvalidXid => xid[s] \notin StampedXids
      BY <1>4, RunningStamp
    <3>2. \A own : \A x \in StampedXids : Seen(committed', own, x) <=> Seen(committed, own, x)
      BY <2>3, <3>1 DEF Seen
    <3>3. \A own : Graph(page, committed', own) = Graph(page, committed, own)
      BY <3>2, SameReader
    <3>. QED
      BY <2>1, <3>3
  <2>4. \/ committed' = committed
        \/ committed' = committed \cup ({xid[s]} \ {InvalidXid})
    BY <1>4, Ends
  <2>. QED
    BY <2>2, <2>3, <2>4
<1>. QED
  BY <1>1, <1>2, <1>3, <1>4

LEMMA TransactionRefines ==
  ASSUME TxnInv, StoreShape', NEW s \in Sessions,
         \/ AssignXid(s)
         \/ AcquireWriterLock(s)
         \/ Commit(s)
         \/ Abort(s)
         \/ AbortExtended(s)
  PROVE  \/ Abstract!Commit
         \/ Abstract!Rollback
         \/ UNCHANGED <<GraphView(InvalidXid), GraphView(WriterXid)>>
<1>1. page' = page
  BY DEF AssignXid, AcquireWriterLock, Commit, Abort, AbortExtended, store
<1>2. /\ GraphView(InvalidXid) = Graph(page, committed, InvalidXid)
      /\ GraphView(WriterXid) = Graph(page, committed, WriterXid)
      /\ GraphView(InvalidXid)' = Graph(page, committed', InvalidXid)
      /\ GraphView(WriterXid)' = Graph(page, committed', WriterXid')
  BY <1>1, TxnFacts, ViewsAreFlat, NextViewsAreFlat
<1>. QED
  BY <1>2, TransactionReads DEF Abstract!Commit, Abstract!Rollback

LEMMA TransactionOperation ==
  ASSUME TxnInv, NEW s \in Sessions,
         \/ AssignXid(s)
         \/ AcquireWriterLock(s)
         \/ Commit(s)
         \/ Abort(s)
         \/ AbortExtended(s)
  PROVE  UncommittedRun' /\ OperationInv'
<1>. USE TxnFacts, XidTypes
<1>1. UncommittedRun'
  <2>1. CASE AssignXid(s)
    <3>1. /\ xid' = [xid EXCEPT ![s] = nextXid]
          /\ nextXid' = nextXid + 1 /\ committed' = committed
      BY <2>1 DEF AssignXid
    <3>2. nextXid \in Nat /\ \A x \in committed : x < nextXid /\ x \in Nat
      <4>1. \A x \in NormalXid : x \in Nat
        BY Constants
      <4>. QED
        BY <4>1 DEF UncommittedRun, TypeOK
    <3>3. nextXid \notin committed /\ \A x \in committed : x < nextXid + 1
      BY <3>2
    <3>4. \A t \in Sessions : xid'[t] \in {xid[t], nextXid}
      BY <3>1 DEF TypeOK
    <3>. QED
      BY <3>1, <3>3, <3>4 DEF UncommittedRun
  <2>2. CASE AcquireWriterLock(s)
    BY <2>2 DEF AcquireWriterLock, UncommittedRun
  <2>3. CASE Commit(s) \/ Abort(s) \/ AbortExtended(s)
    <3>1. xid' = [xid EXCEPT ![s] = InvalidXid] /\ nextXid' = nextXid
      BY <2>3, Ends DEF EndTransaction
    <3>2. committed' \subseteq committed \cup ({xid[s]} \ {InvalidXid})
      BY <2>3, Ends
    <3>3. \A t \in Sessions : xid'[t] = IF t = s THEN InvalidXid ELSE xid[t]
      BY <3>1 DEF TypeOK
    <3>4. xid[s] < nextXid
      BY DEF KnownXids
    <3>5. ASSUME NEW t \in Sessions
          PROVE  xid'[t] \notin committed'
      <4>1. CASE xid'[t] = InvalidXid
        BY <3>2, <4>1
      <4>2. CASE xid'[t] # InvalidXid
        <5>1. t # s /\ xid'[t] = xid[t] /\ xid[t] # xid[s]
          BY <3>3, <4>2 DEF DistinctXids
        <5>. QED
          BY <3>2, <5>1 DEF UncommittedRun
      <4>. QED
        BY <4>1, <4>2
    <3>. QED
      BY <3>1, <3>2, <3>4, <3>5 DEF UncommittedRun
  <2>. QED
    BY <2>1, <2>2, <2>3
<1>2. OperationInv'
  <2>1. CASE op'.name \notin {"edges", "tombstone"}
    BY <2>1 DEF OperationInv
  <2>2. CASE op'.name \in {"edges", "tombstone"}
    <3>1. op' = op
      BY <2>2, Ends DEF AssignXid, AcquireWriterLock, Idle
    <3>2. lock \in Sessions /\ xid[lock] # InvalidXid
      BY <2>2, <3>1 DEF OperationInv
    <3>3. lock' = lock /\ xid'[lock] = xid[lock]
      <4>1. CASE AssignXid(s)
        BY <3>2, <4>1 DEF AssignXid, TypeOK
      <4>2. CASE AcquireWriterLock(s)
        BY <3>2, <4>2 DEF AcquireWriterLock
      <4>3. CASE Commit(s) \/ Abort(s) \/ AbortExtended(s)
        <5>1. lock # s
          BY <2>2, <3>1, <4>3, Ends DEF Idle
        <5>. QED
          BY <3>2, <4>3, <5>1, Ends DEF EndTransaction, TypeOK
      <4>. QED
        BY <4>1, <4>2, <4>3
    <3>4. page' = page
      BY Ends DEF AssignXid, AcquireWriterLock, store
    <3>5. Graph(page, committed', WriterXid') = Graph(page, committed, WriterXid)
      BY <3>2, <3>3, TransactionReads
    <3>6. WriterVertices' = WriterVertices
      BY <3>4, <3>5 DEF Graph, WriterVertices
    <3>. QED
      BY <3>1, <3>2, <3>3, <3>4, <3>6 DEF OperationInv
  <2>. QED
    BY <2>1, <2>2
<1>. QED
  BY <1>1, <1>2

-----------------------------------------------------------------------------
(* New slots.                                                              *)

LEMMA SlotsGrownAdds ==
  ASSUME NEW pg \in Pages, NEW qg, NEW tail \in Block,
         NEW ss \in Seq(EdgeSlot), Len(ss) > 0, SlotsGrown(pg, qg, tail, ss)
  PROVE  SlotsAdded(pg, qg, ss)
<1>. DEFINE old == pg[tail].slots
            cat == qg[tail].slots
<1>1. old \in Seq(EdgeSlot) /\ cat = old \o ss
  BY DEF Pages, Page, SlotsGrown
<1>2. \A b \in Block : qg[b].vertices = pg[b].vertices
  BY DEF SlotsGrown
<1>3. \A b \in Block : b # tail => qg[b] = pg[b]
  BY DEF SlotsGrown
<1>4. cat \in Seq(EdgeSlot)
  <2>. HIDE DEF old, cat
  <2>. QED
    BY <1>1, ConcatProperties
<1>. HIDE DEF old, cat
<1>5. /\ Len(cat) = Len(old) + Len(ss)
      /\ \A i \in DOMAIN cat :
           \/ i \in DOMAIN old /\ cat[i] = old[i]
           \/ \E j \in DOMAIN ss : cat[i] = ss[j]
      /\ \A i \in DOMAIN old : i \in DOMAIN cat /\ cat[i] = old[i]
  BY <1>1, Concatenated
<1>6. Len(cat) \in DOMAIN cat /\ Len(cat) \notin DOMAIN old
  <2>1. /\ Len(old) \in Nat /\ Len(ss) \in Nat
        /\ DOMAIN old = 1..Len(old) /\ DOMAIN cat = 1..Len(cat)
    BY <1>1, <1>4, LenProperties
  <2>. DEFINE k == Len(old)
              l == Len(ss)
              m == Len(cat)
  <2>. HIDE DEF k, l, m
  <2>2. k \in Nat /\ l \in Nat /\ l > 0 /\ m = k + l
    BY <1>5, <2>1 DEF k, l, m
  <2>3. m \in 1..m /\ m \notin 1..k
    BY <2>2
  <2>. QED
    BY <2>1, <2>3 DEF k, m
<1>. DEFINE N == {<<tail, i>> : i \in (DOMAIN cat) \ (DOMAIN old)}
<1>7. N # {}
  BY <1>6
<1>8. N \cap Slots(pg) = {}
  <2>1. ASSUME NEW i \in (DOMAIN cat) \ (DOMAIN old), <<tail, i>> \in Slots(pg)
        PROVE  FALSE
    <3>1. <<tail, i>>[2] \in DOMAIN pg[<<tail, i>>[1]].slots
      BY <2>1, SlotOf
    <3>. QED
      BY <3>1 DEF old
  <2>. QED
    BY <2>1
<1>9. Slots(qg) = Slots(pg) \cup N
  <2>1. \A b \in Block : b # tail => DOMAIN qg[b].slots = DOMAIN pg[b].slots
    BY <1>3
  <2>2. DOMAIN qg[tail].slots = DOMAIN pg[tail].slots \cup ((DOMAIN cat) \ (DOMAIN old))
    BY <1>5 DEF cat, old
  <2>. QED
    BY <2>1, <2>2 DEF Slots
<1>10. \A q \in N : \E j \in DOMAIN ss : SlotAt(qg, q) = ss[j]
  <2>1. ASSUME NEW i \in (DOMAIN cat) \ (DOMAIN old)
        PROVE  \E j \in DOMAIN ss : SlotAt(qg, <<tail, i>>) = ss[j]
    <3>1. SlotAt(qg, <<tail, i>>) = cat[i]
      BY DEF SlotAt, cat
    <3>. QED
      BY <1>5, <3>1
  <2>. QED
    BY <2>1
<1>11. ASSUME NEW q \in Slots(pg)
       PROVE  SlotAt(qg, q) = SlotAt(pg, q)
  <2>1. q[1] \in Block /\ q[2] \in DOMAIN pg[q[1]].slots
    BY SlotOf
  <2>2. CASE q[1] = tail
    BY <1>5, <2>1, <2>2 DEF SlotAt, cat, old
  <2>3. CASE q[1] # tail
    BY <1>3, <2>1, <2>3 DEF SlotAt
  <2>. QED
    BY <2>2, <2>3
<1>12. Positions(qg) = Positions(pg)
  BY <1>2 DEF Positions
<1>13. \A p \in Positions(pg) : RecordAt(qg, p) = RecordAt(pg, p)
  BY <1>2 DEF Positions, RecordAt
<1>. HIDE DEF N
<1>. QED
  BY <1>7, <1>8, <1>9, <1>10, <1>11, <1>12, <1>13 DEF SlotsAdded

LEMMA SlotsPagedAdds ==
  ASSUME NEW pg \in Pages, NEW qg \in Pages, NEW e \in Nat,
         Extent(pg, e), AdjacencyShape(pg), NEW p \in Positions(pg),
         NEW new \in Block, new = e + 1, NEW ss \in Seq(EdgeSlot), Len(ss) > 0,
         NEW src, SlotsPaged(pg, qg, p, src, new, ss)
  PROVE  SlotsAdded(pg, qg, ss)
<1>. DEFINE r == RecordAt(pg, p)
<1>1. r \in VertexRecord
  BY RecordType
<1>. HIDE DEF r
<1>2. r = RecordAt(pg, p)
  BY DEF r
<1>3. /\ new # r.tail /\ new # p[1] /\ p[1] # r.tail
      /\ qg[new] = NewAdjPage(src, ss)
      /\ \A b \in Block : b # new =>
           /\ qg[b].kind = pg[b].kind /\ qg[b].owner = pg[b].owner
           /\ qg[b].slots = pg[b].slots
           /\ DOMAIN qg[b].vertices = DOMAIN pg[b].vertices
           /\ qg[b].next = IF b = r.tail THEN new ELSE pg[b].next
      /\ \A q \in Positions(pg) : q # p => RecordAt(qg, q) = RecordAt(pg, q)
      /\ RecordAt(qg, p) = Reanchored(r, new)
  <2>1. PagedChanges(pg, qg, p, r, src, new, ss)
    BY <1>2, SlotsPagedChanges
  <2>. QED
    BY <2>1 DEF PagedChanges
<1>4. DOMAIN pg[new].slots = {} /\ DOMAIN pg[new].vertices = {}
  BY NewBlock
<1>5. qg[new].slots = ss /\ DOMAIN qg[new].vertices = {}
  BY <1>3, NewPages
<1>. DEFINE N == {<<new, i>> : i \in DOMAIN ss}
<1>6. N # {}
  <2>1. DOMAIN ss = 1..Len(ss) /\ Len(ss) \in Nat
    BY LenProperties
  <2>2. 1 \in 1..Len(ss)
    BY <2>1
  <2>. QED
    BY <2>1, <2>2
<1>7. N \cap Slots(pg) = {}
  <2>1. ASSUME NEW i, <<new, i>> \in Slots(pg)
        PROVE  FALSE
    <3>1. <<new, i>>[2] \in DOMAIN pg[<<new, i>>[1]].slots
      BY <2>1, SlotOf
    <3>. QED
      BY <1>4, <3>1
  <2>. QED
    BY <2>1
<1>8. Slots(qg) = Slots(pg) \cup N
  <2>1. \A b \in Block : b # new => DOMAIN qg[b].slots = DOMAIN pg[b].slots
    BY <1>3
  <2>. QED
    BY <1>4, <1>5, <2>1 DEF Slots
<1>9. \A q \in N : \E j \in DOMAIN ss : SlotAt(qg, q) = ss[j]
  BY <1>5 DEF SlotAt
<1>10. ASSUME NEW q \in Slots(pg)
       PROVE  SlotAt(qg, q) = SlotAt(pg, q)
  <2>1. q[1] \in Block /\ q[2] \in DOMAIN pg[q[1]].slots
    BY SlotOf
  <2>. QED
    BY <1>3, <1>4, <2>1 DEF SlotAt
<1>11. Positions(qg) = Positions(pg)
  <2>1. \A b \in Block : DOMAIN qg[b].vertices = DOMAIN pg[b].vertices
    BY <1>3, <1>4, <1>5
  <2>. QED
    BY <2>1, SamePositions
<1>12. \A q \in Positions(pg) :
         /\ RecordAt(qg, q).vid = RecordAt(pg, q).vid
         /\ RecordAt(qg, q).xmin = RecordAt(pg, q).xmin
         /\ RecordAt(qg, q).xmax = RecordAt(pg, q).xmax
         /\ RecordAt(qg, q).deleted = RecordAt(pg, q).deleted
  BY <1>1, <1>2, <1>3, ReanchoredRecord
<1>. HIDE DEF N
<1>. QED
  BY <1>6, <1>7, <1>8, <1>9, <1>10, <1>11, <1>12 DEF SlotsAdded

LEMMA AppendSlotsAdds ==
  ASSUME TypeOK, StoreShape, NEW p \in VertexPositions, NEW src \in Vid,
         NEW ss \in Seq(EdgeSlot), Len(ss) > 0, AppendSlots(p, src, ss)
  PROVE  SlotsAdded(page, page', ss)
<1>. DEFINE r   == VertexAt(p)
            new == eof + 1
<1>1. /\ page \in Pages /\ eof \in Nat
      /\ p \in Positions(page) /\ r = RecordAt(page, p)
  BY StorePages
<1>2. page' \in Pages
  BY AppendSlotsType DEF Pages
<1>. HIDE DEF r, new
<1>3. CASE ~NeedsPage(p)
  <2>. DEFINE qg == page'
              tail == r.tail
  <2>1. qg = [page EXCEPT ![tail].slots = @ \o ss]
    BY <1>3 DEF AppendSlots, r
  <2>2. tail \in Block
    BY <1>3, RoomLeft DEF r
  <2>. HIDE DEF qg, tail
  <2>3. SlotsGrown(page, qg, tail, ss)
    BY <1>1, <2>1, <2>2, SlotsGrownBy
  <2>4. SlotsAdded(page, qg, ss)
    BY <1>1, <2>2, <2>3, SlotsGrownAdds
  <2>. QED
    BY <2>4 DEF qg
<1>4. CASE NeedsPage(p)
  <2>1. /\ eof < MaxBlock
        /\ page' = [b \in Block |->
                      IF b = new THEN NewAdjPage(src, ss)
                      ELSE IF b = r.tail THEN [page[b] EXCEPT !.next = new]
                      ELSE IF b = p[1] THEN
                        [page[b] EXCEPT
                           !.vertices[p[2]].head = IF @ = NoBlock THEN new ELSE @,
                           !.vertices[p[2]].tail = new]
                      ELSE page[b]]
    BY <1>4 DEF AppendSlots, r, new
  <2>2. new \in Block
    <3>1. eof \in Nat /\ MaxBlock \in Nat /\ eof < MaxBlock
      BY <1>1, <2>1, Constants
    <3>2. eof + 1 \in 1..MaxBlock
      BY <3>1
    <3>. QED
      BY <3>2 DEF Block, new
  <2>. DEFINE qg == page'
  <2>3. SlotsPaged(page, qg, p, src, new, ss) /\ qg \in Pages
    BY <1>2, <2>1 DEF SlotsPaged, Anchored, r, RecordAt, VertexAt
  <2>4. Extent(page, eof) /\ AdjacencyShape(page)
    BY DEF StoreShape, Shape
  <2>. HIDE DEF qg
  <2>5. SlotsAdded(page, qg, ss)
    BY <1>1, <2>2, <2>3, <2>4, SlotsPagedAdds DEF new
  <2>. QED
    BY <2>5 DEF qg
<1>. QED
  BY <1>3, <1>4

-----------------------------------------------------------------------------
(* Writes: one record of the log, by the holder of the writer lock.        *)

LEMMA WriterReads ==
  ASSUME TxnInv, NEW s \in Sessions, lock = s, xid[s] # InvalidXid, UNCHANGED txns
  PROVE  /\ WriterXid = xid[s] /\ WriterXid' = xid[s]
         /\ committed' = committed /\ lock' = s /\ xid'[s] = xid[s]
         /\ xid[s] # FrozenXid /\ xid[s] \notin committed
         /\ UncommittedRun'
         /\ WriterVertices = Vertices(page, committed, xid[s])
         /\ WriterVertices' = Vertices(page', committed, xid[s])
<1>. USE TxnFacts, XidTypes
<1>1. committed' = committed /\ xid' = xid /\ lock' = lock /\ nextXid' = nextXid
  BY DEF txns
<1>2. WriterXid = xid[s] /\ WriterXid' = xid[s]
  BY <1>1 DEF WriterXid
<1>. QED
  BY <1>1, <1>2 DEF UncommittedRun, WriterVertices

\* A record that its writer has just stamped is there for the writer alone.
LEMMA OwnStamp ==
  ASSUME NEW com, NEW x, x # InvalidXid, x # FrozenXid, x \notin com,
         NEW r, r.xmin = x, ~r.deleted
  PROVE  Alive(com, x, r) /\ ~Alive(com, InvalidXid, r)
BY DEF Alive, Seen

LEMMA LiveIsAlive ==
  ASSUME NEW own, NEW r
  PROVE  Live(own, r) <=> Alive(committed, own, r)
BY DEF Live, XminVisible, DeletedVisible, DidCommit, Alive, Seen

LEMMA LocatedIsAlive ==
  ASSUME TypeOK, NEW own, NEW v,
         NEW p, p \in Located(own, v) \/ p \in DenseLocated(own, v)
  PROVE  /\ p \in VertexPositions /\ VertexAt(p).vid = v
         /\ Alive(committed, own, RecordAt(page, p))
         /\ v \in Vertices(page, committed, own)
<1>1. p \in VertexPositions /\ VertexAt(p).vid = v /\ Live(own, VertexAt(p))
  BY DEF Located, LivePositions, DenseLocated, DenseVerified
<1>2. p \in Positions(page) /\ VertexAt(p) = RecordAt(page, p)
  BY <1>1, StorePages
<1>3. Alive(committed, own, RecordAt(page, p))
  BY <1>1, <1>2, LiveIsAlive
<1>. QED
  BY <1>1, <1>2, <1>3 DEF Vertices, AlivePositions

\* What is left to show of a write: that only its writer's graph changes.
LEMMA WriteRefines ==
  ASSUME TxnInv, StoreShape', NEW s \in Sessions, lock = s, xid[s] # InvalidXid,
         UNCHANGED txns,
         Graph(page', committed, InvalidXid) = Graph(page, committed, InvalidXid),
         \/ Graph(page', committed, xid[s]) = Graph(page, committed, xid[s])
         \/ Abstract!Changes(Graph(page, committed, xid[s]), Graph(page', committed, xid[s]))
  PROVE  \/ Abstract!Write
         \/ UNCHANGED <<GraphView(InvalidXid), GraphView(WriterXid)>>
<1>. DEFINE g == Graph(page, committed, xid[s])
            h == Graph(page', committed, xid[s])
<1>1. /\ GraphView(InvalidXid) = Graph(page, committed, InvalidXid)
      /\ GraphView(WriterXid) = g
      /\ GraphView(InvalidXid)' = Graph(page', committed, InvalidXid)
      /\ GraphView(WriterXid)' = h
  BY TxnFacts, WriterReads, ViewsAreFlat, NextViewsAreFlat
<1>2. h = g \/ Abstract!Changes(g, h)
  OBVIOUS
<1>. HIDE DEF g, h
<1>3. CASE h = g
  BY <1>1, <1>3
<1>4. CASE Abstract!Changes(g, h)
  BY <1>1, <1>4 DEF Abstract!Write
<1>. QED
  BY <1>2, <1>3, <1>4

LEMMA InsertVertexRefines ==
  ASSUME TxnInv, StoreShape', NEW s \in Sessions, InsertVertex(s)
  PROVE  /\ \/ Abstract!Write
            \/ UNCHANGED <<GraphView(InvalidXid), GraphView(WriterXid)>>
         /\ UncommittedRun' /\ OperationInv'
<1>. DEFINE x  == xid[s]
            n  == meta.nextVid
            vr == NewVertex(n, x)
            qg == page'
<1>1. /\ lock = s /\ op = Idle /\ x # InvalidXid /\ UNCHANGED txns /\ op' = op
  BY DEF InsertVertex, MayWrite
<1>2. x # FrozenXid /\ x \notin committed /\ UncommittedRun'
  BY <1>1, WriterReads
<1>3. RecordAdded(page, qg, vr)
  BY TxnFacts, InsertVertexShape
<1>4. vr.vid = n /\ vr.xmin = x /\ ~vr.deleted
  BY DEF NewVertex
<1>5. n \in Nat /\ Shape(page, eof, meta.first, meta.last, n)
  BY TxnFacts, StorePages DEF StoreShape
<1>. HIDE DEF x, n, vr, qg
<1>6. Alive(committed, x, vr) /\ ~Alive(committed, InvalidXid, vr)
  BY <1>1, <1>2, <1>4, OwnStamp
<1>7. Graph(qg, committed, InvalidXid) = Graph(page, committed, InvalidXid)
  BY <1>3, <1>4, <1>5, <1>6, GraphRecordAdded
<1>8. /\ n \notin Vertices(page, committed, x)
      /\ Vertices(qg, committed, x) = Vertices(page, committed, x) \cup {n}
      /\ Edges(qg, committed, x) = Edges(page, committed, x)
  BY <1>3, <1>4, <1>5, <1>6, GraphRecordAdded
<1>9. Abstract!Changes(Graph(page, committed, x), Graph(qg, committed, x))
  BY <1>8 DEF Graph, Abstract!Changes, Abstract!AddsVertex
<1>10. OperationInv'
  BY <1>1 DEF OperationInv, Idle
<1>. QED
  BY <1>1, <1>2, <1>7, <1>9, <1>10, WriteRefines DEF x, qg

\* Slots that the writer s adds for a vertex that it sees.
Outgoing(ss, src, t, x, targets) ==
  \A j \in DOMAIN ss :
    /\ ss[j].src = src /\ ss[j].type = t /\ ss[j].dst \in targets
    /\ ss[j].xmin = x /\ ~ss[j].deleted

LEMMA OutgoingWrite ==
  ASSUME TxnInv, StoreShape', NEW s \in Sessions, lock = s, xid[s] # InvalidXid,
         UNCHANGED txns, NEW ss, SlotsAdded(page, page', ss),
         NEW src \in WriterVertices, NEW t,
         Outgoing(ss, src, t, xid[s], WriterVertices)
  PROVE  /\ \/ Abstract!Write
            \/ UNCHANGED <<GraphView(InvalidXid), GraphView(WriterXid)>>
         /\ WriterVertices' = WriterVertices
<1>. DEFINE x  == xid[s]
            qg == page'
            V  == Vertices(page, committed, x)
<1>1. /\ x # InvalidXid /\ x # FrozenXid /\ x \notin committed
      /\ WriterVertices = V /\ WriterVertices' = Vertices(qg, committed, x)
  BY WriterReads
<1>2. SlotsAdded(page, qg, ss) /\ src \in V /\ Outgoing(ss, src, t, x, V)
  BY <1>1
<1>. HIDE DEF x, qg
<1>3. \A j \in DOMAIN ss : /\ Alive(committed, x, ss[j])
                           /\ ~Alive(committed, InvalidXid, ss[j])
                           /\ ss[j].src \in V
  BY <1>1, <1>2, OwnStamp DEF Outgoing
<1>4. /\ Vertices(qg, committed, x) = V
      /\ Vertices(qg, committed, InvalidXid) = Vertices(page, committed, InvalidXid)
  BY <1>2, GraphSlotsAdded
<1>5. Edges(qg, committed, InvalidXid) = Edges(page, committed, InvalidXid)
  BY <1>2, <1>3, GraphSlotsAdded
<1>6. Graph(qg, committed, InvalidXid) = Graph(page, committed, InvalidXid)
  BY <1>4, <1>5 DEF Graph
<1>7. PICK new :
        /\ new # {} /\ new \cap Edges(page, committed, x) = {}
        /\ Edges(qg, committed, x) = Edges(page, committed, x) \cup new
        /\ \A f \in new : \E j \in DOMAIN ss :
             f.src = ss[j].src /\ f.dst = ss[j].dst /\ f.type = ss[j].type
  BY <1>2, <1>3, GraphSlotsAdded
<1>8. Abstract!Changes(Graph(page, committed, x), Graph(qg, committed, x))
  <2>. DEFINE g == Graph(page, committed, x)
              h == Graph(qg, committed, x)
  <2>1. \A f \in new : f.src = src /\ f.dst \in V /\ f.type = t
    BY <1>2, <1>7 DEF Outgoing
  <2>2. h.edges \ g.edges = new
    BY <1>7 DEF Graph
  <2>3. /\ g.vertices = V
        /\ h = [g EXCEPT !.edges = @ \cup new]
    <3>. DEFINE E == Edges(page, committed, x)
    <3>1. g = [vertices |-> V, edges |-> E] /\ h = [vertices |-> V, edges |-> E \cup new]
      BY <1>4, <1>7 DEF Graph
    <3>. HIDE DEF g, h, V, E
    <3>. QED
      BY <3>1
  <2>. HIDE DEF g, h, V
  <2>4. Abstract!AddsEdges(g, h)
    BY <1>2, <1>7, <2>1, <2>2, <2>3 DEF Abstract!AddsEdges
  <2>. QED
    BY <2>4 DEF Abstract!Changes, g, h
<1>. QED
  BY <1>1, <1>4, <1>6, <1>8, WriteRefines DEF x, qg

LEMMA WriteRunRefines ==
  ASSUME TxnInv, StoreShape', NEW s \in Sessions, lock = s, xid[s] # InvalidXid,
         UNCHANGED txns, NEW p \in VertexPositions,
         NEW src \in Vid, src = VertexAt(p).vid, src \in WriterVertices,
         NEW t \in EdgeTypes, NEW dsts \in Seq(Vid), dsts # <<>>,
         \A i \in DOMAIN dsts : dsts[i] \in WriterVertices,
         WriteRun(s, p, src, t, dsts)
  PROVE  /\ \/ Abstract!Write
            \/ UNCHANGED <<GraphView(InvalidXid), GraphView(WriterXid)>>
         /\ OperationInv'
<1>. DEFINE n     == IF Len(dsts) <= Room(p) THEN Len(dsts) ELSE Room(p)
            chunk == [i \in 1..n |-> NewSlot(src, dsts[i], t, xid[s])]
            rest  == SubSeq(dsts, n + 1, Len(dsts))
<1>1. n \in 0..Len(dsts) /\ chunk \in Seq(EdgeSlot)
  BY TxnFacts, WriteRunChunk
<1>2. /\ AppendSlots(p, src, chunk)
      /\ op' = IF n = Len(dsts) THEN Idle
               ELSE [name |-> "edges", src |-> src, type |-> t, rest |-> rest]
  BY DEF WriteRun
<1>3. /\ Len(dsts) \in Nat /\ DOMAIN dsts = 1..Len(dsts) /\ Len(dsts) # 0
  BY LenProperties, EmptySeq
<1>4. n \in Nat /\ n > 0
  <2>1. \A k \in 1..EdgeSlotsPerPage : k \in Nat /\ k > 0
    BY PageSizeAssumption
  <2>2. Room(p) \in Nat /\ Room(p) > 0
    BY <2>1, TxnFacts, RoomLeft
  <2>. QED
    BY <1>3, <2>2
<1>. HIDE DEF n
<1>5. DOMAIN chunk = 1..n
  OBVIOUS
<1>6. Len(chunk) > 0
  <2>1. DOMAIN chunk = 1..Len(chunk) /\ Len(chunk) \in Nat
    BY <1>1, LenProperties
  <2>2. 1 \in DOMAIN chunk
    BY <1>4, <1>5
  <2>. HIDE DEF chunk
  <2>. QED
    BY <2>1, <2>2
<1>7. Outgoing(chunk, src, t, xid[s], WriterVertices)
  <2>1. \A i \in 1..n : i \in DOMAIN dsts
    BY <1>1, <1>3, <1>4
  <2>. QED
    BY <1>5, <2>1 DEF Outgoing, NewSlot
<1>. HIDE DEF chunk
<1>8. SlotsAdded(page, page', chunk)
  BY <1>1, <1>2, <1>6, TxnFacts, AppendSlotsAdds
<1>9. /\ \/ Abstract!Write
         \/ UNCHANGED <<GraphView(InvalidXid), GraphView(WriterXid)>>
      /\ WriterVertices' = WriterVertices
  BY <1>7, <1>8, OutgoingWrite
<1>10. OperationInv'
  <2>1. CASE n = Len(dsts)
    BY <1>2, <2>1 DEF OperationInv, Idle
  <2>2. CASE n # Len(dsts)
    <3>1. /\ op'.name = "edges" /\ op'.src = src /\ op'.rest = rest
      BY <1>2, <2>2
    <3>2. \A i \in DOMAIN rest : rest[i] \in WriterVertices
      <4>1. \A i \in (n + 1)..Len(dsts) : dsts[i] \in WriterVertices
        BY <1>3, <1>4
      <4>2. rest \in Seq(WriterVertices)
        BY <1>3, <1>4, <4>1, SubSeqProperties
      <4>. HIDE DEF rest
      <4>. QED
        BY <4>2, LenProperties, ElementOfSeq
    <3>3. lock' \in Sessions /\ xid'[lock'] # InvalidXid
      BY WriterReads
    <3>. HIDE DEF rest
    <3>. QED
      BY <1>9, <3>1, <3>2, <3>3 DEF OperationInv
  <2>. QED
    BY <2>1, <2>2
<1>. QED
  BY <1>9, <1>10

LEMMA InsertEdgesRefines ==
  ASSUME TxnInv, StoreShape', NEW s \in Sessions,
         \/ \E src, dst \in Vid, t \in EdgeTypes : InsertEdge(s, src, dst, t)
         \/ \E src \in Vid, dsts \in Seq(Vid), t \in EdgeTypes :
              InsertEdges(s, src, dsts, t)
         \/ ContinueInsertEdges(s)
  PROVE  /\ \/ Abstract!Write
            \/ UNCHANGED <<GraphView(InvalidXid), GraphView(WriterXid)>>
         /\ UncommittedRun' /\ OperationInv'
<1>. DEFINE Good ==
              /\ \/ Abstract!Write
                 \/ UNCHANGED <<GraphView(InvalidXid), GraphView(WriterXid)>>
              /\ UncommittedRun' /\ OperationInv'
<1>1. ASSUME NEW src \in Vid, NEW dst \in Vid, NEW t \in EdgeTypes,
             InsertEdge(s, src, dst, t)
      PROVE  Good
  <2>. DEFINE slot == NewSlot(src, dst, t, xid[s])
  <2>1. /\ lock = s /\ op = Idle /\ xid[s] # InvalidXid /\ UNCHANGED txns /\ op' = op
        /\ Located(xid[s], dst) # {}
    BY <1>1 DEF InsertEdge, MayWrite
  <2>2. PICK p \in Located(xid[s], src) : AppendSlots(p, src, <<slot>>)
    BY <1>1 DEF InsertEdge
  <2>3. /\ p \in VertexPositions
        /\ src \in WriterVertices /\ dst \in WriterVertices
    BY <2>1, TxnFacts, LocatedIsAlive, WriterReads
  <2>4. slot \in EdgeSlot
    BY TxnFacts, Constants DEF TypeOK, NewSlot, EdgeSlot, StoredXid
  <2>5. /\ slot.src = src /\ slot.type = t /\ slot.dst = dst
        /\ slot.xmin = xid[s] /\ ~slot.deleted
    BY DEF NewSlot
  <2>. HIDE DEF slot
  <2>6. <<slot>> \in Seq(EdgeSlot) /\ Len(<<slot>>) > 0
    BY <2>4
  <2>7. Outgoing(<<slot>>, src, t, xid[s], WriterVertices)
    BY <2>3, <2>5 DEF Outgoing
  <2>8. SlotsAdded(page, page', <<slot>>)
    BY <2>2, <2>3, <2>6, TxnFacts, AppendSlotsAdds
  <2>9. \/ Abstract!Write
        \/ UNCHANGED <<GraphView(InvalidXid), GraphView(WriterXid)>>
    BY <2>1, <2>3, <2>7, <2>8, OutgoingWrite
  <2>10. OperationInv' /\ UncommittedRun'
    BY <2>1, WriterReads DEF OperationInv, Idle
  <2>. QED
    BY <2>9, <2>10
<1>2. ASSUME NEW src \in Vid, NEW dsts \in Seq(Vid), NEW t \in EdgeTypes,
             InsertEdges(s, src, dsts, t)
      PROVE  Good
  <2>1. /\ lock = s /\ xid[s] # InvalidXid /\ UNCHANGED txns /\ dsts # <<>>
        /\ \A i \in DOMAIN dsts : DenseLocated(xid[s], dsts[i]) # {}
    BY <1>2 DEF InsertEdges, MayWrite
  <2>2. PICK p \in DenseLocated(xid[s], src) : WriteRun(s, p, src, t, dsts)
    BY <1>2 DEF InsertEdges
  <2>3. p \in VertexPositions /\ VertexAt(p).vid = src /\ src \in WriterVertices
    BY <2>1, TxnFacts, LocatedIsAlive, WriterReads
  <2>4. \A i \in DOMAIN dsts : dsts[i] \in WriterVertices
    BY <2>1, TxnFacts, LocatedIsAlive, WriterReads
  <2>6. UncommittedRun'
    BY <2>1, WriterReads
  <2>. QED
    BY <2>1, <2>2, <2>3, <2>4, <2>6, WriteRunRefines
<1>3. ASSUME ContinueInsertEdges(s)
      PROVE  Good
  <2>1. PICK p \in VertexPositions :
          /\ VertexAt(p).vid = op.src
          /\ WriteRun(s, p, op.src, op.type, op.rest)
    BY <1>3 DEF ContinueInsertEdges
  <2>2. /\ lock = s /\ op.name = "edges" /\ UNCHANGED txns
    BY <1>3 DEF ContinueInsertEdges
  <2>3. op \in [name : {"edges"}, src : Vid, type : EdgeTypes, rest : Seq(Vid)]
    BY <2>2, TxnFacts DEF TypeOK, Operation, Idle
  <2>4. /\ op.src \in Vid /\ op.type \in EdgeTypes /\ op.rest \in Seq(Vid)
        /\ op.rest # <<>>
    BY <2>2, <2>3, TxnFacts DEF ChainInv
  <2>5. /\ xid[s] # InvalidXid /\ op.src \in WriterVertices
        /\ \A i \in DOMAIN op.rest : op.rest[i] \in WriterVertices
    BY <2>2, TxnFacts DEF OperationInv
  <2>6. UncommittedRun'
    BY <2>2, <2>5, WriterReads
  <2>. QED
    BY <2>1, <2>2, <2>4, <2>5, <2>6, WriteRunRefines
<1>. QED
  BY <1>1, <1>2, <1>3

-----------------------------------------------------------------------------
(* Tombstones.                                                             *)

\* A chain's page is followed by a page of the same vertex, or none.
LEMMA NextOfOwner ==
  ASSUME TypeOK, StoreShape, NEW b \in Block, page[b].kind = "adj",
         page[b].next # NoBlock
  PROVE  /\ page[b].next \in Block
         /\ page[page[b].next].kind = "adj"
         /\ page[page[b].next].owner = page[b].owner
<1>1. page \in Pages /\ VidsOnce(page, meta.nextVid) /\ AdjacencyShape(page)
  BY StorePages DEF StoreShape, Shape
<1>2. PICK p \in Positions(page) : RecordAt(page, p).vid = page[b].owner
  BY <1>1 DEF VidsOnce
<1>. DEFINE v == page[b].owner
            head == RecordAt(page, p).head
<1>3. /\ head \in Link
      /\ Walk(Nexts(page), head) = OwnedPages(page, v)
  BY <1>1, <1>2 DEF AdjacencyShape, ChainShape, IsChain
<1>4. b \in OwnedPages(page, v)
  BY DEF OwnedPages
<1>. HIDE DEF v, head
<1>5. head \in Block
  BY <1>3, <1>4, WalkNowhere DEF Link
<1>6. Closed(Nexts(page), OwnedPages(page, v))
  BY <1>1, <1>3, <1>5, NextsType, WalkClosed
<1>7. page[b].next \in OwnedPages(page, v)
  BY <1>1, <1>4, <1>6, NextsType DEF Closed
<1>. QED
  BY <1>7 DEF OwnedPages, v

LEMMA HeadOfOwner ==
  ASSUME TypeOK, StoreShape, NEW p \in VertexPositions, VertexAt(p).head # NoBlock
  PROVE  /\ VertexAt(p).head \in Block
         /\ page[VertexAt(p).head].kind = "adj"
         /\ page[VertexAt(p).head].owner = VertexAt(p).vid
<1>1. p \in Positions(page) /\ VertexAt(p) = RecordAt(page, p) /\ AdjacencyShape(page)
  BY StorePages DEF StoreShape, Shape
<1>. DEFINE v == VertexAt(p).vid
            head == VertexAt(p).head
<1>2. /\ head \in Link
      /\ Walk(Nexts(page), head) = OwnedPages(page, v)
  BY <1>1 DEF AdjacencyShape, ChainShape, IsChain
<1>3. head # NoBlock
  OBVIOUS
<1>. HIDE DEF v, head
<1>4. head \in Block
  BY <1>2, <1>3 DEF Link
<1>5. head \in OwnedPages(page, v)
  BY <1>2, <1>4, WalkClosed
<1>. QED
  BY <1>4, <1>5 DEF OwnedPages, v, head

LEMMA TombstoneEdgeRefines ==
  ASSUME TxnInv, StoreShape', NEW s \in Sessions, NEW src \in Vid, NEW dst \in Vid, NEW t,
         TombstoneEdge(s, src, dst, t)
  PROVE  /\ \/ Abstract!Write
            \/ UNCHANGED <<GraphView(InvalidXid), GraphView(WriterXid)>>
         /\ UncommittedRun' /\ OperationInv'
<1>1. lock = s /\ xid[s] # InvalidXid /\ UNCHANGED txns /\ page' = page
  BY DEF TombstoneEdge, MayWrite, store
<1>2. PICK p \in Located(xid[s], src) :
        op' = [name |-> "tombstone", blk |-> VertexAt(p).head, dst |-> dst, type |-> t]
  BY DEF TombstoneEdge
<1>3. p \in VertexPositions
  BY TxnFacts, LocatedIsAlive
<1>4. \/ Abstract!Write
      \/ UNCHANGED <<GraphView(InvalidXid), GraphView(WriterXid)>>
  BY <1>1, WriteRefines
<1>5. dst # AnyVid
  BY Constants DEF Vid, AnyVid
<1>6. OperationInv'
  <2>1. /\ op'.name = "tombstone" /\ op'.blk = VertexAt(p).head /\ op'.dst = dst
    BY <1>2
  <2>2. op'.blk # NoBlock => page'[op'.blk].kind = "adj"
    BY <1>1, <1>3, <2>1, TxnFacts, HeadOfOwner
  <2>3. lock' \in Sessions /\ xid'[lock'] # InvalidXid
    BY <1>1, WriterReads
  <2>. QED
    BY <1>5, <2>1, <2>2, <2>3 DEF OperationInv
<1>. QED
  BY <1>1, <1>4, <1>6, WriterReads

SameOwners(pg, qg) ==
  \A b \in Block : qg[b].kind = pg[b].kind /\ qg[b].owner = pg[b].owner

LEMMA RecordTombstoned ==
  ASSUME TypeOK, NEW p \in VertexPositions, NEW x,
         NEW qg, qg = [page EXCEPT ![p[1]] = TombstonedPage(p, x)]
  PROVE  /\ RecordDeleted(page, qg, p, x)
         /\ SameOwners(page, qg)
<1>1. /\ page \in Pages /\ p[1] \in Block /\ p[2] \in DOMAIN page[p[1]].vertices
      /\ p \in Positions(page) /\ VertexAt(p) = RecordAt(page, p)
      /\ VertexAt(p) \in VertexRecord
  BY PositionType, StorePages DEF TypeOK
<1>. DEFINE b == p[1]
            i == p[2]
            r == VertexAt(p)
            q == [r EXCEPT !.deleted = TRUE, !.xmax = x]
            vs == [page[b].vertices EXCEPT ![i] = q]
<1>2. q.vid = r.vid /\ q.xmin = r.xmin /\ q.xmax = x /\ q.deleted
  BY <1>1 DEF VertexRecord
<1>3. r = RecordAt(page, p)
  BY <1>1
<1>. HIDE DEF q, r
<1>4. /\ DOMAIN vs = DOMAIN page[b].vertices /\ vs[i] = q
      /\ \A j \in DOMAIN vs : j # i => vs[j] = page[b].vertices[j]
  BY <1>1
<1>. HIDE DEF vs
<1>5. qg[b] = [page[b] EXCEPT !.vertices = vs]
  BY <1>1 DEF TombstonedPage, vs, q, r, Pages
<1>6. \A c \in Block : c # b => qg[c] = page[c]
  BY DEF b
<1>7. /\ qg[b].kind = page[b].kind /\ qg[b].owner = page[b].owner
      /\ qg[b].slots = page[b].slots /\ qg[b].vertices = vs
  <2>1. page[b] \in Page
    BY <1>1 DEF Pages
  <2>. QED
    BY <1>5, <2>1 DEF Page
<1>8. Slots(qg) = Slots(page) /\ \A k \in Slots(page) : SlotAt(qg, k) = SlotAt(page, k)
  <2>1. \A c \in Block : qg[c].slots = page[c].slots
    BY <1>6, <1>7
  <2>. QED
    BY <2>1, SlotOf DEF Slots, SlotAt
<1>9. Positions(qg) = Positions(page)
  BY <1>4, <1>6, <1>7, SamePositions
<1>10. ASSUME NEW k \in Positions(page), k # p
       PROVE  RecordAt(qg, k) = RecordAt(page, k)
  <2>1. k[1] \in Block /\ k[2] \in DOMAIN page[k[1]].vertices /\ k = <<k[1], k[2]>>
    BY <1>1, RecordType
  <2>2. p = <<p[1], p[2]>>
    BY <1>1, RecordType
  <2>3. k[1] = b => k[2] # i
    BY <1>10, <2>1, <2>2 DEF b, i
  <2>. QED
    BY <1>4, <1>6, <1>7, <2>1, <2>3 DEF RecordAt
<1>11. RecordAt(qg, p) = q
  BY <1>4, <1>7 DEF RecordAt, b, i
<1>12. \A c \in Block : qg[c].kind = page[c].kind /\ qg[c].owner = page[c].owner
  BY <1>6, <1>7
<1>. QED
  BY <1>1, <1>2, <1>3, <1>8, <1>9, <1>10, <1>11, <1>12
  DEF RecordDeleted, SameOwners

LEMMA TombstoneVertexRefines ==
  ASSUME TxnInv, StoreShape', NEW s \in Sessions, NEW v \in Vid, TombstoneVertex(s, v)
  PROVE  /\ \/ Abstract!Write
            \/ UNCHANGED <<GraphView(InvalidXid), GraphView(WriterXid)>>
         /\ UncommittedRun' /\ OperationInv'
<1>. DEFINE x  == xid[s]
            qg == page'
<1>1. lock = s /\ x # InvalidXid /\ UNCHANGED txns
  BY DEF TombstoneVertex, MayWrite
<1>2. /\ x # FrozenXid /\ x \notin committed /\ UncommittedRun'
      /\ WriterVertices' = Vertices(qg, committed, x)
      /\ lock' \in Sessions /\ xid'[lock'] # InvalidXid
  BY <1>1, WriterReads
<1>3. PICK p \in VertexPositions :
        /\ p \in Located(x, v)
        /\ qg = [page EXCEPT ![p[1]] = TombstonedPage(p, x)]
        /\ op' = [name |-> "tombstone", blk |-> VertexAt(p).head,
                  dst |-> AnyVid, type |-> AnyType]
  BY TxnFacts, TombstoneVertexPage
<1>4. /\ VertexAt(p).vid = v /\ Alive(committed, x, RecordAt(page, p))
      /\ RecordAt(page, p).vid = v
  BY <1>3, TxnFacts, LocatedIsAlive, StorePages
<1>5. VidsOnce(page, meta.nextVid)
  BY TxnFacts DEF StoreShape, Shape
<1>. HIDE DEF x, qg
<1>6. /\ RecordDeleted(page, qg, p, x)
      /\ \A b \in Block : qg[b].kind = page[b].kind /\ qg[b].owner = page[b].owner
  <2>1. TypeOK /\ qg = [page EXCEPT ![p[1]] = TombstonedPage(p, x)]
    BY <1>3, TxnFacts
  <2>2. RecordDeleted(page, qg, p, x)
    BY <2>1, RecordTombstoned
  <2>3. SameOwners(page, qg)
    BY <2>1, RecordTombstoned
  <2>. QED
    BY <2>2, <2>3 DEF SameOwners
<1>7. /\ Graph(qg, committed, InvalidXid) = Graph(page, committed, InvalidXid)
      /\ v \in Vertices(page, committed, x)
      /\ Vertices(qg, committed, x) = Vertices(page, committed, x) \ {v}
      /\ Edges(qg, committed, x) = {f \in Edges(page, committed, x) : f.src # v}
  BY <1>1, <1>2, <1>4, <1>5, <1>6, GraphRecordDeleted
<1>8. Abstract!Changes(Graph(page, committed, x), Graph(qg, committed, x))
  BY <1>7 DEF Graph, Abstract!Changes, Abstract!RemovesVertex
<1>9. \/ Abstract!Write
      \/ UNCHANGED <<GraphView(InvalidXid), GraphView(WriterXid)>>
  BY <1>1, <1>7, <1>8, WriteRefines DEF x, qg
<1>10. OperationInv'
  <2>1. op'.name = "tombstone" /\ op'.blk = VertexAt(p).head
    BY <1>3
  <2>2. VertexAt(p).head # NoBlock =>
          qg[VertexAt(p).head].kind = "adj" /\ qg[VertexAt(p).head].owner = v
    BY <1>4, <1>6, TxnFacts, HeadOfOwner
  <2>3. v \notin WriterVertices'
    BY <1>2, <1>7
  <2>. QED
    BY <1>2, <2>1, <2>2, <2>3 DEF OperationInv, qg
<1>. QED
  BY <1>2, <1>9, <1>10

\* The slots of a page rewritten in place.
LEMMA SlotsTombstoned ==
  ASSUME NEW pg \in Pages, NEW qg, NEW b \in Block, NEW x, NEW dst, NEW t,
         NEW ss, qg = WithSlots(pg, b, ss),
         ss = [i \in DOMAIN pg[b].slots |-> TombstoneSlot(x, pg[b].slots[i], dst, t)],
         NEW G,
         G = {<<b, i>> : i \in {j \in DOMAIN pg[b].slots : Matches(x, pg[b].slots[j], dst, t)}}
  PROVE  SlotsDeleted(pg, qg, G, x) /\ SameOwners(pg, qg)
<1>1. /\ qg[b].kind = pg[b].kind /\ qg[b].owner = pg[b].owner
      /\ qg[b].vertices = pg[b].vertices /\ qg[b].slots = ss
  <2>1. pg[b] \in Page /\ qg[b] = [pg[b] EXCEPT !.slots = ss]
    BY DEF Pages, WithSlots
  <2>. QED
    BY <2>1 DEF Page
<1>2. \A c \in Block : c # b => qg[c] = pg[c]
  BY DEF Pages, WithSlots
<1>3. DOMAIN ss = DOMAIN pg[b].slots
  OBVIOUS
<1>4. pg[b].slots \in Seq(EdgeSlot)
  BY DEF Pages, Page
<1>5. ASSUME NEW i \in DOMAIN pg[b].slots
      PROVE  /\ pg[b].slots[i] \in EdgeSlot
             /\ ss[i] = TombstoneSlot(x, pg[b].slots[i], dst, t)
  BY <1>4, LenProperties, ElementOfSeq
<1>6. ASSUME NEW r \in EdgeSlot
      PROVE  LET q == TombstoneSlot(x, r, dst, t)
             IN  /\ ~Matches(x, r, dst, t) => q = r
                 /\ Matches(x, r, dst, t) =>
                      /\ q.src = r.src /\ q.dst = r.dst /\ q.type = r.type
                      /\ q.xmin = r.xmin /\ q.xmax = x /\ q.deleted
  <2>1. CASE ~Matches(x, r, dst, t)
    BY <2>1 DEF TombstoneSlot
  <2>2. CASE Matches(x, r, dst, t)
    <3>1. TombstoneSlot(x, r, dst, t) = [r EXCEPT !.deleted = TRUE, !.xmax = x]
      BY <2>2 DEF TombstoneSlot
    <3>. QED
      BY <2>2, <3>1 DEF EdgeSlot
  <2>. QED
    BY <2>1, <2>2
<1>7. Slots(qg) = Slots(pg)
  <2>1. \A c \in Block : DOMAIN qg[c].slots = DOMAIN pg[c].slots
    BY <1>1, <1>2, <1>3
  <2>. QED
    BY <2>1 DEF Slots
<1>8. Positions(qg) = Positions(pg)
  BY <1>1, <1>2, SamePositions
<1>9. \A p \in Positions(pg) : RecordAt(qg, p) = RecordAt(pg, p)
  <2>1. \A c \in Block : qg[c].vertices = pg[c].vertices
    BY <1>1, <1>2
  <2>. QED
    BY <2>1 DEF Positions, RecordAt
<1>10. ASSUME NEW q \in Slots(pg), q \notin G
       PROVE  SlotAt(qg, q) = SlotAt(pg, q)
  <2>1. q[1] \in Block /\ q[2] \in DOMAIN pg[q[1]].slots /\ q = <<q[1], q[2]>>
    BY SlotOf
  <2>2. CASE q[1] # b
    BY <1>2, <2>1, <2>2 DEF SlotAt
  <2>3. CASE q[1] = b
    <3>1. ~Matches(x, pg[b].slots[q[2]], dst, t)
      BY <1>10, <2>1, <2>3
    <3>2. ss[q[2]] = pg[b].slots[q[2]]
      BY <1>5, <1>6, <2>1, <2>3, <3>1
    <3>. QED
      BY <1>1, <2>3, <3>2 DEF SlotAt
  <2>. QED
    BY <2>2, <2>3
<1>11. ASSUME NEW q \in G
       PROVE  /\ q \in Slots(pg)
              /\ SlotAt(qg, q).src = SlotAt(pg, q).src
              /\ SlotAt(qg, q).dst = SlotAt(pg, q).dst
              /\ SlotAt(qg, q).type = SlotAt(pg, q).type
              /\ SlotAt(qg, q).xmin = SlotAt(pg, q).xmin
              /\ SlotAt(qg, q).xmax = x /\ SlotAt(qg, q).deleted
  <2>1. PICK i \in DOMAIN pg[b].slots :
          q = <<b, i>> /\ Matches(x, pg[b].slots[i], dst, t)
    OBVIOUS
  <2>2. q \in Slots(pg) /\ SlotAt(pg, q) = pg[b].slots[i] /\ SlotAt(qg, q) = ss[i]
    BY <1>1, <2>1, SlotIn DEF SlotAt
  <2>. QED
    BY <1>5, <1>6, <2>1, <2>2
<1>. QED
  BY <1>1, <1>2, <1>7, <1>8, <1>9, <1>10, <1>11 DEF SlotsDeleted, SameOwners

LEMMA TombstoneAdjacencyRefines ==
  ASSUME TxnInv, StoreShape', NEW s \in Sessions, TombstoneAdjacency(s)
  PROVE  /\ \/ Abstract!Write
            \/ UNCHANGED <<GraphView(InvalidXid), GraphView(WriterXid)>>
         /\ UncommittedRun' /\ OperationInv'
<1>. DEFINE x   == xid[s]
            qg  == page'
            b   == op.blk
            dst == op.dst
            t   == op.type
<1>1. lock = s /\ op.name = "tombstone" /\ UNCHANGED txns
  BY DEF TombstoneAdjacency
<1>2. x # InvalidXid
  BY <1>1, TxnFacts DEF OperationInv
<1>3. /\ x # FrozenXid /\ x \notin committed /\ UncommittedRun'
      /\ WriterVertices = Vertices(page, committed, x)
      /\ WriterVertices' = Vertices(qg, committed, x)
      /\ lock' \in Sessions /\ xid'[lock'] # InvalidXid
  BY <1>1, <1>2, WriterReads
<1>4. op \in [name : {"tombstone"}, blk : Link, dst : Vid \cup {AnyVid},
              type : EdgeTypes \cup {AnyType}]
  BY <1>1, TxnFacts DEF TypeOK, Operation, Idle
<1>5. CASE b = NoBlock
  <2>1. op' = Idle /\ page' = page
    BY <1>5 DEF TombstoneAdjacency
  <2>2. OperationInv'
    BY <2>1 DEF OperationInv, Idle
  <2>. QED
    BY <1>1, <1>2, <1>3, <2>1, <2>2, WriteRefines
<1>6. CASE b # NoBlock
  <2>1. b \in Block /\ page[b].kind = "adj" /\ (dst = AnyVid => page[b].owner \notin WriterVertices)
    BY <1>1, <1>4, <1>6, TxnFacts DEF OperationInv, Link
  <2>. DEFINE ss == [i \in DOMAIN page[b].slots |-> TombstoneSlot(x, page[b].slots[i], dst, t)]
              G == {<<b, i>> : i \in {j \in DOMAIN page[b].slots :
                                        Matches(x, page[b].slots[j], dst, t)}}
  <2>2. qg = WithSlots(page, b, ss)
    BY <1>6 DEF TombstoneAdjacency, WithSlots
  <2>3. op'.name = "tombstone" /\ op'.blk = page[b].next /\ op'.dst = dst
    <3>1. op' = [op EXCEPT !.blk = page[b].next]
      BY <1>6 DEF TombstoneAdjacency
    <3>. HIDE DEF b, dst
    <3>2. op.name = "tombstone" /\ op.dst = dst
      BY <1>1 DEF dst
    <3>. QED
      BY <1>4, <3>1, <3>2
  <2>. HIDE DEF x, qg, b, dst, t
  <2>4. SlotsDeleted(page, qg, G, x) /\ SameOwners(page, qg)
    <3>. HIDE DEF ss, G
    <3>1. page \in Pages
      BY TxnFacts, StorePages
    <3>2. ss = [i \in DOMAIN page[b].slots |-> TombstoneSlot(x, page[b].slots[i], dst, t)]
      BY DEF ss
    <3>3. G = {<<b, i>> : i \in {j \in DOMAIN page[b].slots :
                                   Matches(x, page[b].slots[j], dst, t)}}
      BY DEF G
    <3>. QED
      BY <2>1, <2>2, <3>1, <3>2, <3>3, SlotsTombstoned
  <2>5. ASSUME NEW q \in G
        PROVE  /\ Alive(committed, x, SlotAt(page, q))
               /\ dst \in {AnyVid, SlotAt(page, q).dst}
               /\ q[1] = b /\ q \in Slots(page)
    <3>1. PICK i \in DOMAIN page[b].slots :
            q = <<b, i>> /\ Matches(x, page[b].slots[i], dst, t)
      OBVIOUS
    <3>2. q \in Slots(page) /\ SlotAt(page, q) = page[b].slots[i] /\ q[1] = b
      BY <2>1, <3>1, SlotIn
    <3>. QED
      BY <3>1, <3>2, LiveIsAlive DEF Matches
  <2>. HIDE DEF G
  <2>. DEFINE gone == {EdgeOf(page, q) : q \in G \cap AliveSlots(page, committed, x)}
  <2>6. /\ Graph(qg, committed, InvalidXid) = Graph(page, committed, InvalidXid)
        /\ Vertices(qg, committed, x) = Vertices(page, committed, x)
        /\ Edges(qg, committed, x) = Edges(page, committed, x) \ gone
    BY <1>2, <1>3, <2>4, <2>5, GraphSlotsDeleted
  <2>7. ASSUME NEW q \in G \cap AliveSlots(page, committed, x)
        PROVE  /\ EdgeOf(page, q).src = page[b].owner
               /\ EdgeOf(page, q).dst = dst
               /\ EdgeOf(page, q) \in Edges(page, committed, x)
    <3>1. Shape(page, eof, meta.first, meta.last, meta.nextVid)
      BY TxnFacts DEF StoreShape
    <3>2. SlotAt(page, q).src = page[b].owner
      BY <2>5, <3>1, SlotOwner
    <3>3. SlotAt(page, q).src \in WriterVertices
      BY <1>3 DEF AliveSlots
    <3>4. dst = SlotAt(page, q).dst
      BY <2>1, <2>5, <3>2, <3>3
    <3>. QED
      BY <3>2, <3>4, EdgeFields DEF Edges
  <2>8. gone \subseteq Edges(page, committed, x)
    BY <2>7
  <2>9. \A f \in gone : f.src = page[b].owner /\ f.dst = dst
    BY <2>7
  <2>. HIDE DEF gone
  <2>10. \/ Graph(qg, committed, x) = Graph(page, committed, x)
         \/ Abstract!Changes(Graph(page, committed, x), Graph(qg, committed, x))
    <3>. DEFINE g == Graph(page, committed, x)
                h == Graph(qg, committed, x)
                V == Vertices(page, committed, x)
                E == Edges(page, committed, x)
    <3>1. g = [vertices |-> V, edges |-> E] /\ h = [vertices |-> V, edges |-> E \ gone]
      BY <2>6 DEF Graph
    <3>. HIDE DEF g, h, V
    <3>2. CASE gone = {}
      <4>1. E \ gone = E
        BY <3>2
      <4>2. h = g
        BY <3>1, <4>1
      <4>. QED
        BY <4>2 DEF g, h
    <3>3. CASE gone # {}
      <4>1. g.edges \ h.edges = gone
        BY <2>8, <3>1
      <4>2. h = [g EXCEPT !.edges = @ \ gone]
        BY <3>1
      <4>3. Abstract!RemovesEdges(g, h)
        BY <2>9, <3>3, <4>1, <4>2 DEF Abstract!RemovesEdges
      <4>. QED
        BY <4>3 DEF Abstract!Changes, g, h
    <3>. QED
      BY <3>2, <3>3
  <2>11. \/ Abstract!Write
         \/ UNCHANGED <<GraphView(InvalidXid), GraphView(WriterXid)>>
    BY <1>1, <1>2, <2>6, <2>10, WriteRefines DEF x, qg
  <2>12. OperationInv'
    <3>1. page[b].next # NoBlock =>
            /\ page[b].next \in Block
            /\ page[page[b].next].kind = "adj"
            /\ page[page[b].next].owner = page[b].owner
      BY <2>1, TxnFacts, NextOfOwner
    <3>2. page[b].next # NoBlock =>
            /\ qg[page[b].next].kind = "adj"
            /\ dst = AnyVid => qg[page[b].next].owner \notin WriterVertices'
      BY <1>3, <2>1, <2>4, <2>6, <3>1 DEF SameOwners
    <3>. QED
      BY <1>3, <2>3, <3>2 DEF OperationInv, qg
  <2>. QED
    BY <1>3, <2>11, <2>12
<1>. QED
  BY <1>5, <1>6

-----------------------------------------------------------------------------
(* Freeze, and every step together.                                        *)

LEMMA FreezeReads ==
  ASSUME FreezeInv, StoreShape, StoreShape', NEW s \in Sessions, FreezeStep(s),
         NEW own \in Viewers
  PROVE  Graph(page', committed', own) = Graph(page, committed, own)
<1>1. Shape(page, eof, meta.first, meta.last, meta.nextVid)
  BY DEF StoreShape
<1>2. Shape(page', eof', meta'.first, meta'.last, meta'.nextVid)
  BY DEF StoreShape
<1>3. (GraphView(own))' = GraphView(own)
  BY FreezeStepInvisible
<1>4. /\ GraphView(own) = WalkedGraph(page, meta.first, committed, own)
      /\ (GraphView(own))' = WalkedGraph(page', meta'.first, committed', own)
  BY NextViewIsWalked
<1>. QED
  BY <1>1, <1>2, <1>3, <1>4, WalkedIsFlat

LEMMA FreezeRefines ==
  ASSUME TxnInv, StoreShape', NEW s \in Sessions,
         (\E horizon \in NormalXid : FreezeBegin(s, horizon)) \/ FreezeStep(s)
  PROVE  /\ UNCHANGED <<GraphView(InvalidXid), GraphView(WriterXid)>>
         /\ UncommittedRun' /\ OperationInv'
<1>1. UNCHANGED txns
  BY DEF FreezeBegin, FreezeStep, FreezeVertexPage, FreezeDescend, FreezeAdjPage,
     FreezeRecordHorizon, FreezeRelstats
<1>2. committed' = committed /\ WriterXid' = WriterXid
  BY <1>1 DEF txns, WriterXid
<1>3. UncommittedRun'
  BY <1>1, TxnFacts DEF txns, UncommittedRun
<1>4. op'.name \in {"freeze", "relstats", "idle"}
  <2>1. CASE FreezeVertexPage(s) \/ FreezeDescend(s) \/ FreezeAdjPage(s)
    <3>1. op.name = "freeze"
      BY <2>1 DEF FreezeVertexPage, FreezeDescend, FreezeAdjPage, Freezing
    <3>2. op \in [name : {"freeze"}, horizon : NormalXid, vblk : Link,
                  ablk : Link, heads : Seq(Link)]
      BY <3>1, TxnFacts DEF TypeOK, Operation, Idle
    <3>. QED
      BY <2>1, <3>2 DEF FreezeVertexPage, FreezeDescend, FreezeAdjPage
  <2>2. CASE FreezeRecordHorizon(s) \/ FreezeRelstats(s)
    BY <2>2 DEF FreezeRecordHorizon, FreezeRelstats, Idle
  <2>3. CASE \E horizon \in NormalXid : FreezeBegin(s, horizon)
    BY <2>3 DEF FreezeBegin
  <2>. QED
    BY <2>1, <2>2, <2>3 DEF FreezeStep
<1>5. OperationInv'
  BY <1>4 DEF OperationInv
<1>6. /\ Graph(page', committed', InvalidXid) = Graph(page, committed, InvalidXid)
      /\ Graph(page', committed', WriterXid) = Graph(page, committed, WriterXid)
  <2>1. CASE \E horizon \in NormalXid : FreezeBegin(s, horizon)
    BY <1>2, <2>1 DEF FreezeBegin, store
  <2>2. CASE FreezeStep(s)
    <3>1. InvalidXid \in Viewers /\ WriterXid \in Viewers
      BY TxnFacts, XidTypes DEF Viewers, Running, WriterXid
    <3>. QED
      BY <2>2, <3>1, TxnFacts, FreezeReads
  <2>. QED
    BY <2>1, <2>2
<1>7. UNCHANGED <<GraphView(InvalidXid), GraphView(WriterXid)>>
  BY <1>2, <1>6, TxnFacts, ViewsAreFlat, NextViewsAreFlat
<1>. QED
  BY <1>3, <1>5, <1>7

LEMMA SessionRefines ==
  ASSUME TxnInv, StoreShape', NEW s \in Sessions, Session(s)
  PROVE  /\ \/ Abstract!Next
            \/ UNCHANGED <<GraphView(InvalidXid), GraphView(WriterXid)>>
         /\ UncommittedRun' /\ OperationInv'
<1>1. CASE \/ AssignXid(s)
           \/ AcquireWriterLock(s)
           \/ Commit(s)
           \/ Abort(s)
           \/ AbortExtended(s)
  BY <1>1, TransactionRefines, TransactionOperation DEF Abstract!Next
<1>2. CASE InsertSome(s) \/ ContinueInsertEdges(s)
  <2>1. CASE InsertVertex(s)
    BY <2>1, InsertVertexRefines DEF Abstract!Next
  <2>2. CASE \/ \E src, dst \in Vid, t \in EdgeTypes : InsertEdge(s, src, dst, t)
             \/ \E src \in Vid, dsts \in Batches, t \in EdgeTypes :
                  InsertEdges(s, src, dsts, t)
             \/ ContinueInsertEdges(s)
    BY <2>2, BatchType, InsertEdgesRefines DEF Abstract!Next
  <2>. QED
    BY <1>2, <2>1, <2>2 DEF InsertSome
<1>3. CASE TombstoneSome(s) \/ TombstoneAdjacency(s)
  <2>1. CASE \E src, dst \in Vid, t \in EdgeTypes \cup {AnyType} :
               TombstoneEdge(s, src, dst, t)
    BY <2>1, TombstoneEdgeRefines DEF Abstract!Next
  <2>2. CASE \E v \in Vid : TombstoneVertex(s, v)
    BY <2>2, TombstoneVertexRefines DEF Abstract!Next
  <2>3. CASE TombstoneAdjacency(s)
    BY <2>3, TombstoneAdjacencyRefines DEF Abstract!Next
  <2>. QED
    BY <1>3, <2>1, <2>2, <2>3 DEF TombstoneSome
<1>4. CASE (\E horizon \in NormalXid : FreezeBegin(s, horizon)) \/ FreezeStep(s)
  BY <1>4, FreezeRefines
<1>. QED
  BY <1>1, <1>2, <1>3, <1>4 DEF Session, ContinueOperation

LEMMA InitTxn == Init => TxnInv
<1>. SUFFICES ASSUME Init PROVE TxnInv
  OBVIOUS
<1>1. op = Idle /\ committed = {} /\ xid = [s \in Sessions |-> InvalidXid]
  BY DEF Init
<1>2. UncommittedRun /\ OperationInv
  BY <1>1 DEF UncommittedRun, OperationInv, Idle
<1>. QED
  BY <1>2, InitChains, WriterInit, FreezeInvInit DEF TxnInv

LEMMA NextTxn ==
  TxnInv /\ [Next]_vars =>
    /\ TxnInv'
    /\ [Abstract!Next]_<<GraphView(InvalidXid), GraphView(WriterXid)>>
<1>. SUFFICES ASSUME TxnInv, [Next]_vars
              PROVE  /\ TxnInv'
                     /\ [Abstract!Next]_<<GraphView(InvalidXid), GraphView(WriterXid)>>
  OBVIOUS
<1>1. ChainInv' /\ WriterInv' /\ FreezeInv' /\ StoreShape'
  <2>1. ChainInv'
    BY TxnFacts, NextChains
  <2>. QED
    BY <2>1, TxnFacts, WriterNext, FreezeInvNext DEF ChainInv
<1>2. /\ UncommittedRun' /\ OperationInv'
      /\ [Abstract!Next]_<<GraphView(InvalidXid), GraphView(WriterXid)>>
  <2>1. CASE Next
    BY <1>1, <2>1, SessionRefines DEF Next
  <2>2. CASE UNCHANGED vars
    <3>1. /\ page' = page /\ committed' = committed /\ xid' = xid /\ lock' = lock
          /\ nextXid' = nextXid /\ op' = op
      BY <2>2 DEF vars
    <3>2. WriterXid' = WriterXid
      BY <3>1 DEF WriterXid
    <3>3. UNCHANGED <<GraphView(InvalidXid), GraphView(WriterXid)>>
      BY <1>1, <3>1, <3>2, TxnFacts, ViewsAreFlat, NextViewsAreFlat
    <3>4. UncommittedRun' /\ OperationInv'
      BY <3>1, <3>2, TxnFacts DEF UncommittedRun, OperationInv, WriterVertices
    <3>. QED
      BY <3>3, <3>4
  <2>. QED
    BY <2>1, <2>2
<1>. QED
  BY <1>1, <1>2 DEF TxnInv

LEMMA InitGraph == Init => Abstract!Init
<1>. SUFFICES ASSUME Init PROVE Abstract!Init
  OBVIOUS
<1>1. StoreShape
  BY InitChains DEF ChainInv
<1>2. \A b \in Block : DOMAIN page[b].vertices = {} /\ DOMAIN page[b].slots = {}
  BY DEF Init, ZeroPage
<1>3. \A own : Graph(page, committed, own) = [vertices |-> {}, edges |-> {}]
  <2>1. Positions(page) = {} /\ Slots(page) = {}
    BY <1>2 DEF Positions, Slots
  <2>. QED
    BY <2>1 DEF Graph, Edges, AliveSlots, Vertices, AlivePositions
<1>. QED
  BY <1>1, <1>3, ViewsAreFlat DEF Abstract!Init, Abstract!Empty

-----------------------------------------------------------------------------

\* The pages, the raw ids on them and the writer lock implement the
\* transactional graph, whatever the number of sessions and the page sizes:
\* each record of the log changes at most what its own transaction reads, in
\* one of the four ways of TxnGraph, and only a commit changes what the
\* others read, to all that its transaction wrote (FR-7, graph_am.c:66-80).
THEOREM ImplementsTransactions == Spec => ImplementsTxnGraph
<1>1. Init => TxnInv /\ Abstract!Init
  BY InitTxn, InitGraph
<1>2. TxnInv /\ [Next]_vars =>
        /\ TxnInv'
        /\ [Abstract!Next]_<<GraphView(InvalidXid), GraphView(WriterXid)>>
  BY NextTxn
<1>. QED
  BY <1>1, <1>2, PTL DEF Spec, ImplementsTxnGraph, Abstract!Spec

=============================================================================
