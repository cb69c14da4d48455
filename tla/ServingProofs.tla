--------------------------- MODULE ServingProofs ----------------------------
(***************************************************************************)
(* A store that goes on serving: a scan among writers, and a store that    *)
(* comes back from a crash, for every number of sessions, page size and    *)
(* bound.                                                                  *)
(*                                                                         *)
(* The scan.  The argument is about what becomes of a page behind the      *)
(* reader's back.  Writers only append to the ends of chains, so a link    *)
(* once read leads on to the rest of the chain, and a walk from it grows   *)
(* (PagesGrow, WalkGrows).  Of a slot that was copied they change only     *)
(* marks: to frozen if clog has committed the id, to nothing if the        *)
(* transaction is over and lost, and a tombstone is overwritten only if it *)
(* was lost (Follows).  So the copy, judged with clog's answer of a later  *)
(* moment, still says of every edge that stood that it stands, and of one  *)
(* that was deleted at the start that it is gone.  That each slot is       *)
(* answered once and none is passed over is the order of the chain: a      *)
(* chain does not come back to a page (ChainAcyclic).                      *)
(*                                                                         *)
(* The crash.  Whatever prefix of the WAL it keeps is a store that can be  *)
(* served again: each store that a crash may restore (Images) has whole    *)
(* chains, asks clog for no id that it, or a freeze, has declared gone,    *)
(* and holds the same committed graph as the store in memory               *)
(* (Restartable).  For the store in memory that follows from the           *)
(* invariants of GraphStore and from what a freeze pass has swept when it  *)
(* declares its horizon (SweepInv).                                        *)
(***************************************************************************)
EXTENDS GraphScan, GraphRecovery, GraphStoreProofs

-----------------------------------------------------------------------------
(* Walks: what a reader between two pages can rely on.                     *)

\* A walk is longer when pages have been linked to the ends of chains.
LEMMA WalkGrows ==
  ASSUME NEW next \in Links, NEW next2 \in Links,
         NEW S \in SUBSET Block, Closed(next, S),
         \A b \in S : next[b] # NoBlock => next2[b] = next[b],
         NEW first \in S \cup {NoBlock}
  PROVE  Walk(next, first) \subseteq Walk(next2, first)
<1>1. CASE first = NoBlock
  BY <1>1, WalkNowhere
<1>2. CASE first \in S
  <2>. DEFINE V == Walk(next2, first)
              T == S \cap V
  <2>1. first \in V /\ V \subseteq Block /\ Closed(next2, V) /\ first \in Block
    BY <1>2, WalkClosed
  <2>. HIDE DEF V
  <2>2. Closed(next, T)
    BY <2>1 DEF Closed
  <2>3. T \in SUBSET Block /\ first \in T
    BY <1>2, <2>1
  <2>. HIDE DEF T
  <2>4. Walk(next, first) \subseteq T
    BY <2>1, <2>2, <2>3, WalkLeast
  <2>. QED
    BY <2>4 DEF T, V
<1>. QED
  BY <1>1, <1>2

\* What follows a page of a chain does not lead back to it: from a cycle the
\* walk would never come to the chain's end.
LEMMA ChainAcyclic ==
  ASSUME NEW next \in Links, NEW S, NEW first, NEW last,
         IsChain(next, S, first, last), NEW b \in S
  PROVE  b \notin Walk(next, next[b])
<1>. SUFFICES ASSUME b \in Walk(next, next[b]) PROVE FALSE
  OBVIOUS
<1>. DEFINE C == Walk(next, next[b])
<1>1. /\ S \subseteq Block /\ b \in Block /\ next[b] # NoBlock /\ next[b] \in Block
      /\ first \in Block /\ last \in S /\ next[last] = NoBlock
      /\ Walk(next, first) = S
  <2>1. /\ S \subseteq Block /\ b \in Block /\ first # NoBlock /\ last # NoBlock
        /\ first \in Link /\ Walk(next, first) = S
        /\ {c \in S : next[c] = NoBlock} = {last} \ {NoBlock}
    BY WalkNowhere DEF IsChain
  <2>2. next[b] # NoBlock
    BY WalkNowhere
  <2>. QED
    BY <2>1, <2>2, LinkType DEF Link
<1>2. /\ next[b] \in C /\ C \subseteq Block /\ Closed(next, C) /\ b \in C
  BY <1>1, WalkClosed
<1>3. \A c \in Block : Walk(next, c) = {c} \cup Walk(next, next[c])
  BY WalkUnfolds
\* Every page of the cycle leads to b, so none of them is an end.
<1>4. C \subseteq {c \in C : b \in Walk(next, c)}
  <2>. DEFINE D == {c \in C : b \in Walk(next, c)}
  <2>1. next[b] \in D /\ D \in SUBSET Block
    BY <1>2
  <2>2. Closed(next, D)
    <3>. SUFFICES ASSUME NEW c \in D, next[c] # NoBlock PROVE next[c] \in D
      BY DEF Closed
    <3>1. c \in C /\ c \in Block /\ next[c] \in C /\ b \in Walk(next, c)
      BY <1>2 DEF Closed
    <3>2. CASE c = b
      BY <2>1, <3>2
    <3>3. CASE c # b
      BY <1>3, <3>1, <3>3
    <3>. QED
      BY <3>2, <3>3
  <2>. HIDE DEF D
  <2>3. Walk(next, next[b]) \subseteq D
    BY <1>1, <2>1, <2>2, WalkLeast
  <2>. QED
    BY <2>3 DEF D
<1>5. \A c \in C : next[c] # NoBlock
  <2>. SUFFICES ASSUME NEW c \in C, next[c] = NoBlock PROVE FALSE
    OBVIOUS
  <2>1. c \in Block /\ b \in Walk(next, c)
    BY <1>2, <1>4
  <2>2. Walk(next, c) = {c}
    BY <1>3, <2>1, WalkNowhere
  <2>. QED
    BY <1>1, <2>1, <2>2
\* Every page of the chain leads into the cycle, its end as well.
<1>. HIDE DEF C
<1>6. S \subseteq {c \in S : Walk(next, c) \cap C # {}}
  <2>. DEFINE D == {c \in S : Walk(next, c) \cap C # {}}
  <2>1. first \in D /\ D \in SUBSET Block
    <3>1. first \in S
      BY <1>1, WalkClosed
    <3>. QED
      BY <1>1, <1>2, <3>1
  <2>2. Closed(next, D)
    <3>. SUFFICES ASSUME NEW c \in D, next[c] # NoBlock PROVE next[c] \in D
      BY DEF Closed
    <3>1. c \in S /\ c \in Block /\ next[c] \in Block /\ Walk(next, c) \cap C # {}
      BY <1>1, LinkType
    <3>2. next[c] \in S
      BY <1>1, <3>1, WalkClosed DEF Closed
    <3>3. CASE c \in C
      <4>1. next[c] \in C /\ next[c] \in Walk(next, next[c])
        BY <1>2, <3>1, <3>3, WalkClosed DEF Closed
      <4>. QED
        BY <3>2, <4>1
    <3>4. CASE c \notin C
      <4>1. Walk(next, next[c]) \cap C # {}
        BY <1>3, <3>1, <3>4
      <4>. QED
        BY <3>2, <4>1
    <3>. QED
      BY <3>3, <3>4
  <2>. HIDE DEF D
  <2>3. Walk(next, first) \subseteq D
    BY <1>1, <2>1, <2>2, WalkLeast
  <2>. QED
    BY <1>1, <2>3 DEF D
<1>7. Walk(next, last) = {last}
  BY <1>1, <1>3, WalkNowhere
<1>. QED
  BY <1>1, <1>5, <1>6, <1>7
-----------------------------------------------------------------------------
(* What becomes of a page after a reader has let it go.                    *)

\* The transaction x has ended without a commit, given the ids that committed,
\* the next id and the running ones.
Lost(com, n, run, x) == x \notin com /\ x \notin run /\ x < n /\ x # FrozenXid

\* e is what a slot became that a reader once copied as c: its ids are what
\* they were, or frozen, or those of lost transactions and overwritten.
Follows(com, n, run, c, e) ==
  /\ e.src = c.src /\ e.type = c.type
  /\ \/ e.xmin = c.xmin
     \/ e.xmin = FrozenXid /\ c.xmin \in com
     \/ e.xmin = InvalidXid /\ Lost(com, n, run, c.xmin)
  /\ c.deleted => \/ e.deleted /\ e.xmax = c.xmax
                  \/ e.deleted /\ e.xmax = FrozenXid /\ c.xmax \in com
                  \/ Lost(com, n, run, c.xmax)

\* A page in use keeps its link, once it has one, its vids and its slots.
PagesGrow(pg, qg, com, n, run) ==
  /\ \A b \in Block : pg[b].kind # "zero" =>
       /\ qg[b].kind = pg[b].kind /\ qg[b].owner = pg[b].owner
       /\ pg[b].next # NoBlock => qg[b].next = pg[b].next
  /\ \A p \in Positions(pg) :
       p \in Positions(qg) /\ RecordAt(qg, p).vid = RecordAt(pg, p).vid
  /\ \A q \in Slots(pg) :
       q \in Slots(qg) /\ Follows(com, n, run, SlotAt(pg, q), SlotAt(qg, q))

LEMMA FollowsItself ==
  ASSUME NEW com, NEW n, NEW run, NEW e
  PROVE  Follows(com, n, run, e, e)
BY DEF Follows

LEMMA FollowsOn ==
  ASSUME NEW com, InvalidXid \notin com, FrozenXid \notin com, NEW n, NEW run,
         NEW c, NEW e, NEW f,
         Follows(com, n, run, c, e), Follows(com, n, run, e, f)
  PROVE  Follows(com, n, run, c, f)
BY Constants DEF Follows, Lost

\* What is lost stays lost, and what follows goes on following.
LEMMA LostStays ==
  ASSUME NEW com, NEW n \in Nat, NEW run, NEW com2, NEW n2 \in Nat, NEW run2,
         n <= n2, com2 \subseteq com \cup run, run2 \subseteq run \cup {n},
         NEW x \in Nat, Lost(com, n, run, x)
  PROVE  Lost(com2, n2, run2, x)
BY DEF Lost

LEMMA FollowsLater ==
  ASSUME NEW com, NEW n \in Nat, NEW run, NEW com2, NEW n2 \in Nat, NEW run2,
         n <= n2, com \subseteq com2, com2 \subseteq com \cup run, run2 \subseteq run \cup {n},
         NEW c \in EdgeSlot, NEW e, Follows(com, n, run, c, e)
  PROVE  Follows(com2, n2, run2, c, e)
<1>1. c.xmin \in Nat /\ c.xmax \in Nat
  BY Constants DEF EdgeSlot, StoredXid
<1>2. \A x \in Nat : Lost(com, n, run, x) => Lost(com2, n2, run2, x)
  BY LostStays
<1>. QED
  BY <1>1, <1>2 DEF Follows

\* What a reader's copy says of a slot that has moved on.
LEMMA FollowsReads ==
  ASSUME NEW com, InvalidXid \notin com, FrozenXid \notin com, NEW n, NEW run,
         NEW c, NEW e, Follows(com, n, run, c, e)
  PROVE  /\ Seen(com, InvalidXid, e.xmin) <=> Seen(com, InvalidXid, c.xmin)
         /\ c.deleted /\ Seen(com, InvalidXid, c.xmax) =>
              e.deleted /\ Seen(com, InvalidXid, e.xmax)
BY Constants DEF Follows, Lost, Seen

LEMMA GrowsInPlace ==
  ASSUME NEW pg, NEW qg, NEW com, NEW n, NEW run,
         \A b \in Block :
           /\ qg[b].kind = pg[b].kind /\ qg[b].owner = pg[b].owner
           /\ qg[b].next = pg[b].next
           /\ DOMAIN qg[b].vertices = DOMAIN pg[b].vertices
           /\ \A i \in DOMAIN pg[b].vertices : qg[b].vertices[i].vid = pg[b].vertices[i].vid
           /\ DOMAIN qg[b].slots = DOMAIN pg[b].slots
           /\ \A i \in DOMAIN pg[b].slots :
                Follows(com, n, run, pg[b].slots[i], qg[b].slots[i])
  PROVE  PagesGrow(pg, qg, com, n, run)
<1>1. ASSUME NEW p \in Positions(pg)
      PROVE  p \in Positions(qg) /\ RecordAt(qg, p).vid = RecordAt(pg, p).vid
  <2>1. PICK b \in Block : \E i \in DOMAIN pg[b].vertices : p = <<b, i>>
    BY DEF Positions
  <2>. QED
    BY <2>1 DEF Positions, RecordAt
<1>2. ASSUME NEW q \in Slots(pg)
      PROVE  q \in Slots(qg) /\ Follows(com, n, run, SlotAt(pg, q), SlotAt(qg, q))
  <2>1. PICK b \in Block : \E i \in DOMAIN pg[b].slots : q = <<b, i>>
    BY DEF Slots
  <2>. QED
    BY <2>1 DEF Slots, SlotAt
<1>. QED
  BY <1>1, <1>2 DEF PagesGrow

LEMMA GrowsNot ==
  ASSUME NEW pg, NEW com, NEW n, NEW run
  PROVE  PagesGrow(pg, pg, com, n, run)
BY FollowsItself DEF PagesGrow

LEMMA SlotsRewrittenGrow ==
  ASSUME NEW pg \in Pages, NEW qg, NEW com, NEW n, NEW run,
         NEW b \in Block, NEW ss, qg = WithSlots(pg, b, ss),
         DOMAIN ss = DOMAIN pg[b].slots,
         \A i \in DOMAIN ss : Follows(com, n, run, pg[b].slots[i], ss[i])
  PROVE  PagesGrow(pg, qg, com, n, run)
<1>1. /\ qg[b].kind = pg[b].kind /\ qg[b].next = pg[b].next
      /\ qg[b].owner = pg[b].owner /\ qg[b].vertices = pg[b].vertices
      /\ qg[b].slots = ss
  <2>1. pg[b] \in Page /\ qg[b] = [pg[b] EXCEPT !.slots = ss]
    BY DEF Pages, WithSlots
  <2>. QED
    BY <2>1 DEF Page
<1>2. \A c \in Block : c # b => qg[c] = pg[c]
  BY DEF Pages, WithSlots
<1>. QED
  BY <1>1, <1>2, FollowsItself, GrowsInPlace

LEMMA VerticesRewrittenGrow ==
  ASSUME NEW pg \in Pages, NEW qg, NEW com, NEW n, NEW run,
         NEW b \in Block, NEW vs, qg = WithVertices(pg, b, vs),
         DOMAIN vs = DOMAIN pg[b].vertices,
         \A i \in DOMAIN vs : vs[i].vid = pg[b].vertices[i].vid
  PROVE  PagesGrow(pg, qg, com, n, run)
<1>1. /\ qg[b].kind = pg[b].kind /\ qg[b].next = pg[b].next
      /\ qg[b].owner = pg[b].owner /\ qg[b].slots = pg[b].slots
      /\ qg[b].vertices = vs
  <2>1. pg[b] \in Page /\ qg[b] = [pg[b] EXCEPT !.vertices = vs]
    BY DEF Pages, WithVertices
  <2>. QED
    BY <2>1 DEF Page
<1>2. \A c \in Block : c # b => qg[c] = pg[c]
  BY DEF Pages, WithVertices
<1>. QED
  BY <1>1, <1>2, FollowsItself, GrowsInPlace

-----------------------------------------------------------------------------
(* Every step of the store keeps what a reader has copied.                 *)

LEMMA TombstoneFollows ==
  ASSUME TxnInv, NEW s \in Sessions, lock = s, xid[s] # InvalidXid,
         NEW b \in Block, NEW i \in DOMAIN page[b].slots,
         NEW e \in EdgeSlot, e = page[b].slots[i], Live(xid[s], e)
  PROVE  Follows(committed, nextXid, Running, e,
                 [e EXCEPT !.deleted = TRUE, !.xmax = xid[s]])
<1>. DEFINE f == [e EXCEPT !.deleted = TRUE, !.xmax = xid[s]]
<1>1. /\ TypeOK /\ KnownXids /\ WriterOwnsUncommitted
      /\ InvalidXid \notin committed /\ InvalidXid # FrozenXid
  BY TxnFacts, XidTypes
<1>2. f.src = e.src /\ f.type = e.type /\ f.xmin = e.xmin
  BY DEF EdgeSlot
<1>3. ASSUME e.deleted
      PROVE  Lost(committed, nextXid, Running, e.xmax)
  <2>1. e.xmax = InvalidXid
          \/ (e.xmax # xid[s] /\ e.xmax # FrozenXid /\ e.xmax \notin committed)
    BY <1>3 DEF Live, DeletedVisible, XminVisible, DidCommit
  <2>2. e.xmax \in StampedXids
    <3>1. e.xmax \in XidsIn(page[b].slots)
      BY <1>3 DEF XidsIn, XidsOf
    <3>. QED
      BY <3>1 DEF StampedXids, PageXids
  <2>3. e.xmax < nextXid
    BY <1>1, <2>2 DEF KnownXids
  <2>4. e.xmax \notin Running
    <3>1. InvalidXid \notin Running
      BY DEF Running
    <3>. QED
      BY <1>1, <2>1, <2>2, <3>1 DEF WriterOwnsUncommitted
  <2>. QED
    BY <1>1, <2>1, <2>3, <2>4 DEF Lost
<1>. HIDE DEF f
<1>. QED
  BY <1>2, <1>3 DEF Follows, f

LEMMA FreezeFollows ==
  ASSUME FreezeInv, op.name = "freeze", op.horizon \in NormalXid, NEW e \in EdgeSlot
  PROVE  Follows(committed, nextXid, Running, e, FreezeRecord(e, op.horizon))
<1>. DEFINE h == op.horizon
            f == FreezeRecord(e, h)
<1>1. /\ h \in Nat /\ nextXid \in Nat /\ h < nextXid /\ \A x \in Running : h < x
      /\ \A r \in Running : r \in Nat
  <2>1. TypeOK /\ Precedes(h, nextXid, Running)
    BY DEF FreezeInv, HorizonHolds
  <2>. QED
    BY <2>1, Constants DEF TypeOK, Precedes, Running
<1>2. ASSUME NEW x \in Nat, Freezable(x, h), ~DidCommit(x)
      PROVE  Lost(committed, nextXid, Running, x)
  BY <1>1, <1>2 DEF Freezable, DidCommit, Lost
<1>3. ASSUME NEW x \in Nat, Freezable(x, h), DidCommit(x)
      PROVE  x \in committed
  BY <1>3, Constants DEF Freezable, DidCommit
<1>4. e.xmin \in Nat /\ e.xmax \in Nat
  BY Constants DEF EdgeSlot, StoredXid
<1>5. f.src = e.src /\ f.type = e.type
  BY FreezeSlotType
<1>6. f.xmin = FreezeXmin(e.xmin, h)
  BY DEF FreezeRecord, EdgeSlot
<1>7. \/ f.xmin = e.xmin
      \/ f.xmin = FrozenXid /\ e.xmin \in committed
      \/ f.xmin = InvalidXid /\ Lost(committed, nextXid, Running, e.xmin)
  BY <1>2, <1>3, <1>4, <1>6 DEF FreezeXmin
<1>8. e.deleted => \/ f.deleted /\ f.xmax = e.xmax
                   \/ f.deleted /\ f.xmax = FrozenXid /\ e.xmax \in committed
                   \/ Lost(committed, nextXid, Running, e.xmax)
  <2>1. CASE ~Freezable(e.xmax, h)
    BY <2>1 DEF FreezeRecord, EdgeSlot
  <2>2. CASE Freezable(e.xmax, h) /\ DidCommit(e.xmax)
    BY <1>3, <1>4, <2>2 DEF FreezeRecord, EdgeSlot
  <2>3. CASE Freezable(e.xmax, h) /\ ~DidCommit(e.xmax)
    BY <1>2, <1>4, <2>3
  <2>. QED
    BY <2>1, <2>2, <2>3
<1>. QED
  BY <1>5, <1>7, <1>8 DEF Follows

LEMMA AppendSlotsGrows ==
  ASSUME TypeOK, StoreShape, NEW p \in VertexPositions, NEW src \in Vid,
         NEW ss \in Seq(EdgeSlot), AppendSlots(p, src, ss),
         NEW com, NEW n, NEW run
  PROVE  PagesGrow(page, page', com, n, run)
<1>. DEFINE r   == VertexAt(p)
            new == eof + 1
            qg  == page'
<1>1. /\ page \in Pages /\ eof \in Nat
      /\ p \in Positions(page) /\ r = RecordAt(page, p)
      /\ Extent(page, eof) /\ AdjacencyShape(page)
  BY StorePages DEF StoreShape, Shape
<1>2. qg \in Pages
  BY AppendSlotsType DEF Pages
<1>. HIDE DEF r, new
<1>3. CASE ~NeedsPage(p)
  <2>. DEFINE tail == r.tail
  <2>1. qg = [page EXCEPT ![tail].slots = @ \o ss]
    BY <1>3 DEF AppendSlots, r
  <2>2. tail \in Block
    BY <1>3, RoomLeft DEF r
  <2>. HIDE DEF qg, tail
  <2>3. SlotsGrown(page, qg, tail, ss)
    BY <1>1, <2>1, <2>2, SlotsGrownBy
  <2>4. page[tail].slots \in Seq(EdgeSlot)
    BY <1>1, <2>2 DEF Pages, Page
  <2>5. \A i \in DOMAIN page[tail].slots :
          i \in DOMAIN qg[tail].slots /\ qg[tail].slots[i] = page[tail].slots[i]
    BY <2>3, <2>4, Concatenated DEF SlotsGrown
  <2>6. ASSUME NEW q \in Slots(page)
        PROVE  q \in Slots(qg) /\ SlotAt(qg, q) = SlotAt(page, q)
    <3>1. PICK b \in Block : \E i \in DOMAIN page[b].slots : q = <<b, i>>
      BY DEF Slots
    <3>2. PICK i \in DOMAIN page[b].slots : q = <<b, i>>
      BY <3>1
    <3>3. i \in DOMAIN qg[b].slots /\ qg[b].slots[i] = page[b].slots[i]
      BY <2>3, <2>5 DEF SlotsGrown
    <3>. QED
      BY <3>2, <3>3 DEF Slots, SlotAt
  <2>7. ASSUME NEW q \in Positions(page)
        PROVE  q \in Positions(qg) /\ RecordAt(qg, q) = RecordAt(page, q)
    BY <2>3 DEF SlotsGrown, Positions, RecordAt
  <2>8. PagesGrow(page, qg, com, n, run)
    BY <2>3, <2>6, <2>7, FollowsItself DEF PagesGrow, SlotsGrown
  <2>. QED
    BY <2>8 DEF qg
<1>4. CASE NeedsPage(p)
  <2>1. /\ eof < MaxBlock
        /\ page' = [b \in Block |->
                      IF b = new THEN NewAdjPage(src, ss)
                      ELSE IF b = r.tail THEN [page[b] EXCEPT !.next = new]
                      ELSE IF b = p[1] THEN
                        [page[b] EXCEPT
                           !.vertices[p[2]].head = IF @ = NoBlock THEN new ELSE @,
                           !.vertices[p[2]].tail = new]
                      ELSE page[b]]
    BY <1>4 DEF AppendSlots, r, new
  <2>2. new \in Block
    <3>1. eof \in Nat /\ MaxBlock \in Nat /\ eof < MaxBlock
      BY <1>1, <2>1, Constants
    <3>2. eof + 1 \in 1..MaxBlock
      BY <3>1
    <3>. QED
      BY <3>2 DEF Block, new
  <2>3. SlotsPaged(page, qg, p, src, new, ss) /\ qg \in Pages
    BY <1>2, <2>1 DEF SlotsPaged, Anchored, r, RecordAt, VertexAt
  <2>. HIDE DEF qg
  <2>4. PagedChanges(page, qg, p, r, src, new, ss)
    BY <1>1, <2>2, <2>3, SlotsPagedChanges DEF new
  <2>5. /\ page[new].kind = "zero" /\ DOMAIN page[new].slots = {}
        /\ DOMAIN page[new].vertices = {}
    BY <1>1, <2>2, NewBlock DEF new
  <2>6. ASSUME NEW q \in Slots(page)
        PROVE  q \in Slots(qg) /\ SlotAt(qg, q) = SlotAt(page, q)
    <3>1. PICK b \in Block : \E i \in DOMAIN page[b].slots : q = <<b, i>>
      BY DEF Slots
    <3>2. b # new
      BY <2>5, <3>1
    <3>. QED
      BY <2>4, <3>1, <3>2 DEF Slots, SlotAt, PagedChanges
  <2>7. r.tail # NoBlock => page[r.tail].next = NoBlock
    <3>1. ChainShape(page, r.vid, r.head, r.tail)
      BY <1>1 DEF AdjacencyShape
    <3>2. \A b \in Block : Nexts(page)[b] = page[b].next
      BY DEF Nexts
    <3>. QED
      BY <3>1, <3>2 DEF ChainShape, IsChain
  <2>8. ASSUME NEW b \in Block, page[b].kind # "zero"
        PROVE  /\ qg[b].kind = page[b].kind /\ qg[b].owner = page[b].owner
               /\ page[b].next # NoBlock => qg[b].next = page[b].next
    <3>1. b # new /\ b # NoBlock
      BY <2>5, <2>8, BlockType
    <3>. QED
      BY <2>4, <2>7, <3>1 DEF PagedChanges
  <2>9. ASSUME NEW q \in Positions(page)
        PROVE  q \in Positions(qg) /\ RecordAt(qg, q).vid = RecordAt(page, q).vid
    <3>1. /\ q[1] \in Block /\ q[2] \in DOMAIN page[q[1]].vertices /\ q = <<q[1], q[2]>>
          /\ RecordAt(page, q) \in VertexRecord
      BY <1>1, RecordType
    <3>2. q[1] # new
      BY <2>5, <3>1
    <3>3. q \in Positions(qg)
      BY <2>4, <3>1, <3>2, PositionOf DEF PagedChanges
    <3>4. CASE q = p
      BY <1>1, <2>2, <2>4, <3>1, <3>3, <3>4, ReanchoredRecord DEF PagedChanges
    <3>5. CASE q # p
      BY <2>4, <3>3, <3>5 DEF PagedChanges
    <3>. QED
      BY <3>4, <3>5
  <2>10. PagesGrow(page, qg, com, n, run)
    BY <2>6, <2>8, <2>9, FollowsItself DEF PagesGrow
  <2>. QED
    BY <2>10 DEF qg
<1>. QED
  BY <1>3, <1>4

LEMMA InsertEdgesGrow ==
  ASSUME TypeOK, StoreShape, NEW s \in Sessions,
         \/ \E src, dst \in Vid, t \in EdgeTypes : InsertEdge(s, src, dst, t)
         \/ \E src \in Vid, dsts \in Batches, t \in EdgeTypes :
              InsertEdges(s, src, dsts, t)
         \/ ContinueInsertEdges(s),
         NEW com, NEW n, NEW run
  PROVE  PagesGrow(page, page', com, n, run)
<1>1. ASSUME NEW src \in Vid, NEW dst \in Vid, NEW t \in EdgeTypes,
             InsertEdge(s, src, dst, t)
      PROVE  PagesGrow(page, page', com, n, run)
  <2>. DEFINE slot == NewSlot(src, dst, t, xid[s])
  <2>1. PICK p \in Located(xid[s], src) : AppendSlots(p, src, <<slot>>)
    BY <1>1 DEF InsertEdge
  <2>2. p \in VertexPositions
    BY DEF Located, LivePositions
  <2>3. slot \in EdgeSlot
    BY Constants DEF TypeOK, NewSlot, EdgeSlot, StoredXid
  <2>. HIDE DEF slot
  <2>4. <<slot>> \in Seq(EdgeSlot)
    BY <2>3
  <2>. QED
    BY <2>1, <2>2, <2>4, AppendSlotsGrows
<1>2. ASSUME NEW p \in VertexPositions, NEW src \in Vid, NEW t \in EdgeTypes,
             NEW dsts \in Seq(Vid), WriteRun(s, p, src, t, dsts)
      PROVE  PagesGrow(page, page', com, n, run)
  <2>. DEFINE k     == IF Len(dsts) <= Room(p) THEN Len(dsts) ELSE Room(p)
              chunk == [i \in 1..k |-> NewSlot(src, dsts[i], t, xid[s])]
  <2>1. AppendSlots(p, src, chunk)
    BY <1>2 DEF WriteRun
  <2>2. chunk \in Seq(EdgeSlot)
    BY WriteRunChunk
  <2>. HIDE DEF chunk
  <2>. QED
    BY <2>1, <2>2, AppendSlotsGrows
<1>3. ASSUME NEW src \in Vid, NEW dsts \in Batches, NEW t \in EdgeTypes,
             InsertEdges(s, src, dsts, t)
      PROVE  PagesGrow(page, page', com, n, run)
  <2>1. PICK p \in DenseLocated(xid[s], src) : WriteRun(s, p, src, t, dsts)
    BY <1>3 DEF InsertEdges
  <2>2. p \in VertexPositions /\ dsts \in Seq(Vid)
    BY BatchType DEF DenseLocated, DenseVerified
  <2>. QED
    BY <1>2, <2>1, <2>2
<1>4. ASSUME ContinueInsertEdges(s)
      PROVE  PagesGrow(page, page', com, n, run)
  <2>1. PICK p \in VertexPositions : WriteRun(s, p, op.src, op.type, op.rest)
    BY <1>4 DEF ContinueInsertEdges
  <2>2. op \in [name : {"edges"}, src : Vid, type : EdgeTypes, rest : Seq(Vid)]
    BY <1>4 DEF ContinueInsertEdges, TypeOK, Operation, Idle
  <2>. QED
    BY <1>2, <2>1, <2>2
<1>. QED
  BY <1>1, <1>3, <1>4

LEMMA InsertVertexGrows ==
  ASSUME ChainInv, NEW s \in Sessions, InsertVertex(s), NEW com, NEW n, NEW run
  PROVE  PagesGrow(page, page', com, n, run)
<1>. DEFINE last == meta.last
            vr   == NewVertex(meta.nextVid, xid[s])
            new  == eof + 1
            room == last # NoBlock /\ Len(page[last].vertices) < VerticesPerPage
            qg   == page'
<1>1. /\ page \in Pages /\ eof \in Nat /\ last \in Link
      /\ Extent(page, eof) /\ VertexShape(page, meta.first, last)
  BY StorePages DEF ChainInv, StoreShape, Shape
<1>2. RecordAdded(page, qg, vr)
  BY InsertVertexShape
<1>. HIDE DEF vr
<1>3. ASSUME NEW b \in Block, page[b].kind # "zero"
      PROVE  /\ qg[b].kind = page[b].kind /\ qg[b].owner = page[b].owner
             /\ page[b].next # NoBlock => qg[b].next = page[b].next
  <2>1. page[b] \in Page
    BY <1>1 DEF Pages
  <2>2. CASE room
    <3>1. qg = [page EXCEPT ![last].vertices = Append(@, vr)]
      BY <2>2 DEF InsertVertex, vr
    <3>2. CASE b = last
      <4>1. qg[b] = [page[b] EXCEPT !.vertices = Append(page[b].vertices, vr)]
        BY <1>1, <3>1, <3>2 DEF Pages
      <4>. QED
        BY <2>1, <4>1 DEF Page
    <3>3. CASE b # last
      BY <1>1, <3>1, <3>3 DEF Pages
    <3>. QED
      BY <3>2, <3>3
  <2>3. CASE ~room
    <3>1. /\ eof < MaxBlock
          /\ qg = [c \in Block |->
                     IF c = new THEN NewVertexPage(vr)
                     ELSE IF c = last THEN [page[c] EXCEPT !.next = new]
                     ELSE page[c]]
      BY <2>3 DEF InsertVertex, vr
    <3>2. b # new
      BY <1>1, <1>3 DEF Extent, Block
    <3>3. CASE b = last
      <4>1. page[b].next = NoBlock
        <5>1. \A c \in Block : Nexts(page)[c] = page[c].next
          BY DEF Nexts
        <5>. QED
          BY <1>1, <3>3, <5>1, BlockType DEF VertexShape, IsChain
      <4>2. qg[b] = [page[b] EXCEPT !.next = new]
        BY <3>1, <3>2, <3>3
      <4>. QED
        BY <2>1, <4>1, <4>2 DEF Page
    <3>4. CASE b # last
      BY <3>1, <3>2, <3>4
    <3>. QED
      BY <3>3, <3>4
  <2>. QED
    BY <2>2, <2>3
<1>. HIDE DEF qg
<1>4. ASSUME NEW p \in Positions(page)
      PROVE  p \in Positions(qg) /\ RecordAt(qg, p).vid = RecordAt(page, p).vid
  BY <1>2 DEF RecordAdded
<1>5. ASSUME NEW q \in Slots(page)
      PROVE  q \in Slots(qg) /\ SlotAt(qg, q) = SlotAt(page, q)
  <2>1. PICK b \in Block : \E i \in DOMAIN page[b].slots : q = <<b, i>>
    BY DEF Slots
  <2>. QED
    BY <1>2, <2>1 DEF Slots, SlotAt, RecordAdded
<1>6. PagesGrow(page, qg, com, n, run)
  BY <1>3, <1>4, <1>5, FollowsItself DEF PagesGrow
<1>. QED
  BY <1>6 DEF qg

LEMMA TombstonesGrow ==
  ASSUME TxnInv, NEW s \in Sessions, TombstoneSome(s) \/ TombstoneAdjacency(s)
  PROVE  PagesGrow(page, page', committed, nextXid, Running)
<1>1. TypeOK /\ page \in Pages
  BY TxnFacts, StorePages
<1>2. ASSUME NEW src \in Vid, NEW dst \in Vid, NEW t \in EdgeTypes \cup {AnyType},
             TombstoneEdge(s, src, dst, t)
      PROVE  page' = page
  BY <1>2 DEF TombstoneEdge, store
<1>3. ASSUME NEW v \in Vid, TombstoneVertex(s, v)
      PROVE  PagesGrow(page, page', committed, nextXid, Running)
  <2>1. PICK p \in VertexPositions : page' = [page EXCEPT ![p[1]] = TombstonedPage(p, xid[s])]
    BY <1>1, <1>3, TombstoneVertexPage
  <2>2. /\ p[1] \in Block /\ p[2] \in DOMAIN page[p[1]].vertices
        /\ VertexAt(p) \in VertexRecord
    BY <1>1, PositionType DEF TypeOK
  <2>. DEFINE b  == p[1]
              i  == p[2]
              r  == VertexAt(p)
              q  == [r EXCEPT !.deleted = TRUE, !.xmax = xid[s]]
              vs == [page[b].vertices EXCEPT ![i] = q]
              qg == page'
  <2>3. qg = WithVertices(page, b, vs)
    BY <2>1 DEF TombstonedPage, WithVertices
  <2>4. q.vid = r.vid
    BY <2>2 DEF VertexRecord
  <2>5. r = page[b].vertices[i]
    BY DEF VertexAt
  <2>. HIDE DEF q, r
  <2>6. /\ DOMAIN vs = DOMAIN page[b].vertices
        /\ \A j \in DOMAIN vs : vs[j].vid = page[b].vertices[j].vid
    BY <2>2, <2>4, <2>5
  <2>7. b \in Block
    BY <2>2
  <2>. HIDE DEF vs, b, qg
  <2>8. PagesGrow(page, qg, committed, nextXid, Running)
    BY <1>1, <2>3, <2>6, <2>7, VerticesRewrittenGrow
  <2>. QED
    BY <2>8 DEF qg
<1>4. ASSUME TombstoneAdjacency(s)
      PROVE  PagesGrow(page, page', committed, nextXid, Running)
  <2>1. /\ lock = s /\ xid[s] # InvalidXid
        /\ op \in [name : {"tombstone"}, blk : Link, dst : Vid \cup {AnyVid},
                   type : EdgeTypes \cup {AnyType}]
    <3>1. lock = s /\ op.name = "tombstone"
      BY <1>4 DEF TombstoneAdjacency
    <3>. QED
      BY <1>1, <3>1, TxnFacts DEF TypeOK, Operation, Idle, OperationInv
  <2>2. CASE op.blk = NoBlock
    BY <1>4, <2>2, GrowsNot DEF TombstoneAdjacency
  <2>3. CASE op.blk # NoBlock
    <3>. DEFINE b  == op.blk
                qg == page'
                ss == [i \in DOMAIN page[b].slots |->
                         TombstoneSlot(xid[s], page[b].slots[i], op.dst, op.type)]
    <3>1. b \in Block
      BY <2>1, <2>3 DEF Link
    <3>2. qg = WithSlots(page, b, ss)
      BY <1>4, <2>3 DEF TombstoneAdjacency, WithSlots
    <3>3. page[b].slots \in Seq(EdgeSlot)
      BY <1>1, <3>1 DEF Pages, Page
    <3>4. ASSUME NEW i \in DOMAIN page[b].slots
          PROVE  Follows(committed, nextXid, Running, page[b].slots[i], ss[i])
      <4>. DEFINE e == page[b].slots[i]
      <4>1. e \in EdgeSlot
        BY <3>3, LenProperties, ElementOfSeq
      <4>2. CASE ~Matches(xid[s], e, op.dst, op.type)
        BY <4>2, FollowsItself DEF TombstoneSlot
      <4>3. CASE Matches(xid[s], e, op.dst, op.type)
        <5>1. Live(xid[s], e) /\ ss[i] = [e EXCEPT !.deleted = TRUE, !.xmax = xid[s]]
          BY <4>3 DEF TombstoneSlot, Matches
        <5>. HIDE DEF ss
        <5>2. Follows(committed, nextXid, Running, e,
                      [e EXCEPT !.deleted = TRUE, !.xmax = xid[s]])
          BY <2>1, <3>1, <4>1, <5>1, TombstoneFollows
        <5>. QED
          BY <5>1, <5>2
      <4>. QED
        BY <4>2, <4>3
    <3>5. DOMAIN ss = DOMAIN page[b].slots
      OBVIOUS
    <3>. HIDE DEF ss, b, qg
    <3>6. PagesGrow(page, qg, committed, nextXid, Running)
      BY <1>1, <3>1, <3>2, <3>4, <3>5, SlotsRewrittenGrow
    <3>. QED
      BY <3>6 DEF qg
  <2>. QED
    BY <2>2, <2>3
<1>. QED
  BY <1>2, <1>3, <1>4, GrowsNot DEF TombstoneSome

LEMMA FreezesGrow ==
  ASSUME TxnInv, NEW s \in Sessions,
         (\E horizon \in NormalXid : FreezeBegin(s, horizon)) \/ FreezeStep(s)
  PROVE  PagesGrow(page, page', committed, nextXid, Running)
<1>1. TypeOK /\ FreezeInv /\ page \in Pages
  BY TxnFacts, StorePages
<1>2. ASSUME Freezing(s)
      PROVE  op \in [name : {"freeze"}, horizon : NormalXid, vblk : Link,
                     ablk : Link, heads : Seq(Link)]
  BY <1>1, <1>2 DEF Freezing, TypeOK, Operation, Idle
<1>3. CASE FreezeVertexPage(s)
  <2>. DEFINE b  == op.vblk
              qg == page'
              vs == FreezeRecords(page[b].vertices, op.horizon)
  <2>1. b \in Block
    BY <1>2, <1>3 DEF FreezeVertexPage, Link
  <2>2. page[b].vertices \in Seq(VertexRecord)
    BY <1>1, <2>1 DEF Pages, Page
  <2>3. DOMAIN vs = DOMAIN page[b].vertices
    BY DEF FreezeRecords
  <2>4. \A i \in DOMAIN vs : vs[i].vid = page[b].vertices[i].vid
    <3>1. \A i \in DOMAIN page[b].vertices : page[b].vertices[i] \in VertexRecord
      BY <2>2, LenProperties, ElementOfSeq
    <3>. QED
      BY <3>1, FreezeVertexType DEF FreezeRecords
  <2>5. qg = WithVertices(page, b, vs)
    BY <1>3 DEF FreezeVertexPage, WithVertices
  <2>. HIDE DEF vs, b, qg
  <2>6. PagesGrow(page, qg, committed, nextXid, Running)
    BY <1>1, <2>1, <2>3, <2>4, <2>5, VerticesRewrittenGrow
  <2>. QED
    BY <2>6 DEF qg
<1>4. CASE FreezeAdjPage(s)
  <2>. DEFINE b  == op.ablk
              qg == page'
              ss == FreezeRecords(page[b].slots, op.horizon)
  <2>1. b \in Block /\ op.name = "freeze" /\ op.horizon \in NormalXid
    BY <1>2, <1>4 DEF FreezeAdjPage, Link
  <2>2. page[b].slots \in Seq(EdgeSlot)
    BY <1>1, <2>1 DEF Pages, Page
  <2>3. DOMAIN ss = DOMAIN page[b].slots
    BY DEF FreezeRecords
  <2>4. \A i \in DOMAIN ss :
          Follows(committed, nextXid, Running, page[b].slots[i], ss[i])
    <3>1. \A i \in DOMAIN page[b].slots : page[b].slots[i] \in EdgeSlot
      BY <2>2, LenProperties, ElementOfSeq
    <3>. QED
      BY <1>1, <2>1, <3>1, FreezeFollows DEF FreezeRecords
  <2>5. qg = WithSlots(page, b, ss)
    BY <1>4 DEF FreezeAdjPage, WithSlots
  <2>. HIDE DEF ss, b, qg
  <2>6. PagesGrow(page, qg, committed, nextXid, Running)
    BY <1>1, <2>1, <2>3, <2>4, <2>5, SlotsRewrittenGrow
  <2>. QED
    BY <2>6 DEF qg
<1>5. CASE \/ \E horizon \in NormalXid : FreezeBegin(s, horizon)
           \/ FreezeDescend(s) \/ FreezeRecordHorizon(s) \/ FreezeRelstats(s)
  <2>1. page' = page
    BY <1>5 DEF FreezeBegin, FreezeDescend, FreezeRecordHorizon, FreezeRelstats, store
  <2>. QED
    BY <2>1, GrowsNot
<1>. QED
  BY <1>3, <1>4, <1>5 DEF FreezeStep

\* A step of the store, whoever's it is, as a reader in between sees it.
LEMMA StoreGrows ==
  ASSUME TxnInv, Next
  PROVE  PagesGrow(page, page', committed, nextXid, Running)
<1>1. PICK s \in Sessions : Session(s)
  BY DEF Next
<1>2. ChainInv /\ TypeOK /\ StoreShape
  BY TxnFacts
<1>3. CASE AssignXid(s) \/ AcquireWriterLock(s) \/ Commit(s) \/ Abort(s) \/ AbortExtended(s)
  <2>1. page' = page
    BY <1>3 DEF AssignXid, AcquireWriterLock, Commit, Abort, AbortExtended, store
  <2>. QED
    BY <2>1, GrowsNot
<1>. QED
  BY <1>1, <1>2, <1>3, InsertVertexGrows, InsertEdgesGrow, TombstonesGrow, FreezesGrow
     DEF Session, InsertSome, ContinueOperation

LEMMA IdsMoveOn ==
  ASSUME TypeOK, Next
  PROVE  /\ nextXid \in Nat /\ nextXid' \in Nat /\ nextXid <= nextXid'
         /\ committed \subseteq committed' /\ committed' \subseteq committed \cup Running
         /\ Running' \subseteq Running \cup {nextXid}
         /\ InvalidXid \notin committed /\ FrozenXid \notin committed
<1>1. PICK s \in Sessions : Session(s)
  BY DEF Next
<1>2. /\ nextXid \in Nat /\ xid \in [Sessions -> NormalXid \cup {InvalidXid}]
      /\ InvalidXid \notin committed /\ FrozenXid \notin committed
  BY Constants DEF TypeOK
<1>3. CASE AssignXid(s)
  <2>1. /\ xid' = [xid EXCEPT ![s] = nextXid] /\ nextXid' = nextXid + 1
        /\ committed' = committed
    BY <1>3 DEF AssignXid
  <2>2. Running' \subseteq Running \cup {nextXid}
    BY <1>2, <2>1 DEF Running
  <2>. QED
    BY <1>2, <2>1, <2>2
<1>4. CASE Commit(s) \/ Abort(s) \/ AbortExtended(s)
  <2>1. /\ xid' = [xid EXCEPT ![s] = InvalidXid] /\ nextXid' = nextXid
        /\ committed' = committed \/ committed' = committed \cup ({xid[s]} \ {InvalidXid})
    BY <1>4, Ends DEF EndTransaction
  <2>2. Running' \subseteq Running
    BY <1>2, <2>1 DEF Running
  <2>3. {xid[s]} \ {InvalidXid} \subseteq Running
    BY DEF Running
  <2>. QED
    BY <1>2, <2>1, <2>2, <2>3
<1>5. CASE AcquireWriterLock(s) \/ Operates(s)
  <2>1. UNCHANGED <<nextXid, committed, xid>>
    <3>1. CASE AcquireWriterLock(s)
      BY <3>1 DEF AcquireWriterLock
    <3>2. CASE Operates(s)
      <4>1. TypeOK'
        BY NextType
      <4>. QED
        BY <3>2, <4>1, OperationXids DEF txns
    <3>. QED
      BY <1>5, <3>1, <3>2
  <2>2. Running' = Running
    BY <2>1 DEF Running
  <2>. QED
    BY <1>2, <2>1, <2>2
<1>. QED
  BY <1>1, <1>3, <1>4, <1>5 DEF Session, Operates

-----------------------------------------------------------------------------
(* What a scan keeps.  A part that writers could disturb is a predicate of *)
(* the pages and the ids, so that it can be stated of the next ones.       *)

Served(sc) == {sc.out[k] : k \in DOMAIN sc.out}

Unread(sc) == sc.at = NoBlock /\ sc.buf = <<>> /\ sc.i = 1 /\ sc.out = <<>>

\* A slot that was deleted, for good.
Deleted(com, e) == e.deleted /\ Seen(com, InvalidXid, e.xmax)

\* The slots of v that pass the filter f, as every reader sees them.
Answers(pg, com, v, f) ==
  {q \in AliveSlots(pg, com, InvalidXid) :
     SlotAt(pg, q).src = v /\ Passes(SlotAt(pg, q), f)}

\* The snapshot and the dense locate's block may be anything here.
ScanType ==
  scan \in [phase : {"idle", "locate", "dense", "read", "done", "failed"},
            vid : Vid, filter : Filters, snapshot : {scan.snapshot},
            blk : {scan.blk}, at : Link, buf : Seq(EdgeSlot), i : Nat,
            out : Seq(Block \X Nat)]

\* What stood throughout stands now, and has its slots among the answers.
SteadyInv ==
  /\ steady \subseteq Answers(page, committed, scan.vid, scan.filter)
  /\ scan.phase = "idle" => steady = {} /\ dead = {}

\* What was deleted when the scan began stays so.
StayDead(pg, com, dd) == \A p \in dd : p \in Slots(pg) /\ Deleted(com, SlotAt(pg, p))

\* The locate goes along the vertex pages, and has not passed the record of a
\* vertex that has anything to answer.
OnVertexChain(pg, sc, st) ==
  /\ sc.blk \in Link
  /\ sc.blk # NoBlock => sc.blk \in VertexPages(pg)
  /\ st # {} => \E p \in Positions(pg) :
                  /\ RecordAt(pg, p).vid = sc.vid
                  /\ p[1] \in Walk(Nexts(pg), sc.blk)

\* What was answered was visible, and is, and is answered once.
Sound(pg, com, sc, dd) ==
  /\ \A j, k \in DOMAIN sc.out : sc.out[j] = sc.out[k] => j = k
  /\ \A p \in Served(sc) :
       /\ p \in Slots(pg) /\ Seen(com, InvalidXid, SlotAt(pg, p).xmin)
       /\ p \notin dd

\* The page that was copied is one of the vertex's; the link that was read
\* with it was the last or still holds.
OnAdjChain(pg, sc) ==
  /\ sc.blk \in Link
  /\ sc.blk # NoBlock => sc.blk \in OwnedPages(pg, sc.vid)
  /\ sc.at = NoBlock => Unread(sc)
  /\ sc.at # NoBlock =>
       /\ sc.at \in OwnedPages(pg, sc.vid)
       /\ sc.blk # NoBlock => sc.blk = pg[sc.at].next

\* The copy is behind its page by what happened since, and knows the dead.
Behind(pg, com, n, run, sc, dd) ==
  \A j \in DOMAIN sc.buf :
    LET q == <<sc.at, j>> IN
    /\ q \in Slots(pg)
    /\ Follows(com, n, run, sc.buf[j], SlotAt(pg, q))
    /\ q \in dd => Deleted(com, sc.buf[j])

\* What was served lies before the place in the chain, what is owed is served
\* or lies after it.
InOrder(pg, sc, st) ==
  /\ \A p \in Served(sc) :
       \/ p[1] = sc.at /\ p[2] < sc.i
       \/ sc.at \in Walk(Nexts(pg), pg[p[1]].next)
  /\ \A p \in st :
       \/ p \in Served(sc)
       \/ p[1] \in Walk(Nexts(pg), sc.blk)
       \/ p[1] = sc.at /\ p[2] \in sc.i..Len(sc.buf)

ScanInv ==
  /\ TxnInv /\ ScanType /\ SteadyInv
  /\ StayDead(page, committed, dead)
  /\ Sound(page, committed, scan, dead)
  /\ scan.phase \in {"idle", "locate", "dense"} => Unread(scan)
  /\ scan.phase = "locate" => OnVertexChain(page, scan, steady)
  /\ scan.phase = "read" =>
       /\ OnAdjChain(page, scan)
       /\ Behind(page, committed, nextXid, Running, scan, dead)
       /\ InOrder(page, scan, steady)
  /\ scan.phase = "done" => steady \subseteq Served(scan)

-----------------------------------------------------------------------------
(* The store moves on under the scan.                                      *)

LEMMA AdjChainOf ==
  ASSUME NEW pg \in Pages, NEW e, NEW first, NEW last, NEW n, Shape(pg, e, first, last, n),
         NEW v, NEW b \in OwnedPages(pg, v)
  PROVE  \E head, tail : ChainShape(pg, v, head, tail)
<1>1. v \in 0..(n - 1)
  BY DEF Shape, VidsOnce, OwnedPages
<1>2. \E p \in Positions(pg) : RecordAt(pg, p).vid = v
  BY <1>1 DEF Shape, VidsOnce
<1>. QED
  BY <1>2 DEF Shape, AdjacencyShape

LEMMA AdjWalkGrows ==
  ASSUME NEW pg \in Pages, NEW e, NEW first, NEW last, NEW m, Shape(pg, e, first, last, m),
         NEW qg \in Pages, NEW com, NEW n, NEW run, PagesGrow(pg, qg, com, n, run),
         NEW v, NEW b \in OwnedPages(pg, v) \cup {NoBlock}
  PROVE  Walk(Nexts(pg), b) \subseteq Walk(Nexts(qg), b)
<1>1. CASE b = NoBlock
  BY <1>1, WalkNowhere
<1>2. CASE b \in OwnedPages(pg, v)
  <2>1. \E head, tail : ChainShape(pg, v, head, tail)
    BY <1>2, AdjChainOf
  <2>. DEFINE S == OwnedPages(pg, v)
  <2>2. S \in SUBSET Block /\ Closed(Nexts(pg), S)
    BY <2>1, NextsType, ChainClosed DEF ChainShape
  <2>3. \A c \in S : Nexts(pg)[c] # NoBlock => Nexts(qg)[c] = Nexts(pg)[c]
    BY NextsType DEF OwnedPages, PagesGrow
  <2>. HIDE DEF S
  <2>. QED
    BY <1>2, <2>2, <2>3, NextsType, WalkGrows DEF S
<1>. QED
  BY <1>1, <1>2

LEMMA VertexWalkGrows ==
  ASSUME NEW pg \in Pages, NEW e, NEW first, NEW last, NEW m, Shape(pg, e, first, last, m),
         NEW qg \in Pages, NEW com, NEW n, NEW run, PagesGrow(pg, qg, com, n, run),
         NEW b \in VertexPages(pg) \cup {NoBlock}
  PROVE  Walk(Nexts(pg), b) \subseteq Walk(Nexts(qg), b)
<1>. DEFINE S == VertexPages(pg)
<1>1. S \in SUBSET Block /\ Closed(Nexts(pg), S)
  BY NextsType, ChainClosed DEF Shape, VertexShape
<1>2. \A c \in S : Nexts(pg)[c] # NoBlock => Nexts(qg)[c] = Nexts(pg)[c]
  BY NextsType DEF VertexPages, PagesGrow
<1>. HIDE DEF S
<1>. QED
  BY <1>1, <1>2, NextsType, WalkGrows DEF S

LEMMA OnVertexChainKept ==
  ASSUME NEW pg \in Pages, NEW e, NEW first, NEW last, NEW m, Shape(pg, e, first, last, m),
         NEW qg \in Pages, NEW com, NEW n, NEW run, PagesGrow(pg, qg, com, n, run),
         NEW sc, NEW st, NEW st2 \in SUBSET st, OnVertexChain(pg, sc, st)
  PROVE  OnVertexChain(qg, sc, st2)
<1>1. sc.blk \in Link /\ (sc.blk # NoBlock => sc.blk \in VertexPages(qg))
  BY DEF OnVertexChain, PagesGrow, VertexPages
<1>2. Walk(Nexts(pg), sc.blk) \subseteq Walk(Nexts(qg), sc.blk)
  BY VertexWalkGrows DEF OnVertexChain
<1>3. ASSUME st2 # {}
      PROVE  \E p \in Positions(qg) :
               RecordAt(qg, p).vid = sc.vid /\ p[1] \in Walk(Nexts(qg), sc.blk)
  <2>1. PICK p \in Positions(pg) :
          RecordAt(pg, p).vid = sc.vid /\ p[1] \in Walk(Nexts(pg), sc.blk)
    BY <1>3 DEF OnVertexChain
  <2>. QED
    BY <1>2, <2>1 DEF PagesGrow
<1>. QED
  BY <1>1, <1>3 DEF OnVertexChain

LEMMA OnAdjChainKept ==
  ASSUME NEW pg, NEW qg, NEW com, NEW n, NEW run, PagesGrow(pg, qg, com, n, run),
         NEW sc, OnAdjChain(pg, sc)
  PROVE  OnAdjChain(qg, sc)
<1>1. \A v : OwnedPages(pg, v) \subseteq OwnedPages(qg, v)
  BY DEF OwnedPages, PagesGrow
<1>2. \A b \in OwnedPages(pg, sc.vid) : pg[b].next # NoBlock => qg[b].next = pg[b].next
  BY DEF OwnedPages, PagesGrow
<1>. QED
  BY <1>1, <1>2 DEF OnAdjChain

LEMMA InOrderKept ==
  ASSUME NEW pg \in Pages, NEW e, NEW first, NEW last, NEW m, Shape(pg, e, first, last, m),
         NEW qg \in Pages, NEW com, NEW n, NEW run, PagesGrow(pg, qg, com, n, run),
         NEW sc, OnAdjChain(pg, sc), \A p \in Served(sc) : p \in Slots(pg),
         NEW st, NEW st2 \in SUBSET st, InOrder(pg, sc, st)
  PROVE  InOrder(qg, sc, st2)
<1>1. Walk(Nexts(pg), sc.blk) \subseteq Walk(Nexts(qg), sc.blk)
  BY AdjWalkGrows DEF OnAdjChain
<1>2. ASSUME NEW p \in Served(sc), sc.at \in Walk(Nexts(pg), pg[p[1]].next)
      PROVE  sc.at \in Walk(Nexts(qg), qg[p[1]].next)
  <2>. DEFINE b == p[1]
              c == pg[b].next
  <2>1. b \in Block /\ DOMAIN pg[b].slots # {}
    BY DEF Slots
  <2>2. b \in OwnedPages(pg, pg[b].owner)
    BY <2>1 DEF Shape, Extent, OwnedPages
  <2>3. c # NoBlock
    BY <1>2, WalkNowhere
  <2>4. qg[b].next = c
    BY <2>2, <2>3 DEF OwnedPages, PagesGrow
  <2>5. c \in OwnedPages(pg, pg[b].owner) \cup {NoBlock}
    <3>. DEFINE S == OwnedPages(pg, pg[b].owner)
    <3>1. \E head, tail : ChainShape(pg, pg[b].owner, head, tail)
      BY <2>2, AdjChainOf
    <3>2. Closed(Nexts(pg), S)
      BY <3>1, NextsType, ChainClosed DEF ChainShape
    <3>. QED
      BY <2>1, <2>2, <3>2, NextsType DEF Closed
  <2>. HIDE DEF b, c
  <2>6. Walk(Nexts(pg), c) \subseteq Walk(Nexts(qg), c)
    BY <2>5, AdjWalkGrows
  <2>. QED
    BY <1>2, <2>4, <2>6 DEF b, c
<1>. QED
  BY <1>1, <1>2 DEF InOrder

LEMMA StayDeadKept ==
  ASSUME NEW pg, NEW qg, NEW com, NEW n, NEW run, PagesGrow(pg, qg, com, n, run),
         InvalidXid \notin com, FrozenXid \notin com, NEW com2, com \subseteq com2,
         NEW dd, StayDead(pg, com, dd)
  PROVE  StayDead(qg, com2, dd)
<1>. SUFFICES ASSUME NEW p \in dd
              PROVE  p \in Slots(qg) /\ Deleted(com2, SlotAt(qg, p))
  BY DEF StayDead
<1>1. /\ p \in Slots(qg) /\ Deleted(com, SlotAt(pg, p))
      /\ Follows(com, n, run, SlotAt(pg, p), SlotAt(qg, p))
  BY DEF StayDead, PagesGrow
<1>2. Deleted(com, SlotAt(qg, p))
  BY <1>1, FollowsReads DEF Deleted
<1>. QED
  BY <1>1, <1>2 DEF Deleted, Seen

LEMMA SoundKept ==
  ASSUME NEW pg, NEW qg, NEW com, NEW n, NEW run, PagesGrow(pg, qg, com, n, run),
         InvalidXid \notin com, FrozenXid \notin com, NEW com2, com \subseteq com2,
         NEW sc, NEW dd, Sound(pg, com, sc, dd)
  PROVE  Sound(qg, com2, sc, dd)
<1>1. ASSUME NEW p \in Served(sc)
      PROVE  p \in Slots(qg) /\ Seen(com2, InvalidXid, SlotAt(qg, p).xmin)
  <2>1. /\ p \in Slots(qg) /\ Seen(com, InvalidXid, SlotAt(pg, p).xmin)
        /\ Follows(com, n, run, SlotAt(pg, p), SlotAt(qg, p))
    BY DEF Sound, PagesGrow
  <2>2. Seen(com, InvalidXid, SlotAt(qg, p).xmin)
    BY <2>1, FollowsReads
  <2>. QED
    BY <2>1, <2>2 DEF Seen
<1>. QED
  BY <1>1 DEF Sound

LEMMA BehindKept ==
  ASSUME NEW pg, NEW qg, NEW com, NEW n \in Nat, NEW run, PagesGrow(pg, qg, com, n, run),
         InvalidXid \notin com, FrozenXid \notin com,
         NEW com2, NEW n2 \in Nat, NEW run2,
         n <= n2, com \subseteq com2, com2 \subseteq com \cup run, run2 \subseteq run \cup {n},
         NEW sc, sc.buf \in Seq(EdgeSlot), NEW dd, Behind(pg, com, n, run, sc, dd)
  PROVE  Behind(qg, com2, n2, run2, sc, dd)
<1>. SUFFICES ASSUME NEW j \in DOMAIN sc.buf
              PROVE  LET q == <<sc.at, j>> IN
                     /\ q \in Slots(qg)
                     /\ Follows(com2, n2, run2, sc.buf[j], SlotAt(qg, q))
                     /\ q \in dd => Deleted(com2, sc.buf[j])
  BY DEF Behind
<1>. DEFINE q == <<sc.at, j>>
            c == sc.buf[j]
<1>1. c \in EdgeSlot
  BY LenProperties, ElementOfSeq
<1>2. /\ q \in Slots(pg) /\ Follows(com, n, run, c, SlotAt(pg, q))
      /\ q \in dd => Deleted(com, c)
  BY DEF Behind
<1>. HIDE DEF q, c
<1>3. q \in Slots(qg) /\ Follows(com, n, run, SlotAt(pg, q), SlotAt(qg, q))
  BY <1>2 DEF PagesGrow
<1>4. Follows(com, n, run, c, SlotAt(qg, q))
  BY <1>2, <1>3, FollowsOn
<1>5. Follows(com2, n2, run2, c, SlotAt(qg, q))
  BY <1>1, <1>4, FollowsLater
<1>6. q \in dd => Deleted(com2, c)
  BY <1>2 DEF Deleted, Seen
<1>. QED
  BY <1>3, <1>5, <1>6 DEF q, c

LEMMA AnswersFlat ==
  ASSUME StoreShape, NEW v, NEW f
  PROVE  Answer(v, f) = Answers(page, committed, v, f)
<1>1. EdgeView(InvalidXid) = Edges(page, committed, InvalidXid)
  BY ViewsAreFlat DEF GraphView, Graph
<1>2. \A q : /\ EdgeOf(page, q).id = q
             /\ EdgeOf(page, q).src = SlotAt(page, q).src
             /\ EdgeOf(page, q).type = SlotAt(page, q).type
  BY DEF EdgeOf
<1>3. \A q : Passes(EdgeOf(page, q), f) <=> Passes(SlotAt(page, q), f)
  BY <1>2 DEF Passes
<1>. DEFINE A == AliveSlots(page, committed, InvalidXid)
<1>4. Answer(v, f) = {e.id : e \in {d \in {EdgeOf(page, q) : q \in A} :
                                      d.src = v /\ Passes(d, f)}}
  BY <1>1 DEF Answer, Edges
<1>. HIDE DEF A
<1>5. Answer(v, f) = {q \in A : SlotAt(page, q).src = v /\ Passes(SlotAt(page, q), f)}
  <2>1. ASSUME NEW x \in Answer(v, f)
        PROVE  x \in A /\ SlotAt(page, x).src = v /\ Passes(SlotAt(page, x), f)
    BY <1>2, <1>3, <1>4, <2>1
  <2>2. ASSUME NEW q \in A, SlotAt(page, q).src = v, Passes(SlotAt(page, q), f)
        PROVE  q \in Answer(v, f)
    BY <1>2, <1>3, <1>4, <2>2
  <2>. QED
    BY <2>1, <2>2
<1>. QED
  BY <1>5 DEF Answers, A

LEMMA NextAnswersFlat ==
  ASSUME StoreShape'
  PROVE  Answer(scan.vid, scan.filter)' =
           Answers(page', committed', scan'.vid, scan'.filter)
<1>1. EdgeView(InvalidXid)' = Edges(page', committed', InvalidXid)
  BY NextViewsAreFlat DEF GraphView, Graph
<1>. DEFINE pg == page'
            v  == scan'.vid
            f  == scan'.filter
            R  == Answer(scan.vid, scan.filter)'
            A  == AliveSlots(page', committed', InvalidXid)
<1>2. \A q : /\ EdgeOf(pg, q).id = q
             /\ EdgeOf(pg, q).src = SlotAt(pg, q).src
             /\ EdgeOf(pg, q).type = SlotAt(pg, q).type
  BY DEF EdgeOf
<1>3. \A q : Passes(EdgeOf(pg, q), f) <=> Passes(SlotAt(pg, q), f)
  BY <1>2 DEF Passes
<1>4. R = {e.id : e \in {d \in {EdgeOf(pg, q) : q \in A} :
                            d.src = v /\ Passes(d, f)}}
  BY <1>1 DEF Answer, Edges
<1>. HIDE DEF A, pg, R, v, f
<1>5. R = {q \in A : SlotAt(pg, q).src = v /\ Passes(SlotAt(pg, q), f)}
  <2>1. ASSUME NEW x \in R
        PROVE  x \in A /\ SlotAt(pg, x).src = v /\ Passes(SlotAt(pg, x), f)
    BY <1>2, <1>3, <1>4, <2>1
  <2>2. ASSUME NEW q \in A, SlotAt(pg, q).src = v, Passes(SlotAt(pg, q), f)
        PROVE  q \in R
    BY <1>2, <1>3, <1>4, <2>2
  <2>. QED
    BY <2>1, <2>2
<1>. QED
  BY <1>5 DEF Answers, A, pg, R, v, f

LEMMA StoreKeepsScan ==
  ASSUME ScanInv, StoreStep
  PROVE  ScanInv'
<1>1. /\ Next /\ scan' = scan /\ dead' = dead
      /\ steady' \subseteq steady /\ steady' \subseteq Answer(scan.vid, scan.filter)'
  BY DEF StoreStep
<1>2. TxnInv /\ ScanType /\ TypeOK /\ StoreShape /\ page \in Pages
  BY TxnFacts, StorePages DEF ScanInv
<1>3. TxnInv' /\ StoreShape' /\ page' \in Pages
  <2>1. TxnInv'
    BY <1>1, <1>2, NextTxn
  <2>. QED
    BY <2>1 DEF TxnInv, ChainInv, TypeOK, Pages
<1>4. PagesGrow(page, page', committed, nextXid, Running)
  BY <1>1, <1>2, StoreGrows
<1>5. /\ nextXid \in Nat /\ nextXid' \in Nat /\ nextXid <= nextXid'
      /\ committed \subseteq committed' /\ committed' \subseteq committed \cup Running
      /\ Running' \subseteq Running \cup {nextXid}
      /\ InvalidXid \notin committed /\ FrozenXid \notin committed
  BY <1>1, <1>2, IdsMoveOn
<1>6. Shape(page, eof, meta.first, meta.last, meta.nextVid)
  BY <1>2 DEF StoreShape
<1>. DEFINE pg == page
            qg == page'
            st == steady'
<1>7. ScanType'
  BY <1>1, <1>2 DEF ScanType
<1>8. SteadyInv'
  <2>1. Answer(scan.vid, scan.filter)' =
          Answers(page', committed', scan'.vid, scan'.filter)
    BY <1>3, NextAnswersFlat
  <2>. QED
    BY <1>1, <2>1 DEF SteadyInv, ScanInv
<1>. HIDE DEF qg, st
<1>9. StayDead(qg, committed', dead)
  BY <1>4, <1>5, StayDeadKept DEF ScanInv, qg
<1>10. Sound(qg, committed', scan, dead)
  BY <1>4, <1>5, SoundKept DEF ScanInv, qg
<1>11. scan.phase = "locate" => OnVertexChain(qg, scan, st)
  BY <1>1, <1>2, <1>3, <1>4, <1>6, OnVertexChainKept DEF ScanInv, qg, st
<1>12. ASSUME scan.phase = "read"
       PROVE  /\ OnAdjChain(qg, scan)
              /\ Behind(qg, committed', nextXid', Running', scan, dead)
              /\ InOrder(qg, scan, st)
  <2>1. /\ OnAdjChain(page, scan) /\ InOrder(page, scan, steady)
        /\ Behind(page, committed, nextXid, Running, scan, dead)
    BY <1>12 DEF ScanInv
  <2>2. OnAdjChain(qg, scan)
    BY <1>4, <2>1, OnAdjChainKept DEF qg
  <2>3. Behind(qg, committed', nextXid', Running', scan, dead)
    <3>1. scan.buf \in Seq(EdgeSlot)
      BY <1>2 DEF ScanType
    <3>. QED
      BY <1>4, <1>5, <2>1, <3>1, BehindKept DEF qg
  <2>4. InOrder(qg, scan, st)
    <3>1. \A p \in Served(scan) : p \in Slots(page)
      BY DEF ScanInv, Sound
    <3>. QED
      BY <1>1, <1>2, <1>3, <1>4, <1>6, <2>1, <3>1, InOrderKept DEF qg, st
  <2>. QED
    BY <2>2, <2>3, <2>4
<1>13. /\ scan.phase \in {"idle", "locate", "dense"} => Unread(scan)
       /\ scan.phase = "done" => st \subseteq Served(scan)
  BY <1>1 DEF ScanInv, st
<1>. QED
  BY <1>1, <1>3, <1>7, <1>8, <1>9, <1>10, <1>11, <1>12, <1>13 DEF ScanInv, qg, st

-----------------------------------------------------------------------------
(* The steps of the scan.                                                  *)

\* An answer is a slot on a page of the vertex, whose record is live.
LEMMA AnswerOnChain ==
  ASSUME TypeOK, StoreShape, NEW v, NEW f, NEW q \in Answers(page, committed, v, f)
  PROVE  /\ q \in Slots(page) /\ q = <<q[1], q[2]>> /\ q[1] \in OwnedPages(page, v)
         /\ q[2] \in 1..Len(page[q[1]].slots)
         /\ \E p \in Positions(page) :
              /\ RecordAt(page, p).vid = v /\ Live(InvalidXid, RecordAt(page, p))
              /\ p[1] \in VertexPages(page)
<1>1. /\ page \in Pages /\ Extent(page, eof) /\ VidsOnce(page, meta.nextVid)
      /\ Shape(page, eof, meta.first, meta.last, meta.nextVid)
  BY StorePages DEF StoreShape, Shape
<1>2. /\ q \in Slots(page) /\ SlotAt(page, q).src = v
      /\ v \in Vertices(page, committed, InvalidXid)
  BY DEF Answers, AliveSlots
<1>3. PICK b \in Block : \E i \in DOMAIN page[b].slots : q = <<b, i>>
  BY <1>2 DEF Slots
<1>4. /\ q = <<q[1], q[2]>> /\ q[1] = b /\ q[2] \in DOMAIN page[b].slots
  BY <1>3
<1>5. page[b].slots \in Seq(EdgeSlot)
  BY <1>1 DEF Pages, Page
<1>6. q[2] \in 1..Len(page[q[1]].slots)
  BY <1>4, <1>5, LenProperties
<1>7. b \in OwnedPages(page, v)
  <2>1. b \in OwnedPages(page, page[b].owner)
    BY <1>1, <1>4 DEF Extent, OwnedPages
  <2>2. \E head, tail : ChainShape(page, page[b].owner, head, tail)
    BY <1>1, <2>1, AdjChainOf
  <2>3. page[b].slots[q[2]].src = page[b].owner
    BY <1>4, <2>1, <2>2 DEF ChainShape
  <2>. QED
    BY <1>2, <1>4, <2>1, <2>3 DEF SlotAt
<1>8. PICK p \in Positions(page) :
        RecordAt(page, p).vid = v /\ Alive(committed, InvalidXid, RecordAt(page, p))
  BY <1>2 DEF Vertices, AlivePositions
<1>9. p[1] \in VertexPages(page)
  BY <1>1, RecordType DEF Extent, VertexPages
<1>. QED
  BY <1>2, <1>4, <1>6, <1>7, <1>8, <1>9, LiveIsAlive

\* What every step of the scan leaves alone.
LEMMA ScanStepFacts ==
  ASSUME ScanInv, NEW sc, ScanStep(sc)
  PROVE  /\ scan' = sc /\ steady' = steady /\ dead' = dead
         /\ page' = page /\ committed' = committed /\ nextXid' = nextXid
         /\ Running' = Running /\ TxnInv'
<1>1. scan' = sc /\ UNCHANGED vars /\ steady' = steady /\ dead' = dead
  BY DEF ScanStep
<1>2. TxnInv'
  BY <1>1, NextTxn DEF ScanInv
<1>. QED
  BY <1>1, <1>2 DEF vars, Running

LEMMA BeginKeeps ==
  ASSUME ScanInv, NEW phase \in {"locate", "dense", "done"}, NEW blk, Begin(phase, blk),
         phase = "locate" => blk = meta.first,
         phase = "done" => Answers(page, committed, scan.vid, scan.filter) = {}
  PROVE  ScanInv'
<1>1. /\ TxnInv /\ TypeOK /\ StoreShape /\ ScanType /\ page \in Pages
      /\ Unread(scan) /\ scan.phase = "idle"
  BY TxnFacts, StorePages DEF ScanInv, Begin
<1>2. /\ UNCHANGED vars
      /\ scan' = [scan EXCEPT !.phase = phase, !.blk = blk, !.snapshot = SnapshotXmin]
      /\ steady' = Answer(scan.vid, scan.filter) /\ dead' = DeadSlots
  BY DEF Begin
<1>3. /\ page' = page /\ committed' = committed
  BY <1>2 DEF vars
<1>4. TxnInv'
  BY <1>1, <1>2, NextTxn
<1>. DEFINE sc == scan'
            st == steady'
            dd == dead'
<1>5. /\ sc.phase = phase /\ sc.blk = blk /\ sc.vid = scan.vid /\ sc.filter = scan.filter
      /\ sc.at = scan.at /\ sc.buf = scan.buf /\ sc.i = scan.i /\ sc.out = scan.out
  BY <1>1, <1>2 DEF ScanType
<1>6. ScanType'
  BY <1>1, <1>2 DEF ScanType
<1>7. st = Answers(page, committed, scan.vid, scan.filter)
  BY <1>1, <1>2, AnswersFlat
<1>8. StayDead(page, committed, dd)
  <2>. SUFFICES ASSUME NEW p \in DeadSlots
                PROVE  p \in Slots(page) /\ Deleted(committed, SlotAt(page, p))
    BY <1>2 DEF StayDead
  <2>1. /\ p[1] \in Block /\ p = <<p[1], p[2]>>
        /\ p[2] \in DOMAIN page[p[1]].slots
        /\ DeletedVisible(InvalidXid, page[p[1]].slots[p[2]])
    BY DEF DeadSlots, SlotPlaces
  <2>. QED
    BY <2>1 DEF Slots, SlotAt, Deleted, Seen, DeletedVisible, XminVisible, DidCommit
<1>. HIDE DEF sc, st, dd
<1>9. Unread(sc) /\ Sound(page, committed, sc, dd) /\ Served(sc) = {}
  BY <1>1, <1>5 DEF Unread, Sound, Served
<1>10. sc.phase = "locate" => OnVertexChain(page, sc, st)
  <2>. SUFFICES ASSUME sc.phase = "locate" PROVE OnVertexChain(page, sc, st)
    OBVIOUS
  <2>1. /\ sc.blk = meta.first /\ meta.first \in Link
        /\ Walk(Nexts(page), meta.first) = VertexPages(page)
    BY <1>1, <1>5, StorePages DEF StoreShape, Shape, VertexShape, IsChain
  <2>2. sc.blk # NoBlock => sc.blk \in VertexPages(page)
    BY <2>1, WalkClosed DEF Link
  <2>3. ASSUME st # {}
        PROVE  \E p \in Positions(page) : RecordAt(page, p).vid = sc.vid
                                            /\ p[1] \in VertexPages(page)
    BY <1>1, <1>5, <1>7, <2>3, AnswerOnChain
  <2>. QED
    BY <2>1, <2>2, <2>3 DEF OnVertexChain
<1>11. SteadyInv'
  <2>1. steady' \subseteq Answers(page', committed', scan'.vid, scan'.filter)
    BY <1>3, <1>5, <1>7 DEF sc, st
  <2>2. scan'.phase # "idle"
    BY <1>5 DEF sc
  <2>. QED
    BY <2>1, <2>2 DEF SteadyInv
<1>12. /\ sc.phase \in {"locate", "dense", "done"}
       /\ sc.phase = "done" => st = {}
  BY <1>5, <1>7
<1>. QED
  BY <1>3, <1>4, <1>6, <1>8, <1>9, <1>10, <1>11, <1>12 DEF ScanInv, sc, st, dd

LEMMA OpenKeeps == ASSUME ScanInv, ScanOpen PROVE ScanInv'
BY BeginKeeps DEF ScanOpen

LEMMA OpenDenseKeeps == ASSUME ScanInv, ScanOpenDense PROVE ScanInv'
<1>1. CASE DenseInRange(scan.vid)
  BY <1>1, BeginKeeps DEF ScanOpenDense
<1>2. CASE ~DenseInRange(scan.vid)
  <2>1. TypeOK /\ StoreShape /\ scan.vid \in Vid
    BY TxnFacts DEF ScanInv, ScanType
  <2>2. Answers(page, committed, scan.vid, scan.filter) = {}
    <3>. SUFFICES ASSUME Answers(page, committed, scan.vid, scan.filter) # {} PROVE FALSE
      OBVIOUS
    <3>1. PICK p \in Positions(page) :
            RecordAt(page, p).vid = scan.vid /\ p[1] \in VertexPages(page)
      BY <2>1, AnswerOnChain
    <3>2. scan.vid \in 0..(meta.nextVid - 1)
      BY <2>1, <3>1 DEF StoreShape, Shape, VidsOnce
    <3>3. scan.vid < meta.nextVid
      BY <2>1, <3>2, StorePages
    <3>4. meta.first # NoBlock
      BY <2>1, <3>1, WalkNowhere DEF StoreShape, Shape, VertexShape, IsChain
    <3>. QED
      BY <1>2, <3>3, <3>4 DEF DenseInRange
  <2>. QED
    BY <1>2, <2>2, BeginKeeps DEF ScanOpenDense
<1>. QED
  BY <1>1, <1>2

\* The vertex was found: its chain is read from the head on.
LEMMA FoundKeeps ==
  ASSUME ScanInv, scan.phase \in {"locate", "dense"},
         NEW p \in Positions(page), RecordAt(page, p).vid = scan.vid,
         ScanStep([scan EXCEPT !.phase = "read", !.blk = RecordAt(page, p).head])
  PROVE  ScanInv'
<1>1. /\ TypeOK /\ StoreShape /\ ScanType /\ Unread(scan) /\ page \in Pages
  BY TxnFacts, StorePages DEF ScanInv
<1>. DEFINE sc == scan'
            h  == RecordAt(page, p).head
<1>2. /\ scan' = [scan EXCEPT !.phase = "read", !.blk = h]
      /\ steady' = steady /\ dead' = dead
      /\ page' = page /\ committed' = committed /\ nextXid' = nextXid
      /\ Running' = Running /\ TxnInv'
  BY ScanStepFacts
<1>3. /\ sc.phase = "read" /\ sc.blk = h /\ sc.vid = scan.vid /\ sc.filter = scan.filter
      /\ sc.at = scan.at /\ sc.buf = scan.buf /\ sc.i = scan.i /\ sc.out = scan.out
  BY <1>1, <1>2 DEF ScanType
<1>4. ScanType'
  BY <1>1, <1>2 DEF ScanType
<1>5. SteadyInv'
  BY <1>2, <1>3 DEF SteadyInv, ScanInv
<1>. HIDE DEF sc
<1>6. /\ h \in Link /\ Walk(Nexts(page), h) = OwnedPages(page, scan.vid)
      /\ h # NoBlock => h \in OwnedPages(page, scan.vid)
  <2>1. IsChain(Nexts(page), OwnedPages(page, scan.vid), h, RecordAt(page, p).tail)
    BY <1>1 DEF StoreShape, Shape, AdjacencyShape, ChainShape
  <2>. HIDE DEF h
  <2>. QED
    BY <2>1, WalkClosed DEF IsChain, Link
<1>. HIDE DEF h
<1>7. /\ Unread(sc) /\ Served(sc) = {} /\ DOMAIN sc.buf = {}
      /\ Sound(page, committed, sc, dead)
      /\ Behind(page, committed, nextXid, Running, sc, dead)
  BY <1>1, <1>3 DEF Unread, Served, Sound, Behind
<1>8. OnAdjChain(page, sc)
  BY <1>3, <1>6, <1>7 DEF OnAdjChain, Unread
<1>9. InOrder(page, sc, steady)
  <2>1. \A q \in steady : q[1] \in OwnedPages(page, scan.vid)
    BY <1>1, AnswerOnChain DEF ScanInv, SteadyInv
  <2>. QED
    BY <1>3, <1>6, <1>7, <2>1 DEF InOrder
<1>10. StayDead(page, committed, dead)
  BY DEF ScanInv
<1>. QED
  BY <1>2, <1>3, <1>4, <1>5, <1>7, <1>8, <1>9, <1>10 DEF ScanInv, sc

\* The scan ends, or is given up.
LEMMA EndKeeps ==
  ASSUME ScanInv, NEW phase \in {"done", "failed"},
         phase = "done" => steady \subseteq Served(scan),
         ScanStep([scan EXCEPT !.phase = phase])
  PROVE  ScanInv'
<1>1. ScanType
  BY DEF ScanInv
<1>2. /\ scan' = [scan EXCEPT !.phase = phase]
      /\ steady' = steady /\ dead' = dead
      /\ page' = page /\ committed' = committed /\ TxnInv'
  BY ScanStepFacts
<1>3. /\ scan'.phase = phase /\ scan'.vid = scan.vid /\ scan'.filter = scan.filter
      /\ scan'.out = scan.out
  BY <1>1, <1>2 DEF ScanType
<1>4. ScanType'
  BY <1>1, <1>2 DEF ScanType
<1>5. SteadyInv'
  BY <1>2, <1>3 DEF SteadyInv, ScanInv
<1>6. Sound(page, committed, scan', dead) /\ Served(scan') = Served(scan)
  BY <1>3 DEF ScanInv, Sound, Served
<1>7. StayDead(page, committed, dead)
  BY DEF ScanInv
<1>. QED
  BY <1>2, <1>3, <1>4, <1>5, <1>6, <1>7 DEF ScanInv

LEMMA LocateKeeps == ASSUME ScanInv, ScanLocate PROVE ScanInv'
<1>1. /\ TypeOK /\ StoreShape /\ ScanType /\ Unread(scan) /\ page \in Pages
      /\ scan.phase = "locate" /\ OnVertexChain(page, scan, steady)
      /\ VidsOnce(page, meta.nextVid)
  BY TxnFacts, StorePages DEF ScanInv, ScanLocate, StoreShape, Shape
<1>2. CASE scan.blk = NoBlock /\ ScanStep([scan EXCEPT !.phase = "done"])
  <2>1. steady = {}
    BY <1>1, <1>2, WalkNowhere DEF OnVertexChain
  <2>. QED
    BY <1>2, <2>1, EndKeeps
<1>3. ASSUME scan.blk # NoBlock, NEW i \in Hits(scan.blk),
             ScanStep([scan EXCEPT !.phase = "read",
                                   !.blk = page[scan.blk].vertices[i].head])
      PROVE  ScanInv'
  <2>. DEFINE p == <<scan.blk, i>>
  <2>1. /\ scan.blk \in Block /\ i \in DOMAIN page[scan.blk].vertices
        /\ page[scan.blk].vertices[i].vid = scan.vid
    BY <1>1, <1>3 DEF Hits, OnVertexChain, Link
  <2>2. /\ p \in Positions(page) /\ RecordAt(page, p).vid = scan.vid
        /\ page[scan.blk].vertices[i].head = RecordAt(page, p).head
    BY <2>1, PositionOf DEF RecordAt
  <2>. HIDE DEF p
  <2>. QED
    BY <1>1, <1>3, <2>2, FoundKeeps
<1>4. ASSUME scan.blk # NoBlock, Hits(scan.blk) = {},
             ScanStep([scan EXCEPT !.blk = page[scan.blk].next])
      PROVE  ScanInv'
  <2>. DEFINE b  == scan.blk
              c  == page[b].next
              sc == scan'
  <2>1. /\ scan' = [scan EXCEPT !.blk = c]
        /\ steady' = steady /\ dead' = dead
        /\ page' = page /\ committed' = committed /\ TxnInv'
    BY <1>4, ScanStepFacts
  <2>2. /\ sc.phase = "locate" /\ sc.blk = c /\ sc.vid = scan.vid /\ sc.filter = scan.filter
        /\ sc.at = scan.at /\ sc.buf = scan.buf /\ sc.i = scan.i /\ sc.out = scan.out
    BY <1>1, <2>1 DEF ScanType
  <2>3. ScanType' /\ SteadyInv'
    BY <1>1, <2>1, <2>2 DEF ScanType, SteadyInv, ScanInv
  <2>. HIDE DEF sc
  <2>4. Unread(sc) /\ Sound(page, committed, sc, dead)
    BY <1>1, <2>2 DEF ScanInv, Unread, Sound, Served
  <2>5. /\ b \in Block /\ b \in VertexPages(page) /\ Nexts(page) \in Links
        /\ Nexts(page)[b] = c
    BY <1>1, <1>4, NextsType DEF OnVertexChain, Link
  <2>6. c \in Link /\ (c # NoBlock => c \in VertexPages(page))
    <3>1. IsChain(Nexts(page), VertexPages(page), meta.first, meta.last)
      BY <1>1 DEF StoreShape, Shape, VertexShape
    <3>2. Closed(Nexts(page), VertexPages(page))
      BY <2>5, <3>1, ChainClosed
    <3>3. Nexts(page)[b] \in Link
      BY <2>5, LinkType
    <3>. QED
      BY <2>5, <3>2, <3>3 DEF Closed
  <2>7. ASSUME steady # {}
        PROVE  \E p \in Positions(page) : /\ RecordAt(page, p).vid = scan.vid
                                            /\ p[1] \in Walk(Nexts(page), c)
    <3>1. PICK p \in Positions(page) : /\ RecordAt(page, p).vid = scan.vid
                                         /\ p[1] \in Walk(Nexts(page), b)
      BY <1>1, <2>7 DEF OnVertexChain
    <3>2. PICK r \in Positions(page) : /\ RecordAt(page, r).vid = scan.vid
                                         /\ Live(InvalidXid, RecordAt(page, r))
      BY <1>1, <2>7, AnswerOnChain DEF ScanInv, SteadyInv
    <3>3. r = p
      BY <1>1, <3>1, <3>2 DEF VidsOnce
    <3>4. p[1] # b
      <4>. SUFFICES ASSUME p[1] = b PROVE FALSE
        OBVIOUS
      <4>1. p[2] \in DOMAIN page[b].vertices
        BY <1>1, RecordType
      <4>2. p[2] \in Hits(b)
        BY <3>1, <3>2, <3>3, <4>1 DEF Hits, RecordAt
      <4>. QED
        BY <1>4, <4>2
    <3>5. Walk(Nexts(page), b) = {b} \cup Walk(Nexts(page), c)
      BY <2>5, WalkUnfolds
    <3>. QED
      BY <3>1, <3>4, <3>5
  <2>. HIDE DEF b, c
  <2>8. OnVertexChain(page, sc, steady)
    BY <2>2, <2>6, <2>7 DEF OnVertexChain
  <2>9. StayDead(page, committed, dead)
    BY DEF ScanInv
  <2>. QED
    BY <2>1, <2>2, <2>3, <2>4, <2>8, <2>9 DEF ScanInv, sc
<1>. QED
  BY <1>2, <1>3, <1>4 DEF ScanLocate

\* A vertex with anything to answer has a vid that was handed out.
LEMMA AnswerInRange ==
  ASSUME TypeOK, StoreShape, NEW p \in Positions(page), p[1] \in VertexPages(page)
  PROVE  DenseInRange(RecordAt(page, p).vid)
<1>. DEFINE v == RecordAt(page, p).vid
<1>1. v \in 0..(meta.nextVid - 1)
  BY DEF StoreShape, Shape, VidsOnce
<1>2. v < meta.nextVid
  <2>. HIDE DEF v
  <2>. QED
    BY <1>1, StorePages
<1>3. meta.first # NoBlock
  BY WalkNowhere DEF StoreShape, Shape, VertexShape, IsChain
<1>. QED
  BY <1>2, <1>3 DEF DenseInRange

LEMMA LocateDenseKeeps == ASSUME ScanInv, ScanLocateDense PROVE ScanInv'
<1>1. /\ TypeOK /\ StoreShape /\ page \in Pages /\ scan.phase = "dense"
      /\ VidsOnce(page, meta.nextVid)
      /\ VertexPositions = Positions(page)
      /\ \A p : VertexAt(p) = RecordAt(page, p)
  BY TxnFacts, StorePages DEF ScanInv, ScanLocateDense, StoreShape, Shape
<1>2. CASE ScanStep([scan EXCEPT !.phase = "failed"])
  BY <1>2, EndKeeps
<1>3. ASSUME NEW p \in DenseLocated(InvalidXid, scan.vid),
             ScanStep([scan EXCEPT !.phase = "read", !.blk = VertexAt(p).head])
      PROVE  ScanInv'
  <2>1. p \in Positions(page) /\ RecordAt(page, p).vid = scan.vid
    BY <1>1 DEF DenseLocated, DenseVerified
  <2>. QED
    BY <1>1, <1>3, <2>1, FoundKeeps
<1>4. ASSUME DenseVerified(scan.vid), DenseLocated(InvalidXid, scan.vid) = {},
             ScanStep([scan EXCEPT !.phase = "done"])
      PROVE  ScanInv'
  <2>1. ASSUME steady # {} PROVE FALSE
    <3>1. PICK p \in Positions(page) :
            /\ RecordAt(page, p).vid = scan.vid /\ Live(InvalidXid, RecordAt(page, p))
            /\ p[1] \in VertexPages(page)
      BY <1>1, <2>1, AnswerOnChain DEF ScanInv, SteadyInv
    <3>2. p = DensePosition(scan.vid)
      BY <1>1, <1>4, <3>1 DEF VidsOnce, DenseVerified
    <3>3. DenseInRange(scan.vid)
      BY <1>1, <3>1, AnswerInRange
    <3>. QED
      BY <1>1, <1>4, <3>1, <3>2, <3>3 DEF DenseLocated
  <2>. QED
    BY <1>4, <2>1, EndKeeps
<1>. QED
  BY <1>2, <1>3, <1>4 DEF ScanLocateDense

LEMMA FinishKeeps == ASSUME ScanInv, Finish PROVE ScanInv'
<1>1. /\ scan.phase = "read" /\ scan.blk = NoBlock /\ scan.i > Len(scan.buf)
      /\ ScanStep([scan EXCEPT !.phase = "done"])
      /\ ScanType /\ InOrder(page, scan, steady)
  BY DEF Finish, BufferServed, ScanInv
<1>2. steady \subseteq Served(scan)
  <2>1. scan.i \in Nat /\ Len(scan.buf) \in Nat
    BY <1>1, LenProperties DEF ScanType
  <2>2. scan.i..Len(scan.buf) = {}
    BY <1>1, <2>1
  <2>. QED
    BY <1>1, <2>2, WalkNowhere DEF InOrder
<1>. QED
  BY <1>1, <1>2, EndKeeps

\* The chain of a vertex does not leave its pages, nor come back to one.
LEMMA OwnedChain ==
  ASSUME StoreShape, page \in Pages, NEW v, NEW b \in OwnedPages(page, v)
  PROVE  /\ b \in Block /\ page[b].next \in Link
         /\ page[b].next # NoBlock => page[b].next \in OwnedPages(page, v)
         /\ Walk(Nexts(page), b) = {b} \cup Walk(Nexts(page), page[b].next)
         /\ b \notin Walk(Nexts(page), page[b].next)
<1>1. /\ b \in Block /\ Nexts(page) \in Links /\ Nexts(page)[b] = page[b].next
  BY NextsType DEF OwnedPages
<1>2. PICK head, tail : ChainShape(page, v, head, tail)
  BY AdjChainOf DEF StoreShape
<1>3. IsChain(Nexts(page), OwnedPages(page, v), head, tail)
  BY <1>2 DEF ChainShape
<1>4. Closed(Nexts(page), OwnedPages(page, v))
  BY <1>1, <1>3, ChainClosed
<1>5. Nexts(page)[b] \in Link
  BY <1>1, LinkType
<1>6. Nexts(page)[b] \in OwnedPages(page, v) \cup {NoBlock}
  BY <1>4 DEF Closed
<1>7. /\ Walk(Nexts(page), b) = {b} \cup Walk(Nexts(page), Nexts(page)[b])
      /\ b \notin Walk(Nexts(page), Nexts(page)[b])
  BY <1>1, <1>3, WalkUnfolds, ChainAcyclic
<1>. QED
  BY <1>1, <1>5, <1>6, <1>7

LEMMA ReadPageKeeps == ASSUME ScanInv, ReadPage PROVE ScanInv'
<1>. DEFINE b  == scan.blk
            c  == page[b].next
            ss == page[b].slots
            sc == scan'
<1>1. /\ TypeOK /\ StoreShape /\ ScanType /\ page \in Pages
      /\ scan.phase = "read" /\ b # NoBlock /\ scan.i > Len(scan.buf)
      /\ ScanStep([scan EXCEPT !.buf = ss, !.at = b, !.i = 1, !.blk = c])
      /\ OnAdjChain(page, scan) /\ InOrder(page, scan, steady)
      /\ Sound(page, committed, scan, dead) /\ StayDead(page, committed, dead)
      /\ SteadyInv
  BY TxnFacts, StorePages DEF ScanInv, ReadPage, BufferServed
<1>2. /\ scan' = [scan EXCEPT !.buf = ss, !.at = b, !.i = 1, !.blk = c]
      /\ steady' = steady /\ dead' = dead
      /\ page' = page /\ committed' = committed /\ nextXid' = nextXid
      /\ Running' = Running /\ TxnInv'
  BY <1>1, ScanStepFacts
<1>3. /\ sc.phase = "read" /\ sc.blk = c /\ sc.vid = scan.vid /\ sc.filter = scan.filter
      /\ sc.at = b /\ sc.buf = ss /\ sc.i = 1 /\ sc.out = scan.out
  BY <1>1, <1>2 DEF ScanType
<1>4. /\ b \in OwnedPages(page, scan.vid) /\ b \in Block /\ c \in Link
      /\ c # NoBlock => c \in OwnedPages(page, scan.vid)
      /\ Walk(Nexts(page), b) = {b} \cup Walk(Nexts(page), c)
  BY <1>1, OwnedChain DEF OnAdjChain
<1>5. ss \in Seq(EdgeSlot) /\ Len(ss) \in Nat /\ DOMAIN ss = 1..Len(ss)
  BY <1>1, <1>4, LenProperties DEF Pages, Page
<1>6. ScanType'
  <2>1. b \in Link
    BY <1>4 DEF Link
  <2>. HIDE DEF b, c, ss
  <2>. QED
    BY <1>1, <1>2, <1>5, <2>1 DEF ScanType
<1>7. SteadyInv'
  BY <1>1, <1>2, <1>3 DEF SteadyInv
<1>. HIDE DEF sc
<1>8. Sound(page, committed, sc, dead) /\ Served(sc) = Served(scan)
  BY <1>1, <1>3 DEF Sound, Served
<1>9. OnAdjChain(page, sc)
  BY <1>1, <1>3, <1>4 DEF OnAdjChain
<1>10. Behind(page, committed, nextXid, Running, sc, dead)
  <2>. SUFFICES ASSUME NEW j \in DOMAIN ss
                PROVE  /\ <<b, j>> \in Slots(page)
                       /\ Follows(committed, nextXid, Running, ss[j], SlotAt(page, <<b, j>>))
                       /\ <<b, j>> \in dead => Deleted(committed, ss[j])
    BY <1>3 DEF Behind
  <2>1. <<b, j>> \in Slots(page) /\ SlotAt(page, <<b, j>>) = ss[j]
    BY <1>4, SlotIn
  <2>. QED
    BY <1>1, <2>1, FollowsItself DEF StayDead
<1>11. InOrder(page, sc, steady)
  <2>1. ASSUME NEW p \in Served(scan)
        PROVE  b \in Walk(Nexts(page), page[p[1]].next)
    <3>1. /\ p[1] \in Block /\ Nexts(page) \in Links
          /\ \A d \in Block : Nexts(page)[d] = page[d].next
      BY <1>1, SlotOf, NextsType DEF Sound
    <3>2. scan.at # NoBlock /\ scan.at \in Block /\ b = page[scan.at].next
      <4>1. scan.at # NoBlock
        BY <1>1 DEF OnAdjChain, Unread, Served
      <4>. QED
        BY <1>1, <4>1 DEF OnAdjChain, OwnedPages
    <3>3. CASE p[1] = scan.at
      BY <1>4, <3>2, <3>3, WalkClosed
    <3>4. CASE scan.at \in Walk(Nexts(page), page[p[1]].next)
      <4>1. page[p[1]].next \in Block
        BY <3>1, <3>4, LinkType, WalkNowhere
      <4>2. Closed(Nexts(page), Walk(Nexts(page), page[p[1]].next))
        BY <3>1, <4>1, WalkClosed
      <4>3. Nexts(page)[scan.at] = b
        BY <3>1, <3>2
      <4>. QED
        BY <1>1, <3>4, <4>2, <4>3 DEF Closed
    <3>. QED
      BY <1>1, <3>3, <3>4 DEF InOrder
  <2>2. ASSUME NEW p \in steady
        PROVE  \/ p \in Served(scan)
               \/ p[1] \in Walk(Nexts(page), c)
               \/ p[1] = b /\ p[2] \in 1..Len(ss)
    <3>1. scan.i..Len(scan.buf) = {}
      <4>1. scan.i \in Nat /\ Len(scan.buf) \in Nat
        BY <1>1, LenProperties DEF ScanType
      <4>. QED
        BY <1>1, <4>1
    <3>2. p \in Served(scan) \/ p[1] = b \/ p[1] \in Walk(Nexts(page), c)
      BY <1>1, <1>4, <3>1 DEF InOrder
    <3>3. p[1] = b => p[2] \in 1..Len(ss)
      BY <1>1, AnswerOnChain DEF SteadyInv
    <3>. QED
      BY <3>2, <3>3
  <2>. QED
    BY <1>3, <1>8, <2>1, <2>2 DEF InOrder
<1>. QED
  BY <1>1, <1>2, <1>3, <1>6, <1>7, <1>8, <1>9, <1>10, <1>11 DEF ScanInv, sc

\* The copied slot that is served next and the slot it was copied from: if the
\* one passes, the other was not served before and may be; and what is owed
\* passes.
LEMMA ServedSlot ==
  ASSUME ScanInv, scan.phase = "read", scan.i \in DOMAIN scan.buf,
         NEW q, q = <<scan.at, scan.i>>
  PROVE  /\ q \in Block \X Nat /\ scan.at # NoBlock
         /\ Emits(scan.buf[scan.i]) =>
              /\ q \in Slots(page) /\ q \notin Served(scan) /\ q \notin dead
              /\ Seen(committed, InvalidXid, SlotAt(page, q).xmin)
         /\ q \in steady => Emits(scan.buf[scan.i])
<1>. DEFINE c == scan.buf[scan.i]
            e == SlotAt(page, q)
<1>1. /\ TypeOK /\ StoreShape /\ ScanType /\ page \in Pages
      /\ OnAdjChain(page, scan) /\ InOrder(page, scan, steady)
      /\ Behind(page, committed, nextXid, Running, scan, dead)
      /\ InvalidXid \notin committed /\ FrozenXid \notin committed
      /\ SteadyInv
  BY TxnFacts, StorePages, Constants DEF ScanInv, TypeOK
<1>2. /\ scan.at # NoBlock /\ scan.at \in OwnedPages(page, scan.vid)
      /\ scan.at \in Block /\ scan.i \in Nat
  <2>1. scan.at # NoBlock
    BY <1>1 DEF OnAdjChain, Unread
  <2>. QED
    BY <1>1, <2>1 DEF OnAdjChain, OwnedPages, ScanType
<1>3. /\ q \in Slots(page)
      /\ q \in dead => Deleted(committed, c)
      /\ Follows(committed, nextXid, Running, c, e)
  BY <1>1 DEF Behind
<1>4. /\ e.src = c.src /\ e.type = c.type
      /\ Seen(committed, InvalidXid, e.xmin) <=> Seen(committed, InvalidXid, c.xmin)
      /\ Deleted(committed, c) => Deleted(committed, e)
  BY <1>1, <1>3, FollowsReads DEF Follows, Deleted
<1>5. Live(InvalidXid, c) <=>
        Seen(committed, InvalidXid, c.xmin) /\ ~Deleted(committed, c)
  BY LiveIsAlive DEF Alive, Deleted
<1>6. q \notin Served(scan)
  <2>1. scan.at \notin Walk(Nexts(page), page[scan.at].next)
    BY <1>1, <1>2, OwnedChain
  <2>. QED
    BY <1>1, <1>2, <2>1 DEF InOrder
<1>7. q \in steady => Emits(c)
  <2>. HIDE DEF e, c
  <2>1. q \in steady => /\ Alive(committed, InvalidXid, e) /\ Passes(e, scan.filter)
    BY <1>1 DEF SteadyInv, Answers, AliveSlots, e
  <2>. QED
    BY <1>4, <1>5, <2>1 DEF Emits, Alive, Deleted, Passes
<1>. QED
  BY <1>2, <1>3, <1>4, <1>5, <1>6, <1>7 DEF Emits

LEMMA ServeKeeps == ASSUME ScanInv, Serve PROVE ScanInv'
<1>. DEFINE q  == <<scan.at, scan.i>>
            c  == scan.buf[scan.i]
            o  == IF Emits(c) THEN Append(scan.out, q) ELSE scan.out
            sc == scan'
<1>1. /\ TypeOK /\ StoreShape /\ ScanType
      /\ scan.phase = "read" /\ scan.i \in DOMAIN scan.buf
      /\ OnAdjChain(page, scan) /\ InOrder(page, scan, steady)
      /\ Behind(page, committed, nextXid, Running, scan, dead)
      /\ Sound(page, committed, scan, dead) /\ StayDead(page, committed, dead)
      /\ SteadyInv
  BY TxnFacts DEF ScanInv, Serve
<1>2. ScanStep([scan EXCEPT !.i = scan.i + 1, !.out = o])
  BY <1>1 DEF Serve, ScanType
<1>3. /\ scan' = [scan EXCEPT !.i = scan.i + 1, !.out = o]
      /\ steady' = steady /\ dead' = dead
      /\ page' = page /\ committed' = committed /\ nextXid' = nextXid
      /\ Running' = Running /\ TxnInv'
  BY <1>2, ScanStepFacts
<1>4. /\ sc.phase = "read" /\ sc.blk = scan.blk /\ sc.vid = scan.vid
      /\ sc.filter = scan.filter /\ sc.at = scan.at /\ sc.buf = scan.buf
      /\ sc.i = scan.i + 1 /\ sc.out = o
  BY <1>1, <1>3 DEF ScanType
<1>5. /\ q \in Block \X Nat /\ scan.at # NoBlock
      /\ Emits(c) => /\ q \in Slots(page) /\ q \notin Served(scan) /\ q \notin dead
                     /\ Seen(committed, InvalidXid, SlotAt(page, q).xmin)
      /\ q \in steady => Emits(c)
  <2>1. q = <<scan.at, scan.i>>
    OBVIOUS
  <2>. HIDE DEF q
  <2>. QED
    BY <1>1, <2>1, ServedSlot DEF ScanInv
<1>6. scan.out \in Seq(Block \X Nat) /\ scan.i \in Nat /\ Len(scan.buf) \in Nat
  BY <1>1, LenProperties DEF ScanType
<1>. HIDE DEF q, c
<1>7. /\ o \in Seq(Block \X Nat)
      /\ Served(sc) = IF Emits(c) THEN Served(scan) \cup {q} ELSE Served(scan)
      /\ \A j, k \in DOMAIN o : o[j] = o[k] => j = k
  <2>1. \A j, k \in DOMAIN scan.out : scan.out[j] = scan.out[k] => j = k
    BY <1>1 DEF Sound
  <2>2. CASE ~Emits(c)
    BY <1>4, <1>6, <2>1, <2>2 DEF Served
  <2>3. CASE Emits(c)
    <3>. DEFINE n == Len(scan.out)
    <3>1. /\ o = Append(scan.out, q) /\ n \in Nat /\ DOMAIN scan.out = 1..n
      BY <1>6, <2>3, LenProperties
    <3>2. /\ o \in Seq(Block \X Nat) /\ Len(o) = n + 1
          /\ \A j \in 1..n : o[j] = scan.out[j]
          /\ o[n + 1] = q
      BY <1>5, <1>6, <3>1, AppendProperties
    <3>. HIDE DEF o, n
    <3>3. DOMAIN o = 1..(n + 1)
      BY <3>2, LenProperties
    <3>4. \A j \in DOMAIN scan.out : scan.out[j] # q
      BY <1>5, <2>3 DEF Served
    <3>5. \A j, k \in DOMAIN o : o[j] = o[k] => j = k
      BY <2>1, <3>1, <3>2, <3>3, <3>4
    <3>6. Served(sc) = Served(scan) \cup {q}
      BY <1>4, <3>1, <3>2, <3>3 DEF Served
    <3>. QED
      BY <2>3, <3>2, <3>5, <3>6
  <2>. QED
    BY <2>2, <2>3
<1>. HIDE DEF o
<1>8. ScanType'
  <2>1. o \in Seq(Block \X Nat) /\ scan.i + 1 \in Nat
    BY <1>6, <1>7
  <2>. QED
    BY <1>1, <1>3, <2>1 DEF ScanType
<1>9. SteadyInv'
  BY <1>1, <1>3, <1>4 DEF SteadyInv
<1>. HIDE DEF sc
<1>10. Sound(page, committed, sc, dead)
  BY <1>1, <1>4, <1>5, <1>7 DEF Sound
<1>11. OnAdjChain(page, sc) /\ Behind(page, committed, nextXid, Running, sc, dead)
  BY <1>1, <1>4, <1>5 DEF OnAdjChain, Behind
<1>12. InOrder(page, sc, steady)
  <2>1. ASSUME NEW p \in Served(sc)
        PROVE  \/ p[1] = scan.at /\ p[2] < scan.i + 1
               \/ scan.at \in Walk(Nexts(page), page[p[1]].next)
    <3>1. CASE p = q
      BY <1>6, <3>1 DEF q
    <3>2. CASE p \in Served(scan)
      <4>1. p[2] \in Nat
        BY <1>6, <3>2 DEF Served
      <4>. QED
        BY <1>1, <1>6, <3>2, <4>1 DEF InOrder
    <3>. QED
      BY <1>7, <3>1, <3>2
  <2>2. ASSUME NEW p \in steady
        PROVE  \/ p \in Served(sc)
               \/ p[1] \in Walk(Nexts(page), scan.blk)
               \/ p[1] = scan.at /\ p[2] \in (scan.i + 1)..Len(scan.buf)
    <3>1. p = <<p[1], p[2]>>
      BY <1>1, AnswerOnChain DEF SteadyInv
    <3>2. \/ p \in Served(scan)
          \/ p[1] \in Walk(Nexts(page), scan.blk)
          \/ p[1] = scan.at /\ p[2] \in scan.i..Len(scan.buf)
      BY <1>1 DEF InOrder
    <3>3. ASSUME p[1] = scan.at, p[2] \in scan.i..Len(scan.buf)
          PROVE  p = q \/ p[2] \in (scan.i + 1)..Len(scan.buf)
      <4>1. p[2] = scan.i \/ p[2] \in (scan.i + 1)..Len(scan.buf)
        BY <1>6, <3>3
      <4>. QED
        BY <3>1, <3>3, <4>1 DEF q
    <3>4. p = q => p \in Served(sc)
      BY <1>5, <1>7
    <3>. QED
      BY <1>7, <3>2, <3>3, <3>4
  <2>. QED
    BY <1>4, <2>1, <2>2 DEF InOrder
<1>. QED
  BY <1>1, <1>3, <1>4, <1>8, <1>9, <1>10, <1>11, <1>12 DEF ScanInv, sc

-----------------------------------------------------------------------------
(* The theorem.                                                            *)

LEMMA InitScan == ScanInit => ScanInv
<1>. SUFFICES ASSUME ScanInit PROVE ScanInv
  OBVIOUS
<1>1. TxnInv
  BY InitTxn DEF ScanInit
<1>2. /\ scan.phase = "idle" /\ Unread(scan) /\ Served(scan) = {}
      /\ steady = {} /\ dead = {}
  BY DEF ScanInit, Unread, Served
<1>3. ScanType
  <2>1. /\ scan = [phase |-> scan.phase, vid |-> scan.vid, filter |-> scan.filter,
                   snapshot |-> scan.snapshot, blk |-> scan.blk, at |-> scan.at,
                   buf |-> scan.buf, i |-> scan.i, out |-> scan.out]
        /\ scan.phase = "idle" /\ scan.vid \in Vid /\ scan.filter \in Filters
        /\ scan.at = NoBlock /\ scan.buf = <<>> /\ scan.i = 1 /\ scan.out = <<>>
    BY DEF ScanInit
  <2>2. scan.at \in Link /\ scan.buf \in Seq(EdgeSlot) /\ scan.i \in Nat
        /\ scan.out \in Seq(Block \X Nat)
    BY <2>1, EmptySeq DEF Link
  <2>. QED
    BY <2>1, <2>2 DEF ScanType
<1>. QED
  BY <1>1, <1>2, <1>3 DEF ScanInv, SteadyInv, StayDead, Sound, Unread

LEMMA NextScan == ScanInv /\ [ScanNext]_scanVars => ScanInv'
<1>. SUFFICES ASSUME ScanInv, [ScanNext]_scanVars PROVE ScanInv'
  OBVIOUS
<1>1. CASE UNCHANGED scanVars
  <2>1. /\ scan' = scan /\ steady' = steady /\ dead' = dead /\ UNCHANGED vars
    BY <1>1 DEF scanVars
  <2>2. TxnInv'
    BY <2>1, NextTxn DEF ScanInv
  <2>3. page' = page /\ committed' = committed /\ nextXid' = nextXid /\ Running' = Running
    BY <2>1 DEF vars, Running
  <2>. QED
    BY <2>1, <2>2, <2>3 DEF ScanInv, ScanType, SteadyInv
<1>. QED
  BY <1>1, OpenKeeps, OpenDenseKeeps, LocateKeeps, LocateDenseKeeps, ReadPageKeeps,
     ServeKeeps, FinishKeeps, StoreKeepsScan DEF ScanNext

LEMMA ScanInvExact == ScanInv => ScanExact
<1>. SUFFICES ASSUME ScanInv PROVE ScanExact
  OBVIOUS
<1>1. Emitted = Served(scan)
  BY DEF Emitted, Served
<1>2. ScanComplete
  BY <1>1 DEF ScanInv, Sound, ScanComplete
<1>3. ScanSound
  <2>1. ASSUME NEW p \in Emitted
        PROVE  XminVisible(InvalidXid, page[p[1]].slots[p[2]].xmin) /\ p \notin dead
    <3>1. Seen(committed, InvalidXid, SlotAt(page, p).xmin) /\ p \notin dead
      BY <1>1 DEF ScanInv, Sound
    <3>. QED
      BY <3>1 DEF Seen, SlotAt, XminVisible, DidCommit
  <2>. QED
    BY <2>1 DEF ScanSound
<1>. QED
  BY <1>2, <1>3 DEF ScanExact

\* Whatever the writers do between its steps, a scan answers each slot once,
\* and, when it is done, every edge that stood throughout; nothing that was not
\* committed when it was served, and nothing that was deleted when the scan
\* began (gs_read_page_into_buf and gs_getnext, graph_am.c:1657-1746, 66-108).
THEOREM ScansAreExact == ScanSpec => []ScanExact
<1>. QED
  BY InitScan, NextScan, ScanInvExact, PTL DEF ScanSpec


-----------------------------------------------------------------------------
(* The sweep.                                                              *)

\* The pass o has not come to the slots of page b.
Unswept(pg, o, b) ==
  \/ b \in Walk(Nexts(pg), o.ablk)
  \/ \E i \in DOMAIN o.heads : b \in Walk(Nexts(pg), o.heads[i])
  \/ \E p \in Positions(pg) :
       /\ p[1] \in Walk(Nexts(pg), o.vblk)
       /\ b \in Walk(Nexts(pg), RecordAt(pg, p).head)

\* No id on the records rs is below the horizon h.
Clean(rs, h) == \A x \in XidsIn(rs) : ~Freezable(x, h)

Swept(pg, o) ==
  \A b \in Block :
    /\ b \notin Walk(Nexts(pg), o.vblk) => Clean(pg[b].vertices, o.horizon)
    /\ ~Unswept(pg, o, b) => Clean(pg[b].slots, o.horizon)

SweepInv == op.name = "freeze" => Swept(page, op)

\* What the pass rewrites is clean.
LEMMA FrozenIsClean ==
  ASSUME NEW rs \in Seq(VertexRecord) \cup Seq(EdgeSlot), NEW h \in NormalXid
  PROVE  Clean(FreezeRecords(rs, h), h)
<1>1. \A i \in DOMAIN rs : rs[i] \in VertexRecord \cup EdgeSlot
  BY ElementOfSeq, LenProperties
<1>2. /\ DOMAIN FreezeRecords(rs, h) = DOMAIN rs
      /\ \A i \in DOMAIN rs : FreezeRecords(rs, h)[i] = FreezeRecord(rs[i], h)
  BY DEF FreezeRecords
<1>3. \A x : ~Freezable(FreezeXmin(x, h), h)
  BY Constants DEF FreezeXmin, Freezable
<1>4. ASSUME NEW r \in VertexRecord \cup EdgeSlot,
             NEW x \in XidsOf(FreezeRecord(r, h))
      PROVE  ~Freezable(x, h)
  <2>. DEFINE q == FreezeRecord(r, h)
  <2>1. ~Freezable(q.xmin, h)
    BY <1>3, FreezeRecordFields
  <2>2. q.deleted => ~Freezable(q.xmax, h)
    <3>1. ~Freezable(FrozenXid, h)
      BY Constants DEF Freezable
    <3>. QED
      BY <3>1, FreezeRecordFields
  <2>. QED
    BY <1>4, <2>1, <2>2 DEF XidsOf
<1>. QED
  BY <1>1, <1>2, <1>4 DEF Clean, XidsIn

\* When a pass begins, every record is still before it.
LEMMA SweepBegins ==
  ASSUME TypeOK, StoreShape, NEW o, o.vblk = meta.first
  PROVE  Swept(page, o)
<1>. DEFINE h == o.horizon
<1>. SUFFICES ASSUME NEW b \in Block
              PROVE  /\ b \notin Walk(Nexts(page), o.vblk) => Clean(page[b].vertices, h)
                     /\ ~Unswept(page, o, b) => Clean(page[b].slots, h)
  BY DEF Swept
<1>. HIDE DEF h
<1>1. /\ page \in Pages
      /\ Extent(page, eof) /\ VertexShape(page, meta.first, meta.last)
      /\ VidsOnce(page, meta.nextVid) /\ AdjacencyShape(page)
  BY StorePages DEF StoreShape, Shape
<1>2. Walk(Nexts(page), o.vblk) = VertexPages(page)
  BY <1>1 DEF VertexShape, IsChain
<1>3. \A rs : DOMAIN rs = {} => Clean(rs, h)
  BY DEF Clean, XidsIn
<1>4. CASE page[b].kind = "adj"
  <2>1. PICK p \in Positions(page) : RecordAt(page, p).vid = page[b].owner
    BY <1>1, <1>4 DEF VidsOnce
  <2>2. p[1] \in VertexPages(page)
    BY <1>1, <2>1, RecordType DEF Extent, VertexPages
  <2>3. b \in Walk(Nexts(page), RecordAt(page, p).head)
    BY <1>1, <1>4, <2>1 DEF AdjacencyShape, ChainShape, IsChain, OwnedPages
  <2>4. Unswept(page, o, b)
    BY <1>2, <2>1, <2>2, <2>3 DEF Unswept
  <2>5. DOMAIN page[b].vertices = {}
    BY <1>1, <1>4 DEF Extent
  <2>. QED
    BY <1>3, <2>4, <2>5
<1>5. CASE page[b].kind # "adj"
  <2>1. DOMAIN page[b].slots = {}
    BY <1>1, <1>5 DEF Extent
  <2>2. b \notin VertexPages(page) => DOMAIN page[b].vertices = {}
    BY <1>1 DEF Extent, VertexPages
  <2>. QED
    BY <1>2, <1>3, <2>1, <2>2
<1>. QED
  BY <1>4, <1>5

\* A pass keeps what the walks go by.
LEMMA PassKeepsWalks ==
  ASSUME NEW pg \in Pages, NEW qg,
         \A b \in Block :
           /\ qg[b].next = pg[b].next
           /\ DOMAIN qg[b].vertices = DOMAIN pg[b].vertices
           /\ \A i \in DOMAIN pg[b].vertices :
                qg[b].vertices[i].head = pg[b].vertices[i].head
  PROVE  /\ Nexts(qg) = Nexts(pg) /\ Positions(qg) = Positions(pg)
         /\ \A p \in Positions(pg) : RecordAt(qg, p).head = RecordAt(pg, p).head
         /\ \A o, b : Unswept(qg, o, b) <=> Unswept(pg, o, b)
<1>1. Nexts(qg) = Nexts(pg) /\ Positions(qg) = Positions(pg)
  BY DEF Nexts, Positions
<1>2. \A p \in Positions(pg) : RecordAt(qg, p).head = RecordAt(pg, p).head
  BY RecordType DEF RecordAt
<1>. QED
  BY <1>1, <1>2 DEF Unswept

LEMMA VertexPageSwept ==
  ASSUME TypeOK, NEW s \in Sessions, FreezeVertexPage(s), Swept(page, op)
  PROVE  Swept(page', op')
<1>. DEFINE c  == op.vblk
            vs == FreezeRecords(page[c].vertices, op.horizon)
<1>1. /\ page \in Pages /\ c \in Block /\ op.horizon \in NormalXid
      /\ op.ablk = NoBlock /\ op.heads = <<>>
  BY FreezePassType DEF FreezeVertexPage, TypeOK, Pages, Link
<1>2. page[c].vertices \in Seq(VertexRecord)
  BY <1>1 DEF Pages, Page
<1>3. /\ page' = [page EXCEPT ![c] = [page[c] EXCEPT !.vertices = vs]]
      /\ op'.vblk = page[c].next /\ op'.heads = HeadsOf(page[c].vertices)
      /\ op'.ablk = NoBlock /\ op'.horizon = op.horizon
  <2>1. op \in [name : {"freeze"}, horizon : NormalXid, vblk : Link,
                ablk : Link, heads : Seq(Link)]
    BY DEF FreezeVertexPage, Freezing, TypeOK, Operation, Idle
  <2>. QED
    BY <1>1, <2>1 DEF FreezeVertexPage
<1>4. /\ DOMAIN vs = DOMAIN page[c].vertices
      /\ \A i \in DOMAIN vs : vs[i].head = page[c].vertices[i].head
      /\ Clean(vs, op.horizon)
  <2>1. \A i \in DOMAIN page[c].vertices : page[c].vertices[i] \in VertexRecord
    BY <1>2, LenProperties, ElementOfSeq
  <2>. QED
    BY <1>1, <1>2, <2>1, FreezeVertexType, FrozenIsClean DEF FreezeRecords
<1>. HIDE DEF vs
<1>5. /\ \A b \in Block : page'[b].next = page[b].next /\ page'[b].slots = page[b].slots
      /\ \A b \in Block : page'[b].vertices = IF b = c THEN vs ELSE page[b].vertices
  BY <1>1, <1>3 DEF Pages, Page
<1>6. /\ Nexts(page') = Nexts(page)
      /\ \A o, b : Unswept(page', o, b) <=> Unswept(page, o, b)
  BY <1>1, <1>4, <1>5, PassKeepsWalks
<1>7. Walk(Nexts(page), c) \subseteq {c} \cup Walk(Nexts(page), op'.vblk)
  BY <1>1, <1>3, WalkUnfolds, NextsType
<1>8. ASSUME NEW b \in Block, b \notin Walk(Nexts(page), op'.vblk)
      PROVE  Clean(page'[b].vertices, op.horizon)
  <2>1. CASE b = c
    BY <1>4, <1>5, <2>1
  <2>2. CASE b # c
    BY <1>5, <1>7, <1>8, <2>2 DEF Swept
  <2>. QED
    BY <2>1, <2>2
<1>9. ASSUME NEW b \in Block, Unswept(page, op, b)
      PROVE  Unswept(page, op', b)
  <2>1. PICK p \in Positions(page) : /\ p[1] \in Walk(Nexts(page), c)
                                     /\ b \in Walk(Nexts(page), RecordAt(page, p).head)
    BY <1>1, <1>9, WalkNowhere DEF Unswept
  <2>2. CASE p[1] = c
    <3>1. /\ p[2] \in DOMAIN op'.heads
          /\ op'.heads[p[2]] = RecordAt(page, p).head
      BY <1>1, <1>3, <2>2, RecordType DEF HeadsOf, RecordAt
    <3>. QED
      BY <2>1, <3>1 DEF Unswept
  <2>3. CASE p[1] # c
    BY <1>7, <2>1, <2>3 DEF Unswept
  <2>. QED
    BY <2>2, <2>3
<1>. QED
  BY <1>3, <1>5, <1>6, <1>8, <1>9 DEF Swept

LEMMA DescentSwept ==
  ASSUME TypeOK, NEW s \in Sessions, FreezeDescend(s), Swept(page, op)
  PROVE  Swept(page', op')
<1>1. /\ op.heads \in Seq(Link) /\ op.heads # <<>> /\ op.ablk = NoBlock
      /\ page' = page
  BY FreezePassType DEF FreezeDescend, store
<1>2. /\ op'.ablk = Head(op.heads) /\ op'.heads = Tail(op.heads)
      /\ op'.vblk = op.vblk /\ op'.horizon = op.horizon
  <2>1. op \in [name : {"freeze"}, horizon : NormalXid, vblk : Link,
                ablk : Link, heads : Seq(Link)]
    BY DEF FreezeDescend, Freezing, TypeOK, Operation, Idle
  <2>. QED
    BY <2>1 DEF FreezeDescend
<1>3. ASSUME NEW i \in DOMAIN op.heads
      PROVE  \/ op.heads[i] = op'.ablk
             \/ \E j \in DOMAIN op'.heads : op'.heads[j] = op.heads[i]
  <2>1. /\ DOMAIN op.heads = 1..Len(op.heads) /\ Len(op.heads) \in Nat
        /\ DOMAIN op'.heads = 1..(Len(op.heads) - 1)
        /\ \A j \in 1..(Len(op.heads) - 1) : op'.heads[j] = op.heads[j + 1]
        /\ op'.ablk = op.heads[1]
    BY <1>1, <1>2, HeadTailProperties, LenProperties
  <2>2. CASE i = 1
    BY <2>1, <2>2
  <2>3. CASE i # 1
    <3>1. i - 1 \in DOMAIN op'.heads /\ (i - 1) + 1 = i
      BY <2>1, <2>3
    <3>. QED
      BY <2>1, <3>1
  <2>. QED
    BY <2>2, <2>3
<1>4. ASSUME NEW b \in Block, Unswept(page, op, b)
      PROVE  Unswept(page, op', b)
  BY <1>1, <1>2, <1>3, <1>4, WalkNowhere DEF Unswept
<1>. QED
  BY <1>1, <1>2, <1>4 DEF Swept

LEMMA AdjPageSwept ==
  ASSUME TypeOK, NEW s \in Sessions, FreezeAdjPage(s), Swept(page, op)
  PROVE  Swept(page', op')
<1>. DEFINE c  == op.ablk
            ss == FreezeRecords(page[c].slots, op.horizon)
<1>1. /\ page \in Pages /\ c \in Block /\ op.horizon \in NormalXid
  BY FreezePassType DEF FreezeAdjPage, TypeOK, Pages, Link
<1>2. page[c].slots \in Seq(EdgeSlot)
  BY <1>1 DEF Pages, Page
<1>3. /\ page' = [page EXCEPT ![c] = [page[c] EXCEPT !.slots = ss]]
      /\ op'.ablk = page[c].next /\ op'.heads = op.heads
      /\ op'.vblk = op.vblk /\ op'.horizon = op.horizon
  <2>1. op \in [name : {"freeze"}, horizon : NormalXid, vblk : Link,
                ablk : Link, heads : Seq(Link)]
    BY DEF FreezeAdjPage, Freezing, TypeOK, Operation, Idle
  <2>. QED
    BY <1>1, <2>1 DEF FreezeAdjPage
<1>4. Clean(ss, op.horizon)
  BY <1>1, <1>2, FrozenIsClean
<1>. HIDE DEF ss
<1>5. /\ \A b \in Block : /\ page'[b].next = page[b].next
                          /\ page'[b].vertices = page[b].vertices
      /\ \A b \in Block : page'[b].slots = IF b = c THEN ss ELSE page[b].slots
  BY <1>1, <1>3 DEF Pages, Page
<1>6. /\ Nexts(page') = Nexts(page)
      /\ \A o, b : Unswept(page', o, b) <=> Unswept(page, o, b)
  BY <1>1, <1>5, PassKeepsWalks
<1>7. Walk(Nexts(page), c) \subseteq {c} \cup Walk(Nexts(page), op'.ablk)
  BY <1>1, <1>3, WalkUnfolds, NextsType
<1>8. ASSUME NEW b \in Block, b # c, Unswept(page, op, b)
      PROVE  Unswept(page, op', b)
  BY <1>3, <1>7, <1>8 DEF Unswept
<1>9. ASSUME NEW b \in Block, ~Unswept(page, op', b)
      PROVE  Clean(page'[b].slots, op.horizon)
  <2>1. CASE b = c
    BY <1>4, <1>5, <2>1
  <2>2. CASE b # c
    BY <1>5, <1>8, <1>9, <2>2 DEF Swept
  <2>. QED
    BY <2>1, <2>2
<1>. QED
  BY <1>3, <1>5, <1>6, <1>9 DEF Swept

\* At the end of the pass nothing is left below its horizon.
LEMMA SweepEnds ==
  ASSUME op \in [name : {"freeze"}, horizon : NormalXid, vblk : Link,
                  ablk : Link, heads : Seq(Link)],
         Swept(page, op),
         op.ablk = NoBlock, op.heads = <<>>, op.vblk = NoBlock
  PROVE  \A x \in StampedXids \cap NormalXid : op.horizon <= x
<1>1. \A b : b \notin Walk(Nexts(page), op.vblk) /\ ~Unswept(page, op, b)
  BY WalkNowhere DEF Unswept
<1>2. \A b \in Block : \A x \in PageXids(page[b]) : ~Freezable(x, op.horizon)
  BY <1>1 DEF Swept, Clean, PageXids
<1>3. \A x \in StampedXids : ~Freezable(x, op.horizon)
  BY <1>2 DEF StampedXids
<1>. QED
  BY <1>3, Constants DEF Freezable

LEMMA SweepNext ==
  ASSUME ChainInv, NEW s \in Sessions, Session(s), SweepInv
  PROVE  SweepInv'
<1>. SUFFICES ASSUME op'.name = "freeze" PROVE Swept(page', op')
  BY DEF SweepInv
<1>1. TypeOK /\ StoreShape
  BY DEF ChainInv
<1>2. CASE \E horizon \in NormalXid : FreezeBegin(s, horizon)
  <2>1. page' = page /\ op'.vblk = meta.first
    BY <1>2 DEF FreezeBegin, store
  <2>. QED
    BY <1>1, <2>1, SweepBegins
<1>3. CASE FreezeStep(s)
  <2>1. ~FreezeRecordHorizon(s) /\ ~FreezeRelstats(s)
    BY DEF FreezeRecordHorizon, FreezeRelstats, Idle
  <2>2. op.name = "freeze"
    BY <1>3, <2>1 DEF FreezeStep, FreezeVertexPage, FreezeDescend, FreezeAdjPage, Freezing
  <2>. QED
    BY <1>1, <1>3, <2>1, <2>2, VertexPageSwept, DescentSwept, AdjPageSwept
       DEF FreezeStep, SweepInv
<1>4. CASE InsertSome(s) \/ ContinueInsertEdges(s) \/ TombstoneSome(s)
             \/ TombstoneAdjacency(s)
  BY <1>1, <1>4, WriteOperation
<1>5. CASE AssignXid(s) \/ AcquireWriterLock(s) \/ Commit(s) \/ Abort(s)
             \/ AbortExtended(s)
  <2>1. page' = page /\ op' = op
    BY <1>5 DEF AssignXid, AcquireWriterLock, Commit, Abort, AbortExtended, store, Idle
  <2>. QED
    BY <2>1 DEF SweepInv
<1>. QED
  BY <1>2, <1>3, <1>4, <1>5 DEF Session, ContinueOperation

-----------------------------------------------------------------------------
(* The horizons.                                                           *)

\* Every id in use, or still to come, is f or later.
Above(f) ==
  f <= nextXid /\ \A x \in (StampedXids \cup Running) \cap NormalXid : f <= x

HorizonsInv ==
  /\ Above(relfrozenxid) /\ Above(meta.frozenHorizon)
  /\ op.name = "freeze" => meta.frozenHorizon <= op.horizon
  /\ op.name = "relstats" => meta.frozenHorizon = op.horizon

LEMMA IdsOfStep ==
  ASSUME TypeOK, TypeOK', NEW s \in Sessions, Session(s)
  PROVE  /\ nextXid <= nextXid'
         /\ Running' \subseteq Running \cup {nextXid}
         /\ StampedXids' \subseteq StampedXids \cup Running \cup {InvalidXid, FrozenXid}
<1>1. xid \in [Sessions -> NormalXid \cup {InvalidXid}] /\ nextXid \in Nat
  BY Constants DEF TypeOK
<1>2. CASE Operates(s)
  <2>1. /\ nextXid' = nextXid /\ xid' = xid
        /\ StampedXids' \subseteq StampedXids \cup Stamps(s)
    BY <1>2, OperationXids DEF txns
  <2>. QED
    BY <1>1, <2>1 DEF Stamps, Running
<1>3. CASE AssignXid(s) \/ AcquireWriterLock(s) \/ Commit(s) \/ Abort(s)
             \/ AbortExtended(s)
  <2>1. page' = page
    BY <1>3 DEF AssignXid, AcquireWriterLock, Commit, Abort, AbortExtended, store
  <2>2. StampedXids' = StampedXids
    BY <2>1 DEF StampedXids
  <2>3. \/ UNCHANGED <<xid, nextXid>>
        \/ xid' = [xid EXCEPT ![s] = nextXid] /\ nextXid' = nextXid + 1
        \/ xid' = [xid EXCEPT ![s] = InvalidXid] /\ nextXid' = nextXid
    BY <1>3 DEF AssignXid, AcquireWriterLock, Commit, Abort, AbortExtended, EndTransaction
  <2>. QED
    BY <1>1, <2>2, <2>3 DEF Running
<1>. QED
  BY <1>2, <1>3 DEF Session, Operates

LEMMA AboveKept ==
  ASSUME TypeOK, TypeOK', NEW s \in Sessions, Session(s), NEW f \in Nat, Above(f)
  PROVE  Above(f)'
<1>1. /\ nextXid \in Nat /\ nextXid' \in Nat /\ NormalXid \subseteq Nat
      /\ InvalidXid \notin NormalXid /\ FrozenXid \notin NormalXid
  BY Constants DEF TypeOK
<1>. QED
  BY <1>1, IdsOfStep DEF Above

\* The horizons change only at the end of a pass.
LEMMA HorizonsKept ==
  ASSUME TypeOK, NEW s \in Sessions, Session(s),
         ~FreezeRecordHorizon(s), ~FreezeRelstats(s)
  PROVE  meta'.frozenHorizon = meta.frozenHorizon /\ relfrozenxid' = relfrozenxid
<1>1. meta \in Meta
  BY DEF TypeOK
<1>2. CASE AssignXid(s) \/ AcquireWriterLock(s) \/ Commit(s) \/ Abort(s)
             \/ AbortExtended(s)
  BY <1>2 DEF AssignXid, AcquireWriterLock, Commit, Abort, AbortExtended, store
<1>3. CASE InsertVertex(s)
  BY <1>1, <1>3 DEF InsertVertex, Meta
<1>4. CASE \/ \E src, dst \in Vid, t \in EdgeTypes : InsertEdge(s, src, dst, t)
           \/ \E src \in Vid, dsts \in Batches, t \in EdgeTypes :
                InsertEdges(s, src, dsts, t)
           \/ ContinueInsertEdges(s)
  <2>1. \E p, src, ss : AppendSlots(p, src, ss)
    BY <1>4 DEF InsertEdge, InsertEdges, ContinueInsertEdges, WriteRun
  <2>2. meta'.frozenHorizon = meta.frozenHorizon
    BY <1>1, <2>1 DEF AppendSlots, Meta
  <2>. QED
    BY <1>4, <2>2 DEF InsertEdge, InsertEdges, ContinueInsertEdges
<1>5. CASE TombstoneSome(s) \/ TombstoneAdjacency(s)
  BY <1>5 DEF TombstoneSome, TombstoneEdge, TombstoneVertex, TombstoneAdjacency, store
<1>6. CASE \/ \E horizon \in NormalXid : FreezeBegin(s, horizon)
           \/ FreezeVertexPage(s) \/ FreezeDescend(s) \/ FreezeAdjPage(s)
  BY <1>6 DEF FreezeBegin, FreezeVertexPage, FreezeDescend, FreezeAdjPage, store
<1>. QED
  BY <1>2, <1>3, <1>4, <1>5, <1>6 DEF Session, InsertSome, ContinueOperation, FreezeStep

\* A pass that goes on has its horizon.
LEMMA PassUnderWay ==
  ASSUME TypeOK, NEW s \in Sessions, Session(s),
         ~FreezeRecordHorizon(s), ~FreezeRelstats(s), op'.name \in {"freeze", "relstats"}
  PROVE  \/ op'.name = op.name /\ op'.horizon = op.horizon
         \/ /\ op'.name = "freeze" /\ op'.horizon \in NormalXid
            /\ meta.frozenHorizon = InvalidXid \/ meta.frozenHorizon < op'.horizon
<1>1. CASE \E horizon \in NormalXid : FreezeBegin(s, horizon)
  BY <1>1 DEF FreezeBegin
<1>2. CASE FreezeVertexPage(s) \/ FreezeDescend(s) \/ FreezeAdjPage(s)
  <2>1. op \in [name : {"freeze"}, horizon : NormalXid, vblk : Link,
                ablk : Link, heads : Seq(Link)]
    BY <1>2 DEF FreezeVertexPage, FreezeDescend, FreezeAdjPage, Freezing, TypeOK,
       Operation, Idle
  <2>. QED
    BY <1>2, <2>1 DEF FreezeVertexPage, FreezeDescend, FreezeAdjPage
<1>3. CASE InsertSome(s) \/ ContinueInsertEdges(s) \/ TombstoneSome(s)
             \/ TombstoneAdjacency(s)
  BY <1>3, WriteOperation
<1>4. CASE AssignXid(s) \/ AcquireWriterLock(s) \/ Commit(s) \/ Abort(s)
             \/ AbortExtended(s)
  BY <1>4 DEF AssignXid, AcquireWriterLock, Commit, Abort, AbortExtended, Idle
<1>. QED
  BY <1>1, <1>2, <1>3, <1>4 DEF Session, ContinueOperation, FreezeStep

LEMMA HorizonsNext ==
  ASSUME TypeOK, TypeOK', FreezeInv, SweepInv, HorizonsInv, NEW s \in Sessions, Session(s)
  PROVE  HorizonsInv' /\ meta.frozenHorizon <= meta'.frozenHorizon
<1>1. /\ meta.frozenHorizon \in Nat /\ relfrozenxid \in Nat /\ meta \in Meta
      /\ nextXid \in Nat /\ NormalXid \subseteq Nat /\ InvalidXid = 0
  BY Constants DEF TypeOK, Meta
<1>2. \A f \in Nat : Above(f) => Above(f)'
  BY AboveKept
<1>3. CASE FreezeRecordHorizon(s)
  <2>1. op \in [name : {"freeze"}, horizon : NormalXid, vblk : Link,
                ablk : Link, heads : Seq(Link)]
    BY <1>3 DEF FreezeRecordHorizon, Freezing, TypeOK, Operation, Idle
  <2>2. \A x \in StampedXids \cap NormalXid : op.horizon <= x
    BY <1>3, <2>1, SweepEnds DEF FreezeRecordHorizon, Freezing, SweepInv
  <2>3. Above(op.horizon)
    <3>1. op.name = "freeze" /\ op.horizon \in Nat
      BY <1>1, <2>1
    <3>2. Precedes(op.horizon, nextXid, Running)
      BY <3>1 DEF FreezeInv, HorizonHolds
    <3>3. op.horizon <= nextXid
      BY <1>1, <3>1, <3>2 DEF Precedes
    <3>4. ASSUME NEW x \in Running \cap NormalXid PROVE op.horizon <= x
      <4>1. x \in Nat /\ op.horizon < x
        BY <1>1, <3>2 DEF Precedes
      <4>. QED
        BY <3>1, <4>1
    <3>. QED
      BY <2>2, <3>3, <3>4 DEF Above
  <2>4. /\ meta'.frozenHorizon = op.horizon /\ relfrozenxid' = relfrozenxid
        /\ op'.name = "relstats" /\ op'.horizon = op.horizon
    BY <1>1, <1>3 DEF FreezeRecordHorizon, Meta
  <2>. QED
    BY <1>1, <1>2, <2>1, <2>3, <2>4 DEF HorizonsInv, Above
<1>4. CASE FreezeRelstats(s)
  <2>1. /\ op.name = "relstats" /\ op' = Idle /\ meta' = meta
        /\ relfrozenxid' \in {op.horizon, relfrozenxid}
    BY <1>4 DEF FreezeRelstats
  <2>2. relfrozenxid' \in {meta.frozenHorizon, relfrozenxid}
    BY <2>1 DEF HorizonsInv
  <2>. QED
    BY <1>1, <1>2, <2>1, <2>2 DEF HorizonsInv, Idle, Above
<1>5. CASE ~FreezeRecordHorizon(s) /\ ~FreezeRelstats(s)
  <2>1. meta'.frozenHorizon = meta.frozenHorizon /\ relfrozenxid' = relfrozenxid
    BY <1>5, HorizonsKept
  <2>2. Above(relfrozenxid)' /\ Above(meta.frozenHorizon)'
    BY <1>1, <1>2, <2>1 DEF HorizonsInv, Above
  <2>3. /\ op'.name = "freeze" => meta.frozenHorizon <= op'.horizon
        /\ op'.name = "relstats" => meta.frozenHorizon = op'.horizon
    <3>1. CASE op'.name = op.name /\ op'.horizon = op.horizon
      BY <3>1 DEF HorizonsInv
    <3>2. CASE /\ op'.name = "freeze" /\ op'.horizon \in NormalXid
               /\ meta.frozenHorizon = InvalidXid \/ meta.frozenHorizon < op'.horizon
      <4>1. op'.horizon \in Nat
        BY <1>1, <3>2
      <4>2. meta.frozenHorizon <= op'.horizon
        BY <1>1, <3>2, <4>1
      <4>. QED
        BY <3>2, <4>2
    <3>3. CASE op'.name \notin {"freeze", "relstats"}
      BY <3>3
    <3>. QED
      BY <1>5, <3>1, <3>2, <3>3, PassUnderWay
  <2>. QED
    BY <1>1, <2>1, <2>2, <2>3 DEF HorizonsInv
<1>. QED
  BY <1>3, <1>4, <1>5

-----------------------------------------------------------------------------
(* The stores that a crash may restore.                                    *)

Images == {durable} \cup {wal[i] : i \in DOMAIN wal}

ImageType ==
  [meta : Meta, page : Pages, eof : 0..MaxBlock,
   relfrozenxid : FirstNormalXid..(MaxXid + 1), nextXid : FirstNormalXid..(MaxXid + 1)]

\* Restarting from img is safe: its chains are whole, the clog entries that
\* its records and the committed ids need are those from its horizons to its
\* next id, and readers find the committed graph in it.
Restartable(img) ==
  /\ img \in ImageType
  /\ Shape(img.page, img.eof, img.meta.first, img.meta.last, img.meta.nextVid)
  /\ \A b \in Block : \A x \in PageXids(img.page[b]) :
       /\ x < img.nextXid
       /\ x \in NormalXid => img.relfrozenxid <= x /\ img.meta.frozenHorizon <= x
  /\ img.relfrozenxid <= img.nextXid /\ img.meta.frozenHorizon <= img.nextXid
  /\ \A x \in committed : x < img.nextXid
  /\ Graph(img.page, committed, InvalidXid) = Graph(page, committed, InvalidXid)
  /\ returned <= img.meta.frozenHorizon

\* What the store in memory keeps.
LiveInv ==
  /\ TxnInv /\ SweepInv /\ HorizonsInv
  /\ returned \in Nat /\ returned <= meta.frozenHorizon

RecoveryInv ==
  /\ LiveInv
  /\ wal \in Seq(ImageType)
  /\ \A img \in Images : Restartable(img)

ImageSound == \A img : img = Image => Restartable(img)

LEMMA LiveFacts ==
  ASSUME LiveInv
  PROVE  /\ TxnInv /\ SweepInv /\ HorizonsInv /\ ChainInv /\ FreezeInv
         /\ TypeOK /\ StoreShape /\ KnownXids /\ UncommittedRun
         /\ meta \in Meta /\ page \in Pages
         /\ returned \in Nat /\ returned <= meta.frozenHorizon
BY TxnFacts DEF LiveInv, TypeOK, Pages

LEMMA LiveImage == LiveInv => ImageSound
<1>. SUFFICES ASSUME LiveInv, NEW img, img = Image PROVE Restartable(img)
  BY DEF ImageSound
<1>1. /\ img.meta = meta /\ img.page = page /\ img.eof = eof
      /\ img.relfrozenxid = relfrozenxid /\ img.nextXid = nextXid
  BY DEF Image
<1>2. img \in ImageType
  BY LiveFacts DEF Image, ImageType, TypeOK
<1>3. Shape(page, eof, meta.first, meta.last, meta.nextVid)
  BY LiveFacts DEF StoreShape
<1>4. ASSUME NEW b \in Block, NEW x \in PageXids(page[b])
      PROVE  /\ x < nextXid
             /\ x \in NormalXid => relfrozenxid <= x /\ meta.frozenHorizon <= x
  <2>1. x \in StampedXids
    BY <1>4 DEF StampedXids
  <2>. QED
    BY <2>1, LiveFacts DEF KnownXids, HorizonsInv, Above
<1>. QED
  BY <1>1, <1>2, <1>3, <1>4, LiveFacts
     DEF Restartable, HorizonsInv, Above, UncommittedRun

LEMMA NextLiveImage == LiveInv' => ImageSound'
BY LiveImage, PTL

\* Images stay restartable while the committed graph is the same.
LEMMA RestartableKept ==
  ASSUME NEW img, Restartable(img), committed' = committed, returned' = returned,
         Graph(page', committed', InvalidXid) = Graph(page, committed, InvalidXid)
  PROVE  Restartable(img)'
BY DEF Restartable

\* An image of a store whose last blocks are all-zero may be longer.
LEMMA LongerFile ==
  ASSUME NEW pg \in Pages, NEW e \in Nat, NEW f \in Nat, e <= f,
         NEW first, NEW last, NEW n, Shape(pg, e, first, last, n)
  PROVE  Shape(pg, f, first, last, n)
<1>1. ASSUME NEW b \in Block
      PROVE  b \in Int /\ pg[b].next \in Int
  <2>1. \A c \in Block : c \in Nat
    BY BlockType
  <2>2. \A c \in Nat : c \in Int
    OBVIOUS
  <2>3. NoBlock \in Int
    BY DEF NoBlock
  <2>4. pg[b].next \in Block \/ pg[b].next = NoBlock
    BY DEF Pages, Page, Link
  <2>. QED
    BY <2>1, <2>2, <2>3, <2>4
<1>2. Extent(pg, f)
  BY <1>1 DEF Shape, Extent
<1>. QED
  BY <1>2 DEF Shape

-----------------------------------------------------------------------------
(* The steps of the sessions.                                              *)

\* Readers without an id see another graph only after a commit.
LEMMA CommittedViewKept ==
  ASSUME TxnInv, StoreShape', NEW s \in Sessions, Session(s), committed' = committed
  PROVE  Graph(page', committed', InvalidXid) = Graph(page, committed, InvalidXid)
<1>1. CASE \/ AssignXid(s)
           \/ AcquireWriterLock(s)
           \/ Commit(s)
           \/ Abort(s)
           \/ AbortExtended(s)
  <2>1. page' = page
    BY <1>1 DEF AssignXid, AcquireWriterLock, Commit, Abort, AbortExtended, store
  <2>. QED
    BY <2>1
<1>2. CASE Operates(s)
  <2>1. Abstract!Write \/ UNCHANGED <<GraphView(InvalidXid), GraphView(WriterXid)>>
    <3>1. CASE InsertVertex(s)
      BY <3>1, InsertVertexRefines
    <3>2. CASE \/ \E src, dst \in Vid, t \in EdgeTypes : InsertEdge(s, src, dst, t)
               \/ \E src \in Vid, dsts \in Batches, t \in EdgeTypes :
                    InsertEdges(s, src, dsts, t)
               \/ ContinueInsertEdges(s)
      BY <3>2, BatchType, InsertEdgesRefines
    <3>3. CASE \E src, dst \in Vid, t \in EdgeTypes \cup {AnyType} :
                 TombstoneEdge(s, src, dst, t)
      BY <3>3, TombstoneEdgeRefines
    <3>4. CASE \E v \in Vid : TombstoneVertex(s, v)
      BY <3>4, TombstoneVertexRefines
    <3>5. CASE TombstoneAdjacency(s)
      BY <3>5, TombstoneAdjacencyRefines
    <3>6. CASE (\E horizon \in NormalXid : FreezeBegin(s, horizon)) \/ FreezeStep(s)
      BY <3>6, FreezeRefines
    <3>. QED
      BY <1>2, <3>1, <3>2, <3>3, <3>4, <3>5, <3>6
         DEF Operates, InsertSome, TombstoneSome, ContinueOperation
  <2>2. GraphView(InvalidXid)' = GraphView(InvalidXid)
    BY <2>1 DEF Abstract!Write
  <2>. QED
    BY <2>2, TxnFacts, ViewsAreFlat, NextViewsAreFlat
<1>. QED
  BY <1>1, <1>2 DEF Session, Operates

\* A step of a session keeps what the store in memory keeps.
LEMMA LiveNext ==
  ASSUME LiveInv, NEW s \in Sessions, Session(s),
         returned' = returned \/ (op.name = "relstats" /\ returned' = op.horizon)
  PROVE  LiveInv'
<1>1. TxnInv'
  BY LiveFacts, NextTxn DEF Next
<1>2. TypeOK'
  BY <1>1 DEF TxnInv, ChainInv
<1>3. SweepInv'
  BY LiveFacts, SweepNext
<1>4. HorizonsInv' /\ meta.frozenHorizon <= meta'.frozenHorizon
  BY <1>2, LiveFacts, HorizonsNext
<1>5. meta \in Meta /\ meta' \in Meta
  BY <1>2, LiveFacts DEF TypeOK
<1>6. meta.frozenHorizon \in Nat /\ meta'.frozenHorizon \in Nat
  BY <1>5, Constants DEF Meta
<1>7. returned' \in Nat /\ returned' <= meta.frozenHorizon
  BY <1>6, LiveFacts DEF HorizonsInv
<1>. QED
  BY <1>1, <1>3, <1>4, <1>6, <1>7 DEF LiveInv

\* Log leaves the old images and perhaps one of the new store.
LEMMA LogKeeps ==
  ASSUME RecoveryInv, LiveInv', NEW s \in Sessions, Session(s), Log,
         committed' = committed, returned' = returned
  PROVE  RecoveryInv'
<1>1. \A img \in Images : Restartable(img)'
  <2>1. StoreShape' /\ TxnInv
    BY LiveFacts DEF RecoveryInv, LiveInv, TxnInv, ChainInv
  <2>. QED
    BY <2>1, CommittedViewKept, RestartableKept DEF RecoveryInv
<1>2. \A img : img = Image' => Restartable(img)'
  BY NextLiveImage DEF ImageSound
<1>3. Image' \in ImageType
  BY <1>2 DEF Restartable, ImageType, Image
<1>4. CASE wal' = wal
  BY <1>1, <1>4 DEF RecoveryInv, Images, Log
<1>5. CASE wal' = Append(wal, Image')
  <2>1. /\ wal \in Seq(ImageType) /\ Len(wal) \in Nat
        /\ wal' \in Seq(ImageType) /\ DOMAIN wal = 1..Len(wal)
        /\ DOMAIN wal' = 1..(Len(wal) + 1)
        /\ \A i \in 1..Len(wal) : wal'[i] = wal[i]
        /\ wal'[Len(wal) + 1] = Image'
    BY <1>3, <1>5, AppendProperties, LenProperties DEF RecoveryInv
  <2>2. ASSUME NEW i \in DOMAIN wal' PROVE wal'[i] \in Images \/ wal'[i] = Image'
    <3>1. i \in 1..Len(wal) \/ i = Len(wal) + 1
      BY <2>1
    <3>. QED
      BY <2>1, <3>1 DEF Images
  <2>3. Images' \subseteq Images \cup {Image'}
    BY <2>2 DEF Images, Log
  <2>. QED
    BY <1>1, <1>2, <2>1, <2>3 DEF RecoveryInv
<1>. QED
  BY <1>4, <1>5 DEF Log

LEMMA ContinueKeeps ==
  ASSUME RecoveryInv, NEW s \in Sessions, RecoveryContinue(s)
  PROVE  RecoveryInv'
<1>1. LiveInv
  BY DEF RecoveryInv
<1>2. CASE RecoveryFreezeRelstats(s)
  <2>1. /\ Session(s) /\ FlushPass /\ returned' = op.horizon /\ op.name = "relstats"
        /\ committed' = committed /\ page' = page
    BY <1>2 DEF RecoveryFreezeRelstats, FreezeRelstats, Session, ContinueOperation,
       FreezeStep, txns
  <2>2. LiveInv'
    BY <1>1, <2>1, LiveNext
  <2>3. returned' <= meta.frozenHorizon
    <3>1. meta.frozenHorizon = op.horizon
      BY <1>1, <2>1, LiveFacts DEF HorizonsInv
    <3>2. meta.frozenHorizon \in Nat
      BY <1>1, LiveFacts, Constants DEF Meta
    <3>. QED
      BY <2>1, <3>1, <3>2
  <2>4. \A img : img = Image => Restartable(img)'
    <3>1. ASSUME NEW img, img = Image PROVE Restartable(img)'
      <4>1. Restartable(img)
        BY <1>1, <3>1, LiveImage DEF ImageSound
      <4>2. img.meta = meta
        BY <3>1 DEF Image
      <4>. QED
        BY <2>1, <2>3, <4>1, <4>2 DEF Restartable
    <3>. QED
      BY <3>1
  <2>5. \A img : img = Image' => Restartable(img)'
    BY <2>2, NextLiveImage DEF ImageSound
  <2>6. Image' \in ImageType
    BY <2>5 DEF Restartable, ImageType, Image
  <2>7. wal' \in Seq(ImageType) /\ Images' \subseteq {Image, Image'}
    <3>1. CASE wal' = <<>>
      BY <2>1, <3>1 DEF FlushPass, Images
    <3>2. CASE wal' = <<Image'>>
      BY <2>1, <2>6, <3>2 DEF FlushPass, Images
    <3>. QED
      BY <2>1, <3>1, <3>2 DEF FlushPass
  <2>. QED
    BY <2>2, <2>4, <2>5, <2>7 DEF RecoveryInv
<1>3. CASE LoggedContinue(s) /\ UNCHANGED returned
  <2>1. Session(s) /\ Log /\ returned' = returned
    BY <1>3 DEF LoggedContinue, Session, ContinueOperation, FreezeStep
  <2>2. committed' = committed
    BY <1>3 DEF LoggedContinue, ContinueInsertEdges, TombstoneAdjacency, FreezeVertexPage,
       FreezeDescend, FreezeAdjPage, FreezeRecordHorizon, txns
  <2>. QED
    BY <1>1, <2>1, <2>2, LiveNext, LogKeeps
<1>. QED
  BY <1>2, <1>3 DEF RecoveryContinue

LEMMA LoggedKeeps ==
  ASSUME RecoveryInv, NEW s \in Sessions, LoggedStep(s), UNCHANGED returned
  PROVE  RecoveryInv'
<1>1. Session(s) /\ Log /\ LiveInv
  BY DEF LoggedStep, Session, RecoveryInv
<1>2. committed' = committed
  <2>1. CASE AssignXid(s) \/ AcquireWriterLock(s) \/ Abort(s) \/ AbortExtended(s)
    BY <2>1 DEF AssignXid, AcquireWriterLock, Abort, AbortExtended
  <2>2. CASE Operates(s)
    <3>1. TypeOK'
      BY <1>1, LiveFacts, LiveNext DEF LiveInv, TxnInv, ChainInv
    <3>. QED
      BY <1>1, <2>2, <3>1, LiveFacts, OperationXids DEF txns
  <2>. QED
    BY <2>1, <2>2 DEF LoggedStep, Operates
<1>. QED
  BY <1>1, <1>2, LiveNext, LogKeeps

LEMMA CommitKeeps ==
  ASSUME RecoveryInv, NEW s \in Sessions, RecoveryCommit(s), UNCHANGED returned
  PROVE  RecoveryInv'
<1>1. Session(s) /\ LiveInv /\ Commit(s)
  BY DEF RecoveryCommit, Session, RecoveryInv
<1>2. LiveInv'
  BY <1>1, LiveNext
<1>3. CASE xid[s] # InvalidXid
  <2>1. durable' = Image' /\ wal' = <<>>
    BY <1>3 DEF RecoveryCommit, Flush
  <2>2. wal' \in Seq(ImageType) /\ Images' = {Image'}
    BY <2>1 DEF Images
  <2>. QED
    BY <1>2, <2>2, NextLiveImage DEF ImageSound, RecoveryInv
<1>4. CASE xid[s] = InvalidXid
  <2>1. durable' = durable /\ wal' = wal
    BY <1>4 DEF RecoveryCommit
  <2>2. committed' = committed /\ page' = page
    BY <1>1, <1>4 DEF Commit, store
  <2>3. \A img \in Images : Restartable(img)'
    BY <2>2, RestartableKept DEF RecoveryInv
  <2>. QED
    BY <1>2, <2>1, <2>3 DEF RecoveryInv, Images
<1>. QED
  BY <1>3, <1>4

-----------------------------------------------------------------------------
(* Crashes.                                                                *)

LEMMA CrashRestores ==
  ASSUME RecoveryInv, Crash
  PROVE  \E img \in Images :
           /\ Restartable(img)
           /\ \E length \in img.eof..eof : RestartFrom(img, length)
<1>1. PICK i \in 0..Len(wal) :
        LET img == IF i = 0 THEN durable ELSE wal[i]
        IN  \E length \in img.eof..eof : RestartFrom(img, length)
  BY DEF Crash
<1>. DEFINE img == IF i = 0 THEN durable ELSE wal[i]
<1>2. img \in Images
  <2>1. DOMAIN wal = 1..Len(wal) /\ Len(wal) \in Nat
    BY LenProperties DEF RecoveryInv
  <2>2. i = 0 \/ i \in DOMAIN wal
    BY <2>1
  <2>. QED
    BY <2>2 DEF Images
<1>. QED
  BY <1>1, <1>2 DEF RecoveryInv

LEMMA CrashKeeps ==
  ASSUME RecoveryInv, Crash
  PROVE  /\ RecoveryInv' /\ GraphView(InvalidXid)' = GraphView(InvalidXid)
         /\ Abstract!Rollback
<1>1. PICK img \in Images :
        /\ Restartable(img)
        /\ \E length \in img.eof..eof : RestartFrom(img, length)
  BY CrashRestores
<1>2. PICK length \in img.eof..eof : RestartFrom(img, length)
  BY <1>1
<1>3. /\ img \in ImageType /\ img.meta \in Meta /\ img.page \in Pages
      /\ img.eof \in 0..MaxBlock
      /\ img.relfrozenxid \in FirstNormalXid..(MaxXid + 1)
      /\ img.nextXid \in FirstNormalXid..(MaxXid + 1)
  BY <1>1 DEF Restartable, ImageType
<1>4. /\ TypeOK /\ StoreShape /\ UncommittedRun /\ returned \in Nat
      /\ eof \in 0..MaxBlock /\ committed \subseteq NormalXid
  BY LiveFacts DEF RecoveryInv, TypeOK
<1>5. /\ length \in 0..MaxBlock /\ length \in Nat /\ img.eof \in Nat /\ img.eof <= length
  BY <1>3, <1>4, Constants
<1>6. /\ meta' = img.meta /\ page' = img.page /\ relfrozenxid' = img.relfrozenxid
      /\ nextXid' = img.nextXid /\ eof' = length
      /\ durable' = [img EXCEPT !.eof = length] /\ wal' = <<>>
      /\ xid' = [s \in Sessions |-> InvalidXid] /\ lock' = NoSession /\ op' = Idle
      /\ committed' = committed /\ returned' = returned
  BY <1>2 DEF Crash, RestartFrom
<1>7. TypeOK'
  BY <1>3, <1>4, <1>5, <1>6 DEF TypeOK, Operation, Pages
<1>8. StoreShape'
  <2>1. Shape(img.page, img.eof, img.meta.first, img.meta.last, img.meta.nextVid)
    BY <1>1 DEF Restartable
  <2>2. Shape(img.page, length, img.meta.first, img.meta.last, img.meta.nextVid)
    BY <1>3, <1>5, <2>1, LongerFile
  <2>. QED
    BY <1>6, <2>2 DEF StoreShape
<1>9. Running' = {}
  BY <1>6 DEF Running
<1>10. \A x \in StampedXids' :
         /\ x < nextXid'
         /\ x \in NormalXid => relfrozenxid' <= x /\ meta'.frozenHorizon <= x
  BY <1>1, <1>6 DEF Restartable, StampedXids
<1>11. TxnInv'
  <2>1. ChainInv'
    BY <1>6, <1>7, <1>8 DEF ChainInv, Idle
  <2>2. InvalidXid < nextXid' /\ InvalidXid \notin committed
    BY <1>3, <1>4, <1>6, Constants
  <2>3. WriterInv'
    BY <1>6, <1>7, <1>9, <1>10, <2>2
       DEF WriterInv, KnownXids, DistinctXids, WriterOwnsUncommitted
  <2>4. FreezeInv'
    BY <1>6, <1>7 DEF FreezeInv, HorizonHolds, Idle
  <2>5. UncommittedRun'
    BY <1>1, <1>6, <2>2 DEF UncommittedRun, Restartable
  <2>6. OperationInv'
    BY <1>6 DEF OperationInv, Idle
  <2>. QED
    BY <2>1, <2>3, <2>4, <2>5, <2>6 DEF TxnInv
<1>12. LiveInv'
  <2>1. SweepInv'
    BY <1>6 DEF SweepInv, Idle
  <2>2. HorizonsInv'
    BY <1>1, <1>6, <1>9, <1>10 DEF HorizonsInv, Above, Idle, Restartable
  <2>3. returned' \in Nat /\ returned' <= meta'.frozenHorizon
    BY <1>1, <1>4, <1>6 DEF Restartable
  <2>. QED
    BY <1>11, <2>1, <2>2, <2>3 DEF LiveInv
<1>13. durable' = Image'
  BY <1>3, <1>6 DEF Image, ImageType
<1>14. RecoveryInv'
  <2>1. wal' \in Seq(ImageType) /\ Images' = {Image'}
    BY <1>6, <1>13 DEF Images
  <2>. QED
    BY <1>12, <2>1, NextLiveImage DEF ImageSound, RecoveryInv
<1>15. Graph(page', committed', InvalidXid) = Graph(page, committed, InvalidXid)
  BY <1>1, <1>6 DEF Restartable
<1>16. GraphView(InvalidXid)' = GraphView(InvalidXid)
  BY <1>4, <1>8, <1>15, ViewsAreFlat, NextViewsAreFlat
<1>17. GraphView(WriterXid)' = GraphView(InvalidXid)'
  <2>1. WriterXid' = InvalidXid
    BY <1>6 DEF WriterXid
  <2>. QED
    BY <1>8, <2>1, NextViewsAreFlat
<1>. QED
  BY <1>14, <1>16, <1>17 DEF Abstract!Rollback

-----------------------------------------------------------------------------
(* The specification.                                                      *)

LEMMA InitRecovery == RecoveryInit => RecoveryInv
<1>. SUFFICES ASSUME RecoveryInit PROVE RecoveryInv
  OBVIOUS
<1>1. Init /\ durable = Image /\ wal = <<>> /\ returned = InvalidXid
  BY DEF RecoveryInit
<1>2. TxnInv
  BY <1>1, InitTxn
<1>3. /\ op = Idle /\ meta.frozenHorizon = InvalidXid
      /\ relfrozenxid = FirstNormalXid /\ nextXid = FirstNormalXid
  BY <1>1 DEF Init
<1>4. \A x \in NormalXid : FirstNormalXid <= x /\ InvalidXid <= x
  BY Constants
<1>5. HorizonsInv
  BY <1>3, <1>4, Constants DEF HorizonsInv, Above, Idle
<1>6. LiveInv
  BY <1>1, <1>2, <1>3, <1>5, Constants DEF LiveInv, SweepInv, Idle
<1>7. wal \in Seq(ImageType) /\ Images = {Image}
  BY <1>1 DEF Images
<1>. QED
  BY <1>6, <1>7, LiveImage DEF ImageSound, RecoveryInv

LEMMA UnchangedKeeps ==
  ASSUME RecoveryInv, UNCHANGED recoveryVars
  PROVE  RecoveryInv'
<1>1. /\ UNCHANGED vars
      /\ meta' = meta /\ page' = page /\ relfrozenxid' = relfrozenxid
      /\ nextXid' = nextXid /\ committed' = committed /\ xid' = xid /\ op' = op
      /\ durable' = durable /\ wal' = wal /\ returned' = returned
  BY DEF recoveryVars, vars
<1>2. TxnInv'
  BY <1>1, NextTxn, LiveFacts DEF RecoveryInv
<1>3. SweepInv' /\ HorizonsInv'
  BY <1>1, LiveFacts DEF RecoveryInv, SweepInv, HorizonsInv, Above, StampedXids, Running
<1>4. LiveInv'
  BY <1>1, <1>2, <1>3 DEF RecoveryInv, LiveInv
<1>. QED
  BY <1>1, <1>4 DEF RecoveryInv, Images, Restartable

LEMMA SessionSteps ==
  ASSUME NEW s \in Sessions,
         \/ RecoveryContinue(s)
         \/ (RecoveryCommit(s) \/ LoggedStep(s)) /\ UNCHANGED <<crashes, returned>>
  PROVE  Session(s)
BY DEF RecoveryContinue, RecoveryFreezeRelstats, LoggedContinue, RecoveryCommit, LoggedStep,
   Session, ContinueOperation, FreezeStep

LEMMA NextRecovery ==
  RecoveryInv /\ [RecoveryNext]_recoveryVars =>
    /\ RecoveryInv'
    /\ Crash => GraphView(InvalidXid)' = GraphView(InvalidXid)
    /\ [Abstract!Next]_<<GraphView(InvalidXid), GraphView(WriterXid)>>
<1>. SUFFICES ASSUME RecoveryInv, [RecoveryNext]_recoveryVars
              PROVE  /\ RecoveryInv'
                     /\ Crash => GraphView(InvalidXid)' = GraphView(InvalidXid)
                     /\ [Abstract!Next]_<<GraphView(InvalidXid), GraphView(WriterXid)>>
  OBVIOUS
<1>1. Crash => /\ RecoveryInv' /\ GraphView(InvalidXid)' = GraphView(InvalidXid)
               /\ Abstract!Rollback
  BY CrashKeeps
<1>2. ASSUME NEW s \in Sessions,
             \/ RecoveryContinue(s)
             \/ (RecoveryCommit(s) \/ LoggedStep(s)) /\ UNCHANGED <<crashes, returned>>
      PROVE  RecoveryInv' /\ Next
  BY <1>2, ContinueKeeps, CommitKeeps, LoggedKeeps, SessionSteps DEF Next
<1>3. UNCHANGED recoveryVars => RecoveryInv' /\ UNCHANGED vars
  BY UnchangedKeeps DEF recoveryVars
<1>4. RecoveryInv' /\ (Crash \/ [Next]_vars)
  BY <1>1, <1>2, <1>3 DEF RecoveryNext
<1>5. TxnInv
  BY DEF RecoveryInv, LiveInv
<1>6. [Next]_vars => [Abstract!Next]_<<GraphView(InvalidXid), GraphView(WriterXid)>>
  BY <1>5, NextTxn
<1>7. Crash => Abstract!Next
  BY <1>1 DEF Abstract!Next
<1>. QED
  BY <1>1, <1>4, <1>6, <1>7

LEMMA RecoveryFacts ==
  RecoveryInv =>
    /\ EveryPrefixSound
    /\ ReturnedFreezeKeepsPages
    /\ TypeOK /\ WriterOwnsUncommitted /\ ChainsWellFormed /\ DenseIsLinear
<1>. SUFFICES ASSUME RecoveryInv
              PROVE  /\ EveryPrefixSound
                     /\ ReturnedFreezeKeepsPages
                     /\ TypeOK /\ WriterOwnsUncommitted
                     /\ ChainsWellFormed /\ DenseIsLinear
  OBVIOUS
<1>1. EveryPrefixSound
  BY DEF RecoveryInv, Images, Restartable, EveryPrefixSound
<1>2. ASSUME NEW x \in StampedXids \cap NormalXid PROVE returned <= x
  <2>1. /\ meta.frozenHorizon <= x /\ returned <= meta.frozenHorizon
        /\ meta.frozenHorizon \in Nat /\ returned \in Nat /\ x \in Nat
    BY <1>2, LiveFacts, Constants DEF RecoveryInv, HorizonsInv, Above, Meta
  <2>. QED
    BY <2>1
<1>3. TxnInv
  BY DEF RecoveryInv, LiveInv
<1>4. TypeOK /\ WriterOwnsUncommitted /\ ChainsWellFormed /\ DenseIsLinear
  BY <1>3, TxnFacts, ShapeIsWellFormed, ShapeIsDense
<1>. QED
  BY <1>1, <1>2, <1>4 DEF ReturnedFreezeKeepsPages

LEMMA RecoveryInductive == RecoverySpec => []RecoveryInv
BY InitRecovery, NextRecovery, PTL DEF RecoverySpec

-----------------------------------------------------------------------------

\* Whatever prefix of the WAL a crash keeps, no record in it needs the
\* status of an id below its own relfrozenxid or horizon: a half-done freeze
\* pass has declared nothing (the order of gph_freeze's records).
THEOREM PrefixesAreSound == RecoverySpec => []EveryPrefixSound
<1>. QED
  BY RecoveryInductive, RecoveryFacts, PTL

\* What a gph_freeze that returned did to the pages survives every crash,
\* although its commit flushes nothing (gph_freeze's own XLogFlush).
THEOREM FreezeSurvives == RecoverySpec => []ReturnedFreezeKeepsPages
<1>. QED
  BY RecoveryInductive, RecoveryFacts, PTL

\* A crash leaves the committed graph as it was: nothing of a reported
\* commit is lost, and nothing of a stopped transaction is ever read, also
\* where its records had reached the disk.
THEOREM CrashesKeepCommitted == RecoverySpec => CrashKeepsCommitted
<1>1. RecoveryInv /\ [RecoveryNext]_recoveryVars =>
        [Crash => GraphView(InvalidXid)' = GraphView(InvalidXid)]_recoveryVars
  BY NextRecovery
<1>. QED
  BY <1>1, RecoveryInductive, PTL DEF RecoverySpec, CrashKeepsCommitted

\* What GraphStore's invariants say of a store that never crashed holds
\* after any number of crashes: replay and the aborted writers leave whole
\* chains behind, and records that belong to no new transaction.
THEOREM StoreSurvivesCrashes ==
  RecoverySpec =>
    [](TypeOK /\ WriterOwnsUncommitted /\ ChainsWellFormed /\ DenseIsLinear)
<1>. QED
  BY RecoveryInductive, RecoveryFacts, PTL

\* A freeze step shows to no reader, also on a store that came back from a
\* crash in the middle of an earlier pass (graph_am.c:996-1001).
THEOREM FreezeInvisibleAfterCrashes == RecoverySpec => FreezeIsInvisible
<1>1. RecoveryInv => FreezeInv
  BY DEF RecoveryInv, LiveInv, TxnInv
<1>2. FreezeInv /\ [RecoveryNext]_recoveryVars =>
        [(\E s \in Sessions : FreezeStep(s)) =>
           \A own \in Viewers : GraphView(own)' = GraphView(own)]_vars
  BY FreezeStepInvisible
<1>. QED
  BY <1>1, <1>2, RecoveryInductive, PTL DEF RecoverySpec, FreezeIsInvisible

\* With crashes, too, the pages, the ids and the log implement the
\* transactional graph: a crash is a rollback of the writer, and a
\* transaction whose commit was reported is never taken back (FR-7).
THEOREM CrashesAreRollbacks == RecoverySpec => ImplementsTxnGraph
<1>1. RecoveryInit => Abstract!Init
  BY InitGraph DEF RecoveryInit
<1>2. RecoveryInv /\ [RecoveryNext]_recoveryVars =>
        [Abstract!Next]_<<GraphView(InvalidXid), GraphView(WriterXid)>>
  BY NextRecovery
<1>. QED
  BY <1>1, <1>2, RecoveryInductive, PTL DEF RecoverySpec, ImplementsTxnGraph, Abstract!Spec

=============================================================================
