----------------------------- MODULE GraphScan ------------------------------
(***************************************************************************)
(* gs_open / gs_getnext: a reader takes one vertex's edges while the       *)
(* writers of GraphStore go on.                                            *)
(*                                                                         *)
(* The reader takes no lock but the share lock of the one page it reads.   *)
(* It copies an adjacency page's slots, lets the page go, and decides on   *)
(* each copied slot only when the caller asks for the next edge, with      *)
(* clog's answer of that moment.  Between any two of its steps the writers *)
(* may append, tombstone, commit, abort and freeze.                        *)
(*                                                                         *)
(* One scan per behaviour, by a session that has no id of its own.  A      *)
(* caller that stops early (LIMIT) just takes no further step: the scan    *)
(* holds no page between steps.                                            *)
(***************************************************************************)
EXTENDS GraphStore

CONSTANT Filters   \* the [type, scope] pairs that callers pass to gs_open:
                   \* an edge type or AnyType, a vid or AnyVid

VARIABLES
  scan,     \* GraphScanDescData, its snapshot, and what the scan has emitted
  steady,   \* history: the edges that were live ever since the scan began
  dead      \* history: the slots that were not live any more when it began

scanVars == <<vars, scan, steady, dead>>

-----------------------------------------------------------------------------

SlotPlaces == Block \X (1..EdgeSlotsPerPage)

\* The type and source filters of gs_getnext.
Passes(e, f) == f.type \in {AnyType, e.type} /\ f.scope \in {AnyVid, e.src}

\* The edges a reader would get from v in one instant.
Answer(v, f) ==
  {e.id : e \in {d \in EdgeView(InvalidXid) : d.src = v /\ Passes(d, f)}}

DeadSlots ==
  {p \in SlotPlaces :
     /\ p[2] \in DOMAIN page[p[1]].slots
     /\ DeletedVisible(InvalidXid, page[p[1]].slots[p[2]])}

\* The oldest id that the reader's snapshot takes for running.
SnapshotXmin ==
  CHOOSE x \in Running \cup {nextXid} : \A r \in Running : x <= r

ScanInit ==
  /\ Init
  /\ scan \in [phase : {"idle"}, vid : Vid, filter : Filters,
               snapshot : {FirstNormalXid}, blk : {NoBlock}, at : {NoBlock},
               buf : {<<>>}, i : {1}, out : {<<>>}]
  /\ steady = {}
  /\ dead = {}

Begin(phase, blk) ==
  /\ scan.phase = "idle"
  /\ scan' = [scan EXCEPT !.phase = phase, !.blk = blk, !.snapshot = SnapshotXmin]
  /\ steady' = Answer(scan.vid, scan.filter)
  /\ dead' = DeadSlots
  /\ UNCHANGED vars

\* gs_open, first read of the metapage.
ScanOpen == Begin("locate", meta.first)

\* ... with graph_store.assume_dense_open; a vid that is not assigned is a miss.
ScanOpenDense ==
  IF DenseInRange(scan.vid) THEN Begin("dense", DensePosition(scan.vid)[1])
  ELSE Begin("done", NoBlock)

ScanStep(s) == scan' = s /\ UNCHANGED <<vars, steady, dead>>

Hits(b) ==
  {i \in DOMAIN page[b].vertices :
     page[b].vertices[i].vid = scan.vid /\ Live(InvalidXid, page[b].vertices[i])}

\* gph_locate_vertex, one vertex page.
ScanLocate ==
  /\ scan.phase = "locate"
  /\ \/ /\ scan.blk = NoBlock
        /\ ScanStep([scan EXCEPT !.phase = "done"])
     \/ /\ scan.blk # NoBlock
        /\ \E i \in Hits(scan.blk) :
             ScanStep([scan EXCEPT !.phase = "read",
                                   !.blk = page[scan.blk].vertices[i].head])
     \/ /\ scan.blk # NoBlock
        /\ Hits(scan.blk) = {}
        /\ ScanStep([scan EXCEPT !.blk = page[scan.blk].next])

\* gph_locate_vertex_dense, the computed page.
ScanLocateDense ==
  /\ scan.phase = "dense"
  /\ \/ /\ ~DenseVerified(scan.vid)
        /\ ScanStep([scan EXCEPT !.phase = "failed"])
     \/ \E p \in DenseLocated(InvalidXid, scan.vid) :
          ScanStep([scan EXCEPT !.phase = "read", !.blk = VertexAt(p).head])
     \/ /\ DenseVerified(scan.vid)
        /\ DenseLocated(InvalidXid, scan.vid) = {}
        /\ ScanStep([scan EXCEPT !.phase = "done"])

BufferServed == scan.phase = "read" /\ scan.i > Len(scan.buf)

\* Mutant: the position in the buffer is not reset.
ReadPageResumed ==
  /\ BufferServed
  /\ scan.blk # NoBlock
  /\ ScanStep([scan EXCEPT !.buf = page[scan.blk].slots, !.at = scan.blk,
                           !.blk = page[scan.blk].next])

\* gs_read_page_into_buf.
ReadPage ==
  /\ BufferServed
  /\ scan.blk # NoBlock
  /\ ScanStep([scan EXCEPT !.buf = page[scan.blk].slots, !.at = scan.blk,
                           !.i = 1, !.blk = page[scan.blk].next])

Emits(e) == Live(InvalidXid, e) /\ Passes(e, scan.filter)

\* gs_getnext on one slot of the copy.
Serve ==
  /\ scan.phase = "read"
  /\ scan.i \in DOMAIN scan.buf
  /\ ScanStep([scan EXCEPT
                 !.i = @ + 1,
                 !.out = IF Emits(scan.buf[scan.i]) THEN Append(@, <<scan.at, scan.i>>)
                         ELSE @])

Finish ==
  /\ BufferServed
  /\ scan.blk = NoBlock
  /\ ScanStep([scan EXCEPT !.phase = "done"])

\* The snapshot of the reader's statement holds back the host's oldest xmin.
FreezeRespectsSnapshot ==
  op'.name = "freeze" /\ op.name # "freeze" /\ scan.phase # "idle" =>
    op'.horizon < scan.snapshot

StoreStep ==
  /\ Next
  /\ FreezeRespectsSnapshot
  /\ UNCHANGED <<scan, dead>>
  /\ steady' = steady \cap Answer(scan.vid, scan.filter)'

ScanNext ==
  \/ ScanOpen
  \/ ScanOpenDense
  \/ ScanLocate
  \/ ScanLocateDense
  \/ ReadPage
  \/ Serve
  \/ Finish
  \/ StoreStep

ScanSpec == ScanInit /\ [][ScanNext]_scanVars

-----------------------------------------------------------------------------
(* Correctness.                                                            *)

Emitted == {scan.out[k] : k \in DOMAIN scan.out}

\* A finished scan has emitted every edge that was live from its beginning to
\* its end, and no slot twice, whatever the writers appended, tombstoned or
\* froze meanwhile (gs_read_page_into_buf and gs_getnext, graph_am.c:1657-1746).
ScanComplete ==
  /\ \A j, k \in DOMAIN scan.out : j # k => scan.out[j] # scan.out[k]
  /\ scan.phase = "done" => steady \subseteq Emitted

\* A scan emits nothing of a transaction that had not committed when the slot
\* was served, even if the slot was frozen meanwhile, and nothing that had
\* been deleted when the scan began (graph_am.c:66-108).
ScanSound ==
  /\ \A p \in Emitted : XminVisible(InvalidXid, page[p[1]].slots[p[2]].xmin)
  /\ Emitted \cap dead = {}

\* A scan among writers answers exactly what its snapshot of the chain owes:
\* each slot once, all that stood throughout, nothing uncommitted and nothing
\* deleted (gs_getnext, graph_am.c:66-108, 1486-1560).
ScanExact == ScanComplete /\ ScanSound

=============================================================================
