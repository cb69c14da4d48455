------------------------------- MODULE VidMap -------------------------------
(***************************************************************************)
(* External ids over the native vids: gph_upsert_vertex, the identity      *)
(* flag, and the backend-local reverse cache of gph_neighbors_ext_cached.  *)
(*                                                                         *)
(* The map is a heap table and follows the host's rules; the vertices are  *)
(* GraphStore's: a vid is taken for good even when its transaction aborts, *)
(* and the first of them takes the writer lock until the transaction ends. *)
(***************************************************************************)
EXTENDS Integers, Sequences, FiniteSets

CONSTANTS
  Sessions,  \* the backends
  MaxXid,    \* bound: transactions that write
  NoSession, \* not in Sessions
  ExtIds,    \* external ids; naturals, so that the map can be the identity
  MaxVid     \* bound: vertices allocated

ASSUME MapBoundsAssumption == MaxXid \in Nat /\ MaxVid \in Nat

VARIABLES
  xid,       \* each session's transaction id, NoXid while it has written nothing
  nextXid,
  committed,
  rows,      \* gph_vid_map: ext_id, vid and the inserting transaction
  vertices,  \* the inserting transaction of vid 0, 1, ...
  lock,      \* holder of the writer lock
  identity,  \* gph_am_meta: the committed flag, and an update in progress
  call,      \* each session's gph_upsert_vertex in progress
  answers,   \* history: what the calls returned, to which transaction
  cache      \* each backend's gph_vid_cache, NotBuilt until it is first used

-----------------------------------------------------------------------------
(* The host: a statement sees what had committed when it began, and the    *)
(* rows of its own transaction (READ COMMITTED).                           *)

NoXid == 0

xacts == <<xid, nextXid, committed>>

XactsTypeOK ==
  /\ xid \in [Sessions -> 0..MaxXid]
  /\ nextXid \in 1..(MaxXid + 1)
  /\ committed \subseteq 1..MaxXid

XactsInit ==
  /\ xid = [s \in Sessions |-> NoXid]
  /\ nextXid = 1
  /\ committed = {}

\* The id under which s writes now.
XidFor(s) == IF xid[s] = NoXid THEN nextXid ELSE xid[s]

\* The first write of a transaction gives it its id.
Writes(s) ==
  /\ XidFor(s) <= MaxXid
  /\ xid' = [xid EXCEPT ![s] = XidFor(s)]
  /\ nextXid' = IF xid[s] = NoXid THEN nextXid + 1 ELSE nextXid
  /\ UNCHANGED committed

Visible(s, x) == x \in committed \/ (x # NoXid /\ x = xid[s])

InProgress(x) == \E s \in Sessions : xid[s] = x /\ x # NoXid

\* An aborted row: nobody will ever see it.
Lost(x) == x \notin committed /\ ~InProgress(x)

Ends(s, commits) ==
  /\ xid[s] # NoXid
  /\ xid' = [xid EXCEPT ![s] = NoXid]
  /\ committed' = IF commits THEN committed \cup {xid[s]} ELSE committed
  /\ UNCHANGED nextXid

-----------------------------------------------------------------------------
(* The map.                                                                *)

mapVars == <<rows, vertices, lock, identity, call, answers, cache>>
vars    == <<xacts, mapVars>>

Vid      == 0..(MaxVid - 1)
NoCall   == [at |-> "idle"]
NotBuilt == [built |-> FALSE, map |-> {}]
NoVid    == -1

Row    == [ext : ExtIds, vid : Vid, xmin : 1..MaxXid]
Answer == [ext : ExtIds, vid : Vid \cup {NoVid}, xid : 0..MaxXid]

TypeOK ==
  /\ XactsTypeOK
  /\ rows \subseteq Row
  /\ vertices \in UNION {[1..n -> 1..MaxXid] : n \in 0..MaxVid}
  /\ lock \in Sessions \cup {NoSession}
  /\ identity \in [on : BOOLEAN, new : BOOLEAN, by : Sessions \cup {NoSession}]
  /\ call \in [Sessions ->
       {NoCall} \cup [at : {"update"}, on : BOOLEAN]
                \cup [at : {"vertex", "reread"}, ext : ExtIds]
                \cup [at : {"row"}, ext : ExtIds, vid : Vid]]
  /\ answers \subseteq Answer
  /\ cache \in [Sessions ->
                 [built : BOOLEAN, map : SUBSET [vid : Vid, ext : ExtIds]]]

Init ==
  /\ XactsInit
  /\ rows = {}
  /\ vertices = <<>>
  /\ lock = NoSession
  /\ identity = [on |-> FALSE, new |-> FALSE, by |-> NoSession]
  /\ call = [s \in Sessions |-> NoCall]
  /\ answers = {}
  /\ cache = [s \in Sessions |-> NotBuilt]

-----------------------------------------------------------------------------
(* gph_upsert_vertex, statement by statement.                              *)

VisibleRows(s) == {r \in rows : Visible(s, r.xmin)}

MappedTo(s, e) == {r.vid : r \in {q \in VisibleRows(s) : q.ext = e}}

\* The call returns vid e's mapping, or NULL.
Return(s, e, vid) ==
  /\ call' = [call EXCEPT ![s] = NoCall]
  /\ answers' = answers \cup {[ext |-> e, vid |-> vid, xid |-> xid[s]]}

UpsertProbe(s, e) ==
  /\ call[s] = NoCall
  /\ \/ /\ MappedTo(s, e) = {}
        /\ call' = [call EXCEPT ![s] = [at |-> "vertex", ext |-> e]]
        /\ UNCHANGED answers
     \/ \E v \in MappedTo(s, e) : Return(s, e, v)
  /\ UNCHANGED <<xacts, rows, vertices, lock, identity, cache>>

\* gm_next_vid.
NextVid == Len(vertices)

\* Mutant: a vid whose transaction aborted is handed out again.
UpsertVertexReused(s) ==
  /\ call[s].at = "vertex"
  /\ lock \in {s, NoSession}
  /\ Writes(s)
  /\ lock' = s
  /\ \E i \in DOMAIN Append(vertices, NoXid) :
       /\ i <= MaxVid
       /\ i \in DOMAIN vertices => Lost(vertices[i])
       /\ vertices' = [j \in DOMAIN vertices \cup {i} |->
                         IF j = i THEN XidFor(s) ELSE vertices[j]]
       /\ call' = [call EXCEPT ![s] =
                     [at |-> "row", ext |-> call[s].ext, vid |-> i - 1]]
  /\ UNCHANGED <<rows, identity, answers, cache>>

\* gph_insert_vertex.
UpsertVertex(s) ==
  /\ call[s].at = "vertex"
  /\ lock \in {s, NoSession}
  /\ Len(vertices) < MaxVid
  /\ Writes(s)
  /\ lock' = s
  /\ vertices' = Append(vertices, XidFor(s))
  /\ call' = [call EXCEPT ![s] =
                [at |-> "row", ext |-> call[s].ext, vid |-> NextVid]]
  /\ UNCHANGED <<rows, identity, answers, cache>>

Conflicts(e) == {r \in rows : r.ext = e /\ ~Lost(r.xmin)}

\* Mutant: the call returns the vid it allocated.
UpsertRowOwn(s) ==
  LET c == call[s] IN
  /\ c.at = "row"
  /\ \A r \in Conflicts(c.ext) : Visible(s, r.xmin)
  /\ rows' = IF Conflicts(c.ext) # {} THEN rows
             ELSE rows \cup {[ext |-> c.ext, vid |-> c.vid, xmin |-> xid[s]]}
  /\ Return(s, c.ext, c.vid)
  /\ UNCHANGED <<xacts, vertices, lock, identity, cache>>

\* INSERT ... ON CONFLICT (ext_id) DO NOTHING: a row of a transaction that is
\* still running is waited for.
UpsertRow(s) ==
  LET c == call[s] IN
  /\ c.at = "row"
  /\ \A r \in Conflicts(c.ext) : Visible(s, r.xmin)
  /\ rows' = IF Conflicts(c.ext) # {} THEN rows
             ELSE rows \cup {[ext |-> c.ext, vid |-> c.vid, xmin |-> xid[s]]}
  /\ call' = [call EXCEPT ![s] = [at |-> "reread", ext |-> c.ext]]
  /\ UNCHANGED <<xacts, vertices, lock, identity, answers, cache>>

UpsertReread(s) ==
  /\ call[s].at = "reread"
  /\ \/ \E v \in MappedTo(s, call[s].ext) : Return(s, call[s].ext, v)
     \/ MappedTo(s, call[s].ext) = {} /\ Return(s, call[s].ext, NoVid)
  /\ UNCHANGED <<xacts, rows, vertices, lock, identity, cache>>

-----------------------------------------------------------------------------
(* gph_set_identity_mode: the check, then the update of the one row.       *)

IsIdentity(rs) == \A r \in rs : r.ext = r.vid

SetIdentityCheck(s, on) ==
  /\ call[s] = NoCall
  /\ on => IsIdentity(VisibleRows(s))
  /\ call' = [call EXCEPT ![s] = [at |-> "update", on |-> on]]
  /\ UNCHANGED <<xacts, rows, vertices, lock, identity, answers, cache>>

SetIdentityUpdate(s) ==
  /\ call[s].at = "update"
  /\ identity.by \in {s, NoSession}
  /\ Writes(s)
  /\ identity' = [identity EXCEPT !.new = call[s].on, !.by = s]
  /\ call' = [call EXCEPT ![s] = NoCall]
  /\ UNCHANGED <<rows, vertices, lock, answers, cache>>

-----------------------------------------------------------------------------
(* gph_vid_cache.                                                          *)

\* gph_read_identity_mode as s sees it.
IdentityOn(s) == IF identity.by = s THEN identity.new ELSE identity.on

\* gph_vid_cache_ensure, on the first open in a session that has no cache.
BuildCache(s) ==
  /\ call[s] = NoCall
  /\ ~IdentityOn(s)
  /\ cache[s] = NotBuilt
  /\ cache' = [cache EXCEPT ![s] =
                 [built |-> TRUE,
                  map |-> {[vid |-> r.vid, ext |-> r.ext] : r \in VisibleRows(s)}]]
  /\ UNCHANGED <<xacts, rows, vertices, lock, identity, call, answers>>

\* gph_vid_cache_invalidate: TRUNCATE, DROP or a rewrite of the map, not an
\* INSERT into it.
FlushCache(s) ==
  /\ cache[s].built
  /\ cache' = [cache EXCEPT ![s] = NotBuilt]
  /\ UNCHANGED <<xacts, rows, vertices, lock, identity, call, answers>>

-----------------------------------------------------------------------------

Commit(s) ==
  /\ call[s] = NoCall
  /\ Ends(s, TRUE)
  /\ lock' = IF lock = s THEN NoSession ELSE lock
  /\ identity' = IF identity.by = s
                 THEN [on |-> identity.new, new |-> FALSE, by |-> NoSession]
                 ELSE identity
  /\ UNCHANGED <<rows, vertices, call, answers, cache>>

\* An ERROR in a call included.  The session's cache outlives the transaction.
Abort(s) ==
  /\ Ends(s, FALSE)
  /\ lock' = IF lock = s THEN NoSession ELSE lock
  /\ identity' = IF identity.by = s
                 THEN [identity EXCEPT !.new = FALSE, !.by = NoSession]
                 ELSE identity
  /\ call' = [call EXCEPT ![s] = NoCall]
  /\ UNCHANGED <<rows, vertices, answers, cache>>

Next ==
  \E s \in Sessions :
    \/ \E e \in ExtIds : UpsertProbe(s, e)
    \/ UpsertVertex(s)
    \/ UpsertRow(s)
    \/ UpsertReread(s)
    \/ \E on \in BOOLEAN : SetIdentityCheck(s, on)
    \/ SetIdentityUpdate(s)
    \/ BuildCache(s)
    \/ FlushCache(s)
    \/ Commit(s)
    \/ Abort(s)

Spec == Init /\ [][Next]_vars

-----------------------------------------------------------------------------
(* Correctness.                                                            *)

Standing(x) == x = NoXid \/ ~Lost(x)

\* Every call by a transaction that has not aborted returned the mapping:
\* callers that raced for one external id agree on its vid, the winner's, and
\* none of them got NULL (graph_store_am--0.2.0.sql:303-325).
AnswersAreTheMapping ==
  \A a \in answers :
    Standing(a.xid) =>
      \E r \in rows :
        /\ r.ext = a.ext /\ r.vid = a.vid
        /\ r.xmin \in committed \/ r.xmin = a.xid

\* What any session sees of the map is one-to-one, and each mapped vertex was
\* inserted by the transaction that mapped it, so that the row and the vertex
\* stand or fall together (graph_store_am--0.2.0.sql:236-242).
MapOneToOne ==
  \A s \in Sessions : \A q, r \in VisibleRows(s) :
    /\ (q.ext = r.ext) <=> (q.vid = r.vid)
    /\ r.vid < Len(vertices) /\ vertices[r.vid + 1] = r.xmin

\* Both, of a map of its types: the external ids of the callers are one-to-one
\* with the vertices they were given (graph_store_am--0.2.0.sql:236-325).
MapIsSound == TypeOK /\ MapOneToOne /\ AnswersAreTheMapping

\* A cached translation may be missing but is never wrong, even one that was
\* cached from a transaction that then aborted: vids are not used twice
\* (graph_am.c:2199-2214).
CacheNeverWrong ==
  \A s \in Sessions : \A c \in cache[s].map, r \in VisibleRows(s) :
    c.vid = r.vid => c.ext = r.ext

=============================================================================
