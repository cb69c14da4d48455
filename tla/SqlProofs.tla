----------------------------- MODULE SqlProofs -----------------------------
(***************************************************************************)
(* Proofs about the SQL layer.  The identity map, for every number of      *)
(* sessions, external ids and transactions: what any session sees of it is *)
(* one-to-one, calls that raced agree, and no cached translation is wrong. *)
(* Agent memory, for every set of servers and of relations and every       *)
(* bound: a stored memory's one vertex has the memory's number, and what   *)
(* agents are told of is stored.  A dump and its replay, by DumpProofs: a  *)
(* backup answers as the store did.                                        *)
(***************************************************************************)
EXTENDS MCGraphDump, SequenceTheorems, FiniteSetTheorems,
        WellFoundedInduction, TLAPS

-----------------------------------------------------------------------------
(* The identity map.                                                       *)

\* A running transaction has an id of its own, handed out and not committed.
HostInv ==
  /\ xid \in [Sessions -> Nat]
  /\ nextXid \in Nat \ {0}
  /\ committed \subseteq 1..(nextXid - 1)
  /\ \A s \in Sessions : xid[s] # NoXid => xid[s] < nextXid /\ xid[s] \notin committed
  /\ \A s, u \in Sessions : s # u /\ xid[s] # NoXid => xid[s] # xid[u]

\* A mapped vid belongs to the vertex of the transaction that mapped it; no vid
\* is mapped twice, and no external id twice by transactions that stand.
RowsInv ==
  /\ vertices \in Seq(Nat)
  /\ \A r \in rows :
       /\ r.ext \in ExtIds /\ r.xmin \in 1..(nextXid - 1)
       /\ r.vid \in 0..(Len(vertices) - 1) /\ vertices[r.vid + 1] = r.xmin
  /\ \A q, r \in rows : q.vid = r.vid => q.ext = r.ext
  /\ \A q, r \in rows :
       q.ext = r.ext /\ ~Lost(q.xmin) /\ ~Lost(r.xmin) => q.vid = r.vid

Calls ==
  {NoCall} \cup [at : {"update"}, on : BOOLEAN]
           \cup [at : {"vertex", "reread"}, ext : ExtIds]
           \cup [at : {"row"}, ext : ExtIds, vid : Nat]

\* A session about to insert its row holds a vertex of its own that nobody has
\* mapped; one about to read again will see a row.
CallInv(s) ==
  /\ call[s].at = "row" =>
       /\ xid[s] # NoXid
       /\ call[s].vid \in 0..(Len(vertices) - 1)
       /\ vertices[call[s].vid + 1] = xid[s]
       /\ \A r \in rows : r.vid # call[s].vid
  /\ call[s].at = "reread" =>
       \E r \in rows : r.ext = call[s].ext /\ Visible(s, r.xmin)

CallsInv ==
  /\ call \in [Sessions -> Calls]
  /\ \A s \in Sessions : CallInv(s)

AnswersInv ==
  /\ \A a \in answers : a.xid \in 0..(nextXid - 1)
  /\ AnswersAreTheMapping

\* What a session cached was in the map, and still is.
CachesInv ==
  /\ cache \in [Sessions -> [built : BOOLEAN, map : SUBSET [vid : Nat, ext : ExtIds]]]
  /\ \A s \in Sessions : \A c \in cache[s].map :
       \E r \in rows : r.vid = c.vid /\ r.ext = c.ext

MapInv == HostInv /\ RowsInv /\ CallsInv /\ AnswersInv /\ CachesInv

LEMMA MapInit == Init => MapInv
<1>. SUFFICES ASSUME Init PROVE MapInv
  OBVIOUS
<1>1. HostInv
  BY DEF Init, XactsInit, HostInv, NoXid
<1>2. RowsInv
  BY DEF Init, RowsInv
<1>3. CallsInv
  BY DEF Init, CallsInv, CallInv, Calls, NoCall
<1>4. AnswersInv
  BY DEF Init, AnswersInv, AnswersAreTheMapping
<1>5. CachesInv
  BY DEF Init, CachesInv, NotBuilt
<1>. QED BY <1>1, <1>2, <1>3, <1>4, <1>5 DEF MapInv

-----------------------------------------------------------------------------
(* The host.                                                               *)

HostStep(s) ==
  UNCHANGED xacts \/ Writes(s) \/ (\E commits \in BOOLEAN : Ends(s, commits))

LEMMA OldIdsStay ==
  ASSUME NEW m \in Nat, NEW n \in Nat, m <= n
  PROVE  1..(m - 1) \subseteq 1..(n - 1)
OBVIOUS

LEMMA HostKept ==
  ASSUME HostInv, NEW s \in Sessions, HostStep(s)
  PROVE  HostInv' /\ nextXid <= nextXid'
<1>1. CASE UNCHANGED xacts
  BY <1>1 DEF HostInv, xacts
<1>2. CASE Writes(s)
  <2>1. XidFor(s) \in Nat \ {0} /\ XidFor(s) <= nextXid /\ XidFor(s) \notin committed
    BY DEF XidFor, HostInv, NoXid
  <2>2. /\ xid' = [xid EXCEPT ![s] = XidFor(s)] /\ committed' = committed
        /\ nextXid' \in {nextXid, nextXid + 1} /\ XidFor(s) < nextXid'
    BY <1>2, <2>1 DEF Writes, XidFor, HostInv
  <2>3. \A u \in Sessions : u # s => xid[u] # XidFor(s)
    BY DEF XidFor, HostInv, NoXid
  <2>4. /\ xid' \in [Sessions -> Nat] /\ nextXid' \in Nat \ {0} /\ nextXid <= nextXid'
        /\ committed' \subseteq 1..(nextXid' - 1)
    <3>1. xid' \in [Sessions -> Nat]
      BY <2>1, <2>2 DEF HostInv
    <3>2. /\ nextXid \in Nat \ {0} /\ nextXid' \in Nat \ {0} /\ nextXid <= nextXid'
          /\ committed \subseteq 1..(nextXid - 1)
      BY <2>2 DEF HostInv
    <3>3. 1..(nextXid - 1) \subseteq 1..(nextXid' - 1)
      BY <3>2, OldIdsStay
    <3>4. committed' \subseteq 1..(nextXid' - 1)
      BY <2>2, <3>2, <3>3, Zenon
    <3>. QED BY <3>1, <3>2, <3>4
  <2>5. \A u \in Sessions : xid'[u] = IF u = s THEN XidFor(s) ELSE xid[u]
    BY <2>2 DEF HostInv
  <2>6. \A u \in Sessions : xid'[u] # NoXid => xid'[u] < nextXid' /\ xid'[u] \notin committed'
    BY <2>1, <2>2, <2>5 DEF HostInv
  <2>7. \A t, u \in Sessions : t # u /\ xid'[t] # NoXid => xid'[t] # xid'[u]
    BY <2>3, <2>5 DEF HostInv
  <2>. QED BY <2>4, <2>6, <2>7 DEF HostInv
<1>3. ASSUME NEW commits \in BOOLEAN, Ends(s, commits)
      PROVE  HostInv' /\ nextXid <= nextXid'
  <2>1. /\ xid' = [xid EXCEPT ![s] = NoXid] /\ nextXid' = nextXid
        /\ xid[s] # NoXid /\ committed' \subseteq committed \cup {xid[s]}
    BY <1>3 DEF Ends
  <2>2. \A u \in Sessions : xid'[u] = IF u = s THEN NoXid ELSE xid[u]
    BY <2>1 DEF HostInv
  <2>3. /\ xid' \in [Sessions -> Nat] /\ nextXid' \in Nat \ {0} /\ nextXid <= nextXid'
        /\ committed' \subseteq 1..(nextXid' - 1)
    BY <2>1 DEF HostInv, NoXid
  <2>4. \A u \in Sessions : xid'[u] # NoXid => xid'[u] < nextXid' /\ xid'[u] \notin committed'
    BY <2>1, <2>2 DEF HostInv
  <2>5. \A t, u \in Sessions : t # u /\ xid'[t] # NoXid => xid'[t] # xid'[u]
    BY <2>2 DEF HostInv
  <2>. QED BY <2>3, <2>4, <2>5 DEF HostInv
<1>. QED BY <1>1, <1>2, <1>3 DEF HostStep

\* A row that is lost stays lost: no transaction takes an old id.
LEMMA LostStays ==
  ASSUME HostInv, NEW s \in Sessions, HostStep(s),
         NEW x \in 1..(nextXid - 1), Lost(x)
  PROVE  Lost(x)'
<1>1. CASE UNCHANGED xacts
  BY <1>1 DEF Lost, InProgress, xacts
<1>2. CASE Writes(s)
  BY <1>2 DEF Writes, XidFor, Lost, InProgress, HostInv
<1>3. ASSUME NEW commits \in BOOLEAN, Ends(s, commits)
      PROVE  Lost(x)'
  BY <1>3 DEF Ends, Lost, InProgress, HostInv, NoXid
<1>. QED BY <1>1, <1>2, <1>3 DEF HostStep

\* What a session sees it goes on seeing until its transaction ends.
LEMMA VisibleStays ==
  ASSUME HostInv, NEW s \in Sessions, NEW u \in Sessions, NEW x, Visible(u, x),
         \/ UNCHANGED xacts \/ Writes(s)
         \/ u # s /\ \E commits \in BOOLEAN : Ends(s, commits)
  PROVE  Visible(u, x)'
  BY DEF Visible, xacts, Writes, XidFor, Ends, HostInv

LEMMA VisibleStands ==
  ASSUME HostInv, NEW u \in Sessions, NEW x, Visible(u, x)
  PROVE  ~Lost(x)
  BY DEF Visible, Lost, InProgress

-----------------------------------------------------------------------------
(* What a step of the host keeps, when the call leaves the table alone or  *)
(* only adds to it.                                                        *)

LEMMA RowsStay ==
  ASSUME HostInv, RowsInv, NEW s \in Sessions, HostStep(s), UNCHANGED <<rows, vertices>>
  PROVE  RowsInv'
<1>1. nextXid \in Nat /\ nextXid' \in Nat /\ nextXid <= nextXid'
  BY HostKept DEF HostInv
<1>2. \A r \in rows : r.xmin \in 1..(nextXid - 1) /\ (Lost(r.xmin) => Lost(r.xmin)')
  BY LostStays DEF RowsInv
<1>. QED BY <1>1, <1>2 DEF RowsInv

LEMMA AnswersStay ==
  ASSUME HostInv, RowsInv, AnswersInv, NEW s \in Sessions, HostStep(s),
         rows \subseteq rows'
  PROVE  \A a \in answers :
           /\ a.xid \in 0..(nextXid' - 1)
           /\ Standing(a.xid)' =>
                \E r \in rows' :
                  /\ r.ext = a.ext /\ r.vid = a.vid
                  /\ r.xmin \in committed' \/ r.xmin = a.xid
<1>1. nextXid \in Nat /\ nextXid' \in Nat /\ nextXid <= nextXid'
  BY HostKept DEF HostInv
<1>2. committed \subseteq committed'
  BY DEF HostStep, xacts, Writes, Ends
<1>3. \A a \in answers : Standing(a.xid)' => Standing(a.xid)
  BY LostStays DEF Standing, AnswersInv, NoXid
<1>. QED BY <1>1, <1>2, <1>3 DEF AnswersInv, AnswersAreTheMapping

LEMMA CachesStay ==
  ASSUME CachesInv, UNCHANGED cache, rows \subseteq rows'
  PROVE  CachesInv'
BY DEF CachesInv

\* Another session's call is not disturbed by rows of vertices of this one.
LEMMA CallStays ==
  ASSUME HostInv, RowsInv, CallsInv, NEW s \in Sessions, HostStep(s),
         NEW u \in Sessions, u # s, call'[u] = call[u],
         rows \subseteq rows',
         Len(vertices) \in Nat, Len(vertices') \in Nat, Len(vertices) <= Len(vertices'),
         \A i \in 1..Len(vertices) : vertices'[i] = vertices[i],
         \A r \in rows' \ rows : xid[s] # NoXid /\ vertices[r.vid + 1] = xid[s]
  PROVE  CallInv(u)'
<1>1. CallInv(u)
  BY DEF CallsInv
<1>2. xid'[u] = xid[u]
  BY DEF HostStep, xacts, Writes, Ends, HostInv
<1>3. xid[s] # NoXid => xid[s] # xid[u]
  BY DEF HostInv
<1>4. ASSUME call[u].at = "row"
      PROVE  /\ xid'[u] # NoXid
             /\ call[u].vid \in 0..(Len(vertices') - 1)
             /\ vertices'[call[u].vid + 1] = xid'[u]
             /\ \A r \in rows' : r.vid # call[u].vid
  BY <1>1, <1>2, <1>3, <1>4 DEF CallInv
<1>5. ASSUME call[u].at = "reread"
      PROVE  \E r \in rows' : r.ext = call[u].ext /\ Visible(u, r.xmin)'
  <2>1. PICK r \in rows : r.ext = call[u].ext /\ Visible(u, r.xmin)
    BY <1>1, <1>5 DEF CallInv
  <2>2. Visible(u, r.xmin)'
    BY <2>1, VisibleStays DEF HostStep
  <2>. QED BY <2>1, <2>2
<1>. QED BY <1>4, <1>5 DEF CallInv

-----------------------------------------------------------------------------
(* The steps.                                                              *)

LEMMA CallsOf ==
  /\ NoCall \in Calls /\ NoCall.at = "idle"
  /\ \A on \in BOOLEAN : [at |-> "update", on |-> on] \in Calls
  /\ \A e \in ExtIds : /\ [at |-> "vertex", ext |-> e] \in Calls
                       /\ [at |-> "reread", ext |-> e] \in Calls
                       /\ \A v \in Nat : [at |-> "row", ext |-> e, vid |-> v] \in Calls
  /\ \A c \in Calls : c.at \in {"vertex", "row", "reread"} => c.ext \in ExtIds
  /\ \A c \in Calls : c.at = "row" => c.vid \in Nat
BY DEF Calls, NoCall

\* A step that only ends, starts or turns session s's call: the table is as it
\* was, and the new call is justified.
LEMMA TurnKeeps ==
  ASSUME MapInv, NEW s \in Sessions, HostStep(s), NEW c \in Calls,
         call' = [call EXCEPT ![s] = c],
         UNCHANGED <<rows, vertices, cache>>,
         CallInv(s)', AnswersInv'
  PROVE  MapInv'
<1>1. HostInv' /\ RowsInv' /\ CachesInv'
  BY HostKept, RowsStay, CachesStay DEF MapInv
<1>2. ASSUME NEW u \in Sessions, u # s
      PROVE  CallInv(u)'
  <2>1. call'[u] = call[u] /\ Len(vertices) \in Nat
    BY <1>2 DEF MapInv, CallsInv, RowsInv
  <2>. QED BY <1>2, <2>1, CallStays DEF MapInv
<1>3. CallsInv'
  BY <1>2 DEF MapInv, CallsInv
<1>. QED BY <1>1, <1>3 DEF MapInv

\* An answer that a row backs, or no new answer at all.
LEMMA AnswerKept ==
  ASSUME MapInv, NEW s \in Sessions, HostStep(s), rows \subseteq rows', UNCHANGED answers
  PROVE  AnswersInv'
BY AnswersStay DEF MapInv, AnswersInv, AnswersAreTheMapping

LEMMA AnswerBacked ==
  ASSUME MapInv, NEW s \in Sessions, NEW e, NEW v \in MappedTo(s, e), Return(s, e, v),
         UNCHANGED <<xacts, rows, vertices, cache>>
  PROVE  MapInv'
<1>1. PICK r \in rows : r.ext = e /\ r.vid = v /\ Visible(s, r.xmin)
  BY DEF MappedTo, VisibleRows
<1>2. HostStep(s)
  BY DEF HostStep
<1>3. r.xmin \in committed' \/ r.xmin = xid[s]
  BY <1>1 DEF Visible, xacts
<1>4. xid[s] \in 0..(nextXid' - 1)
  BY DEF MapInv, HostInv, xacts, NoXid
<1>5. AnswersInv'
  BY <1>1, <1>2, <1>3, <1>4, AnswersStay
     DEF MapInv, AnswersInv, AnswersAreTheMapping, Return
<1>6. CallInv(s)'
  BY CallsOf DEF Return, CallInv, MapInv, CallsInv
<1>. QED BY <1>2, <1>5, <1>6, CallsOf, TurnKeeps DEF Return

LEMMA ProbeKeeps ==
  ASSUME MapInv, NEW s \in Sessions, NEW e \in ExtIds, UpsertProbe(s, e)
  PROVE  MapInv'
<1>1. HostStep(s)
  BY DEF HostStep, UpsertProbe
<1>2. CASE call' = [call EXCEPT ![s] = [at |-> "vertex", ext |-> e]] /\ UNCHANGED answers
  <2>1. CallInv(s)'
    BY <1>2 DEF CallInv, MapInv, CallsInv
  <2>2. UNCHANGED <<rows, vertices, cache>>
    BY DEF UpsertProbe
  <2>. QED BY <1>1, <1>2, <2>1, <2>2, CallsOf, AnswerKept, TurnKeeps
<1>3. ASSUME NEW v \in MappedTo(s, e), Return(s, e, v)
      PROVE  MapInv'
  BY <1>3, AnswerBacked DEF UpsertProbe
<1>. QED BY <1>2, <1>3 DEF UpsertProbe

LEMMA RereadKeeps ==
  ASSUME MapInv, NEW s \in Sessions, UpsertReread(s)
  PROVE  MapInv'
<1>1. MappedTo(s, call[s].ext) # {}
  <2>1. CallInv(s) /\ call[s].at = "reread"
    BY DEF MapInv, CallsInv, UpsertReread
  <2>2. PICK r \in rows : r.ext = call[s].ext /\ Visible(s, r.xmin)
    BY <2>1 DEF CallInv
  <2>3. r.vid \in MappedTo(s, call[s].ext)
    BY <2>2 DEF MappedTo, VisibleRows
  <2>. QED BY <2>3
<1>2. PICK v \in MappedTo(s, call[s].ext) : Return(s, call[s].ext, v)
  BY <1>1 DEF UpsertReread
<1>. QED BY <1>2, AnswerBacked DEF UpsertReread

LEMMA VertexKeeps ==
  ASSUME MapInv, NEW s \in Sessions, UpsertVertex(s)
  PROVE  MapInv'
<1>1. HostStep(s) /\ Writes(s) /\ UNCHANGED <<rows, answers, cache>>
  BY DEF HostStep, UpsertVertex
<1>2. HostInv' /\ AnswersInv' /\ CachesInv' /\ nextXid <= nextXid'
  BY <1>1, HostKept, AnswerKept, CachesStay DEF MapInv
<1>3. /\ XidFor(s) \in Nat /\ XidFor(s) # NoXid /\ xid'[s] = XidFor(s)
      /\ nextXid \in Nat /\ nextXid' \in Nat
  BY <1>1, <1>2 DEF MapInv, HostInv, Writes, XidFor, NoXid
<1>4. /\ vertices \in Seq(Nat) /\ vertices' \in Seq(Nat)
      /\ Len(vertices) \in Nat /\ Len(vertices') = Len(vertices) + 1
      /\ vertices'[Len(vertices) + 1] = XidFor(s)
      /\ \A i \in 1..Len(vertices) : vertices'[i] = vertices[i]
  BY <1>3 DEF UpsertVertex, MapInv, RowsInv
<1>5. \A r \in rows : r.xmin \in 1..(nextXid - 1) /\ (Lost(r.xmin) => Lost(r.xmin)')
  BY <1>1, LostStays DEF MapInv, RowsInv
<1>6. RowsInv'
  <2>1. \A r \in rows' :
          /\ r.ext \in ExtIds /\ r.xmin \in 1..(nextXid' - 1)
          /\ r.vid \in 0..(Len(vertices') - 1) /\ vertices'[r.vid + 1] = r.xmin
    <3>. SUFFICES ASSUME NEW r \in rows
                  PROVE  /\ r.ext \in ExtIds /\ r.xmin \in 1..(nextXid' - 1)
                         /\ r.vid \in 0..(Len(vertices') - 1)
                         /\ vertices'[r.vid + 1] = r.xmin
      BY <1>1
    <3>1. /\ r.ext \in ExtIds /\ r.xmin \in 1..(nextXid - 1)
          /\ r.vid \in 0..(Len(vertices) - 1) /\ vertices[r.vid + 1] = r.xmin
      BY DEF MapInv, RowsInv
    <3>2. r.xmin \in 1..(nextXid' - 1)
      BY <1>2, <1>3, <3>1
    <3>3. /\ Len(vertices) \in Nat /\ Len(vertices') = Len(vertices) + 1
          /\ r.vid \in 0..(Len(vertices) - 1)
      BY <1>4, <3>1
    <3>4. r.vid + 1 \in 1..Len(vertices)
      BY <3>3
    <3>5. r.vid \in 0..(Len(vertices') - 1)
      BY <3>3
    <3>. QED BY <1>4, <3>1, <3>2, <3>4, <3>5
  <2>. QED BY <1>1, <1>4, <1>5, <2>1 DEF MapInv, RowsInv
<1>7. \A u \in Sessions : u # s => CallInv(u)'
  <2>1. \A u \in Sessions : u # s => call'[u] = call[u]
    BY DEF UpsertVertex, MapInv, CallsInv
  <2>. QED BY <1>1, <1>4, <2>1, CallStays DEF MapInv
<1>8. call' = [call EXCEPT ![s] =
                 [at |-> "row", ext |-> call[s].ext, vid |-> Len(vertices)]]
  BY DEF UpsertVertex, NextVid
<1>9. call'[s] = [at |-> "row", ext |-> call[s].ext, vid |-> Len(vertices)]
  BY <1>8 DEF MapInv, CallsInv
<1>10. CallInv(s)'
  <2>1. \A r \in rows' : r.vid # Len(vertices)
    BY <1>1, <1>4 DEF MapInv, RowsInv
  <2>. QED BY <1>3, <1>4, <1>9, <2>1 DEF CallInv
<1>11. CallsInv'
  <2>1. [at |-> "row", ext |-> call[s].ext, vid |-> Len(vertices)] \in Calls
    BY <1>4, CallsOf DEF UpsertVertex, MapInv, CallsInv
  <2>. QED BY <1>7, <1>8, <1>10, <2>1 DEF MapInv, CallsInv
<1>. QED BY <1>2, <1>6, <1>11 DEF MapInv

LEMMA RowKeeps ==
  ASSUME MapInv, NEW s \in Sessions, UpsertRow(s)
  PROVE  MapInv'
<1> DEFINE c == call[s]
           new == [ext |-> c.ext, vid |-> c.vid, xmin |-> xid[s]]
<1>1. /\ c.at = "row" /\ UNCHANGED <<xacts, vertices, answers, cache>>
      /\ rows' = IF Conflicts(c.ext) # {} THEN rows ELSE rows \cup {new}
      /\ call' = [call EXCEPT ![s] = [at |-> "reread", ext |-> c.ext]]
      /\ \A r \in Conflicts(c.ext) : Visible(s, r.xmin)
  BY DEF UpsertRow
<1>2. HostStep(s) /\ rows \subseteq rows'
  BY <1>1 DEF HostStep
<1>3. HostInv' /\ AnswersInv' /\ CachesInv'
  BY <1>1, <1>2, HostKept, AnswerKept, CachesStay DEF MapInv
<1>4. /\ xid[s] # NoXid /\ c.vid \in 0..(Len(vertices) - 1) /\ c.ext \in ExtIds
      /\ vertices[c.vid + 1] = xid[s] /\ \A r \in rows : r.vid # c.vid
      /\ c \in Calls
  BY <1>1, CallsOf DEF MapInv, CallsInv, CallInv
<1>5. xid[s] \in 1..(nextXid - 1)
  BY <1>4 DEF MapInv, HostInv, NoXid
<1>6. \A x : Lost(x)' <=> Lost(x)
  BY <1>1 DEF Lost, InProgress, xacts
<1>7. RowsInv'
  <2>1. CASE rows' = rows
    BY <1>1, <1>6, <2>1 DEF MapInv, RowsInv, xacts
  <2>2. CASE Conflicts(c.ext) = {} /\ rows' = rows \cup {new}
    <3>1. \A r \in rows : r.ext = new.ext => Lost(r.xmin)
      BY <2>2 DEF Conflicts
    <3>2. \A q, r \in rows' : q.vid = r.vid => q.ext = r.ext
      BY <1>4, <2>2 DEF MapInv, RowsInv
    <3>3. \A q, r \in rows' :
            q.ext = r.ext /\ ~Lost(q.xmin)' /\ ~Lost(r.xmin)' => q.vid = r.vid
      BY <1>6, <2>2, <3>1 DEF MapInv, RowsInv
    <3>4. \A r \in rows' :
            /\ r.ext \in ExtIds /\ r.xmin \in 1..(nextXid' - 1)
            /\ r.vid \in 0..(Len(vertices') - 1) /\ vertices'[r.vid + 1] = r.xmin
      BY <1>1, <1>4, <1>5, <2>2 DEF MapInv, RowsInv, xacts
    <3>. QED BY <1>1, <3>2, <3>3, <3>4 DEF MapInv, RowsInv
  <2>. QED BY <1>1, <2>1, <2>2
<1>8. \A u \in Sessions : u # s => CallInv(u)'
  <2>1. \A u \in Sessions : u # s => call'[u] = call[u]
    BY <1>1 DEF MapInv, CallsInv
  <2>2. /\ Len(vertices) \in Nat /\ vertices' = vertices
        /\ \A r \in rows' \ rows : xid[s] # NoXid /\ vertices[r.vid + 1] = xid[s]
    BY <1>1, <1>4 DEF MapInv, RowsInv
  <2>. QED BY <1>2, <2>1, <2>2, CallStays DEF MapInv
<1>9. CallInv(s)'
  <2>1. \E r \in rows' : r.ext = c.ext /\ Visible(s, r.xmin)
    <3>1. CASE Conflicts(c.ext) = {}
      <4>1. new \in rows' /\ new.ext = c.ext /\ new.xmin = xid[s]
        BY <1>1, <3>1
      <4>. QED BY <1>4, <4>1 DEF Visible
    <3>2. CASE Conflicts(c.ext) # {}
      <4>1. PICK r \in Conflicts(c.ext) : TRUE
        BY <3>2
      <4>. QED BY <1>1, <3>2, <4>1 DEF Conflicts
    <3>. QED BY <3>1, <3>2
  <2>2. \A x : Visible(s, x)' <=> Visible(s, x)
    BY <1>1 DEF Visible, xacts
  <2>3. call'[s] = [at |-> "reread", ext |-> c.ext]
    BY <1>1 DEF MapInv, CallsInv
  <2>. QED BY <2>1, <2>2, <2>3 DEF CallInv
<1>10. CallsInv'
  <2>1. [at |-> "reread", ext |-> c.ext] \in Calls
    BY <1>4, CallsOf
  <2>. QED BY <1>1, <1>8, <1>9, <2>1 DEF MapInv, CallsInv
<1>. QED BY <1>3, <1>7, <1>10 DEF MapInv

LEMMA IdentityKeeps ==
  ASSUME MapInv, NEW s \in Sessions,
         SetIdentityUpdate(s) \/ \E on \in BOOLEAN : SetIdentityCheck(s, on)
  PROVE  MapInv'
<1>1. HostStep(s) /\ UNCHANGED <<rows, vertices, answers, cache>>
  BY DEF HostStep, SetIdentityUpdate, SetIdentityCheck
<1>2. PICK c \in Calls : c.at \in {"idle", "update"} /\ call' = [call EXCEPT ![s] = c]
  BY CallsOf DEF SetIdentityUpdate, SetIdentityCheck
<1>3. CallInv(s)'
  BY <1>2 DEF CallInv, MapInv, CallsInv
<1>. QED BY <1>1, <1>2, <1>3, AnswerKept, TurnKeeps

LEMMA CacheKeeps ==
  ASSUME MapInv, NEW s \in Sessions, BuildCache(s) \/ FlushCache(s)
  PROVE  MapInv'
<1>1. UNCHANGED <<xacts, rows, vertices, call, answers>>
  BY DEF BuildCache, FlushCache
<1>2. HostInv' /\ RowsInv' /\ CallsInv' /\ AnswersInv'
  <2>1. HostStep(s)
    BY <1>1 DEF HostStep
  <2>2. CallsInv'
    BY <1>1 DEF MapInv, CallsInv, CallInv, Visible, xacts
  <2>. QED BY <1>1, <2>1, <2>2, HostKept, RowsStay, AnswerKept DEF MapInv
<1>3. CASE BuildCache(s)
  <2> DEFINE m == {[vid |-> r.vid, ext |-> r.ext] : r \in VisibleRows(s)}
  <2>1. m \subseteq [vid : Nat, ext : ExtIds]
    BY DEF VisibleRows, MapInv, RowsInv
  <2>2. \A c \in m : \E r \in rows : r.vid = c.vid /\ r.ext = c.ext
    BY DEF VisibleRows
  <2>3. cache' = [cache EXCEPT ![s] = [built |-> TRUE, map |-> m]]
    BY <1>3 DEF BuildCache
  <2> HIDE DEF m
  <2>4. CachesInv'
    BY <1>1, <2>1, <2>2, <2>3 DEF MapInv, CachesInv
  <2>. QED BY <1>2, <2>4 DEF MapInv
<1>4. CASE FlushCache(s)
  <2>1. CachesInv'
    BY <1>1, <1>4 DEF MapInv, CachesInv, FlushCache, NotBuilt
  <2>. QED BY <1>2, <2>1 DEF MapInv
<1>. QED BY <1>3, <1>4

LEMMA EndKeeps ==
  ASSUME MapInv, NEW s \in Sessions, Commit(s) \/ Abort(s)
  PROVE  MapInv'
<1>1. HostStep(s) /\ UNCHANGED <<rows, vertices, answers, cache>>
  BY DEF HostStep, Commit, Abort
<1>2. call' = [call EXCEPT ![s] = NoCall]
  BY DEF Commit, Abort, MapInv, CallsInv
<1>3. CallInv(s)'
  BY <1>2, CallsOf DEF CallInv, MapInv, CallsInv
<1>. QED BY <1>1, <1>2, <1>3, CallsOf, AnswerKept, TurnKeeps

LEMMA MapKept == MapInv /\ [Next]_vars => MapInv'
<1>. SUFFICES ASSUME MapInv, [Next]_vars PROVE MapInv'
  OBVIOUS
<1>1. CASE UNCHANGED vars
  BY <1>1 DEF vars, mapVars, xacts, MapInv, HostInv, RowsInv, Lost, InProgress, CallsInv,
              CallInv, Visible, AnswersInv, AnswersAreTheMapping, Standing, CachesInv
<1>2. CASE Next
  BY <1>2, ProbeKeeps, VertexKeeps, RowKeeps, RereadKeeps, IdentityKeeps, CacheKeeps,
     EndKeeps DEF Next
<1>. QED BY <1>1, <1>2

LEMMA MapAlways == Spec => []MapInv
BY MapInit, MapKept, PTL DEF Spec

-----------------------------------------------------------------------------
(* Types, within the bounds.                                               *)

LEMMA Vertices ==
  ASSUME TypeOK
  PROVE  vertices \in Seq(1..MaxXid) /\ Len(vertices) \in 0..MaxVid
<1>1. PICK n \in 0..MaxVid : vertices \in [1..n -> 1..MaxXid]
  BY DEF TypeOK
<1>2. n \in Nat /\ DOMAIN vertices = 1..n /\ vertices \in Seq(1..MaxXid)
  BY <1>1, MapBoundsAssumption, SeqDef
<1>3. Len(vertices) \in Nat /\ DOMAIN vertices = 1..Len(vertices)
  BY <1>2, LenProperties
<1>4. Len(vertices) = n
  BY <1>2, <1>3
<1>. QED BY <1>1, <1>2, <1>4

LEMMA HostTypes ==
  ASSUME TypeOK, NEW s \in Sessions,
         Writes(s) \/ (\E commits \in BOOLEAN : Ends(s, commits)) \/ UNCHANGED xacts
  PROVE  XactsTypeOK'
<1>. USE MapBoundsAssumption DEF NoXid
<1>1. CASE Writes(s)
  BY <1>1 DEF TypeOK, XactsTypeOK, Writes, XidFor
<1>2. ASSUME NEW commits \in BOOLEAN, Ends(s, commits)
      PROVE  XactsTypeOK'
  <2>1. xid[s] \in 1..MaxXid
    BY <1>2 DEF TypeOK, XactsTypeOK, Ends
  <2>2. committed' \subseteq committed \cup {xid[s]}
    BY <1>2 DEF Ends
  <2>3. xid' = [xid EXCEPT ![s] = 0] /\ nextXid' = nextXid
    BY <1>2 DEF Ends
  <2>4. /\ xid \in [Sessions -> 0..MaxXid] /\ nextXid \in 1..MaxXid + 1
        /\ committed \subseteq 1..MaxXid
    BY DEF TypeOK, XactsTypeOK
  <2>5. committed' \subseteq 1..MaxXid
    BY <2>1, <2>2, <2>4
  <2>6. xid' \in [Sessions -> 0..MaxXid]
    BY <2>3, <2>4
  <2>. QED BY <2>3, <2>4, <2>5, <2>6 DEF XactsTypeOK
<1>3. CASE UNCHANGED xacts
  BY <1>3 DEF TypeOK, XactsTypeOK, xacts
<1>. QED BY <1>1, <1>2, <1>3

LEMMA CallTypes ==
  ASSUME TypeOK, NEW s \in Sessions,
         \/ \E e \in ExtIds : UpsertProbe(s, e)
         \/ UpsertVertex(s) \/ UpsertRow(s) \/ UpsertReread(s), MapInv
  PROVE  TypeOK'
<1>. USE DEF NoVid
<1>1. \A e : MappedTo(s, e) \subseteq Vid
  BY DEF MappedTo, VisibleRows, TypeOK, Row
<1>2. xid[s] \in 0..MaxXid
  BY DEF TypeOK, XactsTypeOK
<1>3. ASSUME NEW e \in ExtIds, UpsertProbe(s, e)
      PROVE  TypeOK'
  <2>1. XactsTypeOK'
    BY <1>3, HostTypes DEF UpsertProbe
  <2>2. answers' \subseteq Answer
    BY <1>1, <1>2, <1>3 DEF UpsertProbe, Return, Answer, TypeOK
  <2>. QED BY <1>3, <2>1, <2>2 DEF UpsertProbe, Return, NoCall, TypeOK
<1>4. CASE UpsertVertex(s)
  <2>1. XactsTypeOK'
    BY <1>4, HostTypes DEF UpsertVertex
  <2>2. call[s].ext \in ExtIds
    BY <1>4 DEF UpsertVertex, TypeOK, NoCall
  <2>3. NextVid \in Vid
    BY <1>4, Vertices, MapBoundsAssumption DEF UpsertVertex, NextVid, Vid
  <2>4. call' \in [Sessions ->
       {NoCall} \cup [at : {"update"}, on : BOOLEAN]
                \cup [at : {"vertex", "reread"}, ext : ExtIds]
                \cup [at : {"row"}, ext : ExtIds, vid : Vid]]
    BY <1>4, <2>2, <2>3 DEF UpsertVertex, TypeOK
  <2>5. vertices' \in UNION {[1..n -> 1..MaxXid] : n \in 0..MaxVid}
    <3>1. XidFor(s) \in 1..MaxXid
      BY <1>4, MapBoundsAssumption DEF UpsertVertex, Writes, XidFor, NoXid, TypeOK, XactsTypeOK
    <3>2. /\ vertices' = Append(vertices, XidFor(s))
          /\ vertices' \in Seq(1..MaxXid) /\ Len(vertices') = Len(vertices) + 1
          /\ Len(vertices) + 1 \in 0..MaxVid
      BY <1>4, <3>1, Vertices, AppendProperties, MapBoundsAssumption DEF UpsertVertex
    <3>3. vertices' \in [1..(Len(vertices) + 1) -> 1..MaxXid]
      BY <3>2, LenProperties
    <3>. QED BY <3>2, <3>3
  <2>. QED BY <1>4, <2>1, <2>4, <2>5 DEF UpsertVertex, TypeOK
<1>5. CASE UpsertRow(s)
  <2>1. XactsTypeOK'
    BY <1>5, HostTypes DEF UpsertRow
  <2>2. call[s].ext \in ExtIds /\ call[s].vid \in Vid
    BY <1>5 DEF UpsertRow, TypeOK, NoCall
  <2>3. xid[s] \in 1..MaxXid
    BY <1>2, <1>5, MapBoundsAssumption DEF UpsertRow, MapInv, CallsInv, CallInv, NoXid
  <2>4. rows' \subseteq Row
    BY <1>5, <2>2, <2>3 DEF UpsertRow, TypeOK, Row
  <2>. QED BY <1>5, <2>1, <2>2, <2>4 DEF UpsertRow, TypeOK
<1>6. CASE UpsertReread(s)
  <2>1. XactsTypeOK'
    BY <1>6, HostTypes DEF UpsertReread
  <2>2. call[s].ext \in ExtIds
    BY <1>6 DEF UpsertReread, TypeOK, NoCall
  <2>3. answers' \subseteq Answer
    BY <1>1, <1>2, <1>6, <2>2 DEF UpsertReread, Return, Answer, TypeOK
  <2>. QED BY <1>6, <2>1, <2>3 DEF UpsertReread, Return, NoCall, TypeOK
<1>. QED BY <1>3, <1>4, <1>5, <1>6

LEMMA OtherTypes ==
  ASSUME TypeOK, NEW s \in Sessions,
         \/ \E on \in BOOLEAN : SetIdentityCheck(s, on)
         \/ SetIdentityUpdate(s) \/ BuildCache(s) \/ FlushCache(s)
         \/ Commit(s) \/ Abort(s)
  PROVE  TypeOK'
<1>1. CASE \E on \in BOOLEAN : SetIdentityCheck(s, on)
  <2>1. XactsTypeOK'
    BY <1>1, HostTypes DEF SetIdentityCheck
  <2>. QED BY <1>1, <2>1 DEF SetIdentityCheck, TypeOK
<1>2. CASE SetIdentityUpdate(s)
  <2>1. XactsTypeOK'
    BY <1>2, HostTypes DEF SetIdentityUpdate
  <2>2. call[s].on \in BOOLEAN
    BY <1>2 DEF SetIdentityUpdate, TypeOK, NoCall
  <2>3. identity' \in [on : BOOLEAN, new : BOOLEAN, by : Sessions \cup {NoSession}]
    BY <1>2, <2>2 DEF SetIdentityUpdate, TypeOK
  <2>. QED BY <1>2, <2>1, <2>3 DEF SetIdentityUpdate, TypeOK, NoCall
<1>3. CASE BuildCache(s)
  <2>1. XactsTypeOK'
    BY <1>3, HostTypes DEF BuildCache
  <2>2. {[vid |-> r.vid, ext |-> r.ext] : r \in VisibleRows(s)}
          \subseteq [vid : Vid, ext : ExtIds]
    BY DEF VisibleRows, TypeOK, Row
  <2>. QED BY <1>3, <2>1, <2>2 DEF BuildCache, TypeOK
<1>4. CASE FlushCache(s)
  <2>1. XactsTypeOK'
    BY <1>4, HostTypes DEF FlushCache
  <2>. QED BY <1>4, <2>1 DEF FlushCache, TypeOK, NotBuilt
<1>5. CASE Commit(s)
  <2>1. XactsTypeOK'
    BY <1>5, HostTypes DEF Commit
  <2>2. /\ lock' \in Sessions \cup {NoSession}
        /\ identity' \in [on : BOOLEAN, new : BOOLEAN, by : Sessions \cup {NoSession}]
    BY <1>5 DEF Commit, TypeOK
  <2>. QED BY <1>5, <2>1, <2>2 DEF Commit, TypeOK
<1>6. CASE Abort(s)
  <2>1. XactsTypeOK'
    BY <1>6, HostTypes DEF Abort
  <2>2. /\ lock' \in Sessions \cup {NoSession}
        /\ identity' \in [on : BOOLEAN, new : BOOLEAN, by : Sessions \cup {NoSession}]
    BY <1>6 DEF Abort, TypeOK
  <2>. QED BY <1>6, <2>1, <2>2 DEF Abort, TypeOK, NoCall
<1>. QED BY <1>1, <1>2, <1>3, <1>4, <1>5, <1>6

LEMMA TypeInit == Init => TypeOK
<1>. SUFFICES ASSUME Init PROVE TypeOK
  OBVIOUS
<1>1. vertices \in [1..0 -> 1..MaxXid] /\ 0 \in 0..MaxVid
  BY MapBoundsAssumption DEF Init
<1>2. vertices \in UNION {[1..n -> 1..MaxXid] : n \in 0..MaxVid}
  BY <1>1
<1>3. XactsTypeOK
  BY MapBoundsAssumption DEF Init, XactsInit, XactsTypeOK, NoXid
<1>. QED BY <1>2, <1>3 DEF Init, TypeOK, NotBuilt

LEMMA TypeAlways == Spec => []TypeOK
<1>1. MapInv /\ TypeOK /\ [Next]_vars => TypeOK'
  <2>. SUFFICES ASSUME MapInv, TypeOK, [Next]_vars PROVE TypeOK'
    OBVIOUS
  <2>1. CASE UNCHANGED vars
    BY <2>1 DEF vars, xacts, mapVars, TypeOK, XactsTypeOK
  <2>2. CASE Next
    BY <2>2, CallTypes, OtherTypes DEF Next
  <2>. QED BY <2>1, <2>2
<1>. QED BY <1>1, TypeInit, MapAlways, PTL DEF Spec

-----------------------------------------------------------------------------
(* The theorems.                                                           *)

\* External ids are one-to-one with the vertices their callers were given. Calls
\* that raced for one agree: every call of a transaction that has not aborted
\* returned the one mapping that stands, and never NULL (gph_upsert_vertex). What
\* a session sees of gph_vid_map is one-to-one, and the mapped vertex is of the
\* transaction that mapped it: both are visible, or neither.
THEOREM MapStaysSound == Spec => []MapIsSound
<1>1. MapInv => AnswersAreTheMapping
  BY DEF MapInv, AnswersInv
<1>2. MapInv => MapOneToOne
  <2>. SUFFICES ASSUME MapInv, NEW s \in Sessions,
                       NEW q \in VisibleRows(s), NEW r \in VisibleRows(s)
                PROVE  /\ (q.ext = r.ext) <=> (q.vid = r.vid)
                       /\ r.vid < Len(vertices) /\ vertices[r.vid + 1] = r.xmin
    BY DEF MapOneToOne
  <2>1. q \in rows /\ r \in rows /\ ~Lost(q.xmin) /\ ~Lost(r.xmin)
    BY VisibleStands DEF VisibleRows, MapInv
  <2>. QED BY <2>1 DEF MapInv, RowsInv
<1>3. MapInv /\ TypeOK => MapIsSound
  BY <1>1, <1>2 DEF MapIsSound
<1>. QED BY <1>3, MapAlways, TypeAlways, PTL

\* A translation that gph_vid_cache holds is never wrong, also one cached from
\* a transaction that aborted since: a vid is not used twice.
THEOREM CacheNeverLies == Spec => []CacheNeverWrong
<1>1. MapInv => CacheNeverWrong
  BY DEF MapInv, CachesInv, RowsInv, CacheNeverWrong, VisibleRows
<1>. QED BY <1>1, MapAlways, PTL

-----------------------------------------------------------------------------
(* Agent memory.  Four tables change in three ways: a statement adds rows  *)
(* of its transaction, the end of a transaction makes them everybody's, or *)
(* takes them back.                                                        *)

Stored == {m.id : m \in Seen(NoServer, memories)}

\* A memory that is not stored yet is that of the request that inserted it. An
\* id has one row, an external id one mapping, and a stored memory its own.
IdsInv ==
  /\ \A q, r \in memories : q.id = r.id => q = r
  /\ \A q, r \in vidMap : q.ext = r.ext => q = r
  /\ \A m \in memories :
       m.by # Done => req[m.by].at \in {"upsert", "check"} /\ req[m.by].id = m.id
  /\ \A m \in memories :
       m.by = Done => \E r \in vidMap : r.ext = m.id /\ r.vid = m.id /\ r.by = Done

\* A store about to compare the vid with the id has both rows.
StoringInv ==
  \A s \in Servers :
    /\ req[s].at \in {"upsert", "check"} => [id |-> req[s].id, by |-> s] \in memories
    /\ req[s].at = "check" =>
         \E r \in vidMap : /\ r.ext = req[s].id /\ r.vid = req[s].vid
                           /\ r.by \in {Done, s}

\* A link's ends are stored from the check in connect on, and its type is there
\* for whoever sees the link.
LinksInv ==
  /\ \A e \in edges :
       /\ {e.src, e.dst} \subseteq Stored
       /\ \E t \in types : t.id = e.type /\ t.by \in {Done, e.by}
  /\ \A s \in Servers :
       /\ req[s].at \in {"type", "register", "edge"} =>
            {req[s].src, req[s].dst} \subseteq Stored
       /\ req[s].at = "edge" =>
            \E t \in types : t.id = req[s].type /\ t.by \in {Done, s}

CountsInv ==
  /\ IsFiniteSet(vidMap) /\ IsFiniteSet(types)
  /\ \A s \in Servers :
       req[s].at = "count" => req[s].n <= Cardinality(Seen(s, vidMap))

MemInv ==
  /\ MemTypeOK
  /\ IdsInv
  /\ StoringInv
  /\ LinksInv
  /\ CountsInv
  /\ told \subseteq Stored

-----------------------------------------------------------------------------
(* Numbers.                                                                *)

\* A set of numbers up to a bound has a greatest.
LEMMA Greatest ==
  ASSUME NEW S, S # {}, NEW b \in Nat, S \subseteq 0..b
  PROVE  \E m \in S : \A n \in S : n <= m
<1>. DEFINE Gaps == {b - n : n \in S}
<1>1. Gaps # {} /\ Gaps \subseteq Nat
  <2>1. \A n \in S : b - n \in Nat
    OBVIOUS
  <2>2. Gaps # {}
    BY Zenon
  <2>. QED BY <2>1, <2>2
<1>2. PICK g \in Gaps : \A h \in Gaps : <<h, g>> \notin OpToRel(<, Nat)
  BY <1>1, WFMin, NatLessThanWellFounded, Zenon
<1>3. \A h \in Gaps : ~(h < g)
  BY <1>1, <1>2, Zenon DEF OpToRel
<1>4. PICK m \in S : g = b - m
  BY <1>2
<1>5. ASSUME NEW n \in S
      PROVE  n <= m
  <2>1. b - n \in Gaps /\ m \in 0..b /\ n \in 0..b
    BY <1>4
  <2>2. ~(b - n < b - m)
    BY <2>1, <1>3, <1>4
  <2>. QED BY <2>1, <2>2
<1>. QED BY <1>4, <1>5

LEMMA NextIdType ==
  ASSUME MemTypeOK, NEW s \in Servers
  PROVE  NextId(s) \in Nat
<1>. DEFINE ids == {r.id : r \in Seen(s, memories)}
<1>1. CASE Seen(s, memories) = {}
  BY <1>1 DEF NextId
<1>2. CASE Seen(s, memories) # {}
  <2>1. ids # {} /\ ids \subseteq 0..MaxMemory /\ MaxMemory \in Nat
    BY <1>2, MemoryBoundsAssumption DEF MemTypeOK, Seen, MemoryId
  <2>2. \E m \in ids : \A n \in ids : n <= m
    BY <2>1, Greatest
  <2>3. \E m \in ids : \A r \in Seen(s, memories) : r.id <= m
    BY <2>2
  <2>. DEFINE last == CHOOSE m \in ids : \A r \in Seen(s, memories) : r.id <= m
  <2>4. last \in ids
    BY <2>3, Zenon
  <2>5. NextId(s) = 1 + last
    BY <1>2, Zenon DEF NextId
  <2>. HIDE DEF ids, last
  <2>6. last \in Nat
    BY <2>1, <2>4
  <2>. QED BY <2>5, <2>6
<1>. QED BY <1>1, <1>2

\* A later snapshot of a finite table that kept what was seen counts no less.
LEMMA CountGrows ==
  ASSUME NEW S, NEW T, IsFiniteSet(T), S \subseteq T
  PROVE  /\ Cardinality(S) \in Nat /\ Cardinality(T) \in Nat
         /\ Cardinality(S) <= Cardinality(T)
<1>1. IsFiniteSet(S) /\ Cardinality(S) <= Cardinality(T)
  BY FS_Subset
<1>. QED BY <1>1, FS_CardinalityType

-----------------------------------------------------------------------------
(* Transactions.                                                           *)

LEMMA StoredRow ==
  ASSUME NEW x
  PROVE  x \in Stored <=> \E m \in memories : m.by = Done /\ m.id = x
BY DEF Stored, Seen, Done

LEMMA DoneIsNoServer == Done \notin Servers /\ Done = NoServer
BY ServersAssumption DEF Done

\* What committing makes of one row.
Ended(s, r) == IF r.by = s THEN [r EXCEPT !.by = Done] ELSE r

LEMMA CommittedRows ==
  ASSUME NEW s, NEW table
  PROVE  Committed(s, table) = {Ended(s, r) : r \in table}
BY DEF Committed, Own, Ended

LEMMA CommittedFinite ==
  ASSUME NEW s, NEW table, IsFiniteSet(table)
  PROVE  IsFiniteSet(Committed(s, table))
<1>. DEFINE f == [r \in table |-> Ended(s, r)]
<1>1. f \in Surjection(table, Committed(s, table))
  BY CommittedRows DEF Surjection
<1>. QED BY <1>1, FS_Surjection

LEMMA Told ==
  ASSUME NEW s \in Servers, NEW r, MemTypeOK, Goto(s, r)
  PROVE  req'[s] = r /\ \A u \in Servers : u # s => req'[u] = req[u]
BY DEF Goto, MemTypeOK

\* A rollback takes the rows of one request back.
LEMMA AbortKeeps ==
  ASSUME MemInv, NEW s \in Servers, Aborts(s), UNCHANGED <<schema, nextVid, told>>,
         crashes' \in 0..MaxCrash
  PROVE  MemInv'
<1>1. /\ memories' = {m \in memories : m.by # s}
      /\ vidMap' = {r \in vidMap : r.by # s}
      /\ types' = {t \in types : t.by # s}
      /\ edges' = {e \in edges : e.by # s}
      /\ writerLock' \in {writerLock, NoServer}
  BY DEF Aborts, Own
<1>2. req' \in [Servers -> Requests] /\ req'[s].at = "idle"
  BY DEF Aborts, MemInv, MemTypeOK, Requests, Idle
<1>3. \A u \in Servers : u # s => req'[u] = req[u]
  BY DEF Aborts, MemInv, MemTypeOK
<1>4. s # Done /\ Done \notin Servers
  BY DoneIsNoServer
<1>5. \A m \in memories : m.by = Done => m \in memories'
  BY <1>1, <1>4
<1>6. \A x \in Stored : x \in Stored'
  BY <1>5 DEF Stored, Seen, Done
<1>7. MemTypeOK'
  BY <1>1, <1>2 DEF MemInv, MemTypeOK
<1>8. IdsInv'
  <2>1. \A m \in memories' :
          m.by # Done => req'[m.by].at \in {"upsert", "check"} /\ req'[m.by].id = m.id
    BY <1>1, <1>3 DEF MemInv, IdsInv, MemTypeOK, Holder
  <2>2. \A m \in memories' :
          m.by = Done => \E r \in vidMap' : r.ext = m.id /\ r.vid = m.id /\ r.by = Done
    BY <1>1, <1>4 DEF MemInv, IdsInv
  <2>. QED BY <1>1, <2>1, <2>2 DEF MemInv, IdsInv
<1>9. StoringInv'
  BY <1>1, <1>2, <1>3, <1>4 DEF MemInv, StoringInv
<1>10. LinksInv'
  <2>1. \A e \in edges' : \E t \in types' : t.id = e.type /\ t.by \in {Done, e.by}
    BY <1>1, <1>4 DEF MemInv, LinksInv
  <2>2. \A u \in Servers : req'[u].at = "edge" =>
          \E t \in types' : t.id = req'[u].type /\ t.by \in {Done, u}
    BY <1>1, <1>2, <1>3, <1>4 DEF MemInv, LinksInv
  <2>. QED BY <1>1, <1>2, <1>3, <1>6, <2>1, <2>2 DEF MemInv, LinksInv
<1>11. CountsInv'
  <2>1. IsFiniteSet(vidMap') /\ IsFiniteSet(types')
    BY <1>1, FS_Subset DEF MemInv, CountsInv
  <2>2. ASSUME NEW u \in Servers, req'[u].at = "count"
        PROVE  req'[u].n <= Cardinality(Seen(u, vidMap'))
    <3>1. u # s /\ req[u].at = "count" /\ req'[u] = req[u]
      BY <1>2, <1>3, <2>2
    <3>2. Seen(u, vidMap') = Seen(u, vidMap)
      BY <1>1, <1>4, <3>1 DEF Seen
    <3>. QED BY <3>1, <3>2 DEF MemInv, CountsInv
  <2>. QED BY <2>1, <2>2 DEF CountsInv, Seen
<1>. QED BY <1>6, <1>7, <1>8, <1>9, <1>10, <1>11 DEF MemInv

\* A commit makes a request's rows everybody's: those of a store with both rows,
\* of one number, and those of a connect, which has no memory of its own.
LEMMA CommitKeeps ==
  ASSUME MemInv, NEW s \in Servers, Commits(s), UNCHANGED <<schema, nextVid, crashes>>,
         \/ req[s].at = "check" /\ req[s].vid = req[s].id /\ told' = told \cup {req[s].id}
         \/ req[s].at = "commit" /\ told' = told
  PROVE  MemInv'
<1>1. /\ memories' = {Ended(s, m) : m \in memories}
      /\ vidMap' = {Ended(s, r) : r \in vidMap}
      /\ types' = {Ended(s, t) : t \in types}
      /\ edges' = {Ended(s, e) : e \in edges}
      /\ writerLock' \in {writerLock, NoServer}
  BY CommittedRows DEF Commits
<1>2. req' \in [Servers -> Requests] /\ req'[s].at = "idle"
  BY DEF Commits, MemInv, MemTypeOK, Requests, Idle
<1>3. \A u \in Servers : u # s => req'[u] = req[u]
  BY DEF Commits, MemInv, MemTypeOK
<1>4. s # Done /\ Done \notin Servers
  BY DoneIsNoServer
<1>5. \A m \in memories : /\ Ended(s, m).id = m.id /\ Ended(s, m) \in [id : MemoryId, by : Holder]
                          /\ Ended(s, m).by = IF m.by = s THEN Done ELSE m.by
  BY DEF Ended, MemInv, MemTypeOK, Holder
<1>6. \A r \in vidMap : /\ Ended(s, r).ext = r.ext /\ Ended(s, r).vid = r.vid
                        /\ Ended(s, r) \in [ext : MemoryId, vid : 0..MaxVids, by : Holder]
                        /\ Ended(s, r).by = IF r.by = s THEN Done ELSE r.by
  BY DEF Ended, MemInv, MemTypeOK, Holder
<1>7. \A t \in types : /\ Ended(s, t).id = t.id /\ Ended(s, t) \in EdgeType
                       /\ Ended(s, t).by = IF t.by = s THEN Done ELSE t.by
  BY DEF Ended, MemInv, MemTypeOK, Holder, EdgeType
<1>8. \A e \in edges : /\ Ended(s, e).src = e.src /\ Ended(s, e).dst = e.dst
                       /\ Ended(s, e).type = e.type /\ Ended(s, e) \in Edge
                       /\ Ended(s, e).by = IF e.by = s THEN Done ELSE e.by
  BY DEF Ended, MemInv, MemTypeOK, Holder, Edge
<1>9. \A x \in Stored : x \in Stored'
  BY <1>1, <1>4, <1>5 DEF Stored, Seen, Done
<1>10. MemTypeOK'
  <2>1. /\ memories' \subseteq [id : MemoryId, by : Holder]
        /\ vidMap' \subseteq [ext : MemoryId, vid : 0..MaxVids, by : Holder]
        /\ types' \subseteq EdgeType /\ edges' \subseteq Edge
    BY <1>1, <1>5, <1>6, <1>7, <1>8
  <2>2. told' \subseteq MemoryId
    BY DEF MemInv, MemTypeOK, Requests
  <2>. QED BY <1>1, <1>2, <2>1, <2>2 DEF MemInv, MemTypeOK
<1>11. IdsInv'
  <2>1. \A q, r \in memories' : q.id = r.id => q = r
    BY <1>1, <1>5 DEF MemInv, IdsInv
  <2>2. \A q, r \in vidMap' : q.ext = r.ext => q = r
    BY <1>1, <1>6 DEF MemInv, IdsInv
  <2>3. ASSUME NEW m \in memories', m.by # Done
        PROVE  req'[m.by].at \in {"upsert", "check"} /\ req'[m.by].id = m.id
    <3>1. PICK q \in memories : m = Ended(s, q)
      BY <1>1
    <3>2. q.by = m.by /\ q.by # s /\ q.id = m.id /\ q.by \in Servers
      BY <1>5, <2>3, <3>1 DEF MemInv, MemTypeOK, Holder
    <3>. QED BY <1>3, <3>2, <2>3 DEF MemInv, IdsInv
  <2>4. ASSUME NEW m \in memories', m.by = Done
        PROVE  \E r \in vidMap' : r.ext = m.id /\ r.vid = m.id /\ r.by = Done
    <3>1. PICK q \in memories : m = Ended(s, q)
      BY <1>1
    <3>2. q.id = m.id /\ q.by \in {Done, s}
      BY <1>5, <2>4, <3>1
    <3>3. \E r \in vidMap : r.ext = q.id /\ r.vid = q.id /\ r.by \in {Done, s}
      <4>1. CASE q.by = Done
        BY <4>1 DEF MemInv, IdsInv
      <4>2. CASE q.by = s
        <5>1. req[s].at = "check" /\ req[s].id = q.id /\ req[s].vid = q.id
          BY <1>4, <4>2 DEF MemInv, IdsInv
        <5>. QED BY <5>1 DEF MemInv, StoringInv
      <4>. QED BY <3>2, <4>1, <4>2
    <3>4. PICK r \in vidMap : r.ext = q.id /\ r.vid = q.id /\ r.by \in {Done, s}
      BY <3>3
    <3>5. Ended(s, r) \in vidMap'
      BY <1>1
    <3>. QED BY <1>6, <3>2, <3>4, <3>5
  <2>. QED BY <2>1, <2>2, <2>3, <2>4 DEF IdsInv
<1>12. StoringInv'
  <2>. SUFFICES ASSUME NEW u \in Servers, u # s
                PROVE  /\ req[u].at \in {"upsert", "check"} =>
                            [id |-> req[u].id, by |-> u] \in memories'
                       /\ req[u].at = "check" =>
                            \E r \in vidMap' : /\ r.ext = req[u].id /\ r.vid = req[u].vid
                                              /\ r.by \in {Done, u}
    BY <1>2, <1>3 DEF StoringInv
  <2>1. \A m \in memories : m.by # s => m \in memories'
    BY <1>1 DEF Ended
  <2>2. ASSUME req[u].at = "check"
        PROVE  \E r \in vidMap' : /\ r.ext = req[u].id /\ r.vid = req[u].vid
                                  /\ r.by \in {Done, u}
    <3>1. PICK r \in vidMap : /\ r.ext = req[u].id /\ r.vid = req[u].vid
                             /\ r.by \in {Done, u}
      BY <2>2 DEF MemInv, StoringInv
    <3>2. r \in vidMap'
      BY <1>1, <1>4, <3>1 DEF Ended
    <3>. QED BY <3>1, <3>2
  <2>. QED BY <2>1, <2>2 DEF MemInv, StoringInv
<1>13. LinksInv'
  <2>1. ASSUME NEW e \in edges'
        PROVE  /\ {e.src, e.dst} \subseteq Stored'
               /\ \E t \in types' : t.id = e.type /\ t.by \in {Done, e.by}
    <3>1. PICK f \in edges : e = Ended(s, f)
      BY <1>1
    <3>2. PICK t \in types : t.id = f.type /\ t.by \in {Done, f.by}
      BY DEF MemInv, LinksInv
    <3>3. /\ Ended(s, t) \in types' /\ Ended(s, t).id = e.type
          /\ Ended(s, t).by \in {Done, e.by}
      BY <1>1, <1>4, <1>7, <1>8, <3>1, <3>2
    <3>4. {e.src, e.dst} \subseteq Stored'
      BY <1>8, <1>9, <3>1 DEF MemInv, LinksInv
    <3>. QED BY <3>3, <3>4
  <2>2. ASSUME NEW u \in Servers, req'[u].at = "edge"
        PROVE  \E t \in types' : t.id = req'[u].type /\ t.by \in {Done, u}
    <3>1. u # s /\ req'[u] = req[u]
      BY <1>2, <1>3, <2>2
    <3>2. PICK t \in types : t.id = req[u].type /\ t.by \in {Done, u}
      BY <2>2, <3>1 DEF MemInv, LinksInv
    <3>3. t \in types'
      BY <1>1, <1>4, <3>1, <3>2 DEF Ended
    <3>. QED BY <3>1, <3>2, <3>3
  <2>3. ASSUME NEW u \in Servers, req'[u].at \in {"type", "register", "edge"}
        PROVE  {req'[u].src, req'[u].dst} \subseteq Stored'
    BY <1>2, <1>3, <1>9, <2>3 DEF MemInv, LinksInv
  <2>. QED BY <2>1, <2>2, <2>3 DEF LinksInv
<1>14. CountsInv'
  <2>1. IsFiniteSet(vidMap') /\ IsFiniteSet(types')
    BY CommittedFinite DEF MemInv, CountsInv, Commits
  <2>2. ASSUME NEW u \in Servers, req'[u].at = "count"
        PROVE  req'[u].n <= Cardinality(Seen(u, vidMap'))
    <3>1. u # s /\ req[u].at = "count" /\ req'[u] = req[u]
      BY <1>2, <1>3, <2>2
    <3>2. Seen(u, vidMap) \subseteq Seen(u, vidMap')
      BY <1>1, <1>4, <3>1 DEF Seen, Ended
    <3>3. IsFiniteSet(Seen(u, vidMap'))
      BY <2>1, FS_Subset DEF Seen
    <3>4. req[u].n <= Cardinality(Seen(u, vidMap)) /\ req[u].n \in Nat
      BY <3>1 DEF MemInv, CountsInv, MemTypeOK, Requests
    <3>. QED BY <3>1, <3>2, <3>3, <3>4, CountGrows
  <2>. QED BY <2>1, <2>2 DEF CountsInv, Seen
<1>15. told' \subseteq Stored'
  <2>1. req[s].at = "check" => req[s].id \in Stored'
    <3>. SUFFICES ASSUME req[s].at = "check" PROVE req[s].id \in Stored'
      OBVIOUS
    <3>1. [id |-> req[s].id, by |-> s] \in memories
      BY DEF MemInv, StoringInv
    <3>2. PICK m \in memories : m.id = req[s].id /\ m.by = s
      BY <3>1
    <3>3. Ended(s, m) \in memories' /\ Ended(s, m).id = req[s].id /\ Ended(s, m).by = Done
      BY <1>1, <1>5, <3>2
    <3>. QED BY <3>3 DEF Stored, Seen, Done
  <2>. QED BY <1>9, <2>1 DEF MemInv
<1>. QED BY <1>10, <1>11, <1>12, <1>13, <1>14, <1>15 DEF MemInv

-----------------------------------------------------------------------------
(* Statements.                                                             *)

\* A statement that reads, or creates the tables.
LEMMA ReadKeeps ==
  ASSUME MemInv, NEW s \in Servers, NEW r \in Requests, Goto(s, r),
         schema' \in {NoTable} \cup {Dim[u] : u \in Servers},
         UNCHANGED <<memories, vidMap, nextVid, writerLock, types, edges, crashes>>,
         told' \subseteq told \cup Stored,
         req[s].at \notin {"upsert", "check"}, r.at \notin {"upsert", "check"},
         r.at \in {"type", "register", "edge"} => {r.src, r.dst} \subseteq Stored,
         r.at = "edge" => \E t \in types : t.id = r.type /\ t.by \in {Done, s},
         r.at = "count" => r.n <= Cardinality(Seen(s, vidMap))
  PROVE  MemInv'
<1>1. req'[s] = r /\ \A u \in Servers : u # s => req'[u] = req[u]
  BY Told DEF MemInv
<1>2. Stored' = Stored /\ Stored \subseteq MemoryId
  BY DEF Stored, Seen, MemInv, MemTypeOK
<1>3. MemTypeOK'
  <2>1. req' \in [Servers -> Requests]
    BY DEF Goto, MemInv, MemTypeOK
  <2>2. told' \subseteq MemoryId
    BY <1>2 DEF MemInv, MemTypeOK
  <2>. QED BY <2>1, <2>2 DEF MemInv, MemTypeOK
<1>4. IdsInv'
  <2>1. ASSUME NEW m \in memories, m.by # Done
        PROVE  req'[m.by].at \in {"upsert", "check"} /\ req'[m.by].id = m.id
    <3>1. m.by \in Servers /\ m.by # s
      BY <2>1 DEF MemInv, MemTypeOK, Holder, IdsInv
    <3>. QED BY <1>1, <2>1, <3>1 DEF MemInv, IdsInv
  <2>. QED BY <2>1 DEF MemInv, IdsInv
<1>5. StoringInv'
  BY <1>1 DEF MemInv, StoringInv
<1>6. LinksInv'
  BY <1>1, <1>2 DEF MemInv, LinksInv
<1>7. CountsInv'
  BY <1>1 DEF MemInv, CountsInv, Seen
<1>. QED BY <1>2, <1>3, <1>4, <1>5, <1>6, <1>7 DEF MemInv

\* A server that is not storing has no memory of its own.
LEMMA SeenIsStored ==
  ASSUME MemInv, NEW s \in Servers, req[s].at \notin {"upsert", "check"}
  PROVE  Ids(s) = Stored
<1>1. \A m \in memories : m.by # s
  BY DoneIsNoServer DEF MemInv, IdsInv
<1>. QED BY <1>1, DoneIsNoServer DEF Ids, Stored, Seen

\* Every memory that is seen has its vertex: no count shows more of the former.
LEMMA CountedAreMapped ==
  ASSUME MemInv, NEW s \in Servers, req[s].at \notin {"upsert", "check"}
  PROVE  /\ Cardinality(Ids(s)) \in Nat
         /\ Cardinality(Ids(s)) <= Cardinality(Seen(s, vidMap))
<1>. DEFINE mapped == {r \in Seen(s, vidMap) : r.ext \in Ids(s)}
            ext == [r \in mapped |-> r.ext]
<1>1. IsFiniteSet(Seen(s, vidMap))
  BY FS_Subset DEF Seen, MemInv, CountsInv
<1>2. IsFiniteSet(mapped) /\ Cardinality(mapped) <= Cardinality(Seen(s, vidMap))
  BY <1>1, FS_Subset
<1>3. ASSUME NEW x \in Ids(s)
      PROVE  \E r \in mapped : ext[r] = x
  <2>1. PICK m \in memories : m.by = Done /\ m.id = x
    BY <1>3, SeenIsStored, StoredRow
  <2>2. PICK r \in vidMap : r.ext = x /\ r.by = Done
    BY <2>1 DEF MemInv, IdsInv
  <2>3. r \in mapped
    BY <2>2 DEF Seen
  <2>. QED BY <2>2, <2>3
<1>4. ext \in Surjection(mapped, Ids(s))
  BY <1>3 DEF Surjection
<1>. HIDE DEF mapped, ext
<1>5. IsFiniteSet(Ids(s)) /\ Cardinality(Ids(s)) <= Cardinality(mapped)
  BY <1>2, <1>4, FS_Surjection
<1>6. /\ Cardinality(Ids(s)) \in Nat /\ Cardinality(mapped) \in Nat
      /\ Cardinality(Seen(s, vidMap)) \in Nat
  BY <1>1, <1>2, <1>5, FS_CardinalityType
<1>. QED BY <1>2, <1>5, <1>6

LEMMA InsertKeeps ==
  ASSUME MemInv, NEW s \in Servers, StoreInsert(s)
  PROVE  MemInv'
<1>. DEFINE id == req[s].id
            row == [id |-> id, by |-> s]
<1>1. CASE ~(Holders(memories, "id", id) = {} /\ schema = Dim[s])
  BY <1>1, AbortKeeps DEF StoreInsert, MemInv, MemTypeOK
<1>2. CASE Holders(memories, "id", id) = {} /\ schema = Dim[s]
  <2>1. /\ req[s].at = "insert"
        /\ memories' = memories \cup {row}
        /\ Goto(s, [at |-> "upsert", id |-> id])
        /\ UNCHANGED <<schema, vidMap, nextVid, writerLock, types, edges, told, crashes>>
    BY <1>2 DEF StoreInsert
  <2>2. /\ req'[s] = [at |-> "upsert", id |-> id]
        /\ \A u \in Servers : u # s => req'[u] = req[u]
    BY <2>1, Told DEF MemInv
  <2>3. id \in MemoryId /\ s # Done /\ \A m \in memories : m.id # id
    BY <1>2, <2>1, DoneIsNoServer DEF MemInv, MemTypeOK, Requests, Holders
  <2>4. Stored' = Stored
    BY <2>1, <2>3, DoneIsNoServer DEF Stored, Seen
  <2>5. MemTypeOK'
    <3>1. [at |-> "upsert", id |-> id] \in Requests
      BY <2>3 DEF Requests
    <3>. QED BY <2>1, <2>3, <3>1 DEF MemInv, MemTypeOK, Goto, Holder
  <2>6. IdsInv'
    <3>1. \A q, r \in memories' : q.id = r.id => q = r
      BY <2>1, <2>3 DEF MemInv, IdsInv
    <3>2. ASSUME NEW m \in memories, m.by # Done
          PROVE  req'[m.by].at \in {"upsert", "check"} /\ req'[m.by].id = m.id
      <4>1. m.by \in Servers /\ m.by # s
        BY <2>1, <3>2 DEF MemInv, MemTypeOK, Holder, IdsInv
      <4>. QED BY <2>2, <3>2, <4>1 DEF MemInv, IdsInv
    <3>3. \A m \in memories' : m.by # Done =>
            req'[m.by].at \in {"upsert", "check"} /\ req'[m.by].id = m.id
      BY <2>1, <2>2, <3>2
    <3>. QED BY <2>1, <2>3, <3>1, <3>3 DEF MemInv, IdsInv
  <2>7. StoringInv'
    BY <2>1, <2>2 DEF MemInv, StoringInv
  <2>8. LinksInv'
    BY <2>1, <2>2, <2>4 DEF MemInv, LinksInv
  <2>9. CountsInv'
    BY <2>1, <2>2 DEF MemInv, CountsInv, Seen
  <2>. QED BY <2>1, <2>4, <2>5, <2>6, <2>7, <2>8, <2>9 DEF MemInv
<1>. QED BY <1>1, <1>2

LEMMA UpsertKeeps ==
  ASSUME MemInv, NEW s \in Servers, StoreUpsert(s)
  PROVE  MemInv'
<1>. DEFINE id == req[s].id
            mapped == {r.vid : r \in Holders(Seen(s, vidMap), "ext", id)}
<1>1. /\ req[s].at = "upsert" /\ id \in MemoryId
      /\ UNCHANGED <<schema, memories, types, edges, told, crashes>>
      /\ s # Done
  BY DoneIsNoServer DEF StoreUpsert, MemInv, MemTypeOK, Requests
<1>2. PICK vid \in 0..MaxVids :
        /\ Goto(s, [at |-> "check", id |-> id, vid |-> vid])
        /\ \/ /\ vidMap' = vidMap
              /\ \E r \in vidMap : r.ext = id /\ r.vid = vid /\ r.by \in {Done, s}
           \/ /\ vidMap' = vidMap \cup {[ext |-> id, vid |-> vid, by |-> s]}
              /\ \A r \in vidMap : r.ext # id
  <2>1. CASE mapped = {}
    <3>1. /\ Holders(vidMap, "ext", id) = {}
          /\ vidMap' = vidMap \cup {[ext |-> id, vid |-> nextVid, by |-> s]}
          /\ Goto(s, [at |-> "check", id |-> id, vid |-> nextVid])
      BY <2>1 DEF StoreUpsert
    <3>. QED BY <3>1 DEF Holders, MemInv, MemTypeOK
  <2>2. CASE mapped # {}
    <3>1. PICK vid \in mapped : /\ vidMap' = vidMap
                                /\ Goto(s, [at |-> "check", id |-> id, vid |-> vid])
      BY <2>2 DEF StoreUpsert
    <3>2. PICK r \in vidMap : r.ext = id /\ r.vid = vid /\ r.by \in {Done, s}
      BY DEF Holders, Seen
    <3>. QED BY <3>1, <3>2 DEF MemInv, MemTypeOK
  <2>. QED BY <2>1, <2>2
<1>3. /\ req'[s] = [at |-> "check", id |-> id, vid |-> vid]
      /\ \A u \in Servers : u # s => req'[u] = req[u]
  BY <1>2, Told DEF MemInv
<1>4. /\ vidMap \subseteq vidMap'
      /\ \E r \in vidMap' : r.ext = id /\ r.vid = vid /\ r.by \in {Done, s}
  <2>. DEFINE row == [ext |-> id, vid |-> vid, by |-> s]
  <2>1. row.ext = id /\ row.vid = vid /\ row.by = s
    OBVIOUS
  <2>. HIDE DEF row
  <2>. QED BY <1>2, <2>1 DEF row
<1>5. Stored' = Stored
  BY <1>1 DEF Stored, Seen
<1>6. MemTypeOK'
  <2>1. [at |-> "check", id |-> id, vid |-> vid] \in Requests
    BY <1>1 DEF Requests
  <2>2. req' \in [Servers -> Requests]
    BY <1>2, <2>1 DEF Goto, MemInv, MemTypeOK
  <2>3. vidMap' \subseteq [ext : MemoryId, vid : 0..MaxVids, by : Holder]
    BY <1>1, <1>2 DEF MemInv, MemTypeOK, Holder
  <2>4. /\ writerLock' \in {writerLock, s}
        /\ nextVid' = nextVid \/ (nextVid < MaxVids /\ nextVid' = nextVid + 1)
    BY DEF StoreUpsert
  <2>5. nextVid' \in 0..MaxVids
    BY <2>4, MemoryBoundsAssumption DEF MemInv, MemTypeOK
  <2>. QED BY <1>1, <2>2, <2>3, <2>4, <2>5 DEF MemInv, MemTypeOK
<1>7. IdsInv'
  <2>1. \A q, r \in vidMap' : q.ext = r.ext => q = r
    BY <1>2 DEF MemInv, IdsInv
  <2>2. ASSUME NEW m \in memories, m.by # Done
        PROVE  req'[m.by].at \in {"upsert", "check"} /\ req'[m.by].id = m.id
    <3>1. m.by \in Servers
      BY <2>2 DEF MemInv, MemTypeOK, Holder
    <3>. QED BY <1>3, <2>2, <3>1 DEF MemInv, IdsInv
  <2>. QED BY <1>1, <1>4, <2>1, <2>2 DEF MemInv, IdsInv
<1>8. StoringInv'
  BY <1>1, <1>3, <1>4 DEF MemInv, StoringInv
<1>9. LinksInv'
  BY <1>1, <1>3, <1>5 DEF MemInv, LinksInv
<1>10. CountsInv'
  <2>1. IsFiniteSet(vidMap')
    BY <1>2, FS_AddElement DEF MemInv, CountsInv
  <2>2. ASSUME NEW u \in Servers, req'[u].at = "count"
        PROVE  req'[u].n <= Cardinality(Seen(u, vidMap'))
    <3>1. u # s /\ req[u].at = "count" /\ req'[u] = req[u]
      BY <1>3, <2>2
    <3>2. Seen(u, vidMap) \subseteq Seen(u, vidMap')
      BY <1>4 DEF Seen
    <3>3. IsFiniteSet(Seen(u, vidMap'))
      BY <2>1, FS_Subset DEF Seen
    <3>4. req[u].n <= Cardinality(Seen(u, vidMap)) /\ req[u].n \in Nat
      BY <3>1 DEF MemInv, CountsInv, MemTypeOK, Requests
    <3>. QED BY <3>1, <3>2, <3>3, <3>4, CountGrows
  <2>. QED BY <1>1, <2>1, <2>2 DEF CountsInv, Seen, MemInv
<1>. QED BY <1>1, <1>5, <1>6, <1>7, <1>8, <1>9, <1>10 DEF MemInv

\* A link or a type of its own that a connect adds.
LEMMA LinkKeeps ==
  ASSUME MemInv, NEW s \in Servers, NEW r \in Requests, Goto(s, r),
         req[s].at \in {"register", "edge"}, r.at \in {"edge", "commit"},
         UNCHANGED <<schema, memories, vidMap, nextVid, told, crashes>>,
         writerLock' \in {writerLock, s},
         types \subseteq types', types' \subseteq EdgeType, IsFiniteSet(types'),
         edges' \subseteq Edge,
         \A e \in edges' \ edges :
           /\ {e.src, e.dst} \subseteq Stored
           /\ \E t \in types' : t.id = e.type /\ t.by \in {Done, e.by},
         r.at = "edge" => /\ {r.src, r.dst} \subseteq Stored
                          /\ \E t \in types' : t.id = r.type /\ t.by \in {Done, s}
  PROVE  MemInv'
<1>1. req'[s] = r /\ \A u \in Servers : u # s => req'[u] = req[u]
  BY Told DEF MemInv
<1>2. Stored' = Stored
  BY DEF Stored, Seen
<1>3. MemTypeOK'
  BY DEF Goto, MemInv, MemTypeOK
<1>4. IdsInv'
  <2>1. ASSUME NEW m \in memories, m.by # Done
        PROVE  req'[m.by].at \in {"upsert", "check"} /\ req'[m.by].id = m.id
    <3>1. m.by \in Servers /\ m.by # s
      BY <2>1 DEF MemInv, MemTypeOK, Holder, IdsInv
    <3>. QED BY <1>1, <2>1, <3>1 DEF MemInv, IdsInv
  <2>. QED BY <2>1 DEF MemInv, IdsInv
<1>5. StoringInv'
  BY <1>1 DEF MemInv, StoringInv
<1>6. LinksInv'
  <2>1. ASSUME NEW e \in edges'
        PROVE  /\ {e.src, e.dst} \subseteq Stored
               /\ \E t \in types' : t.id = e.type /\ t.by \in {Done, e.by}
    BY DEF MemInv, LinksInv
  <2>2. ASSUME NEW u \in Servers
        PROVE  /\ req'[u].at \in {"type", "register", "edge"} =>
                    {req'[u].src, req'[u].dst} \subseteq Stored
               /\ req'[u].at = "edge" =>
                    \E t \in types' : t.id = req'[u].type /\ t.by \in {Done, u}
    BY <1>1 DEF MemInv, LinksInv
  <2>. QED BY <1>2, <2>1, <2>2 DEF LinksInv
<1>7. CountsInv'
  BY <1>1 DEF MemInv, CountsInv, Seen
<1>. QED BY <1>2, <1>3, <1>4, <1>5, <1>6, <1>7 DEF MemInv

LEMMA RegisterKeeps ==
  ASSUME MemInv, NEW s \in Servers, ConnectRegister(s)
  PROVE  MemInv'
<1>. DEFINE r == req[s]
            taken(key, k) == Holders(types, key, k)
            next(type) == [at |-> "edge", src |-> r.src, dst |-> r.dst, type |-> type]
<1>1. /\ r.at = "register" /\ r.src \in MemoryId /\ r.dst \in MemoryId
      /\ r.rel \in Rels /\ r.type \in Nat /\ {r.src, r.dst} \subseteq Stored
      /\ UNCHANGED <<schema, nextVid, told, crashes>>
  BY DEF ConnectRegister, MemInv, MemTypeOK, Requests, LinksInv
<1>2. ASSUME NEW t \in types, t.by = Done, Goto(s, next(t.id)),
             UNCHANGED <<memories, vidMap, writerLock, types, edges>>
      PROVE  MemInv'
  <2>1. next(t.id) \in Requests
    BY <1>1 DEF MemInv, MemTypeOK, Requests, EdgeType
  <2>. QED BY <1>1, <1>2, <2>1, ReadKeeps DEF MemInv, MemTypeOK
<1>3. ASSUME Aborts(s)
      PROVE  MemInv'
  BY <1>1, <1>3, AbortKeeps DEF MemInv, MemTypeOK
<1>4. ASSUME types' = types \cup {[name |-> r.rel, id |-> r.type, by |-> s]},
             Goto(s, next(r.type)),
             UNCHANGED <<memories, vidMap, writerLock, edges>>
      PROVE  MemInv'
  <2>1. next(r.type) \in Requests
    BY <1>1 DEF Requests
  <2>2. types' \subseteq EdgeType /\ edges' \subseteq Edge
    BY <1>1, <1>4 DEF MemInv, MemTypeOK, EdgeType, Holder
  <2>3. IsFiniteSet(types')
    BY <1>4, FS_AddElement DEF MemInv, CountsInv
  <2>. DEFINE row == [name |-> r.rel, id |-> r.type, by |-> s]
  <2>4. row \in types' /\ row.id = r.type /\ row.by = s
    BY <1>4
  <2>. HIDE DEF r, row
  <2>. QED BY <1>1, <1>4, <2>1, <2>2, <2>3, <2>4, LinkKeeps DEF r
<1>5. \/ \E t \in types : /\ t.by = Done /\ Goto(s, next(t.id))
                          /\ UNCHANGED <<memories, vidMap, writerLock, types, edges>>
      \/ Aborts(s)
      \/ /\ types' = types \cup {[name |-> r.rel, id |-> r.type, by |-> s]}
         /\ Goto(s, next(r.type))
         /\ UNCHANGED <<memories, vidMap, writerLock, edges>>
  BY DEF ConnectRegister, Holders
<1>. QED BY <1>2, <1>3, <1>4, <1>5

LEMMA EdgeKeeps ==
  ASSUME MemInv, NEW s \in Servers, ConnectEdge(s)
  PROVE  MemInv'
<1>. DEFINE r == req[s]
            link == [src |-> r.src, dst |-> r.dst, type |-> r.type, by |-> s]
<1>1. /\ r.at = "edge" /\ r.src \in MemoryId /\ r.dst \in MemoryId /\ r.type \in Nat
      /\ {r.src, r.dst} \subseteq Stored
      /\ \E t \in types : t.id = r.type /\ t.by \in {Done, s}
      /\ UNCHANGED <<schema, nextVid, told, crashes>>
  BY DEF ConnectEdge, MemInv, MemTypeOK, Requests, LinksInv
<1>2. CASE Aborts(s)
  BY <1>1, <1>2, AbortKeeps DEF MemInv, MemTypeOK
<1>3. CASE /\ writerLock' = s
           /\ edges' = edges \cup {link}
           /\ Goto(s, [at |-> "commit"])
           /\ UNCHANGED <<memories, vidMap, types>>
  <2>1. [at |-> "commit"] \in Requests
    BY DEF Requests
  <2>2. types' \subseteq EdgeType /\ edges' \subseteq Edge /\ IsFiniteSet(types')
    BY <1>1, <1>3 DEF MemInv, MemTypeOK, Edge, Holder, CountsInv
  <2>3. \A e \in edges' \ edges :
          /\ {e.src, e.dst} \subseteq Stored
          /\ \E t \in types' : t.id = e.type /\ t.by \in {Done, e.by}
    BY <1>1, <1>3
  <2>. QED BY <1>1, <1>3, <2>1, <2>2, <2>3, LinkKeeps
<1>. QED BY <1>2, <1>3 DEF ConnectEdge

\* The statements that change no table's rows, for which ReadKeeps is enough.
LEMMA ReadsKeep ==
  ASSUME MemInv, NEW s \in Servers,
         \/ InitCheck(s) \/ InitCreate(s)
         \/ \E i \in Inputs : StoreStart(s, i) \/ Recall(s, i)
         \/ \E a, b \in MemoryId, rel \in Rels : ConnectStart(s, a, b, rel)
         \/ ConnectType(s)
         \/ \E a \in MemoryId, rel \in Rels : NeighborsType(s, a, rel)
         \/ NeighborsWalk(s) \/ NeighborsDetails(s)
         \/ Stats(s) \/ StatsVertices(s)
  PROVE  MemInv'
<1>. DEFINE tables == <<memories, vidMap, nextVid, writerLock, types, edges, crashes>>
<1>1. MemTypeOK
  BY DEF MemInv
<1>2. Idle \in Requests /\ Idle.at = "idle"
  BY DEF Idle, Requests
<1>3. Ids(s) \subseteq MemoryId
  BY <1>1 DEF Ids, Seen, MemTypeOK
<1>4. CASE InitCheck(s)
  <2>1. [at |-> "create"] \in Requests
    BY DEF Requests
  <2>. QED BY <1>1, <1>2, <1>4, <2>1, ReadKeeps DEF InitCheck, MemTypeOK
<1>5. CASE InitCreate(s)
  BY <1>1, <1>2, <1>5, ReadKeeps DEF InitCreate, MemTypeOK
<1>6. ASSUME NEW i \in Inputs, StoreStart(s, i)
      PROVE  MemInv'
  <2>1. NextId(s) \in MemoryId
    BY <1>1, <1>6, NextIdType, MemoryBoundsAssumption DEF StoreStart, MemoryId
  <2>2. [at |-> "insert", id |-> NextId(s)] \in Requests
    BY <2>1 DEF Requests
  <2>. QED BY <1>1, <1>2, <1>6, <2>2, ReadKeeps DEF StoreStart, MemTypeOK
<1>7. ASSUME NEW i \in Inputs, Recall(s, i)
      PROVE  MemInv'
  <2>1. told' \subseteq told \cup Stored
    BY <1>2, <1>7, SeenIsStored DEF Recall, Tell
  <2>. QED BY <1>1, <1>2, <1>7, <2>1, ReadKeeps DEF Recall, Tell, MemTypeOK
<1>8. ASSUME NEW a \in MemoryId, NEW b \in MemoryId, NEW rel \in Rels,
             ConnectStart(s, a, b, rel)
      PROVE  MemInv'
  <2>1. [at |-> "type", src |-> a, dst |-> b, rel |-> rel] \in Requests
    BY DEF Requests
  <2>2. {a, b} \subseteq Stored
    BY <1>2, <1>8, SeenIsStored DEF ConnectStart, Known
  <2>. QED BY <1>1, <1>2, <1>8, <2>1, <2>2, ReadKeeps DEF ConnectStart, MemTypeOK
<1>9. CASE ConnectType(s)
  <2>. DEFINE r == req[s]
              known == Holders(Seen(s, types), "name", r.rel)
  <2>1. /\ r.at = "type" /\ r.src \in MemoryId /\ r.dst \in MemoryId /\ r.rel \in Rels
        /\ {r.src, r.dst} \subseteq Stored
        /\ UNCHANGED <<schema, told, tables>>
    BY <1>1, <1>9 DEF ConnectType, MemInv, MemTypeOK, Requests, LinksInv
  <2>2. ASSUME NEW t \in known,
               Goto(s, [at |-> "edge", src |-> r.src, dst |-> r.dst, type |-> t.id])
        PROVE  MemInv'
    <3>1. t \in types /\ t.by \in {Done, s} /\ t.id \in Nat
      BY <1>1 DEF Holders, Seen, MemTypeOK, EdgeType
    <3>2. [at |-> "edge", src |-> r.src, dst |-> r.dst, type |-> t.id] \in Requests
      BY <2>1, <3>1 DEF Requests
    <3>. QED BY <1>1, <2>1, <2>2, <3>1, <3>2, ReadKeeps DEF MemTypeOK
  <2>3. ASSUME Goto(s, [at |-> "register", src |-> r.src, dst |-> r.dst,
                        rel |-> r.rel, type |-> 1 + Cardinality(Seen(s, types))])
        PROVE  MemInv'
    <3>1. 1 + Cardinality(Seen(s, types)) \in Nat
      BY CountGrows DEF Seen, MemInv, CountsInv
    <3>2. [at |-> "register", src |-> r.src, dst |-> r.dst, rel |-> r.rel,
           type |-> 1 + Cardinality(Seen(s, types))] \in Requests
      BY <2>1, <3>1 DEF Requests
    <3>. QED BY <1>1, <2>1, <2>3, <3>2, ReadKeeps DEF MemTypeOK
  <2>. QED BY <1>9, <2>2, <2>3 DEF ConnectType
<1>10. ASSUME NEW a \in MemoryId, NEW rel \in Rels, NeighborsType(s, a, rel)
       PROVE  MemInv'
  <2>1. PICK t \in {u.id : u \in Holders(Seen(s, types), "name", rel)} \cup {AnyType} :
          Goto(s, [at |-> "walk", id |-> a, type |-> t])
    BY <1>10 DEF NeighborsType
  <2>2. t \in Nat
    BY <1>1 DEF Holders, Seen, MemTypeOK, EdgeType, AnyType
  <2>3. [at |-> "walk", id |-> a, type |-> t] \in Requests
    BY <2>2 DEF Requests
  <2>. QED BY <1>1, <1>2, <1>10, <2>1, <2>3, ReadKeeps DEF NeighborsType, MemTypeOK
<1>11. CASE NeighborsWalk(s)
  <2>1. \A from, type : Out(s, from, type) \subseteq MemoryId
    BY <1>1 DEF Out, Links, Seen, MemTypeOK, Edge
  <2>2. PICK found \in SUBSET MemoryId : Goto(s, [at |-> "details", ids |-> found])
    BY <1>11, <2>1 DEF NeighborsWalk
  <2>3. [at |-> "details", ids |-> found] \in Requests
    BY DEF Requests
  <2>. QED BY <1>1, <1>11, <2>2, <2>3, ReadKeeps DEF NeighborsWalk, MemTypeOK
<1>12. CASE NeighborsDetails(s)
  <2>1. told' \subseteq told \cup Stored
    BY <1>12, SeenIsStored DEF NeighborsDetails, Tell, Listed
  <2>. QED BY <1>1, <1>2, <1>12, <2>1, ReadKeeps DEF NeighborsDetails, Tell, MemTypeOK
<1>13. CASE Stats(s)
  <2>1. /\ Cardinality(Ids(s)) \in Nat
        /\ Cardinality(Ids(s)) <= Cardinality(Seen(s, vidMap))
    BY <1>2, <1>13, CountedAreMapped DEF Stats
  <2>2. [at |-> "count", n |-> Cardinality(Ids(s))] \in Requests
    BY <2>1 DEF Requests
  <2>. QED BY <1>1, <1>2, <1>13, <2>1, <2>2, ReadKeeps DEF Stats, MemTypeOK
<1>14. CASE StatsVertices(s)
  BY <1>1, <1>2, <1>14, ReadKeeps DEF StatsVertices, MemTypeOK
<1>. QED BY <1>4, <1>5, <1>6, <1>7, <1>8, <1>9, <1>10, <1>11, <1>12, <1>13, <1>14

\* The ends of a store, of a connect and of a connection.
LEMMA EndsKeep ==
  ASSUME MemInv, NEW s \in Servers, StoreCheck(s) \/ ConnectCommit(s) \/ LoseConnection(s)
  PROVE  MemInv'
<1>1. crashes \in 0..MaxCrash /\ MaxCrash \in Nat
  BY MemoryBoundsAssumption DEF MemInv, MemTypeOK
<1>2. CASE StoreCheck(s)
  BY <1>1, <1>2, AbortKeeps, CommitKeeps DEF StoreCheck, Drift
<1>3. CASE ConnectCommit(s)
  BY <1>3, CommitKeeps DEF ConnectCommit
<1>4. CASE LoseConnection(s)
  BY <1>1, <1>4, AbortKeeps DEF LoseConnection
<1>. QED BY <1>2, <1>3, <1>4

LEMMA MemStep == MemInv /\ [MemNext]_mvars => MemInv'
<1>. SUFFICES ASSUME MemInv, [MemNext]_mvars PROVE MemInv'
  OBVIOUS
<1>1. CASE UNCHANGED mvars
  BY <1>1 DEF mvars, MemInv, MemTypeOK, IdsInv, StoringInv, LinksInv, CountsInv, Stored, Seen
<1>2. CASE MemNext
  BY <1>2, ReadsKeep, InsertKeeps, UpsertKeeps, RegisterKeeps, EdgeKeeps, EndsKeep
     DEF MemNext, ServerStep
<1>. QED BY <1>1, <1>2

LEMMA MemStart == MemInit => MemInv
<1>. SUFFICES ASSUME MemInit PROVE MemInv
  OBVIOUS
<1>1. IsFiniteSet({}) /\ IsFiniteSet(types)
  BY FS_EmptySet, FS_Singleton DEF MemInit
<1>2. \A s \in Servers : req[s].at = "idle"
  BY DEF MemInit, Idle
<1>3. MemTypeOK
  BY MemoryBoundsAssumption
     DEF MemInit, MemTypeOK, Idle, Requests, EdgeType, Holder, MemoryId, NoTable
<1>. QED BY <1>1, <1>2, <1>3
         DEF MemInit, MemInv, IdsInv, StoringInv, LinksInv, CountsInv, Stored, Seen

-----------------------------------------------------------------------------
(* The theorem.                                                            *)

\* A stored memory has one vertex and it has the memory's number; what agents
\* were told of is stored, what they are shown joins stored memories by
\* registered types, and no count shows more memories than vertices
\* (MemoryStore, tridb_mcp.py:164-330).
THEOREM MemoriesStayVertices == MemSpec => []MemoriesAreVertices
<1>1. MemInv => MemoriesAreVertices
  <2>. SUFFICES ASSUME MemInv PROVE MemoriesAreVertices
    OBVIOUS
  <2>1. VidsAreIds
    <3>. SUFFICES ASSUME NEW m \in memories, m.by = Done
                  PROVE  {r.vid : r \in Holders(Seen(NoServer, vidMap), "ext", m.id)} = {m.id}
      BY DEF VidsAreIds, Seen, Done
    <3>. DEFINE maps == Holders(Seen(NoServer, vidMap), "ext", m.id)
    <3>1. PICK r \in vidMap : r.ext = m.id /\ r.vid = m.id /\ r.by = Done
      BY DEF MemInv, IdsInv
    <3>2. r \in maps
      BY <3>1 DEF Holders, Seen
    <3>3. \A q \in maps : q = r
      BY <3>1 DEF Holders, Seen, MemInv, IdsInv
    <3>. QED BY <3>1, <3>2, <3>3
  <2>2. AnswersAreMemories
    <3>1. ASSUME NEW e \in Seen(NoServer, edges)
          PROVE  /\ {e.src, e.dst} \subseteq Stored
                 /\ Holders(Seen(NoServer, types), "id", e.type) # {}
      BY DEF Seen, Done, Holders, MemInv, LinksInv
    <3>2. Stored = {m.id : m \in Seen(NoServer, memories)}
      BY DEF Stored
    <3>. QED BY <3>1, <3>2 DEF AnswersAreMemories, MemInv, CountsInv
  <2>. QED BY <2>1, <2>2 DEF MemoriesAreVertices, MemInv
<1>2. MemSpec => []MemInv
  BY MemStart, MemStep, PTL DEF MemSpec
<1>. QED BY <1>1, <1>2, PTL

-----------------------------------------------------------------------------
(* Dumps.  DumpProofs is about a store and its dump alone; what it proves  *)
(* holds of the dump here, which has the same definitions.                 *)

Proved == INSTANCE DumpProofs WITH
  Sessions <- Writers, MaxXid <- DumpXids, MaxVid <- DumpVids,
  MaxEdges <- DumpedEdges, nextXid <- dumpNextXid, committed <- dumpCommitted,
  xid <- dumpXid, lock <- dumpLock

LEMMA SameDump ==
  /\ Dump!DumpInit <=> Proved!DumpInit
  /\ Dump!DumpNext <=> Proved!DumpNext
  /\ Dump!CountIsReads <=> Proved!CountIsReads
  /\ Dump!RestoredEdgeCount <=> Proved!RestoredEdgeCount
  /\ Dump!RestoredAnswers <=> Proved!RestoredAnswers
  /\ Dump!RefusedOnlyIfMoved <=> Proved!RefusedOnlyIfMoved
<1>. USE DEF Dump!Abort, Dump!AbortExtended, Dump!AcquireWriterLock,
      Dump!AnyType, Dump!AnyVid, Dump!AppendSlots, Dump!AssignXid,
      Dump!Batches, Dump!Block, Dump!Cardinality, Dump!ChainFrom, Dump!Closed,
      Dump!Commit, Dump!ContinueInsertEdges, Dump!ContinueOperation,
      Dump!Counts, Dump!DeletedVisible, Dump!DenseInRange, Dump!DenseLocated,
      Dump!DensePosition, Dump!DenseVerified, Dump!DidCommit, Dump!DumpEdges,
      Dump!DumpVertices, Dump!DumpedVids, Dump!EdgeView, Dump!Emitted,
      Dump!EmittedFrom, Dump!EndTransaction, Dump!FirstNormalXid,
      Dump!FitsBounds, Dump!Freezable, Dump!FreezeAdjPage, Dump!FreezeBegin,
      Dump!FreezeDescend, Dump!FreezeRecord, Dump!FreezeRecordHorizon,
      Dump!FreezeRecords, Dump!FreezeRelstats, Dump!FreezeStep,
      Dump!FreezeVertexPage, Dump!FreezeXmin, Dump!Freezing, Dump!FrozenXid,
      Dump!GroupOrder, Dump!Groups, Dump!HeadsOf, Dump!Idle,
      Dump!InTransaction, Dump!Init, Dump!InsertEdge, Dump!InsertEdges,
      Dump!InsertSome, Dump!InsertVertex, Dump!InvalidXid, Dump!Link,
      Dump!Live, Dump!LivePositions, Dump!LiveSlots, Dump!Located,
      Dump!Matches, Dump!MayWrite, Dump!NeedsPage, Dump!NewAdjPage,
      Dump!NewDatabase, Dump!NewSlot, Dump!NewVertex, Dump!NewVertexPage,
      Dump!NextBlock, Dump!NoBackup, Dump!NoBlock, Dump!NormalXid,
      Dump!PrecedesOldestXmin, Dump!Reads, Dump!ReplayCommit,
      Dump!ReplayContinue, Dump!ReplayEdges, Dump!ReplayRefused,
      Dump!ReplayStart, Dump!ReplayVertex, Dump!Room, Dump!Rows, Dump!Running,
      Dump!Session, Dump!SourceStep, Dump!ToSet, Dump!TombstoneAdjacency,
      Dump!TombstoneEdge, Dump!TombstoneSlot, Dump!TombstoneSome,
      Dump!TombstoneVertex, Dump!TypedReads, Dump!VertexAt,
      Dump!VertexPositions, Dump!Vid, Dump!VisibleEdgeCount, Dump!Walk,
      Dump!WriteRun, Dump!XminVisible, Dump!ZeroPage, Dump!store, Dump!txns,
      Dump!vars, Proved!Abort, Proved!AbortExtended, Proved!AcquireWriterLock,
      Proved!AnyType, Proved!AnyVid, Proved!AppendSlots, Proved!AssignXid,
      Proved!Batches, Proved!Block, Proved!Cardinality, Proved!ChainFrom,
      Proved!Closed, Proved!Commit, Proved!ContinueInsertEdges,
      Proved!ContinueOperation, Proved!Counts, Proved!DeletedVisible,
      Proved!DenseInRange, Proved!DenseLocated, Proved!DensePosition,
      Proved!DenseVerified, Proved!DidCommit, Proved!DumpEdges,
      Proved!DumpVertices, Proved!DumpedVids, Proved!EdgeView, Proved!Emitted,
      Proved!EmittedFrom, Proved!EndTransaction, Proved!FirstNormalXid,
      Proved!FitsBounds, Proved!Freezable, Proved!FreezeAdjPage,
      Proved!FreezeBegin, Proved!FreezeDescend, Proved!FreezeRecord,
      Proved!FreezeRecordHorizon, Proved!FreezeRecords, Proved!FreezeRelstats,
      Proved!FreezeStep, Proved!FreezeVertexPage, Proved!FreezeXmin,
      Proved!Freezing, Proved!FrozenXid, Proved!GroupOrder, Proved!Groups,
      Proved!HeadsOf, Proved!Idle, Proved!InTransaction, Proved!Init,
      Proved!InsertEdge, Proved!InsertEdges, Proved!InsertSome,
      Proved!InsertVertex, Proved!InvalidXid, Proved!Link, Proved!Live,
      Proved!LivePositions, Proved!LiveSlots, Proved!Located, Proved!Matches,
      Proved!MayWrite, Proved!NeedsPage, Proved!NewAdjPage, Proved!NewDatabase,
      Proved!NewSlot, Proved!NewVertex, Proved!NewVertexPage, Proved!NextBlock,
      Proved!NoBackup, Proved!NoBlock, Proved!NormalXid,
      Proved!PrecedesOldestXmin, Proved!Reads, Proved!ReplayCommit,
      Proved!ReplayContinue, Proved!ReplayEdges, Proved!ReplayRefused,
      Proved!ReplayStart, Proved!ReplayVertex, Proved!Room, Proved!Rows,
      Proved!Running, Proved!Session, Proved!SourceStep, Proved!ToSet,
      Proved!TombstoneAdjacency, Proved!TombstoneEdge, Proved!TombstoneSlot,
      Proved!TombstoneSome, Proved!TombstoneVertex, Proved!TypedReads,
      Proved!VertexAt, Proved!VertexPositions, Proved!Vid,
      Proved!VisibleEdgeCount, Proved!Walk, Proved!WriteRun,
      Proved!XminVisible, Proved!ZeroPage, Proved!store, Proved!txns,
      Proved!vars
<1>1. Dump!DumpInit <=> Proved!DumpInit
  BY DEF Dump!DumpInit, Proved!DumpInit
<1>2. Dump!DumpNext <=> Proved!DumpNext
  BY DEF Dump!DumpNext, Proved!DumpNext
<1>3. Dump!CountIsReads <=> Proved!CountIsReads
  BY DEF Dump!CountIsReads, Proved!CountIsReads
<1>4. Dump!RestoredEdgeCount <=> Proved!RestoredEdgeCount
  BY DEF Dump!RestoredEdgeCount, Proved!RestoredEdgeCount
<1>5. Dump!RestoredAnswers <=> Proved!RestoredAnswers
  BY DEF Dump!RestoredAnswers, Proved!RestoredAnswers
<1>6. Dump!RefusedOnlyIfMoved <=> Proved!RefusedOnlyIfMoved
  BY DEF Dump!RefusedOnlyIfMoved, Proved!RefusedOnlyIfMoved
<1>. QED BY <1>1, <1>2, <1>3, <1>4, <1>5, <1>6

\* A step of the whole is one of the dump, or leaves the dump alone, or is in
\* a behaviour that is not about the dump.
DumpPart == part = "dump" => Registered = EdgeTypes /\ Proved!DumpInv

LEMMA DumpPartStarts == Registered = EdgeTypes /\ MCInit => DumpPart
<1>1. Proved!DumpInit => Proved!DumpInv
  BY Proved!DumpStarts, DumpAssumption
<1>. QED BY <1>1, SameDump DEF MCInit, DumpPart

LEMMA DumpPartSteps ==
  DumpPart /\ [DumpStep \/ MapStep \/ MemoryStep]_<<dumpVars, vars, mvars, part>>
    => DumpPart'
<1>. SUFFICES ASSUME Registered = EdgeTypes, Proved!DumpInv, part' = "dump",
                     [DumpStep \/ MapStep \/ MemoryStep]_<<dumpVars, vars, mvars, part>>,
                     part = "dump"
              PROVE  Proved!DumpInv'
  BY DEF DumpPart, DumpStep, MapStep, MemoryStep
<1>1. Registered = EdgeTypes /\ Proved!DumpInv /\ [Proved!DumpNext]_Proved!dumpVars
        => Proved!DumpInv'
  BY Proved!DumpSteps, DumpAssumption
<1>2. Proved!DumpNext \/ UNCHANGED dumpVars
  BY SameDump DEF DumpStep, MapStep, MemoryStep
<1>3. UNCHANGED dumpVars => UNCHANGED Proved!dumpVars
  BY DEF dumpVars, Proved!dumpVars, Proved!vars
<1>. QED BY <1>1, <1>2, <1>3

LEMMA DumpPartSound == DumpPart => DumpIsFaithful
<1>1. Proved!DumpInv => Proved!CountIsReads
  BY Proved!DumpCounts, DumpAssumption
<1>2. Registered = EdgeTypes /\ Proved!DumpInv =>
        /\ Proved!RestoredEdgeCount /\ Proved!RestoredAnswers
        /\ Proved!RefusedOnlyIfMoved
  BY Proved!DumpRestores, DumpAssumption
<1>. QED BY <1>1, <1>2, SameDump DEF DumpPart, DumpIsFaithful

\* A backup is the store, if its dictionary knows all edge types: see
\* DumpIsFaithful (gph_dump_vertices, gph_dump_edges, gph_visible_edge_count,
\* graph_am.c:2710-2727, 2800-2876).
THEOREM DumpsStayFaithful == Registered = EdgeTypes /\ MCSpec => []DumpIsFaithful
BY DumpPartStarts, DumpPartSteps, DumpPartSound, PTL DEF MCSpec

=============================================================================
