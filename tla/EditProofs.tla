----------------------------- MODULE EditProofs -----------------------------
(***************************************************************************)
(* Proofs about recorded edits and their replay, for every feed of events  *)
(* and every number of broken connections, failed writes and crashes: a    *)
(* window has no gap, and a read of its replay is torn only for a cause.   *)
(***************************************************************************)
EXTENDS CrossStore, FiniteSetTheorems, TLAPS

-----------------------------------------------------------------------------
(* The window.                                                             *)

\* A connection goes on after the last event that was read.
ConnInv ==
  /\ conn = [next |-> conn.next, at |-> conn.at, id |-> conn.id, data |-> conn.data]
  /\ conn.at \in {"closed", "id", "data", "blank"}
  /\ conn.at # "closed" =>
       /\ conn.next \in Nat \ {0}
       /\ stats.lastId # NoId => conn.next = stats.lastId + 1
  /\ conn.at \in {"data", "blank"} => conn.id = conn.next
  /\ meta # NoPin => conn.at = "closed"

\* What has been read ends at the last event, the one that was cut short as well.
StatsInv ==
  /\ stats = [events |-> stats.events, edits |-> stats.edits, first |-> stats.first,
              last |-> stats.last, lastId |-> stats.lastId]
  /\ {stats.edits, stats.first, stats.lastId} \subseteq Nat
  /\ stats.first <= stats.lastId
  /\ torn \subseteq 1..stats.lastId
  /\ \E S : file \in Seq(S)

RecorderInv == ConnInv /\ StatsInv /\ WindowIsWhole

LEMMA RecorderStarts == RecorderInit => RecorderInv
<1>. SUFFICES ASSUME RecorderInit PROVE RecorderInv
  OBVIOUS
<1>1. /\ conn = Closed /\ file = <<>> /\ meta = NoPin /\ torn = {}
      /\ stats = [events |-> 0, edits |-> 0, first |-> NoId, last |-> NoId, lastId |-> NoId]
  BY DEF RecorderInit
<1>2. ConnInv
  BY <1>1 DEF ConnInv, Closed
<1>3. StatsInv
  <2>1. <<>> \in Seq({})
    OBVIOUS
  <2>. QED BY <1>1, <2>1 DEF StatsInv, NoId
<1>4. WindowIsWhole
  <2>1. Sent = {}
    BY <1>1 DEF Sent
  <2>. QED BY <1>1, <2>1, FS_EmptySet DEF WindowIsWhole
<1>. QED BY <1>2, <1>3, <1>4 DEF RecorderInv

LEMMA SentFinite ==
  ASSUME StatsInv
  PROVE  IsFiniteSet(Sent) /\ Cardinality(Sent) \in Nat /\ Sent \subseteq 1..stats.lastId
<1>1. Sent \subseteq 1..stats.lastId
  BY DEF Sent, StatsInv, NoId
<1>2. stats.lastId \in Nat
  BY DEF StatsInv
<1>3. IsFiniteSet(1..stats.lastId)
  BY <1>2, FS_Interval
<1>. QED BY <1>1, <1>3, FS_Subset, FS_CardinalityType

\* The events sent are as they were: a step that reads nothing.
LEMMA RecorderKept ==
  ASSUME RecorderInv, UNCHANGED <<stats, file, torn>>, ConnInv',
         meta' # NoPin /\ meta' # meta =>
           meta'.edits = stats.edits /\ meta'.lastId = stats.lastId
  PROVE  RecorderInv'
<1>1. StatsInv'
  BY DEF RecorderInv, StatsInv
<1>2. Sent' = Sent
  BY DEF Sent
<1>3. WindowIsWhole'
  BY <1>2 DEF RecorderInv, WindowIsWhole
<1>. QED BY <1>1, <1>3 DEF RecorderInv

\* An event is read: the file grows by its record if it is an edit, and the set of
\* the edits sent by its id, which is the greatest.
LEMMA EventRead ==
  ASSUME RecorderInv, conn.at \in {"data", "blank"}, NEW whole \in BOOLEAN,
         Consume(conn.id, whole)
  PROVE  /\ StatsInv'
         /\ stats'.lastId = conn.id
         /\ Len(file') = Cardinality(Sent')
         /\ \A i \in Sent' :
              file'[Cardinality({j \in Sent' : j <= i})] = EditLine(Feed[i])
         /\ stats'.edits = Len(file')
<1>. DEFINE id   == conn.id
            edit == whole /\ EditFromChange(Feed[id])
<1>1. /\ id \in Nat \ {0} /\ conn.at # "closed"
      /\ stats.lastId # NoId => id = stats.lastId + 1
  BY DEF RecorderInv, ConnInv
<1>2. /\ stats.lastId \in Nat /\ stats.first \in Nat /\ stats.edits \in Nat
      /\ stats.first <= stats.lastId /\ torn \subseteq 1..stats.lastId
  BY DEF RecorderInv, StatsInv
<1>3. stats.lastId < id
  BY <1>1, <1>2 DEF NoId
<1>4. /\ stats' = [events |-> stats.events + 1,
                   edits |-> IF edit THEN stats.edits + 1 ELSE stats.edits,
                   first |-> IF whole /\ stats.first = NoId THEN id ELSE stats.first,
                   last |-> IF whole THEN id ELSE stats.last,
                   lastId |-> id]
      /\ file' = IF edit THEN Append(file, EditLine(Feed[id])) ELSE file
      /\ torn' = IF whole THEN torn ELSE torn \cup {id}
  BY DEF Consume, RecorderInv, StatsInv
<1>. HIDE DEF id, edit
<1>5. PICK S : file \in Seq(S)
  BY DEF RecorderInv, StatsInv
<1>6. /\ file \in Seq(S \cup {EditLine(Feed[id])}) /\ Len(file) \in Nat
      /\ Append(file, EditLine(Feed[id])) \in Seq(S \cup {EditLine(Feed[id])})
      /\ Len(Append(file, EditLine(Feed[id]))) = Len(file) + 1
      /\ \A i \in 1..Len(file) : Append(file, EditLine(Feed[id]))[i] = file[i]
      /\ Append(file, EditLine(Feed[id]))[Len(file) + 1] = EditLine(Feed[id])
  BY <1>5
<1>7. StatsInv'
  <2>1. /\ {stats'.edits, stats'.first, stats'.lastId} \subseteq Nat
        /\ stats'.first <= stats'.lastId
    BY <1>1, <1>2, <1>3, <1>4
  <2>2. torn' \subseteq 1..stats'.lastId
    BY <1>1, <1>2, <1>3, <1>4
  <2>3. \E T : file' \in Seq(T)
    BY <1>4, <1>6
  <2>4. stats' = [events |-> stats'.events, edits |-> stats'.edits, first |-> stats'.first,
                  last |-> stats'.last, lastId |-> stats'.lastId]
    BY <1>4
  <2>. QED BY <2>1, <2>2, <2>3, <2>4 DEF StatsInv
<1>8. Sent' = IF edit THEN Sent \cup {id} ELSE Sent
  <2>1. CASE stats.first = NoId
    <3>1. Sent = {}
      BY <2>1 DEF Sent
    <3>2. CASE whole
      <4>1. stats'.first = id /\ stats'.lastId = id /\ torn' = torn
        BY <1>4, <2>1, <3>2
      <4>2. Sent' = {i \in id..id : EditFromChange(Feed[i]) /\ i \notin torn}
        BY <1>1, <4>1 DEF Sent, NoId
      <4>3. id \notin torn /\ id..id = {id}
        BY <1>1, <1>2, <1>3
      <4>. QED BY <3>1, <3>2, <4>2, <4>3 DEF edit
    <3>3. CASE ~whole
      BY <1>4, <2>1, <3>1, <3>3 DEF Sent, edit
    <3>. QED BY <3>2, <3>3
  <2>2. CASE stats.first # NoId
    <3>1. stats'.first = stats.first /\ stats'.lastId = id /\ id = stats.lastId + 1
      BY <1>1, <1>2, <1>4, <2>2 DEF NoId
    <3>2. stats.first..id = (stats.first..stats.lastId) \cup {id}
      BY <1>2, <3>1
    <3>3. id \notin torn /\ id \notin stats.first..stats.lastId
      BY <1>1, <1>2, <1>3
    <3>. QED BY <1>4, <2>2, <3>1, <3>2, <3>3 DEF Sent, edit
  <2>. QED BY <2>1, <2>2
<1>9. /\ IsFiniteSet(Sent) /\ Cardinality(Sent) \in Nat
      /\ \A i \in Sent : i \in Nat /\ i < id
  BY <1>1, <1>2, <1>3, SentFinite DEF RecorderInv
<1>10. /\ Len(file) = Cardinality(Sent) /\ stats.edits = Len(file)
       /\ \A i \in Sent : file[Cardinality({j \in Sent : j <= i})] = EditLine(Feed[i])
  BY DEF RecorderInv, WindowIsWhole
<1>11. CASE ~edit
  BY <1>4, <1>7, <1>8, <1>10, <1>11 DEF id
<1>12. CASE edit
  <2>1. Sent' = Sent \cup {id} /\ id \notin Sent
    BY <1>1, <1>8, <1>9, <1>12
  <2>2. Cardinality(Sent') = Cardinality(Sent) + 1
    BY <1>9, <2>1, FS_AddElement
  <2>3. file' = Append(file, EditLine(Feed[id])) /\ stats'.edits = stats.edits + 1
    BY <1>4, <1>12
  <2>4. ASSUME NEW i \in Sent
        PROVE  file'[Cardinality({j \in Sent' : j <= i})] = EditLine(Feed[i])
    <3>1. {j \in Sent' : j <= i} = {j \in Sent : j <= i}
      BY <1>1, <1>9, <2>1, <2>4
    <3>. DEFINE below == {j \in Sent : j <= i}
    <3>2. /\ IsFiniteSet(below) /\ Cardinality(below) \in Nat
          /\ Cardinality(below) <= Cardinality(Sent)
      BY <1>9, FS_Subset, FS_CardinalityType
    <3>3. Cardinality(below) # 0
      BY <1>9, <2>4, <3>2, FS_EmptySet
    <3>4. file[Cardinality(below)] = EditLine(Feed[i])
      BY <1>10, <2>4
    <3>. HIDE DEF below
    <3>5. Cardinality(below) \in 1..Len(file)
      BY <1>10, <3>2, <3>3
    <3>6. file'[Cardinality(below)] = EditLine(Feed[i])
      BY <1>6, <2>3, <3>4, <3>5
    <3>. QED BY <3>1, <3>6 DEF below
  <2>5. {j \in Sent' : j <= id} = Sent'
    BY <1>1, <1>9, <2>1
  <2>6. file'[Cardinality(Sent')] = EditLine(Feed[id])
    BY <1>6, <1>10, <2>2, <2>3
  <2>7. \A i \in Sent' : file'[Cardinality({j \in Sent' : j <= i})] = EditLine(Feed[i])
    BY <2>1, <2>4, <2>5, <2>6
  <2>. QED BY <1>4, <1>6, <1>7, <1>10, <2>2, <2>3, <2>7 DEF id
<1>. QED BY <1>11, <1>12

\* An event is read, the connection goes on or ends, and the window may be pinned.
LEMMA RecorderConsumes ==
  ASSUME RecorderInv, conn.at \in {"data", "blank"}, NEW whole \in BOOLEAN,
         Consume(conn.id, whole),
         conn' = Closed \/ conn' = [conn EXCEPT !.next = @ + 1, !.at = "id", !.id = NoId,
                                                !.data = NoId],
         \/ meta' = meta
         \/ /\ conn' = Closed
            /\ meta'.edits = stats'.edits /\ meta'.lastId = stats'.lastId
  PROVE  RecorderInv'
<1>1. meta = NoPin /\ conn.next \in Nat \ {0} /\ conn.id = conn.next
  BY DEF RecorderInv, ConnInv
<1>2. stats'.lastId = conn.id
  BY EventRead
<1>3. ConnInv'
  <2>1. CASE conn' = Closed
    BY <2>1 DEF ConnInv, Closed
  <2>2. CASE conn' = [conn EXCEPT !.next = @ + 1, !.at = "id", !.id = NoId, !.data = NoId]
    <3>1. conn' = [next |-> conn.next + 1, at |-> "id", id |-> NoId, data |-> NoId]
      BY <2>2 DEF RecorderInv, ConnInv
    <3>2. meta' = NoPin
      BY <1>1, <3>1 DEF Closed
    <3>. QED BY <1>1, <1>2, <3>1, <3>2 DEF ConnInv
  <2>. QED BY <2>1, <2>2
<1>4. WindowIsWhole'
  BY <1>1, EventRead DEF WindowIsWhole
<1>. QED BY <1>3, <1>4, EventRead DEF RecorderInv

LEMMA RecorderStep ==
  ASSUME RecorderInv, RecorderNext \/ UNCHANGED recorderVars
  PROVE  RecorderInv'
<1>1. CASE Connect
  <2>1. PICK k \in Resume : conn' = [next |-> k, at |-> "id", id |-> NoId, data |-> NoId]
    BY <1>1 DEF Connect
  <2>2. k \in Nat \ {0} /\ (stats.lastId # NoId => k = stats.lastId + 1)
    <3>1. stats.lastId \in Nat
      BY DEF RecorderInv, StatsInv
    <3>. QED BY <2>1, <3>1 DEF Resume, NoId
  <2>3. ConnInv'
    BY <1>1, <2>1, <2>2 DEF Connect, ConnInv
  <2>. QED BY <1>1, <2>3, RecorderKept DEF Connect
<1>2. CASE IdLine
  <2>1. conn' = [next |-> conn.next, at |-> "data", id |-> conn.next, data |-> conn.data]
    BY <1>2 DEF IdLine, RecorderInv, ConnInv
  <2>2. ConnInv'
    BY <1>2, <2>1 DEF IdLine, RecorderInv, ConnInv
  <2>. QED BY <1>2, <2>2, RecorderKept DEF IdLine
<1>3. CASE DataLine
  <2>1. conn' = [next |-> conn.next, at |-> "blank", id |-> conn.id, data |-> conn.next]
    BY <1>3 DEF DataLine, RecorderInv, ConnInv
  <2>2. ConnInv'
    BY <1>3, <2>1 DEF DataLine, RecorderInv, ConnInv
  <2>. QED BY <1>3, <2>2, RecorderKept DEF DataLine
<1>4. CASE BlankLine
  <2>1. conn.at = "blank" /\ Consume(conn.id, TRUE)
    BY <1>4 DEF BlankLine
  <2>2. CASE /\ conn' = [conn EXCEPT !.next = @ + 1, !.at = "id", !.id = NoId, !.data = NoId]
             /\ UNCHANGED meta
    BY <2>1, <2>2, RecorderConsumes
  <2>3. CASE /\ conn' = Closed
             /\ meta' = [events |-> stats'.events, edits |-> stats'.edits,
                         lastId |-> stats'.lastId, first |-> stats'.first,
                         last |-> stats'.last, interrupted |-> FALSE]
    <3>1. meta'.edits = stats'.edits /\ meta'.lastId = stats'.lastId
      BY <2>3
    <3>. QED BY <2>1, <2>3, <3>1, RecorderConsumes
  <2>. QED BY <1>4, <2>2, <2>3 DEF BlankLine
<1>5. CASE StreamEnds
  <2>1. CASE UNCHANGED <<stats, file, torn>>
    <3>1. ConnInv'
      BY <1>5, <2>1 DEF StreamEnds, ConnInv, Closed
    <3>. QED BY <1>5, <2>1, <3>1, RecorderKept DEF StreamEnds
  <2>2. CASE conn.at = "data" /\ Consume(conn.id, FALSE)
    BY <1>5, <2>2, RecorderConsumes DEF StreamEnds
  <2>3. CASE conn.at = "blank" /\ Consume(conn.id, TRUE)
    BY <1>5, <2>3, RecorderConsumes DEF StreamEnds
  <2>. QED BY <1>5, <2>1, <2>2, <2>3 DEF StreamEnds
<1>6. CASE StreamDrops \/ CloseWindow
  <2>1. ConnInv'
    BY <1>6 DEF StreamDrops, CloseWindow, ConnInv, Closed
  <2>2. UNCHANGED <<stats, file, torn>>
    BY <1>6 DEF StreamDrops, CloseWindow
  <2>3. meta' = meta \/ (meta'.edits = stats.edits /\ meta'.lastId = stats.lastId)
    BY <1>6 DEF StreamDrops, CloseWindow
  <2>. QED BY <2>1, <2>2, <2>3, RecorderKept
<1>7. CASE UNCHANGED recorderVars
  <2>1. UNCHANGED <<conn, stats, file, meta, torn>>
    BY <1>7 DEF recorderVars
  <2>2. ConnInv'
    BY <2>1 DEF RecorderInv, ConnInv
  <2>. QED BY <2>1, <2>2, RecorderKept
<1>. QED BY <1>1, <1>2, <1>3, <1>4, <1>5, <1>6, <1>7 DEF RecorderNext

\* Only the recorder's own steps move it.
LEMMA RecorderAlone ==
  ASSUME [Next]_<<recorderVars, crossVars>>
  PROVE  RecorderNext \/ UNCHANGED recorderVars
  BY DEF Next, Replay, others, engineVars, WriteRow, WriteOther, TombstoneEdge, InsertEdge,
     CommitWrite, RollBack, CrashRestart, ReadRow, CopySlots, JudgeSlot, EndRead,
     NextArchitecture, MsWrite, MsCommitLeg, MsInjected, MsRead, MsReadLeg, MsEndRead

\* For every feed, and however often connections end, cleanly or not and in the
\* middle of an event: the file of a window holds each usable edit from the first
\* event read to the last, once and in the order of the stream, but those whose data
\* was cut short, and the pin counts them (tools/wikidata_record_edits.py).
THEOREM WindowsAreWhole == Spec => []WindowIsWhole
<1>1. Init => RecorderInv
  BY RecorderStarts DEF Init
<1>2. RecorderInv /\ [Next]_<<recorderVars, crossVars>> => RecorderInv'
  BY RecorderStep, RecorderAlone
<1>3. RecorderInv => WindowIsWhole
  BY DEF RecorderInv
<1>. QED BY <1>1, <1>2, <1>3, PTL DEF Spec

-----------------------------------------------------------------------------
(* The engine's replay.                                                    *)

Slot == [v : {0, 1}, ins : Nat, del : Nat]

\* The slots are of transactions that the engine knows.
Known(slots) ==
  /\ slots \in Seq(Slot)
  /\ \A i \in DOMAIN slots : /\ slots[i].ins \in 1..Len(eng.status)
                            /\ slots[i].del \in 0..Len(eng.status)

\* A slot's version as of given states of the transactions.
Out(status, s) ==
  status[s.ins] = "committed" /\ ~(s.del # 0 /\ status[s.del] = "committed")

\* One of the slots is out there, and it is of the version v.
OneVisible(slots, v, i) ==
  /\ i \in DOMAIN slots
  /\ SlotVisible(slots[i]) /\ slots[i].v = v
  /\ \A j \in DOMAIN slots : SlotVisible(slots[j]) => j = i

\* The edge that is out there is the row's, in every instant.
EngineInv ==
  /\ eng = [row |-> eng.row, slots |-> eng.slots, status |-> eng.status]
  /\ eng.row \in {0, 1}
  /\ eng.status \in Seq({"running", "committed", "aborted"})
  /\ Known(eng.slots)
  /\ \E i \in DOMAIN eng.slots : OneVisible(eng.slots, eng.row, i)

\* Once the writer has been over the old edge, what is out there carries its mark;
\* before its commit the one slot that it inserted is the new version's.
WriterInv ==
  \/ writer = AtRest
  \/ /\ writer = [at |-> writer.at, x |-> writer.x, old |-> writer.old, new |-> writer.new]
     /\ writer.at \in {"tombstone", "insert", "commit"}
     /\ writer.x \in DOMAIN eng.status /\ ~Committed(writer.x)
     /\ writer.old = eng.row /\ writer.new = 1 - eng.row
     /\ writer.at \in {"tombstone", "insert"} =>
          \A i \in DOMAIN eng.slots : eng.slots[i].ins # writer.x
     /\ writer.at \in {"insert", "commit"} =>
          \A i \in DOMAIN eng.slots :
            SlotVisible(eng.slots[i]) => eng.slots[i].del = writer.x
     /\ writer.at = "commit" =>
          \E k \in DOMAIN eng.slots :
            /\ eng.slots[k].ins = writer.x
            /\ eng.slots[k].del = 0 /\ eng.slots[k].v = writer.new
            /\ \A i \in DOMAIN eng.slots : eng.slots[i].ins = writer.x => i = k

\* While no write has committed since its snapshot, a statement has the row of now,
\* and its copy of the slots has one that is out there, of that row's version.
ReaderInv ==
  \/ reader = AtRest
  \/ /\ reader = [at |-> "graph", row |-> reader.row, commits |-> reader.commits]
     /\ reader.commits \in Nat /\ reader.commits <= Commits
     /\ Commits = reader.commits => reader.row = eng.row
  \/ /\ reader = [at |-> "slot", row |-> reader.row, commits |-> reader.commits,
                   slots |-> reader.slots, i |-> reader.i, seen |-> reader.seen]
     /\ reader.commits \in Nat /\ reader.commits <= Commits
     /\ Known(reader.slots) /\ reader.i \in Nat \ {0}
     /\ Commits = reader.commits =>
          \E k \in DOMAIN reader.slots :
            /\ OneVisible(reader.slots, reader.row, k)
            /\ reader.seen = IF k < reader.i THEN reader.row ELSE None

ReplayInv == EngineInv /\ WriterInv /\ ReaderInv

CommittedIds == {x \in DOMAIN eng.status : Committed(x)}

LEMMA CommitsFinite ==
  ASSUME EngineInv
  PROVE  IsFiniteSet(CommittedIds) /\ Commits \in Nat
<1>1. eng.status \in Seq({"running", "committed", "aborted"})
  BY DEF EngineInv
<1>2. DOMAIN eng.status = 1..Len(eng.status) /\ Len(eng.status) \in Nat
  BY <1>1
<1>3. IsFiniteSet(1..Len(eng.status)) /\ CommittedIds \subseteq 1..Len(eng.status)
  BY <1>2, FS_Interval DEF CommittedIds
<1>. QED BY <1>3, FS_Subset, FS_CardinalityType DEF Commits, CommittedIds

\* A step that commits nothing: a transaction begins, or ends for nothing.
Quiet ==
  /\ Len(eng.status) <= Len(eng.status')
  /\ \A x \in DOMAIN eng.status' : Committed(x)' <=> x \in DOMAIN eng.status /\ Committed(x)

LEMMA QuietCommits ==
  ASSUME EngineInv, eng'.status \in Seq({"running", "committed", "aborted"}), Quiet
  PROVE  Commits' = Commits
<1>1. /\ DOMAIN eng.status = 1..Len(eng.status) /\ Len(eng.status) \in Nat
      /\ DOMAIN eng.status' = 1..Len(eng.status') /\ Len(eng.status') \in Nat
      /\ Len(eng.status) <= Len(eng.status')
  BY DEF EngineInv, Quiet
<1>2. CommittedIds' = CommittedIds
  BY <1>1 DEF CommittedIds, Quiet
<1>. QED BY <1>2 DEF Commits, CommittedIds

\* The slots are seen as before.
LEMMA QuietSlots ==
  ASSUME EngineInv, eng'.status \in Seq({"running", "committed", "aborted"}), Quiet,
         NEW slots, Known(slots)
  PROVE  /\ slots \in Seq(Slot)
         /\ \A i \in DOMAIN slots : /\ slots[i].ins \in 1..Len(eng'.status)
                                   /\ slots[i].del \in 0..Len(eng'.status)
         /\ \A j \in DOMAIN slots : Out(eng'.status, slots[j]) <=> Out(eng.status, slots[j])
<1>1. /\ DOMAIN eng.status = 1..Len(eng.status) /\ Len(eng.status) \in Nat
      /\ DOMAIN eng.status' = 1..Len(eng.status') /\ Len(eng.status') \in Nat
      /\ Len(eng.status) <= Len(eng.status')
  BY DEF EngineInv, Quiet
<1>2. /\ slots \in Seq(Slot)
      /\ \A i \in DOMAIN slots : /\ slots[i].ins \in 1..Len(eng.status)
                                /\ slots[i].del \in 0..Len(eng.status)
  BY DEF Known
<1>3. \A i \in DOMAIN slots : /\ slots[i].ins \in 1..Len(eng'.status)
                             /\ slots[i].del \in 0..Len(eng'.status)
  BY <1>1, <1>2
<1>4. ASSUME NEW j \in DOMAIN slots
      PROVE  Out(eng'.status, slots[j]) <=> Out(eng.status, slots[j])
  <2>1. slots[j].ins \in DOMAIN eng.status /\ slots[j].ins \in DOMAIN eng.status'
    BY <1>1, <1>2, <1>3
  <2>2. slots[j].del # 0 =>
          slots[j].del \in DOMAIN eng.status /\ slots[j].del \in DOMAIN eng.status'
    BY <1>1, <1>2, <1>3
  <2>3. \A x \in DOMAIN eng.status' :
          eng.status'[x] = "committed" <=> x \in DOMAIN eng.status /\ eng.status[x] = "committed"
    BY DEF Quiet, Committed
  <2>. QED BY <2>1, <2>2, <2>3 DEF Out
<1>. QED BY <1>2, <1>3, <1>4

LEMMA SameIsQuiet ==
  ASSUME EngineInv, eng'.status = eng.status
  PROVE  eng'.status \in Seq({"running", "committed", "aborted"}) /\ Quiet
<1>1. eng'.status \in Seq({"running", "committed", "aborted"}) /\ Len(eng.status) \in Nat
  BY DEF EngineInv
<1>. QED BY <1>1 DEF Quiet, Committed

\* A quiet step keeps what the engine shows.
LEMMA EngineQuiet ==
  ASSUME EngineInv, eng'.status \in Seq({"running", "committed", "aborted"}), Quiet,
         eng' = [eng EXCEPT !.status = eng'.status]
  PROVE  EngineInv'
<1>1. eng' = [row |-> eng.row, slots |-> eng.slots, status |-> eng'.status]
  BY DEF EngineInv
<1>2. eng'.row = eng.row /\ eng'.slots = eng.slots
  BY <1>1
<1>3. PICK i \in DOMAIN eng.slots : OneVisible(eng.slots, eng.row, i)
  BY DEF EngineInv
<1>4. /\ Known(eng.slots)'
      /\ \A j \in DOMAIN eng.slots : SlotVisible(eng.slots[j])' <=> SlotVisible(eng.slots[j])
  <2>1. /\ eng.slots \in Seq(Slot)
        /\ \A j \in DOMAIN eng.slots :
             /\ eng.slots[j].ins \in 1..Len(eng'.status)
             /\ eng.slots[j].del \in 0..Len(eng'.status)
             /\ Out(eng'.status, eng.slots[j]) <=> Out(eng.status, eng.slots[j])
    BY QuietSlots DEF EngineInv
  <2>. QED BY <1>2, <2>1 DEF Known, SlotVisible, Committed, Out
<1>5. OneVisible(eng.slots, eng.row, i)'
  BY <1>2, <1>3, <1>4 DEF OneVisible
<1>. QED BY <1>1, <1>2, <1>4, <1>5 DEF EngineInv

\* A quiet step that leaves the row alone leaves a reader where it is.
LEMMA ReaderQuiet ==
  ASSUME EngineInv, ReaderInv,
         eng'.status \in Seq({"running", "committed", "aborted"}), Quiet,
         eng'.row = eng.row, UNCHANGED reader
  PROVE  ReaderInv'
<1>1. Commits' = Commits
  BY QuietCommits
<1>2. CASE reader = AtRest
  BY <1>2 DEF ReaderInv
<1>3. CASE reader # AtRest /\ reader.at = "graph"
  BY <1>1, <1>3 DEF ReaderInv
<1>4. CASE reader # AtRest /\ reader.at = "slot"
  <2>1. /\ reader = [at |-> "slot", row |-> reader.row, commits |-> reader.commits,
                      slots |-> reader.slots, i |-> reader.i, seen |-> reader.seen]
        /\ reader.commits \in Nat /\ reader.commits <= Commits
        /\ Known(reader.slots) /\ reader.i \in Nat \ {0}
        /\ Commits = reader.commits =>
             \E k \in DOMAIN reader.slots :
               /\ OneVisible(reader.slots, reader.row, k)
               /\ reader.seen = IF k < reader.i THEN reader.row ELSE None
    BY <1>4 DEF ReaderInv
  <2>2. /\ Known(reader.slots)'
        /\ \A j \in DOMAIN reader.slots :
             SlotVisible(reader.slots[j])' <=> SlotVisible(reader.slots[j])
    <3>1. /\ reader.slots \in Seq(Slot)
          /\ \A j \in DOMAIN reader.slots :
               /\ reader.slots[j].ins \in 1..Len(eng'.status)
               /\ reader.slots[j].del \in 0..Len(eng'.status)
               /\ Out(eng'.status, reader.slots[j]) <=> Out(eng.status, reader.slots[j])
      BY <2>1, QuietSlots
    <3>. QED BY <3>1 DEF Known, SlotVisible, Committed, Out
  <2>3. \A k : OneVisible(reader.slots, reader.row, k) => OneVisible(reader.slots, reader.row, k)'
    BY <2>2 DEF OneVisible
  <2>. QED BY <1>1, <2>1, <2>2, <2>3 DEF ReaderInv
<1>. QED BY <1>2, <1>3, <1>4 DEF ReaderInv

LEMMA ReplayStarts == CrossInit => ReplayInv
<1>. SUFFICES ASSUME CrossInit PROVE ReplayInv
  OBVIOUS
<1>1. /\ eng = [row |-> 0, slots |-> << [v |-> 0, ins |-> 1, del |-> 0] >>,
               status |-> <<"committed">>]
      /\ writer = AtRest /\ reader = AtRest
  BY DEF CrossInit, EngineSetup
<1>2. EngineInv
  <2>1. Known(eng.slots)
    BY <1>1 DEF Known, Slot
  <2>2. OneVisible(eng.slots, eng.row, 1)
    BY <1>1 DEF OneVisible, SlotVisible, Committed
  <2>3. 1 \in DOMAIN eng.slots /\ <<"committed">> \in Seq({"running", "committed", "aborted"})
    BY <1>1
  <2>. QED BY <1>1, <2>1, <2>2, <2>3 DEF EngineInv
<1>. QED BY <1>1, <1>2 DEF ReplayInv, WriterInv, ReaderInv

LEMMA WriteRowStep == ReplayInv /\ WriteRow => ReplayInv'
<1>. SUFFICES ASSUME ReplayInv, WriteRow PROVE ReplayInv'
  OBVIOUS
<1>. DEFINE x == Len(eng.status) + 1
<1>1. /\ eng.status \in Seq({"running", "committed", "aborted"})
      /\ x \in Nat /\ DOMAIN eng.status = 1..x - 1
      /\ eng = [row |-> eng.row, slots |-> eng.slots, status |-> eng.status]
  BY DEF ReplayInv, EngineInv
<1>2. /\ eng' = [eng EXCEPT !.status = Append(@, "running")]
      /\ writer' = [at |-> "tombstone", x |-> x, old |-> eng.row, new |-> 1 - eng.row]
      /\ reader' = reader
  BY DEF WriteRow
<1>3. /\ eng'.status = Append(eng.status, "running")
      /\ eng'.row = eng.row /\ eng'.slots = eng.slots
      /\ eng' = [eng EXCEPT !.status = eng'.status]
  BY <1>1, <1>2
<1>4. /\ eng'.status \in Seq({"running", "committed", "aborted"})
      /\ Len(eng'.status) = x /\ DOMAIN eng'.status = 1..x /\ eng'.status[x] = "running"
      /\ \A y \in 1..x - 1 : eng'.status[y] = eng.status[y]
  BY <1>1, <1>3
<1>. HIDE DEF x
<1>5. Quiet
  BY <1>1, <1>4 DEF Quiet, Committed, x
<1>6. EngineInv' /\ ReaderInv'
  BY <1>2, <1>3, <1>4, <1>5, EngineQuiet, ReaderQuiet DEF ReplayInv
<1>7. \A i \in DOMAIN eng'.slots : eng'.slots[i].ins # x
  BY <1>1, <1>3 DEF ReplayInv, EngineInv, Known, x
<1>8. WriterInv'
  BY <1>1, <1>2, <1>3, <1>4, <1>7 DEF WriterInv, Committed
<1>. QED BY <1>6, <1>8 DEF ReplayInv

LEMMA TombstoneStep == ReplayInv /\ TombstoneEdge => ReplayInv'
<1>. SUFFICES ASSUME ReplayInv, TombstoneEdge PROVE ReplayInv'
  OBVIOUS
<1>1. /\ writer = [at |-> "tombstone", x |-> writer.x, old |-> eng.row, new |-> 1 - eng.row]
      /\ writer.x \in DOMAIN eng.status /\ ~Committed(writer.x)
      /\ \A i \in DOMAIN eng.slots : eng.slots[i].ins # writer.x
  BY DEF TombstoneEdge, ReplayInv, WriterInv, AtRest
<1>2. /\ eng = [row |-> eng.row, slots |-> eng.slots, status |-> eng.status]
      /\ eng.row \in {0, 1}
      /\ eng.status \in Seq({"running", "committed", "aborted"})
      /\ DOMAIN eng.status = 1..Len(eng.status) /\ Len(eng.status) \in Nat
      /\ Known(eng.slots)
  BY DEF ReplayInv, EngineInv
<1>3. PICK k \in DOMAIN eng.slots : OneVisible(eng.slots, eng.row, k)
  BY DEF ReplayInv, EngineInv
<1>. DEFINE marked == [i \in DOMAIN eng.slots |->
              IF eng.slots[i].v = writer.old /\ SlotVisible(eng.slots[i])
              THEN [eng.slots[i] EXCEPT !.del = writer.x] ELSE eng.slots[i]]
<1>4. /\ eng' = [eng EXCEPT !.slots = marked]
      /\ writer' = [writer EXCEPT !.at = "insert"]
      /\ reader' = reader
  BY DEF TombstoneEdge
<1>5. /\ eng' = [row |-> eng.row, slots |-> marked, status |-> eng.status]
      /\ eng'.slots = marked /\ eng'.row = eng.row /\ eng'.status = eng.status
  BY <1>2, <1>4
<1>6. ASSUME NEW i \in DOMAIN eng.slots
      PROVE  /\ marked[i] \in Slot
             /\ marked[i].ins = eng.slots[i].ins /\ marked[i].v = eng.slots[i].v
             /\ IF i = k THEN marked[i].del = writer.x ELSE marked[i] = eng.slots[i]
  <2>1. eng.slots[i] \in Slot /\ DOMAIN eng.slots = 1..Len(eng.slots)
    BY <1>2 DEF Known
  <2>2. i = k <=> SlotVisible(eng.slots[i])
    BY <1>3 DEF OneVisible
  <2>3. eng.slots[k].v = writer.old
    BY <1>1, <1>3 DEF OneVisible
  <2>4. writer.x \in Nat
    BY <1>1, <1>2
  <2>. QED BY <2>1, <2>2, <2>3, <2>4 DEF Slot
<1>7. Known(eng.slots)'
  <2>1. /\ eng.slots \in Seq(Slot)
        /\ \A i \in DOMAIN eng.slots : /\ eng.slots[i].ins \in 1..Len(eng.status)
                                      /\ eng.slots[i].del \in 0..Len(eng.status)
    BY <1>2 DEF Known
  <2>2. DOMAIN marked = 1..Len(eng.slots) /\ Len(eng.slots) \in Nat
    BY <2>1
  <2>3. marked \in Seq(Slot)
    <3>1. marked = [i \in DOMAIN marked |-> marked[i]]
      OBVIOUS
    <3>2. \A i \in DOMAIN marked : marked[i] \in Slot
      BY <1>6
    <3>. HIDE DEF marked
    <3>3. marked \in [1..Len(eng.slots) -> Slot]
      BY <2>2, <3>1, <3>2
    <3>. QED BY <2>2, <3>3
  <2>4. \A i \in DOMAIN marked : /\ marked[i].ins \in 1..Len(eng.status)
                                /\ marked[i].del \in 0..Len(eng.status)
    BY <1>1, <1>2, <1>6, <2>1
  <2>. QED BY <1>5, <2>3, <2>4 DEF Known
<1>8. \A i \in DOMAIN eng.slots : SlotVisible(eng.slots[i])' <=> SlotVisible(eng.slots[i])
  <2>1. SlotVisible(eng.slots[k])
    BY <1>3 DEF OneVisible
  <2>2. eng.status[writer.x] # "committed"
    BY <1>1 DEF Committed
  <2>3. ASSUME NEW i \in DOMAIN eng.slots, i = k
        PROVE  Out(eng.status, marked[i]) <=> Out(eng.status, eng.slots[i])
    BY <1>6, <2>1, <2>2, <2>3 DEF Out, SlotVisible, Committed
  <2>. HIDE DEF marked
  <2>4. \A i \in DOMAIN eng.slots : Out(eng.status, marked[i]) <=> Out(eng.status, eng.slots[i])
    BY <1>6, <2>3
  <2>. QED BY <1>5, <2>4 DEF SlotVisible, Committed, Out
<1>9. OneVisible(eng.slots, eng.row, k)'
  <2>1. DOMAIN marked = DOMAIN eng.slots
    OBVIOUS
  <2>. HIDE DEF marked
  <2>. QED BY <1>3, <1>5, <1>6, <1>8, <2>1 DEF OneVisible
<1>. HIDE DEF marked
<1>10. EngineInv'
  BY <1>2, <1>5, <1>7, <1>9 DEF EngineInv, OneVisible
<1>11. ReaderInv'
  BY <1>4, <1>5, SameIsQuiet, ReaderQuiet DEF ReplayInv
<1>12. WriterInv'
  <2>1. writer' = [at |-> "insert", x |-> writer.x, old |-> eng.row, new |-> 1 - eng.row]
    BY <1>1, <1>4
  <2>2. DOMAIN marked = DOMAIN eng.slots
    BY DEF marked
  <2>3. \A i \in DOMAIN eng'.slots : eng'.slots[i].ins # writer.x
    BY <1>1, <1>5, <1>6, <2>2
  <2>4. \A i \in DOMAIN eng'.slots : SlotVisible(eng.slots[i])' => eng'.slots[i].del = writer.x
    BY <1>5, <1>6, <1>9, <2>2 DEF OneVisible
  <2>5. writer'.x \in DOMAIN eng'.status /\ ~Committed(writer.x)'
    BY <1>1, <1>5, <2>1 DEF Committed
  <2>. QED BY <1>5, <2>1, <2>3, <2>4, <2>5 DEF WriterInv
<1>. QED BY <1>10, <1>11, <1>12 DEF ReplayInv

LEMMA InsertStep == ReplayInv /\ InsertEdge => ReplayInv'
<1>. SUFFICES ASSUME ReplayInv, InsertEdge PROVE ReplayInv'
  OBVIOUS
<1>. DEFINE n    == Len(eng.slots) + 1
            slot == [v |-> 1 - eng.row, ins |-> writer.x, del |-> 0]
            more == Append(eng.slots, slot)
<1>1. /\ writer = [at |-> "insert", x |-> writer.x, old |-> eng.row, new |-> 1 - eng.row]
      /\ writer.x \in DOMAIN eng.status /\ ~Committed(writer.x)
      /\ \A i \in DOMAIN eng.slots : eng.slots[i].ins # writer.x
      /\ \A i \in DOMAIN eng.slots :
           SlotVisible(eng.slots[i]) => eng.slots[i].del = writer.x
  BY DEF InsertEdge, ReplayInv, WriterInv, AtRest
<1>2. /\ eng = [row |-> eng.row, slots |-> eng.slots, status |-> eng.status]
      /\ eng.row \in {0, 1}
      /\ eng.status \in Seq({"running", "committed", "aborted"})
      /\ DOMAIN eng.status = 1..Len(eng.status) /\ Len(eng.status) \in Nat
      /\ eng.slots \in Seq(Slot)
      /\ \A i \in DOMAIN eng.slots : /\ eng.slots[i].ins \in 1..Len(eng.status)
                                    /\ eng.slots[i].del \in 0..Len(eng.status)
  BY DEF ReplayInv, EngineInv, Known
<1>3. PICK k \in DOMAIN eng.slots : OneVisible(eng.slots, eng.row, k)
  BY DEF ReplayInv, EngineInv
<1>4. eng' = [eng EXCEPT !.slots = more] /\ writer' = [writer EXCEPT !.at = "commit"]
      /\ reader' = reader
  <2>1. writer.new = 1 - eng.row
    BY <1>1
  <2>. QED BY <2>1 DEF InsertEdge
<1>5. /\ eng' = [row |-> eng.row, slots |-> more, status |-> eng.status]
      /\ eng'.slots = more /\ eng'.row = eng.row /\ eng'.status = eng.status
  BY <1>2, <1>4
<1>6. /\ slot \in Slot /\ slot.ins = writer.x /\ slot.del = 0 /\ slot.v = 1 - eng.row
      /\ writer.x \in 1..Len(eng.status)
  BY <1>1, <1>2 DEF Slot
<1>. HIDE DEF slot
<1>7. /\ more \in Seq(Slot) /\ n \in Nat /\ DOMAIN more = 1..n /\ more[n] = slot
      /\ DOMAIN eng.slots = 1..n - 1
      /\ \A i \in 1..n - 1 : more[i] = eng.slots[i]
  BY <1>2, <1>6
<1>. HIDE DEF more, n
<1>8. Known(eng.slots)'
  <2>1. ASSUME NEW i \in 1..n
        PROVE  more[i].ins \in 1..Len(eng.status) /\ more[i].del \in 0..Len(eng.status)
    <3>1. CASE i = n
      BY <1>2, <1>6, <1>7, <3>1
    <3>2. CASE i # n
      <4>1. i \in DOMAIN eng.slots /\ more[i] = eng.slots[i]
        BY <1>7, <2>1, <3>2
      <4>. QED BY <1>2, <4>1
    <3>. QED BY <3>1, <3>2
  <2>. QED BY <1>5, <1>7, <2>1 DEF Known
<1>9. ~Out(eng.status, slot)
  BY <1>1, <1>6 DEF Out, Committed
<1>10. \A i \in 1..n : SlotVisible(eng.slots[i])' <=> i # n /\ SlotVisible(eng.slots[i])
  <2>1. \A i \in 1..n : i # n => i \in 1..n - 1
    BY <1>7
  <2>2. \A i \in 1..n : Out(eng.status, more[i]) <=> i # n /\ Out(eng.status, eng.slots[i])
    BY <1>7, <1>9, <2>1
  <2>. QED BY <1>5, <2>2 DEF SlotVisible, Committed, Out
<1>11. OneVisible(eng.slots, eng.row, k)'
  <2>1. k \in 1..n /\ k # n /\ \A i \in 1..n : i # n => i \in DOMAIN eng.slots
    BY <1>7
  <2>. QED BY <1>3, <1>5, <1>7, <1>10, <2>1 DEF OneVisible
<1>12. EngineInv'
  BY <1>2, <1>5, <1>8, <1>11 DEF EngineInv, OneVisible
<1>13. ReaderInv'
  BY <1>4, <1>5, SameIsQuiet, ReaderQuiet DEF ReplayInv
<1>14. WriterInv'
  <2>1. writer' = [at |-> "commit", x |-> writer.x, old |-> eng.row, new |-> 1 - eng.row]
    BY <1>1, <1>4
  <2>2. writer'.x \in DOMAIN eng'.status /\ ~Committed(writer.x)'
    BY <1>1, <1>5, <2>1 DEF Committed
  <2>3. \A i \in 1..n : i # n => i \in DOMAIN eng.slots
    BY <1>7
  <2>4. \A i \in DOMAIN eng'.slots : SlotVisible(eng.slots[i])' => eng'.slots[i].del = writer.x
    BY <1>1, <1>5, <1>7, <1>10, <2>3
  <2>5. \A i \in DOMAIN eng'.slots : eng'.slots[i].ins = writer.x => i = n
    BY <1>1, <1>5, <1>7, <2>3
  <2>6. n \in DOMAIN eng'.slots /\ eng'.slots[n] = slot
    BY <1>5, <1>7
  <2>. QED BY <1>5, <1>6, <2>1, <2>2, <2>4, <2>5, <2>6 DEF WriterInv
<1>. QED BY <1>12, <1>13, <1>14 DEF ReplayInv

LEMMA CommitStep == ReplayInv /\ CommitWrite => ReplayInv'
<1>. SUFFICES ASSUME ReplayInv, CommitWrite PROVE ReplayInv'
  OBVIOUS
<1>. DEFINE x == writer.x
<1>1. /\ writer = [at |-> "commit", x |-> writer.x, old |-> eng.row, new |-> 1 - eng.row]
      /\ x \in DOMAIN eng.status /\ ~Committed(x)
      /\ \A i \in DOMAIN eng.slots : SlotVisible(eng.slots[i]) => eng.slots[i].del = x
  BY DEF CommitWrite, ReplayInv, WriterInv, AtRest
<1>2. /\ eng = [row |-> eng.row, slots |-> eng.slots, status |-> eng.status]
      /\ eng.row \in {0, 1}
      /\ eng.status \in Seq({"running", "committed", "aborted"})
      /\ DOMAIN eng.status = 1..Len(eng.status) /\ Len(eng.status) \in Nat
      /\ Known(eng.slots)
      /\ \A i \in DOMAIN eng.slots : /\ eng.slots[i].ins \in 1..Len(eng.status)
                                    /\ eng.slots[i].del \in 0..Len(eng.status)
  BY DEF ReplayInv, EngineInv, Known
<1>0. writer.at = "commit" /\ writer.new = 1 - eng.row /\ writer # AtRest
  BY <1>1 DEF AtRest
<1>3. PICK k \in DOMAIN eng.slots :
        /\ eng.slots[k].ins = x /\ eng.slots[k].del = 0 /\ eng.slots[k].v = 1 - eng.row
        /\ \A i \in DOMAIN eng.slots : eng.slots[i].ins = x => i = k
  <2>1. \E k \in DOMAIN eng.slots :
          /\ eng.slots[k].ins = x /\ eng.slots[k].del = 0 /\ eng.slots[k].v = writer.new
          /\ \A i \in DOMAIN eng.slots : eng.slots[i].ins = x => i = k
    BY <1>0 DEF ReplayInv, WriterInv
  <2>. QED BY <1>0, <2>1
<1>4. /\ eng' = [eng EXCEPT !.row = writer.new, !.status[x] = "committed"]
      /\ writer' = AtRest /\ reader' = reader
  BY DEF CommitWrite
<1>5. /\ eng' = [row |-> 1 - eng.row, slots |-> eng.slots,
                 status |-> [eng.status EXCEPT ![x] = "committed"]]
      /\ eng'.row = 1 - eng.row /\ eng'.slots = eng.slots
      /\ eng'.status = [eng.status EXCEPT ![x] = "committed"]
  <2>1. eng' = [eng EXCEPT !.row = 1 - eng.row, !.status[x] = "committed"]
    BY <1>0, <1>4
  <2>. HIDE DEF x
  <2>. QED BY <1>2, <2>1
<1>6. /\ eng'.status \in Seq({"running", "committed", "aborted"})
      /\ Len(eng'.status) = Len(eng.status) /\ DOMAIN eng'.status = DOMAIN eng.status
  BY <1>1, <1>2, <1>5
<1>7. \A y \in DOMAIN eng.status : Committed(y)' <=> y = x \/ Committed(y)
  BY <1>1, <1>2, <1>5 DEF Committed
<1>. HIDE DEF x
<1>8. ASSUME NEW i \in DOMAIN eng.slots
      PROVE  SlotVisible(eng.slots[i])' <=> i = k
  <2>1. /\ eng.slots[i].ins \in DOMAIN eng.status
        /\ eng.slots[i].del # 0 => eng.slots[i].del \in DOMAIN eng.status
    BY <1>2
  <2>2. /\ Committed(eng.slots[i].ins)' <=> eng.slots[i].ins = x \/ Committed(eng.slots[i].ins)
        /\ eng.slots[i].del # 0 =>
             (Committed(eng.slots[i].del)' <=> eng.slots[i].del = x \/ Committed(eng.slots[i].del))
    BY <1>5, <1>7, <2>1 DEF Committed
  <2>3. SlotVisible(eng.slots[i])' <=>
          /\ eng.slots[i].ins = x \/ Committed(eng.slots[i].ins)
          /\ ~(eng.slots[i].del # 0 /\ (eng.slots[i].del = x \/ Committed(eng.slots[i].del)))
    BY <1>5, <2>2 DEF SlotVisible, Committed
  <2>4. x # 0
    BY <1>1, <1>2
  <2>. QED BY <1>1, <1>3, <2>3, <2>4 DEF SlotVisible
<1>9. OneVisible(eng.slots, eng.row, k)'
  BY <1>3, <1>5, <1>8 DEF OneVisible
<1>10. Known(eng.slots)'
  BY <1>2, <1>5, <1>6 DEF Known
<1>11. EngineInv'
  BY <1>2, <1>5, <1>6, <1>9, <1>10 DEF EngineInv, OneVisible
<1>12. Commits' = Commits + 1
  <2>1. CommittedIds' = CommittedIds \cup {x} /\ x \notin CommittedIds
    BY <1>1, <1>6, <1>7 DEF CommittedIds, Committed
  <2>2. Cardinality(CommittedIds') = Cardinality(CommittedIds) + 1
    BY <2>1, CommitsFinite, FS_AddElement DEF ReplayInv
  <2>. QED BY <2>2 DEF Commits, CommittedIds
<1>13. Commits \in Nat
  BY CommitsFinite DEF ReplayInv
<1>14. ReaderInv'
  <2>1. CASE reader = AtRest
    BY <1>4, <2>1 DEF ReaderInv
  <2>2. CASE reader # AtRest
    <3>1. reader.commits \in Nat /\ reader.commits <= Commits
      BY <2>2 DEF ReplayInv, ReaderInv
    <3>2. reader.commits <= Commits' /\ Commits' # reader.commits
      BY <1>12, <1>13, <3>1
    <3>3. CASE reader.at = "graph"
      BY <1>4, <2>2, <3>1, <3>2, <3>3 DEF ReplayInv, ReaderInv
    <3>4. CASE reader.at = "slot"
      <4>1. /\ reader = [at |-> "slot", row |-> reader.row, commits |-> reader.commits,
                         slots |-> reader.slots, i |-> reader.i, seen |-> reader.seen]
            /\ Known(reader.slots) /\ reader.i \in Nat \ {0}
        BY <2>2, <3>4 DEF ReplayInv, ReaderInv
      <4>2. Known(reader.slots)'
        BY <1>4, <1>6, <4>1 DEF Known
      <4>. QED BY <1>4, <3>1, <3>2, <4>1, <4>2 DEF ReaderInv
    <3>. QED BY <2>2, <3>3, <3>4 DEF ReplayInv, ReaderInv
  <2>. QED BY <2>1, <2>2
<1>15. WriterInv'
  BY <1>4 DEF WriterInv
<1>. QED BY <1>11, <1>14, <1>15 DEF ReplayInv

LEMMA RollBackStep == ReplayInv /\ RollBack => ReplayInv'
<1>. SUFFICES ASSUME ReplayInv, RollBack PROVE ReplayInv'
  OBVIOUS
<1>. DEFINE x == writer.x
<1>1. x \in DOMAIN eng.status /\ ~Committed(x)
  BY DEF RollBack, ReplayInv, WriterInv
<1>2. /\ eng = [row |-> eng.row, slots |-> eng.slots, status |-> eng.status]
      /\ eng.status \in Seq({"running", "committed", "aborted"})
  BY DEF ReplayInv, EngineInv
<1>3. /\ eng' = [eng EXCEPT !.status[x] = "aborted"]
      /\ writer' = AtRest /\ reader' = reader
  BY DEF RollBack
<1>. HIDE DEF x
<1>4. /\ eng'.row = eng.row /\ eng'.status = [eng.status EXCEPT ![x] = "aborted"]
      /\ eng' = [eng EXCEPT !.status = eng'.status]
  BY <1>2, <1>3
<1>5. /\ eng'.status \in Seq({"running", "committed", "aborted"})
      /\ Len(eng'.status) = Len(eng.status) /\ Len(eng.status) \in Nat
      /\ DOMAIN eng'.status = DOMAIN eng.status
  BY <1>1, <1>2, <1>4
<1>6. Quiet
  BY <1>1, <1>2, <1>4, <1>5 DEF Quiet, Committed
<1>7. EngineInv' /\ ReaderInv'
  BY <1>3, <1>4, <1>5, <1>6, EngineQuiet, ReaderQuiet DEF ReplayInv
<1>. QED BY <1>3, <1>7 DEF ReplayInv, WriterInv

LEMMA CrashStep == ReplayInv /\ CrashRestart => ReplayInv'
<1>. SUFFICES ASSUME ReplayInv, CrashRestart PROVE ReplayInv'
  OBVIOUS
<1>. DEFINE ended == [x \in DOMAIN eng.status |->
                        IF eng.status[x] = "running" THEN "aborted" ELSE eng.status[x]]
<1>1. /\ eng = [row |-> eng.row, slots |-> eng.slots, status |-> eng.status]
      /\ eng.status \in Seq({"running", "committed", "aborted"})
      /\ DOMAIN eng.status = 1..Len(eng.status) /\ Len(eng.status) \in Nat
  BY DEF ReplayInv, EngineInv
<1>2. /\ eng' = [eng EXCEPT !.status = ended]
      /\ writer' = AtRest /\ reader' = AtRest
  BY DEF CrashRestart
<1>3. /\ eng'.row = eng.row /\ eng'.status = ended
      /\ eng' = [eng EXCEPT !.status = eng'.status]
  BY <1>1, <1>2
<1>4. \A x \in DOMAIN eng.status : ended[x] \in {"running", "committed", "aborted"}
  BY <1>1
<1>5. \A x \in DOMAIN eng.status : ended[x] = "committed" <=> eng.status[x] = "committed"
  OBVIOUS
<1>6. ended = [x \in 1..Len(eng.status) |-> ended[x]] /\ DOMAIN ended = DOMAIN eng.status
  BY <1>1
<1>. HIDE DEF ended
<1>7. ended \in Seq({"running", "committed", "aborted"}) /\ Len(ended) = Len(eng.status)
  <2>1. ended \in [1..Len(eng.status) -> {"running", "committed", "aborted"}]
    BY <1>1, <1>4, <1>6
  <2>. QED BY <1>1, <2>1
<1>8. Quiet
  BY <1>1, <1>3, <1>5, <1>6, <1>7 DEF Quiet, Committed
<1>9. EngineInv'
  BY <1>3, <1>7, <1>8, EngineQuiet DEF ReplayInv
<1>. QED BY <1>2, <1>9 DEF ReplayInv, WriterInv, ReaderInv

LEMMA JudgedReader ==
  ASSUME NEW r, NEW i, NEW seen,
         r = [at |-> "slot", row |-> r.row, commits |-> r.commits, slots |-> r.slots,
              i |-> r.i, seen |-> r.seen]
  PROVE  [r EXCEPT !.i = i, !.seen = seen] =
           [at |-> "slot", row |-> r.row, commits |-> r.commits, slots |-> r.slots,
            i |-> i, seen |-> seen]
<1>. DEFINE q == [r EXCEPT !.i = i]
<1>1. q = [at |-> "slot", row |-> r.row, commits |-> r.commits, slots |-> r.slots,
           i |-> i, seen |-> r.seen]
  OBVIOUS
<1>2. [r EXCEPT !.i = i, !.seen = seen] = [q EXCEPT !.seen = seen]
  OBVIOUS
<1>. HIDE DEF q
<1>. QED BY <1>1, <1>2

LEMMA ReadStep ==
  ASSUME ReplayInv, ReadRow \/ CopySlots \/ JudgeSlot \/ EndRead
  PROVE  ReplayInv'
<1>1. /\ UNCHANGED <<eng, writer>>
      /\ Commits' = Commits /\ Commits \in Nat
  BY CommitsFinite DEF ReplayInv, ReadRow, CopySlots, JudgeSlot, EndRead, Commits, Committed
<1>2. EngineInv' /\ WriterInv'
  <2>1. EngineInv'
    BY <1>1 DEF ReplayInv, EngineInv, Known, OneVisible, SlotVisible, Committed
  <2>2. WriterInv'
    BY <1>1 DEF ReplayInv, WriterInv, SlotVisible, Committed
  <2>. QED BY <2>1, <2>2
<1>3. CASE ReadRow
  <2>1. reader' = [at |-> "graph", row |-> eng.row, commits |-> Commits]
    BY <1>3 DEF ReadRow, Commits
  <2>2. ReaderInv'
    BY <1>1, <2>1 DEF ReaderInv
  <2>. QED BY <1>2, <2>2 DEF ReplayInv
<1>4. CASE CopySlots
  <2>1. /\ reader.commits \in Nat /\ reader.commits <= Commits
        /\ Commits = reader.commits => reader.row = eng.row
    BY <1>4 DEF CopySlots, ReplayInv, ReaderInv, AtRest
  <2>2. reader' = [at |-> "slot", row |-> reader.row, commits |-> reader.commits,
                   slots |-> eng.slots, i |-> 1, seen |-> None]
    BY <1>4 DEF CopySlots
  <2>3. Known(eng.slots)' /\ \E k \in DOMAIN eng.slots : OneVisible(eng.slots, eng.row, k)'
    BY <1>1 DEF ReplayInv, EngineInv, Known, OneVisible, SlotVisible, Committed
  <2>4. \A k \in DOMAIN eng.slots : ~(k < 1)
    BY DEF ReplayInv, EngineInv, Known
  <2>5. Known(reader.slots)'
    BY <1>1, <2>2, <2>3 DEF Known
  <2>6. Commits' = reader'.commits =>
          \E k \in DOMAIN reader'.slots :
            /\ OneVisible(reader.slots, reader.row, k)'
            /\ reader'.seen = IF k < reader'.i THEN reader'.row ELSE None
    BY <1>1, <2>1, <2>2, <2>3, <2>4 DEF OneVisible, SlotVisible, Committed
  <2>7. /\ reader' = [at |-> "slot", row |-> reader'.row, commits |-> reader'.commits,
                      slots |-> reader'.slots, i |-> reader'.i, seen |-> reader'.seen]
        /\ reader'.commits \in Nat /\ reader'.commits <= Commits' /\ reader'.i \in Nat \ {0}
    BY <1>1, <2>1, <2>2
  <2>8. ReaderInv'
    BY <2>5, <2>6, <2>7 DEF ReaderInv
  <2>. QED BY <1>2, <2>8 DEF ReplayInv
<1>5. CASE JudgeSlot
  <2>1. /\ reader = [at |-> "slot", row |-> reader.row, commits |-> reader.commits,
                     slots |-> reader.slots, i |-> reader.i, seen |-> reader.seen]
        /\ reader.commits \in Nat /\ reader.commits <= Commits
        /\ Known(reader.slots) /\ reader.i \in Nat \ {0}
        /\ Commits = reader.commits =>
             \E k \in DOMAIN reader.slots :
               /\ OneVisible(reader.slots, reader.row, k)
               /\ reader.seen = IF k < reader.i THEN reader.row ELSE None
    BY <1>5 DEF JudgeSlot, ReplayInv, ReaderInv, AtRest
  <2>. DEFINE s == reader.slots[reader.i]
              seen == IF reader.seen = None /\ SlotVisible(s) THEN s.v ELSE reader.seen
  <2>2. /\ reader' = [reader EXCEPT !.i = reader.i + 1, !.seen = seen]
        /\ reader.i <= Len(reader.slots)
    BY <1>5 DEF JudgeSlot
  <2>3. seen = IF reader.seen = None /\ SlotVisible(s) THEN s.v ELSE reader.seen
    OBVIOUS
  <2>. HIDE DEF seen
  <2>4. /\ reader' = [at |-> "slot", row |-> reader.row, commits |-> reader.commits,
                      slots |-> reader.slots, i |-> reader.i + 1, seen |-> seen]
        /\ reader'.row = reader.row /\ reader'.commits = reader.commits
        /\ reader'.slots = reader.slots /\ reader'.i = reader.i + 1 /\ reader'.seen = seen
    <3>1. reader' = [at |-> "slot", row |-> reader.row, commits |-> reader.commits,
                     slots |-> reader.slots, i |-> reader.i + 1, seen |-> seen]
      BY <2>1, <2>2, JudgedReader
    <3>. QED BY ONLY <3>1
  <2>5. Known(reader.slots)'
    BY <1>1, <2>1, <2>4 DEF Known
  <2>6. ASSUME Commits' = reader'.commits
        PROVE  \E k \in DOMAIN reader'.slots :
                 /\ OneVisible(reader.slots, reader.row, k)'
                 /\ reader'.seen = IF k < reader'.i THEN reader'.row ELSE None
    <3>1. PICK k \in DOMAIN reader.slots :
            /\ OneVisible(reader.slots, reader.row, k)
            /\ reader.seen = IF k < reader.i THEN reader.row ELSE None
      BY <1>1, <2>1, <2>4, <2>6
    <3>2. OneVisible(reader.slots, reader.row, k)'
      BY <1>1, <2>4, <3>1 DEF OneVisible, SlotVisible, Committed
    <3>3. k \in Nat /\ reader.i \in Nat
      BY <2>1 DEF Known
    <3>4. CASE k = reader.i
      <4>1. SlotVisible(s) /\ s.v = reader.row /\ reader.seen = None
        BY <3>1, <3>3, <3>4 DEF OneVisible
      <4>2. seen = reader.row /\ k < reader.i + 1
        BY <2>3, <3>3, <3>4, <4>1
      <4>. QED BY <2>4, <3>1, <3>2, <4>2
    <3>5. CASE k # reader.i
      <4>1. reader.i = 0 \/ ~SlotVisible(s) \/ reader.seen # None
        <5>1. reader.i \in DOMAIN reader.slots \/ reader.i = 0
          BY <2>1, <2>2 DEF Known
        <5>. QED BY <3>1, <3>5, <5>1 DEF OneVisible
      <4>2. reader.i # 0
        BY <2>1
      <4>3. seen = reader.seen
        BY <2>3, <4>1, <4>2
      <4>4. k < reader.i + 1 <=> k < reader.i
        BY <3>3, <3>5
      <4>. QED BY <2>4, <3>1, <3>2, <4>3, <4>4
    <3>. QED BY <3>4, <3>5
  <2>7. ReaderInv'
    BY <1>1, <2>1, <2>4, <2>5, <2>6 DEF ReaderInv
  <2>. QED BY <1>2, <2>7 DEF ReplayInv
<1>6. CASE EndRead
  BY <1>2, <1>6 DEF EndRead, ReplayInv, ReaderInv
<1>. QED BY <1>3, <1>4, <1>5, <1>6

LEMMA ReplayStep ==
  ASSUME ReplayInv, [Next]_<<recorderVars, crossVars>>
  PROVE  ReplayInv'
<1>1. CASE UNCHANGED <<eng, writer, reader>>
  <2>1. Commits' = Commits
    BY <1>1 DEF Commits, Committed
  <2>2. EngineInv'
    BY <1>1 DEF ReplayInv, EngineInv, Known, OneVisible, SlotVisible, Committed
  <2>3. WriterInv'
    BY <1>1 DEF ReplayInv, WriterInv, SlotVisible, Committed
  <2>4. ReaderInv'
    BY <1>1, <2>1 DEF ReplayInv, ReaderInv, Known, OneVisible, SlotVisible, Committed
  <2>. QED BY <2>2, <2>3, <2>4 DEF ReplayInv
<1>2. \/ WriteRow \/ TombstoneEdge \/ InsertEdge \/ CommitWrite \/ RollBack \/ CrashRestart
      \/ ReadRow \/ CopySlots \/ JudgeSlot \/ EndRead
      \/ UNCHANGED <<eng, writer, reader>>
  BY DEF Next, crossVars, Replay, WriteOther, engineVars, NextArchitecture,
     MsWrite, MsCommitLeg, MsInjected, MsRead, MsReadLeg, MsEndRead
<1>. QED BY <1>1, <1>2, WriteRowStep, TombstoneStep, InsertStep, CommitStep, RollBackStep,
     CrashStep, ReadStep

-----------------------------------------------------------------------------
(* The three stores.                                                       *)

\* A write has been to the stores before the one it is at, and unless one was
\* stopped half way the others still have the version before it.
LegsInv ==
  /\ multi \in [{"vector", "graph", "relational"} -> {0, 1}]
  /\ \/ /\ msWriter = AtRest
        /\ ~stopped => multi.vector = multi.graph /\ multi.graph = multi.relational
     \/ /\ msWriter = [at |-> msWriter.at, v |-> msWriter.v]
        /\ msWriter.at \in 1..3 /\ msWriter.v \in {0, 1}
        /\ \A i \in 1..3 : i < msWriter.at => multi[Legs[i]] = msWriter.v
        /\ ~stopped => \A i \in 1..3 : i >= msWriter.at => multi[Legs[i]] = 1 - msWriter.v

\* A read that has met no write has read what the stores have.
ReadingInv ==
  \/ msReader = AtRest
  \/ /\ msReader = [at |-> msReader.at, legs |-> msReader.legs, clean |-> msReader.clean,
                    writing |-> msReader.writing]
     /\ msReader.at \in 1..4
     /\ msReader.legs \in Seq({0, 1}) /\ Len(msReader.legs) = msReader.at - 1
     /\ msReader.clean \in BOOLEAN /\ msReader.writing \in BOOLEAN
     /\ msReader.clean /\ ~msReader.writing =>
          /\ msWriter = AtRest /\ ~stopped
          /\ \A i \in 1..3 : i < msReader.at => msReader.legs[i] = multi[Legs[i]]

StoresInv == LegsInv /\ ReadingInv

LEMMA LegNames ==
  /\ Legs[1] = "vector" /\ Legs[2] = "graph" /\ Legs[3] = "relational" /\ Len(Legs) = 3
  /\ \A i \in 1..3 : Legs[i] \in {"vector", "graph", "relational"}
  /\ \A i, j \in 1..3 : Legs[i] = Legs[j] => i = j
<1>1. Legs[1] = "vector" /\ Legs[2] = "graph" /\ Legs[3] = "relational" /\ Len(Legs) = 3
  BY DEF Legs
<1>2. \A i \in 1..3 : i = 1 \/ i = 2 \/ i = 3
  OBVIOUS
<1>3. \A i \in 1..3 : Legs[i] \in {"vector", "graph", "relational"}
  BY <1>1, <1>2
<1>4. \A i, j \in 1..3 : Legs[i] = Legs[j] => i = j
  BY <1>1, <1>2
<1>. QED BY <1>1, <1>3, <1>4

LEMMA StoresStart == CrossInit => StoresInv
<1>. SUFFICES ASSUME CrossInit PROVE StoresInv
  OBVIOUS
<1>1. /\ multi = [vector |-> 0, graph |-> 0, relational |-> 0]
      /\ msWriter = AtRest /\ msReader = AtRest
  BY DEF CrossInit
<1>2. multi \in [{"vector", "graph", "relational"} -> {0, 1}]
  BY <1>1
<1>. QED BY <1>1, <1>2 DEF StoresInv, LegsInv, ReadingInv

LEMMA MsWriteStep == StoresInv /\ MsWrite => StoresInv'
<1>. SUFFICES ASSUME StoresInv, MsWrite PROVE StoresInv'
  OBVIOUS
<1>1. /\ msWriter = AtRest /\ UNCHANGED <<multi, stopped>>
      /\ msWriter' = [at |-> 1, v |-> 1 - multi.relational]
      /\ msReader' = IF msReader = AtRest THEN AtRest ELSE [msReader EXCEPT !.writing = TRUE]
  BY DEF MsWrite
<1>2. /\ multi \in [{"vector", "graph", "relational"} -> {0, 1}]
      /\ {multi.vector, multi.graph, multi.relational} \subseteq {0, 1}
      /\ ~stopped => multi.vector = multi.graph /\ multi.graph = multi.relational
  <2>1. /\ multi \in [{"vector", "graph", "relational"} -> {0, 1}]
        /\ msWriter = AtRest /\ ~stopped =>
             multi.vector = multi.graph /\ multi.graph = multi.relational
    BY DEF StoresInv, LegsInv, AtRest
  <2>. QED BY <1>1, <2>1
<1>3. LegsInv'
  <2>1. /\ msWriter'.at = 1 /\ msWriter'.v = 1 - multi.relational
        /\ msWriter' = [at |-> msWriter'.at, v |-> msWriter'.v]
    BY <1>1
  <2>2. 1 - (1 - multi.relational) = multi.relational /\ 1 - multi.relational \in {0, 1}
    BY <1>2
  <2>3. ~stopped => \A i \in 1..3 : multi[Legs[i]] = multi.relational
    BY <1>2, LegNames
  <2>. QED BY <1>1, <1>2, <2>1, <2>2, <2>3 DEF LegsInv
<1>4. ReadingInv'
  <2>1. CASE msReader = AtRest
    BY <1>1, <2>1 DEF ReadingInv
  <2>2. CASE msReader # AtRest
    <3>1. msReader' = [at |-> msReader.at, legs |-> msReader.legs, clean |-> msReader.clean,
                       writing |-> TRUE]
      BY <1>1, <2>2 DEF StoresInv, ReadingInv
    <3>. QED BY <2>2, <3>1 DEF StoresInv, ReadingInv
  <2>. QED BY <2>1, <2>2
<1>. QED BY <1>3, <1>4 DEF StoresInv

\* While a write is under way, no read is without one.
LEMMA WritingIsSeen ==
  ASSUME StoresInv, msWriter # AtRest, UNCHANGED msReader
  PROVE  ReadingInv'
<1>1. CASE msReader = AtRest
  BY <1>1 DEF ReadingInv
<1>2. CASE msReader # AtRest
  BY <1>2 DEF StoresInv, ReadingInv
<1>. QED BY <1>1, <1>2

LEMMA MsCommitStep == StoresInv /\ MsCommitLeg => StoresInv'
<1>. SUFFICES ASSUME StoresInv, MsCommitLeg PROVE StoresInv'
  OBVIOUS
<1>. DEFINE k == msWriter.at
            v == msWriter.v
<1>1. /\ msWriter # AtRest /\ UNCHANGED msReader
      /\ multi' = [multi EXCEPT ![Legs[k]] = v]
      /\ msWriter' = IF k = 3 THEN AtRest ELSE [msWriter EXCEPT !.at = k + 1]
      /\ stopped' = (stopped /\ k # 3)
  BY LegNames DEF MsCommitLeg
<1>2. /\ multi \in [{"vector", "graph", "relational"} -> {0, 1}]
      /\ msWriter = [at |-> k, v |-> v] /\ k \in 1..3 /\ v \in {0, 1}
      /\ \A i \in 1..3 : i < k => multi[Legs[i]] = v
      /\ ~stopped => \A i \in 1..3 : i >= k => multi[Legs[i]] = 1 - v
  BY <1>1 DEF StoresInv, LegsInv
<1>. HIDE DEF k, v
<1>3. /\ multi' \in [{"vector", "graph", "relational"} -> {0, 1}]
      /\ \A i \in 1..3 : multi'[Legs[i]] = IF i = k THEN v ELSE multi[Legs[i]]
  BY <1>1, <1>2, LegNames
<1>4. \A i \in 1..3 : i < k + 1 => multi'[Legs[i]] = v
  BY <1>2, <1>3
<1>5. LegsInv'
  <2>1. CASE k = 3
    <3>1. \A i \in 1..3 : multi'[Legs[i]] = v
      BY <1>4, <2>1
    <3>2. multi'.vector = v /\ multi'.graph = v /\ multi'.relational = v
      BY <3>1, LegNames
    <3>. QED BY <1>1, <1>3, <2>1, <3>2 DEF LegsInv
  <2>2. CASE k # 3
    <3>1. msWriter' = [at |-> k + 1, v |-> v] /\ k + 1 \in 1..3
      BY <1>1, <1>2, <2>2
    <3>2. stopped' <=> stopped
      BY <1>1, <2>2
    <3>3. ~stopped => \A i \in 1..3 : i >= k + 1 => multi'[Legs[i]] = 1 - v
      <4>1. \A i \in 1..3 : i >= k + 1 => i >= k /\ i # k
        BY <1>2
      <4>. QED BY <1>2, <1>3, <4>1
    <3>. QED BY <1>2, <1>3, <1>4, <3>1, <3>2, <3>3 DEF LegsInv
  <2>. QED BY <2>1, <2>2
<1>. QED BY <1>1, <1>5, WritingIsSeen DEF StoresInv

LEMMA MsInjectedStep == StoresInv /\ MsInjected => StoresInv'
<1>. SUFFICES ASSUME StoresInv, MsInjected PROVE StoresInv'
  OBVIOUS
<1>1. LegsInv'
  BY DEF StoresInv, LegsInv, MsInjected
<1>. QED BY <1>1, WritingIsSeen DEF StoresInv, MsInjected

LEMMA MsReadStep == StoresInv /\ (MsRead \/ MsReadLeg \/ MsEndRead) => StoresInv'
<1>. SUFFICES ASSUME StoresInv, MsRead \/ MsReadLeg \/ MsEndRead PROVE StoresInv'
  OBVIOUS
<1>1. UNCHANGED <<multi, msWriter, stopped>>
  BY DEF MsRead, MsReadLeg, MsEndRead
<1>2. LegsInv'
  BY <1>1 DEF StoresInv, LegsInv
<1>3. CASE MsRead
  <2>1. msReader' = [at |-> 1, legs |-> <<>>, clean |-> ~stopped, writing |-> msWriter # AtRest]
    BY <1>3 DEF MsRead
  <2>2. /\ msReader'.at = 1 /\ msReader'.legs = <<>>
        /\ msReader'.clean = ~stopped /\ msReader'.writing = (msWriter # AtRest)
        /\ msReader' = [at |-> msReader'.at, legs |-> msReader'.legs, clean |-> msReader'.clean,
                        writing |-> msReader'.writing]
    BY <2>1
  <2>3. msReader'.clean /\ ~msReader'.writing => msWriter = AtRest /\ ~stopped
    BY <2>2, Zenon
  <2>4. msReader'.clean \in BOOLEAN /\ msReader'.writing \in BOOLEAN
    BY <2>2, Zenon
  <2>5. <<>> \in Seq({0, 1}) /\ Len(<<>>) = 0
    OBVIOUS
  <2>6. ReadingInv'
    BY <1>1, <2>2, <2>3, <2>4, <2>5 DEF ReadingInv
  <2>. QED BY <1>2, <2>6 DEF StoresInv
<1>4. CASE MsReadLeg
  <2>. DEFINE k == msReader.at
              more == Append(msReader.legs, multi[Legs[k]])
              clean == msReader.clean /\ ~stopped
              writing == msReader.writing \/ msWriter # AtRest
  <2>1. /\ msReader # AtRest /\ k <= 3
        /\ msReader' = [msReader EXCEPT !.at = k + 1, !.legs = more, !.clean = clean,
                                        !.writing = writing]
    BY <1>4, LegNames DEF MsReadLeg
  <2>2. /\ msReader = [at |-> k, legs |-> msReader.legs, clean |-> msReader.clean,
                       writing |-> msReader.writing]
        /\ k \in 1..3
        /\ msReader.legs \in Seq({0, 1}) /\ Len(msReader.legs) = k - 1
        /\ msReader.clean \in BOOLEAN /\ msReader.writing \in BOOLEAN
        /\ msReader.clean /\ ~msReader.writing =>
             /\ msWriter = AtRest /\ ~stopped
             /\ \A i \in 1..3 : i < k => msReader.legs[i] = multi[Legs[i]]
    BY <2>1 DEF StoresInv, ReadingInv
  <2>3. multi[Legs[k]] \in {0, 1}
    BY <2>2, LegNames DEF StoresInv, LegsInv
  <2>4. /\ more \in Seq({0, 1}) /\ Len(more) = k /\ more[k] = multi[Legs[k]]
        /\ \A i \in 1..3 : i < k => more[i] = msReader.legs[i]
    BY <2>2, <2>3
  <2>5. clean \in BOOLEAN /\ writing \in BOOLEAN
    OBVIOUS
  <2>6. clean /\ ~writing => msReader.clean /\ ~msReader.writing
    OBVIOUS
  <2>. HIDE DEF more, clean, writing, k
  <2>7. clean /\ ~writing =>
          /\ msWriter = AtRest /\ ~stopped
          /\ \A i \in 1..3 : i < k + 1 => more[i] = multi[Legs[i]]
    <3>1. \A i \in 1..3 : i < k + 1 => i < k \/ i = k
      BY <2>2
    <3>. QED BY <2>2, <2>4, <2>6, <3>1
  <2>8. msReader' = [at |-> k + 1, legs |-> more, clean |-> clean, writing |-> writing]
    BY <2>1, <2>2
  <2>9. ReadingInv'
    BY <1>1, <2>2, <2>4, <2>5, <2>7, <2>8 DEF ReadingInv
  <2>. QED BY <1>2, <2>9 DEF StoresInv
<1>5. CASE MsEndRead
  BY <1>2, <1>5 DEF MsEndRead, StoresInv, ReadingInv
<1>. QED BY <1>3, <1>4, <1>5

LEMMA StoresStep ==
  ASSUME StoresInv, [Next]_<<recorderVars, crossVars>>
  PROVE  StoresInv'
<1>1. CASE UNCHANGED <<multi, msWriter, msReader, stopped>>
  BY <1>1 DEF StoresInv, LegsInv, ReadingInv
<1>2. \/ MsWrite \/ MsCommitLeg \/ MsInjected \/ MsRead \/ MsReadLeg \/ MsEndRead
      \/ UNCHANGED <<multi, msWriter, msReader, stopped>>
  BY DEF Next, crossVars, Replay, others, WriteRow, WriteOther, TombstoneEdge, InsertEdge,
     CommitWrite, RollBack, CrashRestart, ReadRow, CopySlots, JudgeSlot, EndRead,
     NextArchitecture
<1>. QED BY <1>1, <1>2, MsWriteStep, MsCommitStep, MsInjectedStep, MsReadStep

-----------------------------------------------------------------------------
(* The tears.                                                              *)

LEMMA EngineTears ==
  ASSUME ReplayInv
  PROVE  /\ ~Torn(EngineRead)
         /\ Answered /\ Torn(EngineLegs) => Commits > reader.commits
<1>1. PICK i \in DOMAIN eng.slots : OneVisible(eng.slots, eng.row, i)
  BY DEF ReplayInv, EngineInv
<1>2. i \in Nat
  BY DEF ReplayInv, EngineInv, Known
<1>3. GraphVersion(eng.slots) = eng.row
  <2>1. {j \in DOMAIN eng.slots : SlotVisible(eng.slots[j])} = {i}
    BY <1>1 DEF OneVisible
  <2>2. Min({i}) = i
    BY <1>2 DEF Min
  <2>. QED BY <1>1, <2>1, <2>2 DEF GraphVersion, OneVisible
<1>4. ~Torn(EngineRead)
  BY <1>3 DEF EngineRead, Torn
<1>5. ASSUME Answered, Torn(EngineLegs) PROVE Commits > reader.commits
  <2>1. /\ reader.commits \in Nat /\ reader.commits <= Commits
        /\ Known(reader.slots) /\ reader.i \in Nat \ {0}
        /\ Commits = reader.commits =>
             \E k \in DOMAIN reader.slots :
               /\ OneVisible(reader.slots, reader.row, k)
               /\ reader.seen = IF k < reader.i THEN reader.row ELSE None
    BY <1>5 DEF Answered, ReplayInv, ReaderInv, AtRest
  <2>2. \A k \in DOMAIN reader.slots : k < reader.i
    BY <1>5, <2>1 DEF Answered, Known
  <2>3. reader.seen # reader.row
    BY <1>5 DEF EngineLegs, Torn
  <2>4. Commits # reader.commits
    BY <2>1, <2>2, <2>3
  <2>5. Commits \in Nat
    BY CommitsFinite DEF ReplayInv
  <2>. QED BY <2>1, <2>4, <2>5
<1>. QED BY <1>4, <1>5

LEMMA StoresTears ==
  ASSUME StoresInv
  PROVE  /\ msWriter = AtRest /\ ~stopped =>
              multi.vector = multi.graph /\ multi.graph = multi.relational
         /\ msWriter # AtRest /\ msWriter.at > 1 /\ ~stopped =>
              LET old == 1 - msWriter.v IN
              <<multi.vector, multi.graph, multi.relational>> =
                CommitObservations(<<old, old, old>>, msWriter.v, FALSE)[msWriter.at - 1]
         /\ msReader # AtRest /\ msReader.at > Len(Legs) /\ msReader.clean /\ ~msReader.writing =>
              ~Torn(msReader.legs)
<1>1. msWriter = AtRest /\ ~stopped => multi.vector = multi.graph /\ multi.graph = multi.relational
  BY DEF StoresInv, LegsInv, AtRest
<1>2. ASSUME msWriter # AtRest, msWriter.at > 1, ~stopped
      PROVE  <<multi.vector, multi.graph, multi.relational>> =
               CommitObservations(<<1 - msWriter.v, 1 - msWriter.v, 1 - msWriter.v>>,
                                  msWriter.v, FALSE)[msWriter.at - 1]
  <2>. DEFINE k == msWriter.at
              v == msWriter.v
              legs == <<1 - v, 1 - v, 1 - v>>
              seen == [i \in 1..3 |-> IF i <= k - 1 THEN v ELSE legs[i]]
  <2>1. /\ k \in 2..3
        /\ \A i \in 1..3 : i < k => multi[Legs[i]] = v
        /\ \A i \in 1..3 : i >= k => multi[Legs[i]] = 1 - v
    BY <1>2 DEF StoresInv, LegsInv
  <2>2. CommitObservations(legs, v, FALSE)[k - 1] = seen
    <3>1. k - 1 \in 1..3
      BY <2>1
    <3>. HIDE DEF k, v, legs
    <3>. QED BY <3>1, LegNames DEF CommitObservations
  <2>3. \A i \in 1..3 : legs[i] = 1 - v
    OBVIOUS
  <2>. HIDE DEF legs
  <2>4. \A i \in 1..3 : seen[i] = multi[Legs[i]]
    BY <2>1, <2>3
  <2>5. seen[1] = multi.vector /\ seen[2] = multi.graph /\ seen[3] = multi.relational
    BY <2>4, LegNames
  <2>6. seen = <<seen[1], seen[2], seen[3]>>
    OBVIOUS
  <2>. QED BY <2>2, <2>5, <2>6 DEF legs
<1>3. ASSUME msReader # AtRest, msReader.at > Len(Legs), msReader.clean, ~msReader.writing
      PROVE  ~Torn(msReader.legs)
  <2>1. /\ msReader.at = 4 /\ DOMAIN msReader.legs = 1..3
        /\ msWriter = AtRest /\ ~stopped
        /\ \A i \in 1..3 : msReader.legs[i] = multi[Legs[i]]
    BY <1>3, LegNames DEF StoresInv, ReadingInv
  <2>2. \A i \in 1..3 : multi[Legs[i]] = multi.vector
    BY <1>1, <2>1, LegNames
  <2>. QED BY <2>1, <2>2 DEF Torn
<1>. QED BY <1>1, <1>2, <1>3

\* For every window, every number of writes that fail and of crashes, and every
\* interleaving: the engine's legs agree in every instant, its reader's answer is
\* torn only if a write committed after the statement's snapshot, and three stores
\* differ only while a write is between two of them or after one was stopped there
\* (bench/wiki_consistency.py).
THEOREM TearsAlwaysHaveACause == Spec => []TearsHaveACause
<1>1. Init => ReplayInv /\ StoresInv
  BY ReplayStarts, StoresStart DEF Init
<1>2. ReplayInv /\ StoresInv /\ [Next]_<<recorderVars, crossVars>> => (ReplayInv /\ StoresInv)'
  BY ReplayStep, StoresStep
<1>3. ReplayInv /\ StoresInv => TearsHaveACause
  BY EngineTears, StoresTears DEF TearsHaveACause
<1>. QED BY <1>1, <1>2, <1>3, PTL DEF Spec

\* The two together, as the runs state them.
THEOREM EditsStaySound == Spec => []WindowAndTears
<1>1. WindowIsWhole /\ TearsHaveACause => WindowAndTears
  BY DEF WindowAndTears
<1>. QED BY <1>1, WindowsAreWhole, TearsAlwaysHaveACause, PTL

=============================================================================
