----------------------------- MODULE CrossStore -----------------------------
(***************************************************************************)
(* One entity whose vector, out-edge and relational row must agree on a    *)
(* version, written and read at the same time (bench/wiki_consistency.py,  *)
(* bench/wikidata_consistency.py): in the engine by one transaction and    *)
(* one statement, across three stores by three commits and three reads.    *)
(*                                                                         *)
(* In the engine the row is read at the statement's snapshot.  The edge is *)
(* read through graph_store: a page of slots is copied, and each slot of   *)
(* the copy is judged by whether its transactions have committed by then.  *)
(***************************************************************************)
EXTENDS EditRecorder

CONSTANTS
  Draws,       \* the entities that a synthetic window draws, in order
  MaxFails     \* bound on the writes that are rolled back, stopped or crash

VARIABLES
  arch,        \* what is replayed: nothing yet, the engine, the three stores
  edits,       \* the window that is replayed
  window,      \* the edits of it that are left
  eng,         \* the engine: rows, slots, status of each transaction
  writer,      \* the engine's writer
  reader,      \* its reader
  multi,       \* the three stores
  msWriter,    \* their writer
  msReader,    \* their reader
  stopped,     \* history: a multi-store write was left half done
  fails        \* writes that failed so far

crossVars == <<arch, edits, window, eng, writer, reader, multi, msWriter, msReader, stopped, fails>>

Legs == <<"vector", "graph", "relational">>
None == 99                              \* no version: the read found no edge

\* torn: the legs disagree.
Torn(legs) == \E i, j \in DOMAIN legs : legs[i] # legs[j]

\* parse_edit and load_edits: the entries that have both numbers.
LoadEdits(lines) == SelectSeq(lines, LAMBDA e : e.entity > 0 /\ e.rev > 0)

\* synthetic_edits: each draw advances its entity by one revision.
SyntheticEdits(draw) ==
  [i \in DOMAIN draw |->
     [entity |-> draw[i], rev |-> Cardinality({j \in 1..i : draw[j] = draw[i]})]]

\* The most edited entity of the window is the one that is watched; the first of
\* two that are edited as often.
Hot(w) ==
  LET n(i) == Cardinality({j \in DOMAIN w : w[j].entity = w[i].entity})
      best == CHOOSE i \in DOMAIN w :
                \A j \in DOMAIN w : n(j) < n(i) \/ (n(j) = n(i) /\ i <= j)
  IN w[best].entity

-----------------------------------------------------------------------------
(* simulate: an observation of the legs after every commit. *)

\* _commit_observations: one for a transaction, one per store.
CommitObservations(legs, rev, atomic) ==
  IF atomic THEN << <<rev, rev, rev>> >>
  ELSE [k \in 1..Len(Legs) |-> [i \in 1..Len(Legs) |-> IF i <= k THEN rev ELSE legs[i]]]

Simulate(w, atomic) ==
  LET start == [legs |-> [q \in {w[i].entity : i \in DOMAIN w} |-> <<0, 0, 0>>],
                observations |-> 0, torn |-> 0]
      step(s, e) ==
        LET obs == CommitObservations(s.legs[e.entity], e.rev, atomic) IN
        [legs |-> [s.legs EXCEPT ![e.entity] = Last(obs)],
         observations |-> s.observations + Len(obs),
         torn |-> s.torn + Cardinality({i \in DOMAIN obs : Torn(obs[i])})]
  IN FoldLeft(step, start, w)

-----------------------------------------------------------------------------
(* The engine: the versions flip between 0 and 1, each with its own vertex. *)

\* engine_setup: every leg at version 0, by a transaction that committed.
EngineSetup ==
  [row |-> 0, slots |-> << [v |-> 0, ins |-> 1, del |-> 0] >>, status |-> <<"committed">>]

AtRest == [at |-> "idle"]

CrossInit ==
  /\ arch = "none" /\ edits = <<>> /\ window = <<>>
  /\ eng = EngineSetup
  /\ writer = AtRest
  /\ reader = AtRest
  /\ multi = [vector |-> 0, graph |-> 0, relational |-> 0]
  /\ msWriter = AtRest
  /\ msReader = AtRest
  /\ stopped = FALSE
  /\ fails = 0

\* A recorded window, once it is closed, or a synthetic one; an empty one is not
\* replayed.
Replay ==
  /\ arch = "none" /\ meta # NoPin
  /\ edits' \in {LoadEdits(file)} \cup {SyntheticEdits(d) : d \in Draws}
  /\ edits' # <<>>
  /\ window' = edits'
  /\ arch' = "engine"
  /\ UNCHANGED <<recorderVars, eng, writer, reader, multi, msWriter, msReader, stopped, fails>>

Committed(x) == eng.status[x] = "committed"

\* A slot's version is out there once its writer committed, until its deleter has.
SlotVisible(s) == Committed(s.ins) /\ ~(s.del # 0 /\ Committed(s.del))

\* The edge that a scan of the slots in one instant would give: the first.
GraphVersion(slots) ==
  LET seen == {i \in DOMAIN slots : SlotVisible(slots[i])}
  IN  IF seen = {} THEN None ELSE slots[Min(seen)].v

\* All three legs in one instant.
EngineRead == <<eng.row, GraphVersion(eng.slots), eng.row>>

others == <<recorderVars, arch, edits, multi, msWriter, msReader, stopped>>

\* engine_write, statement by statement, for the next edit of the window.
WriteRow ==
  /\ arch = "engine" /\ writer = AtRest /\ window # <<>> /\ Head(window).entity = Hot(edits)
  /\ LET x == Len(eng.status) + 1 IN
     /\ eng' = [eng EXCEPT !.status = Append(@, "running")]
     /\ writer' = [at |-> "tombstone", x |-> x, old |-> eng.row, new |-> 1 - eng.row]
  /\ UNCHANGED <<window, reader, others, fails>>

\* An edit of another entity touches neither this row nor its edges.
WriteOther ==
  /\ arch = "engine" /\ writer = AtRest /\ window # <<>> /\ Head(window).entity # Hot(edits)
  /\ window' = Tail(window)
  /\ UNCHANGED <<eng, writer, reader, others, fails>>

\* The mark replaces one whose transaction was rolled back.
TombstoneEdge ==
  /\ writer.at = "tombstone"
  /\ eng' = [eng EXCEPT !.slots = [i \in DOMAIN @ |->
               IF @[i].v = writer.old /\ SlotVisible(@[i]) THEN [@[i] EXCEPT !.del = writer.x]
               ELSE @[i]]]
  /\ writer' = [writer EXCEPT !.at = "insert"]
  /\ UNCHANGED <<window, reader, others, fails>>

InsertEdge ==
  /\ writer.at = "insert"
  /\ eng' = [eng EXCEPT !.slots = Append(@, [v |-> writer.new, ins |-> writer.x, del |-> 0])]
  /\ writer' = [writer EXCEPT !.at = "commit"]
  /\ UNCHANGED <<window, reader, others, fails>>

\* One commit makes the row and the slots visible.
CommitWrite ==
  /\ writer.at = "commit"
  /\ eng' = [eng EXCEPT !.row = writer.new, !.status[writer.x] = "committed"]
  /\ writer' = AtRest
  /\ window' = Tail(window)
  /\ UNCHANGED <<reader, others, fails>>

\* A rollback: the slots and their marks stay, and the transaction counts for
\* nothing.
RollBack ==
  /\ writer # AtRest /\ fails < MaxFails
  /\ fails' = fails + 1
  /\ eng' = [eng EXCEPT !.status[writer.x] = "aborted"]
  /\ writer' = AtRest
  /\ window' = Tail(window)
  /\ UNCHANGED <<reader, others>>

\* An immediate shutdown and recovery from the log: what was in flight counts for
\* nothing, and the reader's connection is gone.
CrashRestart ==
  /\ arch = "engine" /\ fails < MaxFails
  /\ fails' = fails + 1
  /\ eng' = [eng EXCEPT !.status = [x \in DOMAIN @ |->
               IF @[x] = "running" THEN "aborted" ELSE @[x]]]
  /\ writer' = AtRest
  /\ reader' = AtRest
  /\ window' = IF writer = AtRest THEN window ELSE Tail(window)
  /\ UNCHANGED others

\* The statement: the row at its snapshot, then a copy of the slots.
ReadRow ==
  /\ arch = "engine" /\ reader = AtRest
  /\ reader' = [at |-> "graph", row |-> eng.row,
                commits |-> Cardinality({x \in DOMAIN eng.status : Committed(x)})]
  /\ UNCHANGED <<window, eng, writer, others, fails>>

CopySlots ==
  /\ reader.at = "graph"
  /\ reader' = [at |-> "slot", row |-> reader.row, commits |-> reader.commits,
                slots |-> eng.slots, i |-> 1, seen |-> None]
  /\ UNCHANGED <<window, eng, writer, others, fails>>

\* Each slot is judged at its own instant; the first that is a version is taken.
JudgeSlot ==
  /\ reader.at = "slot" /\ reader.i <= Len(reader.slots)
  /\ LET s == reader.slots[reader.i] IN
     reader' = [reader EXCEPT !.i = @ + 1,
                              !.seen = IF @ = None /\ SlotVisible(s) THEN s.v ELSE @]
  /\ UNCHANGED <<window, eng, writer, others, fails>>

EngineLegs == <<reader.row, reader.seen, reader.row>>
Answered == reader.at = "slot" /\ reader.i > Len(reader.slots)

EndRead ==
  /\ Answered
  /\ reader' = AtRest
  /\ UNCHANGED <<window, eng, writer, others, fails>>

-----------------------------------------------------------------------------
(* The three stores: three commits, and three reads, at their own instants. *)

engineVars == <<recorderVars, edits, eng, writer, reader>>

\* The engine's replay is over before the stores begin theirs.
NextArchitecture ==
  /\ arch = "engine" /\ window = <<>> /\ writer = AtRest /\ reader = AtRest
  /\ arch' = "multi"
  /\ window' = SelectSeq(edits, LAMBDA e : e.entity = Hot(edits))
  /\ UNCHANGED <<engineVars, multi, msWriter, msReader, stopped, fails>>

\* MultiStore.write: each store commits by itself; a failure stops it between two.
MsWrite ==
  /\ arch = "multi" /\ msWriter = AtRest /\ window # <<>>
  /\ window' = Tail(window)
  /\ msWriter' = [at |-> 1, v |-> 1 - multi.relational]
  /\ msReader' = IF msReader = AtRest THEN AtRest ELSE [msReader EXCEPT !.writing = TRUE]
  /\ UNCHANGED <<engineVars, arch, multi, stopped, fails>>

MsCommitLeg ==
  /\ msWriter # AtRest
  /\ multi' = [multi EXCEPT ![Legs[msWriter.at]] = msWriter.v]
  /\ msWriter' = IF msWriter.at = Len(Legs) THEN AtRest ELSE [msWriter EXCEPT !.at = @ + 1]
  /\ stopped' = (stopped /\ msWriter.at # Len(Legs))
  /\ UNCHANGED <<engineVars, arch, window, msReader, fails>>

MsInjected ==
  /\ msWriter # AtRest /\ msWriter.at > 1 /\ fails < MaxFails
  /\ fails' = fails + 1
  /\ msWriter' = AtRest
  /\ stopped' = TRUE
  /\ UNCHANGED <<engineVars, arch, window, multi, msReader>>

MsRead ==
  /\ arch = "multi" /\ msReader = AtRest
  /\ msReader' = [at |-> 1, legs |-> <<>>, clean |-> ~stopped, writing |-> msWriter # AtRest]
  /\ UNCHANGED <<engineVars, arch, window, multi, msWriter, stopped, fails>>

MsReadLeg ==
  /\ msReader # AtRest /\ msReader.at <= Len(Legs)
  /\ msReader' = [msReader EXCEPT !.at = @ + 1, !.legs = Append(@, multi[Legs[msReader.at]]),
                                  !.clean = @ /\ ~stopped,
                                  !.writing = @ \/ msWriter # AtRest]
  /\ UNCHANGED <<engineVars, arch, window, multi, msWriter, stopped, fails>>

MsEndRead ==
  /\ msReader # AtRest /\ msReader.at > Len(Legs)
  /\ msReader' = AtRest
  /\ UNCHANGED <<engineVars, arch, window, multi, msWriter, stopped, fails>>

-----------------------------------------------------------------------------

Init == RecorderInit /\ CrossInit

Next ==
  \/ RecorderNext /\ UNCHANGED crossVars
  \/ Replay
  \/ WriteRow \/ WriteOther \/ TombstoneEdge \/ InsertEdge \/ CommitWrite
  \/ RollBack \/ CrashRestart
  \/ ReadRow \/ CopySlots \/ JudgeSlot \/ EndRead
  \/ NextArchitecture
  \/ MsWrite \/ MsCommitLeg \/ MsInjected \/ MsRead \/ MsReadLeg \/ MsEndRead

Spec == Init /\ [][Next]_<<recorderVars, crossVars>>

Commits == Cardinality({x \in DOMAIN eng.status : Committed(x)})

\* A tear has a cause, and no other cause than these.  In the engine the three
\* legs agree in every instant, also right after a rollback or a recovery, and a
\* statement is torn only when a write committed after it had taken its snapshot;
\* across the stores the legs part only while a write is between two of them, or
\* after one was stopped there, and then they part as the simulation says
\* (bench/wiki_consistency.py: scenarios 1 to 3).
TearsHaveACause ==
  /\ ~Torn(EngineRead)
  /\ Answered /\ Torn(EngineLegs) => Commits > reader.commits
  /\ msWriter = AtRest /\ ~stopped => multi.vector = multi.graph /\ multi.graph = multi.relational
  /\ msWriter # AtRest /\ msWriter.at > 1 /\ ~stopped =>
       LET old == 1 - msWriter.v IN
       <<multi.vector, multi.graph, multi.relational>> =
         CommitObservations(<<old, old, old>>, msWriter.v, FALSE)[msWriter.at - 1]
  /\ msReader # AtRest /\ msReader.at > Len(Legs) /\ msReader.clean /\ ~msReader.writing =>
       ~Torn(msReader.legs)

\* What is recorded has no gap, and what is replayed from it is torn for a cause
\* only (tools/wikidata_record_edits.py, bench/wiki_consistency.py).
WindowAndTears == WindowIsWhole /\ TearsHaveACause

\* The simulation says so too: with a transaction no observation of a replay is
\* torn, and across the stores at most two of an edit's are
\* (bench/wiki_consistency.py, simulate).
SimulationTears(w) ==
  /\ Simulate(w, TRUE).torn = 0
  /\ Simulate(w, FALSE).torn <= 2 * Len(w)

=============================================================================
