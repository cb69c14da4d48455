---------------------------- MODULE EditRecorder ----------------------------
(***************************************************************************)
(* The recorder of a window of Wikidata edits                              *)
(* (tools/wikidata_record_edits.py): it follows a server-sent event        *)
(* stream, keeps the usable edits, and reconnects with the id of the last  *)
(* event it has seen.  An event is a frame of three lines, its id, its     *)
(* data and a blank; a connection may end after any of them, cleanly or    *)
(* not, and in the middle of the data.                                     *)
(***************************************************************************)
EXTENDS Naturals, Sequences, SequencesExt, FiniteSets

CONSTANTS
  Feed,       \* what the server has: [wiki, namespace, type, entity, rev]
  MaxEdits,   \* --edits, 0 for none
  Timed,      \* was --seconds given
  MaxBreaks   \* bound on the connections that end

VARIABLES
  conn,       \* the connection: [next, at, id, data], or Closed
  stats,      \* WindowStats
  file,       \* the lines of the JSONL file
  meta,       \* the sidecar that pins the window
  torn,       \* history: the events whose data arrived incomplete
  breaks      \* connections ended so far

recorderVars == <<conn, stats, file, meta, torn, breaks>>

NoId == 0
Closed == [next |-> 0, at |-> "closed", id |-> NoId, data |-> NoId]
NoPin == [events |-> "none"]

RecorderInit ==
  /\ conn = Closed
  /\ stats = [events |-> 0, edits |-> 0, first |-> NoId, last |-> NoId, lastId |-> NoId]
  /\ file = <<>>
  /\ meta = NoPin
  /\ torn = {}
  /\ breaks = 0

\* edit_from_change: an edit of an item with an integer revision.
EditFromChange(e) ==
  /\ e.wiki = "wikidatawiki" /\ e.namespace = 0 /\ e.type = "edit"
  /\ e.entity > 0 /\ e.rev > 0

EditLine(e) == [entity |-> e.entity, rev |-> e.rev]

\* The window is complete: edits counted, or time is up.
Complete(s) == MaxEdits # 0 /\ s.edits >= MaxEdits

\* A stream that is resumed wherever the server is.
ResumeAnywhere == {1} \cup {Len(Feed) + 1}

\* _open_stream: after the last id that was seen, or where the server is.
Resume == IF stats.lastId = NoId THEN 1..(Len(Feed) + 1) ELSE {stats.lastId + 1}

Connect ==
  /\ conn = Closed /\ meta = NoPin /\ ~Complete(stats) /\ breaks <= MaxBreaks
  /\ \E k \in Resume : conn' = [next |-> k, at |-> "id", id |-> NoId, data |-> NoId]
  /\ UNCHANGED <<stats, file, meta, torn, breaks>>

\* iter_sse_events yields one event and drain_stream consumes it: the cursor
\* moves before the data is looked at, and the edit is flushed before it counts.
Consume(id, whole) ==
  LET e    == Feed[id]
      edit == whole /\ EditFromChange(e)
  IN /\ stats' = [stats EXCEPT !.events = @ + 1, !.lastId = id,
                    !.first = IF whole /\ @ = NoId THEN id ELSE @,
                    !.last = IF whole THEN id ELSE @,
                    !.edits = IF edit THEN @ + 1 ELSE @]
     /\ file' = IF edit THEN Append(file, EditLine(e)) ELSE file
     /\ torn' = IF whole THEN torn ELSE torn \cup {id}

IdLine ==
  /\ conn.at = "id" /\ conn.next <= Len(Feed)
  /\ conn' = [conn EXCEPT !.at = "data", !.id = conn.next]
  /\ UNCHANGED <<stats, file, meta, torn, breaks>>

DataLine ==
  /\ conn.at = "data"
  /\ conn' = [conn EXCEPT !.at = "blank", !.data = conn.next]
  /\ UNCHANGED <<stats, file, meta, torn, breaks>>

\* The blank line ends the event; the window may close on it.
BlankLine ==
  /\ conn.at = "blank"
  /\ Consume(conn.id, TRUE)
  /\ \/ /\ ~Complete(stats')
        /\ conn' = [conn EXCEPT !.next = @ + 1, !.at = "id", !.id = NoId, !.data = NoId]
        /\ UNCHANGED meta
     \/ /\ Complete(stats') \/ Timed
        /\ conn' = Closed
        /\ meta' = [events |-> stats'.events, edits |-> stats'.edits, lastId |-> stats'.lastId,
                    first |-> stats'.first, last |-> stats'.last, interrupted |-> FALSE]
  /\ UNCHANGED breaks

\* The stream ends cleanly: an event that has data is yielded, whole or not.
StreamEnds ==
  /\ conn # Closed /\ breaks < MaxBreaks
  /\ breaks' = breaks + 1
  /\ conn' = Closed
  /\ \/ conn.at \in {"id", "data"} /\ UNCHANGED <<stats, file, torn>>
     \/ conn.at = "data" /\ Consume(conn.id, FALSE)
     \/ conn.at = "blank" /\ Consume(conn.id, TRUE)
  /\ UNCHANGED meta

\* The connection fails: what the frame had is dropped with the generator.
StreamDrops ==
  /\ conn # Closed /\ breaks < MaxBreaks
  /\ breaks' = breaks + 1
  /\ conn' = Closed
  /\ UNCHANGED <<stats, file, meta, torn>>

\* The loop's own test, between two connections, or Ctrl-C at any line.
CloseWindow ==
  /\ meta = NoPin
  /\ \E stop \in BOOLEAN :
       /\ ~stop => conn = Closed /\ (Complete(stats) \/ Timed)
       /\ meta' = [events |-> stats.events, edits |-> stats.edits, lastId |-> stats.lastId,
                   first |-> stats.first, last |-> stats.last, interrupted |-> stop]
  /\ conn' = Closed
  /\ UNCHANGED <<stats, file, torn, breaks>>

RecorderNext ==
  \/ Connect \/ IdLine \/ DataLine \/ BlankLine
  \/ StreamEnds \/ StreamDrops \/ CloseWindow

\* The events between the first that was read and the last that hold an edit,
\* less those cut short.
Sent ==
  IF stats.first = NoId THEN {}
  ELSE {i \in stats.first..stats.lastId : EditFromChange(Feed[i]) /\ i \notin torn}

\* The window has no gap, no repetition and no disorder, however the connections
\* ended: the file holds every usable edit from the first event that was read to
\* the last, in the order of the stream, except an event whose data was cut short
\* at the end of a stream; the pin counts the lines of the file
\* (tools/wikidata_record_edits.py: "nothing recorded is ever lost").
WindowIsWhole ==
  /\ Len(file) = Cardinality(Sent)
  /\ \A i \in Sent : file[Cardinality({j \in Sent : j <= i})] = EditLine(Feed[i])
  /\ stats.edits = Len(file)
  /\ meta # NoPin => meta.edits = Len(file) /\ meta.lastId = stats.lastId

=============================================================================
