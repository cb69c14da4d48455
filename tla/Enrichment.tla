----------------------------- MODULE Enrichment -----------------------------
(***************************************************************************)
(* The enrichment routes of the wiki reader (tools/wiki_reader.py): the    *)
(* request threads that propose, accept and dismiss facts, and the SQLite  *)
(* overlay they share.  No lock is held across two steps: enrich reads its *)
(* sources, asks the model, reads the dismissed pairs, reads the accepted  *)
(* facts and registers each suggestion in turn; accept and dismiss claim,  *)
(* check, write and consume.                                               *)
(*                                                                         *)
(* A text is the set of spans (snippets and values) it contains; a key is  *)
(* a property and value, with the letters they are spelled in.             *)
(***************************************************************************)
EXTENDS Integers, FiniteSets, Sequences, SequencesExt, TLC

(***************************************************************************)
(* PendingSuggestions: the server's own copy of the suggestions it has     *)
(* shown, kept until an operator accepts or dismisses them.  Every method  *)
(* holds the store's lock, so each is one step.  An id is random in the    *)
(* code; here it is the number of registrations, so that insertion order   *)
(* is the order of the ids.                                                *)
(***************************************************************************)

CONSTANTS
  MaxEntries,   \* ENRICH_PENDING_MAX
  Ttl           \* ENRICH_PENDING_TTL_S

ASSUME PendingAssumption == MaxEntries \in Nat \ {0} /\ Ttl \in Nat \ {0}

VARIABLES
  entries,      \* _entries: what may still be accepted or dismissed
  inflight,     \* _inflight: ids a request has claimed
  nextId,       \* the next id to hand out
  now           \* the monotonic clock

pendingVars == <<entries, inflight, nextId, now>>

NoId == 0

Ids(E) == {e.id : e \in E}

PendingInit ==
  /\ entries = {}
  /\ inflight = {}
  /\ nextId = 1
  /\ now = 0

-----------------------------------------------------------------------------

Unclaimed(E) == {e \in E : e.id \notin inflight}

\* Mutant: the oldest go, in flight or not.
KeptNewest(E) ==
  {e \in E : Cardinality({f \in E : f.id < e.id}) >= Cardinality(E) - MaxEntries + 1}

\* Oldest first, until there is room for one more or all that is left is in
\* flight.
Kept(E) ==
  LET excess == Cardinality(E) - MaxEntries + 1
      older(e) == {f \in Unclaimed(E) : f.id < e.id}
  IN  {e \in E : e.id \in inflight \/ Cardinality(older(e)) >= excess}

Evicted == Kept({e \in entries : e.expires > now \/ e.id \in inflight})

\* A suggestion s (subject, source, key, snippet) takes the next id.
Register(s) ==
  /\ entries' = Evicted \cup
       {[id |-> nextId, expires |-> now + Ttl, subject |-> s.subject,
         source |-> s.source, key |-> s.key, snippet |-> s.snippet]}
  /\ nextId' = nextId + 1
  /\ UNCHANGED <<inflight, now>>

Claimable(id, subject) ==
  {e \in entries : e.id = id /\ e.expires > now /\ e.subject = subject}

\* Mutant: a claim does not look whether the id is in flight.
ClaimStatusBlind(id, subject) ==
  IF Claimable(id, subject) = {} THEN "unknown" ELSE "ok"

\* What claim answers: an id in flight is a replay, whatever the subject.
ClaimStatus(id, subject) ==
  IF id \in Ids(entries) /\ id \in inflight THEN "replay"
  ELSE IF Claimable(id, subject) = {} THEN "unknown"
  ELSE "ok"

Claim(id) ==
  /\ inflight' = inflight \cup {id}
  /\ UNCHANGED <<entries, nextId, now>>

Consume(id) ==
  /\ inflight' = inflight \ {id}
  /\ entries' = {e \in entries : e.id # id}
  /\ UNCHANGED <<nextId, now>>

Release(id) ==
  /\ inflight' = inflight \ {id}
  /\ UNCHANGED <<entries, nextId, now>>

\* The store lives in the process: a restart forgets it.
Forget ==
  /\ entries' = {}
  /\ inflight' = {}
  /\ UNCHANGED <<nextId, now>>

-----------------------------------------------------------------------------

CONSTANTS
  Threads,        \* request threads of ThreadingHTTPServer
  Subjects,       \* articles that are enriched
  SourceIds,      \* what _enrich_source_ids returns for them
  Spans,          \* what a text may contain
  RawFacts,       \* what the model may answer: [source, key, snippet]
  BadValues,      \* values that accept's validation refuses
  MaxRaw,         \* bound on one answer
  MaxIds,         \* bound on the suggestions registered
  MaxClock,       \* bound on the clock
  MaxCommitFails  \* bound on the commits that raise (busy, full)

ASSUME ThreadsAssumption == IsFiniteSet(Threads)
ASSUME IdsAssumption == MaxIds \in Nat

VARIABLES
  op,             \* what each thread is doing
  work,           \* its locals
  claimed,        \* the id it has in flight
  text,           \* the shards: article -> spans, or Missing
  overlay,        \* the two tables as the server's connection sees them
  stored,         \* the tables as last committed
  uses,           \* history: how often each id was answered with 200
  acked,          \* history: the decisions answered with 200
  commitFails     \* history: the commits that raised

historyVars == <<uses, acked>>
enrichVars == <<op, work, claimed, text, overlay, stored, historyVars, commitFails>>

SourceTexts == Subjects \cup SourceIds
Missing == {"missing"}
None == [key |-> "none"]

\* The letters of a key: "lower" when str.lower leaves it, "ASCII" when all its
\* capitals are ASCII, "other" when one is not (the E of "Evora" with its
\* accent).  str.lower lowers them all, SQLite's lower() the ASCII ones.
PyLower(key) == [key EXCEPT !.letters = "lower"]
SqlLower(key) == IF key.letters = "ASCII" THEN PyLower(key) ELSE key

EmptyOverlay == [facts |-> <<>>, dismissed |-> {}]

EnrichInit ==
  /\ PendingInit
  /\ op = [t \in Threads |-> "idle"]
  /\ work = [t \in Threads |-> None]
  /\ claimed = [t \in Threads |-> NoId]
  /\ text \in [SourceTexts -> {Spans}]
  /\ overlay = EmptyOverlay
  /\ stored = EmptyOverlay
  /\ uses = [id \in 1..MaxIds |-> 0]
  /\ acked = {}
  /\ commitFails = 0

Goto(t, next, locals) ==
  /\ op' = [op EXCEPT ![t] = next]
  /\ work' = [work EXCEPT ![t] = locals]

-----------------------------------------------------------------------------
(* Proposing.                                                              *)

\* The anti-hallucination gate: the snippet is a span of the source.
SnippetGrounded(snippet, spans) == spans # Missing /\ snippet \in spans

\* The model's answer is any sequence of facts, whatever it was shown; when
\* it fails, or answers no list, it is the empty one.
EnrichExtract == SeqOf(RawFacts, MaxRaw)

\* Sources whose shard is gone are left out; with none the model is not
\* asked.
EnrichRead(t, aid) ==
  LET sources == {i \in SourceIds : text[i] # Missing} IN
  \E raw \in IF sources = {} THEN {<<>>} ELSE EnrichExtract :
    /\ Goto(t, "dismissed",
            [aid |-> aid, raw |-> raw, target |-> text[aid],
             texts |-> [i \in sources |-> text[i]], decided |-> {},
             known |-> {a.key : a \in {b \in acked : b.subject = aid}}])
    /\ UNCHANGED <<pendingVars, claimed, text, overlay, stored, historyVars, commitFails>>

DismissedSet(aid) ==
  {PyLower(d.key) : d \in {e \in overlay.dismissed : e.subject = aid}}

AcceptedSet(aid) ==
  {PyLower(overlay.facts[i].key) :
     i \in {j \in DOMAIN overlay.facts : overlay.facts[j].subject = aid}}

EnrichDismissed(t) ==
  /\ op[t] = "dismissed"
  /\ Goto(t, "accepted", [work[t] EXCEPT !.decided = DismissedSet(work[t].aid)])
  /\ UNCHANGED <<pendingVars, claimed, text, overlay, stored, historyVars, commitFails>>

EnrichAccepted(t) ==
  /\ op[t] = "accepted"
  /\ Goto(t, "register", [work[t] EXCEPT !.decided = @ \cup AcceptedSet(work[t].aid)])
  /\ UNCHANGED <<pendingVars, claimed, text, overlay, stored, historyVars, commitFails>>

\* Mutant: pairs are compared as they are spelled.
SuggestedCased(w, f) ==
  /\ f.source \in DOMAIN w.texts
  /\ SnippetGrounded(f.snippet, w.texts[f.source])
  /\ f.key.value \notin w.target
  /\ f.key \notin w.decided

\* A raw fact becomes a suggestion if it names a source that was read, its
\* snippet is there, the target does not state it, and its pair was neither
\* dismissed nor accepted.
Suggested(w, f) ==
  /\ f.source \in DOMAIN w.texts
  /\ SnippetGrounded(f.snippet, w.texts[f.source])
  /\ f.key.value \notin w.target
  /\ PyLower(f.key) \notin w.decided

\* The loop goes on to the next fact that passes and registers it.
EnrichRegister(t) ==
  /\ op[t] = "register"
  /\ nextId <= MaxIds
  /\ \E i \in DOMAIN work[t].raw :
       LET f == work[t].raw[i] IN
       /\ Suggested(work[t], f)
       /\ \A j \in 1..(i - 1) : ~Suggested(work[t], work[t].raw[j])
       /\ Register([subject |-> work[t].aid, source |-> f.source, key |-> f.key,
                    snippet |-> f.snippet])
       /\ work' = [work EXCEPT ![t].raw = SubSeq(@, i + 1, Len(@))]
  /\ UNCHANGED <<op, claimed, text, overlay, stored, historyVars, commitFails>>

EnrichDone(t) ==
  /\ op[t] = "register"
  /\ \/ \A i \in DOMAIN work[t].raw : ~Suggested(work[t], work[t].raw[i])
     \/ nextId > MaxIds

-----------------------------------------------------------------------------
(* Deciding.                                                               *)

\* The claim that accept and dismiss share: 200, 400 or 409.
ClaimPending(t, id, subject, next) ==
  /\ ClaimStatus(id, subject) = "ok"
  /\ Claim(id)
  /\ claimed' = [claimed EXCEPT ![t] = id]
  /\ \E e \in Claimable(id, subject) :
       Goto(t, next, [subject |-> e.subject, source |-> e.source, key |-> e.key,
                      snippet |-> e.snippet,
                      table |-> IF next = "accept" THEN "facts" ELSE "dismissed"])
  /\ UNCHANGED <<text, overlay, stored, historyVars, commitFails>>

\* The fields are validated and the entry's source is loaded again: a bad
\* value, a source that is gone or that no longer holds the snippet retires
\* the suggestion with an error; an exception on the way releases it.
Acceptable(e) ==
  e.key.value \notin BadValues /\ SnippetGrounded(e.snippet, text[e.source])

AcceptSource(t) ==
  /\ op[t] = "accept"
  /\ \/ /\ Acceptable(work[t])
        /\ op' = [op EXCEPT ![t] = "write"]
     \/ /\ ~Acceptable(work[t])
        /\ op' = [op EXCEPT ![t] = "refuse"]
     \/ op' = [op EXCEPT ![t] = "release"]
  /\ UNCHANGED <<pendingVars, work, claimed, text, overlay, stored, historyVars, commitFails>>

\* Mutant: the stored pair is compared as it is spelled.
FactExistsCased(e) ==
  \E i \in DOMAIN overlay.facts :
    overlay.facts[i].subject = e.subject /\ overlay.facts[i].key = e.key

FactExists(e) ==
  \E i \in DOMAIN overlay.facts :
    /\ overlay.facts[i].subject = e.subject
    /\ SqlLower(overlay.facts[i].key) = PyLower(e.key)

\* execute, then commit, under the overlay's lock: when the commit raises,
\* the row stays in the connection's open transaction.
Written(t, tables) ==
  /\ overlay' = tables
  /\ \/ /\ stored' = tables
        /\ op' = [op EXCEPT ![t] = "consume"]
        /\ UNCHANGED commitFails
     \/ /\ commitFails < MaxCommitFails
        /\ commitFails' = commitFails + 1
        /\ op' = [op EXCEPT ![t] = "release"]
        /\ UNCHANGED stored

Fact(e) == [subject |-> e.subject, key |-> e.key, source |-> e.source,
            snippet |-> e.snippet]

\* A pair that is already there is not written, and nothing is committed.
AcceptWrite(t) ==
  /\ op[t] = "write"
  /\ \/ /\ ~FactExists(work[t])
        /\ Written(t, [overlay EXCEPT !.facts = Append(@, Fact(work[t]))])
     \/ /\ FactExists(work[t])
        /\ op' = [op EXCEPT ![t] = "consume"]
        /\ UNCHANGED <<overlay, stored, commitFails>>
  /\ UNCHANGED <<pendingVars, work, claimed, text, historyVars>>

DismissWrite(t) ==
  /\ op[t] = "dismiss"
  /\ Written(t, [overlay EXCEPT !.dismissed =
                   @ \cup {[subject |-> work[t].subject, key |-> work[t].key]}])
  /\ UNCHANGED <<pendingVars, work, claimed, text, historyVars>>

Acknowledge(t) ==
  /\ uses' = [uses EXCEPT ![claimed[t]] = @ + 1]
  /\ acked' = acked \cup {[subject |-> work[t].subject,
                           key |-> PyLower(work[t].key),
                           table |-> work[t].table]}

\* The last step of a decision, which retires or returns the suggestion; the
\* answer goes out with it.
Decided(t, code) ==
  LET id == claimed[t] IN
  /\ \/ op[t] = "consume" /\ code = 200 /\ Consume(id) /\ Acknowledge(t)
     \/ /\ op[t] = "refuse" /\ Consume(id)
        /\ code = IF work[t].key.value \in BadValues THEN 400 ELSE 409
        /\ UNCHANGED historyVars
     \/ op[t] = "release" /\ code = 500 /\ Release(id) /\ UNCHANGED historyVars
  /\ claimed' = [claimed EXCEPT ![t] = NoId]
  /\ Goto(t, "idle", None)
  /\ UNCHANGED <<text, overlay, stored, commitFails>>

-----------------------------------------------------------------------------
(* Around the threads.                                                     *)

\* A shard is extracted again, or clobbered, while the reader runs.
SourceChanges ==
  \E a \in SourceIds, new \in (SUBSET Spans) \cup {Missing} :
    /\ text' = [text EXCEPT ![a] = new]
    /\ UNCHANGED <<pendingVars, op, work, claimed, overlay, stored, historyVars, commitFails>>

Tick ==
  /\ now < MaxClock
  /\ now' = now + 1
  /\ UNCHANGED <<entries, inflight, nextId, enrichVars>>

\* The process dies and is started again: SQLite rolls its open transaction
\* back, the pending store is empty.
Restart ==
  /\ Forget
  /\ op' = [t \in Threads |-> "idle"]
  /\ work' = [t \in Threads |-> None]
  /\ claimed' = [t \in Threads |-> NoId]
  /\ overlay' = stored
  /\ UNCHANGED <<text, stored, historyVars, commitFails>>

=============================================================================
