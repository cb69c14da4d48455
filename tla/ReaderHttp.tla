----------------------------- MODULE ReaderHttp -----------------------------
(***************************************************************************)
(* The wiki reader's server (tools/wiki_reader.py: the request bounds,     *)
(* make_handler, cmd_serve): how a request is admitted, the slots that     *)
(* bound the calls of the language model, and the threads of Enrichment    *)
(* behind it.                                                              *)
(*                                                                         *)
(* The text of a query parameter is its length and the integer it reads    *)
(* as, -1 when it is none: no range below holds -1.                        *)
(***************************************************************************)
EXTENDS Enrichment

CONSTANTS
  Gets, Posts,    \* the requests clients send
  Binds,          \* [loopback, allowed, tokenChars]: command line, environment
  MaxSlots        \* WIKI_READER_LLM_SLOTS

ASSUME SlotsAssumption == MaxSlots \in Nat

VARIABLES
  bind,           \* what the running server was started with
  slots           \* _LLM_SLOTS

httpVars == <<bind, slots>>
readerVars == <<pendingVars, enrichVars, httpVars>>

-----------------------------------------------------------------------------
(* Parameters: the set of values a parameter is read as, empty when it is  *)
(* rejected.                                                               *)

Supplied(qs, name) == IF name \in DOMAIN qs THEN qs[name] ELSE <<>>

\* Two values of one parameter are ambiguous.
OneValue(qs, name, default, Accepts(_), Reads(_)) ==
  LET raw == Supplied(qs, name) IN
  CASE raw = <<>>    -> {default}
    [] Len(raw) = 1  -> {Reads(r) : r \in {x \in {raw[1]} : Accepts(x)}}
    [] OTHER         -> {}

IntParam(qs, name, default, lo, hi) ==
  OneValue(qs, name, default, LAMBDA r : r.int \in lo..hi, LAMBDA r : r.int)

BoolParam(qs, name, default) ==
  OneValue(qs, name, default, LAMBDA r : r.chars = 1 /\ r.int \in {0, 1},
           LAMBDA r : r.int = 1)

TextParam(qs, name, max) ==
  OneValue(qs, name, 0, LAMBDA r : r.chars <= max, LAMBDA r : r.chars)

\* max_len = 0 means no upper bound.
LenRange(qs) ==
  \A lo \in IntParam(qs, "min_len", 0, 0, 10000000),
     hi \in IntParam(qs, "max_len", 0, 0, 10000000) : ~(0 < hi /\ hi < lo)

RangeParams(qs) ==
  /\ \A p \in {"min_indeg", "min_len", "max_len"} :
       IntParam(qs, p, 0, 0, 10000000) # {}
  /\ LenRange(qs)
  /\ TextParam(qs, "cat", 128) # {}

Query(qs) == TextParam(qs, "q", 512)

\* The bounds of each route, all checked before the reader is called.
Admitted(route, qs) ==
  CASE route = "/search" -> Query(qs) # {}
    [] route = "/ask" ->
         /\ Query(qs) \notin {{}, {0}}
         /\ BoolParam(qs, "expand", TRUE) # {}
         /\ IntParam(qs, "hops", 1, 0, 2) # {}
    [] route = "/search_semantic" ->
         Query(qs) # {} /\ IntParam(qs, "pool", 150, 1, 1000) # {} /\ RangeParams(qs)
    [] route = "/search_trimodal" ->
         /\ Query(qs) # {}
         /\ IntParam(qs, "seed", 40, 1, 200) # {}
         /\ BoolParam(qs, "expand", TRUE) # {}
         /\ RangeParams(qs)
    [] route = "/path" ->
         /\ \A p \in {"from", "to"} : TextParam(qs, p, 512) # {}
         /\ BoolParam(qs, "narrate", FALSE) # {}
    [] OTHER -> TRUE

Pages == {"/", "/read", "/random", "/search", "/search_semantic",
          "/search_trimodal", "/path"}
ById == {"/article", "/summary", "/related", "/related_fused", "/enrich"}
Routes == Pages \cup ById \cup {"/ask"}

\* An id in the path that is not an integer.
NotInt == -1

\* The routes that ask the language model: /path only to narrate.
AsksModel(r) ==
  \/ r.route \in {"/ask", "/enrich"}
  \/ r.route = "/path" /\ BoolParam(r.qs, "narrate", FALSE) = {TRUE}

-----------------------------------------------------------------------------
(* The command line.                                                       *)

\* main refuses a bind beyond loopback that was not confirmed, and
\* resolve_operator_token one whose token is absent or short.
MayServe(b) == b.loopback \/ (b.allowed /\ b.tokenChars >= 16)

\* Without a configured token a loopback server makes one, and embeds it in
\* the page it serves.
Generated(b) == b.loopback /\ b.tokenChars = 0

\* What the clients of the page, and those given the token, can supply.
CheckToken(r) == r.token = "operator" \/ (r.token = "page" /\ Generated(bind))

-----------------------------------------------------------------------------

Codes == {200, 400, 403, 404, 409, 413, 429, 500}

\* Answered with a code within the thread, by reads of the database and the
\* overlay alone.
Answered(code) == code \in Codes /\ UNCHANGED readerVars

GetRefused(r) ==
  \/ r.route \notin Routes /\ Answered(404)
  \/ r.route \in ById /\ r.id = NotInt /\ Answered(500)
  \/ ~Admitted(r.route, r.qs) /\ Answered(400)

Understood(r) ==
  /\ r.route \in Routes
  /\ r.route \in ById => r.id # NotInt
  /\ Admitted(r.route, r.qs)

GetRead(r) ==
  /\ Understood(r)
  /\ ~AsksModel(r) \/ r.route = "/path"     \* resolve or path found nothing
  /\ \E code \in {200, 500} : Answered(code)

GetBusy(r) ==
  /\ Understood(r) /\ AsksModel(r)
  /\ slots = 0
  /\ Answered(429)

AskModel(t, r) ==
  /\ Understood(r) /\ AsksModel(r)
  /\ slots > 0
  /\ slots' = slots - 1
  /\ \/ /\ r.route = "/enrich" /\ r.id \in Subjects
        /\ EnrichRead(t, r.id)
     \/ /\ r.route # "/enrich" \/ r.id \notin Subjects
        /\ Goto(t, "asking", None)
        /\ UNCHANGED <<pendingVars, claimed, text, overlay, stored, historyVars, commitFails>>
  /\ UNCHANGED bind

ModelOps == {"asking", "dismissed", "accepted", "register"}

\* Mutant: the slot is released on the way out only.
ModelAnsweredNoFinally(t, code) ==
  /\ \/ (op[t] = "asking" \/ EnrichDone(t)) /\ code = 200 /\ slots' = slots + 1
     \/ op[t] \in ModelOps /\ code = 500 /\ UNCHANGED slots
  /\ Goto(t, "idle", None)
  /\ UNCHANGED <<pendingVars, claimed, text, overlay, stored, historyVars, commitFails, bind>>

\* The slot is released in a finally clause: after the answer, and after any
\* exception on the way.
ModelAnswered(t, code) ==
  /\ \/ (op[t] = "asking" \/ EnrichDone(t)) /\ code = 200
     \/ op[t] \in ModelOps /\ code = 500
  /\ slots' = slots + 1
  /\ Goto(t, "idle", None)
  /\ UNCHANGED <<pendingVars, claimed, text, overlay, stored, historyVars, commitFails, bind>>

Mutations == {"/enrich/accept", "/enrich/dismiss"}

\* The refusals of do_POST in their order; a body that is not JSON is
\* answered like one that is too long.
PostCode(r) ==
  CASE r.length = "junk" -> 500
    [] r.length = "long" -> 413
    [] r.body.kind = "not JSON" -> 413
    [] r.route \in Mutations /\ ~CheckToken(r) -> 403
    [] r.route \notin Mutations -> 404
    [] r.body.kind = "no ids" -> 400
    [] ClaimStatus(r.body.id, r.body.subject) = "replay" -> 409
    [] ClaimStatus(r.body.id, r.body.subject) = "unknown" -> 400
    [] OTHER -> 200

PostRefused(r) == PostCode(r) # 200 /\ Answered(PostCode(r))

PostClaimed(t, r) ==
  /\ PostCode(r) = 200
  /\ ClaimPending(t, r.body.id, r.body.subject,
                  IF r.route = "/enrich/accept" THEN "accept" ELSE "dismiss")
  /\ UNCHANGED httpVars

PostAnswered(t, code) == Decided(t, code) /\ UNCHANGED httpVars

-----------------------------------------------------------------------------

ReaderInit ==
  /\ EnrichInit
  /\ bind \in {b \in Binds : MayServe(b)}
  /\ slots = MaxSlots

Receive(t) ==
  /\ op[t] = "idle"
  /\ \/ \E r \in Gets : \/ GetRefused(r) \/ GetRead(r) \/ GetBusy(r)
                        \/ AskModel(t, r)
     \/ \E r \in Posts : PostRefused(r) \/ PostClaimed(t, r)

\* A thread goes on with its request.
Continue(t) ==
  \/ /\ \/ EnrichDismissed(t) \/ EnrichAccepted(t) \/ EnrichRegister(t)
        \/ AcceptSource(t) \/ AcceptWrite(t) \/ DismissWrite(t)
     /\ UNCHANGED httpVars
  \/ \E code \in Codes : ModelAnswered(t, code) \/ PostAnswered(t, code)

ServerRestart ==
  /\ Restart
  /\ bind' \in {b \in Binds : MayServe(b)}
  /\ slots' = MaxSlots

ReaderNext ==
  \/ \E t \in Threads : Receive(t) \/ Continue(t)
  \/ (SourceChanges \/ Tick) /\ UNCHANGED httpVars
  \/ ServerRestart

ReaderSpec == ReaderInit /\ [][ReaderNext]_readerVars

-----------------------------------------------------------------------------
(* Correctness.                                                            *)

\* A suggestion is decided at most once: one accept or dismiss is answered
\* with success, however many requests carry its id, at once or in turn,
\* with failures between them (PendingSuggestions, 480-565).
OneUse == \A id \in 1..MaxIds : uses[id] <= 1

\* Each id in flight is in the store, in the hands of one thread, and only
\* the ids claimed at the time of a registration can push the store past its
\* bound (_evict_locked gives up when all are in flight, 504-515).
PendingSound ==
  /\ inflight \subseteq Ids(entries)
  /\ \A id \in inflight : Cardinality({t \in Threads : claimed[t] = id}) = 1
  /\ \A t \in Threads : claimed[t] # NoId => claimed[t] \in inflight
  /\ \/ Cardinality(entries) <= MaxEntries
     \/ Cardinality(entries) <= Cardinality(Threads)

\* The language model's slots are never lost and never exceeded, whatever
\* fails while one is held (3867-3935).
SlotsConserved == slots + Cardinality({t \in Threads : op[t] \in ModelOps}) = MaxSlots

\* What a decision answered with success left on disk.
Stored(a) ==
  IF a.table = "dismissed"
  THEN \E d \in stored.dismissed : d.subject = a.subject /\ PyLower(d.key) = a.key
  ELSE \E i \in DOMAIN stored.facts :
         stored.facts[i].subject = a.subject /\ PyLower(stored.facts[i].key) = a.key

\* "The id is consumed atomically only after a successful write (one-use)":
\* every decision answered with success is on disk (accept_fact, 2142-2149).
ConsumedIsWritten == \A a \in acked : Stored(a)

\* While no commit has raised, what was answered with success is on disk; and
\* of the pairs that SQLite lowers as Python does none is there twice, however
\* they are spelled, retries after a failed commit included (accept_fact,
\* 2142-2199).  A pair with a capital outside ASCII is, as often as accepted.
AckedIsStored ==
  /\ commitFails = 0 => ConsumedIsWritten
  /\ \A i, j \in DOMAIN stored.facts :
       /\ i # j
       /\ stored.facts[i].subject = stored.facts[j].subject
       /\ SqlLower(stored.facts[i].key) = PyLower(stored.facts[i].key)
       /\ SqlLower(stored.facts[j].key) = PyLower(stored.facts[j].key)
       => PyLower(stored.facts[i].key) # PyLower(stored.facts[j].key)

\* What was decided before an enrich request began is not registered by it
\* again, while no commit has raised (enrich, 2064-2101); what is decided while
\* the model answers may be.
DecidedStaysAway ==
  [][\A t \in Threads :
       op[t] = "register" /\ work'[t] # work[t] /\ commitFails = 0 =>
       \A e \in entries' \ entries : PyLower(e.key) \notin work[t].known]_readerVars

=============================================================================
