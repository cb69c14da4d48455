---------------------------- MODULE ReaderProofs ----------------------------
(***************************************************************************)
(* Proofs about the wiki reader's requests: the slots of the language      *)
(* model all come back, a suggestion is decided at most once, the store of *)
(* suggestions keeps its bound, a decision answered with success is on     *)
(* disk, and what was decided is not suggested again.                      *)
(***************************************************************************)
EXTENDS ReaderHttp, FiniteSetTheorems, WellFoundedInduction, TLAPS

\* What a thread that has claimed a suggestion may be doing.
Deciding == {"accept", "write", "dismiss", "consume", "refuse", "release"}

Ops == {"idle"} \cup ModelOps \cup Deciding

\* Every step of a thread is among these, and moves its own entry of op only.
OpsOK == op \in [Threads -> Ops]

LEMMA OpsInit == ReaderInit => OpsOK
  BY DEF ReaderInit, EnrichInit, OpsOK, Ops

\* One thread goes from one operation to another, or all are stopped, or none
\* moves.
OpStep ==
  \/ UNCHANGED op
  \/ op' = [t \in Threads |-> "idle"]
  \/ \E t \in Threads, next \in Ops : op' = [op EXCEPT ![t] = next]

LEMMA OpsStep == OpsOK /\ OpStep => OpsOK'
  BY DEF OpsOK, OpStep, Ops

-----------------------------------------------------------------------------
(* The slots.                                                              *)

Asking == {t \in Threads : op[t] \in ModelOps}

SlotInv == OpsOK /\ slots \in Int /\ SlotsConserved

LEMMA AskingFinite == IsFiniteSet(Asking) /\ Cardinality(Asking) \in Nat
<1>1. IsFiniteSet(Asking)
  BY ThreadsAssumption, FS_Subset DEF Asking
<1>. QED BY <1>1, FS_CardinalityType

\* A thread that moves among the operations that hold no slot, or among those
\* that do, leaves the threads that hold one as they are.
LEMMA AskingKept ==
  ASSUME OpsOK, NEW t \in Threads, NEW next \in Ops,
         op' = [op EXCEPT ![t] = next],
         (op[t] \in ModelOps) <=> (next \in ModelOps)
  PROVE  Asking' = Asking
  BY DEF Asking, OpsOK

LEMMA SlotTaken ==
  ASSUME SlotInv, NEW t \in Threads, NEW next \in ModelOps, op[t] = "idle",
         op' = [op EXCEPT ![t] = next], slots' = slots - 1
  PROVE  SlotInv'
<1>1. t \notin Asking
  BY DEF Asking, ModelOps
<1>2. Asking' = Asking \cup {t}
  BY DEF Asking, SlotInv, OpsOK
<1>3. Cardinality(Asking') = Cardinality(Asking) + 1
  BY <1>1, <1>2, AskingFinite, FS_AddElement
<1>4. OpsOK'
  BY OpsStep DEF SlotInv, OpStep, Ops
<1>5. Cardinality(Asking) \in Nat
  BY AskingFinite
<1>6. slots \in Int /\ slots + Cardinality(Asking) = MaxSlots
  BY DEF SlotInv, SlotsConserved, Asking
<1>7. slots' \in Int /\ slots' + Cardinality(Asking') = MaxSlots
  BY <1>3, <1>5, <1>6, SlotsAssumption
<1>. QED BY <1>4, <1>7 DEF SlotInv, SlotsConserved, Asking

LEMMA SlotReturned ==
  ASSUME SlotInv, NEW t \in Threads, op[t] \in ModelOps,
         op' = [op EXCEPT ![t] = "idle"], slots' = slots + 1
  PROVE  SlotInv'
<1>1. t \in Asking
  BY DEF Asking
<1>2. Asking' = Asking \ {t}
  BY DEF Asking, SlotInv, OpsOK, ModelOps
<1>3. Cardinality(Asking') = Cardinality(Asking) - 1
  BY <1>1, <1>2, AskingFinite, FS_RemoveElement
<1>4. OpsOK'
  BY OpsStep DEF SlotInv, OpStep, Ops
<1>5. Cardinality(Asking) \in Nat
  BY AskingFinite
<1>6. slots \in Int /\ slots + Cardinality(Asking) = MaxSlots
  BY DEF SlotInv, SlotsConserved, Asking
<1>7. slots' \in Int /\ slots' + Cardinality(Asking') = MaxSlots
  BY <1>3, <1>5, <1>6, SlotsAssumption
<1>. QED BY <1>4, <1>7 DEF SlotInv, SlotsConserved, Asking

LEMMA SlotKept ==
  ASSUME SlotInv, OpsOK', Asking' = Asking, UNCHANGED slots
  PROVE  SlotInv'
  BY DEF SlotInv, SlotsConserved, Asking

LEMMA SlotMoved ==
  ASSUME SlotInv, NEW t \in Threads, NEW next \in Ops,
         op' = [op EXCEPT ![t] = next],
         (op[t] \in ModelOps) <=> (next \in ModelOps), UNCHANGED slots
  PROVE  SlotInv'
<1>1. OpsOK'
  BY OpsStep DEF SlotInv, OpStep
<1>2. Asking' = Asking
  BY AskingKept DEF SlotInv
<1>. QED BY <1>1, <1>2, SlotKept

LEMMA SlotStill ==
  ASSUME SlotInv, UNCHANGED <<op, slots>>
  PROVE  SlotInv'
  BY DEF SlotInv, SlotsConserved, OpsOK

\* A step of a thread that is neither a request for a slot nor its return.
SlotlessStep(t) ==
  \/ EnrichDismissed(t) \/ EnrichAccepted(t) \/ EnrichRegister(t)
  \/ AcceptSource(t) \/ AcceptWrite(t) \/ DismissWrite(t)
  \/ \E code \in Codes : Decided(t, code)

LEMMA SlotlessKeeps ==
  ASSUME SlotInv, NEW t \in Threads, SlotlessStep(t), UNCHANGED httpVars
  PROVE  SlotInv'
<1>. UNCHANGED slots
  BY DEF httpVars
<1>1. CASE EnrichDismissed(t)
  BY <1>1, SlotMoved DEF EnrichDismissed, Goto, Ops, ModelOps, Deciding
<1>2. CASE EnrichAccepted(t)
  BY <1>2, SlotMoved DEF EnrichAccepted, Goto, Ops, ModelOps, Deciding
<1>3. CASE EnrichRegister(t)
  BY <1>3, SlotStill DEF EnrichRegister
<1>4. CASE AcceptSource(t)
  BY <1>4, SlotMoved DEF AcceptSource, Ops, ModelOps, Deciding
<1>5. CASE AcceptWrite(t)
  BY <1>5, SlotMoved DEF AcceptWrite, Written, Ops, ModelOps, Deciding
<1>6. CASE DismissWrite(t)
  BY <1>6, SlotMoved DEF DismissWrite, Written, Ops, ModelOps, Deciding
<1>7. ASSUME NEW code \in Codes, Decided(t, code)
      PROVE  SlotInv'
  <2>1. /\ op[t] \in {"consume", "refuse", "release"}
        /\ op' = [op EXCEPT ![t] = "idle"]
    BY <1>7 DEF Decided, Goto
  <2>. QED BY <2>1, SlotMoved DEF Ops, ModelOps, Deciding
<1>. QED BY <1>1, <1>2, <1>3, <1>4, <1>5, <1>6, <1>7 DEF SlotlessStep

LEMMA SlotsReceive ==
  ASSUME SlotInv, NEW t \in Threads, Receive(t)
  PROVE  SlotInv'
<1>1. ASSUME NEW code, Answered(code)
      PROVE  SlotInv'
  BY <1>1, SlotStill DEF Answered, readerVars, enrichVars, httpVars
<1>2. ASSUME NEW r \in Gets, GetRefused(r) \/ GetRead(r) \/ GetBusy(r)
      PROVE  SlotInv'
  BY <1>1, <1>2 DEF GetRefused, GetRead, GetBusy
<1>3. ASSUME NEW r \in Gets, AskModel(t, r)
      PROVE  SlotInv'
  <2>1. op[t] = "idle" /\ slots' = slots - 1
    BY <1>3 DEF Receive, AskModel
  <2>2. \E next \in ModelOps : op' = [op EXCEPT ![t] = next]
    BY <1>3 DEF AskModel, EnrichRead, Goto, ModelOps
  <2>. QED BY <2>1, <2>2, SlotTaken
<1>4. ASSUME NEW r \in Posts, PostRefused(r)
      PROVE  SlotInv'
  BY <1>1, <1>4 DEF PostRefused
<1>5. ASSUME NEW r \in Posts, PostClaimed(t, r)
      PROVE  SlotInv'
  <2>1. op[t] = "idle" /\ UNCHANGED slots
    BY <1>5 DEF Receive, PostClaimed, httpVars
  <2>2. \E next \in {"accept", "dismiss"} : op' = [op EXCEPT ![t] = next]
    BY <1>5 DEF PostClaimed, ClaimPending, Goto
  <2>. QED BY <2>1, <2>2, SlotMoved DEF Ops, ModelOps, Deciding
<1>. QED BY <1>2, <1>3, <1>4, <1>5 DEF Receive

LEMMA SlotsContinue ==
  ASSUME SlotInv, NEW t \in Threads, Continue(t)
  PROVE  SlotInv'
<1>1. ASSUME NEW code \in Codes, ModelAnswered(t, code)
      PROVE  SlotInv'
  <2>1. op[t] \in ModelOps
    BY <1>1 DEF ModelAnswered, EnrichDone, ModelOps
  <2>2. op' = [op EXCEPT ![t] = "idle"] /\ slots' = slots + 1
    BY <1>1 DEF ModelAnswered, Goto
  <2>. QED BY <2>1, <2>2, SlotReturned
<1>2. CASE SlotlessStep(t) /\ UNCHANGED httpVars
  BY <1>2, SlotlessKeeps
<1>. QED BY <1>1, <1>2 DEF Continue, PostAnswered, SlotlessStep

LEMMA SlotsRestart ==
  ASSUME SlotInv, ServerRestart
  PROVE  SlotInv'
<1>1. op' = [t \in Threads |-> "idle"] /\ slots' = MaxSlots
  BY DEF ServerRestart, Restart
<1>2. Asking' = {}
  BY <1>1 DEF Asking, ModelOps
<1>3. OpsOK'
  BY <1>1 DEF OpsOK, Ops
<1>. QED BY <1>1, <1>2, <1>3, SlotsAssumption, FS_EmptySet DEF SlotInv, SlotsConserved, Asking

\* The language model's slots are conserved, whichever requests are admitted,
\* answered, refused or cut off by a restart, for any number of threads and
\* slots (_LLM_SLOTS, tools/wiki_reader.py).
THEOREM SlotsComeBack == ReaderSpec => []SlotsConserved
<1>1. ReaderInit => SlotInv
  <2>. SUFFICES ASSUME ReaderInit PROVE SlotInv
    OBVIOUS
  <2>1. Asking = {}
    BY DEF ReaderInit, EnrichInit, Asking, ModelOps
  <2>2. OpsOK /\ slots = MaxSlots
    BY OpsInit DEF ReaderInit
  <2>. QED BY <2>1, <2>2, SlotsAssumption, FS_EmptySet DEF SlotInv, SlotsConserved, Asking
<1>2. SlotInv /\ [ReaderNext]_readerVars => SlotInv'
  <2>. SUFFICES ASSUME SlotInv, [ReaderNext]_readerVars PROVE SlotInv'
    OBVIOUS
  <2>1. ASSUME NEW t \in Threads, Receive(t) \/ Continue(t)
        PROVE  SlotInv'
    BY <2>1, SlotsReceive, SlotsContinue
  <2>2. CASE (SourceChanges \/ Tick) /\ UNCHANGED httpVars
    BY <2>2, SlotStill DEF SourceChanges, Tick, enrichVars, httpVars
  <2>3. CASE ServerRestart
    BY <2>3, SlotsRestart
  <2>4. CASE UNCHANGED readerVars
    BY <2>4, SlotStill DEF readerVars, enrichVars, httpVars
  <2>. QED BY <2>1, <2>2, <2>3, <2>4 DEF ReaderNext
<1>3. SlotInv => SlotsConserved
  BY DEF SlotInv
<1>. QED BY <1>1, <1>2, <1>3, PTL DEF ReaderSpec

-----------------------------------------------------------------------------
(* The ids.                                                                *)

\* Every id in the store has been handed out, within the bound.
EntriesKnown ==
  /\ nextId \in Nat \ {0}
  /\ \A e \in entries : e.id \in 1..MaxIds /\ e.id < nextId

\* A thread that decides holds an id; it is in flight, in the store, and no
\* other thread holds it.
ClaimsOwned ==
  /\ claimed \in [Threads -> Nat]
  /\ inflight \subseteq Ids(entries)
  /\ \A t \in Threads : claimed[t] # NoId => claimed[t] \in inflight
  /\ \A t, u \in Threads : t # u /\ claimed[t] # NoId => claimed[t] # claimed[u]
  /\ \A t \in Threads : op[t] \in Deciding => claimed[t] # NoId

\* What is in the store, or not handed out yet, was not used.
StoredUnused ==
  /\ uses \in [1..MaxIds -> Nat]
  /\ \A id \in 1..MaxIds : id \in Ids(entries) \/ id >= nextId => uses[id] = 0

UseInv == OpsOK /\ EntriesKnown /\ ClaimsOwned /\ StoredUnused /\ OneUse

LEMMA UseInit == ReaderInit => UseInv
<1>. SUFFICES ASSUME ReaderInit PROVE UseInv
  OBVIOUS
<1>1. OpsOK
  BY OpsInit
<1>2. EntriesKnown
  BY DEF ReaderInit, EnrichInit, PendingInit, EntriesKnown
<1>3. ClaimsOwned
  BY DEF ReaderInit, EnrichInit, PendingInit, ClaimsOwned, NoId, Ids, Deciding
<1>4. StoredUnused /\ OneUse
  BY IdsAssumption DEF ReaderInit, EnrichInit, StoredUnused, OneUse
<1>. QED BY <1>1, <1>2, <1>3, <1>4 DEF UseInv

\* A thread that goes on, in the store's eyes idle, and begins no decision.
LEMMA UseKept ==
  ASSUME UseInv, UNCHANGED <<entries, inflight, nextId, claimed, uses>>,
         \/ UNCHANGED op
         \/ \E t \in Threads, next \in Ops :
              /\ op' = [op EXCEPT ![t] = next]
              /\ next \in Deciding => op[t] \in Deciding
  PROVE  UseInv'
<1>1. OpsOK'
  BY OpsStep DEF UseInv, OpStep
<1>2. EntriesKnown'
  BY DEF UseInv, EntriesKnown
<1>3. \A t \in Threads : op'[t] \in Deciding => op[t] \in Deciding
  BY DEF UseInv, OpsOK
<1>4. ClaimsOwned'
  BY <1>3 DEF UseInv, ClaimsOwned, Ids
<1>5. StoredUnused' /\ OneUse'
  BY DEF UseInv, StoredUnused, OneUse, Ids
<1>. QED BY <1>1, <1>2, <1>4, <1>5 DEF UseInv

\* A claim: the id is in the store and in nobody's hands.
LEMMA UseClaimed ==
  ASSUME UseInv, NEW t \in Threads, NEW id, NEW subject,
         NEW next \in {"accept", "dismiss"}, ClaimPending(t, id, subject, next)
  PROVE  UseInv'
<1>1. id \in Ids(entries) /\ id \notin inflight
  BY DEF ClaimPending, ClaimStatus, Claimable, Ids
<1>2. id \in 1..MaxIds /\ id # NoId
  BY <1>1, IdsAssumption DEF UseInv, EntriesKnown, Ids, NoId
<1>3. /\ inflight' = inflight \cup {id}
      /\ claimed' = [claimed EXCEPT ![t] = id]
      /\ op' = [op EXCEPT ![t] = next]
      /\ UNCHANGED <<entries, nextId, uses>>
  BY DEF ClaimPending, Claim, Goto, historyVars
<1>4. OpsOK'
  BY <1>3, OpsStep DEF UseInv, OpStep, Ops, Deciding
<1>5. EntriesKnown' /\ StoredUnused' /\ OneUse'
  BY <1>3 DEF UseInv, EntriesKnown, StoredUnused, OneUse, Ids
<1>6. ClaimsOwned'
  <2>1. claimed' \in [Threads -> Nat] /\ inflight' \subseteq Ids(entries)'
    BY <1>1, <1>2, <1>3, IdsAssumption DEF UseInv, ClaimsOwned, Ids
  <2>2. \A u \in Threads : claimed'[u] # NoId => claimed'[u] \in inflight'
    BY <1>3 DEF UseInv, ClaimsOwned
  <2>3. \A u, v \in Threads : u # v /\ claimed'[u] # NoId => claimed'[u] # claimed'[v]
    BY <1>1, <1>2, <1>3 DEF UseInv, ClaimsOwned
  <2>4. \A u \in Threads : op'[u] \in Deciding => claimed'[u] # NoId
    BY <1>2, <1>3 DEF UseInv, ClaimsOwned, OpsOK
  <2>. QED BY <2>1, <2>2, <2>3, <2>4 DEF ClaimsOwned
<1>. QED BY <1>4, <1>5, <1>6 DEF UseInv

\* Eviction drops no suggestion in flight.
LEMMA EvictionKeeps ==
  /\ Evicted \subseteq entries
  /\ \A e \in entries : e.id \in inflight => e \in Evicted
  BY DEF Evicted, Kept

\* A registration: the store may lose what nobody holds, and gains an id that
\* was never handed out.
LEMMA UseRegistered ==
  ASSUME UseInv, NEW t \in Threads, EnrichRegister(t)
  PROVE  UseInv'
<1>1. PICK new : new.id = nextId /\ entries' = Evicted \cup {new}
  BY DEF EnrichRegister, Register
<1>2. /\ nextId <= MaxIds /\ nextId' = nextId + 1
      /\ UNCHANGED <<inflight, op, claimed, uses>>
  BY DEF EnrichRegister, Register, historyVars
<1>3. nextId \in Nat \ {0} /\ nextId \in 1..MaxIds
  BY <1>2, IdsAssumption DEF UseInv, EntriesKnown
<1>4. OpsOK'
  BY <1>2 DEF UseInv, OpsOK
<1>5. EntriesKnown'
  <2>1. \A e \in entries : e.id \in 1..MaxIds /\ e.id < nextId'
    BY <1>2, <1>3, IdsAssumption DEF UseInv, EntriesKnown
  <2>2. new.id \in 1..MaxIds /\ new.id < nextId'
    BY <1>1, <1>2, <1>3
  <2>3. nextId' \in Nat \ {0}
    BY <1>2, <1>3
  <2>. QED BY <1>1, <2>1, <2>2, <2>3, EvictionKeeps DEF EntriesKnown
<1>6. ClaimsOwned'
  <2>1. inflight \subseteq Ids(entries')
    BY <1>1, EvictionKeeps DEF UseInv, ClaimsOwned, Ids
  <2>. QED BY <1>2, <2>1 DEF UseInv, ClaimsOwned, Ids
<1>7. StoredUnused'
  <2>1. ASSUME NEW id \in 1..MaxIds, id \in Ids(entries') \/ id >= nextId'
        PROVE  id \in Ids(entries) \/ id >= nextId
    BY <1>1, <1>2, <1>3, <2>1, EvictionKeeps, IdsAssumption DEF Ids
  <2>. QED BY <1>2, <2>1 DEF UseInv, StoredUnused, Ids
<1>8. OneUse'
  BY <1>2 DEF UseInv, OneUse
<1>. QED BY <1>4, <1>5, <1>6, <1>7, <1>8 DEF UseInv

\* The end of a decision: the id leaves the store if it was used or refused.
LEMMA UseDecided ==
  ASSUME UseInv, NEW t \in Threads, NEW code, Decided(t, code)
  PROVE  UseInv'
<1>. DEFINE id == claimed[t]
<1>1. /\ op[t] \in {"consume", "refuse", "release"}
      /\ op' = [op EXCEPT ![t] = "idle"]
      /\ claimed' = [claimed EXCEPT ![t] = NoId]
      /\ inflight' = inflight \ {id}
      /\ nextId' = nextId
  BY DEF Decided, Goto, Consume, Release
<1>2. \/ entries' = {e \in entries : e.id # id} /\ uses' = [uses EXCEPT ![id] = @ + 1]
      \/ entries' = {e \in entries : e.id # id} /\ uses' = uses
      \/ entries' = entries /\ uses' = uses
  BY DEF Decided, Consume, Release, Acknowledge, historyVars
<1>3. id # NoId /\ id \in inflight /\ id \in Ids(entries)
  BY <1>1 DEF UseInv, ClaimsOwned, Deciding
<1>4. id \in 1..MaxIds /\ id < nextId /\ uses[id] = 0
  BY <1>3, IdsAssumption DEF UseInv, EntriesKnown, StoredUnused, Ids
<1>5. OpsOK'
  BY <1>1, OpsStep DEF UseInv, OpStep, Ops
<1>6. entries' \subseteq entries /\ \A e \in entries : e.id # id => e \in entries'
  BY <1>2
<1>7. EntriesKnown'
  BY <1>1, <1>6 DEF UseInv, EntriesKnown
<1>8. ClaimsOwned'
  <2>1. claimed' \in [Threads -> Nat]
    BY <1>1 DEF UseInv, ClaimsOwned, NoId
  <2>2. inflight' \subseteq Ids(entries')
    BY <1>1, <1>6 DEF UseInv, ClaimsOwned, Ids
  <2>3. \A u \in Threads : claimed'[u] # NoId => claimed'[u] = claimed[u] /\ u # t
    BY <1>1 DEF UseInv, ClaimsOwned
  <2>4. \A u \in Threads : claimed'[u] # NoId => claimed'[u] \in inflight'
    BY <1>1, <1>3, <2>3 DEF UseInv, ClaimsOwned
  <2>5. \A u, v \in Threads : u # v /\ claimed'[u] # NoId => claimed'[u] # claimed'[v]
    BY <2>3 DEF UseInv, ClaimsOwned
  <2>6. \A u \in Threads : op'[u] \in Deciding => claimed'[u] # NoId
    BY <1>1 DEF UseInv, ClaimsOwned, OpsOK, Deciding
  <2>. QED BY <2>1, <2>2, <2>4, <2>5, <2>6 DEF ClaimsOwned, Ids
<1>9. StoredUnused' /\ OneUse'
  <2>1. CASE uses' = uses
    BY <1>1, <1>6, <2>1 DEF UseInv, StoredUnused, OneUse, Ids
  <2>2. CASE /\ entries' = {e \in entries : e.id # id}
             /\ uses' = [uses EXCEPT ![id] = @ + 1]
    <3>1. uses' \in [1..MaxIds -> Nat] /\ uses'[id] = 1
      BY <1>4, <2>2 DEF UseInv, StoredUnused
    <3>2. \A i \in 1..MaxIds : i # id => uses'[i] = uses[i]
      BY <1>4, <2>2 DEF UseInv, StoredUnused
    <3>3. id \notin Ids(entries') /\ ~(id >= nextId')
      BY <1>1, <1>4, <2>2 DEF UseInv, EntriesKnown, Ids
    <3>4. \A i \in 1..MaxIds : i \in Ids(entries') => i \in Ids(entries)
      BY <1>6 DEF Ids
    <3>5. StoredUnused'
      BY <1>1, <3>1, <3>2, <3>3, <3>4 DEF UseInv, StoredUnused, Ids
    <3>6. OneUse'
      BY <3>1, <3>2 DEF UseInv, OneUse
    <3>. QED BY <3>5, <3>6
  <2>. QED BY <1>2, <2>1, <2>2
<1>. QED BY <1>5, <1>7, <1>8, <1>9 DEF UseInv

\* A restart forgets the store and every claim; ids are not handed out again.
LEMMA UseRestarted ==
  ASSUME UseInv, ServerRestart
  PROVE  UseInv'
<1>1. /\ entries' = {} /\ inflight' = {} /\ UNCHANGED <<nextId, uses>>
      /\ op' = [t \in Threads |-> "idle"]
      /\ claimed' = [t \in Threads |-> NoId]
  BY DEF ServerRestart, Restart, Forget, historyVars
<1>2. OpsOK'
  BY <1>1 DEF OpsOK, Ops
<1>3. EntriesKnown' /\ StoredUnused' /\ OneUse'
  BY <1>1 DEF UseInv, EntriesKnown, StoredUnused, OneUse, Ids
<1>4. ClaimsOwned'
  BY <1>1 DEF ClaimsOwned, Ids, NoId, Deciding
<1>. QED BY <1>2, <1>3, <1>4 DEF UseInv

LEMMA UseReceive ==
  ASSUME UseInv, NEW t \in Threads, Receive(t)
  PROVE  UseInv'
<1>1. ASSUME NEW code, Answered(code)
      PROVE  UseInv'
  BY <1>1, UseKept DEF Answered, readerVars, enrichVars, pendingVars, historyVars
<1>2. ASSUME NEW r \in Gets, GetRefused(r) \/ GetRead(r) \/ GetBusy(r)
      PROVE  UseInv'
  BY <1>1, <1>2 DEF GetRefused, GetRead, GetBusy
<1>3. ASSUME NEW r \in Gets, AskModel(t, r)
      PROVE  UseInv'
  <2>1. UNCHANGED <<entries, inflight, nextId, claimed, uses>>
    BY <1>3 DEF AskModel, EnrichRead, pendingVars, historyVars
  <2>2. \E next \in {"asking", "dismissed"} : op' = [op EXCEPT ![t] = next]
    BY <1>3 DEF AskModel, EnrichRead, Goto
  <2>. QED BY <2>1, <2>2, UseKept DEF Ops, ModelOps, Deciding
<1>4. ASSUME NEW r \in Posts, PostRefused(r)
      PROVE  UseInv'
  BY <1>1, <1>4 DEF PostRefused
<1>5. ASSUME NEW r \in Posts, PostClaimed(t, r)
      PROVE  UseInv'
  <2>1. \E next \in {"accept", "dismiss"} :
           ClaimPending(t, r.body.id, r.body.subject, next)
    BY <1>5 DEF PostClaimed
  <2>. QED BY <2>1, UseClaimed
<1>. QED BY <1>2, <1>3, <1>4, <1>5 DEF Receive

LEMMA UseContinue ==
  ASSUME UseInv, NEW t \in Threads, Continue(t)
  PROVE  UseInv'
<1>1. CASE EnrichDismissed(t) \/ EnrichAccepted(t)
  <2>1. UNCHANGED <<entries, inflight, nextId, claimed, uses>>
    BY <1>1 DEF EnrichDismissed, EnrichAccepted, pendingVars, historyVars
  <2>2. \E next \in {"accepted", "register"} : op' = [op EXCEPT ![t] = next]
    BY <1>1 DEF EnrichDismissed, EnrichAccepted, Goto
  <2>. QED BY <2>1, <2>2, UseKept DEF Ops, ModelOps, Deciding
<1>2. CASE EnrichRegister(t)
  BY <1>2, UseRegistered
<1>3. CASE AcceptSource(t) \/ AcceptWrite(t) \/ DismissWrite(t)
  <2>1. UNCHANGED <<entries, inflight, nextId, claimed, uses>>
    BY <1>3 DEF AcceptSource, AcceptWrite, DismissWrite, pendingVars, historyVars
  <2>2. /\ op[t] \in {"accept", "write", "dismiss"}
        /\ \E next \in {"write", "refuse", "release", "consume"} :
             op' = [op EXCEPT ![t] = next]
    BY <1>3 DEF AcceptSource, AcceptWrite, DismissWrite, Written
  <2>. QED BY <2>1, <2>2, UseKept DEF Ops, Deciding
<1>4. ASSUME NEW code \in Codes, ModelAnswered(t, code)
      PROVE  UseInv'
  <2>1. UNCHANGED <<entries, inflight, nextId, claimed, uses>>
    BY <1>4 DEF ModelAnswered, pendingVars, historyVars
  <2>2. \E next \in {"idle"} : op' = [op EXCEPT ![t] = next]
    BY <1>4 DEF ModelAnswered, Goto
  <2>. QED BY <2>1, <2>2, UseKept DEF Ops, Deciding
<1>5. ASSUME NEW code \in Codes, PostAnswered(t, code)
      PROVE  UseInv'
  BY <1>5, UseDecided DEF PostAnswered
<1>. QED BY <1>1, <1>2, <1>3, <1>4, <1>5 DEF Continue

\* A suggestion is accepted or dismissed with success at most once, however
\* many requests carry its id, and whatever expires, is evicted, fails or is
\* restarted between them, for any number of threads and ids
\* (PendingSuggestions, accept_fact, dismiss_fact, tools/wiki_reader.py).
THEOREM UsedOnce == ReaderSpec => []OneUse
<1>1. UseInv /\ [ReaderNext]_readerVars => UseInv'
  <2>. SUFFICES ASSUME UseInv, [ReaderNext]_readerVars PROVE UseInv'
    OBVIOUS
  <2>1. ASSUME NEW t \in Threads, Receive(t) \/ Continue(t)
        PROVE  UseInv'
    BY <2>1, UseReceive, UseContinue
  <2>2. CASE SourceChanges \/ Tick
    BY <2>2, UseKept DEF SourceChanges, Tick, enrichVars, pendingVars, historyVars
  <2>3. CASE ServerRestart
    BY <2>3, UseRestarted
  <2>4. CASE UNCHANGED readerVars
    BY <2>4, UseKept DEF readerVars, enrichVars, pendingVars, historyVars
  <2>. QED BY <2>1, <2>2, <2>3, <2>4 DEF ReaderNext
<1>2. UseInv => OneUse
  BY DEF UseInv
<1>. QED BY UseInit, <1>1, <1>2, PTL DEF ReaderSpec

-----------------------------------------------------------------------------
(* Numbers, sequences and letters.                                         *)

\* A set of numbers has a least one.
LEMMA LeastNat ==
  ASSUME NEW S, S \subseteq Nat, S # {}
  PROVE  \E m \in S : \A n \in S : m <= n
<1>1. PICK m \in S : \A n \in S : <<n, m>> \notin OpToRel(<, Nat)
  BY WFMin, NatLessThanWellFounded, Zenon
<1>2. \A n \in S : ~(n < m)
  BY <1>1, Zenon DEF OpToRel
<1>3. \A n \in S : n \in Nat
  OBVIOUS
<1>4. m \in S
  BY <1>1
<1>. QED BY <1>2, <1>3, <1>4

\* A sequence with one element more.
LEMMA Appended ==
  ASSUME NEW S, NEW s \in Seq(S), NEW e
  PROVE  /\ Append(s, e) \in Seq(S \cup {e})
         /\ Len(Append(s, e)) = Len(s) + 1
         /\ DOMAIN s = 1..Len(s) /\ Len(s) \in Nat
         /\ DOMAIN Append(s, e) = 1..(Len(s) + 1)
         /\ \A i \in DOMAIN s : Append(s, e)[i] = s[i]
         /\ Append(s, e)[Len(s) + 1] = e
<1>. s \in Seq(S \cup {e})
  OBVIOUS
<1>. QED OBVIOUS

\* Lowering a second time, as Python does or as SQLite does, changes nothing that
\* Python has lowered.
LEMMA LowerTwice ==
  ASSUME NEW k
  PROVE  PyLower(PyLower(k)) = PyLower(k) /\ PyLower(SqlLower(k)) = PyLower(k)
  BY DEF PyLower, SqlLower

-----------------------------------------------------------------------------
(* The store of suggestions.                                               *)

\* Ids are of one suggestion each; a thread that holds one is deciding it, and
\* none is in flight that nobody holds.
HoldersKnown ==
  /\ IsFiniteSet(entries)
  /\ \A e, f \in entries : e.id = f.id => e = f
  /\ \A id \in inflight : \E t \in Threads : claimed[t] = id
  /\ \A t \in Threads : claimed[t] # NoId => op[t] \in Deciding

StoreBounded ==
  \/ Cardinality(entries) <= MaxEntries
  \/ Cardinality(entries) <= Cardinality(Threads)

PendingInv == UseInv /\ HoldersKnown /\ StoreBounded

\* The invariant says what the property says: one holder of each id in flight.
LEMMA PendingInvSound == PendingInv => PendingSound
<1>. SUFFICES ASSUME PendingInv PROVE PendingSound
  OBVIOUS
<1>1. ASSUME NEW id \in inflight
      PROVE  Cardinality({t \in Threads : claimed[t] = id}) = 1
  <2>1. PICK t \in Threads : claimed[t] = id
    BY <1>1 DEF PendingInv, HoldersKnown
  <2>2. id # NoId
    BY <1>1, IdsAssumption DEF PendingInv, UseInv, ClaimsOwned, EntriesKnown, Ids, NoId
  <2>3. {u \in Threads : claimed[u] = id} = {t}
    BY <2>1, <2>2 DEF PendingInv, UseInv, ClaimsOwned
  <2>. QED BY <2>3, FS_Singleton
<1>. QED BY <1>1 DEF PendingInv, UseInv, ClaimsOwned, StoreBounded, PendingSound

\* What eviction leaves is in flight, or has room for one more.
LEMMA KeptBounded ==
  ASSUME NEW E, IsFiniteSet(E), \A e \in E : e.id \in Nat
  PROVE  \/ \A e \in Kept(E) : e.id \in inflight
         \/ Cardinality(Kept(E)) <= MaxEntries - 1
<1>. SUFFICES ASSUME NEW x \in Kept(E), x.id \notin inflight
              PROVE  Cardinality(Kept(E)) <= MaxEntries - 1
  OBVIOUS
<1>. DEFINE loose == {e \in Kept(E) : e.id \notin inflight}
            older(e) == {f \in Unclaimed(E) : f.id < e.id}
<1>1. Kept(E) \subseteq E
  BY DEF Kept
<1>2. PICK least \in {e.id : e \in loose} : \A n \in {e.id : e \in loose} : least <= n
  <2>1. {e.id : e \in loose} \subseteq Nat /\ {e.id : e \in loose} # {}
    BY <1>1
  <2>. QED BY <2>1, LeastNat
<1>3. PICK m \in loose : m.id = least
  BY <1>2
<1>4. \A e \in loose : m.id <= e.id
  BY <1>2, <1>3
<1>5. older(m) \subseteq E /\ IsFiniteSet(older(m))
  BY FS_Subset DEF Unclaimed
<1>6. older(m) \cap Kept(E) = {}
  <2>1. ASSUME NEW f \in older(m), f \in Kept(E)
        PROVE  FALSE
    <3>1. f \in loose /\ f.id < m.id
      BY <2>1 DEF Unclaimed
    <3>2. f.id \in Nat /\ m.id \in Nat
      BY <1>1, <3>1
    <3>. QED BY <1>4, <3>1, <3>2
  <2>. QED BY <2>1
<1>7. Cardinality(older(m)) >= Cardinality(E) - MaxEntries + 1
  BY DEF Kept
<1>8. Kept(E) \subseteq E \ older(m)
  BY <1>1, <1>6
<1>9. /\ IsFiniteSet(E \ older(m))
      /\ Cardinality(E \ older(m)) = Cardinality(E) - Cardinality(E \cap older(m))
  BY FS_Difference
<1>10. E \cap older(m) = older(m)
  BY <1>5
<1>11. Cardinality(Kept(E)) <= Cardinality(E \ older(m)) /\ IsFiniteSet(Kept(E))
  BY <1>8, <1>9, FS_Subset
<1>12. /\ Cardinality(E) \in Nat /\ Cardinality(older(m)) \in Nat
       /\ Cardinality(Kept(E)) \in Nat
  BY <1>5, <1>11, FS_CardinalityType
<1>13. Cardinality(E \ older(m)) = Cardinality(E) - Cardinality(older(m))
  BY <1>9, <1>10
<1>14. MaxEntries \in Nat
  BY PendingAssumption
<1>. DEFINE all == Cardinality(E)  gone == Cardinality(older(m))
            left == Cardinality(E \ older(m))  kept == Cardinality(Kept(E))
<1>. HIDE DEF all, gone, left, kept
<1>15. /\ all \in Nat /\ gone \in Nat /\ kept \in Nat
       /\ left = all - gone /\ kept <= left /\ gone >= all - MaxEntries + 1
  BY <1>7, <1>11, <1>12, <1>13 DEF all, gone, left, kept
<1>16. kept <= MaxEntries - 1
  BY <1>14, <1>15
<1>. QED BY <1>16 DEF kept

\* A step that leaves the store and its claims alone.
LEMMA PendingKept ==
  ASSUME PendingInv, UseInv', UNCHANGED <<entries, inflight, claimed>>,
         \A t \in Threads : op[t] \in Deciding => op'[t] \in Deciding
  PROVE  PendingInv'
<1>1. HoldersKnown'
  BY DEF PendingInv, HoldersKnown
<1>2. StoreBounded'
  BY DEF PendingInv, StoreBounded
<1>. QED BY <1>1, <1>2 DEF PendingInv

\* The ids in flight are fewer than the threads while one of them holds none.
LEMMA FlightBounded ==
  ASSUME PendingInv, NEW t \in Threads, claimed[t] = NoId,
         NEW E, \A e \in E : e \in entries /\ e.id \in inflight
  PROVE  IsFiniteSet(E) /\ Cardinality(E) + 1 <= Cardinality(Threads)
<1>. DEFINE holder == [e \in E |-> CHOOSE u \in Threads : claimed[u] = e.id]
            others == Threads \ {t}
<1>1. ASSUME NEW e \in E
      PROVE  holder[e] \in Threads /\ claimed[holder[e]] = e.id
  BY <1>1 DEF PendingInv, HoldersKnown
<1>2. ASSUME NEW e \in E
      PROVE  e.id # NoId
  BY <1>2, IdsAssumption DEF PendingInv, UseInv, EntriesKnown, NoId
<1>3. holder \in [E -> others]
  BY <1>1, <1>2
<1>4. \A e, f \in E : holder[e] = holder[f] => e = f
  BY <1>1 DEF PendingInv, HoldersKnown
<1>5. holder \in Injection(E, others)
  BY <1>3, <1>4 DEF Injection, IsInjective
<1>6. /\ IsFiniteSet(others) /\ Cardinality(others) = Cardinality(Threads) - 1
  BY ThreadsAssumption, FS_RemoveElement
<1>. HIDE DEF holder, others
<1>7. IsFiniteSet(E) /\ Cardinality(E) <= Cardinality(others)
  BY <1>5, <1>6, FS_Injection
<1>8. /\ Cardinality(E) \in Nat /\ Cardinality(Threads) \in Nat
      /\ Cardinality(others) \in Nat
  BY <1>6, <1>7, ThreadsAssumption, FS_CardinalityType
<1>. QED BY <1>6, <1>7, <1>8

\* A registered suggestion has a new id, and eviction has made room for it.
LEMMA PendingRegistered ==
  ASSUME PendingInv, NEW t \in Threads, EnrichRegister(t)
  PROVE  PendingInv'
<1>1. UseInv'
  BY UseRegistered DEF PendingInv
<1>2. PICK new : new.id = nextId /\ entries' = Evicted \cup {new}
  BY DEF EnrichRegister, Register
<1>3. UNCHANGED <<inflight, op, claimed>> /\ op[t] = "register"
  BY DEF EnrichRegister, Register
<1>4. Evicted \subseteq entries
  BY EvictionKeeps
<1>5. \A e \in Evicted : e.id # new.id
  BY <1>2, <1>4, IdsAssumption DEF PendingInv, UseInv, EntriesKnown
<1>6. IsFiniteSet(Evicted) /\ IsFiniteSet(entries')
  BY <1>2, <1>4, FS_Subset, FS_AddElement DEF PendingInv, HoldersKnown
<1>7. HoldersKnown'
  <2>1. \A e, f \in entries' : e.id = f.id => e = f
    BY <1>2, <1>4, <1>5 DEF PendingInv, HoldersKnown
  <2>. QED BY <1>3, <1>6, <2>1 DEF PendingInv, HoldersKnown
<1>8. StoreBounded'
  <2>. DEFINE E == {e \in entries : e.expires > now \/ e.id \in inflight}
  <2>1. IsFiniteSet(E) /\ \A e \in E : e.id \in Nat
    BY FS_Subset, IdsAssumption DEF PendingInv, HoldersKnown, UseInv, EntriesKnown
  <2>2. Evicted = Kept(E)
    BY DEF Evicted
  <2>. HIDE DEF E
  <2>3. Cardinality(entries') <= Cardinality(Evicted) + 1
    <3>1. Cardinality(Evicted) \in Nat
      BY <1>6, FS_CardinalityType
    <3>2. Cardinality(entries') \in {Cardinality(Evicted), Cardinality(Evicted) + 1}
      BY <1>2, <1>6, FS_AddElement
    <3>. QED BY <3>1, <3>2
  <2>4. /\ Cardinality(Evicted) \in Nat /\ Cardinality(entries') \in Nat
        /\ Cardinality(Threads) \in Nat /\ MaxEntries \in Nat
    BY <1>6, ThreadsAssumption, PendingAssumption, FS_CardinalityType
  <2>5. CASE \A e \in Evicted : e.id \in inflight
    <3>1. claimed[t] = NoId
      BY <1>3 DEF PendingInv, HoldersKnown, Deciding
    <3>2. Cardinality(Evicted) + 1 <= Cardinality(Threads)
      BY <1>4, <2>5, <3>1, FlightBounded
    <3>. QED BY <2>3, <2>4, <3>2 DEF StoreBounded
  <2>6. CASE Cardinality(Evicted) <= MaxEntries - 1
    BY <2>3, <2>4, <2>6 DEF StoreBounded
  <2>. QED BY <2>1, <2>2, <2>5, <2>6, KeptBounded
<1>. QED BY <1>1, <1>7, <1>8 DEF PendingInv

\* The store only shrinks.
LEMMA BoundKept ==
  ASSUME PendingInv, entries' \subseteq entries
  PROVE  /\ StoreBounded' /\ IsFiniteSet(entries')
         /\ \A e, f \in entries' : e.id = f.id => e = f
<1>1. IsFiniteSet(entries') /\ Cardinality(entries') <= Cardinality(entries)
  BY FS_Subset DEF PendingInv, HoldersKnown
<1>2. /\ Cardinality(entries') \in Nat /\ Cardinality(entries) \in Nat
      /\ Cardinality(Threads) \in Nat /\ MaxEntries \in Nat
  BY <1>1, ThreadsAssumption, PendingAssumption, FS_CardinalityType DEF PendingInv, HoldersKnown
<1>3. StoreBounded'
  BY <1>1, <1>2 DEF PendingInv, StoreBounded
<1>. QED BY <1>1, <1>3 DEF PendingInv, HoldersKnown

\* A claim puts one id of the store in flight, in the hands of one thread.
LEMMA PendingClaimed ==
  ASSUME PendingInv, NEW t \in Threads, op[t] = "idle", NEW id, NEW subject,
         NEW next \in {"accept", "dismiss"}, ClaimPending(t, id, subject, next)
  PROVE  PendingInv'
<1>1. UseInv'
  BY UseClaimed DEF PendingInv
<1>2. /\ inflight' = inflight \cup {id}
      /\ claimed' = [claimed EXCEPT ![t] = id]
      /\ op' = [op EXCEPT ![t] = next]
      /\ entries' = entries
  BY DEF ClaimPending, Claim, Goto
<1>3. claimed[t] = NoId
  BY DEF PendingInv, HoldersKnown, Deciding
<1>4. ASSUME NEW i \in inflight'
      PROVE  \E u \in Threads : claimed'[u] = i
  <2>1. CASE i = id
    BY <1>2, <2>1 DEF PendingInv, UseInv, ClaimsOwned
  <2>2. CASE i \in inflight
    <3>1. PICK u \in Threads : claimed[u] = i
      BY <2>2 DEF PendingInv, HoldersKnown
    <3>2. i # NoId
      BY <2>2, IdsAssumption DEF PendingInv, UseInv, ClaimsOwned, EntriesKnown, Ids, NoId
    <3>3. u # t
      BY <1>3, <3>1, <3>2
    <3>. QED BY <1>2, <3>1, <3>3 DEF PendingInv, UseInv, ClaimsOwned
  <2>. QED BY <1>2, <1>4, <2>1, <2>2
<1>5. \A u \in Threads : claimed'[u] # NoId => op'[u] \in Deciding
  BY <1>2 DEF PendingInv, HoldersKnown, UseInv, ClaimsOwned, OpsOK, Deciding
<1>6. HoldersKnown'
  BY <1>2, <1>4, <1>5 DEF PendingInv, HoldersKnown
<1>7. StoreBounded'
  BY <1>2 DEF PendingInv, StoreBounded
<1>. QED BY <1>1, <1>6, <1>7 DEF PendingInv

\* The decision ends: the id leaves flight, and the store only if it was applied.
LEMMA PendingDecided ==
  ASSUME PendingInv, NEW t \in Threads, NEW code, Decided(t, code)
  PROVE  PendingInv'
<1>. DEFINE id == claimed[t]
<1>1. UseInv'
  BY UseDecided DEF PendingInv
<1>2. /\ op' = [op EXCEPT ![t] = "idle"]
      /\ claimed' = [claimed EXCEPT ![t] = NoId]
      /\ inflight' = inflight \ {id}
      /\ entries' \subseteq entries
  BY DEF Decided, Goto, Consume, Release
<1>3. ASSUME NEW i \in inflight'
      PROVE  \E u \in Threads : claimed'[u] = i
  <2>1. PICK u \in Threads : claimed[u] = i
    BY <1>2, <1>3 DEF PendingInv, HoldersKnown
  <2>2. u # t
    BY <1>2, <1>3, <2>1
  <2>. QED BY <1>2, <2>1, <2>2 DEF PendingInv, UseInv, ClaimsOwned
<1>4. \A u \in Threads : claimed'[u] # NoId => op'[u] \in Deciding
  BY <1>2 DEF PendingInv, HoldersKnown, UseInv, ClaimsOwned, OpsOK
<1>5. /\ StoreBounded' /\ IsFiniteSet(entries')
      /\ \A e, f \in entries' : e.id = f.id => e = f
  BY <1>2, BoundKept
<1>6. HoldersKnown'
  BY <1>3, <1>4, <1>5 DEF HoldersKnown
<1>. QED BY <1>1, <1>5, <1>6 DEF PendingInv

\* A restart empties the store and stops every thread.
LEMMA PendingRestarted ==
  ASSUME PendingInv, ServerRestart
  PROVE  PendingInv'
<1>1. UseInv'
  BY UseRestarted DEF PendingInv
<1>2. entries' = {} /\ inflight' = {} /\ claimed' = [t \in Threads |-> NoId]
  BY DEF ServerRestart, Restart, Forget
<1>3. StoreBounded' /\ IsFiniteSet(entries')
  BY <1>2, BoundKept
<1>4. HoldersKnown'
  BY <1>2, <1>3 DEF HoldersKnown, NoId
<1>. QED BY <1>1, <1>3, <1>4 DEF PendingInv

\* No request disturbs the store, whatever its kind.
LEMMA PendingReceive ==
  ASSUME PendingInv, NEW t \in Threads, Receive(t)
  PROVE  PendingInv'
<1>1. UseInv'
  BY UseReceive DEF PendingInv
<1>2. op[t] = "idle" /\ op[t] \notin Deciding
  BY DEF Receive, Deciding
<1>3. ASSUME NEW code, Answered(code)
      PROVE  PendingInv'
  BY <1>1, <1>3, PendingKept DEF Answered, readerVars, enrichVars, pendingVars
<1>4. ASSUME NEW r \in Gets, GetRefused(r) \/ GetRead(r) \/ GetBusy(r)
      PROVE  PendingInv'
  BY <1>3, <1>4 DEF GetRefused, GetRead, GetBusy
<1>5. ASSUME NEW r \in Gets, AskModel(t, r)
      PROVE  PendingInv'
  <2>1. UNCHANGED <<entries, inflight, claimed>>
    BY <1>5 DEF AskModel, EnrichRead, pendingVars
  <2>2. \E next : op' = [op EXCEPT ![t] = next]
    BY <1>5 DEF AskModel, EnrichRead, Goto
  <2>3. \A u \in Threads : op[u] \in Deciding => op'[u] \in Deciding
    BY <1>2, <2>2 DEF PendingInv, UseInv, OpsOK
  <2>. QED BY <1>1, <2>1, <2>3, PendingKept
<1>6. ASSUME NEW r \in Posts, PostRefused(r)
      PROVE  PendingInv'
  BY <1>3, <1>6 DEF PostRefused
<1>7. ASSUME NEW r \in Posts, PostClaimed(t, r)
      PROVE  PendingInv'
  <2>1. \E next \in {"accept", "dismiss"} :
           ClaimPending(t, r.body.id, r.body.subject, next)
    BY <1>7 DEF PostClaimed
  <2>. QED BY <1>2, <2>1, PendingClaimed
<1>. QED BY <1>4, <1>5, <1>6, <1>7 DEF Receive

\* Nor does any step of a request that goes on.
LEMMA PendingContinue ==
  ASSUME PendingInv, NEW t \in Threads, Continue(t)
  PROVE  PendingInv'
<1>1. UseInv'
  BY UseContinue DEF PendingInv
<1>2. ASSUME UNCHANGED <<entries, inflight, claimed>>, NEW next,
             op' = [op EXCEPT ![t] = next], op[t] \in Deciding => next \in Deciding
      PROVE  PendingInv'
  <2>1. \A u \in Threads : op[u] \in Deciding => op'[u] \in Deciding
    BY <1>2 DEF PendingInv, UseInv, OpsOK
  <2>. QED BY <1>1, <1>2, <2>1, PendingKept
<1>3. CASE EnrichDismissed(t) \/ EnrichAccepted(t)
  <2>1. /\ UNCHANGED <<entries, inflight, claimed>> /\ op[t] \notin Deciding
        /\ \E next : op' = [op EXCEPT ![t] = next]
    BY <1>3 DEF EnrichDismissed, EnrichAccepted, Goto, pendingVars, Deciding
  <2>. QED BY <1>2, <2>1
<1>4. CASE EnrichRegister(t)
  BY <1>4, PendingRegistered
<1>5. CASE AcceptSource(t) \/ AcceptWrite(t) \/ DismissWrite(t)
  <2>1. UNCHANGED <<entries, inflight, claimed>>
    BY <1>5 DEF AcceptSource, AcceptWrite, DismissWrite, pendingVars
  <2>2. \E next \in Deciding : op' = [op EXCEPT ![t] = next]
    BY <1>5 DEF AcceptSource, AcceptWrite, DismissWrite, Written, Deciding
  <2>. QED BY <1>2, <2>1, <2>2
<1>6. ASSUME NEW code \in Codes, ModelAnswered(t, code)
      PROVE  PendingInv'
  <2>1. /\ UNCHANGED <<entries, inflight, claimed>>
        /\ op' = [op EXCEPT ![t] = "idle"]
        /\ op[t] \notin Deciding
    BY <1>6 DEF ModelAnswered, Goto, pendingVars, EnrichDone, ModelOps, Deciding
  <2>. QED BY <1>2, <2>1
<1>7. ASSUME NEW code \in Codes, PostAnswered(t, code)
      PROVE  PendingInv'
  BY <1>7, PendingDecided DEF PostAnswered
<1>. QED BY <1>3, <1>4, <1>5, <1>6, <1>7 DEF Continue

\* Each id in flight is in the store and in the hands of one thread, and the
\* store is within its bound, or within the number of threads where its entries
\* are in flight, whatever expires, is evicted or is restarted, for any bounds
\* and any number of threads (PendingSuggestions, tools/wiki_reader.py).
THEOREM PendingIsSound == ReaderSpec => []PendingSound
<1>1. ReaderInit => PendingInv
  <2>. SUFFICES ASSUME ReaderInit PROVE PendingInv
    OBVIOUS
  <2>1. entries = {} /\ inflight = {} /\ claimed = [t \in Threads |-> NoId]
    BY DEF ReaderInit, EnrichInit, PendingInit
  <2>2. IsFiniteSet(entries) /\ Cardinality(entries) <= MaxEntries
    BY <2>1, FS_EmptySet, PendingAssumption
  <2>. QED BY <2>1, <2>2, UseInit DEF PendingInv, HoldersKnown, StoreBounded
<1>2. PendingInv /\ [ReaderNext]_readerVars => PendingInv'
  <2>. SUFFICES ASSUME PendingInv, [ReaderNext]_readerVars PROVE PendingInv'
    OBVIOUS
  <2>1. ASSUME NEW t \in Threads, Receive(t) \/ Continue(t)
        PROVE  PendingInv'
    BY <2>1, PendingReceive, PendingContinue
  <2>2. ASSUME UNCHANGED <<entries, inflight, nextId, op, claimed, uses>>
        PROVE  PendingInv'
    BY <2>2, UseKept, PendingKept DEF PendingInv
  <2>3. CASE SourceChanges \/ Tick
    BY <2>2, <2>3 DEF SourceChanges, Tick, enrichVars, pendingVars, historyVars
  <2>4. CASE ServerRestart
    BY <2>4, PendingRestarted
  <2>5. CASE UNCHANGED readerVars
    BY <2>2, <2>5 DEF readerVars, enrichVars, pendingVars, historyVars
  <2>. QED BY <2>1, <2>3, <2>4, <2>5 DEF ReaderNext
<1>. QED BY <1>1, <1>2, PendingInvSound, PTL DEF ReaderSpec

-----------------------------------------------------------------------------
(* The overlay.                                                            *)

IsTables(T) ==
  /\ T = [facts |-> T.facts, dismissed |-> T.dismissed]
  /\ \E S : T.facts \in Seq(S)

\* Of two facts with one subject, SQLite would have found the first when the
\* second came.
PairsFound(T) ==
  \A i, j \in DOMAIN T.facts :
    i < j /\ T.facts[i].subject = T.facts[j].subject =>
      SqlLower(T.facts[i].key) # PyLower(T.facts[j].key)

\* The tables keep what they have.
Grows(T, U) ==
  /\ T.dismissed \subseteq U.dismissed
  /\ DOMAIN T.facts \subseteq DOMAIN U.facts
  /\ \A i \in DOMAIN T.facts : U.facts[i] = T.facts[i]

\* The decision that the thread is about to answer with success.
Answer(t) ==
  [subject |-> work[t].subject, key |-> PyLower(work[t].key), table |-> work[t].table]

\* A decision knows its table, and is on disk before it is answered.
DecisionInv(t) ==
  /\ op[t] \in {"accept", "write"} => work[t].table = "facts"
  /\ op[t] = "dismiss" => work[t].table = "dismissed"
  /\ op[t] = "consume" /\ commitFails = 0 => Stored(Answer(t))

TablesInv ==
  /\ IsTables(overlay) /\ PairsFound(overlay)
  /\ IsTables(stored) /\ PairsFound(stored)
  /\ commitFails = 0 => stored = overlay

\* Each thread has locals of its own; a commit fails a number of times.
WorkOK == work = [t \in Threads |-> work[t]] /\ commitFails \in Nat

LedgerInv ==
  /\ OpsOK /\ WorkOK
  /\ TablesInv
  /\ \A t \in Threads : DecisionInv(t)
  /\ commitFails = 0 => ConsumedIsWritten

\* What is found by SQLite is not written twice.
LEMMA LedgerIsStored == LedgerInv => AckedIsStored
<1>. SUFFICES ASSUME LedgerInv PROVE AckedIsStored
  OBVIOUS
<1>. DEFINE facts == stored.facts
            Lowered(i) == SqlLower(facts[i].key) = PyLower(facts[i].key)
<1>1. \A i \in DOMAIN facts : i \in Int
  BY DEF LedgerInv, TablesInv, IsTables
<1>2. ASSUME NEW i \in DOMAIN facts, NEW j \in DOMAIN facts, i < j,
             facts[i].subject = facts[j].subject, Lowered(i), Lowered(j)
      PROVE  PyLower(facts[i].key) # PyLower(facts[j].key)
  BY <1>2 DEF LedgerInv, TablesInv, PairsFound
<1>3. \A i, j \in DOMAIN facts : i # j => i < j \/ j < i
  BY <1>1
<1>4. ASSUME NEW i \in DOMAIN facts, NEW j \in DOMAIN facts, i # j,
             facts[i].subject = facts[j].subject, Lowered(i), Lowered(j)
      PROVE  PyLower(facts[i].key) # PyLower(facts[j].key)
  BY <1>2, <1>3, <1>4
<1>. QED BY <1>4 DEF LedgerInv, AckedIsStored

\* Nothing is decided at first.
LEMMA LedgerInit == ReaderInit => LedgerInv
<1>. SUFFICES ASSUME ReaderInit PROVE LedgerInv
  OBVIOUS
<1>1. /\ overlay = EmptyOverlay /\ stored = EmptyOverlay /\ acked = {}
      /\ commitFails = 0 /\ work = [t \in Threads |-> None]
      /\ op = [t \in Threads |-> "idle"]
  BY DEF ReaderInit, EnrichInit
<1>2. TablesInv
  <2>1. EmptyOverlay.facts = <<>> /\ EmptyOverlay.dismissed = {}
    BY DEF EmptyOverlay
  <2>2. <<>> \in Seq({}) /\ DOMAIN <<>> = {}
    OBVIOUS
  <2>3. IsTables(EmptyOverlay)
    BY <2>1, <2>2 DEF IsTables, EmptyOverlay
  <2>4. PairsFound(EmptyOverlay)
    BY <2>1, <2>2 DEF PairsFound
  <2>. QED BY <1>1, <2>3, <2>4 DEF TablesInv
<1>3. \A t \in Threads : DecisionInv(t)
  BY <1>1 DEF DecisionInv
<1>. QED BY <1>1, <1>2, <1>3, OpsInit DEF LedgerInv, WorkOK, ConsumedIsWritten

\* A decision on disk stays there while the tables grow.
LEMMA StoredStays ==
  ASSUME NEW a, Stored(a), Grows(stored, stored')
  PROVE  Stored(a)'
  BY DEF Stored, Grows

\* A step that writes no table: the thread t moves, with no decision, or goes on
\* with its own.
LEMMA LedgerKept ==
  ASSUME LedgerInv, OpsOK', WorkOK', UNCHANGED <<overlay, stored, acked, commitFails>>,
         \A t \in Threads : DecisionInv(t)'
  PROVE  LedgerInv'
<1>1. TablesInv'
  BY DEF LedgerInv, TablesInv
<1>2. commitFails' = 0 => ConsumedIsWritten'
  BY DEF LedgerInv, ConsumedIsWritten, Stored
<1>. QED BY <1>1, <1>2 DEF LedgerInv

\* The thread t goes on to its next operation.
LEMMA LedgerMoved ==
  ASSUME LedgerInv, UNCHANGED <<overlay, stored, acked, commitFails>>,
         NEW t \in Threads, NEW next \in Ops, NEW locals,
         op' = [op EXCEPT ![t] = next], work' = [work EXCEPT ![t] = locals],
         DecisionInv(t)'
  PROVE  LedgerInv'
<1>1. OpsOK'
  BY OpsStep DEF LedgerInv, OpStep
<1>2. WorkOK'
  BY DEF LedgerInv, WorkOK
<1>3. ASSUME NEW u \in Threads, u # t
      PROVE  DecisionInv(u)'
  <2>1. op'[u] = op[u] /\ work'[u] = work[u]
    BY <1>3 DEF LedgerInv, OpsOK, WorkOK
  <2>2. DecisionInv(u)
    BY DEF LedgerInv
  <2>. QED BY <2>1, <2>2 DEF DecisionInv, Answer, Stored
<1>. QED BY <1>1, <1>2, <1>3, LedgerKept

\* The thread t answers and has no decision left.
LEMMA LedgerIdles ==
  ASSUME LedgerInv, UNCHANGED <<overlay, stored, acked, commitFails>>,
         NEW t \in Threads, NEW next \in Ops \ {"accept", "write", "dismiss", "consume"},
         NEW locals, op' = [op EXCEPT ![t] = next], work' = [work EXCEPT ![t] = locals]
  PROVE  LedgerInv'
<1>1. DecisionInv(t)'
  BY DEF LedgerInv, OpsOK, DecisionInv
<1>. QED BY <1>1, LedgerMoved

\* No thread moves.
LEMMA LedgerStill ==
  ASSUME LedgerInv, UNCHANGED <<overlay, stored, acked, commitFails, op, work>>
  PROVE  LedgerInv'
<1>1. OpsOK' /\ WorkOK'
  BY DEF LedgerInv, OpsOK, WorkOK
<1>2. \A t \in Threads : DecisionInv(t)'
  BY DEF LedgerInv, DecisionInv, Answer, Stored
<1>. QED BY <1>1, <1>2, LedgerKept

\* A table that has grown, found no pair twice, and holds the decision.
LEMMA LedgerWritten ==
  ASSUME LedgerInv, NEW t \in Threads, op[t] \in {"write", "dismiss"},
         NEW tables, Written(t, tables), UNCHANGED <<work, acked>>,
         IsTables(tables), PairsFound(tables), Grows(overlay, tables),
         stored' = tables => Stored(Answer(t))'
  PROVE  LedgerInv'
<1>1. overlay' = tables
  BY DEF Written
<1>2. \/ /\ stored' = tables /\ commitFails' = commitFails
         /\ op' = [op EXCEPT ![t] = "consume"]
      \/ /\ stored' = stored /\ commitFails' = commitFails + 1
         /\ op' = [op EXCEPT ![t] = "release"]
  BY DEF Written
<1>3. commitFails \in Nat
  BY DEF LedgerInv, WorkOK
<1>4. OpsOK' /\ WorkOK'
  <2>1. OpsOK'
    BY <1>2, OpsStep DEF LedgerInv, OpStep, Ops, Deciding
  <2>2. WorkOK'
    BY <1>2, <1>3 DEF LedgerInv, WorkOK
  <2>. QED BY <2>1, <2>2
<1>5. commitFails' = 0 => commitFails = 0 /\ stored' = tables
  BY <1>2, <1>3
<1>6. TablesInv'
  BY <1>1, <1>2, <1>5 DEF LedgerInv, TablesInv
<1>7. commitFails' = 0 => Grows(stored, stored')
  BY <1>5 DEF LedgerInv, TablesInv
<1>8. commitFails' = 0 => ConsumedIsWritten'
  <2>. SUFFICES ASSUME commitFails' = 0, NEW a \in acked PROVE Stored(a)'
    BY DEF ConsumedIsWritten
  <2>1. Stored(a)
    BY <1>5 DEF LedgerInv, ConsumedIsWritten
  <2>. QED BY <1>7, <2>1, StoredStays
<1>9. ASSUME NEW u \in Threads
      PROVE  DecisionInv(u)'
  <2>1. CASE u = t
    <3>1. op'[t] \in {"consume", "release"}
      BY <1>2 DEF LedgerInv, OpsOK
    <3>2. commitFails' = 0 => Stored(Answer(t))'
      BY <1>5
    <3>. QED BY <2>1, <3>1, <3>2 DEF DecisionInv
  <2>2. CASE u # t
    <3>1. op'[u] = op[u] /\ work' = work
      BY <1>2, <2>2 DEF LedgerInv, OpsOK
    <3>2. DecisionInv(u)
      BY DEF LedgerInv
    <3>3. commitFails' = 0 /\ op[u] = "consume" => Stored(Answer(u))
      BY <1>5, <3>2 DEF DecisionInv
    <3>4. commitFails' = 0 /\ op[u] = "consume" => Stored(Answer(u))'
      BY <1>7, <3>1, <3>3 DEF Stored, Grows, Answer
    <3>. QED BY <3>1, <3>2, <3>4 DEF DecisionInv
  <2>. QED BY <2>1, <2>2
<1>. QED BY <1>4, <1>6, <1>8, <1>9 DEF LedgerInv

\* An accepted fact is written unless the pair is found.
LEMMA LedgerAccepted ==
  ASSUME LedgerInv, NEW t \in Threads, AcceptWrite(t)
  PROVE  LedgerInv'
<1>. DEFINE facts == overlay.facts
            new == Fact(work[t])
            tables == [overlay EXCEPT !.facts = Append(@, Fact(work[t]))]
<1>1. op[t] = "write" /\ UNCHANGED <<work, acked>> /\ work[t].table = "facts"
  BY DEF AcceptWrite, historyVars, LedgerInv, DecisionInv
<1>2. CASE FactExists(work[t]) /\ op' = [op EXCEPT ![t] = "consume"]
           /\ UNCHANGED <<overlay, stored, commitFails>>
  <2>1. PICK i \in DOMAIN facts : /\ facts[i].subject = work[t].subject
                                  /\ SqlLower(facts[i].key) = PyLower(work[t].key)
    BY <1>2 DEF FactExists
  <2>2. PyLower(facts[i].key) = PyLower(work[t].key)
    BY <2>1, LowerTwice
  <2>3. commitFails = 0 => Stored(Answer(t))
    BY <1>1, <2>1, <2>2 DEF LedgerInv, TablesInv, Stored, Answer
  <2>4. DecisionInv(t)'
    BY <1>1, <1>2, <2>3 DEF LedgerInv, OpsOK, DecisionInv, Answer, Stored
  <2>5. work' = [work EXCEPT ![t] = work[t]]
    BY <1>1 DEF LedgerInv, WorkOK
  <2>6. "consume" \in Ops
    BY DEF Ops, Deciding
  <2>. QED BY <1>1, <1>2, <2>4, <2>5, <2>6, LedgerMoved
<1>3. CASE ~FactExists(work[t]) /\ Written(t, tables)
  <2>1. PICK S : facts \in Seq(S)
    BY DEF LedgerInv, TablesInv, IsTables
  <2>. DEFINE more == Append(facts, new)
  <2>2. /\ more \in Seq(S \cup {new})
        /\ DOMAIN facts = 1..Len(facts) /\ Len(facts) \in Nat
        /\ DOMAIN more = 1..(Len(facts) + 1)
        /\ \A i \in DOMAIN facts : more[i] = facts[i]
        /\ more[Len(facts) + 1] = new
    BY <2>1, Appended
  <2>3. overlay = [facts |-> facts, dismissed |-> overlay.dismissed]
    BY DEF LedgerInv, TablesInv, IsTables
  <2>4. /\ tables = [facts |-> more, dismissed |-> overlay.dismissed]
        /\ tables.facts = more /\ tables.dismissed = overlay.dismissed
    BY <2>3
  <2>5. new.subject = work[t].subject /\ new.key = work[t].key
    BY DEF Fact
  <2>. HIDE DEF new, tables, facts, more
  <2>6. IsTables(tables)
    BY <2>2, <2>4 DEF IsTables
  <2>7. PairsFound(tables)
    <3>. SUFFICES ASSUME NEW i \in DOMAIN more, NEW j \in DOMAIN more, i < j,
                         more[i].subject = more[j].subject
                  PROVE  SqlLower(more[i].key) # PyLower(more[j].key)
      BY <2>4 DEF PairsFound
    <3>1. i \in DOMAIN facts /\ more[i] = facts[i]
      BY <2>2
    <3>2. CASE j \in DOMAIN facts
      BY <2>2, <3>1, <3>2 DEF LedgerInv, TablesInv, PairsFound, facts
    <3>3. CASE j = Len(facts) + 1
      BY <1>3, <2>2, <2>5, <3>1, <3>3 DEF FactExists, facts
    <3>. QED BY <2>2, <3>2, <3>3
  <2>8. Grows(overlay, tables)
    BY <2>2, <2>4 DEF Grows, facts
  <2>9. ASSUME stored' = tables
        PROVE  Stored(Answer(t))'
    <3>1. Len(facts) + 1 \in DOMAIN more
      BY <2>2
    <3>2. stored'.facts = more
      BY <2>4, <2>9
    <3>. QED BY <1>1, <2>2, <2>5, <3>1, <3>2 DEF Stored, Answer
  <2>10. Written(t, tables) /\ op[t] \in {"write", "dismiss"}
    BY <1>1, <1>3
  <2>. QED BY <1>1, <2>6, <2>7, <2>8, <2>9, <2>10, LedgerWritten
<1>. QED BY <1>2, <1>3 DEF AcceptWrite

\* A dismissal joins the others.
LEMMA LedgerDismissed ==
  ASSUME LedgerInv, NEW t \in Threads, DismissWrite(t)
  PROVE  LedgerInv'
<1>. DEFINE pair == [subject |-> work[t].subject, key |-> work[t].key]
            tables == [overlay EXCEPT !.dismissed = @ \cup {pair}]
<1>1. op[t] = "dismiss" /\ UNCHANGED <<work, acked>> /\ work[t].table = "dismissed"
  BY DEF DismissWrite, historyVars, LedgerInv, DecisionInv
<1>2. Written(t, tables)
  BY DEF DismissWrite
<1>3. overlay = [facts |-> overlay.facts, dismissed |-> overlay.dismissed]
  BY DEF LedgerInv, TablesInv, IsTables
<1>4. /\ tables = [facts |-> overlay.facts, dismissed |-> overlay.dismissed \cup {pair}]
      /\ tables.facts = overlay.facts
      /\ tables.dismissed = overlay.dismissed \cup {pair}
  BY <1>3
<1>5. pair.subject = work[t].subject /\ pair.key = work[t].key
  OBVIOUS
<1>. HIDE DEF pair, tables
<1>6. IsTables(tables) /\ PairsFound(tables)
  BY <1>4 DEF LedgerInv, TablesInv, IsTables, PairsFound
<1>7. Grows(overlay, tables)
  BY <1>4 DEF Grows
<1>8. ASSUME stored' = tables
      PROVE  Stored(Answer(t))'
  <2>1. pair \in stored'.dismissed
    BY <1>4, <1>8
  <2>. QED BY <1>1, <1>5, <2>1 DEF Stored, Answer
<1>9. op[t] \in {"write", "dismiss"}
  BY <1>1
<1>. QED BY <1>1, <1>2, <1>6, <1>7, <1>8, <1>9, LedgerWritten

\* The answer: the decision is on disk already.
LEMMA LedgerDecided ==
  ASSUME LedgerInv, NEW t \in Threads, NEW code, Decided(t, code)
  PROVE  LedgerInv'
<1>1. /\ UNCHANGED <<overlay, stored, commitFails>>
      /\ op' = [op EXCEPT ![t] = "idle"] /\ work' = [work EXCEPT ![t] = None]
  BY DEF Decided, Goto
<1>2. CASE acked' = acked
  BY <1>1, <1>2, LedgerIdles DEF Ops
<1>3. CASE op[t] = "consume" /\ acked' = acked \cup {Answer(t)}
  <2>1. OpsOK' /\ WorkOK' /\ TablesInv'
    BY <1>1, OpsStep DEF LedgerInv, OpStep, Ops, WorkOK, TablesInv
  <2>2. commitFails' = 0 => ConsumedIsWritten'
    <3>. SUFFICES ASSUME commitFails = 0, NEW a \in acked \cup {Answer(t)}
                  PROVE  Stored(a)
      BY <1>1, <1>3 DEF ConsumedIsWritten, Stored
    <3>. QED BY <1>3 DEF LedgerInv, ConsumedIsWritten, DecisionInv
  <2>3. ASSUME NEW u \in Threads
        PROVE  DecisionInv(u)'
    <3>1. CASE u = t
      BY <1>1, <3>1 DEF LedgerInv, OpsOK, DecisionInv
    <3>2. CASE u # t
      <4>1. op'[u] = op[u] /\ work'[u] = work[u]
        BY <1>1, <3>2 DEF LedgerInv, OpsOK, WorkOK
      <4>. QED BY <1>1, <4>1 DEF LedgerInv, DecisionInv, Answer, Stored
    <3>. QED BY <3>1, <3>2
  <2>. QED BY <2>1, <2>2, <2>3 DEF LedgerInv
<1>. QED BY <1>2, <1>3 DEF Decided, Acknowledge, Answer, historyVars

\* A restart rolls the open transaction back: the tables are those on disk.
LEMMA LedgerRestarted ==
  ASSUME LedgerInv, ServerRestart
  PROVE  LedgerInv'
<1>1. /\ overlay' = stored /\ UNCHANGED <<stored, acked, commitFails>>
      /\ op' = [t \in Threads |-> "idle"] /\ work' = [t \in Threads |-> None]
  BY DEF ServerRestart, Restart, historyVars
<1>2. OpsOK' /\ WorkOK' /\ TablesInv'
  BY <1>1 DEF LedgerInv, OpsOK, Ops, WorkOK, TablesInv
<1>3. \A t \in Threads : DecisionInv(t)'
  BY <1>1 DEF DecisionInv
<1>4. commitFails' = 0 => ConsumedIsWritten'
  BY <1>1 DEF LedgerInv, ConsumedIsWritten, Stored
<1>. QED BY <1>2, <1>3, <1>4 DEF LedgerInv

\* A request that comes in writes nothing, whatever its kind.
LEMMA LedgerReceive ==
  ASSUME LedgerInv, NEW t \in Threads, Receive(t)
  PROVE  LedgerInv'
<1>1. ASSUME NEW code, Answered(code)
      PROVE  LedgerInv'
  BY <1>1, LedgerStill DEF Answered, readerVars, enrichVars, historyVars
<1>2. ASSUME NEW r \in Gets, GetRefused(r) \/ GetRead(r) \/ GetBusy(r)
      PROVE  LedgerInv'
  BY <1>1, <1>2 DEF GetRefused, GetRead, GetBusy
<1>3. ASSUME NEW r \in Gets, AskModel(t, r)
      PROVE  LedgerInv'
  <2>1. UNCHANGED <<overlay, stored, acked, commitFails>>
    BY <1>3 DEF AskModel, EnrichRead, historyVars
  <2>2. \E next \in {"dismissed", "asking"} : \E locals : Goto(t, next, locals)
    BY <1>3 DEF AskModel, EnrichRead
  <2>. QED BY <2>1, <2>2, LedgerIdles DEF Goto, Ops, ModelOps
<1>4. ASSUME NEW r \in Posts, PostRefused(r)
      PROVE  LedgerInv'
  BY <1>1, <1>4 DEF PostRefused
<1>5. ASSUME NEW r \in Posts, PostClaimed(t, r)
      PROVE  LedgerInv'
  <2>1. PICK next \in {"accept", "dismiss"} :
          ClaimPending(t, r.body.id, r.body.subject, next)
    BY <1>5 DEF PostClaimed
  <2>2. UNCHANGED <<overlay, stored, acked, commitFails>>
    BY <2>1 DEF ClaimPending, historyVars
  <2>3. PICK locals : /\ Goto(t, next, locals)
                      /\ locals.table = IF next = "accept" THEN "facts" ELSE "dismissed"
    BY <2>1 DEF ClaimPending
  <2>4. op'[t] = next /\ work'[t] = locals
    BY <2>3 DEF Goto, LedgerInv, OpsOK, WorkOK
  <2>5. DecisionInv(t)'
    BY <2>3, <2>4 DEF DecisionInv
  <2>. QED BY <2>2, <2>3, <2>5, LedgerMoved DEF Goto, Ops, Deciding
<1>. QED BY <1>2, <1>3, <1>4, <1>5 DEF Receive

\* Every step of a request that goes on keeps the ledger.
LEMMA LedgerContinue ==
  ASSUME LedgerInv, NEW t \in Threads, Continue(t)
  PROVE  LedgerInv'
<1>1. CASE EnrichDismissed(t) \/ EnrichAccepted(t)
  <2>1. UNCHANGED <<overlay, stored, acked, commitFails>>
    BY <1>1 DEF EnrichDismissed, EnrichAccepted, historyVars
  <2>2. \E next \in {"accepted", "register"} : \E locals : Goto(t, next, locals)
    BY <1>1 DEF EnrichDismissed, EnrichAccepted
  <2>. QED BY <2>1, <2>2, LedgerIdles DEF Goto, Ops, ModelOps
<1>2. CASE EnrichRegister(t)
  <2>1. UNCHANGED <<overlay, stored, acked, commitFails>>
    BY <1>2 DEF EnrichRegister, historyVars
  <2>2. op' = op /\ op[t] = "register" /\ \E locals : work' = [work EXCEPT ![t] = locals]
    BY <1>2 DEF EnrichRegister
  <2>3. op' = [op EXCEPT ![t] = "register"]
    BY <2>2 DEF LedgerInv, OpsOK
  <2>. QED BY <2>1, <2>2, <2>3, LedgerIdles DEF Ops, ModelOps
<1>3. CASE AcceptSource(t)
  <2>1. UNCHANGED <<overlay, stored, acked, commitFails, work>>
    BY <1>3 DEF AcceptSource, historyVars
  <2>2. PICK next \in {"write", "refuse", "release"} : op' = [op EXCEPT ![t] = next]
    BY <1>3 DEF AcceptSource
  <2>3. op[t] = "accept" /\ op'[t] = next /\ work[t].table = "facts"
    BY <1>3, <2>2 DEF AcceptSource, LedgerInv, OpsOK, DecisionInv
  <2>4. DecisionInv(t)'
    BY <2>1, <2>3 DEF DecisionInv
  <2>5. work' = [work EXCEPT ![t] = work[t]]
    BY <2>1 DEF LedgerInv, WorkOK
  <2>6. next \in Ops
    BY DEF Ops, Deciding
  <2>. QED BY <2>1, <2>2, <2>4, <2>5, <2>6, LedgerMoved
<1>4. CASE AcceptWrite(t) \/ DismissWrite(t)
  BY <1>4, LedgerAccepted, LedgerDismissed
<1>5. ASSUME NEW code \in Codes, ModelAnswered(t, code)
      PROVE  LedgerInv'
  <2>1. UNCHANGED <<overlay, stored, acked, commitFails>> /\ Goto(t, "idle", None)
    BY <1>5 DEF ModelAnswered, historyVars
  <2>. QED BY <2>1, LedgerIdles DEF Goto, Ops
<1>6. ASSUME NEW code \in Codes, PostAnswered(t, code)
      PROVE  LedgerInv'
  BY <1>6, LedgerDecided DEF PostAnswered
<1>. QED BY <1>1, <1>2, <1>3, <1>4, <1>5, <1>6 DEF Continue

\* No step of the server spoils the ledger.
LEMMA LedgerStep ==
  ASSUME LedgerInv, [ReaderNext]_readerVars
  PROVE  LedgerInv'
<1>1. ASSUME NEW t \in Threads, Receive(t) \/ Continue(t)
      PROVE  LedgerInv'
  BY <1>1, LedgerReceive, LedgerContinue
<1>2. CASE SourceChanges \/ Tick
  BY <1>2, LedgerStill DEF SourceChanges, Tick, enrichVars, historyVars
<1>3. CASE ServerRestart
  BY <1>3, LedgerRestarted
<1>4. CASE UNCHANGED readerVars
  BY <1>4, LedgerStill DEF readerVars, enrichVars, historyVars
<1>. QED BY <1>1, <1>2, <1>3, <1>4 DEF ReaderNext

\* While no commit of the overlay has raised, every decision answered with success
\* is on disk; and no pair that SQLite lowers as Python does is there twice,
\* failed commits, retries and restarts included, for any number of threads and
\* whatever the model suggests (accept_fact, dismiss_fact, tools/wiki_reader.py).
THEOREM AckedStaysStored == ReaderSpec => []AckedIsStored
<1>1. LedgerInv /\ [ReaderNext]_readerVars => LedgerInv'
  BY LedgerStep
<1>. QED BY <1>1, LedgerInit, LedgerIsStored, PTL DEF ReaderSpec

-----------------------------------------------------------------------------
(* What was decided is not suggested again.                                *)

\* The pairs decided on an article, as the two tables have them.
DecidedSet(aid) == DismissedSet(aid) \cup AcceptedSet(aid)

\* What was decided before the request began is still to be read, or was read.
KnownAt(t) ==
  /\ op[t] \in {"dismissed", "accepted", "register"} =>
       work[t] = [aid |-> work[t].aid, raw |-> work[t].raw, target |-> work[t].target,
                  texts |-> work[t].texts, decided |-> work[t].decided,
                  known |-> work[t].known]
  /\ op[t] = "dismissed" => work[t].known \subseteq DecidedSet(work[t].aid)
  /\ op[t] = "accepted" =>
       work[t].known \subseteq work[t].decided \cup AcceptedSet(work[t].aid)
  /\ op[t] = "register" => work[t].known \subseteq work[t].decided

KnownInv == commitFails = 0 => \A t \in Threads : KnownAt(t)

LEMMA KnownInit == ReaderInit => KnownInv
  BY DEF ReaderInit, EnrichInit, KnownInv, KnownAt

\* Tables that grow lose no decision.
LEMMA DecidedGrows ==
  ASSUME Grows(overlay, overlay'), NEW aid
  PROVE  /\ DismissedSet(aid) \subseteq DismissedSet(aid)'
         /\ AcceptedSet(aid) \subseteq AcceptedSet(aid)'
<1>1. DismissedSet(aid) \subseteq DismissedSet(aid)'
  BY DEF Grows, DismissedSet
<1>2. AcceptedSet(aid) \subseteq AcceptedSet(aid)'
  BY DEF Grows, AcceptedSet
<1>. QED BY <1>1, <1>2

\* While no commit has raised, the tables of the connection are those on disk.
LEMMA AckedIsDecided ==
  ASSUME LedgerInv, commitFails = 0, NEW a \in acked
  PROVE  a.key \in DecidedSet(a.subject)
<1>1. Stored(a) /\ stored = overlay
  BY DEF LedgerInv, ConsumedIsWritten, TablesInv
<1>2. CASE a.table = "dismissed"
  BY <1>1, <1>2 DEF Stored, DecidedSet, DismissedSet
<1>3. CASE a.table # "dismissed"
  <2>1. PICK i \in DOMAIN overlay.facts :
          overlay.facts[i].subject = a.subject /\ PyLower(overlay.facts[i].key) = a.key
    BY <1>1, <1>3 DEF Stored
  <2>. QED BY <2>1 DEF DecidedSet, AcceptedSet
<1>. QED BY <1>2, <1>3

\* A thread that is not moved, while the tables grow.
LEMMA KnownKept ==
  ASSUME KnownInv, NEW t \in Threads, op'[t] = op[t], work'[t] = work[t],
         commitFails' = 0 => commitFails = 0 /\ Grows(overlay, overlay')
  PROVE  commitFails' = 0 => KnownAt(t)'
<1>. SUFFICES ASSUME commitFails' = 0 PROVE KnownAt(t)'
  OBVIOUS
<1>1. KnownAt(t)
  BY DEF KnownInv
<1>2. \A aid : /\ DismissedSet(aid) \subseteq DismissedSet(aid)'
               /\ AcceptedSet(aid) \subseteq AcceptedSet(aid)'
  BY DecidedGrows
<1>. QED BY <1>1, <1>2 DEF KnownAt, DecidedSet

\* The thread t moves, and the tables grow.
LEMMA KnownMoved ==
  ASSUME LedgerInv, KnownInv, NEW t \in Threads, NEW next, NEW locals,
         op' = [op EXCEPT ![t] = next], work' = [work EXCEPT ![t] = locals],
         commitFails' = 0 => commitFails = 0 /\ Grows(overlay, overlay'),
         commitFails' = 0 => KnownAt(t)'
  PROVE  KnownInv'
<1>. SUFFICES ASSUME commitFails' = 0, NEW u \in Threads PROVE KnownAt(u)'
  BY DEF KnownInv
<1>1. CASE u = t
  BY <1>1
<1>2. CASE u # t
  <2>1. op'[u] = op[u] /\ work'[u] = work[u]
    BY <1>2 DEF LedgerInv, OpsOK, WorkOK
  <2>. QED BY <2>1, KnownKept
<1>. QED BY <1>1, <1>2

\* The thread t goes to an operation that knows nothing.
LEMMA KnownIdles ==
  ASSUME LedgerInv, KnownInv, NEW t \in Threads,
         NEW next \in Ops \ {"dismissed", "accepted", "register"}, NEW locals,
         op' = [op EXCEPT ![t] = next], work' = [work EXCEPT ![t] = locals],
         commitFails' = 0 => commitFails = 0 /\ Grows(overlay, overlay')
  PROVE  KnownInv'
<1>1. KnownAt(t)'
  BY DEF LedgerInv, OpsOK, KnownAt
<1>. QED BY <1>1, KnownMoved

LEMMA SameGrows == overlay' = overlay => Grows(overlay, overlay')
  BY DEF Grows

LEMMA KnownStill ==
  ASSUME KnownInv, UNCHANGED <<op, work, overlay, commitFails>>
  PROVE  KnownInv'
<1>. SUFFICES ASSUME commitFails' = 0, NEW t \in Threads PROVE KnownAt(t)'
  BY DEF KnownInv
<1>. QED BY SameGrows, KnownKept

\* A decision that is written joins the others.
LEMMA WritesGrow ==
  ASSUME LedgerInv, NEW t \in Threads, AcceptWrite(t) \/ DismissWrite(t)
  PROVE  /\ Grows(overlay, overlay')
         /\ commitFails' = 0 => commitFails = 0
         /\ \E next \in {"consume", "release"} : op' = [op EXCEPT ![t] = next]
<1>1. /\ commitFails' = 0 => commitFails = 0
      /\ \E next \in {"consume", "release"} : op' = [op EXCEPT ![t] = next]
  BY DEF AcceptWrite, DismissWrite, Written, LedgerInv, WorkOK
<1>2. Grows(overlay, overlay')
  <2>1. PICK S : overlay.facts \in Seq(S)
    BY DEF LedgerInv, TablesInv, IsTables
  <2>2. overlay = [facts |-> overlay.facts, dismissed |-> overlay.dismissed]
    BY DEF LedgerInv, TablesInv, IsTables
  <2>3. CASE overlay' = overlay
    BY <2>3, SameGrows
  <2>4. CASE overlay' = [overlay EXCEPT !.facts = Append(@, Fact(work[t]))]
    <3>1. /\ overlay'.facts = Append(overlay.facts, Fact(work[t]))
          /\ overlay'.dismissed = overlay.dismissed
      BY <2>2, <2>4
    <3>2. /\ DOMAIN overlay.facts \subseteq DOMAIN overlay'.facts
          /\ \A i \in DOMAIN overlay.facts : overlay'.facts[i] = overlay.facts[i]
      BY <2>1, <3>1, Appended
    <3>. QED BY <3>1, <3>2 DEF Grows
  <2>5. CASE overlay' = [overlay EXCEPT !.dismissed =
                           @ \cup {[subject |-> work[t].subject, key |-> work[t].key]}]
    <3>1. /\ overlay'.facts = overlay.facts
          /\ overlay.dismissed \subseteq overlay'.dismissed
      BY <2>2, <2>5
    <3>. QED BY <3>1 DEF Grows
  <2>. QED BY <2>3, <2>4, <2>5 DEF AcceptWrite, DismissWrite, Written
<1>. QED BY <1>1, <1>2

\* A request that comes in knows what is decided, and writes nothing.
LEMMA KnownReceive ==
  ASSUME LedgerInv, KnownInv, NEW t \in Threads, Receive(t)
  PROVE  KnownInv'
<1>1. ASSUME NEW code, Answered(code)
      PROVE  KnownInv'
  BY <1>1, KnownStill DEF Answered, readerVars, enrichVars
<1>2. ASSUME NEW r \in Gets, GetRefused(r) \/ GetRead(r) \/ GetBusy(r)
      PROVE  KnownInv'
  BY <1>1, <1>2 DEF GetRefused, GetRead, GetBusy
<1>3. ASSUME NEW aid, EnrichRead(t, aid)
      PROVE  KnownInv'
  <2>1. UNCHANGED <<overlay, commitFails>>
    BY <1>3 DEF EnrichRead
  <2>2. PICK raw, target, texts :
          Goto(t, "dismissed",
               [aid |-> aid, raw |-> raw, target |-> target, texts |-> texts,
                decided |-> {}, known |-> {a.key : a \in {b \in acked : b.subject = aid}}])
    BY <1>3 DEF EnrichRead
  <2>. DEFINE locals == [aid |-> aid, raw |-> raw, target |-> target, texts |-> texts,
                         decided |-> {},
                         known |-> {a.key : a \in {b \in acked : b.subject = aid}}]
  <2>3. op'[t] = "dismissed" /\ work'[t] = locals
    BY <2>2 DEF Goto, LedgerInv, OpsOK, WorkOK
  <2>4. commitFails = 0 => locals.known \subseteq DecidedSet(aid)
    BY AckedIsDecided
  <2>5. DecidedSet(aid)' = DecidedSet(aid)
    BY <2>1 DEF DecidedSet, DismissedSet, AcceptedSet
  <2>6. commitFails' = 0 => KnownAt(t)'
    BY <2>1, <2>3, <2>4, <2>5 DEF KnownAt
  <2>. QED BY <2>1, <2>2, <2>6, SameGrows, KnownMoved DEF Goto
<1>4. ASSUME NEW r \in Gets, AskModel(t, r)
      PROVE  KnownInv'
  <2>1. CASE EnrichRead(t, r.id)
    BY <1>3, <2>1
  <2>2. CASE Goto(t, "asking", None) /\ UNCHANGED <<overlay, commitFails>>
    BY <2>2, KnownIdles, SameGrows DEF Goto, Ops, ModelOps
  <2>. QED BY <1>4, <2>1, <2>2 DEF AskModel
<1>5. ASSUME NEW r \in Posts, PostRefused(r)
      PROVE  KnownInv'
  BY <1>1, <1>5 DEF PostRefused
<1>6. ASSUME NEW r \in Posts, PostClaimed(t, r)
      PROVE  KnownInv'
  <2>1. PICK next \in {"accept", "dismiss"} :
          ClaimPending(t, r.body.id, r.body.subject, next)
    BY <1>6 DEF PostClaimed
  <2>2. UNCHANGED <<overlay, commitFails>> /\ \E locals : Goto(t, next, locals)
    BY <2>1 DEF ClaimPending
  <2>. QED BY <2>2, KnownIdles, SameGrows DEF Goto, Ops, Deciding
<1>. QED BY <1>2, <1>4, <1>5, <1>6 DEF Receive

\* Enrich reads the dismissed pairs, then the accepted ones, then registers.
LEMMA KnownEnriches ==
  ASSUME LedgerInv, KnownInv, NEW t \in Threads,
         EnrichDismissed(t) \/ EnrichAccepted(t) \/ EnrichRegister(t)
  PROVE  KnownInv'
<1>1. UNCHANGED <<overlay, commitFails>>
  BY DEF EnrichDismissed, EnrichAccepted, EnrichRegister
<1>2. \A aid : UNCHANGED <<DismissedSet(aid), AcceptedSet(aid)>>
  BY <1>1 DEF DismissedSet, AcceptedSet
<1>3. commitFails = 0 => KnownAt(t)
  BY DEF KnownInv
<1>4. CASE EnrichDismissed(t)
  <2>. DEFINE locals == [work[t] EXCEPT !.decided = DismissedSet(work[t].aid)]
  <2>1. op[t] = "dismissed" /\ Goto(t, "accepted", locals)
    BY <1>4 DEF EnrichDismissed
  <2>2. op'[t] = "accepted" /\ work'[t] = locals
    BY <2>1 DEF Goto, LedgerInv, OpsOK, WorkOK
  <2>3. commitFails' = 0 => KnownAt(t)'
    BY <1>1, <1>2, <1>3, <2>1, <2>2 DEF KnownAt, DecidedSet
  <2>. QED BY <1>1, <2>1, <2>3, KnownMoved, SameGrows DEF Goto
<1>5. CASE EnrichAccepted(t)
  <2>. DEFINE locals == [work[t] EXCEPT !.decided = @ \cup AcceptedSet(work[t].aid)]
  <2>1. op[t] = "accepted" /\ Goto(t, "register", locals)
    BY <1>5 DEF EnrichAccepted
  <2>2. op'[t] = "register" /\ work'[t] = locals
    BY <2>1 DEF Goto, LedgerInv, OpsOK, WorkOK
  <2>3. commitFails' = 0 => KnownAt(t)'
    BY <1>1, <1>2, <1>3, <2>1, <2>2 DEF KnownAt
  <2>. QED BY <1>1, <2>1, <2>3, KnownMoved, SameGrows DEF Goto
<1>6. CASE EnrichRegister(t)
  <2>1. PICK raw : work' = [work EXCEPT ![t] = [work[t] EXCEPT !.raw = raw]]
    BY <1>6 DEF EnrichRegister
  <2>2. op' = op /\ op[t] = "register"
    BY <1>6 DEF EnrichRegister
  <2>3. work'[t] = [work[t] EXCEPT !.raw = raw] /\ op' = [op EXCEPT ![t] = "register"]
    BY <2>1, <2>2 DEF LedgerInv, OpsOK, WorkOK
  <2>4. commitFails' = 0 => KnownAt(t)'
    BY <1>1, <1>3, <2>2, <2>3 DEF KnownAt
  <2>. QED BY <1>1, <2>1, <2>3, <2>4, KnownMoved, SameGrows
<1>. QED BY <1>4, <1>5, <1>6

LEMMA KnownContinue ==
  ASSUME LedgerInv, KnownInv, NEW t \in Threads, Continue(t)
  PROVE  KnownInv'
<1>0. work = [work EXCEPT ![t] = work[t]]
  BY DEF LedgerInv, WorkOK
<1>1. CASE EnrichDismissed(t) \/ EnrichAccepted(t) \/ EnrichRegister(t)
  BY <1>1, KnownEnriches
<1>2. CASE AcceptSource(t)
  <2>1. /\ UNCHANGED <<overlay, commitFails, work>>
        /\ \E next \in {"write", "refuse", "release"} : op' = [op EXCEPT ![t] = next]
    BY <1>2 DEF AcceptSource
  <2>. QED BY <1>0, <2>1, KnownIdles, SameGrows DEF Ops, Deciding
<1>3. CASE AcceptWrite(t) \/ DismissWrite(t)
  <2>1. UNCHANGED work
    BY <1>3 DEF AcceptWrite, DismissWrite
  <2>. QED BY <1>0, <1>3, <2>1, WritesGrow, KnownIdles DEF Ops, Deciding
<1>4. ASSUME NEW code \in Codes, ModelAnswered(t, code) \/ PostAnswered(t, code)
      PROVE  KnownInv'
  <2>1. UNCHANGED <<overlay, commitFails>> /\ Goto(t, "idle", None)
    BY <1>4 DEF ModelAnswered, PostAnswered, Decided
  <2>. QED BY <2>1, KnownIdles, SameGrows DEF Goto, Ops
<1>. QED BY <1>1, <1>2, <1>3, <1>4 DEF Continue

LEMMA KnownStep ==
  ASSUME LedgerInv, KnownInv, [ReaderNext]_readerVars
  PROVE  KnownInv'
<1>1. ASSUME NEW t \in Threads, Receive(t) \/ Continue(t)
      PROVE  KnownInv'
  BY <1>1, KnownReceive, KnownContinue
<1>2. CASE SourceChanges \/ Tick
  BY <1>2, KnownStill DEF SourceChanges, Tick, enrichVars
<1>3. CASE ServerRestart
  <2>1. op' = [t \in Threads |-> "idle"]
    BY <1>3 DEF ServerRestart, Restart
  <2>. QED BY <2>1 DEF KnownInv, KnownAt
<1>4. CASE UNCHANGED readerVars
  BY <1>4, KnownStill DEF readerVars, enrichVars
<1>. QED BY <1>1, <1>2, <1>3, <1>4 DEF ReaderNext

\* A step of a thread that goes on registering adds one suggestion, whose pair is
\* none of those that were read.
LEMMA NothingKnown ==
  ASSUME LedgerInv, KnownInv, ReaderNext, NEW t \in Threads, op[t] = "register",
         work'[t] # work[t], commitFails = 0, NEW e \in entries' \ entries
  PROVE  PyLower(e.key) \notin work[t].known
<1>1. ASSUME NEW u \in Threads, EnrichRegister(u)
      PROVE  PyLower(e.key) \notin work[t].known
  <2>1. u = t
    <3>1. \E locals : work' = [work EXCEPT ![u] = locals]
      BY <1>1 DEF EnrichRegister
    <3>. QED BY <3>1 DEF LedgerInv, WorkOK
  <2>2. PICK f : /\ Suggested(work[t], f)
                 /\ Register([subject |-> work[t].aid, source |-> f.source,
                              key |-> f.key, snippet |-> f.snippet])
    BY <1>1, <2>1 DEF EnrichRegister
  <2>3. entries' \ entries \subseteq
          {[id |-> nextId, expires |-> now + Ttl, subject |-> work[t].aid,
            source |-> f.source, key |-> f.key, snippet |-> f.snippet]}
    BY <2>2, EvictionKeeps DEF Register
  <2>4. e.key = f.key
    BY <2>3
  <2>5. work[t].known \subseteq work[t].decided
    BY DEF KnownInv, KnownAt
  <2>. QED BY <2>2, <2>4, <2>5 DEF Suggested
<1>2. ASSUME NEW u \in Threads, Continue(u), ~EnrichRegister(u)
      PROVE  entries' \subseteq entries
  BY <1>2 DEF Continue, EnrichDismissed, EnrichAccepted, AcceptSource, AcceptWrite,
     DismissWrite, ModelAnswered, PostAnswered, Decided, Consume, Release, pendingVars
<1>3. ASSUME NEW u \in Threads, Receive(u)
      PROVE  entries' \subseteq entries
  BY <1>3 DEF Receive, GetRefused, GetRead, GetBusy, AskModel, EnrichRead, PostRefused,
     Answered, PostClaimed, ClaimPending, Claim, readerVars, pendingVars
<1>4. CASE SourceChanges \/ Tick \/ ServerRestart
  <2>1. entries' \subseteq entries
    BY <1>4 DEF SourceChanges, Tick, ServerRestart, Restart, Forget, pendingVars
  <2>. QED BY <2>1
<1>. QED BY <1>1, <1>2, <1>3, <1>4 DEF ReaderNext

\* While no commit of the overlay has raised, an enrich request registers no pair
\* that was accepted or dismissed before it began, for any number of threads that
\* read, write and decide meanwhile, and whatever the model suggests (enrich,
\* tools/wiki_reader.py).
THEOREM DecidedNeverReturns == ReaderSpec => DecidedStaysAway
<1>. DEFINE Known == LedgerInv /\ KnownInv
            Away == \A t \in Threads :
                      op[t] = "register" /\ work'[t] # work[t] /\ commitFails = 0 =>
                      \A e \in entries' \ entries : PyLower(e.key) \notin work[t].known
<1>1. ReaderInit => Known
  BY LedgerInit, KnownInit
<1>2. Known /\ [ReaderNext]_readerVars => Known'
  BY LedgerStep, KnownStep
<1>3. Known /\ [ReaderNext]_readerVars => [Away]_readerVars
  BY NothingKnown
<1>. QED BY <1>1, <1>2, <1>3, PTL DEF ReaderSpec, DecidedStaysAway

=============================================================================
