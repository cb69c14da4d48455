---------------------------- MODULE FilterFirst -----------------------------
(***************************************************************************)
(* tjs_open with a source vertex: the candidates are pulled one by one     *)
(* from gph_traverse_bounded, probed against the relational filter, ranked *)
(* in a heap of k, and the pulling stops early after term_cond candidates  *)
(* in a row that did not improve a full heap.                              *)
(*                                                                         *)
(* The traversal is the one of Traversal, which goes on only while its     *)
(* caller asks for the next vertex.                                        *)
(***************************************************************************)
EXTENDS Traversal, Topk

CONSTANT Queries   \* what the calls ask: k, term_cond, the distances and the
                   \* vertices whose row passes the filter with a vector

ASSUME QueriesAssumption ==
  Queries \subseteq [k : Nat \ {0}, term : Nat, dist : [Vertices -> Nat],
                     passes : SUBSET Vertices]

VARIABLES
  query,    \* the call's arguments
  taken,    \* how many emitted vertices have been looked at
  outcome   \* "running"; then "exhausted" or "dropped", with the flag

callVars == <<query, topk, drops, taken, examined, outcome>>
ffVars == <<travVars, callVars>>

Running0 == [phase |-> "running", censored |-> FALSE]

CallInit ==
  /\ TravInit
  /\ query \in Queries
  /\ topk = <<>>
  /\ drops = 0
  /\ taken = 0
  /\ examined = 0
  /\ outcome = Running0

\* SPI_cursor_fetch: the traversal runs up to its next vertex or its end.
Fetch ==
  /\ outcome.phase = "running"
  /\ taken = Len(emitted)
  /\ TravNext
  /\ UNCHANGED callVars

Candidate == emitted[taken + 1]

\* The filter, or the vector that is null, excludes it.
Excluded ==
  /\ outcome.phase = "running"
  /\ taken < Len(emitted)
  /\ Candidate \notin query.passes
  /\ taken' = taken + 1
  /\ UNCHANGED <<travVars, query, topk, drops, examined, outcome>>

\* It is ranked.  A full heap that it does not improve counts it as a drop;
\* enough drops in a row close the cursor on a traversal that has not ended.
RankedCandidate ==
  LET improves == Improves(query.dist, query.k, topk, Candidate)
      dropped == ~improves /\ query.term > 0
  IN
  /\ outcome.phase = "running"
  /\ taken < Len(emitted)
  /\ Candidate \in query.passes
  /\ taken' = taken + 1
  /\ examined' = examined + 1
  /\ topk' = Offered(query.dist, query.k, topk, Candidate)
  /\ drops' = IF improves THEN 0 ELSE IF dropped THEN drops + 1 ELSE drops
  /\ outcome' = IF dropped /\ drops' >= query.term
             THEN [phase |-> "dropped", censored |-> FALSE] ELSE outcome
  /\ UNCHANGED <<travVars, query>>

\* Mutant: the flag is read before the cursor has run to its end.
ExhaustedUndisclosed ==
  /\ outcome.phase = "running"
  /\ taken = Len(emitted)
  /\ state # "pulling"
  /\ outcome' = [phase |-> "exhausted", censored |-> FALSE]
  /\ UNCHANGED <<travVars, query, topk, drops, taken, examined>>

Exhausted ==
  /\ outcome.phase = "running"
  /\ taken = Len(emitted)
  /\ state # "pulling"
  /\ outcome' = [phase |-> "exhausted", censored |-> state = "censored"]
  /\ UNCHANGED <<travVars, query, topk, drops, taken, examined>>

CallNext ==
  \/ Fetch
  \/ Excluded
  \/ RankedCandidate
  \/ Exhausted

CallSpec == CallInit /\ [][CallNext]_ffVars

-----------------------------------------------------------------------------
(* Correctness.                                                            *)

\* The vertices looked at that were ranked, in order.
RankedSoFar ==
  Only(SubSeq(emitted, 1, taken), query.passes)

\* The array is a heap of k nearest of the qualifying vertices seen, each
\* once, and each of them counted (topk_offer, tjs_pg.c:405-438; tjs_examined
\* at 1306).
HoldsNearest ==
  /\ \A i \in 2..Len(topk) : query.dist[topk[i \div 2]] >= query.dist[topk[i]]
  /\ KNearest(query.dist, query.k, ToSet(topk), ToSet(RankedSoFar))
  /\ IsInjective(topk)
  /\ examined = Len(RankedSoFar)

\* A call that was neither cut by its budget nor by term_cond ranked the whole
\* reach: its answer is what ranking gph_traverse_bfs' list gives
\* (tjs_pg.c:1209-1212).
UncensoredIsExact ==
  outcome = [phase |-> "exhausted", censored |-> FALSE] =>
    KNearest(query.dist, query.k, ToSet(topk), ToSet(listed) \cap query.passes)

\* The drops counted are those since the last candidate that entered the
\* heap, which is held still; so a call stops early after term_cond candidates
\* in a row too far away to matter, and after no fewer (tjs_pg.c:1311-1314, 1212-1215).
DropsAreConsecutive ==
  LET seen == RankedSoFar
      kept == Len(seen) - drops
  IN
  /\ query.term > 0 /\ seen # <<>> =>
       /\ seen[kept] \in ToSet(topk)
       /\ \A i \in (kept + 1)..Len(seen) : seen[i] \notin ToSet(topk)
  /\ outcome.phase = "dropped" <=> query.term > 0 /\ drops = query.term

\* Stopping early stops the traversal: no edge-step is taken beyond the one
\* that reached the last candidate, and the budget's flag stays down
\* (tjs_pg.c:1269-1277, 1317-1320; ADR-0020, section 1).
DroppedStopsWork ==
  outcome.phase = "dropped" =>
    LET steps == Search(adj, args.seed, args.depth, args.type).steps
        last == emitted[taken]
    IN
    /\ state = "pulling"
    /\ taken = Len(emitted)
    /\ steps[used] = last
    /\ \A i \in 1..(used - 1) : steps[i] # last

=============================================================================
