------------------------------ MODULE Seedless ------------------------------
(***************************************************************************)
(* tjs_open without a source vertex.  It owns a stream of rows in roughly  *)
(* ascending distance: the first of them fill a window, the nearest of     *)
(* which become the seeds of the graph leg; the rest compete for a heap of *)
(* k until the stream ends, a budget ends it, or term_cond rows in a row   *)
(* did not matter.  The vertices reached from the seeds, the bridges, that *)
(* the stream did not bring are fetched, and both groups are merged.       *)
(*                                                                         *)
(* Under tjs.graph_scoring = membership a bridge is any reached row, and   *)
(* the nearest are guaranteed a share of the answer; under ppr, the        *)
(* default, the reached vertices have reserves from the push, and distance *)
(* and reserve are fused into one score.  With m = 0 there is no graph leg.*)
(*                                                                         *)
(* The table and the store are at rest for the call, which runs under one  *)
(* snapshot.                                                               *)
(***************************************************************************)
EXTENDS Reach, Topk, FiniteSetsExt

CONSTANTS
  Mass,      \* the personalization mass of all the seeds together
  AlphaDiv,  \* 1 / tjs.ppr_alpha
  Rmax,      \* tjs.ppr_rmax: a residue below it is not pushed
  Window,  \* seed_window, as a function of m_seeds
  Calls    \* the arguments and settings, the table and the store

ASSUME PushAssumption == {Mass, AlphaDiv, Rmax} \subseteq Nat \ {0}

\* Ids are bigints, and a table has finitely many rows.
ASSUME VerticesAssumption == Vertices \subseteq Int /\ IsFiniteSet(Vertices)

ASSUME CallsAssumption ==
  \A c \in Calls :
    /\ c.g \in [Vertices -> Seq([dst : Vertices, type : Nat \ {EdgeTypeAny}])]
    /\ c.dist \in [Vertices -> Nat]
    /\ c.rows \subseteq Vertices /\ c.passes \subseteq c.rows
    /\ {c.term, c.m, c.hops, c.type, c.scanBudget} \subseteq Nat
    /\ {c.k, c.workBudget} \subseteq Nat \ {0}
    /\ c.scoring \in {"membership", "ppr"}
    /\ c.m > 0 => Window[c.m] > c.m

(***************************************************************************)
(* graph_reach_ppr_push: one pop of the forward push at a time.  Mass is   *)
(* counted in whole grains, Mass of them in all; a pop keeps one AlphaDiv  *)
(* of a vertex's residue as its reserve and hands the rest to the          *)
(* neighbours, in equal shares.  A push is a record                        *)
(*   reach, residue, reserve, queue    and the budget: left, used, censored*)
(***************************************************************************)

\* ppr_enqueue, which the callers do for a residue of at least rmax.
Enqueued(push, v, depth) ==
  IF push.residue[v] < Rmax THEN push
  ELSE [push EXCEPT !.queue = Append(@, [vid |-> v, depth |-> depth])]

\* A vertex is touched: it is reached, and its residue grows.
Touched(push, v, mass, depth) ==
  Enqueued([push EXCEPT !.reach = @ \cup {v}, !.residue[v] = @ + mass], v, depth)

Similarity(d, v) == Mass \div (1 + d[v])

\* A seed's share of the mass is in proportion to its similarity.
SeedMass(d, seeds, s) ==
  LET total == MapThenSumSet(LAMBDA v : Similarity(d, v), ToSet(seeds))
  IN  (Mass * Similarity(d, s)) \div Max({total, 1})

PushStart(vids, d, seeds, budget) ==
  LET none == [v \in vids |-> 0] IN
  FoldLeft(LAMBDA push, s : Touched(push, s, SeedMass(d, seeds, s), 0),
           [reach |-> {}, residue |-> none, reserve |-> none, queue |-> <<>>,
            left |-> budget, used |-> 0, censored |-> FALSE],
           seeds)

\* The vertex's residue is drained: a part is banked, the rest is pushed.
Drained(push, v) ==
  [push EXCEPT !.queue = Tail(@),
               !.reserve[v] = @ + push.residue[v] \div AlphaDiv,
               !.residue[v] = 0]

\* The edges the budget still pays for are walked, and those ends share the
\* pushed mass; with no edge it is lost.
Expanded(push, g, type, item, mass) ==
  LET out == OutEdges(g, type, item.vid)
      n == Min({Len(out), push.left})
      walked == SubSeq(out, 1, n)
      paid == [push EXCEPT !.left = @ - n, !.used = @ + n,
                           !.censored = @ \/ Len(out) >= push.left]
  IN  FoldLeft(LAMBDA p, e : Touched(p, e.dst, mass \div n, item.depth + 1),
               paid, walked)

\* One pop of the queue.  A vertex drained since it was enqueued is skipped;
\* one at the hop bound is banked and not expanded.
Popped(push, g, type, hops) ==
  LET item == Head(push.queue)
      residue == push.residue[item.vid]
      banked == Drained(push, item.vid)
  IN  IF residue < Rmax THEN [push EXCEPT !.queue = Tail(@)]
      ELSE IF item.depth >= hops THEN banked
      ELSE Expanded(banked, g, type, item, residue - residue \div AlphaDiv)

-----------------------------------------------------------------------------

VARIABLES
  call,      \* the arguments
  phase,     \* "stream", "seeding", "drain", "done"
  reason,    \* tjs_term_reason once the stream has ended
  streamed,  \* the rows the stream has brought
  buf,       \* the seed window
  seeded,    \* the window has been seeded from and admitted
  seeds,     \* the seeds still to pull, nearest first
  push,      \* reach, with the reserves and the budget
  bridges,   \* the bridges' heap
  injected,  \* tjs_bridges_injected
  fetched,   \* the bridges fetched by id
  answer     \* what is returned, in order

seedlessVars == <<call, phase, reason, streamed, buf, seeded, seeds, push, topk, bridges,
          drops, examined, injected, fetched, answer>>

Ppr == call.scoring = "ppr"

Reasons == {"running", "term_cond", "scan_budget", "stream_end_unknown"}

SeedlessTypeOK ==
  /\ call \in Calls
  /\ phase \in {"stream", "seeding", "drain", "done"}
  /\ reason \in Reasons
  /\ phase \in {"drain", "done"} => reason # "running"
  /\ streamed \subseteq call.rows
  /\ buf \subseteq streamed \cap call.passes
  /\ seeded \in BOOLEAN
  /\ seeds \in Seq(buf)
  /\ push.reach \subseteq Vertices
  /\ \A h \in {topk, bridges} :
       /\ h \in Seq(call.passes) /\ IsInjective(h)
       /\ Len(h) <= call.k
       /\ \A i \in 2..Len(h) : call.dist[h[i \div 2]] >= call.dist[h[i]]
  /\ drops \in 0..call.term
  /\ {examined, injected} \subseteq Nat
  /\ fetched \subseteq push.reach
  /\ answer \in Seq(call.passes) /\ Len(answer) <= call.k

GraphLeg == call.m > 0

Seen == IF GraphLeg THEN streamed \cap call.passes ELSE {}

-----------------------------------------------------------------------------

SeedlessInit ==
  /\ call \in Calls
  /\ phase = "stream"
  /\ reason = "running"
  /\ streamed = {} /\ buf = {} /\ fetched = {}
  /\ seeded = FALSE
  /\ seeds = <<>>
  /\ push = PushStart(Vertices, call.dist, <<>>, call.workBudget)
  /\ topk = <<>> /\ bridges = <<>> /\ answer = <<>>
  /\ drops = 0 /\ examined = 0 /\ injected = 0

ScanBudgetSpent == call.scanBudget > 0 /\ examined >= call.scanBudget

\* The stream, in relaxed order: any row it has not brought.
Pulls(row) ==
  /\ phase = "stream"
  /\ ~ScanBudgetSpent
  /\ row \notin streamed
  /\ streamed' = streamed \cup {row}
  /\ examined' = examined + 1

\* The filter excludes it; that is no drop.
StreamExcluded(row) ==
  /\ Pulls(row)
  /\ row \notin call.passes
  /\ UNCHANGED <<call, phase, reason, buf, seeded, seeds, push, topk, bridges,
                 drops, injected, fetched, answer>>

\* The seeds are the nearest of the window.
StartSeeding(window) ==
  LET ranked == Ranked(call.dist, window)
      chosen == SubSeq(ranked, 1, Min({call.m, Len(ranked)}))
  IN  /\ phase' = "seeding"
      /\ seeds' = IF Ppr THEN <<>> ELSE chosen
      /\ push' = IF Ppr THEN PushStart(Vertices, call.dist, chosen, push.left)
                 ELSE push

StreamBuffered(row) ==
  /\ Pulls(row)
  /\ row \in call.passes
  /\ GraphLeg /\ ~seeded
  /\ buf' = buf \cup {row}
  /\ IF Cardinality(buf') < Window[call.m]
     THEN UNCHANGED <<phase, seeds, push>>
     ELSE StartSeeding(buf')
  /\ UNCHANGED <<call, reason, seeded, topk, bridges, drops, injected, fetched,
                 answer>>

\* A reached row is offered to the bridges too, and competes like any other:
\* it is a drop when a full heap does not want it.
StreamRanked(row) ==
  LET improves == Improves(call.dist, call.k, topk, row)
      dropped == ~improves /\ call.term > 0
      bridge == ~Ppr /\ row \in push.reach
  IN
  /\ Pulls(row)
  /\ row \in call.passes
  /\ GraphLeg => seeded
  /\ topk' = Offered(call.dist, call.k, topk, row)
  /\ bridges' = IF bridge THEN Offered(call.dist, call.k, bridges, row)
                ELSE bridges
  /\ injected' = IF bridge THEN injected + 1 ELSE injected
  /\ drops' = IF improves THEN 0 ELSE IF dropped THEN drops + 1 ELSE drops
  /\ IF dropped /\ drops' >= call.term
     THEN phase' = "drain" /\ reason' = "term_cond"
     ELSE UNCHANGED <<phase, reason>>
  /\ UNCHANGED <<call, buf, seeded, seeds, push, fetched, answer>>

\* The stream has no more rows, or pgvector gives up on it, or its budget is
\* spent: a window not yet full is seeded from as it is.
StreamEnds ==
  /\ phase = "stream"
  /\ reason' = IF ScanBudgetSpent THEN "scan_budget" ELSE "stream_end_unknown"
  /\ IF GraphLeg /\ ~seeded THEN StartSeeding(buf)
     ELSE phase' = "drain" /\ UNCHANGED <<seeds, push>>
  /\ UNCHANGED <<call, streamed, buf, seeded, topk, bridges, drops, examined,
                 injected, fetched, answer>>

-----------------------------------------------------------------------------
(* Seeding: graph_reach_pull for each seed, or the forward push.           *)

\* Mutant: the traversal's flag is not read.
SeedPullUnread ==
  LET seed == Head(seeds)
      pull == Pull(call.g, seed, call.hops, call.type, push.left)
  IN
  /\ phase = "seeding"
  /\ seeds # <<>>
  /\ seeds' = Tail(seeds)
  /\ push' = IF push.left = 0
             THEN [push EXCEPT !.reach = @ \cup {seed}, !.censored = TRUE]
             ELSE [push EXCEPT !.reach = @ \cup {seed} \cup ToSet(pull.ids),
                               !.left = @ - pull.used,
                               !.used = @ + pull.used]
  /\ UNCHANGED <<call, phase, reason, streamed, buf, seeded, topk, bridges,
                 drops, examined, injected, fetched, answer>>

\* One seed's reach, out of what the nearer seeds left of the budget.
SeedPull ==
  LET seed == Head(seeds)
      pull == Pull(call.g, seed, call.hops, call.type, push.left)
  IN
  /\ phase = "seeding"
  /\ seeds # <<>>
  /\ seeds' = Tail(seeds)
  /\ push' = IF push.left = 0
             THEN [push EXCEPT !.reach = @ \cup {seed}, !.censored = TRUE]
             ELSE [push EXCEPT !.reach = @ \cup {seed} \cup ToSet(pull.ids),
                               !.left = @ - pull.used,
                               !.used = @ + pull.used,
                               !.censored = @ \/ pull.censored]
  /\ UNCHANGED <<call, phase, reason, streamed, buf, seeded, topk, bridges,
                 drops, examined, injected, fetched, answer>>

PushPop ==
  /\ phase = "seeding"
  /\ push.queue # <<>>
  /\ push' = Popped(push, call.g, call.type, call.hops)
  /\ UNCHANGED <<call, phase, reason, streamed, buf, seeded, seeds, topk,
                 bridges, drops, examined, injected, fetched, answer>>

\* Mutant: the window's losers count as drops.
AdmitCounting ==
  LET ranked == Ranked(call.dist, buf)
      met == IF Ppr THEN <<>>
             ELSE Only(ranked, push.reach)
      offer(h, v) == Offered(call.dist, call.k, h, v)
  IN
  /\ phase = "seeding"
  /\ seeds = <<>> /\ push.queue = <<>>
  /\ topk' = FoldLeft(offer, topk, ranked)
  /\ bridges' = FoldLeft(offer, bridges, met)
  /\ injected' = injected + Len(met)
  /\ drops' = Cardinality(buf \ ToSet(topk'))
  /\ seeded' = TRUE
  /\ phase' = IF reason = "running" THEN "stream" ELSE "drain"
  /\ UNCHANGED <<call, reason, streamed, buf, seeds, push, examined, fetched,
                 answer>>

\* Every row of the window is admitted; none of them counts as a drop.
AdmitWindow ==
  LET ranked == Ranked(call.dist, buf)
      met == IF Ppr THEN <<>>
             ELSE Only(ranked, push.reach)
      offer(h, v) == Offered(call.dist, call.k, h, v)
  IN
  /\ phase = "seeding"
  /\ seeds = <<>> /\ push.queue = <<>>
  /\ topk' = FoldLeft(offer, topk, ranked)
  /\ bridges' = FoldLeft(offer, bridges, met)
  /\ injected' = injected + Len(met)
  /\ drops' = 0
  /\ seeded' = TRUE
  /\ phase' = IF reason = "running" THEN "stream" ELSE "drain"
  /\ UNCHANGED <<call, reason, streamed, buf, seeds, push, examined, fetched,
                 answer>>

-----------------------------------------------------------------------------
(* The bridges the stream did not bring, and the answer.                   *)

\* Mutant: term_cond and the scan's budget stop the fetches as well.
ToFetchUnlessStopped ==
  IF reason = "stream_end_unknown"
  THEN (push.reach \ fetched) \ (IF Ppr THEN ToSet(topk) ELSE Seen) ELSE {}

\* Mutant: in ppr mode too, what the stream brought is not fetched.
ToFetchUnseen == (push.reach \ fetched) \ Seen

\* Those whose distance is not known yet: in ppr mode it is that of the rows
\* the heap holds.
ToFetch ==
  (push.reach \ fetched) \ (IF Ppr THEN ToSet(topk) ELSE Seen)

FetchBridge(v) ==
  /\ phase = "drain"
  /\ v \in ToFetch
  /\ fetched' = fetched \cup {v}
  /\ examined' = examined + 1
  /\ IF v \in call.passes
     THEN /\ injected' = injected + 1
          /\ bridges' = IF Ppr THEN bridges
                        ELSE Offered(call.dist, call.k, bridges, v)
     ELSE UNCHANGED <<injected, bridges>>
  /\ UNCHANGED <<call, phase, reason, streamed, buf, seeded, seeds, push, topk,
                 drops, answer>>

\* The first of the candidates that are new, up to a number of items.
Filled(items, candidates, max) ==
  FoldLeft(LAMBDA out, v :
             IF Len(out) < max /\ v \notin ToSet(out) THEN Append(out, v)
             ELSE out,
           items, candidates)

\* The bridges' share of the answer, when there are any.
BridgeCap == Max({call.k \div 2, 1})

MembershipAnswer ==
  LET near == Ranked(call.dist, ToSet(bridges))
      guaranteed == Filled(<<>>, near, BridgeCap)
      vectors == Filled(guaranteed, Ranked(call.dist, ToSet(topk)), call.k)
  IN  Ranked(call.dist, ToSet(Filled(vectors, near, call.k)))

Pool == ToSet(topk) \cup (fetched \cap call.passes)

\* v's place between the least and the most of f over the pool, as a number
\* of parts; the parts in the whole.
Place(f, v) == LET low == Min({f[u] : u \in Pool})
                   high == Max({f[u] : u \in Pool})
               IN  IF low = high THEN 1 ELSE f[v] - low
Whole(f) == LET low == Min({f[u] : u \in Pool})
                high == Max({f[u] : u \in Pool})
            IN  IF low = high THEN 1 ELSE high - low

\* Minus the fused score: similarity and reserve, each brought to 0..1, here
\* over a common denominator.
Fused ==
  LET far == [v \in Vertices |-> -call.dist[v]]
  IN  [v \in Pool |-> -(Place(far, v) * Whole(push.reserve)
                          + Place(push.reserve, v) * Whole(far))]

PprAnswer ==
  LET ranked == Ranked(Fused, Pool)
      reached == Only(ranked, push.reach)
  IN  IF Pool = {} THEN <<>>
      ELSE Ranked(Fused, ToSet(Filled(Filled(<<>>, reached, BridgeCap),
                                      ranked, call.k)))

Finalize ==
  /\ phase = "drain"
  /\ ToFetch = {}
  /\ phase' = "done"
  /\ answer' = IF Ppr THEN PprAnswer ELSE MembershipAnswer
  /\ UNCHANGED <<call, reason, streamed, buf, seeded, seeds, push, topk, bridges,
                 drops, examined, injected, fetched>>

SeedlessNext ==
  \/ \E row \in call.rows :
       StreamExcluded(row) \/ StreamBuffered(row) \/ StreamRanked(row)
  \/ StreamEnds
  \/ SeedPull \/ PushPop \/ AdmitWindow
  \/ \E v \in ToFetch : FetchBridge(v)
  \/ Finalize

SeedlessSpec == SeedlessInit /\ [][SeedlessNext]_seedlessVars

-----------------------------------------------------------------------------
(* Correctness.                                                            *)

Members == push.reach \cap call.passes

\* The share of the answer that ADR-0020 reserves for bridges: floor(k / 2),
\* but one.
Reserved == IF call.k = 1 THEN 1 ELSE call.k \div 2

\* Outside the window, the vectors' heap holds k nearest of the qualifying
\* rows that the stream brought, bridges among them; the bridges' heap k
\* nearest of the members met so far, in the stream or fetched
\* (tjs_pg.c:1518-1523, 1562-1564).
HeapsHoldNearest ==
  phase # "seeding" /\ (GraphLeg => seeded) =>
    /\ KNearest(call.dist, call.k, ToSet(topk), streamed \cap call.passes)
    /\ ~Ppr => KNearest(call.dist, call.k, ToSet(bridges),
                        Members \cap (streamed \cup fetched))

\* The nearest members fill the bridges' share of the answer, wherever their
\* distance ranks them, whether the stream brought them or not (tjs_pg.c:
\* 1852-1857, 1913-1919).
BridgesGuaranteed ==
  phase = "done" /\ ~Ppr =>
    \E near \in SUBSET ToSet(answer) :
      KNearest(call.dist, Reserved, near, Members)

\* And they do not crowd out the vectors: the nearest of the rows streamed
\* keep the rest of the k places, and a place is free only when all
\* candidates are in (tjs_pg.c:1913-1919).
VectorsKeepRoom ==
  phase = "done" /\ ~Ppr =>
    LET share == Min({Reserved, Cardinality(Members)})
        found == Members \cup (streamed \cap call.passes)
    IN
    /\ \E near \in SUBSET ToSet(answer) :
         KNearest(call.dist, call.k - share, near, streamed \cap call.passes)
    /\ Len(answer) = Min({call.k, Cardinality(found)})

\* Every member of the reach that passes the filter is counted once, however
\* it was met (tjs_pg--0.2.0.sql, tjs_open_bridges_injected).
BridgesCountedOnce ==
  phase = "done" /\ ~Ppr => injected = Cardinality(Members)

\* term_cond ends a call only after as many rows in a row that could not
\* matter: rows outside the window and outside the answer's heap, which is
\* full (tjs_pg.c:1053-1055, 1562-1573).
TermCondJustified ==
  drops > 0 =>
    /\ Len(topk) = call.k
    /\ Cardinality(((streamed \cap call.passes) \ buf) \ ToSet(topk)) >= drops
    /\ drops = call.term => reason = "term_cond"

\* What bounds a call's work: the stream by its budget, the graph leg by its
\* pool, the reach by the edge-steps, the rows looked at by both (ADR-0020,
\* section 2; tjs_pg.c:125-137).
WorkBounded ==
  /\ call.scanBudget > 0 => Cardinality(streamed) <= call.scanBudget
  /\ push.used + push.left = call.workBudget /\ push.left >= 0
  /\ Cardinality(push.reach) <= push.used + call.m
  /\ examined = Cardinality(streamed) + Cardinality(fetched)

ChosenSeeds ==
  LET ranked == Ranked(call.dist, buf)
  IN  ToSet(SubSeq(ranked, 1, Min({call.m, Len(ranked)})))

\* Without the censored flag the reach is all that is within the hops of the
\* seeds; with it, the whole budget was spent. In ppr mode a residue below
\* rmax may stop the push before (tjs_pg.c:733-749, 862-880).
CensoredHonest ==
  seeded =>
    /\ push.reach \subseteq WithinHops(call.g, call.type, ChosenSeeds, call.hops)
    /\ ChosenSeeds \subseteq push.reach
    /\ ~push.censored /\ ~Ppr => push.reach = WithinHops(call.g, call.type, ChosenSeeds, call.hops)
    /\ push.censored => push.left = 0

\* Mass is moved and never made, also when the budget cuts an expansion short
\* and the ends already walked share all of it (tjs_pg.c:990-1043).
MassNeverMade ==
  /\ MapThenSumSet(LAMBDA v : push.reserve[v] + push.residue[v], Vertices) <= Mass
  /\ \A v \in Vertices : push.reserve[v] + push.residue[v] > 0 => v \in push.reach

\* In ppr mode too the reached rows have their share of the answer, best
\* score first, and the rest goes to the best of any origin (tjs_pg.c:
\* 1621-1629).
BestFusedKept ==
  phase = "done" /\ Ppr =>
    LET reached == Pool \cap push.reach IN
    /\ Len(answer) = Min({call.k, Cardinality(Pool)})
    /\ Pool = Members \cup ToSet(topk)
    /\ \E near \in SUBSET ToSet(answer) : KNearest(Fused, Reserved, near, reached)
    /\ \A v \in Pool \ ToSet(answer), u \in ToSet(answer) :
         Fused[v] < Fused[u] => u \in push.reach

=============================================================================
