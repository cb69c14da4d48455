---------------------------- MODULE FusionSweep ----------------------------
(***************************************************************************)
(* The client-timed sweep (wiki_fusion) and the race (race_probe): one     *)
(* process sweeps both sides hop by hop against an oracle per hop, picks   *)
(* the points matched at a common recall and writes the sweep's file; the  *)
(* race reads that file later, chooses its own pair and runs a part of the *)
(* questions again.  The stores, the engine and the oracle are HeadToHead's*)
(***************************************************************************)
EXTENDS HeadToHead

CONSTANTS
  SweepQueries,    \* the seeded sample, in order
  SweepK, SweepM,  \* k and the oracle's seeds
  Hops,            \* the hops, in order
  Times,           \* p50s that are told apart
  Steps,           \* recall targets, in order
  RaceQueries      \* inputs: how many of the first questions race

VARIABLES
  phase,    \* "tridb", "baseline", "match", then the file is there; the race
  hop,      \* position in Hops
  tcurves,  \* by hop position: the combos' recall and p50
  bcurves,
  matched,  \* the sweep file's points
  race      \* the pair that raced, by hop position

fvars == <<phase, hop, tcurves, bcurves, matched, race>>

Gold(q, h) == OracleAnswer(q, SweepK, SweepM, Hops[h])

MeanRecall(answers, h) ==
  Mean([q \in DOMAIN answers |-> Recall(answers[q], Gold(q, h), SweepK)])

SweptSet == ToSet(SweepQueries)

FInit ==
  /\ phase = "tridb"
  /\ hop = 1
  /\ tcurves = << >>
  /\ bcurves = << >>
  /\ matched = << >>
  /\ race = << >>

NextHop(next) ==
  IF hop < Len(Hops) THEN hop' = hop + 1 /\ UNCHANGED phase
  ELSE hop' = 1 /\ phase' = next

\* run_tridb at one hop: each combo's warm-up answers are the graded ones.
SweepTridb ==
  /\ phase = "tridb"
  /\ \E p50 \in [DOMAIN TridbGrid -> Times],
       turn \in [DOMAIN TridbGrid -> [SweptSet -> 1..3]] :
       tcurves' = Append(tcurves, [t \in DOMAIN TridbGrid |->
         [p50 |-> p50[t],
          recall |-> MeanRecall([q \in SweptSet |->
            LET says == SetToSeq(TjsOpen(q, TridbGrid[t].m, Hops[hop], SweepK))
            IN  says[Min({turn[t][q], Len(says)})].ids], hop)]])
  /\ NextHop("baseline")
  /\ UNCHANGED <<bcurves, matched, race>>

\* run_baseline at one hop; a combo is a number of seeds and an ef.
SweepBaseline ==
  /\ phase = "baseline"
  /\ \E p50 \in [{g.m : g \in BaseGrid} \X BOOLEAN -> Times] :
       bcurves' = Append(bcurves, [c \in DOMAIN p50 |->
         [p50 |-> p50[c],
          recall |-> MeanRecall([q \in SweptSet |->
            LET s == CHOOSE x \in MilvusSeed(q, c[1]) : x.exact = c[2]
            IN  BaselineAnswer(q, s.ids, Hops[hop], SweepK)], hop)]])
  /\ NextHop("match")
  /\ UNCHANGED <<tcurves, matched, race>>

-----------------------------------------------------------------------------
(* matched_points.                                                         *)

MaxRecall(curve) == Max({curve[c].recall : c \in DOMAIN curve})

Fastest(curve, ok) ==
  CHOOSE c \in ok : \A d \in ok : curve[c].p50 <= curve[d].p50

\* Mutant: what one side can reach.
FeasibleEither(t, b) == Max({MaxRecall(t), MaxRecall(b)})

\* What both sides can reach.
Feasible(t, b) == Min({MaxRecall(t), MaxRecall(b)})

\* _best_at_target.
BestAt(curve, target) ==
  LET ok == {c \in DOMAIN curve : curve[c].recall >= target} IN
  IF ok = {} THEN Missing ELSE Fastest(curve, ok)

\* The target steps down to the first that both sides reach.
MatchedPoint(t, b) ==
  LET reached == {i \in DOMAIN Steps : Steps[i] <= Feasible(t, b)} IN
  IF reached = {} THEN [target |-> Missing]
  ELSE [target |-> Steps[Min(reached)],
        tridb |-> BestAt(t, Steps[Min(reached)]),
        baseline |-> BestAt(b, Steps[Min(reached)])]

Match ==
  /\ phase = "match"
  /\ matched' = [h \in DOMAIN Hops |-> MatchedPoint(tcurves[h], bcurves[h])]
  /\ phase' = "race"
  /\ UNCHANGED <<hop, tcurves, bcurves, race>>

-----------------------------------------------------------------------------
(* The race.                                                               *)

RaceTridb(h) == BestAt(tcurves[h], matched[h].target)

\* eps_matched_pair: the baseline combos within eps of the engine's recall.
AtParity(h) ==
  {c \in DOMAIN bcurves[h] :
     Away(bcurves[h][c].recall, tcurves[h][RaceTridb(h)].recall) <= Eps}

\* race_at_hop: the first questions, each against the same oracle.
RaceAtHop ==
  /\ phase = "race"
  /\ matched[hop].target # Missing
  /\ AtParity(hop) # {}
  /\ \E n \in RaceQueries :
       LET b == Fastest(bcurves[hop], AtParity(hop))
           ran == ToSet(SubSeq(SweepQueries, 1, n)) IN
       race' = Append(race,
         [tridb |-> RaceTridb(hop), queries |-> ran,
          recall |-> MeanRecall([q \in ran |->
            LET s == CHOOSE x \in MilvusSeed(q, b[1]) : x.exact = b[2]
            IN  BaselineAnswer(q, s.ids, Hops[hop], SweepK)], hop)])
  /\ NextHop("done")
  /\ UNCHANGED <<tcurves, bcurves, matched>>

\* Without a target, or a baseline combo at parity, the race ends.
RaceFails ==
  /\ phase = "race"
  /\ matched[hop].target # Missing => AtParity(hop) = {}
  /\ phase' = "failed"
  /\ UNCHANGED <<hop, tcurves, bcurves, matched, race>>

FNext == SweepTridb \/ SweepBaseline \/ Match \/ RaceAtHop \/ RaceFails

-----------------------------------------------------------------------------
(* Properties.                                                             *)

\* A target both sides are said to hit is hit by a combo of each, no higher
\* step was in reach of both, and a race over the first of the questions finds
\* the baseline within eps of the engine's recall, but for what the questions
\* that did not race may weigh (over all of them: within eps): none of the three
\* programs' ways to pick a point loses one (matched_points, eps_matched_pair;
\* scripts/race_probe.py races 10 questions of 30).
MatchIsCommon ==
  /\ \A h \in DOMAIN matched :
       LET m == matched[h]
           common(s) == /\ \E c \in DOMAIN tcurves[h] : tcurves[h][c].recall >= s
                        /\ \E c \in DOMAIN bcurves[h] : bcurves[h][c].recall >= s IN
       IF m.target = Missing THEN \A s \in ToSet(Steps) : ~common(s)
       ELSE /\ Missing \notin {m.tridb, m.baseline}
            /\ \A s \in ToSet(Steps) : s > m.target => ~common(s)
  /\ \A h \in DOMAIN race :
       LET t   == tcurves[h][race[h].tridb].recall
           all == Cardinality(SweptSet)
           ran == Cardinality(race[h].queries)
       IN /\ t >= matched[h].target
          /\ ran = all => Away(race[h].recall, t) <= Eps
          \* The means are rounded down, by less than a grain each.
          /\ ran * (race[h].recall + 1) > all * (t - Eps) - (all - ran) * Unit
          /\ ran * race[h].recall < all * (t + Eps + 1)
=============================================================================
