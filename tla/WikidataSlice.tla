--------------------------- MODULE WikidataSlice ----------------------------
(***************************************************************************)
(* Which entities and statements of a Wikidata dump become a corpus        *)
(* (tools/wikidata_ingest.py, tools/wikidata_compact.py): truthy           *)
(* statements, the prefix and breadth-first slices, the compact sidecar    *)
(* that stands in for the dump, and the shards that are emitted.           *)
(*                                                                         *)
(* A dump is a sequence of lines.  A line is Noise (a bracket, a blank, a  *)
(* line that does not parse) or an object [type, q, texts, claims]: q is   *)
(* its item number or 0, texts the languages in which it has a label or a  *)
(* description, claims maps a property number (0: not a property key) to   *)
(* its statements [rank, kind, value].                                     *)
(***************************************************************************)
EXTENDS Naturals, Sequences, FiniteSets, SequencesExt

CONSTANTS
  TypeProp,     \* P31, instance of
  LiteralProps  \* --claim-props

Noise == [type |-> "noise", q |-> 0, texts |-> {}, claims |-> <<>>]
None == [rows |-> <<>>, absent |-> TRUE]

\* The first occurrence of each element, in order.
Distinct(s) ==
  FoldLeft(LAMBDA acc, x : IF x \in ToSet(acc) THEN acc ELSE Append(acc, x), <<>>, s)

Ascending(S) == SetToSortSeq(S, LAMBDA a, b : a < b)

Statements(claims, p) == IF p \in DOMAIN claims THEN claims[p] ELSE <<>>

\* The statements of the best rank present; a deprecated-only property keeps them.
BestRank(sts) ==
  SelectSeq(sts, LAMBDA s : \A i \in DOMAIN sts : sts[i].rank <= s.rank)

\* The items that the best statements point at: no unknown value, no literal.
Targets(sts) ==
  LET items == SelectSeq(BestRank(sts), LAMBDA s : s.kind = "item" /\ s.value > 0)
  IN [i \in DOMAIN items |-> items[i].value]

EntityEdges(claims) ==
  LET pids == Ascending({p \in DOMAIN claims : p > 0})
      of(p) == LET ts == Targets(claims[p]) IN [i \in DOMAIN ts |-> <<p, ts[i]>>]
  IN Distinct(FlattenSeq([i \in DOMAIN pids |-> of(pids[i])]))

EntityTypes(claims) == Distinct(Targets(Statements(claims, TypeProp)))

Literals(sts) ==
  LET kept == SelectSeq(BestRank(sts), LAMBDA s : s.kind = "literal")
  IN [i \in DOMAIN kept |-> kept[i].value]

\* The relational row: the types always, a literal property when it has a value.
EntityClaims(claims) ==
  [types    |-> EntityTypes(claims),
   literals |-> [p \in {x \in LiteralProps \ {TypeProp} : Literals(Statements(claims, x)) # <<>>} |->
                    Literals(Statements(claims, p))]]

\* parse_entity: an item that has something to embed in this language.
Usable(obj, lang) == obj.type = "item" /\ obj.q > 0 /\ lang \in obj.texts

Objects(dump) == SelectSeq(dump, LAMBDA l : l # Noise)

-----------------------------------------------------------------------------
(* The slices, read from the dump. *)

UpTo(ids, limit) ==
  LET d == Distinct(ids) IN ToSet(SubSeq(d, 1, IF limit < Len(d) THEN limit ELSE Len(d)))

Ids(objs) == [i \in DOMAIN objs |-> objs[i].q]

PrefixIds(dump, limit, lang) ==
  UpTo(Ids(SelectSeq(Objects(dump), LAMBDA o : Usable(o, lang))), limit)

\* The first ids of next, in ascending order, that fit under the target.
CutTo(kept, next, target) ==
  LET order == Ascending(next)
      room  == IF target > Cardinality(kept) THEN target - Cardinality(kept) ELSE 0
  IN ToSet(SubSeq(order, 1, IF room < Len(order) THEN room ELSE Len(order)))

\* One scan per hop: out maps an id to the ids it points at.  A hop adds an id
\* at least, or is the last.
Closure(out, seeds, target) ==
  LET next(h) == UNION {out[q] : q \in h.frontier \cap DOMAIN out} \ h.kept
      Hop[n \in 0..(target + 1)] ==
        IF n = 0 THEN [kept |-> seeds, frontier |-> seeds, hops |-> 0]
        ELSE LET h == Hop[n - 1] IN
             IF h.frontier = {} \/ Cardinality(h.kept) >= target THEN h
             ELSE LET added == CutTo(h.kept, next(h), target)
                  IN [kept |-> h.kept \cup added, frontier |-> added, hops |-> h.hops + 1]
  IN [kept |-> Hop[target + 1].kept, hops |-> Hop[target + 1].hops]

\* What the rows or objects of an id point at together.
PointedAt(edgesOf) == UNION {{es[i][2] : i \in DOMAIN es} : es \in edgesOf}

ClosureIds(dump, seeds, target) ==
  LET objs == {o \in ToSet(Objects(dump)) : o.q > 0}
      out  == [q \in {o.q : o \in objs} |->
                 PointedAt({EntityEdges(o.claims) : o \in {x \in objs : x.q = q}})]
  IN Closure(out, seeds, target)

PresentIds(dump, kept, lang) ==
  {o.q : o \in {x \in ToSet(Objects(dump)) : x.q \in kept /\ Usable(x, lang)}}

\* bfs_closure, the in-memory reference: one queue, each neighbour in turn.
BfsClosure(seeds, adjacency, target) ==
  LET add(s, n) == IF n \in ToSet(s.queue) \/ Len(s.queue) >= target THEN s
                   ELSE [s EXCEPT !.queue = Append(@, n)]
      start == FoldLeft(add, [queue |-> <<>>, at |-> 1], seeds)
      Step[n \in 0..target] ==
        IF n = 0 THEN start
        ELSE LET s == Step[n - 1] IN
             IF s.at > Len(s.queue) THEN s
             ELSE LET u == s.queue[s.at] IN
                  [FoldLeft(add, s, IF u \in DOMAIN adjacency THEN adjacency[u] ELSE <<>>)
                     EXCEPT !.at = @ + 1]
  IN ToSet(Step[target].queue)

-----------------------------------------------------------------------------
(* The compact sidecar: one row for each object that has an item number. *)

CompactBatch(lang, lines) ==
  LET objs == SelectSeq(Objects(lines), LAMBDA o : o.q > 0) IN
  [i \in DOMAIN objs |-> [q |-> objs[i].q, usable |-> Usable(objs[i], lang),
                          edges |-> EntityEdges(objs[i].claims)]]

TrimBlob(rows, keep) == SubSeq(rows, 1, IF keep < Len(rows) THEN keep ELSE Len(rows))

\* The rows of all batches, in order; the batch that reaches --limit is cut.
CompactRows(lang, dump, batch, limit) ==
  LET batches == [i \in 1..((Len(dump) + batch - 1) \div batch) |->
                    SubSeq(dump, (i - 1) * batch + 1,
                           IF i * batch < Len(dump) THEN i * batch ELSE Len(dump))]
      copy(s, lines) ==
        LET blob == CompactBatch(lang, lines) IN
        IF s.stopped THEN s
        ELSE IF limit # 0 /\ Len(s.rows) + Len(blob) >= limit
             THEN [rows |-> s.rows \o TrimBlob(blob, limit - Len(s.rows)), stopped |-> TRUE]
             ELSE [s EXCEPT !.rows = @ \o blob]
  IN FoldLeft(copy, [rows |-> <<>>, stopped |-> FALSE], batches).rows

PrefixIdsCompact(rows, limit) == UpTo(Ids(SelectSeq(rows, LAMBDA r : r.usable)), limit)

ClosureIdsCompact(rows, seeds, target) ==
  LET out == [q \in ToSet(Ids(rows)) |->
                PointedAt({r.edges : r \in {x \in ToSet(rows) : x.q = q}})]
  IN Closure(out, seeds, target)

PresentIdsCompact(rows, kept) == {r.q : r \in {x \in ToSet(rows) : x.q \in kept /\ x.usable}}

-----------------------------------------------------------------------------
(* Emission. *)

\* The lines the emit scan parses.  With a sidecar the head of a line may show
\* that its entity is not wanted; a line without that head is parsed.
IterKeptEntities(dump, present) ==
  SelectSeq(dump, LAMBDA l : l # Noise /\ (l.q > 0 => l.q \in present))

\* One entity with its statements that stay inside the slice.
Emitted(obj, present) ==
  LET es == EntityEdges(obj.claims)
      inside == SelectSeq(es, LAMBDA e : e[2] \in present)
  IN [entity  |-> obj.q,
      edges   |-> [i \in DOMAIN inside |-> <<obj.q, inside[i][1], inside[i][2]>>],
      claims  |-> [id |-> obj.q] @@ EntityClaims(obj.claims),
      dropped |-> Len(es) - Len(inside)]

\* Shard k holds the entities of ordinals k * shardSize and on.
Rotated(ordinals, shardSize) ==
  [k \in 1..((Len(ordinals) + shardSize - 1) \div shardSize) |->
     LET lo == (k - 1) * shardSize + 1
         hi == IF k * shardSize < Len(ordinals) THEN k * shardSize ELSE Len(ordinals)
         es == SubSeq(ordinals, lo, hi)
     IN [entities |-> [i \in DOMAIN es |-> es[i].entity],
         edges    |-> FlattenSeq([i \in DOMAIN es |-> es[i].edges]),
         claims   |-> [i \in DOMAIN es |-> es[i].claims]]]

EmitSlice(dump, objects, present, lang, shardSize) ==
  LET kept == SelectSeq(objects, LAMBDA o : o.q \in present /\ Usable(o, lang))
      out  == [i \in DOMAIN kept |-> Emitted(kept[i], present)]
  IN [shards  |-> Rotated(out, shardSize),
      dropped |-> FoldLeft(LAMBDA n, e : n + e.dropped, 0, out),
      present |-> Cardinality(present)]

\* The counts of the manifest are the rows that were written.
BuildManifest(meta, emit) ==
  LET rows(kind) == FoldLeft(LAMBDA n, s : n + Len(s[kind]), 0, emit.shards) IN
  [slice  |-> meta,
   shards |-> emit.shards,
   counts |-> [entities |-> rows("entities"), edges |-> rows("edges"),
               claims |-> rows("claims"), dropped |-> emit.dropped]]

\* The corpus of a dump as the dump itself gives it.  spec: [seeds, target, limit],
\* a limit of 0 is none.
Target(spec) ==
  IF spec.target # 0 THEN spec.target
  ELSE IF spec.limit # 0 THEN spec.limit ELSE Len(spec.seeds)

Corpus(dump, spec, lang, shardSize) ==
  LET closed  == ClosureIds(dump, ToSet(spec.seeds), Target(spec))
      kept    == IF spec.seeds # <<>> THEN closed.kept
                 ELSE PrefixIds(dump, spec.limit, lang)
      meta    == [kept |-> Cardinality(kept), hops |-> IF spec.seeds # <<>> THEN closed.hops ELSE 0]
      present == PresentIds(dump, kept, lang)
  IN BuildManifest(meta, EmitSlice(dump, Objects(dump), present, lang, shardSize))

\* The same from the rows of a sidecar.
CorpusCompact(dump, rows, spec, lang, shardSize) ==
  LET closed  == ClosureIdsCompact(rows, ToSet(spec.seeds), Target(spec))
      kept    == IF spec.seeds # <<>> THEN closed.kept ELSE PrefixIdsCompact(rows, spec.limit)
      meta    == [kept |-> Cardinality(kept), hops |-> IF spec.seeds # <<>> THEN closed.hops ELSE 0]
      present == PresentIdsCompact(rows, kept)
  IN BuildManifest(meta, EmitSlice(dump, IterKeptEntities(dump, present), present, lang, shardSize))

=============================================================================
