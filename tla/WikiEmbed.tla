----------------------------- MODULE WikiEmbed -----------------------------
(***************************************************************************)
(* The embedding of a corpus by a pool of workers that share one           *)
(* checkpoint (tools/wiki_embed_hybrid.py).  The rows of the corpus are    *)
(* the lines of its article files in the order of their names; a unit of   *)
(* work is EmbedShard rows.  A worker whose launcher was killed finishes   *)
(* its unit; a launcher that comes after it does not know of it.  A        *)
(* checkpoint is created file by file, the one that says what it is last.  *)
(***************************************************************************)
EXTENDS WikiHtml

CONSTANTS
  Workers,     \* the worker processes
  EmbedShard   \* --shard-size

VARIABLES
  emb,         \* the checkpoint: [ids, vecs, done], and of meta.json [n, status];
               \* history: whether files were wiped since meta.json was written
  launcher,    \* [at, up, queue]
  worker       \* of each worker [at, unit, own]

embedVars == <<emb, launcher, worker>>

Unfilled == -1
Zero == <<>>                          \* the vector of a row that was never written
NoEmb == [ids |-> <<>>, vecs |-> <<>>, done |-> {}, n |-> 0, status |-> "absent", wiped |-> FALSE]
Down == [at |-> "pool", up |-> FALSE, queue |-> <<>>]
Free == [at |-> "free", unit |-> 0, own |-> FALSE]

EmbedInit ==
  /\ emb = NoEmb
  /\ launcher = Down
  /\ worker = [w \in Workers |-> Free]

\* shard_file_layout counts the lines of the files, whatever the manifest says.
CorpusRows == AllRows("articles")
NRows == Len(CorpusRows)
Units == {u \in 1..NRows : (u - 1) * EmbedShard < NRows}
UnitRows(u) == {i \in 1..NRows : (u - 1) * EmbedShard < i /\ i <= u * EmbedShard}

\* The model sees the title and the text.
Vec(row) == <<row.title, row.body>>

\* The same number of rows is the same corpus.
CheckpointMatches == emb.status # "absent" /\ emb.n = NRows

\* meta.json says running; the launcher takes the units that are not marked.
Pool ==
  /\ emb' = [emb EXCEPT !.n = NRows, !.status = "running", !.wiped = FALSE]
  /\ launcher' = [at |-> "pool", up |-> TRUE, queue |-> SetToSortSeq(Units \ emb.done, <)]
  /\ worker' = [w \in Workers |-> IF worker[w].at = "free" THEN [Free EXCEPT !.own = TRUE]
                                  ELSE [worker[w] EXCEPT !.own = FALSE]]

\* A checkpoint that matches is resumed; else, or when that is asked, the
\* creation of a new one begins.  (Bound: MaxRuns; the run that comes after a
\* creation that was cut, which a kill paid for, is not counted.)
EmbedBegin ==
  /\ proc = Quiet /\ manifest # NoManifest /\ NRows > 0
  /\ ~launcher.up /\ (runs < MaxRuns \/ emb.wiped)
  /\ \/ CheckpointMatches /\ Pool
     \/ /\ launcher' = [Down EXCEPT !.at = "vectors", !.up = TRUE]
        /\ UNCHANGED <<emb, worker>>
  /\ runs' = IF emb.wiped THEN runs ELSE runs + 1
  /\ UNCHANGED <<dir, manifest, proc, job, kills, work>>

\* create_checkpoint wipes one file after the other, whatever workers of an
\* earlier launcher still write.
WipeVectors ==
  /\ launcher.at = "vectors"
  /\ emb' = [emb EXCEPT !.vecs = [i \in 1..NRows |-> Zero], !.wiped = TRUE]
  /\ launcher' = [launcher EXCEPT !.at = "ids"]
  /\ UNCHANGED <<htmlVars, worker>>

WipeIds ==
  /\ launcher.at = "ids"
  /\ emb' = [emb EXCEPT !.ids = [i \in 1..NRows |-> Unfilled]]
  /\ launcher' = [launcher EXCEPT !.at = "marks"]
  /\ UNCHANGED <<htmlVars, worker>>

WipeMarks ==
  /\ launcher.at = "marks"
  /\ emb' = [emb EXCEPT !.done = {}]
  /\ launcher' = [launcher EXCEPT !.at = "meta"]
  /\ UNCHANGED <<htmlVars, worker>>

WriteMeta == launcher.at = "meta" /\ Pool /\ UNCHANGED htmlVars

Claim(w) ==
  /\ launcher.up /\ launcher.queue # <<>>
  /\ worker[w].own /\ worker[w].at = "free"
  /\ worker' = [worker EXCEPT ![w].at = "encode", ![w].unit = Head(launcher.queue)]
  /\ launcher' = [launcher EXCEPT !.queue = Tail(@)]
  /\ UNCHANGED <<htmlVars, emb>>

\* The worker found the queue empty, or its process died.
Leave(w) ==
  /\ launcher.up /\ worker[w].own /\ worker[w].at # "left"
  /\ worker[w].at # "free" => kills < MaxKills
  /\ kills' = IF worker[w].at = "free" THEN kills ELSE kills + 1
  /\ worker' = [worker EXCEPT ![w] = [at |-> "left", unit |-> 0, own |-> TRUE]]
  /\ UNCHANGED <<dir, manifest, proc, job, runs, work, emb, launcher>>

\* The vectors and the ids of the unit, flushed.
WriteUnit(w) ==
  /\ worker[w].at = "encode"
  /\ emb' = [emb EXCEPT
       !.vecs = [i \in DOMAIN @ |-> IF i \in UnitRows(worker[w].unit) THEN Vec(CorpusRows[i]) ELSE @[i]],
       !.ids = [i \in DOMAIN @ |-> IF i \in UnitRows(worker[w].unit) THEN CorpusRows[i].id ELSE @[i]]]
  /\ worker' = [worker EXCEPT ![w].at = "mark"]
  /\ UNCHANGED <<htmlVars, launcher>>

MarkDone(w) ==
  /\ worker[w].at = "mark"
  /\ emb' = [emb EXCEPT !.done = @ \cup {worker[w].unit}]
  /\ worker' = [worker EXCEPT ![w].at = "free", ![w].unit = 0]
  /\ UNCHANGED <<htmlVars, launcher>>

\* What the marks alone say.
AllMarked == Units \subseteq emb.done

\* verify: every unit marked, every id filled and different, every vector of
\* length one.
VerifyEmb ==
  /\ AllMarked
  /\ \A i \in DOMAIN emb.ids : emb.ids[i] # Unfilled /\ emb.vecs[i] # Zero
  /\ Cardinality({emb.ids[i] : i \in DOMAIN emb.ids}) = Len(emb.ids)

\* The monitor returns when no worker of this launcher lives; the checkpoint is
\* complete when it verifies, and else the launcher fails.
EmbedEnd ==
  /\ launcher.up /\ launcher.at = "pool"
  /\ \A w \in Workers : worker[w].own => worker[w].at = "left"
       \/ (worker[w].at = "free" /\ launcher.queue = <<>>)
  /\ emb' = IF VerifyEmb THEN [emb EXCEPT !.status = "complete"] ELSE emb
  /\ launcher' = Down
  /\ worker' = [w \in Workers |-> IF worker[w].own THEN Free ELSE worker[w]]
  /\ UNCHANGED htmlVars

\* The workers of a launcher that was killed end with their unit; of a creation
\* that was cut the files stay as they are.
KillLauncher ==
  /\ launcher.up /\ kills < MaxKills
  /\ kills' = kills + 1
  /\ launcher' = Down
  /\ worker' = [w \in Workers |-> IF worker[w].at = "left" THEN Free
                                  ELSE [worker[w] EXCEPT !.own = FALSE]]
  /\ UNCHANGED <<dir, manifest, proc, job, runs, work, emb>>

\* Who starts over clears the embeddings with the corpus, and no worker is left.
EmbedCleared ==
  /\ \A w \in Workers : worker[w].at = "free"
  /\ emb' = NoEmb
  /\ UNCHANGED <<launcher, worker>>

EmbedNext ==
  \/ EmbedBegin \/ WipeVectors \/ WipeIds \/ WipeMarks \/ WriteMeta
  \/ EmbedEnd \/ KillLauncher
  \/ \E w \in Workers : Claim(w) \/ Leave(w) \/ WriteUnit(w) \/ MarkDone(w)

\* A checkpoint that calls itself complete holds for every row the id and the
\* vector of the article on that line, whichever workers wrote it, under which
\* launchers, and however often they were killed; also when a creation was cut
\* and a later run took up what it left.  Only while a creation that began over
\* it is under way or was cut may rows be empty, and none is another article's
\* (tools/wiki_embed_hybrid.py: "RESUMABLE + CRASH-SAFE").
CompleteIsAligned ==
  emb.status = "complete" /\ Gate =>
    LET filled(i)  == emb.ids[i] = CorpusRows[i].id
        encoded(i) == emb.vecs[i] = Vec(CorpusRows[i])
    IN \A i \in 1..NRows :
         /\ filled(i) \/ (emb.wiped /\ emb.ids[i] = Unfilled)
         /\ encoded(i) \/ (emb.wiped /\ emb.vecs[i] = Zero)

=============================================================================
