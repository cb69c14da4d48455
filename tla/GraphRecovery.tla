--------------------------- MODULE GraphRecovery ----------------------------
(***************************************************************************)
(* GraphStore under crashes.  Every GenericXLogFinish appends a record to  *)
(* the WAL; a record is safe only once the WAL has been flushed past it,   *)
(* which a commit with a transaction id does, gph_freeze does for the      *)
(* pass's own records, and the walwriter may do at any time.  A crash      *)
(* keeps some prefix of the WAL at least as long as the flushed one, stops *)
(* every transaction, and may leave all-zero blocks at the end of the file *)
(* where the relation had been extended.                                   *)
(*                                                                         *)
(* A prefix of the WAL is represented by the store that replaying it       *)
(* yields: `durable' for the flushed prefix, `wal' for the longer ones.    *)
(***************************************************************************)
EXTENDS GraphStore

CONSTANT MaxCrashes   \* bound: number of crashes

ASSUME CrashesAssumption == MaxCrashes \in Nat

VARIABLES
  durable,   \* the store at the last flush
  wal,       \* the stores after each later record, oldest first
  crashes,   \* crashes so far
  returned   \* history: the highest horizon of a gph_freeze that returned

recoveryVars == <<vars, durable, wal, crashes, returned>>

\* Replay restores the pages, pg_class and the id counter (every record
\* names the id of its transaction).
Image ==
  [meta |-> meta, page |-> page, eof |-> eof,
   relfrozenxid |-> relfrozenxid, nextXid |-> nextXid]

RecoveryInit ==
  /\ Init
  /\ durable = Image
  /\ wal = <<>>
  /\ crashes = 0
  /\ returned = InvalidXid

Flush == durable' = Image' /\ wal' = <<>>

\* An all-zero block (AbortExtended) is not logged.
Log ==
  /\ wal' = IF <<meta, page, relfrozenxid>>' = <<meta, page, relfrozenxid>>
            THEN wal ELSE Append(wal, Image')
  /\ UNCHANGED durable

\* Mutant: the pass returns without an XLogFlush of its own.
UnflushedPass == wal' = Append(wal, Image') /\ UNCHANGED durable

\* XLogFlush(max_lsn): max_lsn is the end of the horizon's record, the
\* pg_class update that vac_update_relstats logged comes after it.
FlushPass ==
  /\ durable' = Image
  /\ wal' = IF relfrozenxid' = relfrozenxid THEN <<>> ELSE <<Image'>>

\* Mutant: a commit is reported before its record is on disk.
CommitUnflushed(s) == Commit(s) /\ Log

RecoveryCommit(s) ==
  /\ Commit(s)
  /\ IF xid[s] # InvalidXid THEN Flush ELSE UNCHANGED <<durable, wal>>

RecoveryFreezeRelstats(s) ==
  /\ FreezeRelstats(s)
  /\ FlushPass
  /\ returned' = op.horizon

\* The record after which the operation under way goes on.
LoggedContinue(s) ==
  /\ \/ ContinueInsertEdges(s)
     \/ TombstoneAdjacency(s)
     \/ FreezeVertexPage(s)
     \/ FreezeDescend(s)
     \/ FreezeAdjPage(s)
     \/ FreezeRecordHorizon(s)
  /\ Log

LoggedStep(s) ==
  /\ \/ AssignXid(s)
     \/ AcquireWriterLock(s)
     \/ Abort(s)
     \/ AbortExtended(s)
     \/ InsertSome(s)
     \/ TombstoneSome(s)
     \/ \E horizon \in NormalXid : FreezeBegin(s, horizon)
  /\ Log

RecoveryContinue(s) ==
  /\ \/ RecoveryFreezeRelstats(s)
     \/ LoggedContinue(s) /\ UNCHANGED returned
  /\ UNCHANGED crashes

\* Restart from the store img; the file may be longer than what img uses.
RestartFrom(img, length) ==
  /\ meta' = img.meta
  /\ page' = img.page
  /\ relfrozenxid' = img.relfrozenxid
  /\ nextXid' = img.nextXid
  /\ eof' = length
  /\ durable' = [img EXCEPT !.eof = length]

Crash ==
  /\ crashes < MaxCrashes
  /\ crashes' = crashes + 1
  /\ \E i \in 0..Len(wal) :
       LET img == IF i = 0 THEN durable ELSE wal[i]
       IN  \E length \in img.eof..eof : RestartFrom(img, length)
  /\ wal' = <<>>
  /\ xid' = [s \in Sessions |-> InvalidXid]
  /\ lock' = NoSession
  /\ op' = Idle
  /\ UNCHANGED <<committed, returned>>

RecoveryNext ==
  \/ \E s \in Sessions :
       \/ RecoveryContinue(s)
       \/ (RecoveryCommit(s) \/ LoggedStep(s)) /\ UNCHANGED <<crashes, returned>>
  \/ Crash

RecoverySpec == RecoveryInit /\ [][RecoveryNext]_recoveryVars

\* The loops of the mutators and of the freeze pass stop only for an
\* interrupt, so an operation under way goes on.
FairRecoverySpec ==
  RecoverySpec /\ \A s \in Sessions : WF_recoveryVars(RecoveryContinue(s))

-----------------------------------------------------------------------------
(* Correctness.                                                            *)

\* A commit that was reported survives: a crash leaves the committed graph
\* as it was, and the changes of the transactions it stopped are gone for
\* every reader, also where their records had reached the disk.
CrashKeepsCommitted ==
  [][Crash => GraphView(InvalidXid)' = GraphView(InvalidXid)]_recoveryVars

\* Whatever prefix of the WAL a crash now kept, no record in it would need
\* the status of an id below its own relfrozenxid or horizon: a half-done
\* freeze pass declares nothing (gph_freeze: the horizon's record and the
\* relfrozenxid advance come after every page's).
EveryPrefixSound ==
  \A img \in {durable} \cup {wal[i] : i \in DOMAIN wal} :
    \A b \in Block : \A x \in PageXids(img.page[b]) \cap NormalXid :
      img.relfrozenxid <= x /\ img.meta.frozenHorizon <= x /\ x < img.nextXid

\* What a gph_freeze that returned did to the pages survives a crash: no
\* record asks for an id below its horizon again, although the transaction
\* of the pass has no id and its commit flushes nothing (gph_freeze, plan
\* 094's comment).
ReturnedFreezeKeepsPages ==
  \A x \in StampedXids \cap NormalXid : returned <= x

\* As stated by that comment, flushing to max_lsn is enough for nothing of a
\* returned freeze to be lost: relfrozenxid stays at its horizon too.
ReturnedFreezeSurvives == relfrozenxid >= returned

=============================================================================
