---- MODULE Ledger ----
(***************************************************************************)
(* The peer's ledger of one channel: its creation, the commit of a block   *)
(* to the private data store, the block store, the state database and the  *)
(* history database, the recovery of these four when the process restarts, *)
(* the reconciler that fills in private data that was missing, and the     *)
(* rollback and reset commands.  Every write to disk is a step of its own, *)
(* and the process can die between any two.                                *)
(***************************************************************************)
EXTENDS Validator, BlockStore

CONSTANTS Chain,        \* the ordered blocks: Chain[n + 1] = [txs, given]
          PubKeys, PvtKeys,
          RecBatch,     \* ReconcileBatchSize: how many blocks one round asks for
          SlowFetch,    \* a fetch outlasts the commit that runs when it starts
          MaxCrashes, MaxRewinds

VARIABLES ids,      \* the id store: "none", "under" construction, "created"
          pvt,      \* the private data store
          sdb,      \* the state database
          hdb,      \* the history database
          pc,       \* what the process is doing
          mode,     \* what it was started for
          cur,      \* the block being committed
          chash,    \* kvLedger.commitHash
          ahead,    \* isPvtstoreAheadOfBlockstore
          order,    \* the databases being recovered, the one that lags first
          rec,      \* the reconciler: [stage, got]
          crashes, rewinds

lvars == <<ids, pvt, sdb, hdb, pc, mode, cur, chash, ahead, order, rec, crashes, rewinds>>
vars == <<bsvars, lvars>>

Nums == 0 .. Len(Chain) - 1
Txs(n) == Chain[n + 1].txs
PvtTxs(n) == { i \in DOMAIN Txs(n) : DOMAIN Txs(n)[i].pvt # {} }

NoHash == <<>>
NoCommit == [num |-> -1]
NoRec == [stage |-> "idle", got |-> {}]
NoPvt == [last |-> -1, pending |-> FALSE, data |-> [n \in Nums |-> {}],
          missing |-> [n \in Nums |-> {}], updated |-> {}]
EmptyState == [pub  |-> [k \in PubKeys |-> Absent], hash |-> [k \in PvtKeys |-> Absent],
               pvt  |-> [k \in PvtKeys |-> Absent], save |-> -1]
EmptyHistory == [entries |-> {}, save |-> -1]

Init ==
  /\ BSInit
  /\ ids = "none" /\ pvt = NoPvt /\ sdb = EmptyState /\ hdb = EmptyHistory
  /\ pc = "down" /\ mode = "open" /\ cur = NoCommit /\ chash = NoHash
  /\ ahead = FALSE /\ order = <<>> /\ rec = NoRec /\ crashes = 0 /\ rewinds = 0

---------------------------------------------------------------------------
(* The parts of a commit *)

PvtHeight == pvt.last + 1

\* ApplyPrivacyAwareUpdates with a height: updates and savepoint in one batch.
CommitState(r, n) ==
  [pub  |-> ApplyUpdates(sdb.pub, r.upd.pub), hash |-> ApplyUpdates(sdb.hash, r.upd.hash),
   pvt  |-> ApplyUpdates(sdb.pvt, r.pvt),     save |-> n]

HistoryOf(n, flags) ==
  UNION { { <<k, n, i>> : k \in DOMAIN Txs(n)[i].writes } :
          i \in { i \in DOMAIN flags : flags[i] = "VALID" } }

CommitHistory(n, flags) ==
  [entries |-> hdb.entries \cup HistoryOf(n, flags), save |-> n]

\* (mutant) leaves the pending mark
CommitPendingMutant(p) == [p EXCEPT !.last = @ + 1]

CommitPending(p) == [p EXCEPT !.last = @ + 1, !.pending = FALSE]

\* retrieveBlockByNumber, through the index.
Block(n) == files[index[n + 1][1]].blocks[index[n + 1][2]]

---------------------------------------------------------------------------
(* Starting the process: Create, Open, recoverUnderConstructionLedger *)

Create ==
  /\ pc = "down" /\ ids = "none"
  /\ ids' = "under" /\ mode' = "create" /\ pc' = "opening"
  /\ UNCHANGED <<bsvars, pvt, sdb, hdb, cur, chash, ahead, order, rec, crashes, rewinds>>

Start ==
  /\ pc = "down" /\ ids # "none"
  /\ mode' = IF ids = "under" THEN "recover" ELSE "open"
  /\ pc' = "opening"
  /\ UNCHANGED <<bsvars, ids, pvt, sdb, hdb, cur, chash, ahead, order, rec, crashes, rewinds>>

OpenBlockStore ==
  /\ pc = "opening" /\ Opening
  /\ pc' = CASE step' = "ready" -> "pvt" [] step' = "panicked" -> "failed" [] OTHER -> pc
  /\ UNCHANGED <<ids, pvt, sdb, hdb, mode, cur, chash, ahead, order, rec, crashes, rewinds>>

\* (mutant) starts without the commit hash of the last block
OpenPvtStoreMutant ==
  LET upgrade == pvt.last = -1 /\ mgr.height > 0
  IN  /\ pc = "pvt"
      /\ pvt' = IF upgrade /\ ~pvt.pending THEN [pvt EXCEPT !.last = mgr.height - 1]
                ELSE IF ~upgrade /\ pvt.pending THEN CommitPending(pvt) ELSE pvt
      /\ ahead' = (pvt'.last + 1 > mgr.height)
      /\ pc' = IF upgrade /\ pvt.pending THEN "failed" ELSE "check"
      /\ UNCHANGED <<bsvars, ids, sdb, hdb, mode, cur, chash, order, rec, crashes, rewinds>>

\* ledgerstorage.Open: Store.init, IsPvtStoreAheadOfBlockStore; then newKVLedger
\* up to recoverDBs: lastPersistedCommitHash.
OpenPvtStore ==
  LET upgrade == pvt.last = -1 /\ mgr.height > 0
  IN  /\ pc = "pvt"
      /\ pvt' = IF upgrade /\ ~pvt.pending THEN [pvt EXCEPT !.last = mgr.height - 1]
                ELSE IF ~upgrade /\ pvt.pending THEN CommitPending(pvt) ELSE pvt
      /\ ahead' = (pvt'.last + 1 > mgr.height)
      /\ chash' = IF mgr.height = 0 THEN NoHash ELSE Block(mgr.height - 1).hash
      /\ pc' = IF upgrade /\ pvt.pending THEN "failed" ELSE "check"
      /\ UNCHANGED <<bsvars, ids, sdb, hdb, mode, cur, order, rec, crashes, rewinds>>

Saved == [state |-> sdb.save, history |-> hdb.save]

\* (mutant) recovers the state database only
CheckDBsMutant ==
  /\ pc = "check"
  /\ order' = IF mgr.height > 0 /\ Saved.state # mgr.height - 1 THEN <<"state">> ELSE <<>>
  /\ pc' = IF mgr.height > 0 /\ Saved.state + 1 > mgr.height THEN "failed" ELSE "recover"
  /\ UNCHANGED <<bsvars, ids, pvt, sdb, hdb, mode, cur, chash, ahead, rec, crashes, rewinds>>

\* syncStateAndHistoryDBWithBlockstore, ShouldRecover of both databases.
CheckDBs ==
  LET behind == { d \in DOMAIN Saved : Saved[d] # mgr.height - 1 }
      both   == IF Saved.state > Saved.history THEN <<"history", "state">>
                ELSE <<"state", "history">>
  IN  /\ pc = "check"
      /\ order' = IF mgr.height = 0 THEN <<>> ELSE SelectSeq(both, LAMBDA d : d \in behind)
      /\ pc' = IF mgr.height > 0 /\ \E d \in behind : Saved[d] + 1 > mgr.height
               THEN "failed" ELSE "recover"
      /\ UNCHANGED <<bsvars, ids, pvt, sdb, hdb, mode, cur, chash, ahead, rec, crashes, rewinds>>

\* The next database of recommitLostBlocks: the lagging one until it has caught
\* up with the other, then both, block by block.
NextDB == IF Len(order) = 2 /\ Saved[order[1]] > Saved[order[2]] THEN order[2] ELSE order[1]

Recovered == \A i \in DOMAIN order : Saved[order[i]] = mgr.height - 1

RecommitLostBlock ==
  /\ pc = "recover" /\ ~Recovered
  /\ LET n == Saved[NextDB] + 1
         b == Block(n)
     IN  IF n > pvt.last THEN pc' = "failed" /\ UNCHANGED <<sdb, hdb>>
         ELSE IF NextDB = "state"
         THEN /\ sdb' = CommitState(ValidateAndPrepareBatch(Txs(n), n, b.flags, FALSE,
                                                            pvt.data[n], sdb), n)
              /\ UNCHANGED <<pc, hdb>>
         ELSE hdb' = CommitHistory(n, b.flags) /\ UNCHANGED <<pc, sdb>>
  /\ UNCHANGED <<bsvars, ids, pvt, mode, cur, chash, ahead, order, rec, crashes, rewinds>>

---------------------------------------------------------------------------
(* Private data of old blocks *)

\* RemoveStaleAndCommitPvtDataOfOldBlocks, on the transactions <<n, i>> of S:
\* of several writes of a key the highest version, dropped if it is stale.
Writers(S, k) == { x \in S : k \in DOMAIN Txs(x[1])[x[2]].pvt }
Newest(X) == CHOOSE x \in X : \A y \in X : x[1] > y[1] \/ (x[1] = y[1] /\ x[2] >= y[2])
UniqueValue(S, k) == LET x == Newest(Writers(S, k)) IN Txs(x[1])[x[2]].pvt[k]

\* (mutant) takes whatever was fetched for a key that exists
StaleMutant(S, k) == sdb.hash[k].ver = NoVersion /\ UniqueValue(S, k) # Nil

Stale(S, k) ==
  IF sdb.hash[k].ver = NoVersion THEN UniqueValue(S, k) # Nil
  ELSE sdb.hash[k].ver # Newest(Writers(S, k)) /\ sdb.hash[k].val # UniqueValue(S, k)

RemoveStaleAndCommit(S) ==
  LET fresh == { k \in PvtKeys : Writers(S, k) # {} /\ ~Stale(S, k) }
  IN  [sdb EXCEPT !.pvt = ApplyUpdates(@,
         [k \in fresh |-> [Absent EXCEPT !.val = UniqueValue(S, k),
                                         !.ver = IF sdb.hash[k].ver = NoVersion
                                                 THEN Newest(Writers(S, k))
                                                 ELSE sdb.hash[k].ver]])]

\* filterPvtDataOfInvalidTx
ValidOnes(S) == { x \in S : Block(x[1]).flags[x[2]] = "VALID" }

StoredTxs(B) == UNION { {n} \X pvt.data[n] : n \in B }

\* syncStateDBWithPvtdatastore: all private data of the listed blocks that are
\* in the block store.
SyncStateWithPvtStore ==
  /\ pc = "recover" /\ Recovered
  /\ sdb' = RemoveStaleAndCommit(ValidOnes(StoredTxs({ n \in pvt.updated : n < mgr.height })))
  /\ pc' = "reset_list"
  /\ UNCHANGED <<bsvars, ids, pvt, hdb, mode, cur, chash, ahead, order, rec, crashes, rewinds>>

FinishOpenLedger ==
  /\ pc = "reset_list"
  /\ pvt' = [pvt EXCEPT !.updated = {}]
  /\ pc' = IF mode = "recover" THEN "recovered" ELSE "serving"
  /\ order' = <<>>
  /\ UNCHANGED <<bsvars, ids, sdb, hdb, mode, cur, chash, ahead, rec, crashes, rewinds>>

Halt == /\ CrashStore
        /\ pc' = "down" /\ mode' = "open" /\ cur' = NoCommit /\ chash' = NoHash
        /\ ahead' = FALSE /\ order' = <<>> /\ rec' = NoRec

\* (mutant) closes the ledger and leaves the flag
RecoverUnderConstructionMutant ==
  /\ pc = "recovered"
  /\ Halt
  /\ UNCHANGED <<ids, pvt, sdb, hdb, crashes, rewinds>>

\* The end of recoverUnderConstructionLedger, which closes the ledger it opened:
\* without a genesis block the flag is cleared, with it the id is recorded.
RecoverUnderConstruction ==
  /\ pc = "recovered"
  /\ ids' = IF mgr.height = 0 THEN "none" ELSE "created"
  /\ Halt
  /\ UNCHANGED <<pvt, sdb, hdb, crashes, rewinds>>

---------------------------------------------------------------------------
(* Committing a block *)

\* coordinator.StoreBlock, which commits what the private data store already has
\* or what it could fetch, and ValidateAndPrepare with addBlockCommitHash.
StoreBlock ==
  /\ pc = "serving" /\ mgr.height < Len(Chain)
  /\ LET n     == mgr.height
         known == n < PvtHeight
     IN  \E have \in IF known THEN {pvt.data[n]} ELSE SUBSET PvtTxs(n) :
           LET r == ValidateAndPrepareBatch(Txs(n), n, Chain[n + 1].given, TRUE, have, sdb)
           IN  /\ cur' = [num |-> n, known |-> known, have |-> have, res |-> r]
               /\ chash' = IF n = 1 \/ chash # NoHash
                           THEN <<n, chash, r.flags, r.upd>> ELSE chash
               /\ pc' = IF r.panic THEN "failed" ELSE "prepare"
  /\ UNCHANGED <<bsvars, ids, pvt, sdb, hdb, mode, ahead, order, rec, crashes, rewinds>>

\* constructPvtDataAndMissingData
Missing(n, have) == PvtTxs(n) \ have

\* (mutant) does not record what is missing
PrepareMutant ==
  LET n == cur.num
  IN  /\ pc = "prepare"
      /\ pvt' = IF cur.known THEN pvt
                ELSE [pvt EXCEPT !.data[n] = cur.have, !.pending = TRUE]
      /\ AddBlock([num |-> n, flags |-> cur.res.flags, hash |-> chash])
      /\ pc' = "adding"
      /\ UNCHANGED <<ids, sdb, hdb, mode, cur, chash, ahead, order, rec, crashes, rewinds>>

\* ledgerstorage.Store.CommitWithPvtData: Prepare, then AddBlock, then Commit.
Prepare ==
  LET n == cur.num
  IN  /\ pc = "prepare"
      /\ IF ~cur.known /\ (pvt.pending \/ PvtHeight # n)
         THEN pc' = "failed" /\ UNCHANGED <<pvt, bsvars>>
         ELSE /\ pvt' = IF cur.known THEN pvt
                        ELSE [pvt EXCEPT !.data[n] = cur.have,
                                         !.missing[n] = Missing(n, cur.have),
                                         !.pending = TRUE]
              /\ AddBlock([num |-> n, flags |-> cur.res.flags, hash |-> chash])
              /\ pc' = "adding"
      /\ UNCHANGED <<ids, sdb, hdb, mode, cur, chash, ahead, order, rec, crashes, rewinds>>

AddToBlockStore ==
  /\ pc = "adding" /\ Adding
  /\ pc' = IF step' = "ready" THEN "commit" ELSE pc
  /\ UNCHANGED <<ids, pvt, sdb, hdb, mode, cur, chash, ahead, order, rec, crashes, rewinds>>

CommitPvt ==
  /\ pc = "commit"
  /\ pvt' = IF cur.known THEN pvt ELSE CommitPending(pvt)
  /\ ahead' = (ahead /\ PvtHeight # cur.num + 1)
  /\ pc' = "state"
  /\ UNCHANGED <<bsvars, ids, sdb, hdb, mode, cur, chash, order, rec, crashes, rewinds>>

CommitStateDB ==
  /\ pc = "state"
  /\ sdb' = CommitState(cur.res, cur.num)
  /\ pc' = "history"
  /\ UNCHANGED <<bsvars, ids, pvt, hdb, mode, cur, chash, ahead, order, rec, crashes, rewinds>>

CommitHistoryDB ==
  /\ pc = "history"
  /\ hdb' = CommitHistory(cur.num, cur.res.flags)
  /\ cur' = NoCommit
  /\ pc' = IF mode = "create" THEN "mark" ELSE "serving"
  /\ UNCHANGED <<bsvars, ids, pvt, sdb, mode, chash, ahead, order, rec, crashes, rewinds>>

\* createLedgerID: records the id and clears the flag in one batch.
CreateLedgerID ==
  /\ pc = "mark"
  /\ ids' = "created" /\ mode' = "open" /\ pc' = "serving"
  /\ UNCHANGED <<bsvars, pvt, sdb, hdb, cur, chash, ahead, order, rec, crashes, rewinds>>

---------------------------------------------------------------------------
(* The reconciler, a goroutine of its own *)

Committing == {"prepare", "adding", "commit", "state", "history"}
Reconciling == pc \in {"serving"} \cup Committing /\ mode = "open"

\* GetMissingPvtDataInfoForMostRecentBlocks, then the fetch from other peers,
\* which brings some of the transactions asked for.
MostRecent ==
  LET has == { n \in 0 .. pvt.last : pvt.missing[n] # {} }
  IN  { n \in has : Cardinality({ m \in has : m > n }) < RecBatch }

Fetch ==
  /\ Reconciling /\ rec.stage = "idle" /\ ~ahead
  /\ \E got \in SUBSET UNION { {n} \X pvt.missing[n] : n \in MostRecent } :
        /\ got # {}
        /\ rec' = [stage |-> "fetched", got |-> got]
  /\ UNCHANGED <<bsvars, ids, pvt, sdb, hdb, pc, mode, cur, chash, ahead, order, crashes, rewinds>>

\* kvLedger.CommitPvtDataOfOldBlocks: the private data store, the state
\* database, the list of updated blocks.
StoreFetched ==
  /\ Reconciling /\ rec.stage = "fetched" /\ pvt.updated = {}
  /\ SlowFetch => \A x \in rec.got : x[1] <= sdb.save
  /\ LET of(n) == { i \in PvtTxs(n) : <<n, i>> \in rec.got }
     IN  pvt' = [pvt EXCEPT !.data    = [n \in Nums |-> @[n] \cup of(n)],
                            !.missing = [n \in Nums |-> @[n] \ of(n)],
                            !.updated = { x[1] : x \in rec.got }]
  /\ rec' = [rec EXCEPT !.stage = "stored"]
  /\ UNCHANGED <<bsvars, ids, sdb, hdb, pc, mode, cur, chash, ahead, order, crashes, rewinds>>

ApplyFetched ==
  /\ Reconciling /\ rec.stage = "stored"
  /\ sdb' = RemoveStaleAndCommit(ValidOnes(rec.got))
  /\ rec' = [rec EXCEPT !.stage = "applied"]
  /\ UNCHANGED <<bsvars, ids, pvt, hdb, pc, mode, cur, chash, ahead, order, crashes, rewinds>>

ResetUpdatedList ==
  /\ Reconciling /\ rec.stage = "applied"
  /\ pvt' = [pvt EXCEPT !.updated = {}]
  /\ rec' = NoRec
  /\ UNCHANGED <<bsvars, ids, sdb, hdb, pc, mode, cur, chash, ahead, order, crashes, rewinds>>

---------------------------------------------------------------------------
(* Rollback and reset, run while the peer is down, and crashes *)

\* RollbackKVLedger or ResetAllKVLedgers, up to the drop of the state database.
DropState ==
  /\ pc = "down" /\ ids = "created" /\ rewinds < MaxRewinds
  /\ mode' \in {"rollback", "reset"}
  /\ mode' = "rollback" => Len(Stored) > 1
  /\ sdb' = EmptyState /\ pc' = "drop_history" /\ rewinds' = rewinds + 1
  /\ UNCHANGED <<bsvars, ids, pvt, hdb, cur, chash, ahead, order, rec, crashes>>

DropHistory ==
  /\ pc = "drop_history"
  /\ hdb' = EmptyHistory /\ pc' = "rewind"
  /\ UNCHANGED <<bsvars, ids, pvt, sdb, mode, cur, chash, ahead, order, rec, crashes, rewinds>>

RewindBlockStore ==
  /\ pc = "rewind"
  /\ \/ step = "closed" /\ mode = "rollback" /\ \E n \in Nums : RollbackTo(n)
     \/ step = "closed" /\ mode = "reset" /\ ResetStore
     \/ Rewinding
  /\ pc' = IF step' = "closed" THEN "down" ELSE pc
  /\ UNCHANGED <<ids, pvt, sdb, hdb, mode, cur, chash, ahead, order, rec, crashes, rewinds>>

Crash ==
  /\ pc # "down" /\ crashes < MaxCrashes
  /\ Halt
  /\ crashes' = crashes + 1
  /\ UNCHANGED <<ids, pvt, sdb, hdb, rewinds>>

\* A panic, or an error the callers turn into one, ends the process.
Abort ==
  /\ pc = "failed"
  /\ Halt
  /\ UNCHANGED <<ids, pvt, sdb, hdb, crashes, rewinds>>

---------------------------------------------------------------------------
Recovery == \/ Create \/ Start \/ OpenBlockStore \/ OpenPvtStore \/ CheckDBs
            \/ RecommitLostBlock \/ SyncStateWithPvtStore \/ FinishOpenLedger
            \/ RecoverUnderConstruction \/ Abort
Commit == \/ StoreBlock \/ Prepare \/ AddToBlockStore \/ CommitPvt
          \/ CommitStateDB \/ CommitHistoryDB \/ CreateLedgerID
Reconcile == Fetch \/ StoreFetched \/ ApplyFetched \/ ResetUpdatedList
Command == DropState \/ DropHistory \/ RewindBlockStore

Next == Recovery \/ Commit \/ Reconcile \/ Command \/ Crash

Spec == Init /\ [][Next]_vars

\* The peer restarts, delivery goes on, and a command that was started is run to
\* its end; nothing is assumed of the reconciler.
FairSpec == Spec /\ WF_vars(Recovery) /\ WF_vars(Commit)
                 /\ WF_vars(DropHistory \/ RewindBlockStore)

---------------------------------------------------------------------------
(* Properties *)

Serving == pc = "serving" \/ pc = "mark" \/ pc \in Committing

\* Once addBlock has returned, the block is there after every restart, whichever of
\* file, checkpoint and index the process had written when it died: an open ledger
\* holds every block up to that height, in order, and the index leads to each.
Durable ==
  step = "ready" =>
    /\ mgr.height >= kept /\ Len(index) = mgr.height
    /\ \A n \in 0 .. mgr.height - 1 : Block(n).num = n

\* Creation interrupted between the genesis block and the commit of its private data.
GenesisPending == pvt.last = -1 /\ pvt.pending /\ Len(Stored) = 1

\* The only interruption that the ledger does not recover from is the one during its
\* creation: a started process never panics or gives up for another reason, and no
\* commit is refused.
OnlyGenesisFails == pc = "failed" => ids = "under" /\ GenesisPending

\* recoverUnderConstructionLedger: "If a crash happens in between, the
\* 'recoverUnderConstructionLedger' function is invoked before declaring the provider
\* to be usable": a ledger under construction can be opened.
CreationRecovers == pc = "failed" => ids # "under"

\* The history database is the history of the chain when no block is being committed.
HistoryFollows ==
  pc = "serving" =>
    hdb.entries = UNION { HistoryOf(n, Block(n).flags) : n \in 0 .. mgr.height - 1 }

\* Every private write set that the private data store has seen is there or is
\* recorded as missing, so that the reconciler will ask for it; never both.
NoneForgotten ==
  \A n \in 0 .. pvt.last : /\ pvt.data[n] \cup pvt.missing[n] = PvtTxs(n)
                          /\ pvt.data[n] \cap pvt.missing[n] = {}

\* The private state agrees with the hashes: what the private data store has of the
\* transaction that wrote the hash last is in the private state, and a private value
\* whose version is the hash's is the hashed value.  Reconciled data, which arrives
\* in any order and between any two writes of a commit, never leaves a stale value.
PvtAgrees ==
  Serving /\ pc # "history" /\ rec.stage = "idle" =>
    \A k \in PvtKeys :
       LET h == sdb.hash[k]
       IN  h.ver # NoVersion =>
             /\ h.ver[2] \in pvt.data[h.ver[1]] => sdb.pvt[k].ver = h.ver
             /\ sdb.pvt[k].ver = h.ver => sdb.pvt[k].val = h.val

\* The ledger implements the atomic one.
Atomic == INSTANCE AtomicLedger WITH
            chain   <- Stored,
            applied <- IF Serving THEN sdb.save + 1 ELSE -1,
            view    <- IF Serving THEN [pub |-> sdb.pub, hash |-> sdb.hash] ELSE <<>>,
            command <- pc = "rewind"
IsAtomic == Atomic!ASpec

\* However often the process dies, every ordered block is committed in the end, unless
\* it died in the middle of the ledger's creation.
CatchesUp ==
  <>[](ids = "under" /\ GenesisPending) \/ <>[](pc = "serving" /\ mgr.height = Len(Chain))
====
