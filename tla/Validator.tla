---- MODULE Validator ----
(***************************************************************************)
(* The peer's commit-time validation of a block, as operators on the state *)
(* database.  A transaction is a read-write set                            *)
(*   reads   key |-> [isRead, val]   public reads: only those that the     *)
(*           shim marked isRead are validated, and by value                *)
(*   ranges  set of [start, end, exhausted, seen], seen a set of           *)
(*           <<key, version>>; keys are naturals, so they are ordered      *)
(*   hreads  private key |-> version                                       *)
(*   writes  key |-> value, Nil a delete;  meta  key |-> metadata          *)
(*   pvt     private key |-> value, Nil a delete                           *)
(* of one namespace and one collection.  A database maps every key to      *)
(* [val, meta, ver] (Absent when it is not there); an update batch maps    *)
(* only the keys it touches, a deleted one to an entry whose value is Nil. *)
(***************************************************************************)
EXTENDS Naturals, SequencesExt

\* bytes.Equal does not tell a nil value from an empty one.
Nil == 0

NoVersion == <<>>

Absent == [val |-> Nil, meta |-> Nil, ver |-> NoVersion]

EmptyBatch == [k \in {} |-> Absent]

\* The entry of k as the preceding transactions of the block leave it.
Latest(db, batch, k) == IF k \in DOMAIN batch THEN batch[k] ELSE db[k]

---------------------------------------------------------------------------
(* validateTx *)

validateReadSet(tx, db, batch) ==
  \A k \in DOMAIN tx.reads :
     tx.reads[k].isRead => Latest(db, batch, k).val = tx.reads[k].val

\* (mutant) leaves the end key out always
CombinedResultsMutant(db, batch, rq) ==
  { <<k, Latest(db, batch, k).ver>> : k \in
      { k \in DOMAIN db : rq.start <= k /\ k < rq.end /\ Latest(db, batch, k).val # Nil } }

\* What the combined iterator returns: the live keys of the range, the end
\* key only when the simulation stopped there before exhausting the range.
CombinedResults(db, batch, rq) ==
  { <<k, Latest(db, batch, k).ver>> : k \in
      { k \in DOMAIN db : /\ rq.start <= k
                          /\ k < rq.end \/ (k = rq.end /\ ~rq.exhausted)
                          /\ Latest(db, batch, k).val # Nil } }

validateRangeQueries(tx, db, batch) ==
  \A rq \in tx.ranges : CombinedResults(db, batch, rq) = rq.seen

\* (mutant) looks at the committed hashes only
validateHashedReadsMutant(tx, db, batch) ==
  \A k \in DOMAIN tx.hreads : db[k].ver = tx.hreads[k]

validateHashedReads(tx, db, batch) ==
  \A k \in DOMAIN tx.hreads : k \notin DOMAIN batch /\ db[k].ver = tx.hreads[k]

validateTx(tx, db, upd) ==
  CASE ~validateReadSet(tx, db.pub, upd.pub)      -> "MVCC_READ_CONFLICT"
    [] ~validateRangeQueries(tx, db.pub, upd.pub) -> "PHANTOM_READ_CONFLICT"
    [] ~validateHashedReads(tx, db.hash, upd.hash) -> "MVCC_READ_CONFLICT"
    [] OTHER                                       -> "VALID"

---------------------------------------------------------------------------
(* ApplyWriteSet *)

\* prepareTxOps: a value alone keeps the latest metadata, metadata alone
\* keeps the latest value, and is dropped when there is nothing to keep.
prepareTxOps(writes, meta, ht, db, batch) ==
  LET Found(k) == k \in DOMAIN batch \/ db[k].val # Nil
      Op(k) == IF k \in DOMAIN writes /\ writes[k] = Nil
               THEN [Absent EXCEPT !.ver = ht]
               ELSE [val  |-> IF k \in DOMAIN writes THEN writes[k]
                              ELSE Latest(db, batch, k).val,
                     meta |-> IF k \in DOMAIN meta THEN meta[k]
                              ELSE Latest(db, batch, k).meta,
                     ver  |-> ht]
  IN  [k \in {k \in DOMAIN writes \cup DOMAIN meta :
                k \in DOMAIN writes \/ Found(k)} |-> Op(k)]

\* PutValAndMetadata panics on a nil value: a metadata write that follows a
\* delete of its key in the same block.
PutPanics(tx, db, upd) ==
  \E k \in DOMAIN tx.meta \ DOMAIN tx.writes :
     k \in DOMAIN upd.pub /\ upd.pub[k].val = Nil

Over(new, old) ==
  [k \in DOMAIN new \cup DOMAIN old |-> IF k \in DOMAIN new THEN new[k] ELSE old[k]]

NoMeta == [k \in {} |-> Nil]

ApplyWriteSet(tx, ht, db, upd) ==
  [upd EXCEPT !.pub  = Over(prepareTxOps(tx.writes, tx.meta, ht, db.pub, @), @),
              !.hash = Over(prepareTxOps(tx.pvt, NoMeta, ht, db.hash, @), @)]

\* The private writes of a transaction whose private data is at hand.
PvtOps(tx, ht) == [k \in DOMAIN tx.pvt |-> [Absent EXCEPT !.val = tx.pvt[k], !.ver = ht]]

---------------------------------------------------------------------------
(* ValidateAndPrepareBatch *)

\* Transaction i of block n.  given[i] is the code it arrives with: only a
\* VALID one is processed.  The writes of a panicking one are left out.
ValidateOne(txs, n, given, doMVCC, have, db, acc, i) ==
  LET tx   == txs[i]
      code == IF given[i] # "VALID" THEN given[i]
              ELSE IF doMVCC THEN validateTx(tx, db, acc.upd) ELSE "VALID"
      bad  == code = "VALID" /\ PutPanics(tx, db, acc.upd)
  IN  [flags |-> Append(acc.flags, code),
       panic |-> acc.panic \/ bad,
       upd   |-> IF code # "VALID" \/ bad THEN acc.upd
                 ELSE ApplyWriteSet(tx, <<n, i>>, db, acc.upd),
       pvt   |-> IF code = "VALID" /\ i \in have
                 THEN Over(PvtOps(tx, <<n, i>>), acc.pvt) ELSE acc.pvt]

ValidateAndPrepareBatch(txs, n, given, doMVCC, have, db) ==
  FoldLeftDomain(LAMBDA acc, i : ValidateOne(txs, n, given, doMVCC, have, db, acc, i),
                 [flags |-> <<>>, panic |-> FALSE, pvt |-> EmptyBatch,
                  upd |-> [pub |-> EmptyBatch, hash |-> EmptyBatch]],
                 txs)

\* ApplyUpdates of the state database.
ApplyUpdates(db, batch) ==
  [k \in DOMAIN db |-> IF k \notin DOMAIN batch THEN db[k]
                       ELSE IF batch[k].val = Nil THEN Absent ELSE batch[k]]
====
