---- MODULE TxManager ----
(***************************************************************************)
(* Simulation beside commit in the peer's transaction manager.  A          *)
(* transaction asks the peer for ranges and private data while blocks are  *)
(* committed under it (the read lock is commented out); its public reads   *)
(* are the values of the shim's local state and arrive at the end, with    *)
(* the writes, in BuildRWset.  Endorsed transactions are put into blocks   *)
(* in any order, as other peers, clients and the orderer see fit.          *)
(***************************************************************************)
EXTENDS Validator, FiniteSets

CONSTANTS PubKeys, PvtKey,
          Programs,   \* sets of programs: functions from transactions to records
                      \* [calls, vreads, writes, deletes, meta, pvt, from, limit]
          BlockSize, Values

VARIABLES prog,     \* the chaincode of each transaction
          sim,      \* the simulators
          sdb,      \* the state database: [pub, hash, pvt]
          height,
          current,  \* the validated block of txmgr.current
          serial    \* the values of a serial execution of the valid transactions

vars == <<prog, sim, sdb, height, current, serial>>

Txns == DOMAIN prog
PvtKeys == {PvtKey}
NoBlock == [txs |-> <<>>]
Ver0 == <<0, 1>>
Start == [val |-> 1, meta |-> Nil, ver |-> Ver0]

NewSim == [stage |-> 0, began |-> 0, scanned |-> {}, read |-> {}, pvt |-> Absent,
           hread |-> {}, rw |-> <<>>, done |-> "no"]

Init ==
  /\ prog \in Programs
  /\ sim = [t \in Txns |-> NewSim]
  /\ sdb = [pub  |-> [k \in PubKeys |-> Start], hash |-> [k \in PvtKeys |-> Start],
            pvt  |-> [k \in PvtKeys |-> Start]]
  /\ height = 1 /\ current = NoBlock
  /\ serial = [val  |-> [k \in PubKeys \cup PvtKeys |-> 1],
               meta |-> [k \in PubKeys |-> Nil]]

---------------------------------------------------------------------------
(* The queries of a simulator *)

\* What a scan from a key returns: the live keys in order, up to the limit at
\* which the chaincode stops calling Next.
Live(val, from) == { k \in PubKeys : k >= from /\ val[k] # Nil }
FirstOf(S, limit) == { k \in S : Cardinality({ j \in S : j <= k }) <= limit }
Greatest(S) == CHOOSE k \in S : \A j \in S : j <= k
EndKey == 1 + Greatest(PubKeys)

Current(db) == [k \in DOMAIN db |-> db[k].val]

Calling(t, c) ==
  /\ sim[t].stage < Len(prog[t].calls) /\ prog[t].calls[sim[t].stage + 1] = c
  /\ sim[t].done = "no"

Called(t) == [sim[t] EXCEPT !.stage = @ + 1, !.began = IF sim[t].stage = 0 THEN height ELSE @]

\* An iterator reads a snapshot of the database; updateRangeQueryInfo records
\* the last key returned as the end unless the iterator was exhausted.
RangeScan(t) ==
  LET all  == Live(Current(sdb.pub), prog[t].from)
      seen == FirstOf(all, prog[t].limit)
      done == Cardinality(all) < prog[t].limit
  IN  /\ Calling(t, "scan")
      /\ sim' = [sim EXCEPT ![t] =
           [Called(t) EXCEPT
              !.scanned = { <<k, sdb.pub[k].val>> : k \in seen },
              !.read = {[start |-> prog[t].from, exhausted |-> done,
                         end   |-> IF done THEN EndKey ELSE Greatest(seen),
                         seen  |-> { <<k, sdb.pub[k].ver>> : k \in seen }]}]]
      /\ UNCHANGED <<prog, sdb, height, current, serial>>

\* getPrivateData reads the value first and the version of the hash then; an
\* error, when the versions differ, ends the simulation.
GetPrivateData(t) ==
  /\ Calling(t, "pvt")
  /\ sim' = [sim EXCEPT ![t] = [Called(t) EXCEPT !.pvt = sdb.pvt[PvtKey]]]
  /\ UNCHANGED <<prog, sdb, height, current, serial>>

GetKeyHashVersion(t) ==
  /\ Calling(t, "hash")
  /\ sim' = [sim EXCEPT ![t] = IF sdb.hash[PvtKey].ver = sim[t].pvt.ver
                               THEN [Called(t) EXCEPT !.hread = PvtKeys]
                               ELSE [Called(t) EXCEPT !.done = "error"]]
  /\ UNCHANGED <<prog, sdb, height, current, serial>>

---------------------------------------------------------------------------
(* The result *)

Sum(f) == FoldFunction(LAMBDA a, b : a + b, 0, f)

\* What the chaincode writes depends on everything it read.
Result(t, vals, scanned, pvtval) ==
  1 + ((t + 2 * Sum(vals) + pvtval + Sum([x \in scanned |-> x[1] * x[2]])) % Values)

\* The values of a key in the shim: the committed one, or one that a
\* transaction executed before this one wrote there.
ShimValues(k) ==
  ({sdb.pub[k].val} \cup
   { sim[u].rw[1].writes[k] : u \in { u \in Txns : sim[u].rw # <<>> /\ k \in prog[u].writes } })
  \ {Nil}

\* (mutant) does not wait for the answers of the peer
CompletedMutant(t) == sim[t].done = "no"

Completed(t) == sim[t].stage = Len(prog[t].calls) /\ sim[t].done = "no"

\* HandleBuildRwset and GetTxSimulationResults.
BuildRWset(t) ==
  /\ Completed(t)
  /\ \E vals \in [prog[t].vreads -> UNION { ShimValues(k) : k \in prog[t].vreads }] :
       LET out == Result(t, vals, sim[t].scanned, sim[t].pvt.val)
           rw  == [reads  |-> [k \in prog[t].vreads |-> [isRead |-> TRUE, val |-> vals[k]]],
                   ranges |-> sim[t].read,
                   hreads |-> [k \in sim[t].hread |-> sim[t].pvt.ver],
                   writes |-> [k \in prog[t].writes \cup prog[t].deletes |->
                                 IF k \in prog[t].writes THEN out ELSE Nil],
                   meta   |-> [k \in prog[t].meta |-> out],
                   pvt    |-> [k \in prog[t].pvt |-> out]]
       IN  /\ \A k \in prog[t].vreads : vals[k] \in ShimValues(k)
           /\ sim' = [sim EXCEPT ![t] =
                [@ EXCEPT !.rw = <<rw>>, !.done = "endorsed",
                          !.began = IF prog[t].calls = <<>> THEN height ELSE @]]
  /\ UNCHANGED <<prog, sdb, height, current, serial>>

---------------------------------------------------------------------------
(* Commit *)

Endorsed == { t \in Txns : sim[t].done = "endorsed" }
Blocks == { b \in UNION { [1..n -> Endorsed] : n \in 1..BlockSize } : IsInjective(b) }

ValidateAndPrepare(b) ==
  LET txs == [i \in DOMAIN b |-> sim[b[i]].rw[1]]
  IN  /\ current = NoBlock
      /\ current' = [txs |-> b,
                     res |-> ValidateAndPrepareBatch(txs, height, [i \in DOMAIN b |-> "VALID"],
                                                     TRUE, DOMAIN b, sdb)]
      /\ sim' = [t \in Txns |-> IF \E i \in DOMAIN b : b[i] = t
                                THEN [sim[t] EXCEPT !.done = "ordered"] ELSE sim[t]]
      /\ UNCHANGED <<prog, sdb, height, serial>>

\* The transaction executed on its own, on the values and metadata st.
Alone(t, st) ==
  LET seen == FirstOf(Live(st.val, prog[t].from), prog[t].limit)
      out  == Result(t, [k \in prog[t].vreads |-> st.val[k]],
                     IF sim[t].read = {} THEN {} ELSE { <<k, st.val[k]>> : k \in seen },
                     IF sim[t].hread = {} THEN Nil ELSE st.val[PvtKey])
      val  == [k \in DOMAIN st.val |->
                 IF k \in prog[t].deletes THEN Nil
                 ELSE IF k \in prog[t].writes \cup prog[t].pvt THEN out ELSE st.val[k]]
  IN  [val  |-> val,
       meta |-> [k \in PubKeys |-> IF val[k] = Nil THEN Nil
                                   ELSE IF k \in prog[t].meta THEN out ELSE st.meta[k]]]

Commit ==
  LET r == current.res
      valid == SelectSeq([i \in DOMAIN r.flags |-> i], LAMBDA i : r.flags[i] = "VALID")
  IN  /\ current # NoBlock /\ ~r.panic
      /\ sdb' = [pub  |-> ApplyUpdates(sdb.pub, r.upd.pub),
                 hash |-> ApplyUpdates(sdb.hash, r.upd.hash),
                 pvt  |-> ApplyUpdates(sdb.pvt, r.pvt)]
      /\ serial' = FoldLeft(LAMBDA st, i : Alone(current.txs[i], st), serial, valid)
      /\ height' = height + 1 /\ current' = NoBlock
      /\ UNCHANGED <<prog, sim>>

---------------------------------------------------------------------------
Simulate(t) == RangeScan(t) \/ GetPrivateData(t) \/ GetKeyHashVersion(t) \/ BuildRWset(t)

Next == \/ \E t \in Txns : Simulate(t)
        \/ \E b \in Blocks : ValidateAndPrepare(b)
        \/ Commit

Spec == Init /\ [][Next]_vars

---------------------------------------------------------------------------
(* Properties *)

\* Types; a simulation never keeps a private value without having checked its version.
TxTypeOK ==
  /\ \A t \in Txns : /\ sim[t].stage \in 0 .. Len(prog[t].calls) /\ sim[t].began <= height
                     /\ sim[t].done = "endorsed" => sim[t].pvt = Absent \/ sim[t].hread # {}
  /\ \A k \in PubKeys : sdb.pub[k].val \in 0 .. Values /\ sdb.pub[k].meta \in 0 .. Values

\* Although a simulation sees several states of the ledger and values that were never
\* committed, the transactions that commit as valid leave the state that they leave
\* when executed one after the other in block order, each on the state before it.
Serializable ==
  /\ \A k \in PubKeys : sdb.pub[k].val = serial.val[k] /\ sdb.pub[k].meta = serial.meta[k]
  /\ \A k \in PvtKeys : sdb.pvt[k].val = serial.val[k] /\ sdb.hash[k].val = serial.val[k]

\* A committed block never ends the peer: "If the key does not exist in the last state,
\* make this key as noop in current transaction" (prepareTxOps), so metadata that is set
\* on a key which an earlier transaction of the block deleted changes nothing.
NoPanic == current # NoBlock => ~current.res.panic

\* Validation by value does not refuse what has not changed: a transaction that began
\* in the state it is committed to, and was given committed values, is valid when it is
\* the first of its block.
FreshIsValid ==
  current # NoBlock =>
    LET s == sim[current.txs[1]]
        r == s.rw[1]
    IN  s.began = height /\ (\A k \in DOMAIN r.reads : r.reads[k].val = sdb.pub[k].val)
          => current.res.flags[1] = "VALID"
====
