---- MODULE MCLedger ----
(***************************************************************************)
(* A channel's first blocks, for Ledger.                                   *)
(***************************************************************************)
EXTENDS Ledger, TLC

None == [k \in {} |-> Nil]
Tx == [reads |-> None, ranges |-> {}, hreads |-> None, writes |-> None, meta |-> None,
       pvt |-> None]
Read(v) == [isRead |-> TRUE, val |-> v]
Valid(txs) == [txs |-> txs, given |-> [i \in DOMAIN txs |-> "VALID"]]

Genesis == Valid(<<[Tx EXCEPT !.writes = 1 :> 1]>>)

\* the second transaction read what the first one overwrites
Block1 == Valid(<<[Tx EXCEPT !.reads = 1 :> Read(1), !.writes = 1 :> 2, !.pvt = 3 :> 5],
                  [Tx EXCEPT !.reads = 1 :> Read(1), !.writes = 2 :> 9, !.pvt = 3 :> 9]>>)

\* the private value of block 1 again; a delete; a transaction the committer refused
Block2 == [txs   |-> <<[Tx EXCEPT !.writes = (1 :> Nil) @@ (2 :> 3), !.hreads = 3 :> <<1, 1>>,
                                  !.pvt = 3 :> 5],
                       [Tx EXCEPT !.writes = 1 :> 7]>>,
           given |-> <<"VALID", "BAD_PAYLOAD">>]

\* a range read of what block 2 left, and of what block 1 left
Scan(seen) == [start |-> 1, end |-> 3, exhausted |-> TRUE, seen |-> seen]
Block3 == Valid(<<[Tx EXCEPT !.ranges = {Scan({<<1, <<1, 1>>>>})}, !.writes = 1 :> 8],
                  [Tx EXCEPT !.ranges = {Scan({<<2, <<2, 1>>>>})}, !.meta = 2 :> 1,
                             !.pvt = 3 :> 6]>>)

Blocks3 == <<Genesis, Block1, Block2>>
Blocks4 == <<Genesis, Block1, Block2, Block3>>
Public == {1, 2}
Private == {3}
====
