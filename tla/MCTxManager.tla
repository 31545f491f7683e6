---- MODULE MCTxManager ----
(***************************************************************************)
(* Chaincode for TxManager.  Keys 1 and 2 are never deleted and are the    *)
(* ones read by value; key 3 is written and deleted, and seen by scans     *)
(* only; key 4 is private.                                                 *)
(***************************************************************************)
EXTENDS TxManager, TLC

Prog(calls, vreads, writes, deletes, meta, pvt, limit) ==
  [calls |-> calls, vreads |-> vreads, writes |-> writes, deletes |-> deletes, meta |-> meta,
   pvt |-> pvt, from |-> 2, limit |-> limit]

Secret == <<"pvt", "hash">>
Scan == <<"scan">>

Readers == {Prog(Scan, {}, {1}, {}, {2}, {}, n) : n \in {1, 2, 3}}
           \cup {Prog(Scan \o Secret, {1}, {2}, {}, {}, {}, 3),
                 Prog(Secret \o Scan, {}, {1}, {}, {}, {4}, 2),
                 Prog(Secret, {1}, {2}, {}, {2}, {4}, 1)}
Writers == {Prog(<<>>, {1}, {2}, {}, {}, {4}, 1), Prog(<<>>, {2}, {1, 3}, {}, {3}, {}, 1),
            Prog(<<>>, {1, 2}, {1}, {3}, {}, {4}, 1), Prog(<<>>, {2}, {3}, {}, {1}, {}, 1)}
Both == Prog(Secret, {2}, {3}, {}, {}, {4}, 1)

Three == {(1 :> a) @@ (2 :> b) @@ (3 :> c) : a \in Readers, b \in Writers,
                                             c \in Writers \cup Readers}
         \cup {(1 :> Both) @@ (2 :> Both) @@ (3 :> Both)}

\* one transaction deletes the key whose metadata the other sets
DeleteAndMark == {(1 :> Prog(<<>>, {1}, {}, {3}, {}, {}, 1))
                  @@ (2 :> Prog(<<>>, {1}, {2}, {}, {3}, {}, 1))}
Public == {1, 2, 3}
====
