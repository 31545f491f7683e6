------------------------------ MODULE MCChain ------------------------------
(* Instances of Chain for model checking. *)
EXTENDS Chain, TLC

CONSTANTS t1, t2, t3, t4, m1, m2, tick

TxSymmetry == Permutations(Txs)

Everything == {Txs \cup Configs}

\* the transactions, or one of them among the configurations
Mixed == {Txs} \cup {{a} \cup Configs : a \in Txs}
=============================================================================
