----------------------------- MODULE MCCEGraph -----------------------------
(***************************************************************************)
(* Workloads for CEGraph: what deterministic chaincode can endorse.        *)
(*                                                                         *)
(* A value is the term <<transaction, values it read>>, so two executions  *)
(* of a transaction write the same value exactly when they read the same   *)
(* values.  A read of a key nobody wrote leaves no access behind, and      *)
(* every envelope reads its chaincode's entry in the namespace lscc.       *)
(***************************************************************************)
EXTENDS CEGraph, SequencesExt

CONSTANTS t1, t2, t3, t4, k1, k2, none

\* a transaction reads some keys and writes some keys
Programs(reads, writes) == [reads : reads, writes : writes]

Access(ns, op, key, val, txid) ==
    [ns |-> ns, op |-> op, key |-> key, val |-> val, txid |-> txid]

\* transaction t with program pr, executed in state st (key -> value and its writer)
Envelope(t, pr, st) ==
    LET found == {k \in pr.reads : st[k].val # none}
        value == <<t, [k \in found |-> st[k].val]>>
    IN  [id |-> t, copy |-> 1,
         accesses |-> <<Access("lscc", "read", k1, t, t)>>
             \o SetToSeq({Access("cc", "read", k, st[k].val, st[k].txid) : k \in found})
             \o SetToSeq({Access("cc", "write", k, value, t) : k \in pr.writes})]

\* the envelopes of a peer that executes the transactions in the given order
Execute(order, prog) ==
    LET step(acc, t) ==
            LET env == Envelope(t, prog[t], acc.st)
                val(k) == (CHOOSE i \in DOMAIN env.accesses :
                             env.accesses[i].op = "write" /\ env.accesses[i].key = k)
            IN  [st |-> [k \in Keys |-> IF k \in prog[t].writes
                                        THEN [val |-> env.accesses[val(k)].val, txid |-> t]
                                        ELSE acc.st[k]],
                 envs |-> Put(acc.envs, t, env)]
        start == [st |-> [k \in Keys |-> [val |-> none, txid |-> none]], envs |-> NoMap]
    IN  FoldLeft(step, start, order).envs

Again(env) == [env EXCEPT !.copy = 2]

OneKey == {{k1}, {k2}}
AnyKeys == SUBSET {k1, k2}
Three == <<t1, t2, t3>>
Four == <<t1, t2, t3, t4>>

\* every envelope comes from one peer
Serial(order, programs) ==
    {Range(Execute(order, prog)) : prog \in [Range(order) -> programs]}

\* each envelope comes from one of two peers, which executed in different orders
TwoPeers(order, others, programs) ==
    UNION {UNION {{{IF t \in S THEN Execute(order, prog)[t] ELSE Execute(o, prog)[t]
                        : t \in Range(order)}
                   : S \in SUBSET Range(order)}
           : o \in others} : prog \in [Range(order) -> programs]}

\* one envelope is submitted twice
Resubmitted(workloads) == UNION {{w \cup {Again(env)} : env \in w} : w \in workloads}


Serial3 == Serial(Three, Programs(AnyKeys, AnyKeys))
Serial4 == Serial(Four, Programs(AnyKeys, OneKey))
Diverging3 == TwoPeers(Three, {<<t2, t1, t3>>, <<t3, t2, t1>>, <<t1, t3, t2>>},
                       Programs(AnyKeys, OneKey))
\* <<t1, t2, t1>>: the chaincode ran t1 twice, and the second run read the first's write
Duplicates3 == Resubmitted(Serial3)
               \cup Resubmitted(Serial(<<t1, t2, t1>>, Programs(AnyKeys, OneKey)))
Disorder3 == Diverging3 \cup Duplicates3
=============================================================================
