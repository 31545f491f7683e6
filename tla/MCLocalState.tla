--------------------------- MODULE MCLocalState ---------------------------
(***************************************************************************)
(* Chaincode programs and values for LocalState.                           *)
(***************************************************************************)
EXTENDS LocalState, TLC

CONSTANTS i0, i1, i2, i3, t0, t1, t2, t3, t4, t5, k1, k2

\* every value tells who wrote it and from what; but t4 and t5 write two values only, so
\* that one of them may put back what the other overwrote
Value(t, given, k) ==
    IF t \in {t4, t5} THEN <<Cardinality({n \in 1..Len(given) : given[n] = <<0>>}) % 2>>
    ELSE <<t, given>>

Program(t, reads, puts, dels, ok, after) ==
    [txid |-> t, reads |-> reads, puts |-> puts, dels |-> dels, ok |-> ok, after |-> after]

\* i0 writes every key and is answered before the others start
Setup == Program(t0, <<>>, Keys, {}, TRUE, {})

Once == {<<>>, <<k1>>, <<k1, k2>>, <<k2, k1>>}
Some == {{}, {k1}, {k2}, {k1, k2}}

Calls(t, reads, puts, after) ==
    {Program(t, r, p, {}, TRUE, after) : r \in reads, p \in puts}

\* three concurrent transactions on two keys that exist
Existing == {(i0 :> Setup) @@ (i1 :> a) @@ (i2 :> b) @@ (i3 :> c) :
                a \in Calls(t1, Once, {{k1}, {k1, k2}}, {i0}), b \in Calls(t2, Once, Some, {i0}),
                c \in Calls(t3, {<<k1, k2>>}, {{k2}}, {i0})}

\* i1 and i3 execute the same transaction; i2 deletes a key, or fails
Again == {(i0 :> Setup) @@ (i1 :> a) @@ (i2 :> b) @@ (i3 :> c) :
             a \in Calls(t4, {<<k1>>}, {{k1}, {k2}}, {i0}),
             b \in {Program(t5, <<k2>>, {k1}, {k2}, TRUE, {i0}),
                    Program(t5, <<>>, {k1}, {}, FALSE, {i0})},
             c \in Calls(t4, Once, {{k1}, {k1, k2}}, {i0})}

Concurrent == Existing \cup Again

\* i1 reads a key that i2 creates
Fresh == {(i1 :> Program(t1, <<k1>>, {k2}, {}, TRUE, {}))
          @@ (i2 :> Program(t2, <<>>, {k1}, {}, TRUE, {}))}

\* i1 reads a key twice while i2 overwrites it
Twice == {(i0 :> Setup) @@ (i1 :> Program(t1, <<k1, k1>>, {k2}, {}, TRUE, {i0}))
          @@ (i2 :> Program(t2, <<>>, {k1}, {}, TRUE, {i0}))}
=============================================================================
