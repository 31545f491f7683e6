--------------------------- MODULE CEGraphProofs ---------------------------
(***************************************************************************)
(* Theorems about the CE-Graph, for every set of workloads, ids and keys.  *)
(***************************************************************************)
EXTENDS CEGraph, TLAPS

USE DEF Committed, Waiting, Failed

---------------------------------------------------------------------------
(* What the helpers on nodes and entries keep.                             *)

LEMMA FailOK ==
    ASSUME NEW n, NEW made, NodeOK(n, made)
    PROVE  /\ NodeOK(Fail(n), made)
           /\ Fail(n).State = Failed
           /\ Fail(n).id = n.id
           /\ Fail(n).PTx = n.PTx
           /\ Fail(n).WriteSet = n.WriteSet
           /\ Fail(n).WaitPTX = n.WaitPTX
BY DEF Fail, NodeOK, NodeFields

LEMMA AddChildOK ==
    ASSUME NEW n, NEW made, NEW c \in made, NodeOK(n, made)
    PROVE  /\ NodeOK(AddChild(n, c), made)
           /\ AddChild(n, c).id = n.id
           /\ AddChild(n, c).PTx = n.PTx
           /\ AddChild(n, c).WriteSet = n.WriteSet
           /\ AddChild(n, c).WaitPTX = n.WaitPTX
           /\ AddChild(n, c).State = n.State
BY DEF AddChild, NodeOK, NodeFields

LEMMA WaitNoMoreOK ==
    ASSUME NEW n, NEW made, NEW w, NodeOK(n, made)
    PROVE  /\ NodeOK(WaitNoMore(n, w), made)
           /\ WaitNoMore(n, w).id = n.id
           /\ WaitNoMore(n, w).PTx = n.PTx
           /\ WaitNoMore(n, w).WriteSet = n.WriteSet
           /\ WaitNoMore(n, w).WaitPTX = n.WaitPTX \ {w}
           /\ WaitNoMore(n, w).State = n.State
BY DEF WaitNoMore, NodeOK, NodeFields

LEMMA RegisterOK ==
    ASSUME NEW n, NEW made, NEW p \in TxIds, NodeOK(n, made)
    PROVE  /\ NodeOK(Register(n, p), made)
           /\ Register(n, p).id = n.id
           /\ Register(n, p).PTx = n.PTx
           /\ Register(n, p).WriteSet = n.WriteSet
           /\ Register(n, p).WaitPTX = n.WaitPTX
           /\ Register(n, p).State = n.State
BY DEF Register, NodeOK, NodeFields

LEMMA LinkOK ==
    ASSUME NEW n, NEW made, NEW ws, ws \subseteq TxIds, NEW p \in TxIds, NodeOK(n, made)
    PROVE  LET l == Register(WaitFor(n, ws), p)
           IN  /\ NodeOK(l, made)
               /\ l.id = n.id
               /\ l.PTx = n.PTx
               /\ l.WriteSet = n.WriteSet
               /\ l.WaitPTX = n.WaitPTX \cup ws
               /\ l.State = n.State
<1>1. /\ NodeOK(WaitFor(n, ws), made)
      /\ WaitFor(n, ws).id = n.id /\ WaitFor(n, ws).PTx = n.PTx
      /\ WaitFor(n, ws).WriteSet = n.WriteSet /\ WaitFor(n, ws).State = n.State
      /\ WaitFor(n, ws).WaitPTX = n.WaitPTX \cup ws
  BY DEF WaitFor, NodeOK, NodeFields
<1> QED
  BY <1>1, RegisterOK

LEMMA UnregisterOK ==
    ASSUME NEW n, NEW made, NEW p, NodeOK(n, made)
    PROVE  /\ NodeOK(Unregister(n, p), made)
           /\ Unregister(n, p).id = n.id
           /\ Unregister(n, p).PTx = n.PTx
           /\ Unregister(n, p).WriteSet = n.WriteSet
           /\ Unregister(n, p).WaitPTX = n.WaitPTX
           /\ Unregister(n, p).State = n.State
BY DEF Unregister, NodeOK, NodeFields

LEMMA NewNodeOK ==
    ASSUME NEW env, NEW made, EnvelopeOK(env)
    PROVE  /\ NodeOK(NewNode(env), made)
           /\ NewNode(env).State = Waiting
           /\ NewNode(env).id = env.id
           /\ NewNode(env).WaitPTX = {}
<1>1. /\ DOMAIN PTx(env) \subseteq TxIds
      /\ \A p \in DOMAIN PTx(env) : DOMAIN PTx(env)[p] \subseteq Keys
      /\ DOMAIN WriteSet(env) \subseteq Keys
  BY Zenon DEF EnvelopeOK, PTx, WriteSet, ByKey, Kept
<1>2. <<>> \in Seq(made)
  OBVIOUS
<1> QED
  BY <1>1, <1>2 DEF EnvelopeOK, NewNode, NodeOK, NodeFields

LEMMA SeqMonotone ==
    ASSUME NEW S, NEW T, S \subseteq T
    PROVE  Seq(S) \subseteq Seq(T)
OBVIOUS

\* Nodes and entries stay well formed when another node is made.
LEMMA GrowOK ==
    ASSUME NEW c \in Nat
    PROVE  /\ \A n : NodeOK(n, 1..c) => NodeOK(n, 1..(c + 1))
           /\ \A e : EntryOK(e, 1..c) => EntryOK(e, 1..(c + 1))
           /\ \A s : s \in Seq(1..c) => s \in Seq(1..(c + 1))
           /\ \A s : s \in Seq(Seq(1..c)) => s \in Seq(Seq(1..(c + 1)))
           /\ \A s : s \in Seq(Frame(1..c)) => s \in Seq(Frame(1..(c + 1)))
<1>0. 1..c \subseteq 1..(c + 1)
  OBVIOUS
<1>1. \A s : s \in Seq(1..c) => s \in Seq(1..(c + 1))
  BY <1>0, SeqMonotone
<1>2. \A s : s \in Seq(Seq(1..c)) => s \in Seq(Seq(1..(c + 1)))
  <2>1. Seq(1..c) \subseteq Seq(1..(c + 1))
    BY <1>1
  <2> QED BY <2>1, SeqMonotone
<1>3. \A s : s \in Seq(Frame(1..c)) => s \in Seq(Frame(1..(c + 1)))
  <2>1. Frame(1..c) \subseteq Frame(1..(c + 1))
    BY <1>0 DEF Frame
  <2> QED BY <2>1, SeqMonotone
<1>4. \A n : NodeOK(n, 1..c) => NodeOK(n, 1..(c + 1))
  BY <1>1 DEF NodeOK
<1>5. \A e : EntryOK(e, 1..c) => EntryOK(e, 1..(c + 1))
  BY <1>1 DEF EntryOK
<1> QED
  BY <1>1, <1>2, <1>3, <1>4, <1>5

LEMMA WaitEntryOK ==
    ASSUME NEW made, NEW diff, NEW ch \in {0} \cup made
    PROVE  /\ EntryOK(WaitEntry(diff, ch), made)
           /\ WaitEntry(diff, ch).ChildWait = NoMap
           /\ DOMAIN NoMap = {}
BY DEF WaitEntry, EntryOK, EntryFields, NoMap

LEMMA ListWaiterOK ==
    ASSUME NEW e, NEW made, cur \in made, EntryOK(e, made)
    PROVE  /\ EntryOK(ListWaiter(e), made)
           /\ ListWaiter(e).ChildWait = Put(e.ChildWait, nodes[cur].id, cur)
BY DEF ListWaiter, EntryOK, EntryFields, Put

LEMMA AddChildEntryOK ==
    ASSUME NEW e, NEW made, NEW c \in made, EntryOK(e, made)
    PROVE  EntryOK(AddChild(e, c), made) /\ AddChild(e, c).ChildWait = e.ChildWait
BY DEF AddChild, EntryOK, EntryFields

LEMMA ExpectOK ==
    ASSUME NEW e, NEW made, NEW kv, DOMAIN kv \subseteq Keys, EntryOK(e, made)
    PROVE  EntryOK(Expect(e, kv), made) /\ Expect(e, kv).ChildWait = e.ChildWait
BY DEF Expect, EntryOK, EntryFields

\* The waits after an iteration of the loop over PTx are well formed.
LEMMA OwnFailedOK ==
    ASSUME NEW id \in TxIds, TypeOK, cur \in 1..cur
    PROVE  LET w == WithOwnFailed(id)
           IN  /\ DOMAIN w = DOMAIN wait \cup {id}
               /\ \A x \in DOMAIN w : EntryOK(w[x], 1..cur)
               /\ \A x \in DOMAIN wait : w[x] = wait[x]
BY WaitEntryOK, Zenon DEF WithOwnFailed, TypeOK, Put

LEMMA JoinWaitsOK ==
    ASSUME NEW w, NEW waits, cur \in 1..cur, \A x \in DOMAIN w : EntryOK(w[x], 1..cur)
    PROVE  LET j == JoinWaits(w, waits)
           IN  /\ DOMAIN j = DOMAIN w
               /\ \A x \in DOMAIN w : EntryOK(j[x], 1..cur)
BY ListWaiterOK DEF JoinWaits

---------------------------------------------------------------------------
(* Type correctness: one lemma per action.                                 *)

LEMMA InitTypeOK == Init => TypeOK
<1> SUFFICES ASSUME Init PROVE TypeOK
  OBVIOUS
<1>1. \A env \in inbox : EnvelopeOK(env)
  BY WorkloadAssumption DEF Init
<1>2. DOMAIN NoMap = {} /\ 1..0 = {}
  BY DEF NoMap
<1>3. /\ DOMAIN nodes = 1..cur /\ DOMAIN TxCNs = {} /\ DOMAIN wait = {}
      /\ cur = 0 /\ pc = "recv" /\ hadWait \in BOOLEAN /\ DOMAIN GState = Keys
  BY <1>2, Zenon DEF Init
<1>4. ReadyBatch \in Seq(1..cur) /\ batches \in Seq(Seq(1..cur)) /\ stack \in Seq(Frame(1..cur))
  BY DEF Init
<1> QED
  BY <1>1, <1>2, <1>3, <1>4 DEF TypeOK

LEMMA ReceiveTypeOK == TypeOK /\ Receive => TypeOK' /\ Fixed
<1> SUFFICES ASSUME TypeOK, Receive PROVE TypeOK' /\ Fixed
  OBVIOUS
<1> USE DEF Receive
<1>0. PICK env \in inbox : /\ Enter(env) \/ Reject(env)
                           /\ inbox' = inbox \ {env}
                           /\ hadWait' = (env.id \in DOMAIN wait)
  OBVIOUS
<1>1. EnvelopeOK(env) /\ cur \in Nat /\ cur' = cur + 1 /\ env.id \in TxIds
  BY DEF TypeOK, EnvelopeOK
<1> DEFINE n == NewNode(env)
<1>2. /\ NodeOK(n, 1..(cur + 1)) /\ n.id = env.id /\ n.PTx = PTx(env)
      /\ NodeOK(Fail(n), 1..(cur + 1)) /\ Fail(n).id = env.id
  <2>1. NodeOK(n, 1..(cur + 1)) /\ n.id = env.id
    BY <1>1, NewNodeOK
  <2>2. n.PTx = PTx(env)
    BY DEF NewNode
  <2> QED BY <2>1, <2>2, FailOK
<1>3. PICK v : /\ v \in {n, Fail(n)}
               /\ nodes' = Put(nodes, cur + 1, v)
  BY <1>0 DEF Enter, Reject
<1> HIDE DEF n
<1>4. /\ DOMAIN nodes' = 1..cur'
      /\ \A m \in 1..cur' : NodeOK(nodes'[m], 1..cur')
      /\ nodes'[cur'] = v
      /\ \A m \in 1..cur : nodes'[m] = nodes[m]
  <2>1. DOMAIN nodes = 1..cur /\ \A m \in 1..cur : NodeOK(nodes[m], 1..cur')
    BY <1>1, GrowOK DEF TypeOK
  <2>2. NodeOK(v, 1..cur') /\ 1..cur' = (1..cur) \cup {cur + 1} /\ cur + 1 \notin 1..cur
    BY <1>1, <1>2, <1>3
  <2> HIDE DEF Receive
  <2>3. /\ DOMAIN nodes' = 1..cur' /\ nodes'[cur + 1] = v
        /\ \A m \in 1..cur : nodes'[m] = nodes[m]
    BY <2>1, <2>2, <1>3 DEF Put
  <2> QED
    BY <2>1, <2>2, <2>3, <1>1
<1>5. /\ DOMAIN TxCNs' \subseteq TxIds
      /\ \A id \in DOMAIN TxCNs' : TxCNs'[id] \in 1..cur' /\ nodes'[TxCNs'[id]].id = id
  <2>1. CASE TxCNs' = TxCNs
    BY <2>1, <1>1, <1>4 DEF TypeOK
  <2>2. CASE TxCNs' = File(env.id)
    BY <2>2, <1>1, <1>2, <1>3, <1>4 DEF TypeOK, File, Put
  <2> QED BY <2>1, <2>2, <1>0 DEF Enter, Reject
<1>6. /\ DOMAIN wait' \subseteq TxIds
      /\ \A id \in DOMAIN wait' : EntryOK(wait'[id], 1..cur')
      /\ DOMAIN wait' = DOMAIN wait
  <2>1. CASE wait' = wait
    BY <2>1, <1>1, GrowOK DEF TypeOK
  <2>2. CASE Reject(env)
    <3>1. \A id \in DOMAIN wait : EntryOK(wait[id], 1..cur')
      BY <1>1, GrowOK DEF TypeOK
    <3> QED BY <2>2, <3>1 DEF Reject, TypeOK, EntryOK, EntryFields
  <2> QED BY <2>1, <2>2, <1>0 DEF Enter
<1>7. todo' \subseteq DOMAIN nodes'[cur'].PTx
  BY <1>0, <1>1, <1>2, <1>3, <1>4 DEF Enter, Reject, n, Put
<1>8. hadWait' => nodes'[cur'].id \in DOMAIN wait'
  BY <1>0, <1>2, <1>3, <1>4, <1>6, Zenon
<1>9. \A e \in inbox' : EnvelopeOK(e)
  BY <1>0 DEF TypeOK
<1>10. /\ ReadyBatch' \in Seq(1..cur') /\ batches' \in Seq(Seq(1..cur'))
       /\ stack' \in Seq(Frame(1..cur'))
  BY <1>1, GrowOK DEF TypeOK
<1>11. Fixed
  BY <1>4 DEF Fixed
<1> QED
  BY <1>0, <1>1, <1>4, <1>5, <1>6, <1>7, <1>8, <1>9, <1>10, <1>11 DEF TypeOK

\* One iteration of the loop over PTx: what has to be shown of the three variables it
\* changes.
LEMMA LinkFrame ==
    ASSUME TypeOK, pc = "parents", todo' \subseteq todo,
           UNCHANGED <<inbox, cur, GState, ReadyBatch, batches, pc, hadWait, stack>>,
           DOMAIN nodes' = 1..cur,
           \A m \in 1..cur : /\ NodeOK(nodes'[m], 1..cur)
                             /\ nodes'[m].id = nodes[m].id
                             /\ nodes'[m].PTx = nodes[m].PTx /\ nodes'[m].WriteSet = nodes[m].WriteSet,
           DOMAIN TxCNs' \subseteq DOMAIN TxCNs,
           \A id \in DOMAIN TxCNs' : TxCNs'[id] = TxCNs[id],
           DOMAIN wait \subseteq DOMAIN wait', DOMAIN wait' \subseteq TxIds,
           \A x \in DOMAIN wait' : EntryOK(wait'[x], 1..cur)
    PROVE  TypeOK' /\ Fixed
<1>1. cur \in 1..cur
  BY DEF TypeOK
<1>2. \A id \in DOMAIN TxCNs' : TxCNs'[id] \in 1..cur' /\ nodes'[TxCNs'[id]].id = id
  BY DEF TypeOK
<1>3. Fixed
  BY DEF Fixed
<1> QED
  BY <1>1, <1>2, <1>3 DEF TypeOK

\* the current node, and the parent it looks at
LEMMA CurrentOK ==
    ASSUME TypeOK, pc = "parents", NEW p \in todo
    PROVE  /\ cur \in 1..cur /\ cur \in DOMAIN nodes
           /\ NodeOK(nodes[cur], 1..cur)
           /\ nodes[cur].id \in TxIds
           /\ p \in TxIds /\ DOMAIN nodes[cur].PTx[p] \subseteq Keys
           /\ p \in DOMAIN TxCNs => /\ TxCNs[p] \in 1..cur
                                    /\ NodeOK(nodes[TxCNs[p]], 1..cur)
                                    /\ nodes[TxCNs[p]].WaitPTX \subseteq TxIds
<1>0. /\ cur \in Nat /\ cur > 0 /\ DOMAIN nodes = 1..cur /\ p \in DOMAIN nodes[cur].PTx
      /\ \A m \in 1..cur : NodeOK(nodes[m], 1..cur)
      /\ p \in DOMAIN TxCNs => TxCNs[p] \in 1..cur
  BY DEF TypeOK
<1>1. cur \in 1..cur /\ cur \in DOMAIN nodes
  BY <1>0
<1>2. NodeOK(nodes[cur], 1..cur) /\ (p \in DOMAIN TxCNs => NodeOK(nodes[TxCNs[p]], 1..cur))
  BY <1>0, <1>1
<1> QED
  BY <1>0, <1>1, <1>2, SMTT(40) DEF NodeOK

LEMMA LinkParentTypeOK == TypeOK /\ LinkParent => TypeOK' /\ Fixed
<1> SUFFICES ASSUME TypeOK, pc = "parents", NEW p \in todo,
                    \/ ParentAbsent(p)
                    \/ ParentRejected(p)
                    \/ ParentCommitted(p)
                    \/ ParentWaiting(p)
                    \/ ParentFailed(p),
                    UNCHANGED <<inbox, cur, GState, ReadyBatch, batches, pc, hadWait, stack>>
             PROVE  TypeOK' /\ Fixed
  BY DEF LinkParent
<1> DEFINE n == nodes[cur]
           made == 1..cur
<1>0. /\ DOMAIN nodes = made /\ \A m \in made : NodeOK(nodes[m], made)
      /\ DOMAIN wait \subseteq TxIds /\ \A x \in DOMAIN wait : EntryOK(wait[x], made)
  BY DEF TypeOK
<1>c. /\ cur \in made
      /\ NodeOK(n, made)
      /\ n.id \in TxIds
      /\ p \in TxIds /\ DOMAIN n.PTx[p] \subseteq Keys
      /\ p \in DOMAIN TxCNs => /\ TxCNs[p] \in made
                               /\ NodeOK(nodes[TxCNs[p]], made)
                               /\ nodes[TxCNs[p]].WaitPTX \subseteq TxIds
  BY CurrentOK
<1> HIDE DEF n, made
<1>1. CASE ParentAbsent(p)
  <2> DEFINE entry == IF p \in DOMAIN wait THEN wait[p] ELSE WaitEntry(FALSE, 0)
             e2 == Expect(AddChild(ListWaiter(entry), cur), n.PTx[p])
             n2 == Register(WaitFor(n, {p}), p)
  <2>1. EntryOK(entry, made)
    BY <1>0, WaitEntryOK, Zenon
  <2> HIDE DEF entry
  <2>2. EntryOK(e2, made)
    BY <2>1, <1>c, ListWaiterOK, AddChildEntryOK, ExpectOK
  <2>3. NodeOK(n2, made) /\ n2.id = n.id /\ n2.PTx = n.PTx /\ n2.WriteSet = n.WriteSet
    <3>1. {p} \subseteq TxIds
      BY <1>c
    <3> QED BY <3>1, <1>c, LinkOK
  <2>4. wait' = Put(wait, p, e2) /\ nodes' = [nodes EXCEPT ![cur] = n2]
        /\ TxCNs' = TxCNs /\ todo' \subseteq todo
    BY <1>1 DEF ParentAbsent, entry, n
  <2> HIDE DEF e2, n2
  <2> QED
    BY <2>2, <2>3, <2>4, <1>0, <1>c, LinkFrame DEF Put, n, made
<1>2. CASE ParentRejected(p)
  <2> DEFINE n2 == Fail(WaitFor(n, {p}))
  <2>1. NodeOK(n2, made) /\ n2.id = n.id /\ n2.PTx = n.PTx /\ n2.WriteSet = n.WriteSet
    <3> DEFINE w == WaitFor(n, {p})
    <3>1. NodeOK(w, made) /\ w.id = n.id /\ w.PTx = n.PTx /\ w.WriteSet = n.WriteSet
      BY <1>c DEF WaitFor, NodeOK, NodeFields
    <3> HIDE DEF w
    <3> QED
      BY <3>1, FailOK DEF w
  <2>2. EntryOK(ListWaiter(wait[p]), made)
    BY <1>0, <1>2, <1>c, ListWaiterOK DEF ParentRejected
  <2>3. wait' = [wait EXCEPT ![p] = ListWaiter(wait[p])] /\ nodes' = [nodes EXCEPT ![cur] = n2]
        /\ TxCNs' = TxCNs /\ todo' \subseteq todo
    BY <1>2 DEF ParentRejected, n
  <2> HIDE DEF n2
  <2> QED
    BY <2>1, <2>2, <2>3, <1>0, <1>c, LinkFrame DEF n, made
<1>3. CASE ParentCommitted(p)
  <2>1. NodeOK(Fail(n), made) /\ Fail(n).id = n.id /\ Fail(n).PTx = n.PTx /\ Fail(n).WriteSet = n.WriteSet
    BY <1>c, FailOK
  <2>2. CASE UNCHANGED <<nodes, wait, TxCNs>>
    BY <2>2, <1>3, <1>0, LinkFrame, Zenon DEF ParentCommitted, made
  <2>3. CASE /\ nodes' = [nodes EXCEPT ![cur] = Fail(n)]
             /\ wait' = WithOwnFailed(n.id)
             /\ TxCNs' = Drop(TxCNs, n.id)
             /\ todo' = {}
    <3>1. /\ DOMAIN wait' = DOMAIN wait \cup {n.id}
          /\ \A x \in DOMAIN wait' : EntryOK(wait'[x], made)
      BY <2>3, <1>c, OwnFailedOK, Zenon DEF made
    <3> QED
      BY <2>1, <2>3, <3>1, <1>0, <1>c, LinkFrame, Zenon DEF Drop, Restrict, n, made
  <2> QED
    BY <2>2, <2>3, <1>3, Zenon DEF ParentCommitted, n
<1> DEFINE own == IF Mismatch(p) THEN WithOwnFailed(n.id) ELSE wait
<1>w. ASSUME wait' = JoinWaits(own, nodes[TxCNs[p]].WaitPTX)
      PROVE  /\ DOMAIN wait \subseteq DOMAIN wait' /\ DOMAIN wait' \subseteq TxIds
             /\ \A x \in DOMAIN wait' : EntryOK(wait'[x], made)
  <2>1. /\ DOMAIN wait \subseteq DOMAIN own /\ DOMAIN own \subseteq TxIds
        /\ \A x \in DOMAIN own : EntryOK(own[x], made)
    <3> DEFINE w == WithOwnFailed(n.id)
    <3>1. DOMAIN w = DOMAIN wait \cup {n.id} /\ \A x \in DOMAIN w : EntryOK(w[x], made)
      BY <1>c, OwnFailedOK, Zenon DEF made
    <3> HIDE DEF w
    <3>2. CASE own = w
      BY <3>1, <3>2, <1>0, <1>c
    <3>3. CASE own = wait
      BY <3>3, <1>0
    <3> QED
      BY <3>2, <3>3 DEF w
  <2> HIDE DEF own
  <2> QED
    BY <2>1, <1>w, <1>c, JoinWaitsOK, Zenon DEF made
<1>t. ASSUME TxCNs' = IF Mismatch(p) THEN Drop(TxCNs, n.id) ELSE TxCNs
      PROVE  DOMAIN TxCNs' \subseteq DOMAIN TxCNs /\ \A id \in DOMAIN TxCNs' : TxCNs'[id] = TxCNs[id]
  BY <1>t DEF Drop, Restrict
<1>4. CASE ParentWaiting(p)
  <2> DEFINE q == TxCNs[p]
             listed == [nodes EXCEPT ![q] = AddChild(nodes[q], cur)]
             linked == Register(WaitFor(listed[cur], nodes[q].WaitPTX), p)
             n2 == IF Mismatch(p) THEN Fail(linked) ELSE linked
  <2>1. /\ nodes' = [listed EXCEPT ![cur] = n2]
        /\ q \in made
        /\ wait' = JoinWaits(own, nodes[TxCNs[p]].WaitPTX)
        /\ TxCNs' = IF Mismatch(p) THEN Drop(TxCNs, n.id) ELSE TxCNs
        /\ todo' \subseteq todo
    BY <1>4, <1>c, Zenon DEF ParentWaiting, n
  <2>2. /\ DOMAIN listed = made
        /\ \A m \in made : /\ NodeOK(listed[m], made)
                            /\ listed[m].id = nodes[m].id /\ listed[m].PTx = nodes[m].PTx /\ listed[m].WriteSet = nodes[m].WriteSet
    <3>1. /\ NodeOK(AddChild(nodes[q], cur), made) /\ AddChild(nodes[q], cur).id = nodes[q].id
          /\ AddChild(nodes[q], cur).PTx = nodes[q].PTx /\ AddChild(nodes[q], cur).WriteSet = nodes[q].WriteSet
      BY <2>1, <1>0, <1>c, AddChildOK, ZenonT(60)
    <3> HIDE DEF q
    <3> QED
      BY <2>1, <3>1, <1>0, Zenon
  <2>3. nodes[q].WaitPTX \subseteq TxIds
    BY <1>4, <1>c, Zenon DEF ParentWaiting
  <2> HIDE DEF listed, q
  <2>4. NodeOK(linked, made) /\ linked.id = listed[cur].id /\ linked.PTx = listed[cur].PTx /\ linked.WriteSet = listed[cur].WriteSet
    <3>1. NodeOK(listed[cur], made)
      BY <2>2, <1>c
    <3> DEFINE ws == nodes[q].WaitPTX
    <3>2. ws \subseteq TxIds /\ p \in TxIds
      BY <2>3, <1>c
    <3> HIDE DEF ws
    <3>3. LET l == Register(WaitFor(listed[cur], ws), p)
          IN  NodeOK(l, made) /\ l.id = listed[cur].id /\ l.PTx = listed[cur].PTx /\ l.WriteSet = listed[cur].WriteSet
      BY <3>1, <3>2, LinkOK
    <3> QED
      BY <3>3, Zenon DEF ws
  <2> HIDE DEF linked
  <2>5. NodeOK(n2, made) /\ n2.id = listed[cur].id /\ n2.PTx = listed[cur].PTx /\ n2.WriteSet = listed[cur].WriteSet
    BY <2>4, FailOK
  <2> HIDE DEF n2
  <2> QED
    BY <2>1, <2>2, <2>5, <1>0, <1>c, <1>w, <1>t, LinkFrame, Zenon DEF made
<1>5. CASE ParentFailed(p)
  <2> DEFINE n2 == Fail(WaitFor(n, nodes[TxCNs[p]].WaitPTX))
  <2>1. NodeOK(n2, made) /\ n2.id = n.id /\ n2.PTx = n.PTx /\ n2.WriteSet = n.WriteSet
    <3> DEFINE ws == nodes[TxCNs[p]].WaitPTX
    <3>1. ws \subseteq TxIds /\ NodeOK(n, made)
      BY <1>5, <1>c DEF ParentFailed
    <3> HIDE DEF ws
    <3>2. NodeOK(WaitFor(n, ws), made) /\ WaitFor(n, ws).id = n.id /\ WaitFor(n, ws).PTx = n.PTx /\ WaitFor(n, ws).WriteSet = n.WriteSet
      BY <3>1 DEF WaitFor, NodeOK, NodeFields
    <3> QED
      BY <3>2, FailOK DEF ws
  <2>2. /\ nodes' = [nodes EXCEPT ![cur] = n2]
        /\ wait' = JoinWaits(own, nodes[TxCNs[p]].WaitPTX)
        /\ TxCNs' = IF Mismatch(p) THEN Drop(TxCNs, n.id) ELSE TxCNs
        /\ todo' \subseteq todo
    BY <1>5 DEF ParentFailed, n
  <2> HIDE DEF n2
  <2> QED
    BY <2>1, <2>2, <1>0, <1>c, <1>w, <1>t, LinkFrame, Zenon DEF n, made
<1> QED
  BY <1>1, <1>2, <1>3, <1>4, <1>5

LEMMA AdoptedOK ==
    ASSUME TypeOK, pc = "parents"
    PROVE  /\ DOMAIN Adopted = 1..cur
           /\ \A m \in 1..cur : /\ NodeOK(Adopted[m], 1..cur)
                                 /\ Adopted[m].id = nodes[m].id
                                 /\ Adopted[m].PTx = nodes[m].PTx
                                 /\ Adopted[m].WriteSet = nodes[m].WriteSet
                                 /\ Adopted[m].WaitPTX = nodes[m].WaitPTX
                                 /\ Adopted[m].State = nodes[m].State
<1>1. CASE ~hadWait
  BY <1>1 DEF Adopted, TypeOK
<1>2. CASE hadWait
  <2>1. /\ cur \in 1..cur /\ DOMAIN nodes = 1..cur
        /\ wait[nodes[cur].id].NChildNodes \in Seq(1..cur)
        /\ \A m \in 1..cur : NodeOK(nodes[m], 1..cur)
    BY <1>2 DEF TypeOK, EntryOK
  <2> QED
    BY <1>2, <2>1 DEF Adopted, NodeOK, NodeFields
<1> QED
  BY <1>1, <1>2 DEF TypeOK

LEMMA AdoptChildrenTypeOK == TypeOK /\ AdoptChildren => TypeOK' /\ Fixed
<1> SUFFICES ASSUME TypeOK, AdoptChildren PROVE TypeOK' /\ Fixed
  OBVIOUS
<1>0. pc = "parents" /\ todo = {} /\ cur \in 1..cur /\ cur' = cur
  BY DEF AdoptChildren, TypeOK
<1>1. /\ DOMAIN nodes' = 1..cur
      /\ \A m \in 1..cur : /\ NodeOK(nodes'[m], 1..cur)
                            /\ nodes'[m].id = nodes[m].id
                            /\ nodes'[m].PTx = nodes[m].PTx /\ nodes'[m].WriteSet = nodes[m].WriteSet
  <2>1. \A m \in 1..cur : nodes'[m] \in {Adopted[m], WaitNoMore(Adopted[m], nodes[cur].id)}
    BY <1>0, AdoptedOK DEF AdoptChildren, TypeOK
  <2>2. DOMAIN nodes' = 1..cur
    BY <1>0, AdoptedOK DEF AdoptChildren, TypeOK
  <2> QED
    BY <2>1, <2>2, <1>0, AdoptedOK, WaitNoMoreOK
<1>2. /\ DOMAIN wait' \subseteq TxIds
      /\ \A x \in DOMAIN wait' : EntryOK(wait'[x], 1..cur)
  <2>1. CASE ~hadWait
    BY <2>1 DEF AdoptChildren, TypeOK
  <2>2. CASE hadWait /\ nodes[cur].State # Failed
    BY <2>2 DEF AdoptChildren, TypeOK, Drop, Restrict
  <2>3. CASE hadWait /\ nodes[cur].State = Failed
    <3>1. wait' = [wait EXCEPT ![nodes[cur].id].ChoosedNode = cur]
      BY <2>3 DEF AdoptChildren
    <3> QED
      BY <3>1, <1>0 DEF TypeOK, EntryOK, EntryFields
  <2> QED
    BY <2>1, <2>2, <2>3
<1>3. \A id \in DOMAIN TxCNs' : TxCNs'[id] \in 1..cur' /\ nodes'[TxCNs'[id]].id = id
  <2>1. TxCNs' = TxCNs /\ \A id \in DOMAIN TxCNs : TxCNs[id] \in 1..cur /\ nodes[TxCNs[id]].id = id
    BY DEF AdoptChildren, TypeOK
  <2> QED
    BY <2>1, <1>0, <1>1
<1>4. Fixed
  BY <1>1 DEF Fixed
<1> QED
  BY <1>0, <1>1, <1>2, <1>3, <1>4, Zenon DEF AdoptChildren, TypeOK

\* Marking a node keeps it well formed.
LEMMA SetStateOK ==
    ASSUME NEW n, NEW made, NEW st \in {Committed, Waiting, Failed}, NodeOK(n, made)
    PROVE  LET r == [n EXCEPT !.State = st]
           IN  /\ NodeOK(r, made)
               /\ r.id = n.id
               /\ r.PTx = n.PTx
               /\ r.WriteSet = n.WriteSet
               /\ r.WaitPTX = n.WaitPTX
               /\ r.State = st
BY DEF NodeOK, NodeFields

\* nodes may differ from ns at m only, where it is v
Only(ns, m, v) == /\ DOMAIN ns = 1..cur
                  /\ ns[m] = v
                  /\ \A i \in 1..cur : i # m => ns[i] = nodes[i]

\* a node that v may replace: nothing that other nodes rely on has changed
Same(v, n) == /\ v.id = n.id /\ v.PTx = n.PTx
              /\ v.WriteSet = n.WriteSet /\ v.WaitPTX = n.WaitPTX

\* no node changes what other nodes rely on
Unmoved == \A i \in 1..cur : Same(nodes'[i], nodes[i])

\* Finish and Delete change nodes one at a time, and leave their ids and parents.
LEMMA MarkFrame ==
    ASSUME TypeOK, UNCHANGED <<inbox, cur, TxCNs, wait, batches, todo, hadWait>>,
           pc' \in {"delete", "cut"},
           NEW m \in 1..cur, NEW v, Only(nodes', m, v), NodeOK(v, 1..cur), Same(v, nodes[m]),
           DOMAIN GState' = Keys, ReadyBatch' \in Seq(1..cur), stack' \in Seq(Frame(1..cur))
    PROVE  TypeOK' /\ Unmoved
<1>1. /\ DOMAIN nodes' = 1..cur'
      /\ \A i \in 1..cur : NodeOK(nodes'[i], 1..cur) /\ nodes'[i].id = nodes[i].id
  BY Zenon DEF TypeOK, Only, Same
<1>2. \A id \in DOMAIN TxCNs' : TxCNs'[id] \in 1..cur' /\ nodes'[TxCNs'[id]].id = id
  BY <1>1, Zenon DEF TypeOK
<1>3. Unmoved
  BY DEF Unmoved, Only, Same
<1> QED
  BY <1>1, <1>2, <1>3, Zenon DEF TypeOK

\* The stack of Delete.
LEMMA StackOK ==
    ASSUME TypeOK, pc = "delete", stack # <<>>
    PROVE  /\ Top \in Frame(1..cur)
           /\ Rest \in Seq(Frame(1..cur))
           /\ Top.next <= Len(Children(Top.node)) => Children(Top.node)[Top.next] \in 1..cur
           /\ Children(Top.node) \in Seq(1..cur)
           /\ SubSeq(stack, 1, Len(stack) - 1) \in Seq(Frame(1..cur))
<1>0. ASSUME NEW S, NEW s \in Seq(S), NEW i \in Nat \ {0}
      PROVE  i <= Len(s) => s[i] \in S
  OBVIOUS
<1>1. stack \in Seq(Frame(1..cur)) /\ Len(stack) \in 1..Len(stack)
  BY DEF TypeOK
<1>2. Top \in Frame(1..cur)
  BY <1>1 DEF Top
<1>3. Rest \in Seq(Frame(1..cur))
  <2>1. [stack[Len(stack)] EXCEPT !.next = stack[Len(stack)].next + 1] \in Frame(1..cur)
    BY <1>2 DEF Frame, Top
  <2> QED
    BY <1>1, <2>1 DEF Rest
<1>4. Children(Top.node) \in Seq(1..cur)
  BY <1>2, Zenon DEF Frame, Children, TypeOK, NodeOK
<1>5. Top.next <= Len(Children(Top.node)) => Children(Top.node)[Top.next] \in 1..cur
  <2>1. Top.next \in Nat \ {0}
    BY <1>2 DEF Frame
  <2> QED
    BY <2>1, <1>4, <1>0, Zenon
<1>6. SubSeq(stack, 1, Len(stack) - 1) \in Seq(Frame(1..cur))
  BY <1>1
<1> QED
  BY <1>2, <1>3, <1>4, <1>5, <1>6

\* the stream grows by at most one node, whose writes go to GState
Grown == /\ batches' = batches
         /\ \/ UNCHANGED <<GState, ReadyBatch>>
            \/ \E m \in 1..cur : /\ ReadyBatch' = Append(ReadyBatch, m)
                                 /\ GState' = Written(nodes[m].WriteSet)

\* The steps that release a node: the append, the mark and the write are well typed.
LEMMA ReleaseOK ==
    ASSUME TypeOK, NEW m \in 1..cur, NEW v, NEW ns, Only(ns, m, v), NodeOK(v, 1..cur),
           Same(v, nodes[m]), Release(m, ns)
    PROVE  /\ DOMAIN GState' = Keys
           /\ ReadyBatch' \in Seq(1..cur)
           /\ batches' = batches => Grown
           /\ LET w == [v EXCEPT !.State = Committed]
              IN  Only(nodes', m, w) /\ NodeOK(w, 1..cur) /\ Same(w, nodes[m])
<1>1. Only(nodes', m, [v EXCEPT !.State = Committed])
  BY DEF Release, Only
<1>2. GState' = Written(nodes[m].WriteSet)
  BY DEF Release, Only, Same
<1>3. DOMAIN GState' = Keys
  BY <1>2 DEF Written
<1>4. ReadyBatch' \in Seq(1..cur)
  BY DEF Release, TypeOK
<1>5. NodeOK([v EXCEPT !.State = Committed], 1..cur) /\ Same([v EXCEPT !.State = Committed], nodes[m])
  BY SetStateOK, Zenon DEF Same
<1>6. batches' = batches => Grown
  BY <1>2 DEF Release, Grown
<1> QED
  BY <1>1, <1>3, <1>4, <1>5, <1>6

LEMMA FinishTypeOK == TypeOK /\ Finish => TypeOK' /\ Unmoved /\ Grown
<1> SUFFICES ASSUME TypeOK, Finish PROVE TypeOK' /\ Unmoved /\ Grown
  OBVIOUS
<1>0. /\ cur \in 1..cur /\ NodeOK(nodes[cur], 1..cur)
      /\ Only(nodes, cur, nodes[cur]) /\ Same(nodes[cur], nodes[cur])
  BY DEF Finish, TypeOK, Only, Same
<1>1. /\ UNCHANGED <<inbox, cur, TxCNs, wait, batches, todo, hadWait>>
      /\ pc' \in {"delete", "cut"}
  BY DEF Finish
<1>2. /\ <<Call(cur, Committed)>> \in Seq(Frame(1..cur))
      /\ <<Call(cur, Failed)>> \in Seq(Frame(1..cur))
  BY <1>0 DEF Call, Frame
<1>3. CASE Release(cur, nodes) /\ stack' = <<Call(cur, Committed)>>
  <2>1. stack' \in Seq(Frame(1..cur))
    BY <1>2, <1>3
  <2> QED
    BY <1>0, <1>1, <1>3, <2>1, ReleaseOK, MarkFrame, Zenon
<1>4. CASE UNCHANGED <<nodes, GState, ReadyBatch>> /\ stack' \in {stack, <<Call(cur, Failed)>>}
  <2>1. stack' \in Seq(Frame(1..cur)) /\ DOMAIN GState' = Keys /\ ReadyBatch' \in Seq(1..cur)
    BY <1>2, <1>4, Zenon DEF TypeOK
  <2>2. Only(nodes', cur, nodes[cur])
    BY <1>0, <1>4 DEF Only
  <2> QED
    BY <1>0, <1>1, <1>4, <2>1, <2>2, MarkFrame DEF Grown
<1> QED
  BY <1>3, <1>4 DEF Finish

LEMMA FailChildTypeOK == TypeOK /\ FailChild => TypeOK' /\ Unmoved /\ Grown
<1> SUFFICES ASSUME TypeOK, FailChild PROVE TypeOK' /\ Unmoved /\ Grown
  OBVIOUS
<1> DEFINE c == Children(Top.node)[Top.next]
<1>1. c \in 1..cur /\ Rest \in Seq(Frame(1..cur))
  BY StackOK DEF FailChild
<1>2. \/ nodes' = [nodes EXCEPT ![c] = Fail(@)] /\ stack' = Append(Rest, Call(c, Failed))
      \/ nodes' = nodes /\ stack' = Rest
  BY DEF FailChild
<1>3. /\ UNCHANGED <<inbox, cur, TxCNs, wait, GState, ReadyBatch, batches, todo, hadWait>>
      /\ pc' \in {"delete", "cut"}
  BY DEF FailChild
<1> HIDE DEF c
<1>4. DOMAIN nodes = 1..cur /\ NodeOK(nodes[c], 1..cur)
  BY <1>1 DEF TypeOK
<1>5. DOMAIN GState' = Keys /\ ReadyBatch' \in Seq(1..cur)
  BY <1>3 DEF TypeOK
<1>6. stack' \in Seq(Frame(1..cur))
  <2>1. Call(c, Failed) \in Frame(1..cur)
    BY <1>1 DEF Call, Frame
  <2> QED
    BY <1>1, <1>2, <2>1
<1>7. CASE nodes' = [nodes EXCEPT ![c] = Fail(@)]
  <2>1. Only(nodes', c, Fail(nodes[c]))
    BY <1>1, <1>4, <1>7 DEF Only
  <2>2. NodeOK(Fail(nodes[c]), 1..cur) /\ Same(Fail(nodes[c]), nodes[c])
    BY <1>4, FailOK DEF Same
  <2> QED
    BY <1>1, <1>3, <1>5, <1>6, <2>1, <2>2, MarkFrame DEF Grown
<1>8. CASE nodes' = nodes
  <2>1. Only(nodes', c, nodes[c]) /\ Same(nodes[c], nodes[c])
    BY <1>1, <1>4, <1>8 DEF Only, Same
  <2> QED
    BY <1>1, <1>3, <1>4, <1>5, <1>6, <2>1, MarkFrame DEF Grown
<1> QED
  BY <1>2, <1>7, <1>8

LEMMA ReleaseChildTypeOK == TypeOK /\ ReleaseChild => TypeOK' /\ Unmoved /\ Grown
<1> SUFFICES ASSUME TypeOK, ReleaseChild PROVE TypeOK' /\ Unmoved /\ Grown
  OBVIOUS
<1> DEFINE c == Children(Top.node)[Top.next]
           v == Unregister(nodes[c], nodes[Top.node].id)
           ns == [nodes EXCEPT ![c] = v]
<1>1. c \in 1..cur /\ Rest \in Seq(Frame(1..cur))
  BY StackOK DEF ReleaseChild
<1>2. \/ Release(c, ns) /\ stack' = Append(Rest, Call(c, Committed))
      \/ nodes' = ns /\ stack' = Rest /\ UNCHANGED <<GState, ReadyBatch>>
  BY Zenon DEF ReleaseChild
<1>3. /\ UNCHANGED <<inbox, cur, TxCNs, wait, batches, todo, hadWait>>
      /\ pc' \in {"delete", "cut"}
  BY Zenon DEF ReleaseChild
<1> HIDE DEF c
<1>4. DOMAIN nodes = 1..cur /\ NodeOK(nodes[c], 1..cur)
  BY <1>1 DEF TypeOK
<1>5. NodeOK(v, 1..cur) /\ Same(v, nodes[c])
  BY <1>4, UnregisterOK DEF Same
<1> HIDE DEF v
<1>6. Only(ns, c, v)
  BY <1>1, <1>4 DEF Only
<1>7. stack' \in Seq(Frame(1..cur))
  <2>1. Call(c, Committed) \in Frame(1..cur)
    BY <1>1 DEF Call, Frame
  <2> QED
    BY <1>1, <1>2, <2>1, SMTT(40)
<1> HIDE DEF ns
<1>8. CASE Release(c, ns)
  BY <1>1, <1>3, <1>5, <1>6, <1>7, <1>8, ReleaseOK, MarkFrame, Zenon
<1>9. CASE nodes' = ns /\ UNCHANGED <<GState, ReadyBatch>>
  <2>1. Only(nodes', c, v) /\ DOMAIN GState' = Keys /\ ReadyBatch' \in Seq(1..cur)
    BY <1>6, <1>9 DEF TypeOK
  <2> QED
    BY <1>1, <1>3, <1>5, <1>7, <1>9, <2>1, MarkFrame DEF Grown
<1> QED
  BY <1>2, <1>8, <1>9

LEMMA OtherTypeOK ==
    TypeOK /\ (Return \/ CutOnSize \/ CutOnTimer \/ Blocked \/ UNCHANGED vars) => TypeOK'
<1> SUFFICES ASSUME TypeOK PROVE Return \/ CutOnSize \/ CutOnTimer \/ Blocked \/ UNCHANGED vars
                                 => TypeOK'
  OBVIOUS
<1>1. ASSUME Return PROVE TypeOK'
  <2>1. stack' \in Seq(Frame(1..cur))
    BY <1>1, StackOK DEF Return
  <2>2. /\ UNCHANGED <<inbox, cur, nodes, TxCNs, wait, GState, ReadyBatch, batches, todo, hadWait>>
        /\ pc' \in {"cut", "delete"}
    BY <1>1 DEF Return, graph
  <2> QED
    BY <2>1, <2>2 DEF TypeOK
<1>2. ASSUME UNCHANGED <<inbox, cur, nodes, TxCNs, wait, GState, todo, hadWait, stack>>,
             pc' = "recv", Cut \/ UNCHANGED <<ReadyBatch, batches>>
      PROVE  TypeOK'
  <2>1. ReadyBatch' \in Seq(1..cur) /\ batches' \in Seq(Seq(1..cur))
    <3>1. ReadyBatch \in Seq(1..cur) /\ batches \in Seq(Seq(1..cur))
      BY DEF TypeOK
    <3>2. Append(batches, ReadyBatch) \in Seq(Seq(1..cur)) /\ <<>> \in Seq(1..cur)
      BY <3>1
    <3> QED
      BY <1>2, <3>1, <3>2, Zenon DEF Cut
  <2> QED
    BY <1>2, <2>1 DEF TypeOK
<1>3. ASSUME CutOnSize \/ CutOnTimer PROVE TypeOK'
  BY <1>2, <1>3 DEF CutOnSize, CutOnTimer, graph
<1>4. ASSUME UNCHANGED vars PROVE TypeOK'
  BY <1>4 DEF TypeOK, vars, graph
<1> QED
  BY <1>1, <1>3, <1>4 DEF Blocked

LEMMA TypeStep == TypeOK /\ [Next]_vars => TypeOK' /\ Fixed
<1> SUFFICES ASSUME TypeOK, [Next]_vars PROVE TypeOK' /\ Fixed
  OBVIOUS
<1>1. CASE Receive \/ LinkParent \/ AdoptChildren
  BY <1>1, ReceiveTypeOK, LinkParentTypeOK, AdoptChildrenTypeOK
<1>2. CASE Finish \/ FailChild \/ ReleaseChild
  <2>1. TypeOK' /\ Unmoved
    BY <1>2, FinishTypeOK, FailChildTypeOK, ReleaseChildTypeOK
  <2> QED
    BY <2>1 DEF Unmoved, Same, Fixed
<1>3. CASE Return \/ CutOnSize \/ CutOnTimer \/ Blocked \/ UNCHANGED vars
  <2>1. nodes' = nodes
    BY <1>3 DEF Return, CutOnSize, CutOnTimer, Blocked, vars, graph
  <2> QED
    BY <1>3, <2>1, OtherTypeOK DEF Fixed
<1> QED
  BY <1>1, <1>2, <1>3 DEF Next

\* Type correctness: no reference between the maps, the lists and the batches of the
\* graph ever dangles.
THEOREM TypeCorrect == Spec => []TypeOK
BY InitTypeOK, TypeStep, PTL DEF Spec

---------------------------------------------------------------------------
(* No node of the graph waits for an entry that is gone, or that does not  *)
(* know of it: the unchecked lookups of ProcessTX at lines 477 and 485 are *)
(* safe, for every workload, resubmitted transactions included.            *)

\* While the loop over PTx runs, the id of the current node is filed for no other node.
CurFiled ==
    pc = "parents" /\ todo # {} =>
        \A id \in DOMAIN TxCNs : nodes[TxCNs[id]].id = nodes[cur].id => TxCNs[id] = cur

WaitInv == TypeOK /\ NoDanglingWait /\ CurFiled

LEMMA InitWaitInv == Init => WaitInv
<1> SUFFICES ASSUME Init PROVE WaitInv
  OBVIOUS
<1>1. TypeOK /\ DOMAIN TxCNs = {} /\ pc = "recv"
  BY InitTypeOK DEF Init, NoMap
<1> QED
  BY <1>1 DEF WaitInv, NoDanglingWait, CurFiled

LEMMA ReceiveWait == WaitInv /\ Receive => NoDanglingWait' /\ CurFiled'
<1> SUFFICES ASSUME WaitInv, Receive PROVE NoDanglingWait' /\ CurFiled'
  OBVIOUS
<1>1. PICK env \in inbox : Enter(env) \/ Reject(env)
  BY DEF Receive
<1>2. cur \in Nat /\ cur' = cur + 1 /\ DOMAIN nodes = 1..cur /\ EnvelopeOK(env)
  BY Zenon DEF WaitInv, TypeOK, Receive
<1>3. \A id \in DOMAIN TxCNs : TxCNs[id] \in 1..cur /\ nodes[TxCNs[id]].id = id
  BY DEF WaitInv, TypeOK
<1>4. NoDanglingWait
  BY DEF WaitInv
<1>5. CASE Enter(env)
  <2>1. NewNode(env).WaitPTX = {} /\ NewNode(env).id = env.id
    BY <1>2, NewNodeOK, Zenon
  <2>2. /\ nodes'[cur + 1] = NewNode(env)
        /\ \A m \in 1..cur : nodes'[m] = nodes[m]
    BY <1>2, <1>5 DEF Enter, Put
  <2>3. /\ DOMAIN TxCNs' = DOMAIN TxCNs \cup {env.id}
        /\ TxCNs'[env.id] = cur + 1
        /\ \A id \in DOMAIN TxCNs \ {env.id} : TxCNs'[id] = TxCNs[id]
    BY <1>5 DEF Enter, File, Put
  <2>4. wait' = wait
    BY <1>5 DEF Enter
  <2>5. NoDanglingWait'
    BY <2>1, <2>2, <2>3, <2>4, <1>3, <1>4, SMTT(40) DEF NoDanglingWait
  <2>6. CurFiled'
    BY <2>1, <2>2, <2>3, <1>2, <1>3 DEF CurFiled
  <2> QED
    BY <2>5, <2>6
<1>6. CASE Reject(env)
  <2>1. \A m \in 1..cur : nodes'[m] = nodes[m]
    BY <1>2, <1>6 DEF Reject, Put
  <2>2. /\ DOMAIN wait' = DOMAIN wait
        /\ \A x \in DOMAIN wait : wait'[x].ChildWait = wait[x].ChildWait
    BY <1>6 DEF Reject, WaitInv, TypeOK, EntryOK, EntryFields
  <2>3. TxCNs' = TxCNs /\ todo' = {}
    BY <1>6 DEF Reject
  <2> QED
    BY <2>1, <2>2, <2>3, <1>3, <1>4, SMTT(40) DEF NoDanglingWait, CurFiled
<1> QED
  BY <1>1, <1>5, <1>6

\* One iteration of the loop over PTx, seen from the waits: only the current node may
\* wait for more, the entries it waits for list it, and no entry forgets a node.
LEMMA LinkWait ==
    ASSUME WaitInv, pc = "parents", todo # {}, cur' = cur, NEW more,
           DOMAIN TxCNs' \subseteq DOMAIN TxCNs,
           \A id \in DOMAIN TxCNs' : TxCNs'[id] = TxCNs[id],
           \A m \in 1..cur : /\ nodes'[m].id = nodes[m].id
                             /\ m # cur => nodes'[m].WaitPTX = nodes[m].WaitPTX,
           nodes'[cur].WaitPTX = nodes[cur].WaitPTX \cup more,
           more \subseteq DOMAIN wait',
           DOMAIN wait \subseteq DOMAIN wait',
           \A x \in DOMAIN wait : wait'[x].ChildWait
              \in {wait[x].ChildWait, Put(wait[x].ChildWait, nodes[cur].id, cur)},
           \A x \in more : /\ nodes[cur].id \in DOMAIN wait'[x].ChildWait
                           /\ wait'[x].ChildWait[nodes[cur].id] = cur
    PROVE  NoDanglingWait' /\ CurFiled'
<1>0. \A id \in DOMAIN TxCNs : /\ TxCNs[id] \in 1..cur
                               /\ nodes[TxCNs[id]].id = id
                               /\ id = nodes[cur].id => TxCNs[id] = cur
  BY Zenon DEF WaitInv, TypeOK, CurFiled
<1>c. cur \in 1..cur
  BY DEF WaitInv, TypeOK
<1>1. \A id \in DOMAIN TxCNs' : /\ TxCNs'[id] \in 1..cur
                                /\ TxCNs'[id] = cur <=> id = nodes[cur].id
                                /\ nodes'[TxCNs'[id]].id = id
  BY <1>0
<1>2. CurFiled'
  BY <1>1, <1>c DEF CurFiled
<1>3. ASSUME NEW id \in DOMAIN TxCNs', NEW x \in nodes'[TxCNs'[id]].WaitPTX
      PROVE  /\ x \in DOMAIN wait'
             /\ id \in DOMAIN wait'[x].ChildWait
             /\ wait'[x].ChildWait[id] = TxCNs'[id]
  <2>1. CASE x \in nodes[TxCNs[id]].WaitPTX
    <3>1. /\ x \in DOMAIN wait
          /\ id \in DOMAIN wait[x].ChildWait
          /\ wait[x].ChildWait[id] = TxCNs[id]
      BY <2>1 DEF WaitInv, NoDanglingWait
    <3>2. CASE wait'[x].ChildWait = wait[x].ChildWait
      BY <3>1, <3>2
    <3>3. CASE wait'[x].ChildWait = Put(wait[x].ChildWait, nodes[cur].id, cur)
      <4>1. id = nodes[cur].id => TxCNs[id] = cur
        BY <1>0
      <4> QED
        BY <3>1, <3>3, <4>1 DEF Put
    <3> QED
      BY <3>1, <3>2, <3>3
  <2>2. CASE TxCNs[id] = cur /\ x \in more
    BY <2>2, <1>1
  <2> QED
    BY <2>1, <2>2, <1>1
<1>4. NoDanglingWait'
  BY <1>3 DEF NoDanglingWait
<1> QED
  BY <1>2, <1>4

\* JoinWaits lists the current node in the entries of waits and forgets nobody.
LEMMA JoinWaitsChildren ==
    ASSUME TypeOK, NEW w, NEW waits, DOMAIN wait \subseteq DOMAIN w,
           \A x \in DOMAIN wait : w[x] = wait[x], waits \subseteq DOMAIN wait
    PROVE  LET j == JoinWaits(w, waits)
           IN  /\ DOMAIN j = DOMAIN w
               /\ \A x \in DOMAIN wait : j[x].ChildWait
                    \in {wait[x].ChildWait, Put(wait[x].ChildWait, nodes[cur].id, cur)}
               /\ \A x \in waits : j[x].ChildWait = Put(wait[x].ChildWait, nodes[cur].id, cur)
<1>1. \A x \in DOMAIN wait : ListWaiter(wait[x]).ChildWait = Put(wait[x].ChildWait, nodes[cur].id, cur)
  BY DEF TypeOK, EntryOK, EntryFields, ListWaiter
<1> QED
  BY <1>1 DEF JoinWaits

LEMMA PutSame == ASSUME NEW m, NEW k, NEW v
                 PROVE  k \in DOMAIN Put(m, k, v) /\ Put(m, k, v)[k] = v
BY DEF Put

LEMMA LinkParentWait == WaitInv /\ LinkParent => NoDanglingWait' /\ CurFiled'
<1> SUFFICES ASSUME WaitInv, pc = "parents", NEW p \in todo,
                    \/ ParentAbsent(p)
                    \/ ParentRejected(p)
                    \/ ParentCommitted(p)
                    \/ ParentWaiting(p)
                    \/ ParentFailed(p),
                    UNCHANGED <<inbox, cur, GState, ReadyBatch, batches, pc, hadWait, stack>>
             PROVE  NoDanglingWait' /\ CurFiled'
  BY DEF LinkParent
<1> DEFINE n == nodes[cur]
<1>0. /\ TypeOK /\ cur' = cur /\ todo # {}
      /\ DOMAIN nodes = 1..cur /\ \A m \in 1..cur : NodeOK(nodes[m], 1..cur)
      /\ DOMAIN wait \subseteq TxIds /\ \A x \in DOMAIN wait : EntryOK(wait[x], 1..cur)
  BY DEF WaitInv, TypeOK
<1>c. /\ cur \in 1..cur
      /\ NodeOK(n, 1..cur)
      /\ n.id \in TxIds
      /\ p \in TxIds /\ DOMAIN n.PTx[p] \subseteq Keys
      /\ p \in DOMAIN TxCNs => /\ TxCNs[p] \in 1..cur
                               /\ NodeOK(nodes[TxCNs[p]], 1..cur)
                               /\ nodes[TxCNs[p]].WaitPTX \subseteq TxIds
                               /\ nodes[TxCNs[p]].WaitPTX \subseteq DOMAIN wait
  <2>1. p \in DOMAIN TxCNs => nodes[TxCNs[p]].WaitPTX \subseteq DOMAIN wait
    BY DEF WaitInv, NoDanglingWait
  <2> QED
    BY <1>0, <2>1, CurrentOK, Zenon
<1> HIDE DEF n
<1>1. CASE ParentAbsent(p)
  <2> DEFINE entry == IF p \in DOMAIN wait THEN wait[p] ELSE WaitEntry(FALSE, 0)
             e2 == Expect(AddChild(ListWaiter(entry), cur), n.PTx[p])
             n2 == Register(WaitFor(n, {p}), p)
  <2>1. EntryOK(entry, 1..cur) /\ (p \in DOMAIN wait => entry = wait[p])
    BY <1>0, WaitEntryOK, Zenon
  <2>4. wait' = Put(wait, p, e2) /\ nodes' = [nodes EXCEPT ![cur] = n2] /\ TxCNs' = TxCNs
    BY <1>1, Zenon DEF ParentAbsent, n
  <2> HIDE DEF entry
  <2>2. e2.ChildWait = Put(entry.ChildWait, n.id, cur)
    <3> DEFINE l == ListWaiter(entry)
    <3>1. EntryOK(l, 1..cur) /\ l.ChildWait = Put(entry.ChildWait, n.id, cur)
      BY <2>1, <1>c, ListWaiterOK, Zenon DEF n
    <3> HIDE DEF l
    <3> DEFINE a == AddChild(l, cur)
    <3>2. EntryOK(a, 1..cur) /\ a.ChildWait = l.ChildWait
      BY <3>1, <1>c, AddChildEntryOK, Zenon
    <3> HIDE DEF a
    <3>3. Expect(a, n.PTx[p]).ChildWait = a.ChildWait
      BY <3>2, <1>c, ExpectOK, Zenon
    <3> QED
      BY <3>1, <3>2, <3>3, Zenon DEF l, a
  <2>3. n2.id = n.id /\ n2.WaitPTX = n.WaitPTX \cup {p}
    <3>1. {p} \subseteq TxIds
      BY <1>c, Zenon
    <3> QED BY <3>1, <1>c, LinkOK, SMTT(40)
  <2> HIDE DEF e2, n2
  <2>5. /\ DOMAIN wait' = DOMAIN wait \cup {p} /\ wait'[p] = e2
        /\ \A x \in DOMAIN wait : x # p => wait'[x] = wait[x]
    BY <2>4 DEF Put
  <2>6. \A m \in 1..cur : nodes'[m] = IF m = cur THEN n2 ELSE nodes[m]
    BY <2>4, <1>0
  <2>7. \A x \in DOMAIN wait : wait'[x].ChildWait
           \in {wait[x].ChildWait, Put(wait[x].ChildWait, nodes[cur].id, cur)}
    BY <2>1, <2>2, <2>5 DEF n
  <2>8. n.id \in DOMAIN wait'[p].ChildWait /\ wait'[p].ChildWait[n.id] = cur
    BY <2>2, <2>5, PutSame
  <2> DEFINE more == {p}
  <2>9. /\ nodes'[cur].WaitPTX = nodes[cur].WaitPTX \cup more
        /\ more \subseteq DOMAIN wait' /\ DOMAIN wait \subseteq DOMAIN wait'
        /\ \A x \in more : /\ nodes[cur].id \in DOMAIN wait'[x].ChildWait
                           /\ wait'[x].ChildWait[nodes[cur].id] = cur
        /\ \A m \in 1..cur : /\ nodes'[m].id = nodes[m].id
                             /\ m # cur => nodes'[m].WaitPTX = nodes[m].WaitPTX
    BY <2>3, <2>5, <2>6, <2>8, <1>c DEF n
  <2> HIDE DEF more
  <2> QED
    BY <2>4, <2>7, <2>9, <1>0, LinkWait, Zenon
<1>2. CASE ParentRejected(p)
  <2> DEFINE n2 == Fail(WaitFor(n, {p}))
  <2>1. n2.id = n.id /\ n2.WaitPTX = n.WaitPTX \cup {p}
    <3>1. {p} \subseteq TxIds
      BY <1>c, Zenon
    <3>2. /\ NodeOK(WaitFor(n, {p}), 1..cur) /\ WaitFor(n, {p}).id = n.id
          /\ WaitFor(n, {p}).WaitPTX = n.WaitPTX \cup {p}
      <4>1. NodeOK(n, 1..cur)
        BY <1>c, Zenon
      <4> QED
        BY <3>1, <4>1 DEF WaitFor, NodeOK, NodeFields
    <3> QED
      BY <3>2, FailOK, Zenon
  <2>2. ListWaiter(wait[p]).ChildWait = Put(wait[p].ChildWait, n.id, cur)
    BY <1>0, <1>2, <1>c, ListWaiterOK, Zenon DEF ParentRejected, n
  <2>3. /\ wait' = [wait EXCEPT ![p] = ListWaiter(wait[p])] /\ nodes' = [nodes EXCEPT ![cur] = n2]
        /\ TxCNs' = TxCNs /\ p \in DOMAIN wait
    BY <1>2 DEF ParentRejected, n
  <2> HIDE DEF n2
  <2>4. /\ DOMAIN wait' = DOMAIN wait
        /\ \A x \in DOMAIN wait : wait'[x].ChildWait
             \in {wait[x].ChildWait, Put(wait[x].ChildWait, nodes[cur].id, cur)}
    BY <2>2, <2>3 DEF n
  <2>5. \A m \in 1..cur : nodes'[m] = IF m = cur THEN n2 ELSE nodes[m]
    BY <2>3, <1>0
  <2>6. n.id \in DOMAIN wait'[p].ChildWait /\ wait'[p].ChildWait[n.id] = cur
    BY <2>2, <2>3, PutSame
  <2> DEFINE more == {p}
  <2>7. /\ nodes'[cur].WaitPTX = nodes[cur].WaitPTX \cup more
        /\ more \subseteq DOMAIN wait' /\ DOMAIN wait \subseteq DOMAIN wait'
        /\ \A x \in more : /\ nodes[cur].id \in DOMAIN wait'[x].ChildWait
                           /\ wait'[x].ChildWait[nodes[cur].id] = cur
        /\ \A m \in 1..cur : /\ nodes'[m].id = nodes[m].id
                             /\ m # cur => nodes'[m].WaitPTX = nodes[m].WaitPTX
    BY <2>1, <2>3, <2>4, <2>5, <2>6, <1>c DEF n
  <2> HIDE DEF more
  <2> QED
    BY <2>3, <2>4, <2>7, <1>0, LinkWait
<1>t. ASSUME TxCNs' \in {TxCNs, Drop(TxCNs, n.id)}
      PROVE  DOMAIN TxCNs' \subseteq DOMAIN TxCNs /\ \A id \in DOMAIN TxCNs' : TxCNs'[id] = TxCNs[id]
  BY <1>t DEF Drop, Restrict
<1>3. CASE ParentCommitted(p)
  <2>1. Fail(n).id = n.id /\ Fail(n).WaitPTX = n.WaitPTX
    BY <1>c, FailOK, Zenon
  <2>2. /\ TxCNs' \in {TxCNs, Drop(TxCNs, n.id)}
        /\ wait' \in {wait, WithOwnFailed(n.id)}
        /\ nodes' = nodes \/ nodes' = [nodes EXCEPT ![cur] = Fail(n)]
    BY <1>3, Zenon DEF ParentCommitted, n
  <2>3. DOMAIN wait \subseteq DOMAIN wait' /\ \A x \in DOMAIN wait : wait'[x] = wait[x]
    BY <2>2, <1>0, <1>c, OwnFailedOK, Zenon
  <2>4. \A m \in 1..cur : nodes'[m].id = nodes[m].id /\ nodes'[m].WaitPTX = nodes[m].WaitPTX
    BY <2>1, <2>2, <1>0, <1>c, Zenon DEF n
  <2>5. /\ DOMAIN TxCNs' \subseteq DOMAIN TxCNs
        /\ \A id \in DOMAIN TxCNs' : TxCNs'[id] = TxCNs[id]
    BY <2>2, <1>t
  <2> DEFINE more == {}
  <2>6. /\ nodes'[cur].WaitPTX = nodes[cur].WaitPTX \cup more
        /\ more \subseteq DOMAIN wait'
        /\ \A x \in more : /\ nodes[cur].id \in DOMAIN wait'[x].ChildWait
                           /\ wait'[x].ChildWait[nodes[cur].id] = cur
        /\ \A m \in 1..cur : /\ nodes'[m].id = nodes[m].id
                             /\ m # cur => nodes'[m].WaitPTX = nodes[m].WaitPTX
        /\ \A x \in DOMAIN wait : wait'[x].ChildWait
             \in {wait[x].ChildWait, Put(wait[x].ChildWait, nodes[cur].id, cur)}
    BY <2>3, <2>4, <1>c, Zenon
  <2> HIDE DEF more
  <2> QED
    BY <2>3, <2>5, <2>6, <1>0, LinkWait, Zenon
<1> DEFINE own == IF Mismatch(p) THEN WithOwnFailed(n.id) ELSE wait
           q == TxCNs[p]
           more == nodes[q].WaitPTX
<1>w. ASSUME wait' = JoinWaits(own, more), p \in DOMAIN TxCNs
      PROVE  /\ DOMAIN wait \subseteq DOMAIN wait'
             /\ more \subseteq DOMAIN wait'
             /\ \A x \in DOMAIN wait : wait'[x].ChildWait
                   \in {wait[x].ChildWait, Put(wait[x].ChildWait, nodes[cur].id, cur)}
             /\ \A x \in more : /\ nodes[cur].id \in DOMAIN wait'[x].ChildWait
                                /\ wait'[x].ChildWait[nodes[cur].id] = cur
  <2>1. DOMAIN wait \subseteq DOMAIN own /\ \A x \in DOMAIN wait : own[x] = wait[x]
    BY <1>0, <1>c, OwnFailedOK, Zenon
  <2>2. more \subseteq DOMAIN wait
    BY <1>w, <1>c, Zenon
  <2> HIDE DEF own, more
  <2> QED
    <3>1. /\ DOMAIN wait' = DOMAIN own
          /\ \A x \in DOMAIN wait : wait'[x].ChildWait
                   \in {wait[x].ChildWait, Put(wait[x].ChildWait, nodes[cur].id, cur)}
          /\ \A x \in more : wait'[x].ChildWait = Put(wait[x].ChildWait, nodes[cur].id, cur)
      BY <2>1, <2>2, <1>w, <1>0, JoinWaitsChildren, Zenon
    <3> QED
      BY <2>1, <2>2, <3>1, PutSame
<1>4. CASE ParentWaiting(p)
  <2> DEFINE listed == [nodes EXCEPT ![q] = AddChild(nodes[q], cur)]
             linked == Register(WaitFor(listed[cur], more), p)
             n2 == IF Mismatch(p) THEN Fail(linked) ELSE linked
  <2>1. /\ nodes' = [listed EXCEPT ![cur] = n2]
        /\ q \in 1..cur /\ p \in DOMAIN TxCNs
        /\ wait' = JoinWaits(own, more)
        /\ TxCNs' \in {TxCNs, Drop(TxCNs, n.id)}
    BY <1>4, <1>c, Zenon DEF ParentWaiting, n
  <2>2. /\ DOMAIN listed = 1..cur
        /\ \A m \in 1..cur : /\ NodeOK(listed[m], 1..cur)
                              /\ listed[m].id = nodes[m].id /\ listed[m].WaitPTX = nodes[m].WaitPTX
    <3>1. /\ NodeOK(AddChild(nodes[q], cur), 1..cur) /\ AddChild(nodes[q], cur).id = nodes[q].id
          /\ AddChild(nodes[q], cur).WaitPTX = nodes[q].WaitPTX
      BY <2>1, <1>0, <1>c, AddChildOK, ZenonT(60)
    <3> HIDE DEF q
    <3> QED
      BY <2>1, <3>1, <1>0
  <2>3. more \subseteq TxIds
    BY <1>4, <1>c, Zenon DEF ParentWaiting
  <2> HIDE DEF listed, q, more, own
  <2>4. NodeOK(linked, 1..cur) /\ linked.id = listed[cur].id /\ linked.WaitPTX = listed[cur].WaitPTX \cup more
    <3> DEFINE wf == WaitFor(listed[cur], more)
    <3>1. NodeOK(listed[cur], 1..cur)
      BY <2>2, <1>c
    <3>2. NodeOK(wf, 1..cur)
      BY <3>1, <2>3 DEF WaitFor, NodeOK, NodeFields
    <3>3. wf.id = listed[cur].id /\ wf.WaitPTX = listed[cur].WaitPTX \cup more
      BY <3>1 DEF WaitFor, NodeOK, NodeFields
    <3>4. linked = Register(wf, p)
      OBVIOUS
    <3> HIDE DEF wf, linked
    <3> QED
      <4>1. p \in TxIds
        BY <1>c, Zenon
      <4>2. /\ NodeOK(Register(wf, p), 1..cur)
            /\ Register(wf, p).id = wf.id /\ Register(wf, p).WaitPTX = wf.WaitPTX
        BY <3>2, <4>1, RegisterOK
      <4> QED
        BY <3>3, <3>4, <4>2, Zenon
  <2> HIDE DEF linked
  <2>5. n2.id = listed[cur].id /\ n2.WaitPTX = listed[cur].WaitPTX \cup more
    BY <2>4, FailOK
  <2> HIDE DEF n2
  <2>6. \A m \in 1..cur : nodes'[m] = IF m = cur THEN n2 ELSE listed[m]
    BY <2>1, <2>2
  <2>7. /\ \A m \in 1..cur : nodes'[m].id = nodes[m].id /\ (m # cur => nodes'[m].WaitPTX = nodes[m].WaitPTX)
        /\ nodes'[cur].WaitPTX = nodes[cur].WaitPTX \cup more
    BY <2>2, <2>5, <2>6, <1>c
  <2> QED
    BY <2>1, <2>7, <1>0, <1>w, <1>t, LinkWait, Zenon
<1>5. CASE ParentFailed(p)
  <2> DEFINE n2 == Fail(WaitFor(n, more))
  <2>1. n2.id = n.id /\ n2.WaitPTX = n.WaitPTX \cup more
    <3>1. more \subseteq TxIds
      BY <1>5, <1>c, Zenon DEF ParentFailed
    <3> HIDE DEF more
    <3>2. /\ NodeOK(WaitFor(n, more), 1..cur) /\ WaitFor(n, more).id = n.id
          /\ WaitFor(n, more).WaitPTX = n.WaitPTX \cup more
      <4>1. NodeOK(n, 1..cur)
        BY <1>c
      <4> QED
        BY <3>1, <4>1 DEF WaitFor, NodeOK, NodeFields
    <3> QED
      BY <3>2, FailOK, Zenon
  <2>2. /\ nodes' = [nodes EXCEPT ![cur] = n2] /\ p \in DOMAIN TxCNs
        /\ wait' = JoinWaits(own, more)
        /\ TxCNs' \in {TxCNs, Drop(TxCNs, n.id)}
    BY <1>5, Zenon DEF ParentFailed, n
  <2> HIDE DEF n2, own, more
  <2>3. \A m \in 1..cur : nodes'[m] = IF m = cur THEN n2 ELSE nodes[m]
    BY <2>2, <1>0
  <2>4. /\ \A m \in 1..cur : nodes'[m].id = nodes[m].id /\ (m # cur => nodes'[m].WaitPTX = nodes[m].WaitPTX)
        /\ nodes'[cur].WaitPTX = nodes[cur].WaitPTX \cup more
    BY <2>1, <2>3, <1>c, Zenon DEF n
  <2> QED
    BY <2>2, <2>4, <1>0, <1>w, <1>t, LinkWait, Zenon
<1> QED
  BY <1>1, <1>2, <1>3, <1>4, <1>5

LEMMA AdoptChildrenWait == WaitInv /\ AdoptChildren => NoDanglingWait' /\ CurFiled'
<1> SUFFICES ASSUME WaitInv, AdoptChildren PROVE NoDanglingWait' /\ CurFiled'
  OBVIOUS
<1> DEFINE n == nodes[cur]
           entry == wait[n.id]
           released == {entry.ChildWait[x] : x \in DOMAIN entry.ChildWait}
<1>0. TypeOK /\ pc = "parents" /\ TxCNs' = TxCNs /\ pc' = "finish"
  BY DEF WaitInv, AdoptChildren
<1>1. /\ DOMAIN Adopted = 1..cur
      /\ \A m \in 1..cur : NodeOK(Adopted[m], 1..cur) /\ Adopted[m].WaitPTX = nodes[m].WaitPTX
  BY <1>0, AdoptedOK
<1>2. \A id \in DOMAIN TxCNs : TxCNs[id] \in 1..cur
  BY <1>0 DEF TypeOK
<1>3. \A id \in DOMAIN TxCNs : \A x \in nodes[TxCNs[id]].WaitPTX :
         /\ x \in DOMAIN wait
         /\ id \in DOMAIN wait[x].ChildWait
         /\ wait[x].ChildWait[id] = TxCNs[id]
  BY DEF WaitInv, NoDanglingWait
<1>4. CASE hadWait /\ n.State # Failed
  <2>1. /\ nodes' = [m \in DOMAIN nodes |->
                      IF m \in released THEN WaitNoMore(Adopted[m], n.id) ELSE Adopted[m]]
        /\ wait' = Drop(wait, n.id)
    BY <1>4 DEF AdoptChildren
  <2>2. \A m \in 1..cur : nodes'[m].WaitPTX =
            IF m \in released THEN nodes[m].WaitPTX \ {n.id} ELSE nodes[m].WaitPTX
    <3> HIDE DEF n, released
    <3>1. \A m \in 1..cur : WaitNoMore(Adopted[m], n.id).WaitPTX = nodes[m].WaitPTX \ {n.id}
      BY <1>1 DEF WaitNoMore, NodeOK, NodeFields
    <3>2. DOMAIN nodes = 1..cur
      BY <1>0 DEF TypeOK
    <3>3. \A m \in 1..cur : nodes'[m] =
             IF m \in released THEN WaitNoMore(Adopted[m], n.id) ELSE Adopted[m]
      BY <2>1, <3>2
    <3> QED
      BY <3>1, <3>3, <1>1, Zenon
  <2>3. /\ DOMAIN wait' = DOMAIN wait \ {n.id}
        /\ \A x \in DOMAIN wait \ {n.id} : wait'[x] = wait[x]
    <3> HIDE DEF n
    <3> QED BY <2>1 DEF Drop, Restrict
  <2>4. ASSUME NEW id \in DOMAIN TxCNs, NEW x \in nodes'[TxCNs[id]].WaitPTX
        PROVE  x # n.id /\ x \in nodes[TxCNs[id]].WaitPTX
    <3>1. x \in nodes[TxCNs[id]].WaitPTX
      BY <2>2, <2>4, <1>2, Zenon
    <3>2. x = n.id => TxCNs[id] \in released
      BY <3>1, <1>3
    <3> HIDE DEF n, released
    <3> QED
      BY <2>2, <2>4, <3>1, <3>2, <1>2, Zenon
  <2> HIDE DEF n
  <2> QED
    BY <2>3, <2>4, <1>0, <1>3 DEF NoDanglingWait, CurFiled
<1>5. CASE ~(hadWait /\ n.State # Failed)
  <2>1. nodes' = Adopted
    BY <1>5 DEF AdoptChildren
  <2>2. /\ DOMAIN wait' = DOMAIN wait
        /\ \A x \in DOMAIN wait : wait'[x].ChildWait = wait[x].ChildWait
    <3>1. CASE ~hadWait
      BY <3>1 DEF AdoptChildren
    <3>2. CASE hadWait
      <4>1. wait' = [wait EXCEPT ![n.id].ChoosedNode = cur]
        BY <1>5, <3>2 DEF AdoptChildren
      <4> QED
        BY <4>1, <1>0 DEF TypeOK, EntryOK, EntryFields
    <3> QED
      BY <3>1, <3>2
  <2>3. \A id \in DOMAIN TxCNs : nodes'[TxCNs[id]].WaitPTX = nodes[TxCNs[id]].WaitPTX
    BY <2>1, <1>1, <1>2
  <2> QED
    BY <2>2, <2>3, <1>0, <1>3 DEF NoDanglingWait, CurFiled
<1> QED
  BY <1>4, <1>5

LEMMA OtherWait ==
    ASSUME WaitInv, Finish \/ FailChild \/ ReleaseChild \/ Return \/ CutOnSize \/ CutOnTimer
                    \/ Blocked \/ UNCHANGED vars
    PROVE  NoDanglingWait' /\ CurFiled'
<1>1. TypeOK /\ NoDanglingWait /\ \A id \in DOMAIN TxCNs : TxCNs[id] \in 1..cur
  BY DEF WaitInv, TypeOK
<1>2. ASSUME Finish \/ FailChild \/ ReleaseChild PROVE NoDanglingWait' /\ CurFiled'
  <2>1. Unmoved
    BY <1>1, <1>2, FinishTypeOK, FailChildTypeOK, ReleaseChildTypeOK
  <2>2. TxCNs' = TxCNs /\ wait' = wait /\ pc' # "parents"
    BY <1>2, Zenon DEF Finish, FailChild, ReleaseChild
  <2>3. \A id \in DOMAIN TxCNs : nodes'[TxCNs[id]].WaitPTX = nodes[TxCNs[id]].WaitPTX
    BY <1>1, <2>1 DEF Unmoved, Same
  <2> QED
    BY <1>1, <2>2, <2>3 DEF NoDanglingWait, CurFiled
<1>3. ASSUME Return \/ CutOnSize \/ CutOnTimer PROVE NoDanglingWait' /\ CurFiled'
  <2>1. TxCNs' = TxCNs /\ wait' = wait /\ nodes' = nodes /\ pc' # "parents"
    BY <1>3 DEF Return, CutOnSize, CutOnTimer, graph
  <2> QED
    BY <1>1, <2>1 DEF NoDanglingWait, CurFiled
<1>4. ASSUME UNCHANGED vars PROVE NoDanglingWait' /\ CurFiled'
  BY <1>4, Zenon DEF WaitInv, NoDanglingWait, CurFiled, vars, graph
<1> QED
  BY <1>2, <1>3, <1>4 DEF Blocked

\* In every state, an entry of WaitUnChoosedTxCNs that a filed node waits for exists and
\* lists the node: the lookups of ProcessTX at lines 477 and 485 never meet a nil entry.
THEOREM WaitsCorrect == Spec => []NoDanglingWait
<1>1. WaitInv /\ [Next]_vars => WaitInv'
  <2> SUFFICES ASSUME WaitInv, [Next]_vars PROVE WaitInv'
    OBVIOUS
  <2>1. TypeOK'
    BY TypeStep DEF WaitInv
  <2>2. NoDanglingWait' /\ CurFiled'
    BY ReceiveWait, LinkParentWait, AdoptChildrenWait, OtherWait DEF Next
  <2> QED
    BY <2>1, <2>2 DEF WaitInv
<1>2. WaitInv => NoDanglingWait
  BY DEF WaitInv
<1> QED
  BY InitWaitInv, <1>1, <1>2, PTL DEF Spec
=============================================================================
