------------------------- MODULE CEGraphLinkProofs -------------------------
(***************************************************************************)
(* Why the graph releases each transaction once and for good when none is  *)
(* submitted twice.  The argument is about the links between parents and   *)
(* children, and CEGraphOrderProofs puts it to use:                        *)
(* while a link can still call its child, the child has it in Parents, so  *)
(* each parent is counted once and taken back once.                        *)
(***************************************************************************)
EXTENDS CEGraph, TLAPS

USE DEF Committed, Waiting, Failed

---------------------------------------------------------------------------
(* The places of the stream.                                               *)

LEMMA ElementOK ==
    ASSUME NEW S, NEW s \in Seq(S), NEW i \in Nat \ {0}
    PROVE  i <= Len(s) => s[i] \in S
OBVIOUS

InBatch(bs, rb, x) == \/ \E b \in 1..Len(bs) : \E i \in 1..Len(bs[b]) : x = <<b, i>>
                      \/ \E i \in 1..Len(rb) : x = <<Len(bs) + 1, i>>

\* A place of the stream is in a batch that was sent or in the open one.
LEMMA PlacesAre ==
    ASSUME NEW S, NEW bs \in Seq(Seq(S)), NEW rb \in Seq(S)
    PROVE  \A x : x \in Places(Append(bs, rb)) <=> InBatch(bs, rb, x)
<1> DEFINE s == Append(bs, rb)
<1>1. Len(bs) \in Nat /\ \A b \in 1..Len(bs) : bs[b] \in Seq(S)
  OBVIOUS
<1>2. /\ DOMAIN s = (1..Len(bs)) \cup {Len(bs) + 1}
      /\ \A b \in 1..Len(bs) : s[b] = bs[b]
      /\ s[Len(bs) + 1] = rb
  BY <1>1
<1>3. /\ \A b \in 1..Len(bs) : DOMAIN s[b] = 1..Len(bs[b])
      /\ DOMAIN s[Len(bs) + 1] = 1..Len(rb)
  BY <1>1, <1>2
<1> HIDE DEF s
<1>4. \A x : x \in Places(s) <=> \E b \in DOMAIN s : \E i \in DOMAIN s[b] : x = <<b, i>>
  BY DEF Places
<1> QED
  BY <1>2, <1>3, <1>4, Zenon DEF s, InBatch

\* Appending to the open batch adds one place, after all others.
LEMMA AppendSlot ==
    ASSUME TypeOK, NEW m \in 1..cur, ReadyBatch' = Append(ReadyBatch, m), batches' = batches
    PROVE  \E new : /\ \A x : x \in Slots' <=> x \in Slots \/ x = new
                    /\ At(new)' = m
                    /\ \A x \in Slots : At(x)' = At(x) /\ Precedes(x, new)
<1>1. /\ batches \in Seq(Seq(1..cur)) /\ ReadyBatch \in Seq(1..cur)
      /\ Append(ReadyBatch, m) \in Seq(1..cur)
  BY DEF TypeOK
<1> DEFINE l == Len(batches)
           k == Len(ReadyBatch)
<1>0. PICK new : new = <<l + 1, k + 1>>
  BY Zenon
<1>2. /\ l \in Nat /\ k \in Nat /\ Len(Append(ReadyBatch, m)) = k + 1
      /\ 1..(k + 1) = (1..k) \cup {k + 1}
  BY <1>1
<1>3. \A x : x \in Slots <=>
                \/ \E b \in 1..l : \E i \in 1..Len(batches[b]) : x = <<b, i>>
                \/ \E i \in 1..k : x = <<l + 1, i>>
  <2>1. Slots = Places(Append(batches, ReadyBatch))
    BY DEF Slots, Stream
  <2>2. \A x : x \in Slots <=> InBatch(batches, ReadyBatch, x)
    BY <2>1, <1>1, PlacesAre
  <2> QED
    BY <2>2 DEF InBatch
<1>4. \A x : x \in Slots' <=>
                \/ \E b \in 1..l : \E i \in 1..Len(batches[b]) : x = <<b, i>>
                \/ \E i \in 1..(k + 1) : x = <<l + 1, i>>
  <2>1. Slots' = Places(Append(batches, Append(ReadyBatch, m)))
    BY DEF Slots, Stream
  <2>2. \A x : x \in Slots' <=> InBatch(batches, Append(ReadyBatch, m), x)
    BY <2>1, <1>1, PlacesAre, Zenon
  <2> QED
    BY <2>2, <1>2 DEF InBatch
<1>5. \A x : x \in Slots' <=> x \in Slots \/ x = new
  BY <1>0, <1>2, <1>3, <1>4
<1>6. At(new)' = m
  <2>1. /\ Append(batches, Append(ReadyBatch, m))[l + 1] = Append(ReadyBatch, m)
        /\ Append(ReadyBatch, m)[k + 1] = m
    BY <1>1
  <2> QED
    BY <2>1, <1>0 DEF At, Stream
<1>7. ASSUME NEW x \in Slots PROVE At(x)' = At(x) /\ Precedes(x, new)
  <2>1. CASE \E b \in 1..l : \E i \in 1..Len(batches[b]) : x = <<b, i>>
    <3>1. PICK b \in 1..l : \E i \in 1..Len(batches[b]) : x = <<b, i>>
      BY <2>1
    <3>2. x[1] = b /\ b < l + 1 /\ new[1] = l + 1
      BY <3>1, <1>0, <1>2
    <3>3. Append(batches, Append(ReadyBatch, m))[b] = Append(batches, ReadyBatch)[b]
      BY <1>1
    <3> HIDE DEF l, k
    <3> QED
      BY <3>2, <3>3 DEF At, Stream, Precedes
  <2>2. CASE \E i \in 1..k : x = <<l + 1, i>>
    <3>1. PICK i \in 1..k : x = <<l + 1, i>>
      BY <2>2
    <3>2. x[1] = l + 1 /\ x[2] = i /\ i < k + 1 /\ new[1] = l + 1 /\ new[2] = k + 1
      BY <3>1, <1>0, <1>2
    <3>3. /\ Append(batches, Append(ReadyBatch, m))[l + 1] = Append(ReadyBatch, m)
          /\ Append(batches, ReadyBatch)[l + 1] = ReadyBatch
      BY <1>1
    <3>4. Append(ReadyBatch, m)[i] = ReadyBatch[i]
      BY <1>1
    <3> HIDE DEF l, k
    <3> QED
      BY <3>2, <3>3, <3>4 DEF At, Stream, Precedes
  <2> QED
    BY <2>1, <2>2, <1>3
<1> QED
  BY <1>5, <1>6, <1>7

\* Cut moves no place.
LEMMA CutSlots ==
    ASSUME TypeOK, Cut
    PROVE  /\ \A x : x \in Slots' <=> x \in Slots
           /\ \A x \in Slots : At(x)' = At(x)
<1>1. batches \in Seq(Seq(1..cur)) /\ ReadyBatch \in Seq(1..cur)
  BY DEF TypeOK
<1> DEFINE bs == Append(batches, ReadyBatch)
           l == Len(batches)
<1>2. /\ bs \in Seq(Seq(1..cur)) /\ Len(bs) = l + 1 /\ l \in Nat
      /\ \A b \in 1..l : bs[b] = batches[b]
      /\ bs[l + 1] = ReadyBatch
      /\ 1..(l + 1) = (1..l) \cup {l + 1}
  BY <1>1
<1>3. \A x : x \in Slots <=>
                \/ \E b \in 1..l : \E i \in 1..Len(batches[b]) : x = <<b, i>>
                \/ \E i \in 1..Len(ReadyBatch) : x = <<l + 1, i>>
  <2>1. Slots = Places(Append(batches, ReadyBatch))
    BY DEF Slots, Stream
  <2>2. \A x : x \in Slots <=> InBatch(batches, ReadyBatch, x)
    BY <2>1, <1>1, PlacesAre
  <2> QED
    BY <2>2 DEF InBatch
<1>4. Stream' = Append(bs, <<>>) /\ Stream = bs
  BY DEF Cut, Stream
<1> HIDE DEF bs
<1>5. \A x : x \in Slots' <=> \E b \in 1..Len(bs) : \E i \in 1..Len(bs[b]) : x = <<b, i>>
  <2>1. <<>> \in Seq(1..cur) /\ Len(<<>>) = 0 /\ 1..0 = {}
    OBVIOUS
  <2>2. Slots' = Places(Append(bs, <<>>))
    BY <1>4 DEF Slots
  <2>3. \A x : x \in Slots' <=> InBatch(bs, <<>>, x)
    BY <2>1, <2>2, <1>2, PlacesAre, Zenon
  <2> QED
    BY <2>1, <2>3 DEF InBatch
<1>6. \A x : x \in Slots' <=> x \in Slots
  BY <1>2, <1>3, <1>5, Zenon
<1>7. ASSUME NEW x \in Slots PROVE At(x)' = At(x)
  <2>1. PICK b \in 1..Len(bs) : \E i \in 1..Len(bs[b]) : x = <<b, i>>
    BY <1>5, <1>6
  <2>2. Append(bs, <<>>)[b] = bs[b]
    BY <1>2
  <2> QED
    BY <2>1, <2>2, <1>4 DEF At
<1> QED
  BY <1>6, <1>7

LEMMA SlotNode ==
    ASSUME TypeOK, NEW x \in Slots
    PROVE  At(x) \in 1..cur
<1>1. batches \in Seq(Seq(1..cur)) /\ ReadyBatch \in Seq(1..cur)
  BY DEF TypeOK
<1> DEFINE s == Append(batches, ReadyBatch)
<1>2. s \in Seq(Seq(1..cur)) /\ Slots = Places(s) /\ At(x) = s[x[1]][x[2]]
  BY <1>1 DEF Slots, Stream, At
<1> HIDE DEF s
<1>3. PICK b \in DOMAIN s : \E i \in DOMAIN s[b] : x = <<b, i>>
  BY <1>2 DEF Places
<1>4. s[b] \in Seq(1..cur)
  BY <1>2
<1>5. PICK i \in DOMAIN s[b] : x = <<b, i>>
  BY <1>3
<1>6. x[1] = b /\ x[2] = i
  BY <1>5
<1> DEFINE batch == s[b]
<1>7. batch \in Seq(1..cur) /\ i \in DOMAIN batch
  BY <1>4, <1>5
<1> HIDE DEF batch
<1>8. batch[i] \in 1..cur
  <2>1. i \in Nat \ {0} /\ i <= Len(batch)
    BY <1>7
  <2> QED
    BY <1>7, <2>1, ElementOK, Zenon
<1> QED
  BY <1>2, <1>6, <1>8 DEF batch

---------------------------------------------------------------------------
(* Counting the parents: S has n elements.                                 *)

Counts(n, S) ==
    /\ n \in Nat
    /\ \E f \in [1..n -> S] : /\ \A i, j \in 1..n : f[i] = f[j] => i = j
                              /\ \A s \in S : \E i \in 1..n : f[i] = s

LEMMA CountsEmpty == /\ Counts(0, {})
                     /\ \A n, S : Counts(n, S) => (n = 0 <=> S = {})
<1>1. Counts(0, {})
  <2> DEFINE f == [i \in 1..0 |-> i]
  <2>1. f \in [1..0 -> {}]
    OBVIOUS
  <2> QED
    BY <2>1, Zenon DEF Counts
<1>2. ASSUME NEW n, NEW S, Counts(n, S) PROVE n = 0 <=> S = {}
  <2>1. PICK f \in [1..n -> S] : /\ \A i, j \in 1..n : f[i] = f[j] => i = j
                                 /\ \A s \in S : \E i \in 1..n : f[i] = s
    BY <1>2 DEF Counts
  <2>2. n \in Nat
    BY <1>2 DEF Counts
  <2>3. ASSUME n # 0 PROVE S # {}
    <3>1. 1 \in 1..n
      BY <2>2, <2>3
    <3> QED
      BY <3>1, <2>1
  <2>4. ASSUME n = 0 PROVE S = {}
    BY <2>1, <2>2, <2>4
  <2> QED
    BY <2>3, <2>4
<1> QED
  BY <1>1, <1>2

LEMMA CountsAdd ==
    ASSUME NEW n, NEW S, NEW p, Counts(n, S), p \notin S
    PROVE  Counts(n + 1, S \cup {p})
<1>1. PICK f \in [1..n -> S] : /\ \A i, j \in 1..n : f[i] = f[j] => i = j
                               /\ \A s \in S : \E i \in 1..n : f[i] = s
  BY DEF Counts
<1>2. n \in Nat /\ n + 1 \in Nat /\ 1..(n + 1) = (1..n) \cup {n + 1} /\ n + 1 \notin 1..n
  BY DEF Counts
<1> DEFINE g == [i \in 1..(n + 1) |-> IF i = n + 1 THEN p ELSE f[i]]
<1>3. /\ g \in [1..(n + 1) -> S \cup {p}]
      /\ g[n + 1] = p
      /\ \A i \in 1..n : g[i] = f[i] /\ g[i] \in S
  BY <1>2
<1> HIDE DEF g
<1>4. \A i, j \in 1..(n + 1) : g[i] = g[j] => i = j
  BY <1>1, <1>2, <1>3
<1>5. \A s \in S \cup {p} : \E i \in 1..(n + 1) : g[i] = s
  BY <1>1, <1>2, <1>3
<1> QED
  BY <1>2, <1>3, <1>4, <1>5, Zenon DEF Counts

LEMMA CountsRemove ==
    ASSUME NEW n, NEW S, NEW p \in S, Counts(n, S)
    PROVE  Counts(n - 1, S \ {p})
<1>1. PICK f \in [1..n -> S] : /\ \A i, j \in 1..n : f[i] = f[j] => i = j
                               /\ \A s \in S : \E i \in 1..n : f[i] = s
  BY DEF Counts
<1>2. PICK j \in 1..n : f[j] = p
  BY <1>1
<1>3. n \in Nat /\ n - 1 \in Nat /\ 1..n = (1..(n - 1)) \cup {n} /\ n \notin 1..(n - 1)
  <2>1. n \in Nat
    BY Zenon DEF Counts
  <2>2. n # 0 /\ n - 1 \in Nat
    BY <2>1
  <2> QED
    BY <2>1, <2>2, SMTT(40)
<1> DEFINE g == [i \in 1..(n - 1) |-> IF i = j THEN f[n] ELSE f[i]]
<1>4. \A i \in 1..(n - 1) : g[i] = IF i = j THEN f[n] ELSE f[i]
  OBVIOUS
<1>5. g \in [1..(n - 1) -> S \ {p}]
  <2>1. \A i \in 1..(n - 1) : (IF i = j THEN f[n] ELSE f[i]) \in S \ {p}
    BY <1>1, <1>2, <1>3
  <2> QED
    BY <2>1
<1> HIDE DEF g
<1>6. \A h, i \in 1..(n - 1) : g[h] = g[i] => h = i
  BY <1>1, <1>2, <1>3, <1>4
<1>7. \A s \in S \ {p} : \E i \in 1..(n - 1) : g[i] = s
  <2> SUFFICES ASSUME NEW s \in S, s # p PROVE \E i \in 1..(n - 1) : g[i] = s
    OBVIOUS
  <2>1. PICK i \in 1..n : f[i] = s
    BY <1>1
  <2>2. i # j
    BY <2>1, <1>2
  <2>3. CASE i = n
    BY <2>1, <2>2, <2>3, <1>2, <1>3, <1>4
  <2>4. CASE i # n
    BY <2>1, <2>2, <2>4, <1>3, <1>4
  <2> QED
    BY <2>3, <2>4
<1> QED
  BY <1>3, <1>5, <1>6, <1>7, Zenon DEF Counts

---------------------------------------------------------------------------
(* What the helpers and the actions do to the fields of nodes and entries. *)

\* r has the parents of n, its children, its mark
SameParents(r, n) == r.Parents = n.Parents /\ r.ParentNum = n.ParentNum
SameChildren(r, n) == r.NChildNodes = n.NChildNodes
SameMark(r, n) == r.State = n.State /\ r.everFailed = n.everFailed

\* r has one parent more, and one less
Adds(r, n, p) == r.Parents = n.Parents \cup {p} /\ r.ParentNum = n.ParentNum + 1
Takes(r, n, p) == r.Parents = n.Parents \ {p} /\ r.ParentNum = n.ParentNum - 1

IsNode(n) == DOMAIN n = NodeFields

\* the values written agree with the values expected
Agrees(ws, kv) == \A k \in DOMAIN kv : k \in DOMAIN ws /\ ws[k] = kv[k]

\* an entry changes at most in who waits for it
SameEntry(f, e) == /\ f.ChoosedNode = e.ChoosedNode /\ f.NChildNodes = e.NChildNodes
                   /\ f.WriteSet = e.WriteSet /\ f.DiffWaitWKV = e.DiffWaitWKV

\* An iteration of the loop over PTx marks no node but the current one, and that one
\* only as failed.
Iterated ==
    /\ \A m \in 1..cur : m # cur => SameMark(nodes'[m], nodes[m]) /\ SameParents(nodes'[m], nodes[m])
    /\ \/ SameMark(nodes'[cur], nodes[cur])
       \/ nodes'[cur].State = Failed /\ nodes'[cur].everFailed = TRUE

ChildrenStay == \A m \in 1..cur : SameChildren(nodes'[m], nodes[m])

\* the current node may be taken out of TxCNs: it has failed, and has an entry
MayClose ==
    LET id == nodes[cur].id
    IN  \/ TxCNs' = TxCNs /\ DOMAIN wait' = DOMAIN wait
        \/ /\ nodes'[cur].State = Failed
           /\ DOMAIN TxCNs' = DOMAIN TxCNs \ {id}
           /\ DOMAIN wait' = DOMAIN wait \cup {id}
           /\ id \notin DOMAIN wait => wait'[id].ChoosedNode = cur

\* The three things an iteration does with the parent p.  The current node is listed in
\* the entry of p:
Listed(p) ==
    /\ p \notin DOMAIN TxCNs /\ TxCNs' = TxCNs
    /\ SameMark(nodes'[cur], nodes[cur])
    /\ Adds(nodes'[cur], nodes[cur], p) /\ todo' = todo \ {p}
    /\ ChildrenStay
    /\ DOMAIN wait' = DOMAIN wait \cup {p}
    /\ \A x \in DOMAIN wait : x # p => wait'[x] = wait[x]
    /\ wait'[p].ChoosedNode = 0
    /\ \/ /\ p \in DOMAIN wait /\ wait[p].ChoosedNode = 0
          /\ wait'[p].NChildNodes = Append(wait[p].NChildNodes, cur)
          /\ wait[p].DiffWaitWKV => wait'[p].DiffWaitWKV
          /\ \A kv : Agrees(wait[p].WriteSet, kv) => Agrees(wait'[p].WriteSet, kv)
       \/ p \notin DOMAIN wait /\ wait'[p].NChildNodes = <<cur>>
    /\ wait'[p].DiffWaitWKV \/ Agrees(wait'[p].WriteSet, nodes[cur].PTx[p])

\* it becomes a child of p:
Linked(p) ==
    /\ p \in DOMAIN TxCNs /\ MayClose
    /\ nodes[TxCNs[p]].State = Waiting
    /\ Adds(nodes'[cur], nodes[cur], p) /\ todo' = todo \ {p}
    /\ \A m \in 1..cur : m # TxCNs[p] => SameChildren(nodes'[m], nodes[m])
    /\ nodes'[TxCNs[p]].NChildNodes = Append(nodes[TxCNs[p]].NChildNodes, cur)
    /\ \A x \in DOMAIN wait : SameEntry(wait'[x], wait[x])
    /\ \/ nodes'[cur].everFailed = TRUE
       \/ Agrees(nodes[TxCNs[p]].WriteSet, nodes[cur].PTx[p])

\* it fails, or p is released and wrote what was read:
Unlinked(p) ==
    /\ MayClose
    /\ SameParents(nodes'[cur], nodes[cur]) /\ ChildrenStay
    /\ \A x \in DOMAIN wait : SameEntry(wait'[x], wait[x])
    /\ \/ nodes'[cur].everFailed = TRUE /\ todo' \subseteq todo
       \/ /\ todo' = todo \ {p} /\ p \in DOMAIN TxCNs
          /\ nodes[TxCNs[p]].State = Committed
          /\ Agrees(nodes[TxCNs[p]].WriteSet, nodes[cur].PTx[p])

LEMMA LinkEffect ==
    ASSUME TypeOK, pc = "parents", NEW p \in todo,
           \/ ParentAbsent(p)
           \/ ParentRejected(p)
           \/ ParentCommitted(p)
           \/ ParentWaiting(p)
           \/ ParentFailed(p)
    PROVE  Iterated /\ (Listed(p) \/ Linked(p) \/ Unlinked(p))
<1>WaitParts. ASSUME NEW n, IsNode(n), NEW ws, NEW w
              PROVE  LET r == WaitFor(n, ws)
                         s == WaitNoMore(n, w)
                     IN  /\ IsNode(r) /\ SameMark(r, n) /\ SameParents(r, n) /\ SameChildren(r, n)
                         /\ IsNode(s) /\ SameMark(s, n) /\ SameParents(s, n) /\ SameChildren(s, n)
  BY <1>WaitParts DEF WaitFor, WaitNoMore, IsNode, NodeFields, SameParents, SameChildren, SameMark
<1>RegisterParts. ASSUME NEW n, IsNode(n), NEW par
                  PROVE  LET r == Register(n, par)
                             s == Unregister(n, par)
                         IN  /\ IsNode(r) /\ SameMark(r, n) /\ Adds(r, n, par) /\ SameChildren(r, n)
                             /\ IsNode(s) /\ SameMark(s, n) /\ Takes(s, n, par) /\ SameChildren(s, n)
  BY <1>RegisterParts DEF Register, Unregister, IsNode, NodeFields, Adds, Takes, SameChildren, SameMark
<1>FailParts. ASSUME NEW n, IsNode(n)
              PROVE  LET r == Fail(n)
                     IN  /\ IsNode(r) /\ r.State = Failed /\ r.everFailed = TRUE
                         /\ SameParents(r, n) /\ SameChildren(r, n)
  BY <1>FailParts DEF Fail, IsNode, NodeFields, SameParents, SameChildren
<1>AddChildParts. ASSUME NEW n, IsNode(n), NEW c
                  PROVE  LET r == AddChild(n, c)
                         IN  /\ IsNode(r) /\ SameMark(r, n) /\ SameParents(r, n)
                             /\ r.NChildNodes = Append(n.NChildNodes, c)
  BY <1>AddChildParts DEF AddChild, IsNode, NodeFields, SameParents, SameMark
<1>ExpectParts. ASSUME NEW e, DOMAIN e = EntryFields, NEW kv
                PROVE  LET f == Expect(e, kv)
                       IN  /\ f.ChoosedNode = e.ChoosedNode
                           /\ f.NChildNodes = e.NChildNodes
                           /\ e.DiffWaitWKV => f.DiffWaitWKV
                           /\ \A other : Agrees(e.WriteSet, other) => Agrees(f.WriteSet, other)
                           /\ f.DiffWaitWKV \/ Agrees(f.WriteSet, kv)
  <2> DEFINE f == Expect(e, kv)
  <2>1. /\ f.ChoosedNode = e.ChoosedNode
        /\ f.NChildNodes = e.NChildNodes
        /\ f.DiffWaitWKV = (e.DiffWaitWKV \/ Disagree(kv, e.WriteSet))
        /\ f.WriteSet = [k \in DOMAIN e.WriteSet \cup DOMAIN kv |->
                            IF k \in DOMAIN e.WriteSet THEN e.WriteSet[k] ELSE kv[k]]
    BY <1>ExpectParts DEF Expect, EntryFields
  <2> HIDE DEF f
  <2>2. \A other : Agrees(e.WriteSet, other) => Agrees(f.WriteSet, other)
    BY <1>ExpectParts, <2>1 DEF Agrees
  <2>3. Disagree(kv, e.WriteSet) \/ Agrees(f.WriteSet, kv)
    BY <1>ExpectParts, <2>1 DEF Agrees, Disagree
  <2> QED
    BY <1>ExpectParts, <2>1, <2>2, <2>3, Zenon DEF f
<1>AddChildEntryParts. ASSUME NEW e, DOMAIN e = EntryFields, NEW c
                       PROVE  LET f == AddChild(e, c)
                              IN  /\ DOMAIN f = EntryFields /\ f.ChoosedNode = e.ChoosedNode
                                  /\ f.NChildNodes = Append(e.NChildNodes, c)
                                  /\ f.WriteSet = e.WriteSet /\ f.DiffWaitWKV = e.DiffWaitWKV
  BY <1>AddChildEntryParts DEF AddChild, EntryFields
<1>ListWaiterParts. ASSUME NEW e, DOMAIN e = EntryFields
                    PROVE  DOMAIN ListWaiter(e) = EntryFields /\ SameEntry(ListWaiter(e), e)
  BY <1>ListWaiterParts DEF ListWaiter, SameEntry, EntryFields
<1> DEFINE n == nodes[cur]
<1>0. /\ DOMAIN nodes = 1..cur /\ \A m \in 1..cur : IsNode(nodes[m])
      /\ \A x \in DOMAIN wait : EntryOK(wait[x], 1..cur) /\ DOMAIN wait[x] = EntryFields
  BY DEF TypeOK, NodeOK, IsNode, EntryOK
<1>c. /\ cur \in 1..cur /\ IsNode(n) /\ p \in DOMAIN n.PTx
      /\ p \in DOMAIN TxCNs => TxCNs[p] \in 1..cur
  BY <1>0 DEF TypeOK
<1> HIDE DEF n
<1>s. \A r : SameMark(r, r) /\ SameParents(r, r) /\ SameChildren(r, r) /\ SameEntry(r, r)
  BY DEF SameMark, SameParents, SameChildren, SameEntry
<1>n. ASSUME NEW v, nodes' = [nodes EXCEPT ![cur] = v], SameChildren(v, n),
             SameMark(v, n) \/ (v.State = Failed /\ v.everFailed = TRUE)
      PROVE  Iterated /\ ChildrenStay /\ nodes'[cur] = v
  <2>1. \A m \in 1..cur : nodes'[m] = IF m = cur THEN v ELSE nodes[m]
    BY <1>n, <1>0
  <2> QED
    BY <2>1, <1>n, <1>s, <1>c DEF Iterated, ChildrenStay, n
<1>1. CASE ParentAbsent(p)
  <2> DEFINE entry == IF p \in DOMAIN wait THEN wait[p] ELSE WaitEntry(FALSE, 0)
             l == ListWaiter(entry)
             a == AddChild(l, cur)
             e2 == Expect(a, n.PTx[p])
             w == WaitFor(n, {p})
             n2 == Register(w, p)
  <2>1. /\ wait' = Put(wait, p, e2) /\ nodes' = [nodes EXCEPT ![cur] = n2]
        /\ todo' = todo \ {p} /\ TxCNs' = TxCNs /\ p \notin DOMAIN TxCNs
        /\ entry.ChoosedNode = 0
    BY <1>1, Zenon DEF ParentAbsent, n
  <2>2. IsNode(w) /\ SameMark(w, n) /\ SameParents(w, n) /\ SameChildren(w, n)
    BY <1>c, <1>WaitParts
  <2> HIDE DEF w
  <2>3. SameMark(n2, w) /\ Adds(n2, w, p) /\ SameChildren(n2, w)
    BY <2>2, <1>RegisterParts
  <2> HIDE DEF n2
  <2>4. SameMark(n2, n) /\ Adds(n2, n, p) /\ SameChildren(n2, n)
    BY <2>2, <2>3 DEF SameMark, SameParents, SameChildren, Adds
  <2>5. /\ DOMAIN entry = EntryFields
        /\ p \in DOMAIN wait => entry = wait[p]
        /\ p \notin DOMAIN wait => entry.NChildNodes = <<>>
    <3>1. DOMAIN WaitEntry(FALSE, 0) = EntryFields /\ WaitEntry(FALSE, 0).NChildNodes = <<>>
      BY DEF WaitEntry, EntryFields
    <3> QED
      BY <3>1, <1>0, Zenon
  <2> HIDE DEF entry
  <2>6. DOMAIN l = EntryFields /\ SameEntry(l, entry)
    BY <2>5, <1>ListWaiterParts
  <2> HIDE DEF l
  <2>7. /\ DOMAIN a = EntryFields /\ a.ChoosedNode = l.ChoosedNode
        /\ a.NChildNodes = Append(l.NChildNodes, cur)
        /\ a.WriteSet = l.WriteSet /\ a.DiffWaitWKV = l.DiffWaitWKV
    BY <2>6, <1>AddChildEntryParts
  <2> HIDE DEF a
  <2>8. /\ e2.ChoosedNode = a.ChoosedNode
        /\ e2.NChildNodes = a.NChildNodes
        /\ a.DiffWaitWKV => e2.DiffWaitWKV
        /\ \A other : Agrees(a.WriteSet, other) => Agrees(e2.WriteSet, other)
        /\ e2.DiffWaitWKV \/ Agrees(e2.WriteSet, n.PTx[p])
    BY <2>7, <1>ExpectParts, Zenon
  <2> HIDE DEF e2
  <2>9. /\ DOMAIN wait' = DOMAIN wait \cup {p} /\ wait'[p] = e2
        /\ \A x \in DOMAIN wait : x # p => wait'[x] = wait[x]
    BY <2>1 DEF Put
  <2>10. Append(<<>>, cur) = <<cur>>
    OBVIOUS
  <2>11. /\ wait'[p].ChoosedNode = 0
         /\ wait'[p].NChildNodes = Append(entry.NChildNodes, cur)
         /\ entry.DiffWaitWKV => wait'[p].DiffWaitWKV
         /\ \A kv : Agrees(entry.WriteSet, kv) => Agrees(wait'[p].WriteSet, kv)
         /\ wait'[p].DiffWaitWKV \/ Agrees(wait'[p].WriteSet, n.PTx[p])
    BY <2>1, <2>6, <2>7, <2>8, <2>9 DEF SameEntry
  <2>12. Iterated /\ ChildrenStay /\ nodes'[cur] = n2
    BY <2>1, <2>4, <1>n, Zenon
  <2>13. \/ /\ p \in DOMAIN wait /\ wait[p].ChoosedNode = 0
            /\ wait'[p].NChildNodes = Append(wait[p].NChildNodes, cur)
            /\ wait[p].DiffWaitWKV => wait'[p].DiffWaitWKV
            /\ \A kv : Agrees(wait[p].WriteSet, kv) => Agrees(wait'[p].WriteSet, kv)
         \/ p \notin DOMAIN wait /\ wait'[p].NChildNodes = <<cur>>
    BY <2>1, <2>5, <2>10, <2>11, Zenon
  <2> QED
    BY <2>1, <2>4, <2>9, <2>11, <2>12, <2>13, Zenon DEF Listed, n
<1>2. CASE ParentRejected(p)
  <2> DEFINE w == WaitFor(n, {p})
             n2 == Fail(w)
  <2>1. /\ wait' = [wait EXCEPT ![p] = ListWaiter(wait[p])]
        /\ nodes' = [nodes EXCEPT ![cur] = n2]
        /\ todo' = {} /\ TxCNs' = TxCNs /\ p \in DOMAIN wait
    BY <1>2 DEF ParentRejected, n
  <2>2. IsNode(w) /\ SameMark(w, n) /\ SameParents(w, n) /\ SameChildren(w, n)
    BY <1>c, <1>WaitParts
  <2> HIDE DEF w
  <2>3. n2.State = Failed /\ n2.everFailed = TRUE /\ SameParents(n2, w) /\ SameChildren(n2, w)
    BY <2>2, <1>FailParts, Zenon
  <2> HIDE DEF n2
  <2>4. SameParents(n2, n) /\ SameChildren(n2, n)
    BY <2>2, <2>3 DEF SameParents, SameChildren
  <2>5. SameEntry(ListWaiter(wait[p]), wait[p])
    BY <2>1, <1>0, <1>ListWaiterParts
  <2>6. DOMAIN wait' = DOMAIN wait /\ \A x \in DOMAIN wait : SameEntry(wait'[x], wait[x])
    BY <2>1, <2>5, <1>s
  <2>7. Iterated /\ ChildrenStay /\ nodes'[cur] = n2
    BY <2>1, <2>3, <2>4, <1>n, Zenon
  <2> QED
    BY <2>1, <2>3, <2>4, <2>6, <2>7 DEF Unlinked, MayClose, n
<1>t. /\ DOMAIN Drop(TxCNs, n.id) = DOMAIN TxCNs \ {n.id}
      /\ DOMAIN WithOwnFailed(n.id) = DOMAIN wait \cup {n.id}
      /\ \A x \in DOMAIN wait : WithOwnFailed(n.id)[x] = wait[x]
      /\ n.id \notin DOMAIN wait => WithOwnFailed(n.id)[n.id].ChoosedNode = cur
  BY DEF Drop, Restrict, WithOwnFailed, Put, WaitEntry
<1>m. ~Mismatch(p) => Agrees(nodes[TxCNs[p]].WriteSet, n.PTx[p])
  BY DEF Mismatch, Agrees, n
<1>3. CASE ParentCommitted(p)
  <2>1. /\ Fail(n).State = Failed /\ Fail(n).everFailed = TRUE
        /\ SameParents(Fail(n), n) /\ SameChildren(Fail(n), n)
    BY <1>c, <1>FailParts, Zenon
  <2>2. CASE /\ nodes' = [nodes EXCEPT ![cur] = Fail(n)]
             /\ wait' = WithOwnFailed(n.id)
             /\ TxCNs' = Drop(TxCNs, n.id)
             /\ todo' = {}
    <3>1. Iterated /\ ChildrenStay /\ nodes'[cur] = Fail(n)
      BY <2>1, <2>2, <1>n, Zenon
    <3>2. MayClose
      BY <2>1, <2>2, <3>1, <1>t DEF MayClose, n
    <3>3. \A x \in DOMAIN wait : SameEntry(wait'[x], wait[x])
      BY <2>2, <1>t, <1>s
    <3> QED
      BY <2>1, <2>2, <3>1, <3>2, <3>3, Zenon DEF Unlinked, n
  <2>3. CASE /\ todo' = todo \ {p} /\ UNCHANGED <<nodes, wait, TxCNs>>
             /\ ~Mismatch(p) /\ ParentState(p) = Committed /\ p \in DOMAIN TxCNs
    <3>1. nodes[TxCNs[p]].State = Committed
      BY <2>3 DEF ParentState
    <3>2. Iterated /\ ChildrenStay /\ MayClose
      BY <2>3, <1>s DEF Iterated, ChildrenStay, MayClose
    <3> QED
      BY <2>3, <3>1, <3>2, <1>m, <1>s DEF Unlinked, n
  <2> QED
    BY <1>3, <2>2, <2>3, Zenon DEF ParentCommitted, n
<1> DEFINE own == IF Mismatch(p) THEN WithOwnFailed(n.id) ELSE wait
           more == nodes[TxCNs[p]].WaitPTX
<1>w. ASSUME wait' = JoinWaits(own, more),
             TxCNs' = IF Mismatch(p) THEN Drop(TxCNs, n.id) ELSE TxCNs,
             Mismatch(p) => nodes'[cur].State = Failed
      PROVE  MayClose /\ \A x \in DOMAIN wait : SameEntry(wait'[x], wait[x])
  <2> HIDE DEF more
  <2>1. DOMAIN wait' = DOMAIN own /\ \A x \in DOMAIN wait : own[x] = wait[x] /\ x \in DOMAIN own
    BY <1>w, <1>t DEF JoinWaits
  <2>2. \A x \in DOMAIN wait : wait'[x] \in {wait[x], ListWaiter(wait[x])}
    BY <1>w, <2>1 DEF JoinWaits
  <2>3. \A x \in DOMAIN wait : SameEntry(wait'[x], wait[x])
    BY <2>2, <1>0, <1>s, <1>ListWaiterParts
  <2>4. CASE ~Mismatch(p)
    BY <2>1, <2>3, <2>4, <1>w DEF MayClose
  <2>5. CASE Mismatch(p)
    <3>1. n.id \notin DOMAIN wait => wait'[n.id].ChoosedNode = cur
      <4> SUFFICES ASSUME n.id \notin DOMAIN wait PROVE wait'[n.id].ChoosedNode = cur
        OBVIOUS
      <4>1. /\ n.id \in DOMAIN own /\ own[n.id] = WaitEntry(TRUE, cur)
        BY <2>5 DEF WithOwnFailed, Put
      <4>2. wait'[n.id] \in {WaitEntry(TRUE, cur), ListWaiter(WaitEntry(TRUE, cur))}
        BY <4>1, <1>w, Zenon DEF JoinWaits
      <4>3. DOMAIN WaitEntry(TRUE, cur) = EntryFields /\ WaitEntry(TRUE, cur).ChoosedNode = cur
        BY DEF WaitEntry, EntryFields
      <4> QED
        BY <4>2, <4>3, <1>ListWaiterParts, Zenon DEF SameEntry
    <3> QED
      BY <2>1, <2>3, <2>5, <3>1, <1>w, <1>t, Zenon DEF MayClose, n
  <2> QED
    BY <2>4, <2>5
<1>4. CASE ParentWaiting(p)
  <2> DEFINE q == TxCNs[p]
             listed == [nodes EXCEPT ![q] = AddChild(nodes[q], cur)]
             wf == WaitFor(listed[cur], more)
             linked == Register(wf, p)
             n2 == IF Mismatch(p) THEN Fail(linked) ELSE linked
  <2>1. /\ nodes' = [listed EXCEPT ![cur] = n2] /\ p \in DOMAIN TxCNs
        /\ wait' = JoinWaits(own, more)
        /\ TxCNs' = (IF Mismatch(p) THEN Drop(TxCNs, n.id) ELSE TxCNs)
        /\ todo' = todo \ {p}
        /\ ParentState(p) = Waiting
    BY <1>4, Zenon DEF ParentWaiting, n
  <2>2. q \in 1..cur /\ nodes[q].State = Waiting
    BY <2>1, <1>c, SMTT(40) DEF ParentState
  <2> HIDE DEF q, more, own
  <2>3. /\ DOMAIN listed = 1..cur
        /\ \A m \in 1..cur : /\ IsNode(listed[m]) /\ SameMark(listed[m], nodes[m])
                             /\ SameParents(listed[m], nodes[m])
                             /\ m # q => SameChildren(listed[m], nodes[m])
        /\ listed[q].NChildNodes = Append(nodes[q].NChildNodes, cur)
    <3> DEFINE v == AddChild(nodes[q], cur)
    <3>1. /\ IsNode(v) /\ SameMark(v, nodes[q]) /\ SameParents(v, nodes[q])
          /\ v.NChildNodes = Append(nodes[q].NChildNodes, cur)
      BY <2>2, <1>0, <1>AddChildParts
    <3> HIDE DEF v
    <3>2. \A m \in 1..cur : listed[m] = IF m = q THEN v ELSE nodes[m]
      BY <1>0, <2>2 DEF v
    <3> QED
      BY <3>1, <3>2, <2>2, <1>0, <1>s, Zenon
  <2> HIDE DEF listed
  <2>c. IsNode(listed[cur]) /\ SameMark(listed[cur], n) /\ SameParents(listed[cur], n)
    <3>1. cur \in 1..cur
      BY <1>c
    <3> QED
      BY <2>3, <3>1, Zenon DEF n
  <2>4. /\ IsNode(wf) /\ SameMark(wf, listed[cur]) /\ SameParents(wf, listed[cur])
        /\ SameChildren(wf, listed[cur])
    BY <2>c, <1>WaitParts
  <2> HIDE DEF wf
  <2>5. IsNode(linked) /\ SameMark(linked, wf) /\ Adds(linked, wf, p) /\ SameChildren(linked, wf)
    BY <2>4, <1>RegisterParts
  <2> HIDE DEF linked
  <2>6. /\ SameMark(linked, n) /\ Adds(linked, n, p) /\ SameChildren(linked, listed[cur])
    BY <2>c, <2>4, <2>5 DEF SameMark, SameParents, SameChildren, Adds
  <2>7. /\ Adds(n2, n, p) /\ SameChildren(n2, listed[cur])
        /\ IF Mismatch(p) THEN n2.State = Failed /\ n2.everFailed = TRUE ELSE SameMark(n2, n)
    <3>1. /\ Fail(linked).State = Failed /\ Fail(linked).everFailed = TRUE
          /\ SameParents(Fail(linked), linked) /\ SameChildren(Fail(linked), linked)
      BY <2>5, <1>FailParts, Zenon
    <3> QED
      BY <3>1, <2>6 DEF SameParents, SameChildren, Adds
  <2> HIDE DEF n2
  <2>8. \A m \in 1..cur : nodes'[m] = IF m = cur THEN n2 ELSE listed[m]
    BY <2>1, <2>3
  <2>9. Iterated
    <3>1. \A m \in 1..cur : m # cur => nodes'[m] = listed[m]
      BY <2>8
    <3>2. nodes'[cur] = n2
      BY <2>8, <1>c
    <3> QED
      BY <2>3, <2>7, <3>1, <3>2, Zenon DEF Iterated, n
  <2>10. MayClose /\ \A x \in DOMAIN wait : SameEntry(wait'[x], wait[x])
    BY <2>1, <2>7, <2>8, <1>c, <1>w
  <2>11. /\ \A m \in 1..cur : m # q => SameChildren(nodes'[m], nodes[m])
         /\ nodes'[q].NChildNodes = Append(nodes[q].NChildNodes, cur)
    <3>1. \A m \in 1..cur : SameChildren(nodes'[m], listed[m])
      BY <2>7, <2>8, <1>s
    <3> QED
      BY <2>2, <2>3, <3>1, Zenon DEF SameChildren
  <2>12. nodes'[cur].everFailed = TRUE \/ Agrees(nodes[q].WriteSet, nodes[cur].PTx[p])
    BY <2>7, <2>8, <1>c, <1>m DEF n, q
  <2>13. Adds(nodes'[cur], nodes[cur], p)
    BY <2>7, <2>8, <1>c DEF n
  <2> QED
    BY <2>1, <2>2, <2>9, <2>10, <2>11, <2>12, <2>13, Zenon DEF Linked, q
<1>5. CASE ParentFailed(p)
  <2> DEFINE w == WaitFor(n, more)
             n2 == Fail(w)
  <2>1. /\ nodes' = [nodes EXCEPT ![cur] = n2] /\ p \in DOMAIN TxCNs
        /\ wait' = JoinWaits(own, more)
        /\ TxCNs' = (IF Mismatch(p) THEN Drop(TxCNs, n.id) ELSE TxCNs)
        /\ todo' = {}
    BY <1>5 DEF ParentFailed, n
  <2> HIDE DEF own, more
  <2>2. IsNode(w) /\ SameMark(w, n) /\ SameParents(w, n) /\ SameChildren(w, n)
    BY <1>c, <1>WaitParts
  <2> HIDE DEF w
  <2>3. n2.State = Failed /\ n2.everFailed = TRUE /\ SameParents(n2, w) /\ SameChildren(n2, w)
    BY <2>2, <1>FailParts, Zenon
  <2> HIDE DEF n2
  <2>4. SameParents(n2, n) /\ SameChildren(n2, n)
    BY <2>2, <2>3 DEF SameParents, SameChildren
  <2>5. Iterated /\ ChildrenStay /\ nodes'[cur] = n2
    BY <2>1, <2>3, <2>4, <1>n, Zenon
  <2>6. MayClose /\ \A x \in DOMAIN wait : SameEntry(wait'[x], wait[x])
    BY <2>1, <2>3, <2>5, <1>w, Zenon
  <2> QED
    BY <2>1, <2>3, <2>4, <2>5, <2>6 DEF Unlinked, n
<1> QED
  BY <1>1, <1>2, <1>3, <1>4, <1>5

\* The node made for an envelope is filed, or has failed and its entry is marked.
Entered(env) ==
    /\ nodes'[cur'].State = Waiting /\ nodes'[cur'].everFailed = FALSE
    /\ DOMAIN TxCNs' = DOMAIN TxCNs \cup {env.id}
    /\ wait' = wait /\ todo' = DOMAIN PTx(env)
    /\ env.id \in DOMAIN wait => /\ ~wait[env.id].DiffWaitWKV
                                 /\ Agrees(WriteSet(env), wait[env.id].WriteSet)

Rejected(env) ==
    /\ nodes'[cur'].State = Failed /\ nodes'[cur'].everFailed = TRUE
    /\ TxCNs' = TxCNs /\ todo' = {}
    /\ env.id \in DOMAIN wait /\ DOMAIN wait' = DOMAIN wait
    /\ \A x \in DOMAIN wait : /\ x # env.id => wait'[x] = wait[x]
                              /\ wait'[x].ChoosedNode = wait[x].ChoosedNode
                              /\ wait'[x].NChildNodes = wait[x].NChildNodes
    /\ wait'[env.id].DiffWaitWKV = TRUE

LEMMA ReceiveEffect ==
    ASSUME TypeOK, Receive
    PROVE  \E env \in inbox :
              /\ cur' = cur + 1 /\ cur \in Nat /\ cur' \in 1..cur' /\ cur' \notin 1..cur
              /\ 1..cur' = (1..cur) \cup {cur'} /\ pc = "recv" /\ pc' = "parents"
              /\ inbox' = inbox \ {env} /\ hadWait' = (env.id \in DOMAIN wait)
              /\ \A m \in 1..cur : nodes'[m] = nodes[m]
              /\ nodes'[cur'].id = env.id /\ nodes'[cur'].Parents = {}
              /\ nodes'[cur'].ParentNum = 0 /\ nodes'[cur'].NChildNodes = <<>>
              /\ nodes'[cur'].PTx = PTx(env) /\ nodes'[cur'].WriteSet = WriteSet(env)
              /\ Entered(env) \/ Rejected(env)
              /\ UNCHANGED <<GState, ReadyBatch, batches, stack>>
<1>1. PICK env \in inbox : /\ Enter(env) \/ Reject(env)
                           /\ inbox' = inbox \ {env}
                           /\ hadWait' = (env.id \in DOMAIN wait)
  BY DEF Receive
<1>2. /\ cur' = cur + 1 /\ cur \in Nat /\ cur' \in 1..cur' /\ cur' \notin 1..cur
      /\ 1..cur' = (1..cur) \cup {cur'} /\ pc = "recv" /\ pc' = "parents"
      /\ UNCHANGED <<GState, ReadyBatch, batches, stack>>
      /\ DOMAIN nodes = 1..cur /\ \A x \in DOMAIN wait : DOMAIN wait[x] = EntryFields
  <2>1. cur \in Nat
    BY DEF TypeOK
  <2> QED
    BY <2>1 DEF Receive, TypeOK, EntryOK
<1> DEFINE n == NewNode(env)
<1>3. /\ n.id = env.id /\ n.Parents = {} /\ n.ParentNum = 0 /\ n.NChildNodes = <<>>
      /\ n.PTx = PTx(env) /\ n.WriteSet = WriteSet(env) /\ n.State = Waiting
      /\ n.everFailed = FALSE /\ IsNode(n)
  BY Zenon DEF NewNode, IsNode, NodeFields
<1>4. /\ Fail(n).id = env.id /\ Fail(n).Parents = {} /\ Fail(n).ParentNum = 0
      /\ Fail(n).NChildNodes = <<>> /\ Fail(n).PTx = PTx(env)
      /\ Fail(n).WriteSet = WriteSet(env) /\ Fail(n).State = Failed
      /\ Fail(n).everFailed = TRUE
  BY <1>3 DEF Fail, IsNode, NodeFields
<1> HIDE DEF n
<1>5. CASE Enter(env)
  <2>1. /\ nodes' = Put(nodes, cur', n) /\ TxCNs' = Put(TxCNs, env.id, cur + 1)
        /\ todo' = DOMAIN PTx(env) /\ wait' = wait /\ ~Unexpected(env)
    BY <1>2, <1>5 DEF Enter, File, n
  <2>2. nodes'[cur'] = n /\ \A m \in 1..cur : nodes'[m] = nodes[m]
    BY <2>1, <1>2 DEF Put
  <2>3. DOMAIN TxCNs' = DOMAIN TxCNs \cup {env.id}
    BY <2>1 DEF Put
  <2>4. env.id \in DOMAIN wait => /\ ~wait[env.id].DiffWaitWKV
                                  /\ Agrees(WriteSet(env), wait[env.id].WriteSet)
    BY <2>1 DEF Unexpected, Agrees
  <2> QED
    BY <1>1, <1>2, <1>3, <2>1, <2>2, <2>3, <2>4, Zenon DEF Entered
<1>6. CASE Reject(env)
  <2>1. /\ nodes' = Put(nodes, cur', Fail(n)) /\ TxCNs' = TxCNs
        /\ todo' = {} /\ wait' = [wait EXCEPT ![env.id].DiffWaitWKV = TRUE]
        /\ env.id \in DOMAIN wait
    BY <1>2, <1>6 DEF Reject, Unexpected, n
  <2>2. nodes'[cur'] = Fail(n) /\ \A m \in 1..cur : nodes'[m] = nodes[m]
    BY <2>1, <1>2 DEF Put
  <2>3. /\ DOMAIN wait' = DOMAIN wait
        /\ \A x \in DOMAIN wait : /\ x # env.id => wait'[x] = wait[x]
                                  /\ wait'[x].ChoosedNode = wait[x].ChoosedNode
                                  /\ wait'[x].NChildNodes = wait[x].NChildNodes
        /\ wait'[env.id].DiffWaitWKV = TRUE
    BY <2>1, <1>2 DEF EntryFields
  <2> QED
    BY <1>1, <1>2, <1>4, <2>1, <2>2, <2>3 DEF Rejected
<1> QED
  BY <1>1, <1>5, <1>6, Zenon

\* The current node takes over the children of its entry.
LEMMA AdoptEffect ==
    ASSUME TypeOK, AdoptChildren
    PROVE  LET id == nodes[cur].id
           IN  /\ cur \in 1..cur /\ cur' = cur /\ pc = "parents" /\ pc' = "finish" /\ todo = {}
               /\ \A m \in 1..cur : /\ SameMark(nodes'[m], nodes[m])
                                    /\ SameParents(nodes'[m], nodes[m])
                                    /\ m # cur => SameChildren(nodes'[m], nodes[m])
               /\ ~hadWait => SameChildren(nodes'[cur], nodes[cur]) /\ wait' = wait
               /\ hadWait => /\ id \in DOMAIN wait
                             /\ nodes'[cur].NChildNodes = wait[id].NChildNodes
                             /\ \A x \in DOMAIN wait : x # id => x \in DOMAIN wait' /\ wait'[x] = wait[x]
               /\ hadWait /\ nodes[cur].State # Failed => DOMAIN wait' = DOMAIN wait \ {id}
               /\ hadWait /\ nodes[cur].State = Failed =>
                    DOMAIN wait' = DOMAIN wait /\ wait'[id].ChoosedNode = cur
               /\ UNCHANGED <<inbox, TxCNs, GState, ReadyBatch, batches, todo, hadWait, stack>>
<1> DEFINE id == nodes[cur].id
           n == nodes[cur]
<1>1. /\ cur \in 1..cur /\ cur' = cur /\ pc = "parents" /\ pc' = "finish" /\ todo = {}
      /\ UNCHANGED <<inbox, TxCNs, GState, ReadyBatch, batches, todo, hadWait, stack>>
  BY DEF AdoptChildren, TypeOK
<1>2. /\ DOMAIN nodes = 1..cur /\ \A m \in 1..cur : IsNode(nodes[m])
      /\ hadWait => id \in DOMAIN wait
      /\ \A x \in DOMAIN wait : DOMAIN wait[x] = EntryFields
  BY <1>1 DEF TypeOK, NodeOK, IsNode, EntryOK
<1>3. /\ \A m \in 1..cur : /\ IsNode(Adopted[m])
                           /\ SameMark(Adopted[m], nodes[m]) /\ SameParents(Adopted[m], nodes[m])
                           /\ m # cur => SameChildren(Adopted[m], nodes[m])
      /\ ~hadWait => SameChildren(Adopted[cur], nodes[cur])
      /\ hadWait => Adopted[cur].NChildNodes = wait[id].NChildNodes
  <2>1. CASE hadWait
    <3> DEFINE kids == wait[id].NChildNodes
               v == [n EXCEPT !.NChildNodes = kids]
    <3>1. IsNode(v) /\ SameMark(v, n) /\ SameParents(v, n) /\ v.NChildNodes = kids
      <4> HIDE DEF kids
      <4>1. IsNode(n)
        BY <1>1, <1>2
      <4> HIDE DEF n
      <4> QED
        BY <4>1 DEF IsNode, NodeFields, SameMark, SameParents
    <3>2. Adopted = [nodes EXCEPT ![cur] = v]
      BY <2>1 DEF Adopted
    <3> HIDE DEF v, kids
    <3>3. \A m \in 1..cur : Adopted[m] = IF m = cur THEN v ELSE nodes[m]
      BY <3>2, <1>2
    <3> QED
      BY <2>1, <3>1, <3>3, <1>1, <1>2, Zenon DEF kids, SameMark, SameParents, SameChildren
  <2>2. CASE ~hadWait
    BY <2>2, <1>2 DEF Adopted, SameMark, SameParents, SameChildren
  <2> QED
    BY <2>1, <2>2, Zenon DEF TypeOK
<1>4. \A m \in 1..cur : nodes'[m] \in {Adopted[m], WaitNoMore(Adopted[m], n.id)}
  BY <1>1, <1>2 DEF AdoptChildren
<1>5. \A m \in 1..cur : /\ SameMark(nodes'[m], Adopted[m]) /\ SameParents(nodes'[m], Adopted[m])
                        /\ SameChildren(nodes'[m], Adopted[m])
  <2> SUFFICES ASSUME NEW m \in 1..cur
               PROVE  /\ SameMark(nodes'[m], Adopted[m]) /\ SameParents(nodes'[m], Adopted[m])
                      /\ SameChildren(nodes'[m], Adopted[m])
    OBVIOUS
  <2>1. CASE nodes'[m] = Adopted[m]
    BY <2>1 DEF SameMark, SameParents, SameChildren
  <2>2. CASE nodes'[m] = WaitNoMore(Adopted[m], n.id)
    <3>1. IsNode(Adopted[m])
      BY <1>3
    <3> QED
      BY <2>2, <3>1 DEF WaitNoMore, IsNode, NodeFields, SameMark, SameParents, SameChildren
  <2> QED
    BY <2>1, <2>2, <1>4, Zenon
<1>6. /\ \A m \in 1..cur : /\ SameMark(nodes'[m], nodes[m])
                           /\ SameParents(nodes'[m], nodes[m])
                           /\ m # cur => SameChildren(nodes'[m], nodes[m])
      /\ ~hadWait => SameChildren(nodes'[cur], nodes[cur])
      /\ hadWait => nodes'[cur].NChildNodes = wait[id].NChildNodes
  <2> HIDE DEF id, n
  <2> QED
    BY <1>1, <1>3, <1>5 DEF SameMark, SameParents, SameChildren
<1>7. /\ ~hadWait => wait' = wait
      /\ hadWait /\ n.State # Failed => wait' = Drop(wait, id)
      /\ hadWait /\ n.State = Failed => wait' = [wait EXCEPT ![id].ChoosedNode = cur]
  BY DEF AdoptChildren
<1> HIDE DEF id
<1>8. /\ hadWait => \A x \in DOMAIN wait : x # id => x \in DOMAIN wait' /\ wait'[x] = wait[x]
      /\ hadWait /\ n.State # Failed => DOMAIN wait' = DOMAIN wait \ {id}
      /\ hadWait /\ n.State = Failed => DOMAIN wait' = DOMAIN wait /\ wait'[id].ChoosedNode = cur
  <2>1. CASE hadWait /\ n.State # Failed
    BY <2>1, <1>7 DEF Drop, Restrict
  <2>2. CASE hadWait /\ n.State = Failed
    BY <2>2, <1>2, <1>7 DEF EntryFields
  <2> QED
    BY <2>1, <2>2
<1> QED
  BY <1>1, <1>2, <1>6, <1>7, <1>8 DEF id

\* a call of Delete on the stack s has still to visit the child i of node q
Pending(s, q, i) == \E f \in 1..Len(s) : s[f].node = q /\ s[f].next <= i

\* the stack s is the stack t, where the last call has visited one child more
Advanced(s, t) ==
    /\ Len(s) = Len(t)
    /\ \A f \in 1..Len(t) : /\ s[f].node = t[f].node /\ s[f].State = t[f].State
                            /\ s[f].next = IF f = Len(t) THEN t[f].next + 1 ELSE t[f].next

\* and has called Delete for node c
Pushed(s, t, c, st) ==
    /\ Len(s) = Len(t) + 1
    /\ \A f \in 1..Len(t) : /\ s[f].node = t[f].node /\ s[f].State = t[f].State
                            /\ s[f].next = IF f = Len(t) THEN t[f].next + 1 ELSE t[f].next
    /\ s[Len(t) + 1].node = c /\ s[Len(t) + 1].State = st /\ s[Len(t) + 1].next = 1

LEMMA StackParts ==
    ASSUME TypeOK, pc = "delete", stack # <<>>
    PROVE  /\ Len(stack) \in Nat \ {0} /\ Len(stack) \in 1..Len(stack)
           /\ \A f \in 1..Len(stack) : /\ stack[f].node \in 1..cur
                                       /\ stack[f].next \in Nat \ {0}
                                       /\ stack[f].State \in {Committed, Failed}
           /\ Advanced(Rest, stack)
           /\ \A c, st : Pushed(Append(Rest, Call(c, st)), stack, c, st)
           /\ Top \in Frame(1..cur) /\ Children(Top.node) \in Seq(1..cur)
           /\ Top.next <= Len(Children(Top.node)) => /\ Top.node \in 1..cur
                                                     /\ Top.next \in 1..Len(Children(Top.node))
                                                     /\ Children(Top.node)[Top.next] \in 1..cur
<1>1. stack \in Seq(Frame(1..cur))
  BY DEF TypeOK
<1>2. Len(stack) \in Nat \ {0} /\ Len(stack) \in 1..Len(stack) /\ DOMAIN stack = 1..Len(stack)
  BY <1>1
<1>3. \A f \in 1..Len(stack) : /\ stack[f] \in Frame(1..cur)
                               /\ stack[f].node \in 1..cur
                               /\ stack[f].next \in Nat \ {0}
                               /\ stack[f].State \in {Committed, Failed}
  <2>1. \A f \in 1..Len(stack) : stack[f] \in Frame(1..cur)
    BY <1>1
  <2> QED
    BY <2>1 DEF Frame
<1>t. Top \in Frame(1..cur) /\ Top.next \in Nat \ {0}
  BY <1>2, <1>3 DEF Top
<1>k. Children(Top.node) \in Seq(1..cur)
  BY <1>t DEF Frame, Children, TypeOK, NodeOK
<1>c. Top.next <= Len(Children(Top.node)) => Children(Top.node)[Top.next] \in 1..cur
  BY <1>t, <1>k, ElementOK, Zenon
<1>d. Top.next <= Len(Children(Top.node)) => Top.next \in 1..Len(Children(Top.node))
  <2>1. Len(Children(Top.node)) \in Nat
    BY <1>k
  <2> QED
    BY <1>t, <2>1
<1>e. Top.node \in 1..cur
  BY <1>t DEF Frame
<1>4. Rest \in Seq(Frame(1..cur)) /\ Len(Rest) = Len(stack)
  <2>1. Rest \in Seq(Frame(1..cur))
    <3>1. [stack[Len(stack)] EXCEPT !.next = stack[Len(stack)].next + 1] \in Frame(1..cur)
      BY <1>t DEF Frame, Top
    <3> QED
      BY <1>1, <1>2, <3>1 DEF Rest
  <2>2. DOMAIN Rest = DOMAIN stack
    BY DEF Rest
  <2> QED
    BY <2>1, <2>2, <1>2
<1>5. \A f \in 1..Len(stack) : /\ f # Len(stack) => Rest[f] = stack[f]
                               /\ f = Len(stack) => Rest[f] = [stack[f] EXCEPT !.next = @ + 1]
  BY <1>2 DEF Rest
<1>6. Advanced(Rest, stack)
  <2> SUFFICES ASSUME NEW f \in 1..Len(stack)
               PROVE  /\ Rest[f].node = stack[f].node /\ Rest[f].State = stack[f].State
                      /\ Rest[f].next = IF f = Len(stack) THEN stack[f].next + 1 ELSE stack[f].next
    BY <1>4 DEF Advanced
  <2>1. CASE f # Len(stack)
    BY <2>1, <1>5, Zenon
  <2>2. CASE f = Len(stack)
    <3>1. Rest[f] = [stack[f] EXCEPT !.next = stack[f].next + 1] /\ stack[f] \in Frame(1..cur)
      BY <2>2, <1>3, <1>5
    <3> QED
      BY <2>2, <3>1 DEF Frame
  <2> QED
    BY <2>1, <2>2
<1>7. ASSUME NEW c, NEW st PROVE Pushed(Append(Rest, Call(c, st)), stack, c, st)
  <2>1. Call(c, st).node = c /\ Call(c, st).State = st /\ Call(c, st).next = 1
    BY DEF Call
  <2> DEFINE f == Call(c, st)
  <2> HIDE DEF f
  <2>2. /\ Len(Append(Rest, f)) = Len(stack) + 1
        /\ \A i \in 1..Len(stack) : Append(Rest, f)[i] = Rest[i]
        /\ Append(Rest, f)[Len(stack) + 1] = f
    BY <1>2, <1>4
  <2> QED
    BY <2>1, <2>2, <1>6 DEF f, Advanced, Pushed
<1> QED
  BY <1>2, <1>3, <1>6, <1>7, <1>t, <1>k, <1>c, <1>d, <1>e

\* Which children the calls on the stack have still to visit after a step of Delete.
LEMMA PendingStep ==
    ASSUME TypeOK, pc = "delete", stack # <<>>, NEW q, NEW i \in Nat
    PROVE  /\ Advanced(stack', stack) =>
                /\ Pending(stack', q, i) => Pending(stack, q, i)
                /\ Pending(stack, q, i) => \/ Pending(stack', q, i)
                                           \/ q = Top.node /\ i = Top.next
           /\ \A c \in 1..cur : \A st : Pushed(stack', stack, c, st) =>
                /\ Pending(stack', q, i) => Pending(stack, q, i) \/ q = c
                /\ Pending(stack, q, i) => \/ Pending(stack', q, i)
                                           \/ q = Top.node /\ i = Top.next
                /\ q = c /\ i > 0 => Pending(stack', q, i)
<1>1. /\ Len(stack) \in Nat \ {0} /\ Len(stack) \in 1..Len(stack)
      /\ \A f \in 1..Len(stack) : stack[f].next \in Nat \ {0}
  BY StackParts
<1> DEFINE l == Len(stack)
<1>2. Top = stack[l]
  BY DEF Top
<1>3. ASSUME Advanced(stack', stack)
      PROVE  /\ Pending(stack', q, i) => Pending(stack, q, i)
             /\ Pending(stack, q, i) => \/ Pending(stack', q, i)
                                        \/ q = Top.node /\ i = Top.next
  <2>1. /\ Len(stack') = l
        /\ \A f \in 1..l : /\ stack'[f].node = stack[f].node
                           /\ stack'[f].next = IF f = l THEN stack[f].next + 1 ELSE stack[f].next
    BY <1>3 DEF Advanced
  <2>2. Pending(stack', q, i) <=> \E f \in 1..l : stack'[f].node = q /\ stack'[f].next <= i
    BY <2>1 DEF Pending
  <2>3. Pending(stack, q, i) <=> \E f \in 1..l : stack[f].node = q /\ stack[f].next <= i
    BY DEF Pending
  <2> HIDE DEF l
  <2>4. \A f \in 1..l : stack[f].next <= i => stack'[f].next <= i \/ (f = l /\ i = Top.next)
    BY <2>1, <1>1, <1>2 DEF l
  <2>5. \A f \in 1..l : stack'[f].next <= i => stack[f].next <= i
    BY <2>1, <1>1 DEF l
  <2> QED
    BY <2>1, <2>2, <2>3, <2>4, <2>5, <1>2
<1>4. ASSUME NEW c \in 1..cur, NEW st, Pushed(stack', stack, c, st)
      PROVE  /\ Pending(stack', q, i) => Pending(stack, q, i) \/ q = c
             /\ Pending(stack, q, i) => \/ Pending(stack', q, i)
                                        \/ q = Top.node /\ i = Top.next
             /\ q = c /\ i > 0 => Pending(stack', q, i)
  <2>1. /\ Len(stack') = l + 1
        /\ \A f \in 1..l : /\ stack'[f].node = stack[f].node
                           /\ stack'[f].next = IF f = l THEN stack[f].next + 1 ELSE stack[f].next
        /\ stack'[l + 1].node = c /\ stack'[l + 1].next = 1
    BY <1>4 DEF Pushed
  <2>2. Pending(stack', q, i) <=> \E f \in 1..(l + 1) : stack'[f].node = q /\ stack'[f].next <= i
    BY <2>1 DEF Pending
  <2>3. Pending(stack, q, i) <=> \E f \in 1..l : stack[f].node = q /\ stack[f].next <= i
    BY DEF Pending
  <2>4. 1..(l + 1) = (1..l) \cup {l + 1}
    BY <1>1
  <2> HIDE DEF l
  <2>5. \A f \in 1..l : stack[f].next <= i => stack'[f].next <= i \/ (f = l /\ i = Top.next)
    BY <2>1, <1>1, <1>2 DEF l
  <2>6. \A f \in 1..l : stack'[f].next <= i => stack[f].next <= i
    BY <2>1, <1>1 DEF l
  <2> QED
    BY <2>1, <2>2, <2>3, <2>4, <2>5, <2>6, <1>2
<1> QED
  BY <1>3, <1>4

\* only node c changes, and no list of children
OnlyMarks(c) ==
    /\ ChildrenStay
    /\ \A m \in 1..cur : m # c => SameMark(nodes'[m], nodes[m]) /\ SameParents(nodes'[m], nodes[m])

\* node c is released
Releases(c) ==
    /\ nodes'[c].State = Committed /\ nodes'[c].everFailed = nodes[c].everFailed
    /\ ReadyBatch' = Append(ReadyBatch, c)

\* node c is failed, and nothing is released
Fails(c) ==
    /\ nodes'[c].State = Failed /\ nodes'[c].everFailed = TRUE
    /\ ReadyBatch' = ReadyBatch

Quiet(c) == SameMark(nodes'[c], nodes[c]) /\ ReadyBatch' = ReadyBatch

LEMMA OnlyMarksOne ==
    ASSUME TypeOK, NEW c \in 1..cur, NEW v, nodes' = [nodes EXCEPT ![c] = v],
           SameChildren(v, nodes[c])
    PROVE  OnlyMarks(c) /\ nodes'[c] = v
<1>1. \A m \in 1..cur : nodes'[m] = IF m = c THEN v ELSE nodes[m]
  BY DEF TypeOK
<1> QED
  BY <1>1 DEF OnlyMarks, ChildrenStay, SameMark, SameParents, SameChildren

LEMMA FinishEffect ==
    ASSUME TypeOK, Finish
    PROVE  /\ cur \in 1..cur /\ cur' = cur /\ pc = "finish"
           /\ OnlyMarks(cur) /\ SameParents(nodes'[cur], nodes[cur])
           /\ UNCHANGED <<inbox, TxCNs, wait, batches>>
           /\ \/ /\ nodes[cur].State # Failed /\ nodes[cur].ParentNum = 0
                 /\ Releases(cur)
                 /\ pc' = "delete" /\ stack' = <<Call(cur, Committed)>>
              \/ /\ nodes[cur].State = Failed /\ Quiet(cur)
                 /\ pc' = "delete" /\ stack' = <<Call(cur, Failed)>>
              \/ /\ nodes[cur].State # Failed /\ nodes[cur].ParentNum # 0 /\ Quiet(cur)
                 /\ pc' = "cut" /\ stack' = stack
<1>1. /\ cur \in 1..cur /\ cur' = cur /\ pc = "finish" /\ IsNode(nodes[cur])
      /\ UNCHANGED <<inbox, TxCNs, wait, batches>>
  BY SMTT(40) DEF Finish, TypeOK, NodeOK, IsNode
<1> DEFINE v == [nodes[cur] EXCEPT !.State = Committed]
<1>2. CASE /\ nodes[cur].State # Failed /\ nodes[cur].ParentNum = 0 /\ Release(cur, nodes)
           /\ pc' = "delete" /\ stack' = <<Call(cur, Committed)>>
  <2>1. nodes' = [nodes EXCEPT ![cur] = v] /\ ReadyBatch' = Append(ReadyBatch, cur)
    BY <1>2 DEF Release
  <2>2. /\ v.State = Committed /\ v.everFailed = nodes[cur].everFailed
        /\ SameParents(v, nodes[cur]) /\ SameChildren(v, nodes[cur])
    BY <1>1 DEF IsNode, NodeFields, SameParents, SameChildren
  <2> HIDE DEF v
  <2>3. OnlyMarks(cur) /\ nodes'[cur] = v
    BY <2>1, <2>2, <1>1, OnlyMarksOne, Zenon
  <2> QED
    BY <1>1, <1>2, <2>1, <2>2, <2>3 DEF Releases
<1>3. CASE /\ \/ nodes[cur].State = Failed /\ pc' = "delete" /\ stack' = <<Call(cur, Failed)>>
              \/ nodes[cur].State # Failed /\ nodes[cur].ParentNum # 0 /\ pc' = "cut" /\ stack' = stack
           /\ UNCHANGED <<nodes, ReadyBatch>>
  <2>1. /\ OnlyMarks(cur) /\ SameParents(nodes'[cur], nodes[cur]) /\ Quiet(cur)
    BY <1>3 DEF OnlyMarks, ChildrenStay, Quiet, SameMark, SameParents, SameChildren
  <2> QED
    BY <1>1, <1>3, <2>1, Zenon
<1> QED
  BY <1>2, <1>3, Zenon DEF Finish

LEMMA FailChildEffect ==
    ASSUME TypeOK, FailChild
    PROVE  /\ pc = "delete" /\ stack # <<>> /\ Top.State = Failed
           /\ Top.node \in 1..cur /\ Top.next \in 1..Len(nodes[Top.node].NChildNodes)
           /\ UNCHANGED <<inbox, cur, TxCNs, wait, GState, ReadyBatch, batches, pc>>
           /\ LET c == nodes[Top.node].NChildNodes[Top.next]
              IN  /\ c \in 1..cur
                  /\ OnlyMarks(c) /\ SameParents(nodes'[c], nodes[c])
                  /\ \/ nodes[c].State # Failed /\ Fails(c) /\ Pushed(stack', stack, c, Failed)
                     \/ nodes[c].State = Failed /\ Quiet(c) /\ Advanced(stack', stack)
<1> DEFINE c == nodes[Top.node].NChildNodes[Top.next]
<1>1. /\ pc = "delete" /\ stack # <<>> /\ Top.State = Failed /\ Top.next <= Len(Children(Top.node))
      /\ UNCHANGED <<inbox, cur, TxCNs, wait, GState, ReadyBatch, batches, pc>>
      /\ \/ /\ nodes[c].State # Failed
            /\ nodes' = [nodes EXCEPT ![c] = Fail(nodes[c])]
            /\ stack' = Append(Rest, Call(c, Failed))
         \/ /\ nodes[c].State = Failed
            /\ stack' = Rest
            /\ nodes' = nodes
  BY Zenon DEF FailChild, Children
<1>2. Top \in Frame(1..cur) /\ Children(Top.node) \in Seq(1..cur) /\ c \in 1..cur
  BY <1>1, StackParts, Zenon DEF Children
<1>3. Top.node \in 1..cur /\ Top.next \in 1..Len(nodes[Top.node].NChildNodes)
  BY <1>1, StackParts, Zenon DEF Children
<1> HIDE DEF c
<1>4. IsNode(nodes[c])
  BY <1>2 DEF TypeOK, NodeOK, IsNode
<1>5. CASE /\ nodes[c].State # Failed
           /\ nodes' = [nodes EXCEPT ![c] = Fail(nodes[c])]
           /\ stack' = Append(Rest, Call(c, Failed))
  <2> DEFINE v == Fail(nodes[c])
  <2>1. /\ v.State = Failed /\ v.everFailed = TRUE
        /\ SameParents(v, nodes[c]) /\ SameChildren(v, nodes[c])
    BY <1>4 DEF Fail, IsNode, NodeFields, SameParents, SameChildren
  <2> HIDE DEF v
  <2>2. OnlyMarks(c) /\ nodes'[c] = v
    BY <2>1, <1>2, <1>5, OnlyMarksOne, Zenon DEF v
  <2>3. Pushed(stack', stack, c, Failed)
    BY <1>1, <1>5, StackParts
  <2> QED
    BY <1>1, <1>2, <1>3, <1>5, <2>1, <2>2, <2>3, Zenon DEF c, Fails
<1>6. CASE nodes[c].State = Failed /\ stack' = Rest /\ nodes' = nodes
  <2>1. OnlyMarks(c) /\ SameParents(nodes'[c], nodes[c]) /\ Quiet(c)
    BY <1>1, <1>6 DEF OnlyMarks, ChildrenStay, Quiet, SameMark, SameParents, SameChildren
  <2>2. Advanced(stack', stack)
    BY <1>1, <1>6, StackParts
  <2> QED
    BY <1>1, <1>2, <1>3, <1>6, <2>1, <2>2, Zenon DEF c
<1> QED
  BY <1>1, <1>5, <1>6, Zenon

LEMMA ReleaseChildEffect ==
    ASSUME TypeOK, ReleaseChild
    PROVE  /\ pc = "delete" /\ stack # <<>> /\ Top.State = Committed
           /\ Top.node \in 1..cur /\ Top.next \in 1..Len(nodes[Top.node].NChildNodes)
           /\ UNCHANGED <<inbox, cur, TxCNs, wait, batches, pc>>
           /\ LET c == nodes[Top.node].NChildNodes[Top.next]
              IN  /\ c \in 1..cur
                  /\ OnlyMarks(c) /\ Takes(nodes'[c], nodes[c], nodes[Top.node].id)
                  /\ \/ /\ nodes'[c].ParentNum = 0 /\ Releases(c)
                        /\ Pushed(stack', stack, c, Committed)
                     \/ nodes'[c].ParentNum # 0 /\ Quiet(c) /\ Advanced(stack', stack)
<1> DEFINE c == nodes[Top.node].NChildNodes[Top.next]
           u == Unregister(nodes[c], nodes[Top.node].id)
           ns == [nodes EXCEPT ![c] = u]
<1>1. /\ pc = "delete" /\ stack # <<>> /\ Top.State = Committed
      /\ Top.next <= Len(Children(Top.node))
      /\ UNCHANGED <<inbox, cur, TxCNs, wait, batches, pc>>
      /\ \/ /\ LastParent(ns[c])
            /\ Release(c, ns)
            /\ stack' = Append(Rest, Call(c, Committed))
         \/ /\ ~LastParent(ns[c])
            /\ nodes' = ns /\ stack' = Rest /\ ReadyBatch' = ReadyBatch
  BY Zenon DEF ReleaseChild, Children
<1>2. Top \in Frame(1..cur) /\ Children(Top.node) \in Seq(1..cur) /\ c \in 1..cur
  BY <1>1, StackParts, Zenon DEF Children
<1>3. Top.node \in 1..cur /\ Top.next \in 1..Len(nodes[Top.node].NChildNodes)
  BY <1>1, StackParts, Zenon DEF Children
<1> HIDE DEF c
<1>4. IsNode(nodes[c])
  BY <1>2 DEF TypeOK, NodeOK, IsNode
<1>5. /\ IsNode(u) /\ SameMark(u, nodes[c]) /\ Takes(u, nodes[c], nodes[Top.node].id)
      /\ SameChildren(u, nodes[c])
  BY <1>4 DEF Unregister, IsNode, NodeFields, SameMark, Takes, SameChildren
<1> HIDE DEF u
<1>6. ns[c] = u
  BY <1>2 DEF TypeOK
<1>7. CASE /\ LastParent(ns[c]) /\ Release(c, ns)
           /\ stack' = Append(Rest, Call(c, Committed))
  <2> DEFINE v == [u EXCEPT !.State = Committed]
  <2>1. /\ v.State = Committed /\ v.everFailed = u.everFailed
        /\ SameParents(v, u) /\ SameChildren(v, u)
    BY <1>5 DEF IsNode, NodeFields, SameParents, SameChildren
  <2>2. nodes' = [nodes EXCEPT ![c] = v] /\ ReadyBatch' = Append(ReadyBatch, c)
    BY <1>6, <1>7, <1>2, Zenon DEF Release, TypeOK
  <2> HIDE DEF v
  <2>3. SameChildren(v, nodes[c]) /\ Takes(v, nodes[c], nodes[Top.node].id)
    BY <2>1, <1>5 DEF SameParents, SameChildren, Takes
  <2>4. OnlyMarks(c) /\ nodes'[c] = v
    BY <2>2, <2>3, <1>2, OnlyMarksOne, Zenon
  <2>5. Pushed(stack', stack, c, Committed)
    BY <1>1, <1>7, StackParts
  <2>6. nodes'[c].ParentNum = 0 /\ Releases(c)
    BY <2>1, <2>2, <2>4, <1>5, <1>6, <1>7 DEF LastParent, Releases, SameParents, SameMark
  <2> QED
    BY <1>1, <1>2, <1>3, <2>3, <2>4, <2>5, <2>6, Zenon DEF c
<1>8. CASE ~LastParent(ns[c]) /\ nodes' = ns /\ stack' = Rest /\ ReadyBatch' = ReadyBatch
  <2>1. OnlyMarks(c) /\ nodes'[c] = u
    BY <1>2, <1>5, <1>8, OnlyMarksOne, Zenon
  <2>2. Advanced(stack', stack)
    BY <1>1, <1>8, StackParts
  <2>3. nodes'[c].ParentNum # 0 /\ Quiet(c)
    BY <2>1, <1>5, <1>6, <1>8 DEF LastParent, Quiet
  <2> QED
    BY <1>1, <1>2, <1>3, <1>5, <2>1, <2>2, <2>3, Zenon DEF c
<1> QED
  BY <1>1, <1>7, <1>8, Zenon

LEMMA ReturnEffect ==
    ASSUME TypeOK, Return
    PROVE  /\ pc = "delete" /\ stack # <<>>
           /\ Top.next > Len(nodes[Top.node].NChildNodes)
           /\ Len(stack') = Len(stack) - 1
           /\ \A f \in 1..Len(stack') : stack'[f] = stack[f] /\ f \in 1..Len(stack)
           /\ pc' \in {"cut", "delete"} /\ (pc' = "delete" <=> stack' # <<>>)
           /\ UNCHANGED <<inbox, cur, nodes, TxCNs, wait, GState, ReadyBatch, batches, todo, hadWait>>
<1>FrontParts. ASSUME NEW S, NEW s \in Seq(S), s # <<>>
               PROVE  LET t == SubSeq(s, 1, Len(s) - 1)
                      IN  /\ t \in Seq(S) /\ Len(t) = Len(s) - 1 /\ Len(s) \in Nat \ {0}
                          /\ \A f \in 1..(Len(s) - 1) : t[f] = s[f] /\ f \in 1..Len(s)
  <2>1. Len(s) \in Nat \ {0}
    BY <1>FrontParts
  <2>2. ASSUME NEW n \in 0..Len(s)
        PROVE  /\ SubSeq(s, 1, n) \in Seq(S) /\ Len(SubSeq(s, 1, n)) = n
               /\ \A f \in 1..n : SubSeq(s, 1, n)[f] = s[f] /\ f \in 1..Len(s)
    BY <1>FrontParts
  <2>3. Len(s) - 1 \in 0..Len(s)
    BY <1>FrontParts, <2>1
  <2> QED
    BY <1>FrontParts, <2>1, <2>2, <2>3, Zenon
<1>1. /\ pc = "delete" /\ stack # <<>> /\ stack \in Seq(Frame(1..cur))
      /\ Top.next > Len(nodes[Top.node].NChildNodes)
      /\ stack' = SubSeq(stack, 1, Len(stack) - 1)
      /\ pc' = (IF Len(stack) = 1 THEN "cut" ELSE "delete")
      /\ UNCHANGED <<inbox, cur, nodes, TxCNs, wait, GState, ReadyBatch, batches, todo, hadWait>>
  <2>1. stack \in Seq(Frame(1..cur))
    BY DEF TypeOK
  <2> QED
    BY <2>1, Zenon DEF Return, graph, Children
<1>2. Len(stack) \in Nat \ {0}
  BY <1>1
<1>3. /\ Len(stack') = Len(stack) - 1
      /\ \A f \in 1..(Len(stack) - 1) : stack'[f] = stack[f] /\ f \in 1..Len(stack)
      /\ stack' \in Seq(Frame(1..cur))
  BY <1>1, <1>FrontParts, Zenon
<1>4. stack' # <<>> <=> Len(stack) # 1
  BY <1>2, <1>3
<1> QED
  BY <1>1, <1>3, <1>4

---------------------------------------------------------------------------
(* The inductive invariant.                                                *)

\* no transaction arrives twice
Distinct ==
    /\ \A m, k \in 1..cur : nodes[m].id = nodes[k].id => m = k
    /\ \A m \in 1..cur : \A env \in inbox : nodes[m].id # env.id
    /\ \A e, f \in inbox : e.id = f.id => e = f

\* An entry is open (no ChoosedNode) only while its transaction has not arrived, or is
\* the one the loop is about; a transaction that arrived is filed or has an entry.
Entries ==
    /\ \A x \in DOMAIN wait : wait[x].ChoosedNode # 0 => nodes[wait[x].ChoosedNode].id = x
    /\ \A m \in 1..cur : ~(m = cur /\ pc = "parents") =>
         /\ nodes[m].id \in DOMAIN wait => wait[nodes[m].id].ChoosedNode # 0
         /\ nodes[m].id \notin DOMAIN TxCNs => nodes[m].id \in DOMAIN wait

OwnEntry ==
    pc = "parents" =>
        /\ nodes[cur].State # Failed => nodes[cur].id \in DOMAIN TxCNs
        /\ nodes[cur].id \notin DOMAIN TxCNs => nodes[cur].id \in DOMAIN wait
        /\ hadWait => wait[nodes[cur].id].ChoosedNode = 0
        /\ ~hadWait /\ nodes[cur].id \in DOMAIN wait => wait[nodes[cur].id].ChoosedNode # 0

\* The calls of Delete on the stack are about nodes marked as the calls say, and no
\* released node is there twice.
Frames ==
    /\ pc = "delete" <=> stack # <<>>
    /\ \A f \in 1..Len(stack) : nodes[stack[f].node].State = stack[f].State
    /\ \A f, g \in 1..Len(stack) : stack[f].State = stack[g].State
    /\ \A f, g \in 1..Len(stack) :
         stack[f].State = Committed /\ stack[f].node = stack[g].node => f = g

\* A link that can still call its child is counted by the child.
Links ==
    \A q \in 1..cur : \A i \in 1..Len(nodes[q].NChildNodes) :
        nodes[q].State # Committed \/ Pending(stack, q, i) =>
            nodes[q].id \in nodes[nodes[q].NChildNodes[i]].Parents

NoRepeats ==
    \A q \in 1..cur : \A i, j \in 1..Len(nodes[q].NChildNodes) :
        nodes[q].NChildNodes[i] = nodes[q].NChildNodes[j] => i = j

EntryLinks ==
    \A x \in DOMAIN wait : wait[x].ChoosedNode = 0 =>
        /\ \A i \in 1..Len(wait[x].NChildNodes) : x \in nodes[wait[x].NChildNodes[i]].Parents
        /\ \A i, j \in 1..Len(wait[x].NChildNodes) :
             wait[x].NChildNodes[i] = wait[x].NChildNodes[j] => i = j

\* ParentNum is the number of parents, and a released node has none.
Counted ==
    /\ \A m \in 1..cur : Counts(nodes[m].ParentNum, nodes[m].Parents)
    /\ \A m \in 1..cur : nodes[m].State = Committed => nodes[m].Parents = {}
    /\ pc = "parents" => todo \cap nodes[cur].Parents = {}
    /\ pc \in {"parents", "finish"} => nodes[cur].State # Committed

LinkInv == /\ TypeOK /\ Distinct /\ Entries /\ OwnEntry /\ Frames
           /\ Links /\ NoRepeats /\ EntryLinks /\ Counted

\* A step keeps the types and what was read and written: TypeStep of CEGraphProofs.
Typed == TypeOK' /\ Fixed
Step == [Next]_vars /\ Typed

LEMMA AppendParts ==
    ASSUME NEW S, NEW s \in Seq(S), NEW c
    PROVE  /\ Len(Append(s, c)) = Len(s) + 1 /\ Len(s) \in Nat
           /\ Append(s, c)[Len(s) + 1] = c
           /\ \A i \in 1..Len(s) : Append(s, c)[i] = s[i]
           /\ 1..Len(Append(s, c)) = (1..Len(s)) \cup {Len(s) + 1}
           /\ Len(s) + 1 \notin 1..Len(s)
OBVIOUS

LEMMA KidsOK ==
    ASSUME TypeOK
    PROVE  /\ \A q \in 1..cur : /\ nodes[q].NChildNodes \in Seq(1..cur)
                                /\ Len(nodes[q].NChildNodes) \in Nat
                                /\ \A i \in 1..Len(nodes[q].NChildNodes) :
                                     nodes[q].NChildNodes[i] \in 1..cur
           /\ \A x \in DOMAIN wait : /\ wait[x].NChildNodes \in Seq(1..cur)
                                     /\ wait[x].ChoosedNode \in {0} \cup 1..cur
                                     /\ \A i \in 1..Len(wait[x].NChildNodes) :
                                          wait[x].NChildNodes[i] \in 1..cur
           /\ 0 \notin 1..cur
<1>0. \A S, s : s \in Seq(S) => Len(s) \in Nat /\ \A i \in 1..Len(s) : s[i] \in S
  OBVIOUS
<1>1. \A q \in 1..cur : nodes[q].NChildNodes \in Seq(1..cur)
  BY DEF TypeOK, NodeOK
<1>2. \A x \in DOMAIN wait : /\ wait[x].NChildNodes \in Seq(1..cur)
                             /\ wait[x].ChoosedNode \in {0} \cup 1..cur
  BY DEF TypeOK, EntryOK
<1>3. 0 \notin 1..cur
  <2>1. cur \in Nat
    BY DEF TypeOK
  <2> QED
    BY <2>1
<1> QED
  BY <1>0, <1>1, <1>2, <1>3, Zenon

LEMMA NoStack == LinkInv /\ pc # "delete" => /\ stack = <<>> /\ Len(stack) = 0 /\ 1..Len(stack) = {}
                                             /\ \A q, i : ~Pending(stack, q, i)
BY DEF LinkInv, Frames, Pending

LEMMA InitLinkInv == ASSUME UniqueIds PROVE Init /\ TypeOK => LinkInv
<1> SUFFICES ASSUME Init, TypeOK PROVE LinkInv
  OBVIOUS
<1>1. /\ TypeOK /\ cur = 0 /\ 1..cur = {} /\ DOMAIN wait = {} /\ pc = "recv"
      /\ stack = <<>> /\ 1..Len(stack) = {} /\ inbox \in Workloads
  BY DEF Init, NoMap
<1> QED
  BY <1>1, Zenon DEF LinkInv, Distinct, Entries, OwnEntry, Frames, Links, NoRepeats, EntryLinks, Counted,
              UniqueIds

LEMMA ReceiveLinks == LinkInv /\ Receive /\ Typed => LinkInv'
<1> SUFFICES ASSUME LinkInv, Receive, Typed PROVE LinkInv'
  OBVIOUS
<1>0. TypeOK /\ TypeOK'
  BY DEF LinkInv, Typed
<1>1. PICK env \in inbox :
              /\ cur' = cur + 1 /\ cur \in Nat /\ cur' \in 1..cur' /\ cur' \notin 1..cur
              /\ 1..cur' = (1..cur) \cup {cur'} /\ pc = "recv" /\ pc' = "parents"
              /\ inbox' = inbox \ {env} /\ hadWait' = (env.id \in DOMAIN wait)
              /\ \A m \in 1..cur : nodes'[m] = nodes[m]
              /\ nodes'[cur'].id = env.id /\ nodes'[cur'].Parents = {}
              /\ nodes'[cur'].ParentNum = 0 /\ nodes'[cur'].NChildNodes = <<>>
              /\ nodes'[cur'].PTx = PTx(env) /\ nodes'[cur'].WriteSet = WriteSet(env)
              /\ Entered(env) \/ Rejected(env)
              /\ UNCHANGED <<GState, ReadyBatch, batches, stack>>
  BY <1>0, ReceiveEffect
<1>2. /\ nodes'[cur'].State # Committed
      /\ DOMAIN wait' = DOMAIN wait
      /\ \A x \in DOMAIN wait : /\ wait'[x].ChoosedNode = wait[x].ChoosedNode
                                /\ wait'[x].NChildNodes = wait[x].NChildNodes
      /\ DOMAIN TxCNs \subseteq DOMAIN TxCNs'
      /\ env.id \in DOMAIN TxCNs' \/ env.id \in DOMAIN wait
      /\ nodes'[cur'].State # Failed => env.id \in DOMAIN TxCNs'
  BY <1>1 DEF Entered, Rejected
<1>3. stack = <<>> /\ stack' = <<>> /\ \A q, i : ~Pending(stack, q, i) /\ ~Pending(stack', q, i)
  BY <1>1, NoStack
<1>4. Distinct'
  BY <1>1 DEF LinkInv, Distinct
<1>5. Entries'
  <2>1. \A x \in DOMAIN wait : wait[x].ChoosedNode \in {0} \cup 1..cur
    BY <1>0, KidsOK
  <2>2. Entries
    BY DEF LinkInv
  <2> QED
    BY <1>1, <1>2, <2>1, <2>2 DEF Entries
<1>6. OwnEntry'
  <2>1. \A x \in DOMAIN wait : wait[x].ChoosedNode \in {0} \cup 1..cur
    BY <1>0, KidsOK
  <2>2. /\ \A m \in 1..cur : nodes[m].id # env.id
        /\ \A x \in DOMAIN wait : wait[x].ChoosedNode # 0 => nodes[wait[x].ChoosedNode].id = x
    BY Zenon DEF LinkInv, Distinct, Entries
  <2>3. env.id \in DOMAIN wait => wait[env.id].ChoosedNode = 0
    BY <2>1, <2>2
  <2> QED
    BY <1>1, <1>2, <2>3, Zenon DEF OwnEntry
<1>7. Frames'
  BY <1>1, <1>3, SMTT(40) DEF Frames
<1>8. /\ \A q \in 1..cur : \A i \in 1..Len(nodes[q].NChildNodes) : nodes[q].NChildNodes[i] \in 1..cur
      /\ \A x \in DOMAIN wait : \A i \in 1..Len(wait[x].NChildNodes) : wait[x].NChildNodes[i] \in 1..cur
      /\ 1..Len(<<>>) = {}
  BY <1>0, KidsOK
<1>9. /\ \A q \in 1..cur' : q \in 1..cur \/ q = cur'
      /\ \A q \in 1..cur : nodes'[q] = nodes[q]
      /\ nodes'[cur'].NChildNodes = <<>>
  BY <1>1
<1>10. Links' /\ NoRepeats'
  <2>1. Links /\ NoRepeats
    BY DEF LinkInv
  <2> QED
    BY <1>3, <1>8, <1>9, <2>1, ZenonT(60) DEF Links, NoRepeats
<1>11. EntryLinks'
  <2>1. EntryLinks
    BY DEF LinkInv
  <2>2. SUFFICES ASSUME NEW x \in DOMAIN wait, wait[x].ChoosedNode = 0
                 PROVE  /\ \A i \in 1..Len(wait[x].NChildNodes) :
                             x \in nodes'[wait[x].NChildNodes[i]].Parents
                        /\ \A i, j \in 1..Len(wait[x].NChildNodes) :
                             wait[x].NChildNodes[i] = wait[x].NChildNodes[j] => i = j
    BY <1>2, Zenon DEF EntryLinks
  <2> QED
    BY <1>8, <1>9, <2>1, <2>2, Zenon DEF EntryLinks
<1>12. Counted'
  <2>1. Counted
    BY DEF LinkInv
  <2>2. /\ nodes'[cur'].Parents = {} /\ nodes'[cur'].ParentNum = 0 /\ Counts(0, {})
        /\ nodes'[cur'].State # Committed /\ todo' \cap {} = {}
    BY <1>1, <1>2, CountsEmpty, Zenon
  <2> QED
    BY <1>9, <2>1, <2>2, Zenon DEF Counted
<1> QED
  BY <1>0, <1>4, <1>5, <1>6, <1>7, <1>10, <1>11, <1>12 DEF LinkInv

LEMMA LinkParentLinks == LinkInv /\ LinkParent /\ Typed => LinkInv'
<1> SUFFICES ASSUME LinkInv, LinkParent, Typed PROVE LinkInv'
  OBVIOUS
<1>0. TypeOK /\ TypeOK' /\ Fixed
  BY DEF LinkInv, Typed
<1>1. /\ pc = "parents" /\ cur \in 1..cur
      /\ UNCHANGED <<inbox, cur, GState, ReadyBatch, batches, pc, hadWait, stack>>
  BY <1>0 DEF LinkParent, TypeOK
<1>2. PICK p \in todo : Iterated /\ (Listed(p) \/ Linked(p) \/ Unlinked(p))
  BY <1>0, <1>1, LinkEffect DEF LinkParent
<1> DEFINE id == nodes[cur].id
           own == TxCNs[p]
<1>3. /\ \A m \in 1..cur : nodes'[m].id = nodes[m].id
      /\ \A m \in 1..cur : m # cur => SameMark(nodes'[m], nodes[m]) /\ SameParents(nodes'[m], nodes[m])
      /\ SameMark(nodes'[cur], nodes[cur]) \/ nodes'[cur].State = Failed
      /\ nodes'[cur].State # Failed => nodes'[cur].State = nodes[cur].State
      /\ nodes[cur].State # Committed /\ nodes'[cur].State # Committed
      /\ todo \cap nodes[cur].Parents = {}
  BY <1>0, <1>1, <1>2, SMTT(40) DEF Fixed, Iterated, LinkInv, Counted, SameMark
<1>4. \/ Adds(nodes'[cur], nodes[cur], p) /\ todo' = todo \ {p}
      \/ SameParents(nodes'[cur], nodes[cur]) /\ todo' \subseteq todo
  BY <1>2, Zenon DEF Listed, Linked, Unlinked
<1>5. \A m \in 1..cur : nodes[m].Parents \subseteq nodes'[m].Parents
  BY <1>3, <1>4 DEF Adds, SameParents
<1>6. \A m \in 1..cur : m # cur => nodes[m].id # id
  BY <1>1 DEF LinkInv, Distinct
\* what becomes of the entries and of TxCNs
<1>7. /\ DOMAIN wait \subseteq DOMAIN wait'
      /\ \A x \in DOMAIN wait : wait'[x].ChoosedNode = wait[x].ChoosedNode
      /\ \A x \in DOMAIN wait' : x \notin DOMAIN wait =>
           \/ x = id /\ wait'[x].ChoosedNode = cur
           \/ x = p /\ Listed(p) /\ wait'[x].ChoosedNode = 0
      /\ \A x \in DOMAIN TxCNs : x # id => x \in DOMAIN TxCNs'
      /\ nodes'[cur].State # Failed => TxCNs' = TxCNs
      /\ id \in DOMAIN TxCNs /\ id \notin DOMAIN TxCNs' => id \in DOMAIN wait'
  <2>1. CASE Listed(p)
    BY <2>1, Zenon DEF Listed
  <2>2. CASE MayClose /\ \A x \in DOMAIN wait : SameEntry(wait'[x], wait[x])
    BY <2>2, Zenon DEF MayClose, SameEntry
  <2> QED
    BY <1>2, <2>1, <2>2, Zenon DEF Linked, Unlinked
<1>8. Listed(p) => /\ p \notin DOMAIN TxCNs
                   /\ p \in DOMAIN wait => wait[p].ChoosedNode = 0
  BY DEF Listed
<1>9. /\ \A x \in DOMAIN wait : wait[x].ChoosedNode \in {0} \cup 1..cur
      /\ 0 \notin 1..cur
  BY <1>0, KidsOK, Zenon
<1>10. Distinct'
  <2>1. Distinct /\ inbox' = inbox /\ cur' = cur
    BY <1>1 DEF LinkInv
  <2>2. /\ \A m, k \in 1..cur : nodes'[m].id = nodes'[k].id => m = k
        /\ \A m \in 1..cur : \A env \in inbox : nodes'[m].id # env.id
    <3>1. \A m \in 1..cur : nodes'[m].id = nodes[m].id
      BY <1>3, Zenon
    <3> QED
      BY <2>1, <3>1, Zenon DEF Distinct
  <2> QED
    BY <2>1, <2>2, Zenon DEF Distinct
<1>11. Entries'
  <2>1. Entries
    BY DEF LinkInv
  <2>2. ASSUME NEW x \in DOMAIN wait', wait'[x].ChoosedNode # 0
        PROVE  nodes'[wait'[x].ChoosedNode].id = x
    <3>1. CASE x \in DOMAIN wait
      BY <3>1, <2>1, <2>2, <1>3, <1>7, <1>9 DEF Entries
    <3>2. CASE x \notin DOMAIN wait
      BY <3>2, <2>2, <1>1, <1>3, <1>7, Zenon
    <3> QED
      BY <3>1, <3>2
  <2>3. ASSUME NEW m \in 1..cur, m # cur
        PROVE  /\ nodes[m].id \in DOMAIN wait' => wait'[nodes[m].id].ChoosedNode # 0
               /\ nodes[m].id \notin DOMAIN TxCNs' => nodes[m].id \in DOMAIN wait'
    <3>1. /\ nodes[m].id \in DOMAIN wait => wait[nodes[m].id].ChoosedNode # 0
          /\ nodes[m].id \notin DOMAIN TxCNs => nodes[m].id \in DOMAIN wait
          /\ nodes[m].id # id
      BY <2>1, <2>3, <1>6, Zenon DEF Entries
    <3> QED
      BY <3>1, <1>7, <1>8, Zenon
  <2> QED
    BY <1>1, <1>3, <2>2, <2>3 DEF Entries
<1>12. OwnEntry'
  <2>1. /\ nodes[cur].State # Failed => id \in DOMAIN TxCNs
        /\ id \notin DOMAIN TxCNs => id \in DOMAIN wait
        /\ hadWait => id \in DOMAIN wait /\ wait[id].ChoosedNode = 0
        /\ ~hadWait /\ id \in DOMAIN wait => wait[id].ChoosedNode # 0
    BY <1>0, <1>1, Zenon DEF LinkInv, OwnEntry, TypeOK
  <2>2. /\ nodes'[cur].State # Failed => id \in DOMAIN TxCNs'
        /\ id \notin DOMAIN TxCNs' => id \in DOMAIN wait'
        /\ hadWait => wait'[id].ChoosedNode = 0
    BY <2>1, <1>3, <1>7, Zenon
  <2>3. ~hadWait /\ id \in DOMAIN wait' => wait'[id].ChoosedNode # 0
    <3>1. CASE id \in DOMAIN wait
      BY <3>1, <2>1, <1>7, Zenon
    <3>2. CASE id \notin DOMAIN wait
      BY <3>2, <2>1, <1>7, <1>8, <1>1, <1>9
    <3> QED
      BY <3>1, <3>2
  <2> QED
    BY <1>1, <1>3, <2>2, <2>3, Zenon DEF OwnEntry
<1>13. stack = <<>> /\ stack' = <<>> /\ 1..Len(stack) = {} /\ 1..Len(stack') = {}
       /\ \A q, i : ~Pending(stack, q, i) /\ ~Pending(stack', q, i)
  BY <1>1, NoStack
<1>14. Frames'
  BY <1>1, <1>13 DEF Frames
\* the lists: only one grows, by the current node
<1>15. ASSUME NEW s \in Seq(1..cur), NEW x, x = p,
              \A i \in 1..Len(s) : x \in nodes[s[i]].Parents,
              \A i, j \in 1..Len(s) : s[i] = s[j] => i = j
       PROVE  \A i, j \in 1..Len(Append(s, cur)) : Append(s, cur)[i] = Append(s, cur)[j] => i = j
  <2>1. \A i \in 1..Len(s) : s[i] # cur
    BY <1>3, <1>15
  <2> QED
    BY <2>1, <1>15, AppendParts
<1>16. Links'
  <2>1. SUFFICES ASSUME NEW q \in 1..cur, NEW i \in 1..Len(nodes'[q].NChildNodes),
                        nodes'[q].State # Committed
                 PROVE  nodes[q].id \in nodes'[nodes'[q].NChildNodes[i]].Parents
    BY <1>1, <1>3, <1>13, Zenon DEF Links
  <2>2. nodes[q].State # Committed
    BY <1>3, <2>1 DEF SameMark
  <2>3. \A j \in 1..Len(nodes[q].NChildNodes) : /\ nodes[q].NChildNodes[j] \in 1..cur
                                                /\ nodes[q].id \in nodes[nodes[q].NChildNodes[j]].Parents
    BY <1>0, <2>2, KidsOK DEF LinkInv, Links
  <2>4. CASE SameChildren(nodes'[q], nodes[q])
    BY <2>3, <2>4, <1>5, SMTT(40) DEF SameChildren
  <2>5. CASE Linked(p) /\ q = own
    <3>1. nodes'[q].NChildNodes = Append(nodes[q].NChildNodes, cur) /\ p \in nodes'[cur].Parents
      BY <2>5 DEF Linked, Adds
    <3>2. nodes[q].id = p
      BY <1>0, <2>5, Zenon DEF Linked, TypeOK
    <3>3. nodes[q].NChildNodes \in Seq(1..cur)
      BY <1>0, KidsOK
    <3> DEFINE s == nodes[q].NChildNodes
    <3>4. i \in 1..Len(s) \/ i = Len(s) + 1
      BY <3>1, <3>3, AppendParts
    <3>5. CASE i \in 1..Len(s)
      <4>1. nodes'[q].NChildNodes[i] = s[i]
        BY <3>1, <3>3, <3>5, AppendParts
      <4> QED
        BY <4>1, <2>3, <3>5, <1>5, SMTT(40)
    <3>6. CASE i = Len(s) + 1
      BY <3>1, <3>2, <3>3, <3>6, AppendParts
    <3> QED
      BY <3>4, <3>5, <3>6
  <2> QED
    BY <1>2, <2>4, <2>5, Zenon DEF Listed, Linked, Unlinked, ChildrenStay
<1>17. NoRepeats'
  <2>1. SUFFICES ASSUME NEW q \in 1..cur
                 PROVE  \A i, j \in 1..Len(nodes'[q].NChildNodes) :
                          nodes'[q].NChildNodes[i] = nodes'[q].NChildNodes[j] => i = j
    BY <1>1 DEF NoRepeats
  <2>2. \A i, j \in 1..Len(nodes[q].NChildNodes) :
                          nodes[q].NChildNodes[i] = nodes[q].NChildNodes[j] => i = j
    BY Zenon DEF LinkInv, NoRepeats
  <2>3. CASE SameChildren(nodes'[q], nodes[q])
    BY <2>2, <2>3 DEF SameChildren
  <2>4. CASE Linked(p) /\ q = own
    <3>1. nodes'[q].NChildNodes = Append(nodes[q].NChildNodes, cur) /\ nodes[q].State # Committed
      BY <2>4 DEF Linked
    <3>2. nodes[q].id = p
      BY <1>0, <2>4, Zenon DEF Linked, TypeOK
    <3>3. nodes[q].NChildNodes \in Seq(1..cur)
      BY <1>0, KidsOK
    <3>4. \A j \in 1..Len(nodes[q].NChildNodes) : p \in nodes[nodes[q].NChildNodes[j]].Parents
      BY <3>1, <3>2 DEF LinkInv, Links
    <3> QED
      BY <2>2, <3>1, <3>3, <3>4, <1>15, Zenon
  <2> QED
    BY <1>2, <2>3, <2>4, Zenon DEF Listed, Linked, Unlinked, ChildrenStay
<1>18. EntryLinks'
  <2>1. SUFFICES ASSUME NEW x \in DOMAIN wait', wait'[x].ChoosedNode = 0
                 PROVE  /\ \A i \in 1..Len(wait'[x].NChildNodes) :
                             x \in nodes'[wait'[x].NChildNodes[i]].Parents
                        /\ \A i, j \in 1..Len(wait'[x].NChildNodes) :
                             wait'[x].NChildNodes[i] = wait'[x].NChildNodes[j] => i = j
    BY DEF EntryLinks
  <2>2. CASE x \in DOMAIN wait /\ wait'[x].NChildNodes = wait[x].NChildNodes
    <3>1. wait[x].ChoosedNode = 0
      BY <1>7, <2>1, <2>2
    <3>2. \A j \in 1..Len(wait[x].NChildNodes) : wait[x].NChildNodes[j] \in 1..cur
      BY <1>0, <2>2, KidsOK
    <3> QED
      BY <2>2, <3>1, <3>2, <1>5, SMTT(40) DEF LinkInv, EntryLinks
  <2>3. CASE Listed(p) /\ x = p
    <3>1. p \in nodes'[cur].Parents
      BY <2>3 DEF Listed, Adds
    <3>2. CASE p \in DOMAIN wait
      <4>1. wait[p].ChoosedNode = 0 /\ wait'[p].NChildNodes = Append(wait[p].NChildNodes, cur)
        BY <3>2, <2>3 DEF Listed
      <4>2. /\ wait[p].NChildNodes \in Seq(1..cur)
            /\ \A j \in 1..Len(wait[p].NChildNodes) : /\ wait[p].NChildNodes[j] \in 1..cur
                                                      /\ p \in nodes[wait[p].NChildNodes[j]].Parents
            /\ \A i, j \in 1..Len(wait[p].NChildNodes) :
                             wait[p].NChildNodes[i] = wait[p].NChildNodes[j] => i = j
        BY <4>1, <3>2, <1>0, KidsOK, Zenon DEF LinkInv, EntryLinks
      <4>3. \A i, j \in 1..Len(wait'[p].NChildNodes) :
                             wait'[p].NChildNodes[i] = wait'[p].NChildNodes[j] => i = j
        <5> DEFINE s == wait[p].NChildNodes
        <5>1. \A i, j \in 1..Len(Append(s, cur)) : Append(s, cur)[i] = Append(s, cur)[j] => i = j
          <6> HIDE DEF s
          <6>1. /\ s \in Seq(1..cur)
                /\ \A j \in 1..Len(s) : p \in nodes[s[j]].Parents
                /\ \A i, j \in 1..Len(s) : s[i] = s[j] => i = j
            BY <4>2 DEF s
          <6> QED
            BY <6>1, <1>15
        <5> QED
          BY <4>1, <5>1, Zenon
      <4>4. \A i \in 1..Len(wait'[p].NChildNodes) : p \in nodes'[wait'[p].NChildNodes[i]].Parents
        <5> DEFINE s == wait[p].NChildNodes
        <5>1. \A i \in 1..Len(Append(s, cur)) : p \in nodes'[Append(s, cur)[i]].Parents
          <6> HIDE DEF s
          <6>1. s \in Seq(1..cur) /\ \A j \in 1..Len(s) : s[j] \in 1..cur /\ p \in nodes[s[j]].Parents
            BY <4>2 DEF s
          <6> QED
            BY <6>1, <3>1, <1>5, AppendParts
        <5> QED
          BY <4>1, <5>1, Zenon
      <4> QED
        BY <4>3, <4>4, <2>3
    <3>3. CASE p \notin DOMAIN wait
      <4>1. wait'[p].NChildNodes = <<cur>>
        BY <3>3, <2>3 DEF Listed
      <4>2. 1..Len(<<cur>>) = {1} /\ <<cur>>[1] = cur
        OBVIOUS
      <4> QED
        BY <4>1, <4>2, <3>1, <2>3
    <3> QED
      BY <3>2, <3>3
  <2>4. x \notin DOMAIN wait => Listed(p) /\ x = p
    BY <1>1, <1>7, <1>9, <2>1
  <2>5. x \in DOMAIN wait /\ ~(Listed(p) /\ x = p) => wait'[x].NChildNodes = wait[x].NChildNodes
    BY <1>2, Zenon DEF Listed, Linked, Unlinked, SameEntry
  <2> QED
    BY <2>2, <2>3, <2>4, <2>5
<1>19. Counted'
  <2>1. \A m \in 1..cur : /\ Counts(nodes[m].ParentNum, nodes[m].Parents)
                          /\ nodes[m].State = Committed => nodes[m].Parents = {}
    BY DEF LinkInv, Counted
  <2>2. \A m \in 1..cur : m # cur => /\ Counts(nodes'[m].ParentNum, nodes'[m].Parents)
                                     /\ nodes'[m].State = Committed => nodes'[m].Parents = {}
    BY <1>3, <2>1 DEF SameMark, SameParents
  <2>3. p \notin nodes[cur].Parents
    BY <1>3
  <2>4. Counts(nodes'[cur].ParentNum, nodes'[cur].Parents)
    BY <1>1, <1>4, <2>1, <2>3, CountsAdd DEF Adds, SameParents
  <2>5. todo' \cap nodes'[cur].Parents = {}
    BY <1>3, <1>4 DEF Adds, SameParents
  <2> QED
    BY <1>1, <1>3, <2>2, <2>4, <2>5, Zenon DEF Counted
<1> QED
  BY <1>0, <1>10, <1>11, <1>12, <1>14, <1>16, <1>17, <1>18, <1>19 DEF LinkInv

LEMMA AdoptChildrenLinks == LinkInv /\ AdoptChildren /\ Typed => LinkInv'
<1> SUFFICES ASSUME LinkInv, AdoptChildren, Typed PROVE LinkInv'
  OBVIOUS
<1>0. TypeOK /\ TypeOK' /\ Fixed
  BY DEF LinkInv, Typed
<1> DEFINE id == nodes[cur].id
<1>1. /\ cur \in 1..cur /\ cur' = cur /\ pc = "parents" /\ pc' = "finish" /\ todo = {}
      /\ \A m \in 1..cur : /\ SameMark(nodes'[m], nodes[m])
                           /\ SameParents(nodes'[m], nodes[m])
                           /\ m # cur => SameChildren(nodes'[m], nodes[m])
      /\ ~hadWait => SameChildren(nodes'[cur], nodes[cur]) /\ wait' = wait
      /\ hadWait => /\ id \in DOMAIN wait
                    /\ nodes'[cur].NChildNodes = wait[id].NChildNodes
                    /\ \A x \in DOMAIN wait : x # id => x \in DOMAIN wait' /\ wait'[x] = wait[x]
      /\ hadWait /\ nodes[cur].State # Failed => DOMAIN wait' = DOMAIN wait \ {id}
      /\ hadWait /\ nodes[cur].State = Failed =>
           DOMAIN wait' = DOMAIN wait /\ wait'[id].ChoosedNode = cur
      /\ UNCHANGED <<inbox, TxCNs, GState, ReadyBatch, batches, todo, hadWait, stack>>
  BY <1>0, AdoptEffect
<1>2. /\ \A m \in 1..cur : nodes'[m].id = nodes[m].id
      /\ \A m \in 1..cur : m # cur => nodes[m].id # id
      /\ 0 \notin 1..cur
      /\ hadWait \in BOOLEAN
  <2>1. hadWait \in BOOLEAN
    BY <1>0, Zenon DEF TypeOK
  <2>2. \A m \in 1..cur : m # cur => nodes[m].id # id
    BY <1>1, Zenon DEF LinkInv, Distinct
  <2> QED
    BY <1>0, <2>1, <2>2, KidsOK, Zenon DEF Fixed
<1>3. /\ DOMAIN wait' \subseteq DOMAIN wait
      /\ \A x \in DOMAIN wait : x # id => x \in DOMAIN wait' /\ wait'[x] = wait[x]
      /\ id \in DOMAIN wait' => \/ ~hadWait /\ wait' = wait
                                \/ wait'[id].ChoosedNode = cur
  BY <1>1, Zenon
<1>4. Distinct'
  <2>1. Distinct /\ inbox' = inbox /\ cur' = cur
    BY <1>1, Zenon DEF LinkInv
  <2>2. /\ \A m, k \in 1..cur : nodes'[m].id = nodes'[k].id => m = k
        /\ \A m \in 1..cur : \A env \in inbox : nodes'[m].id # env.id
    BY <2>1, <1>2, Zenon DEF Distinct
  <2> QED
    BY <2>1, <2>2, Zenon DEF Distinct
<1>5. Entries'
  <2>1. /\ \A x \in DOMAIN wait : wait[x].ChoosedNode \in {0} \cup 1..cur
        /\ \A x \in DOMAIN wait : wait[x].ChoosedNode # 0 => nodes[wait[x].ChoosedNode].id = x
    BY <1>0, KidsOK DEF LinkInv, Entries
  <2>2. ASSUME NEW x \in DOMAIN wait', wait'[x].ChoosedNode # 0
        PROVE  nodes'[wait'[x].ChoosedNode].id = x
    <3>1. CASE wait'[x] = wait[x]
      BY <3>1, <2>1, <2>2, <1>2, <1>3
    <3>2. CASE x = id /\ wait'[x].ChoosedNode = cur
      BY <3>2, <1>1, <1>2, Zenon
    <3> QED
      BY <3>1, <3>2, <1>3
  <2>3. ASSUME NEW m \in 1..cur, m # cur
        PROVE  /\ nodes[m].id \in DOMAIN wait' => wait'[nodes[m].id].ChoosedNode # 0
               /\ nodes[m].id \notin DOMAIN TxCNs' => nodes[m].id \in DOMAIN wait'
    <3>1. /\ nodes[m].id \in DOMAIN wait => wait[nodes[m].id].ChoosedNode # 0
          /\ nodes[m].id \notin DOMAIN TxCNs => nodes[m].id \in DOMAIN wait
          /\ nodes[m].id # id
      BY <2>3, <1>2 DEF LinkInv, Entries
    <3> QED
      BY <3>1, <1>1, <1>3, Zenon
  <2>4. /\ id \in DOMAIN wait' => wait'[id].ChoosedNode # 0
        /\ id \notin DOMAIN TxCNs' => id \in DOMAIN wait'
    <3>1. /\ nodes[cur].State # Failed => id \in DOMAIN TxCNs
          /\ id \notin DOMAIN TxCNs => id \in DOMAIN wait
          /\ ~hadWait /\ id \in DOMAIN wait => wait[id].ChoosedNode # 0
      BY <1>1, Zenon DEF LinkInv, OwnEntry
    <3> QED
      BY <3>1, <1>1, <1>2, <1>3, Zenon
  <2> QED
    BY <1>1, <1>2, <2>2, <2>3, <2>4, Zenon DEF Entries
<1>6. OwnEntry'
  BY <1>1 DEF OwnEntry
<1>7. stack = <<>> /\ stack' = <<>> /\ 1..Len(stack) = {} /\ 1..Len(stack') = {}
       /\ \A q, i : ~Pending(stack, q, i) /\ ~Pending(stack', q, i)
  BY <1>1, NoStack
<1>8. Frames'
  BY <1>1, <1>7 DEF Frames
<1>9. /\ \A q \in 1..cur : \A i \in 1..Len(nodes[q].NChildNodes) : nodes[q].NChildNodes[i] \in 1..cur
      /\ \A x \in DOMAIN wait : \A i \in 1..Len(wait[x].NChildNodes) : wait[x].NChildNodes[i] \in 1..cur
  BY <1>0, KidsOK
<1>10. hadWait => /\ \A i \in 1..Len(wait[id].NChildNodes) : id \in nodes[wait[id].NChildNodes[i]].Parents
                  /\ \A i, j \in 1..Len(wait[id].NChildNodes) :
                       wait[id].NChildNodes[i] = wait[id].NChildNodes[j] => i = j
  <2>1. hadWait => id \in DOMAIN wait /\ wait[id].ChoosedNode = 0
    BY <1>1 DEF LinkInv, OwnEntry
  <2> QED
    BY <2>1 DEF LinkInv, EntryLinks
<1>11. Links' /\ NoRepeats'
  <2>1. ASSUME NEW q \in 1..cur, SameChildren(nodes'[q], nodes[q])
        PROVE  /\ \A i \in 1..Len(nodes'[q].NChildNodes) : nodes'[q].State # Committed =>
                    nodes'[q].id \in nodes'[nodes'[q].NChildNodes[i]].Parents
               /\ \A i, j \in 1..Len(nodes'[q].NChildNodes) :
                    nodes'[q].NChildNodes[i] = nodes'[q].NChildNodes[j] => i = j
    <3>1. /\ \A i \in 1..Len(nodes[q].NChildNodes) : nodes[q].State # Committed =>
                    nodes[q].id \in nodes[nodes[q].NChildNodes[i]].Parents
          /\ \A i, j \in 1..Len(nodes[q].NChildNodes) :
                    nodes[q].NChildNodes[i] = nodes[q].NChildNodes[j] => i = j
      BY DEF LinkInv, Links, NoRepeats
    <3>2. /\ nodes'[q].NChildNodes = nodes[q].NChildNodes
          /\ nodes'[q].id = nodes[q].id /\ nodes'[q].State = nodes[q].State
          /\ \A m \in 1..cur : nodes'[m].Parents = nodes[m].Parents
          /\ \A i \in 1..Len(nodes[q].NChildNodes) : nodes[q].NChildNodes[i] \in 1..cur
      BY <2>1, <1>1, <1>2, <1>9 DEF SameChildren, SameMark, SameParents
    <3> QED
      BY <3>1, <3>2, Zenon
  <2>2. ASSUME hadWait
        PROVE  /\ \A i \in 1..Len(nodes'[cur].NChildNodes) : nodes'[cur].State # Committed =>
                    nodes'[cur].id \in nodes'[nodes'[cur].NChildNodes[i]].Parents
               /\ \A i, j \in 1..Len(nodes'[cur].NChildNodes) :
                    nodes'[cur].NChildNodes[i] = nodes'[cur].NChildNodes[j] => i = j
    <3>1. /\ nodes'[cur].NChildNodes = wait[id].NChildNodes
          /\ \A m \in 1..cur : nodes'[m].Parents = nodes[m].Parents
          /\ \A i \in 1..Len(wait[id].NChildNodes) : wait[id].NChildNodes[i] \in 1..cur
          /\ nodes'[cur].id = id
      BY <2>2, <1>1, <1>2, <1>9, Zenon DEF SameParents
    <3> QED
      BY <3>1, <2>2, <1>10, Zenon
  <2>3. \A q \in 1..cur : SameChildren(nodes'[q], nodes[q]) \/ (q = cur /\ hadWait)
    BY <1>1, <1>2, Zenon
  <2> QED
    BY <2>1, <2>2, <2>3, <1>1, <1>7, Zenon DEF Links, NoRepeats
<1>12. EntryLinks'
  <2>1. SUFFICES ASSUME NEW x \in DOMAIN wait', wait'[x].ChoosedNode = 0
                 PROVE  /\ \A i \in 1..Len(wait'[x].NChildNodes) :
                             x \in nodes'[wait'[x].NChildNodes[i]].Parents
                        /\ \A i, j \in 1..Len(wait'[x].NChildNodes) :
                             wait'[x].NChildNodes[i] = wait'[x].NChildNodes[j] => i = j
    BY DEF EntryLinks
  <2>2. x \in DOMAIN wait /\ wait'[x] = wait[x]
    BY <1>1, <1>2, <1>3, <2>1, Zenon
  <2>3. \A m \in 1..cur : nodes'[m].Parents = nodes[m].Parents
    BY <1>1 DEF SameParents
  <2>4. /\ \A i \in 1..Len(wait[x].NChildNodes) : x \in nodes[wait[x].NChildNodes[i]].Parents
        /\ \A i, j \in 1..Len(wait[x].NChildNodes) :
             wait[x].NChildNodes[i] = wait[x].NChildNodes[j] => i = j
    BY <2>1, <2>2, Zenon DEF LinkInv, EntryLinks
  <2> QED
    BY <2>2, <2>3, <2>4, <1>9, Zenon
<1>13. Counted'
  BY <1>1, Zenon DEF LinkInv, Counted, SameMark, SameParents
<1> QED
  BY <1>0, <1>4, <1>5, <1>6, <1>8, <1>11, <1>12, <1>13 DEF LinkInv

\* Every step of Delete and of Finish leaves these alone.
LEMMA MarksLinks ==
    ASSUME LinkInv, TypeOK', pc \notin {"recv", "parents"}, pc' \in {"delete", "cut"},
           cur' = cur, UNCHANGED <<inbox, TxCNs, wait>>, Fixed, ChildrenStay
    PROVE  /\ Distinct' /\ Entries' /\ OwnEntry' /\ NoRepeats'
           /\ \A m \in 1..cur : /\ nodes'[m].id = nodes[m].id
                                /\ nodes'[m].NChildNodes = nodes[m].NChildNodes
<1>1. \A m \in 1..cur : /\ nodes'[m].id = nodes[m].id
                        /\ nodes'[m].NChildNodes = nodes[m].NChildNodes
  BY DEF Fixed, ChildrenStay, SameChildren
<1>2. Distinct'
  BY <1>1 DEF LinkInv, Distinct
<1>3. Entries'
  <2>1. \A x \in DOMAIN wait : wait[x].ChoosedNode \in {0} \cup 1..cur
    BY KidsOK DEF LinkInv
  <2> QED
    BY <1>1, <2>1 DEF LinkInv, Entries
<1>4. OwnEntry'
  BY DEF OwnEntry
<1>5. NoRepeats'
  BY <1>1 DEF LinkInv, NoRepeats
<1> QED
  BY <1>1, <1>2, <1>3, <1>4, <1>5

LEMMA FinishLinks == LinkInv /\ Finish /\ Typed => LinkInv'
<1> SUFFICES ASSUME LinkInv, Finish, Typed PROVE LinkInv'
  OBVIOUS
<1>0. TypeOK /\ TypeOK' /\ Fixed
  BY DEF LinkInv, Typed
<1>1. /\ cur \in 1..cur /\ cur' = cur /\ pc = "finish"
      /\ OnlyMarks(cur) /\ SameParents(nodes'[cur], nodes[cur])
      /\ UNCHANGED <<inbox, TxCNs, wait, batches>>
      /\ \/ /\ nodes[cur].State # Failed /\ nodes[cur].ParentNum = 0
            /\ Releases(cur)
            /\ pc' = "delete" /\ stack' = <<Call(cur, Committed)>>
         \/ /\ nodes[cur].State = Failed /\ Quiet(cur)
            /\ pc' = "delete" /\ stack' = <<Call(cur, Failed)>>
         \/ /\ nodes[cur].State # Failed /\ nodes[cur].ParentNum # 0 /\ Quiet(cur)
            /\ pc' = "cut" /\ stack' = stack
  BY <1>0, FinishEffect
<1>2. /\ stack = <<>> /\ \A q, i : ~Pending(stack, q, i)
      /\ nodes[cur].State # Committed
  BY <1>1, NoStack, Zenon DEF LinkInv, Counted
<1>3. /\ Distinct' /\ Entries' /\ OwnEntry' /\ NoRepeats'
      /\ \A m \in 1..cur : /\ nodes'[m].id = nodes[m].id
                           /\ nodes'[m].NChildNodes = nodes[m].NChildNodes
  BY <1>0, <1>1, MarksLinks, Zenon DEF OnlyMarks
<1>4. /\ \A m \in 1..cur : nodes'[m].Parents = nodes[m].Parents /\ nodes'[m].ParentNum = nodes[m].ParentNum
      /\ \A m \in 1..cur : m # cur => nodes'[m].State = nodes[m].State
  BY <1>1 DEF OnlyMarks, SameParents, SameMark
<1>5. \/ pc' = "cut" /\ stack' = <<>> /\ 1..Len(stack') = {}
      \/ \E st \in {Committed, Failed} :
             /\ pc' = "delete" /\ nodes'[cur].State = st
             /\ 1..Len(stack') = {1} /\ stack' # <<>>
             /\ stack'[1].node = cur /\ stack'[1].State = st
  <2>1. \A st : LET s == <<Call(cur, st)>>
                IN  /\ 1..Len(s) = {1} /\ s # <<>> /\ s[1].node = cur /\ s[1].State = st
    BY DEF Call
  <2>2. 1..Len(<<>>) = {}
    OBVIOUS
  <2>3. CASE Releases(cur) /\ pc' = "delete" /\ stack' = <<Call(cur, Committed)>>
    BY <2>1, <2>3, Zenon DEF Releases
  <2>4. CASE nodes[cur].State = Failed /\ Quiet(cur) /\ pc' = "delete" /\ stack' = <<Call(cur, Failed)>>
    BY <2>1, <2>4, Zenon DEF Quiet, SameMark
  <2>5. CASE pc' = "cut" /\ stack' = stack
    BY <2>2, <2>5, <1>2, Zenon
  <2> QED
    BY <1>1, <2>3, <2>4, <2>5, Zenon
<1>6. Frames'
  BY <1>5 DEF Frames
<1>7. \A q, i : Pending(stack', q, i) => q = cur
  BY <1>5 DEF Pending
<1>8. /\ \A q \in 1..cur : \A i \in 1..Len(nodes[q].NChildNodes) : nodes[q].NChildNodes[i] \in 1..cur
      /\ \A x \in DOMAIN wait : \A i \in 1..Len(wait[x].NChildNodes) : wait[x].NChildNodes[i] \in 1..cur
  BY <1>0, KidsOK
<1>9. Links'
  <2>1. SUFFICES ASSUME NEW q \in 1..cur, NEW i \in 1..Len(nodes[q].NChildNodes),
                        nodes'[q].State # Committed \/ Pending(stack', q, i)
                 PROVE  nodes[q].id \in nodes'[nodes[q].NChildNodes[i]].Parents
    BY <1>1, <1>3, Zenon DEF Links
  <2>2. nodes[q].State # Committed
    BY <1>2, <1>4, <1>7, <2>1
  <2> QED
    BY <1>4, <1>8, <2>2, SMTT(40) DEF LinkInv, Links
<1>10. EntryLinks'
  BY <1>1, <1>4, <1>8 DEF LinkInv, EntryLinks
<1>11. Counted'
  <2>1. \A m \in 1..cur : /\ Counts(nodes[m].ParentNum, nodes[m].Parents)
                          /\ nodes[m].State = Committed => nodes[m].Parents = {}
    BY DEF LinkInv, Counted
  <2>2. nodes'[cur].State = Committed => nodes[cur].ParentNum = 0
    BY <1>1, <1>2 DEF Quiet, SameMark
  <2>3. nodes[cur].ParentNum = 0 => nodes[cur].Parents = {}
    BY <1>1, <2>1, CountsEmpty
  <2>4. pc' # "parents" /\ pc' # "finish"
    BY <1>1
  <2> QED
    BY <1>1, <1>4, <2>1, <2>2, <2>3, <2>4, Zenon DEF Counted
<1> QED
  BY <1>0, <1>3, <1>6, <1>9, <1>10, <1>11 DEF LinkInv

\* The child that a failed node fails was not released before.
LEMMA FailedIsNotReleased ==
    ASSUME LinkInv, FailChild
    PROVE  /\ Top.node \in 1..cur /\ Top.next \in 1..Len(nodes[Top.node].NChildNodes)
           /\ nodes[Top.node].State = Failed
           /\ nodes[nodes[Top.node].NChildNodes[Top.next]].State # Committed
<1> DEFINE t == Top.node
           j == Top.next
           c == nodes[t].NChildNodes[j]
<1>1. /\ TypeOK /\ pc = "delete" /\ stack # <<>> /\ Top.State = Failed
      /\ t \in 1..cur /\ j \in 1..Len(nodes[t].NChildNodes) /\ c \in 1..cur
  BY FailChildEffect, Zenon DEF LinkInv
<1>2. Len(stack) \in 1..Len(stack)
  BY <1>1, StackParts
<1>3. nodes[t].State = Failed
  BY <1>1, <1>2 DEF LinkInv, Frames, Top
<1>4. nodes[t].id \in nodes[c].Parents
  BY <1>1, <1>3 DEF LinkInv, Links
<1> QED
  BY <1>1, <1>3, <1>4 DEF LinkInv, Counted

LEMMA FailChildLinks == LinkInv /\ FailChild /\ Typed => LinkInv'
<1> SUFFICES ASSUME LinkInv, FailChild, Typed PROVE LinkInv'
  OBVIOUS
<1> DEFINE t == Top.node
           j == Top.next
           c == nodes[t].NChildNodes[j]
<1>0. TypeOK /\ TypeOK' /\ Fixed
  BY DEF LinkInv, Typed
<1>1. /\ pc = "delete" /\ stack # <<>> /\ Top.State = Failed /\ c \in 1..cur
      /\ UNCHANGED <<inbox, cur, TxCNs, wait, GState, ReadyBatch, batches, pc>>
      /\ OnlyMarks(c) /\ SameParents(nodes'[c], nodes[c])
      /\ \/ nodes[c].State # Failed /\ Fails(c) /\ Pushed(stack', stack, c, Failed)
         \/ nodes[c].State = Failed /\ Quiet(c) /\ Advanced(stack', stack)
  BY <1>0, FailChildEffect, Zenon
<1>2. nodes[c].State # Committed
  BY FailedIsNotReleased
<1>3. /\ Distinct' /\ Entries' /\ OwnEntry' /\ NoRepeats'
      /\ \A m \in 1..cur : /\ nodes'[m].id = nodes[m].id
                           /\ nodes'[m].NChildNodes = nodes[m].NChildNodes
  BY <1>0, <1>1, MarksLinks, Zenon DEF OnlyMarks
<1>4. /\ \A m \in 1..cur : nodes'[m].Parents = nodes[m].Parents /\ nodes'[m].ParentNum = nodes[m].ParentNum
      /\ \A m \in 1..cur : m # c => nodes'[m].State = nodes[m].State
      /\ nodes'[c].State = Failed
      /\ \A m \in 1..cur : nodes'[m].State = Committed <=> nodes[m].State = Committed
  <2>1. nodes'[c].State = Failed
    BY <1>1, Zenon DEF SameMark, Fails, Quiet
  <2>2. \A m \in 1..cur : m # c => nodes'[m].State = nodes[m].State
    BY <1>1, Zenon DEF OnlyMarks, SameMark
  <2>3. \A m \in 1..cur : nodes'[m].Parents = nodes[m].Parents /\ nodes'[m].ParentNum = nodes[m].ParentNum
    BY <1>1, Zenon DEF OnlyMarks, SameParents
  <2> QED
    BY <2>1, <2>2, <2>3, <1>2
<1>5. /\ Len(stack) \in Nat \ {0} /\ Len(stack) \in 1..Len(stack)
      /\ \A f \in 1..Len(stack) : stack[f].State = Failed /\ nodes[stack[f].node].State = Failed
                                  /\ stack[f].node \in 1..cur
  BY <1>0, <1>1, StackParts, ZenonT(30) DEF LinkInv, Frames, Top
<1>6. /\ \A f \in 1..Len(stack') : stack'[f].State = Failed /\ nodes'[stack'[f].node].State = Failed
      /\ stack' # <<>>
  <2>1. CASE Pushed(stack', stack, c, Failed)
    <3>1. /\ 1..Len(stack') = (1..Len(stack)) \cup {Len(stack) + 1}
          /\ stack'[Len(stack) + 1].node = c /\ stack'[Len(stack) + 1].State = Failed
          /\ \A f \in 1..Len(stack) : stack'[f].node = stack[f].node /\ stack'[f].State = stack[f].State
          /\ Len(stack') # 0
      BY <2>1, <1>5 DEF Pushed
    <3>2. stack' # <<>>
      BY <3>1
    <3>3. \A f \in 1..Len(stack) : nodes'[stack[f].node].State = Failed
      BY <1>4, <1>5, Zenon
    <3>4. \A f \in 1..Len(stack) : stack'[f].State = Failed /\ nodes'[stack'[f].node].State = Failed
      BY <3>1, <3>3, <1>5, Zenon
    <3>5. /\ stack'[Len(stack) + 1].State = Failed
          /\ nodes'[stack'[Len(stack) + 1].node].State = Failed
      BY <3>1, <1>4, Zenon
    <3>6. \A f \in 1..Len(stack') : f \in 1..Len(stack) \/ f = Len(stack) + 1
      BY <3>1, Zenon
    <3> QED
      BY <3>2, <3>4, <3>5, <3>6, Zenon
  <2>2. CASE Advanced(stack', stack)
    <3>1. /\ Len(stack') = Len(stack)
          /\ \A f \in 1..Len(stack) : stack'[f].node = stack[f].node /\ stack'[f].State = stack[f].State
      BY <2>2 DEF Advanced
    <3>2. stack' # <<>>
      BY <3>1, <1>5
    <3>3. \A f \in 1..Len(stack) : nodes'[stack[f].node].State = Failed
      BY <1>4, <1>5, Zenon
    <3> QED
      BY <3>1, <3>2, <3>3, <1>5
  <2> QED
    BY <1>1, <2>1, <2>2, Zenon
<1>7. Frames'
  <2>1. pc' = "delete"
    BY <1>1, Zenon
  <2>2. Failed # Committed
    OBVIOUS
  <2> QED
    BY <1>6, <2>1, <2>2, Zenon DEF Frames
<1>8. /\ \A q \in 1..cur : \A i \in 1..Len(nodes[q].NChildNodes) : nodes[q].NChildNodes[i] \in 1..cur
      /\ \A x \in DOMAIN wait : \A i \in 1..Len(wait[x].NChildNodes) : wait[x].NChildNodes[i] \in 1..cur
  BY <1>0, KidsOK
<1>9. Links'
  <2>1. SUFFICES ASSUME NEW q \in 1..cur, NEW i \in 1..Len(nodes[q].NChildNodes),
                        nodes'[q].State # Committed \/ Pending(stack', q, i)
                 PROVE  nodes[q].id \in nodes'[nodes[q].NChildNodes[i]].Parents
    BY <1>1, <1>3, Zenon DEF Links
  <2>2. nodes'[q].State # Committed
    BY <1>6, <2>1 DEF Pending
  <2> QED
    BY <1>4, <1>8, <2>2, Zenon DEF LinkInv, Links
<1>10. EntryLinks'
  BY <1>1, <1>4, <1>8, Zenon DEF LinkInv, EntryLinks
<1>11. Counted'
  BY <1>1, <1>4, Zenon DEF LinkInv, Counted
<1> QED
  BY <1>0, <1>3, <1>7, <1>9, <1>10, <1>11 DEF LinkInv

\* The child that a released node calls counts it as a parent, so it was not released
\* before; and no other call is about the released node.
LEMMA CalledOnce ==
    ASSUME LinkInv, ReleaseChild
    PROVE  LET t == Top.node
               c == nodes[t].NChildNodes[Top.next]
           IN  /\ t \in 1..cur /\ Top.next \in 1..Len(nodes[t].NChildNodes) /\ c \in 1..cur
               /\ nodes[t].State = Committed /\ nodes[t].id \in nodes[c].Parents
               /\ nodes[c].State # Committed /\ t # c
               /\ \A f \in 1..Len(stack) : /\ stack[f].State = Committed
                                           /\ stack[f].node \in 1..cur
                                           /\ nodes[stack[f].node].State = Committed
                                           /\ stack[f].node = t => f = Len(stack)
<1> DEFINE t == Top.node
           j == Top.next
           c == nodes[t].NChildNodes[j]
<1>1. /\ TypeOK /\ pc = "delete" /\ stack # <<>> /\ Top.State = Committed
      /\ t \in 1..cur /\ j \in 1..Len(nodes[t].NChildNodes) /\ c \in 1..cur
  BY ReleaseChildEffect, Zenon DEF LinkInv
<1>2. /\ Len(stack) \in 1..Len(stack) /\ stack[Len(stack)] = Top
      /\ \A f \in 1..Len(stack) : stack[f].node \in 1..cur /\ stack[f].next \in Nat
  BY <1>1, StackParts, Zenon DEF Top
<1>3. \A f \in 1..Len(stack) : /\ stack[f].State = Committed
                               /\ nodes[stack[f].node].State = Committed
                               /\ stack[f].node = t => f = Len(stack)
  BY <1>1, <1>2 DEF LinkInv, Frames
<1>4. Pending(stack, t, j)
  BY <1>1, <1>2 DEF Pending
<1>5. nodes[t].id \in nodes[c].Parents
  BY <1>1, <1>4 DEF LinkInv, Links
<1>6. nodes[t].State = Committed
  BY <1>2, <1>3
<1>7. nodes[c].State # Committed
  BY <1>1, <1>5, Zenon DEF LinkInv, Counted
<1> QED
  BY <1>1, <1>2, <1>3, <1>5, <1>6, <1>7, Zenon

LEMMA ReleaseChildLinks == LinkInv /\ ReleaseChild /\ Typed => LinkInv'
<1> SUFFICES ASSUME LinkInv, ReleaseChild, Typed PROVE LinkInv'
  OBVIOUS
<1> DEFINE t == Top.node
           j == Top.next
           c == nodes[t].NChildNodes[j]
<1>0. TypeOK /\ TypeOK' /\ Fixed
  BY DEF LinkInv, Typed
<1>1. /\ pc = "delete" /\ stack # <<>>
      /\ UNCHANGED <<inbox, cur, TxCNs, wait, batches, pc>>
      /\ OnlyMarks(c) /\ Takes(nodes'[c], nodes[c], nodes[t].id)
      /\ \/ nodes'[c].ParentNum = 0 /\ Releases(c) /\ Pushed(stack', stack, c, Committed)
         \/ nodes'[c].ParentNum # 0 /\ Quiet(c) /\ Advanced(stack', stack)
  BY <1>0, ReleaseChildEffect, Zenon
<1>2. /\ t \in 1..cur /\ j \in 1..Len(nodes[t].NChildNodes) /\ c \in 1..cur
      /\ nodes[t].State = Committed /\ nodes[t].id \in nodes[c].Parents
      /\ nodes[c].State # Committed /\ t # c
      /\ \A f \in 1..Len(stack) : /\ stack[f].State = Committed
                                  /\ stack[f].node \in 1..cur
                                  /\ nodes[stack[f].node].State = Committed
                                  /\ stack[f].node = t => f = Len(stack)
  BY CalledOnce, Zenon
<1>3. /\ Distinct' /\ Entries' /\ OwnEntry' /\ NoRepeats'
      /\ \A m \in 1..cur : /\ nodes'[m].id = nodes[m].id
                           /\ nodes'[m].NChildNodes = nodes[m].NChildNodes
  BY <1>0, <1>1, MarksLinks, Zenon DEF OnlyMarks
<1>4. /\ Len(stack) \in Nat \ {0} /\ Len(stack) \in 1..Len(stack)
      /\ \A f \in 1..Len(stack) : stack[f].next \in Nat
      /\ stack[Len(stack)].next = j /\ j \in Nat
  BY <1>0, <1>1, StackParts, Zenon DEF Top
<1>5. /\ \A q \in 1..cur : \A i \in 1..Len(nodes[q].NChildNodes) : nodes[q].NChildNodes[i] \in 1..cur
      /\ \A x \in DOMAIN wait : \A i \in 1..Len(wait[x].NChildNodes) : wait[x].NChildNodes[i] \in 1..cur
  BY <1>0, KidsOK
\* the rest is about any child c
<1>6. \A q \in 1..cur : \A i \in 1..Len(nodes[q].NChildNodes) :
        q = t /\ nodes[q].NChildNodes[i] = c => i = j
  BY <1>2, Zenon DEF LinkInv, NoRepeats
<1>7. /\ Pushed(stack', stack, c, Committed) \/ Advanced(stack', stack)
      /\ Pushed(stack', stack, c, Committed) => nodes'[c].State = Committed
      /\ Advanced(stack', stack) => nodes'[c].State = nodes[c].State
  <2>1. ~(Pushed(stack', stack, c, Committed) /\ Advanced(stack', stack))
    BY <1>4, SMTT(40) DEF Pushed, Advanced
  <2> QED
    BY <1>1, <2>1, Zenon DEF Releases, Quiet, SameMark
<1>8. /\ \A m \in 1..cur : m # c => /\ nodes'[m].State = nodes[m].State
                                    /\ nodes'[m].Parents = nodes[m].Parents
                                    /\ nodes'[m].ParentNum = nodes[m].ParentNum
      /\ nodes'[c].Parents = nodes[c].Parents \ {nodes[t].id}
      /\ nodes'[c].ParentNum = nodes[c].ParentNum - 1
      /\ nodes'[c].State = Committed => nodes'[c].ParentNum = 0
  <2>1. nodes'[c].State = Committed => nodes'[c].ParentNum = 0
    BY <1>1, <1>2, Zenon DEF Quiet, SameMark
  <2> QED
    BY <1>1, <2>1, Zenon DEF OnlyMarks, Takes, SameParents, SameMark
<1> HIDE DEF c
<1>9. Frames'
  <2>1. \A f \in 1..Len(stack) : stack[f].node # c /\ nodes'[stack[f].node].State = Committed
    BY <1>2, <1>8
  <2>2. CASE Pushed(stack', stack, c, Committed)
    <3>1. /\ 1..Len(stack') = (1..Len(stack)) \cup {Len(stack) + 1}
          /\ stack'[Len(stack) + 1].node = c /\ stack'[Len(stack) + 1].State = Committed
          /\ \A f \in 1..Len(stack) : stack'[f].node = stack[f].node /\ stack'[f].State = stack[f].State
          /\ Len(stack') # 0
      BY <2>2, <1>4 DEF Pushed
    <3>2. stack' # <<>> /\ nodes'[c].State = Committed
      BY <3>1, <2>2, <1>7
    <3>3. \A f, g \in 1..Len(stack) : stack[f].node = stack[g].node => f = g
      BY <1>2 DEF LinkInv, Frames
    <3>4. \A f \in 1..Len(stack') : /\ nodes'[stack'[f].node].State = stack'[f].State
                                     /\ stack'[f].State = Committed
      BY <3>1, <3>2, <2>1, <1>2, Zenon
    <3>5. \A f, g \in 1..Len(stack') : stack'[f].node = stack'[g].node => f = g
      BY <3>1, <3>3, <2>1
    <3>6. pc' = "delete"
      BY <1>1
    <3> QED
      BY <3>2, <3>4, <3>5, <3>6, Zenon DEF Frames
  <2>3. CASE Advanced(stack', stack)
    <3>1. /\ Len(stack') = Len(stack)
          /\ \A f \in 1..Len(stack) : stack'[f].node = stack[f].node /\ stack'[f].State = stack[f].State
      BY <2>3 DEF Advanced
    <3>2. stack' # <<>>
      BY <3>1, <1>4
    <3>3. \A f, g \in 1..Len(stack) : stack[f].node = stack[g].node => f = g
      BY <1>2 DEF LinkInv, Frames
    <3>4. \A f \in 1..Len(stack') : /\ nodes'[stack'[f].node].State = stack'[f].State
                                     /\ stack'[f].State = Committed
      BY <3>1, <2>1, <1>2
    <3>5. \A f, g \in 1..Len(stack') : stack'[f].node = stack'[g].node => f = g
      BY <3>1, <3>3
    <3>6. pc' = "delete"
      BY <1>1
    <3> QED
      BY <3>2, <3>4, <3>5, <3>6, Zenon DEF Frames
  <2> QED
    BY <1>7, <2>2, <2>3
<1>10. ~Pending(stack', t, j)
  <2>1. SUFFICES ASSUME NEW f \in 1..Len(stack'), stack'[f].node = t, stack'[f].next <= j
                 PROVE  FALSE
    BY DEF Pending
  <2>2. f \in 1..Len(stack)
    <3>1. CASE Advanced(stack', stack)
      BY <2>1, <3>1, Zenon DEF Advanced
    <3>2. CASE Pushed(stack', stack, c, Committed)
      <4>1. Len(stack') = Len(stack) + 1 /\ stack'[Len(stack) + 1].node = c
        BY <3>2, Zenon DEF Pushed
      <4>2. f # Len(stack) + 1
        BY <4>1, <2>1, <1>2, Zenon
      <4>3. Len(stack) \in Nat /\ f \in 1..(Len(stack) + 1)
        BY <4>1, <2>1, <1>4, Zenon
      <4> QED
        BY <4>2, <4>3
    <3> QED
      BY <3>1, <3>2, <1>7, Zenon
  <2>3. stack'[f].node = stack[f].node /\ (f = Len(stack) => stack'[f].next = stack[f].next + 1)
    BY <2>2, <1>7, Zenon DEF Pushed, Advanced
  <2>4. f = Len(stack)
    BY <2>1, <2>2, <2>3, <1>2, Zenon
  <2> QED
    BY <2>1, <2>3, <2>4, <1>4
<1>11. Links'
  <2>1. SUFFICES ASSUME NEW q \in 1..cur, NEW i \in 1..Len(nodes[q].NChildNodes),
                        nodes'[q].State # Committed \/ Pending(stack', q, i)
                 PROVE  nodes[q].id \in nodes'[nodes[q].NChildNodes[i]].Parents
    BY <1>1, <1>3, Zenon DEF Links
  <2>2. i \in Nat /\ nodes[q].NChildNodes[i] \in 1..cur
    BY <1>5
  <2>3. nodes[q].State # Committed \/ Pending(stack, q, i)
    <3>1. Pending(stack', q, i) => Pending(stack, q, i) \/ q = c
      BY <1>0, <1>1, <1>2, <1>7, <2>2, PendingStep, Zenon
    <3> QED
      BY <3>1, <2>1, <1>2, <1>8, Zenon
  <2>4. nodes[q].id \in nodes[nodes[q].NChildNodes[i]].Parents
    BY <2>3 DEF LinkInv, Links
  <2>5. CASE q # t
    <3>1. nodes[q].id # nodes[t].id
      BY <2>5, <1>2, Zenon DEF LinkInv, Distinct
    <3> QED
      BY <3>1, <2>2, <2>4, <1>8
  <2>6. CASE q = t
    <3>1. i # j
      BY <2>1, <2>6, <1>2, <1>8, <1>10, Zenon
    <3>2. nodes[q].NChildNodes[i] # c
      BY <3>1, <2>6, <1>6
    <3> QED
      BY <3>2, <2>2, <2>4, <1>8
  <2> QED
    BY <2>5, <2>6, Zenon
<1>12. EntryLinks'
  <2>1. SUFFICES ASSUME NEW x \in DOMAIN wait, wait[x].ChoosedNode = 0
                 PROVE  \A i \in 1..Len(wait[x].NChildNodes) :
                             x \in nodes'[wait[x].NChildNodes[i]].Parents
    <3>1. wait' = wait /\ EntryLinks
      BY <1>1, Zenon DEF LinkInv
    <3> QED
      BY <3>1, Zenon DEF EntryLinks
  <2>2. x # nodes[t].id
    BY <1>1, <1>2, <2>1, Zenon DEF LinkInv, Entries
  <2>3. \A i \in 1..Len(wait[x].NChildNodes) : x \in nodes[wait[x].NChildNodes[i]].Parents
    BY <2>1 DEF LinkInv, EntryLinks
  <2> QED
    BY <2>2, <2>3, <1>5, <1>8, Zenon
<1>13. Counted'
  <2>1. \A m \in 1..cur : /\ Counts(nodes[m].ParentNum, nodes[m].Parents)
                          /\ nodes[m].State = Committed => nodes[m].Parents = {}
    BY DEF LinkInv, Counted
  <2>2. Counts(nodes'[c].ParentNum, nodes'[c].Parents)
    BY <2>1, <1>2, <1>8, CountsRemove, SMTT(40)
  <2>3. nodes'[c].State = Committed => nodes'[c].Parents = {}
    BY <2>2, <1>8, CountsEmpty, Zenon
  <2>4. pc' # "parents" /\ pc' # "finish" /\ cur' = cur
    BY <1>1
  <2> QED
    BY <2>1, <2>2, <2>3, <2>4, <1>8, Zenon DEF Counted
<1> QED
  BY <1>0, <1>3, <1>9, <1>11, <1>12, <1>13 DEF LinkInv

LEMMA OtherLinks ==
    ASSUME LinkInv, Return \/ CutOnSize \/ CutOnTimer \/ UNCHANGED vars, Typed
    PROVE  LinkInv'
<1>0. TypeOK /\ TypeOK'
  BY DEF LinkInv, Typed
<1>1. /\ inbox' = inbox /\ cur' = cur /\ nodes' = nodes /\ TxCNs' = TxCNs
      /\ wait' = wait /\ todo' = todo /\ hadWait' = hadWait
      /\ pc' = "parents" => pc = "parents"
      /\ pc' = "finish" => pc = "finish"
      /\ pc = "parents" => pc' = "parents"
  BY DEF Return, CutOnSize, CutOnTimer, vars, graph
<1>2. Frames' /\ \A q, i : Pending(stack', q, i) => Pending(stack, q, i)
  <2>1. CASE Return
    <3>1. /\ \A f \in 1..Len(stack') : stack'[f] = stack[f] /\ f \in 1..Len(stack)
          /\ pc' = "delete" <=> stack' # <<>>
      BY <1>0, <2>1, ReturnEffect
    <3>2. \A f \in 1..Len(stack) : nodes[stack[f].node].State = stack[f].State
      BY DEF LinkInv, Frames
    <3>3. \A f, g \in 1..Len(stack) :
            /\ stack[f].State = stack[g].State
            /\ stack[f].State = Committed /\ stack[f].node = stack[g].node => f = g
      BY DEF LinkInv, Frames
    <3>4. Frames'
      BY <3>1, <3>2, <3>3, <1>1 DEF Frames
    <3>5. \A q, i : Pending(stack', q, i) => Pending(stack, q, i)
      BY <3>1, Zenon DEF Pending
    <3> QED
      BY <3>4, <3>5
  <2>2. CASE stack' = stack /\ (pc' = "delete" <=> pc = "delete")
    BY <2>2, <1>1 DEF LinkInv, Frames, Pending
  <2> QED
    BY <2>1, <2>2 DEF CutOnSize, CutOnTimer, vars
<1>3. Distinct' /\ NoRepeats' /\ EntryLinks'
  BY <1>1 DEF LinkInv, Distinct, NoRepeats, EntryLinks
<1>4. Entries' /\ OwnEntry' /\ Counted'
  BY <1>1, Zenon DEF LinkInv, Entries, OwnEntry, Counted
<1>5. Links'
  BY <1>1, <1>2, Zenon DEF LinkInv, Links
<1> QED
  BY <1>0, <1>2, <1>3, <1>4, <1>5 DEF LinkInv

LEMMA LinkStep == LinkInv /\ Step => LinkInv'
BY ReceiveLinks, LinkParentLinks, AdoptChildrenLinks, FinishLinks, FailChildLinks, ReleaseChildLinks,
   OtherLinks DEF Next, Blocked, Step

---------------------------------------------------------------------------
(* What a step does to the stream.                                         *)

StreamStays ==
    /\ \A x : x \in Slots' <=> x \in Slots
    /\ \A x \in Slots : At(x)' = At(x)
    /\ \A m \in 1..cur : nodes'[m].State = Committed <=> nodes[m].State = Committed
    /\ \A m \in 1..cur' : m \in 1..cur \/ nodes'[m].State # Committed

StreamGrows(c) ==
    /\ c \in 1..cur /\ cur' = cur
    /\ nodes[c].State # Committed /\ nodes'[c].State = Committed
    /\ \A m \in 1..cur : m # c => nodes'[m].State = nodes[m].State
    /\ ReadyBatch' = Append(ReadyBatch, c) /\ batches' = batches

LEMMA StreamStep ==
    ASSUME LinkInv, [Next]_vars
    PROVE  StreamStays \/ \E c \in 1..cur : StreamGrows(c)
<1>0. TypeOK
  BY DEF LinkInv
<1>1. UNCHANGED <<ReadyBatch, batches>> => /\ \A x : x \in Slots' <=> x \in Slots
                                           /\ \A x \in Slots : At(x)' = At(x)
  BY DEF Slots, At, Stream
<1>2. CASE Receive
  <2>1. PICK env \in inbox :
              /\ 1..cur' = (1..cur) \cup {cur'}
              /\ \A m \in 1..cur : nodes'[m] = nodes[m]
              /\ Entered(env) \/ Rejected(env)
              /\ UNCHANGED <<ReadyBatch, batches>>
    BY <1>0, <1>2, ReceiveEffect
  <2>2. nodes'[cur'].State # Committed
    BY <2>1 DEF Entered, Rejected
  <2> QED
    BY <2>1, <2>2, <1>1, Zenon DEF StreamStays
<1>3. CASE LinkParent
  <2>1. /\ pc = "parents" /\ cur \in 1..cur /\ cur' = cur /\ UNCHANGED <<ReadyBatch, batches>>
        /\ nodes[cur].State # Committed
    <3>1. pc = "parents" /\ cur' = cur /\ UNCHANGED <<ReadyBatch, batches>>
      BY <1>3 DEF LinkParent
    <3>2. cur \in 1..cur
      BY <1>0, <3>1, SMTT(40) DEF TypeOK
    <3>3. nodes[cur].State # Committed
      BY <1>0, <3>1, <3>2 DEF LinkInv, Counted
    <3> QED
      BY <3>1, <3>2, <3>3
  <2>2. Iterated
    BY <1>0, <1>3, <2>1, LinkEffect, Zenon DEF LinkParent
  <2>3. \A m \in 1..cur : nodes'[m].State = Committed <=> nodes[m].State = Committed
    <3> SUFFICES ASSUME NEW m \in 1..cur
                 PROVE  nodes'[m].State = Committed <=> nodes[m].State = Committed
      OBVIOUS
    <3>1. CASE m = cur
      BY <3>1, <2>1, <2>2 DEF Iterated, SameMark
    <3>2. CASE m # cur
      BY <3>2, <2>2, Zenon DEF Iterated, SameMark
    <3> QED
      BY <3>1, <3>2
  <2> QED
    BY <2>1, <2>3, <1>1, Zenon DEF StreamStays
<1>4. CASE AdoptChildren
  <2>1. /\ cur' = cur /\ UNCHANGED <<ReadyBatch, batches>>
        /\ \A m \in 1..cur : SameMark(nodes'[m], nodes[m])
    BY <1>0, <1>4, AdoptEffect, Zenon
  <2> QED
    BY <2>1, <1>1, Zenon DEF StreamStays, SameMark
<1>5. CASE Finish
  <2>1. /\ cur \in 1..cur /\ cur' = cur /\ OnlyMarks(cur) /\ batches' = batches /\ pc = "finish"
        /\ Releases(cur) \/ Quiet(cur)
    BY <1>0, <1>5, FinishEffect, Zenon
  <2>2. nodes[cur].State # Committed
    BY <2>1, Zenon DEF LinkInv, Counted
  <2>3. \A m \in 1..cur : m # cur => nodes'[m].State = nodes[m].State
    BY <2>1, Zenon DEF OnlyMarks, SameMark
  <2>4. CASE Releases(cur)
    BY <2>1, <2>2, <2>3, <2>4, Zenon DEF StreamGrows, Releases
  <2>5. CASE Quiet(cur)
    BY <2>1, <2>3, <2>5, <1>1, Zenon DEF StreamStays, Quiet, SameMark
  <2> QED
    BY <2>1, <2>4, <2>5
<1>6. CASE FailChild
  <2> DEFINE c == nodes[Top.node].NChildNodes[Top.next]
  <2>1. /\ c \in 1..cur /\ cur' = cur /\ OnlyMarks(c) /\ UNCHANGED <<ReadyBatch, batches>>
        /\ Fails(c) \/ Quiet(c)
        /\ nodes[c].State # Committed
    BY <1>0, <1>6, FailChildEffect, FailedIsNotReleased, Zenon
  <2> HIDE DEF c
  <2>2. \A m \in 1..cur : m # c => nodes'[m].State = nodes[m].State
    BY <2>1, Zenon DEF OnlyMarks, SameMark
  <2>3. nodes'[c].State # Committed
    <3>1. nodes'[c].State = Failed \/ nodes'[c].State = nodes[c].State
      BY <2>1, Zenon DEF Fails, Quiet, SameMark
    <3>2. Failed # Committed
      BY DEF Failed, Committed
    <3> QED
      BY ONLY <2>1, <3>1, <3>2, Zenon
  <2> QED
    BY <2>1, <2>2, <2>3, <1>1, Zenon DEF StreamStays
<1>7. CASE ReleaseChild
  <2> DEFINE c == nodes[Top.node].NChildNodes[Top.next]
  <2>1. /\ c \in 1..cur /\ cur' = cur /\ OnlyMarks(c) /\ batches' = batches
        /\ Releases(c) \/ Quiet(c)
        /\ nodes[c].State # Committed
    BY <1>0, <1>7, ReleaseChildEffect, CalledOnce, Zenon
  <2> HIDE DEF c
  <2>2. \A m \in 1..cur : m # c => nodes'[m].State = nodes[m].State
    BY <2>1 DEF OnlyMarks, SameMark
  <2>3. CASE Releases(c)
    BY <2>1, <2>2, <2>3 DEF StreamGrows, Releases
  <2>4. CASE Quiet(c)
    BY <2>1, <2>2, <2>4, <1>1 DEF StreamStays, Quiet, SameMark
  <2> QED
    BY <2>1, <2>3, <2>4, Zenon
<1>8. CASE Return \/ CutOnSize \/ CutOnTimer \/ UNCHANGED vars
  <2>1. cur' = cur /\ nodes' = nodes /\ (Cut \/ UNCHANGED <<ReadyBatch, batches>>)
    BY <1>8 DEF Return, CutOnSize, CutOnTimer, vars, graph
  <2>2. /\ \A x : x \in Slots' <=> x \in Slots
        /\ \A x \in Slots : At(x)' = At(x)
    BY <2>1, <1>0, <1>1, CutSlots
  <2> QED
    BY <2>1, <2>2 DEF StreamStays
<1> QED
  BY <1>2, <1>3, <1>4, <1>5, <1>6, <1>7, <1>8 DEF Next, Blocked

LEMMA OnceStep == LinkInv /\ ExactlyOnce /\ Step => ExactlyOnce'
<1> SUFFICES ASSUME LinkInv, ExactlyOnce, Step PROVE ExactlyOnce'
  OBVIOUS
<1>0. /\ TypeOK /\ TypeOK'
      /\ DOMAIN nodes = 1..cur /\ DOMAIN nodes' = 1..cur'
  BY Zenon DEF LinkInv, TypeOK, Step, Typed
<1>1. CASE StreamStays
  <2>1. \A x \in Slots : At(x) \in 1..cur
    BY <1>0, SlotNode
  <2>2. \A x, y \in Slots' : At(x)' = At(y)' => x = y
    BY <1>1 DEF StreamStays, ExactlyOnce
  <2>3. ASSUME NEW m \in 1..cur'
        PROVE  nodes'[m].State = Committed <=> \E x \in Slots' : At(x)' = m
    <3>1. CASE m \in 1..cur
      BY <3>1, <1>0, <1>1 DEF StreamStays, ExactlyOnce
    <3>2. CASE m \notin 1..cur
      BY <3>2, <2>1, <1>1 DEF StreamStays
    <3> QED
      BY <3>1, <3>2
  <2> QED
    BY <1>0, <2>2, <2>3 DEF ExactlyOnce
<1>2. ASSUME NEW c \in 1..cur, StreamGrows(c) PROVE ExactlyOnce'
  <2>1. PICK new : /\ \A x : x \in Slots' <=> x \in Slots \/ x = new
                   /\ At(new)' = c
                   /\ \A x \in Slots : At(x)' = At(x)
    BY <1>0, <1>2, AppendSlot DEF StreamGrows
  <2>2. \A x \in Slots : At(x) # c
    BY <1>0, <1>2 DEF StreamGrows, ExactlyOnce
  <2>3. \A x, y \in Slots' : At(x)' = At(y)' => x = y
    BY <2>1, <2>2 DEF ExactlyOnce
  <2>4. \A m \in 1..cur : nodes'[m].State = Committed <=> \E x \in Slots' : At(x)' = m
    BY <2>1, <2>2, <1>0, <1>2 DEF ExactlyOnce, StreamGrows
  <2> QED
    BY <1>0, <1>2, <2>3, <2>4 DEF ExactlyOnce, StreamGrows
<1> QED
  BY <1>1, <1>2, StreamStep DEF Step

LEMMA InitOnce == Init => ExactlyOnce
<1> SUFFICES ASSUME Init PROVE ExactlyOnce
  OBVIOUS
<1>1. batches = <<>> /\ ReadyBatch = <<>> /\ DOMAIN nodes = {}
  BY DEF Init, NoMap
<1>2. Slots = {}
  BY <1>1 DEF Slots, Places, Stream
<1> QED
  BY <1>1, <1>2 DEF ExactlyOnce

\* The failure of a parent never reaches a released transaction.
LEMMA FinalStep ==
    ASSUME LinkInv, [Next]_vars
    PROVE  \A m \in DOMAIN nodes : nodes[m].State = Committed => nodes'[m].State = Committed
<1>1. DOMAIN nodes = 1..cur
  BY DEF LinkInv, TypeOK
<1>2. CASE StreamStays
  BY <1>1, <1>2 DEF StreamStays
<1>3. CASE \E c \in 1..cur : StreamGrows(c)
  BY <1>1, <1>3 DEF StreamGrows
<1> QED
  BY <1>2, <1>3, StreamStep
=============================================================================
