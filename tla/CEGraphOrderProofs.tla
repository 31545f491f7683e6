------------------------- MODULE CEGraphOrderProofs -------------------------
(***************************************************************************)
(* The promise of the graph: a released transaction that never failed comes *)
(* after every transaction it read from, and those wrote what it read.     *)
(* The theorems about the stream are at the end.                           *)
(***************************************************************************)
EXTENDS CEGraphProofs, CEGraphLinkProofs

USE DEF Committed, Waiting, Failed

\* what p wrote is in the stream, and is what node m read
Supplied(m, p) == \E x \in Slots : Supplies(x, nodes[m], p)

\* node q has failed, and its i-th child will be told
Doomed(q, i) == /\ nodes[q].State = Failed
                /\ (q = cur /\ pc \in {"parents", "finish"}) \/ Pending(stack, q, i)

\* A child read from its parent; unless it has failed, or is about to, it read what the
\* parent wrote.
KidValues ==
    \A q \in 1..cur : \A i \in 1..Len(nodes[q].NChildNodes) :
        LET c == nodes[q].NChildNodes[i]
        IN  /\ nodes[q].id \in DOMAIN nodes[c].PTx
            /\ \/ nodes[c].everFailed
               \/ Agrees(nodes[q].WriteSet, nodes[c].PTx[nodes[q].id])
               \/ Doomed(q, i)

\* An open entry holds what the children listed there read, or is contradictory.
EntryValues ==
    \A x \in DOMAIN wait : wait[x].ChoosedNode = 0 =>
        \A i \in 1..Len(wait[x].NChildNodes) :
            LET c == wait[x].NChildNodes[i]
            IN  /\ x \in DOMAIN nodes[c].PTx
                /\ \/ nodes[c].everFailed
                   \/ wait[x].DiffWaitWKV
                   \/ Agrees(wait[x].WriteSet, nodes[c].PTx[x])

\* A transaction that arrived after its children and did not fail wrote what they read.
OwnValues ==
    pc = "parents" /\ hadWait /\ nodes[cur].State # Failed =>
        /\ ~wait[nodes[cur].id].DiffWaitWKV
        /\ Agrees(nodes[cur].WriteSet, wait[nodes[cur].id].WriteSet)

Marked == \A m \in 1..cur : nodes[m].State = Failed => nodes[m].everFailed

\* Every parent of a node that never failed is still to be looked at, is counted, or is
\* in the stream with what the node read.
Read ==
    \A m \in 1..cur : ~nodes[m].everFailed => \A p \in DOMAIN nodes[m].PTx :
        \/ m = cur /\ pc = "parents" /\ p \in todo
        \/ p \in nodes[m].Parents
        \/ Supplied(m, p)

OrderInv == /\ LinkInv /\ ExactlyOnce /\ KidValues /\ EntryValues /\ OwnValues
            /\ Marked /\ Read /\ ParentsFirst

LEMMA InitOrderInv == ASSUME UniqueIds PROVE Init /\ TypeOK => OrderInv
<1> SUFFICES ASSUME Init, TypeOK PROVE OrderInv
  OBVIOUS
<1>1. LinkInv /\ ExactlyOnce
  BY InitLinkInv, InitOnce
<1>2. /\ cur = 0 /\ 1..cur = {} /\ DOMAIN wait = {} /\ pc = "recv"
      /\ batches = <<>> /\ ReadyBatch = <<>>
  BY DEF Init, NoMap
<1>3. Slots = {}
  BY <1>2 DEF Slots, Places, Stream
<1> QED
  BY <1>1, <1>2, <1>3, Zenon DEF OrderInv, KidValues, EntryValues, OwnValues, Marked, Read, ParentsFirst

\* The stream keeps its places and what stands there.
LEMMA SlotsStay ==
    ASSUME LinkInv, Step
    PROVE  \A x \in Slots : /\ x \in Slots' /\ At(x)' = At(x) /\ At(x) \in 1..cur
                            /\ nodes'[At(x)'].id = nodes[At(x)].id
                            /\ nodes'[At(x)'].PTx = nodes[At(x)].PTx
                            /\ nodes'[At(x)'].WriteSet = nodes[At(x)].WriteSet
<1>1. TypeOK /\ Fixed
  BY DEF Step, Typed, LinkInv
<1>2. \A x \in Slots : At(x) \in 1..cur
  BY <1>1, SlotNode
<1>3. \A x \in Slots : x \in Slots' /\ At(x)' = At(x)
  <2>1. CASE StreamStays
    BY <2>1, Zenon DEF StreamStays
  <2>2. ASSUME NEW c \in 1..cur, StreamGrows(c)
        PROVE  \A x \in Slots : x \in Slots' /\ At(x)' = At(x)
    BY <2>2, <1>1, AppendSlot DEF StreamGrows
  <2> QED
    BY <2>1, <2>2, StreamStep DEF Step
<1> QED
  BY <1>1, <1>2, <1>3 DEF Fixed

LEMMA SupplyStays ==
    ASSUME LinkInv, Step, NEW m \in 1..cur, NEW p, Supplied(m, p)
    PROVE  Supplied(m, p)'
<1>1. PICK x \in Slots : Supplies(x, nodes[m], p)
  BY DEF Supplied
<1>2. /\ x \in Slots' /\ nodes'[m].PTx = nodes[m].PTx
      /\ nodes'[At(x)'].id = nodes[At(x)].id
      /\ nodes'[At(x)'].WriteSet = nodes[At(x)].WriteSet
  BY SlotsStay DEF LinkInv, Fixed, Step, Typed
<1>3. Supplies(x, nodes[m], p)'
  BY <1>1, <1>2, Zenon DEF Supplies
<1> QED
  BY <1>2, <1>3, Zenon DEF Supplied

\* A released parent that wrote what node m read from it supplies it.
LEMMA ReleasedSupplies ==
    ASSUME TypeOK, ExactlyOnce, NEW q \in 1..cur, nodes[q].State = Committed, NEW m,
           Agrees(nodes[q].WriteSet, nodes[m].PTx[nodes[q].id])
    PROVE  \E x \in Slots : At(x) = q /\ Supplies(x, nodes[m], nodes[q].id)
<1>1. PICK x \in Slots : At(x) = q
  BY DEF TypeOK, ExactlyOnce
<1> QED
  BY <1>1, Zenon DEF Agrees, Supplies

Values == KidValues /\ EntryValues /\ OwnValues /\ Marked /\ Read

LEMMA ReceiveValues == ASSUME OrderInv, Receive, Typed PROVE Values'
<1>0. /\ TypeOK /\ TypeOK' /\ LinkInv /\ Step
      /\ KidValues /\ EntryValues /\ Marked /\ Read
  BY DEF OrderInv, LinkInv, Next, Step, Typed
<1>1. PICK env \in inbox :
              /\ cur' \in 1..cur' /\ cur' \notin 1..cur
              /\ 1..cur' = (1..cur) \cup {cur'} /\ pc = "recv" /\ pc' = "parents"
              /\ hadWait' = (env.id \in DOMAIN wait)
              /\ \A m \in 1..cur : nodes'[m] = nodes[m]
              /\ nodes'[cur'].id = env.id /\ nodes'[cur'].NChildNodes = <<>>
              /\ nodes'[cur'].PTx = PTx(env) /\ nodes'[cur'].WriteSet = WriteSet(env)
              /\ Entered(env) \/ Rejected(env)
              /\ stack' = stack
  BY <1>0, ReceiveEffect
<1>2. /\ \A q \in 1..cur' : q \in 1..cur \/ q = cur'
      /\ \A m \in 1..cur : nodes'[m] = nodes[m]
  BY <1>1
<1>3. /\ \A q \in 1..cur : \A i \in 1..Len(nodes[q].NChildNodes) : nodes[q].NChildNodes[i] \in 1..cur
      /\ \A x \in DOMAIN wait : \A i \in 1..Len(wait[x].NChildNodes) : wait[x].NChildNodes[i] \in 1..cur
      /\ 1..Len(<<>>) = {}
  BY <1>0, KidsOK
<1>4. \A q \in 1..cur : \A i : ~Doomed(q, i)
  BY <1>0, <1>1, NoStack DEF Doomed
<1>5. KidValues'
  <2>1. \A q \in 1..cur' : q \in 1..cur \/ nodes'[q].NChildNodes = <<>>
    BY <1>1
  <2>2. ASSUME NEW q \in 1..cur, NEW i \in 1..Len(nodes[q].NChildNodes)
        PROVE  LET c == nodes[q].NChildNodes[i]
               IN  /\ nodes'[c] = nodes[c]
                   /\ nodes[q].id \in DOMAIN nodes[c].PTx
                   /\ nodes[c].everFailed \/ Agrees(nodes[q].WriteSet, nodes[c].PTx[nodes[q].id])
    BY <1>0, <1>2, <1>3, <1>4, Zenon DEF KidValues
  <2> QED
    BY <1>2, <1>3, <2>1, <2>2, ZenonT(60) DEF KidValues
<1>6. /\ DOMAIN wait' = DOMAIN wait
      /\ \A x \in DOMAIN wait :
           /\ wait'[x].ChoosedNode = wait[x].ChoosedNode
           /\ wait'[x].NChildNodes = wait[x].NChildNodes
           /\ \/ wait'[x].WriteSet = wait[x].WriteSet /\ wait'[x].DiffWaitWKV = wait[x].DiffWaitWKV
              \/ wait'[x].DiffWaitWKV = TRUE
  BY <1>1 DEF Entered, Rejected
<1>7. EntryValues'
  <2> SUFFICES ASSUME NEW x \in DOMAIN wait, wait[x].ChoosedNode = 0,
                      NEW i \in 1..Len(wait[x].NChildNodes)
               PROVE  LET c == wait[x].NChildNodes[i]
                      IN  /\ x \in DOMAIN nodes'[c].PTx
                          /\ \/ nodes'[c].everFailed
                             \/ wait'[x].DiffWaitWKV
                             \/ Agrees(wait'[x].WriteSet, nodes'[c].PTx[x])
    BY <1>6, Zenon DEF EntryValues
  <2> DEFINE c == wait[x].NChildNodes[i]
  <2>1. /\ x \in DOMAIN nodes[c].PTx
        /\ nodes[c].everFailed \/ wait[x].DiffWaitWKV \/ Agrees(wait[x].WriteSet, nodes[c].PTx[x])
    BY <1>0 DEF EntryValues
  <2>2. nodes'[c] = nodes[c]
    BY <1>2, <1>3
  <2> QED
    BY <1>6, <2>1, <2>2
<1>8. OwnValues'
  BY <1>1, Zenon DEF OwnValues, Entered, Rejected
<1>9. Marked'
  BY <1>0, <1>1 DEF Marked, Entered, Rejected
<1>10. Read'
  <2>1. ASSUME NEW m \in 1..cur, ~nodes'[m].everFailed, NEW p \in DOMAIN nodes'[m].PTx
        PROVE  p \in nodes'[m].Parents \/ Supplied(m, p)'
    <3>1. p \in nodes[m].Parents \/ Supplied(m, p)
      BY <1>0, <1>1, <2>1 DEF Read
    <3> QED
      BY <3>1, <1>0, <1>1, SupplyStays
  <2>2. ~nodes'[cur'].everFailed => todo' = DOMAIN nodes'[cur'].PTx
    BY <1>1 DEF Entered, Rejected
  <2> QED
    BY <1>1, <1>2, <2>1, <2>2, Zenon DEF Read
<1> QED
  BY <1>5, <1>7, <1>8, <1>9, <1>10 DEF Values

LEMMA LinkParentValues == ASSUME OrderInv, LinkParent, Typed PROVE Values'
<1>0. /\ TypeOK /\ TypeOK' /\ Fixed /\ LinkInv /\ Step /\ ExactlyOnce
      /\ KidValues /\ EntryValues /\ OwnValues /\ Marked /\ Read
  BY DEF OrderInv, LinkInv, Next, Step, Typed
<1>1. /\ pc = "parents" /\ cur \in 1..cur /\ 0 \notin 1..cur /\ todo \subseteq DOMAIN nodes[cur].PTx
      /\ UNCHANGED <<inbox, cur, GState, ReadyBatch, batches, pc, hadWait, stack>>
  BY <1>0 DEF LinkParent, TypeOK
<1>2. PICK p \in todo : Iterated /\ (Listed(p) \/ Linked(p) \/ Unlinked(p))
  BY <1>0, <1>1, LinkEffect DEF LinkParent
<1> DEFINE id == nodes[cur].id
           own == TxCNs[p]
<1>3. /\ \A m \in 1..cur : /\ nodes'[m].id = nodes[m].id
                           /\ nodes'[m].PTx = nodes[m].PTx
                           /\ nodes'[m].WriteSet = nodes[m].WriteSet
      /\ \A m \in 1..cur : m # cur => SameMark(nodes'[m], nodes[m]) /\ SameParents(nodes'[m], nodes[m])
      /\ \/ SameMark(nodes'[cur], nodes[cur])
         \/ nodes'[cur].State = Failed /\ nodes'[cur].everFailed = TRUE
      /\ \A m \in 1..cur : nodes[m].everFailed => nodes'[m].everFailed
  BY <1>0, <1>2 DEF Fixed, Iterated, SameMark
<1>4. \A q \in 1..cur : \A i : Doomed(q, i) => Doomed(q, i)'
  <2>1. \A q, i : ~Pending(stack, q, i)
    BY <1>0, <1>1, NoStack
  <2> QED
    BY <1>1, <1>3, <2>1 DEF Doomed, SameMark
<1>5. /\ \A q \in 1..cur : \A i \in 1..Len(nodes[q].NChildNodes) : nodes[q].NChildNodes[i] \in 1..cur
      /\ \A x \in DOMAIN wait : \A i \in 1..Len(wait[x].NChildNodes) : wait[x].NChildNodes[i] \in 1..cur
      /\ \A q \in 1..cur : nodes[q].NChildNodes \in Seq(1..cur)
      /\ \A x \in DOMAIN wait : wait[x].NChildNodes \in Seq(1..cur)
  BY <1>0, KidsOK
<1>6. KidValues'
  <2> DEFINE Fits(q, i, c) == /\ nodes[q].id \in DOMAIN nodes'[c].PTx
                              /\ \/ nodes'[c].everFailed
                                 \/ Agrees(nodes[q].WriteSet, nodes'[c].PTx[nodes[q].id])
                                 \/ Doomed(q, i)'
  <2>1. SUFFICES ASSUME NEW q \in 1..cur, NEW i \in 1..Len(nodes'[q].NChildNodes)
                 PROVE  Fits(q, i, nodes'[q].NChildNodes[i])
    BY <1>1, <1>3, Zenon DEF KidValues
  <2>2. ASSUME NEW j \in 1..Len(nodes[q].NChildNodes) PROVE Fits(q, j, nodes[q].NChildNodes[j])
    <3> DEFINE c == nodes[q].NChildNodes[j]
    <3>1. /\ nodes[q].id \in DOMAIN nodes[c].PTx
          /\ \/ nodes[c].everFailed
             \/ Agrees(nodes[q].WriteSet, nodes[c].PTx[nodes[q].id])
             \/ Doomed(q, j)
      BY <1>0, Zenon DEF KidValues
    <3>2. c \in 1..cur
      BY <1>5
    <3> QED
      BY <3>1, <3>2, <1>3, <1>4, Zenon
  <2>3. CASE SameChildren(nodes'[q], nodes[q])
    BY <2>2, <2>3, Zenon DEF SameChildren
  <2>4. CASE Linked(p) /\ q = own
    <3>1. /\ nodes'[q].NChildNodes = Append(nodes[q].NChildNodes, cur)
          /\ \/ nodes'[cur].everFailed = TRUE
             \/ Agrees(nodes[q].WriteSet, nodes[cur].PTx[p])
      BY <2>4 DEF Linked
    <3>2. nodes[q].id = p
      BY <1>0, <2>4, Zenon DEF Linked, TypeOK
    <3>3. \/ i \in 1..Len(nodes[q].NChildNodes) /\ nodes'[q].NChildNodes[i] = nodes[q].NChildNodes[i]
          \/ nodes'[q].NChildNodes[i] = cur
      BY <3>1, <1>5, AppendParts
    <3>4. Fits(q, i, cur)
      BY <3>1, <3>2, <1>1, <1>3
    <3> QED
      BY <2>2, <3>3, <3>4, Zenon
  <2> QED
    BY <1>2, <2>3, <2>4, Zenon DEF Listed, Linked, Unlinked, ChildrenStay
<1>7. EntryValues'
  <2> DEFINE Fits(x, c) == /\ x \in DOMAIN nodes'[c].PTx
                           /\ \/ nodes'[c].everFailed
                              \/ wait'[x].DiffWaitWKV
                              \/ Agrees(wait'[x].WriteSet, nodes'[c].PTx[x])
  <2>1. SUFFICES ASSUME NEW x \in DOMAIN wait', wait'[x].ChoosedNode = 0,
                        NEW i \in 1..Len(wait'[x].NChildNodes)
                 PROVE  Fits(x, wait'[x].NChildNodes[i])
    BY Zenon DEF EntryValues
  <2>2. ASSUME x \in DOMAIN wait, wait[x].ChoosedNode = 0, NEW j \in 1..Len(wait[x].NChildNodes),
               wait[x].DiffWaitWKV => wait'[x].DiffWaitWKV,
               \A kv : Agrees(wait[x].WriteSet, kv) => Agrees(wait'[x].WriteSet, kv)
        PROVE  Fits(x, wait[x].NChildNodes[j])
    <3> DEFINE c == wait[x].NChildNodes[j]
    <3>1. /\ x \in DOMAIN nodes[c].PTx
          /\ nodes[c].everFailed \/ wait[x].DiffWaitWKV \/ Agrees(wait[x].WriteSet, nodes[c].PTx[x])
      BY <1>0, <2>2 DEF EntryValues
    <3>2. c \in 1..cur
      BY <1>5, <2>2
    <3> QED
      BY <2>2, <3>1, <3>2, <1>3
  <2>3. CASE Listed(p) /\ x = p
    <3>1. Fits(p, cur)
      BY <2>3, <1>1, <1>3, Zenon DEF Listed
    <3>2. CASE p \in DOMAIN wait
      <4>1. /\ wait[p].ChoosedNode = 0 /\ wait'[p].NChildNodes = Append(wait[p].NChildNodes, cur)
            /\ wait[p].DiffWaitWKV => wait'[p].DiffWaitWKV
            /\ \A kv : Agrees(wait[p].WriteSet, kv) => Agrees(wait'[p].WriteSet, kv)
        BY <3>2, <2>3 DEF Listed
      <4>2. \/ i \in 1..Len(wait[p].NChildNodes) /\ wait'[p].NChildNodes[i] = wait[p].NChildNodes[i]
            \/ wait'[p].NChildNodes[i] = cur
        BY <4>1, <3>2, <2>3, <1>5, AppendParts
      <4> QED
        BY <4>1, <4>2, <3>1, <3>2, <2>2, <2>3, Zenon
    <3>3. CASE p \notin DOMAIN wait
      <4>1. wait'[p].NChildNodes = <<cur>>
        BY <3>3, <2>3 DEF Listed
      <4>2. wait'[p].NChildNodes[i] = cur
        <5>1. i \in 1..Len(<<cur>>)
          BY <4>1, <2>1, <2>3, Zenon
        <5>2. i = 1
          BY <5>1
        <5> QED
          BY <4>1, <5>2
      <4> QED
        BY <4>2, <3>1, <2>3
    <3> QED
      BY <3>2, <3>3
  <2>4. CASE x \in DOMAIN wait /\ SameEntry(wait'[x], wait[x])
    BY <2>1, <2>2, <2>4 DEF SameEntry
  <2>5. \/ Listed(p) /\ x = p
        \/ x \in DOMAIN wait /\ SameEntry(wait'[x], wait[x])
    <3>1. CASE Listed(p)
      BY <3>1, Zenon DEF Listed, SameEntry
    <3>2. CASE MayClose /\ \A y \in DOMAIN wait : SameEntry(wait'[y], wait[y])
      BY <3>2, <2>1, <1>1 DEF MayClose
    <3> QED
      BY <1>2, <3>1, <3>2, Zenon DEF Linked, Unlinked
  <2> QED
    BY <2>3, <2>4, <2>5, Zenon
<1>8. OwnValues'
  <2> SUFFICES ASSUME hadWait, nodes'[cur].State # Failed
               PROVE  /\ ~wait'[id].DiffWaitWKV
                      /\ Agrees(nodes[cur].WriteSet, wait'[id].WriteSet)
    BY <1>1, <1>3 DEF OwnValues
  <2>1. nodes[cur].State # Failed
    BY <1>3 DEF SameMark
  <2>2. id \in DOMAIN wait /\ id \in DOMAIN TxCNs
    BY <1>0, <1>1, <2>1, Zenon DEF TypeOK, LinkInv, OwnEntry
  <2>3. SameEntry(wait'[id], wait[id])
    BY <1>2, <2>2, Zenon DEF Listed, Linked, Unlinked, SameEntry
  <2> QED
    BY <1>0, <1>1, <2>1, <2>3 DEF OwnValues, SameEntry
<1>9. Marked'
  BY <1>0, <1>1, <1>3 DEF Marked, SameMark
<1>10. Read'
  <2>1. SUFFICES ASSUME NEW m \in 1..cur, ~nodes'[m].everFailed, NEW r \in DOMAIN nodes[m].PTx
                 PROVE  \/ m = cur /\ r \in todo'
                        \/ r \in nodes'[m].Parents
                        \/ Supplied(m, r)'
    BY <1>1, <1>3, Zenon DEF Read
  <2>2. \/ m = cur /\ r \in todo
        \/ r \in nodes[m].Parents
        \/ Supplied(m, r)
    BY <1>0, <1>1, <1>3, <2>1 DEF Read
  <2>3. nodes[m].Parents \subseteq nodes'[m].Parents
    BY <1>2, <1>3, Zenon DEF Listed, Linked, Unlinked, Adds, SameParents
  <2>4. CASE Supplied(m, r)
    BY <2>4, <1>0, SupplyStays
  <2>5. CASE m = cur /\ r \in todo
    <3>1. CASE p \in nodes'[cur].Parents /\ todo' = todo \ {p}
      BY <3>1, <2>5
    <3>2. CASE /\ todo' = todo \ {p} /\ p \in DOMAIN TxCNs
               /\ nodes[TxCNs[p]].State = Committed
               /\ Agrees(nodes[TxCNs[p]].WriteSet, nodes[cur].PTx[p])
      <4>1. own \in 1..cur /\ nodes[own].id = p
        BY <3>2, <1>0 DEF TypeOK
      <4>2. Supplied(m, p)
        BY <3>2, <4>1, <2>5, <1>0, ReleasedSupplies DEF Supplied
      <4>3. Supplied(m, p)'
        BY <4>2, <1>0, <1>1, SupplyStays
      <4> QED
        BY <3>2, <4>3, <2>5
    <3>3. nodes'[cur].everFailed # TRUE
      BY <2>1, <2>5, Zenon
    <3>4. CASE Listed(p) \/ Linked(p)
      <4>1. p \in nodes'[cur].Parents /\ todo' = todo \ {p}
        BY <3>4, Zenon DEF Listed, Linked, Adds
      <4> QED
        BY <4>1, <3>1
    <3>5. CASE Unlinked(p)
      BY <3>2, <3>3, <3>5, Zenon DEF Unlinked
    <3> QED
      BY <1>2, <3>4, <3>5
  <2> QED
    BY <2>2, <2>3, <2>4, <2>5
<1> QED
  BY <1>6, <1>7, <1>8, <1>9, <1>10 DEF Values

LEMMA AdoptChildrenValues == ASSUME OrderInv, AdoptChildren, Typed PROVE Values'
<1>0. /\ TypeOK /\ TypeOK' /\ Fixed /\ LinkInv /\ Step
      /\ KidValues /\ EntryValues /\ OwnValues /\ Marked /\ Read
  BY DEF OrderInv, LinkInv, Next, Step, Typed
<1> DEFINE id == nodes[cur].id
<1>1. /\ cur \in 1..cur /\ cur' = cur /\ pc = "parents" /\ pc' = "finish" /\ todo = {}
      /\ \A m \in 1..cur : /\ SameMark(nodes'[m], nodes[m])
                           /\ SameParents(nodes'[m], nodes[m])
                           /\ m # cur => SameChildren(nodes'[m], nodes[m])
      /\ ~hadWait => SameChildren(nodes'[cur], nodes[cur]) /\ wait' = wait
      /\ hadWait => /\ id \in DOMAIN wait
                    /\ nodes'[cur].NChildNodes = wait[id].NChildNodes
                    /\ \A x \in DOMAIN wait : x # id => x \in DOMAIN wait' /\ wait'[x] = wait[x]
      /\ hadWait /\ nodes[cur].State # Failed => DOMAIN wait' = DOMAIN wait \ {id}
      /\ hadWait /\ nodes[cur].State = Failed =>
           DOMAIN wait' = DOMAIN wait /\ wait'[id].ChoosedNode = cur
      /\ stack' = stack
  BY <1>0, AdoptEffect
<1>2. /\ \A m \in 1..cur : /\ nodes'[m].id = nodes[m].id
                           /\ nodes'[m].PTx = nodes[m].PTx
                           /\ nodes'[m].WriteSet = nodes[m].WriteSet
                           /\ nodes'[m].everFailed = nodes[m].everFailed
                           /\ nodes'[m].State = nodes[m].State
                           /\ nodes'[m].Parents = nodes[m].Parents
      /\ hadWait \in BOOLEAN /\ 0 \notin 1..cur
  BY <1>0, <1>1 DEF Fixed, SameMark, SameParents, TypeOK
<1>3. \A q \in 1..cur : \A i : Doomed(q, i) => Doomed(q, i)'
  BY <1>1, <1>2 DEF Doomed
<1>4. /\ \A q \in 1..cur : \A i \in 1..Len(nodes[q].NChildNodes) : nodes[q].NChildNodes[i] \in 1..cur
      /\ \A x \in DOMAIN wait : \A i \in 1..Len(wait[x].NChildNodes) : wait[x].NChildNodes[i] \in 1..cur
  BY <1>0, KidsOK
<1>5. KidValues'
  <2> DEFINE Fits(q, i, c) == /\ nodes[q].id \in DOMAIN nodes[c].PTx
                              /\ \/ nodes[c].everFailed
                                 \/ Agrees(nodes[q].WriteSet, nodes[c].PTx[nodes[q].id])
                                 \/ Doomed(q, i)'
  <2>1. SUFFICES ASSUME NEW q \in 1..cur, NEW i \in 1..Len(nodes'[q].NChildNodes)
                 PROVE  /\ nodes'[q].NChildNodes[i] \in 1..cur
                        /\ Fits(q, i, nodes'[q].NChildNodes[i])
    BY <1>1, <1>2, ZenonT(60) DEF KidValues
  <2>2. CASE SameChildren(nodes'[q], nodes[q])
    <3>1. i \in 1..Len(nodes[q].NChildNodes) /\ nodes'[q].NChildNodes[i] = nodes[q].NChildNodes[i]
      BY <2>2 DEF SameChildren
    <3> QED
      BY <3>1, <1>0, <1>3, <1>4, Zenon DEF KidValues
  <2>3. CASE q = cur /\ hadWait
    <3> DEFINE c == wait[id].NChildNodes[i]
    <3>1. /\ i \in 1..Len(wait[id].NChildNodes) /\ nodes'[q].NChildNodes[i] = c
          /\ id \in DOMAIN wait /\ wait[id].ChoosedNode = 0 /\ c \in 1..cur
      BY <2>3, <1>0, <1>1, <1>4 DEF LinkInv, OwnEntry
    <3>2. /\ id \in DOMAIN nodes[c].PTx
          /\ nodes[c].everFailed \/ wait[id].DiffWaitWKV \/ Agrees(wait[id].WriteSet, nodes[c].PTx[id])
      BY <3>1, <1>0, Zenon DEF EntryValues
    <3>3. CASE nodes[cur].State = Failed
      <4>1. Doomed(q, i)'
        BY <3>3, <2>3, <1>1, <1>2 DEF Doomed
      <4> QED
        BY <4>1, <3>1, <3>2, <2>3, Zenon
    <3>4. CASE nodes[cur].State # Failed
      <4>1. ~wait[id].DiffWaitWKV /\ Agrees(nodes[cur].WriteSet, wait[id].WriteSet)
        BY <3>4, <2>3, <1>0, <1>1 DEF OwnValues
      <4>2. Agrees(wait[id].WriteSet, nodes[c].PTx[id]) => Agrees(nodes[cur].WriteSet, nodes[c].PTx[id])
        BY <4>1, Zenon DEF Agrees
      <4>3. Fits(q, i, c)
        BY <4>1, <4>2, <3>2, <2>3, Zenon
      <4> QED
        BY <4>3, <3>1, <2>3, Zenon
    <3> QED
      BY <3>3, <3>4, Zenon
  <2> QED
    BY <1>1, <1>2, <2>2, <2>3, Zenon
<1>6. EntryValues'
  <2>1. SUFFICES ASSUME NEW x \in DOMAIN wait', wait'[x].ChoosedNode = 0,
                        NEW i \in 1..Len(wait'[x].NChildNodes)
                 PROVE  LET c == wait'[x].NChildNodes[i]
                        IN  /\ c \in 1..cur
                            /\ x \in DOMAIN nodes[c].PTx
                            /\ \/ nodes[c].everFailed
                               \/ wait'[x].DiffWaitWKV
                               \/ Agrees(wait'[x].WriteSet, nodes[c].PTx[x])
    BY <1>2, Zenon DEF EntryValues
  <2>2. x \in DOMAIN wait /\ wait'[x] = wait[x]
    BY <1>1, <1>2, <2>1
  <2> QED
    BY <2>1, <2>2, <1>0, <1>4 DEF EntryValues
<1>7. OwnValues'
  BY <1>1 DEF OwnValues
<1>8. Marked'
  BY <1>0, <1>1, <1>2 DEF Marked
<1>9. Read'
  <2>1. SUFFICES ASSUME NEW m \in 1..cur, ~nodes[m].everFailed, NEW r \in DOMAIN nodes[m].PTx
                 PROVE  r \in nodes[m].Parents \/ Supplied(m, r)'
    BY <1>1, <1>2, Zenon DEF Read
  <2>2. r \in nodes[m].Parents \/ Supplied(m, r)
    BY <1>0, <1>1, <2>1 DEF Read
  <2> QED
    BY <2>2, <1>0, SupplyStays
<1> QED
  BY <1>5, <1>6, <1>7, <1>8, <1>9 DEF Values

\* Finish and Delete change neither what was read nor the lists; a node stays marked.
LEMMA MarksValues ==
    ASSUME OrderInv, Step, pc \notin {"recv", "parents"}, pc' \in {"delete", "cut"},
           cur' = cur, wait' = wait, ChildrenStay,
           \A m \in 1..cur : nodes[m].everFailed => nodes'[m].everFailed,
           \A m \in 1..cur : nodes'[m].State = Failed => nodes'[m].everFailed,
           \A q \in 1..cur : \A i \in 1..Len(nodes[q].NChildNodes) :
               Doomed(q, i) => Doomed(q, i)' \/ nodes'[nodes[q].NChildNodes[i]].everFailed,
           \A m \in 1..cur : \A p \in DOMAIN nodes[m].PTx :
               p \in nodes[m].Parents /\ ~nodes'[m].everFailed =>
                   p \in nodes'[m].Parents \/ Supplied(m, p)
    PROVE  Values'
<1>0. /\ TypeOK /\ Fixed /\ LinkInv
      /\ KidValues /\ EntryValues /\ Read
  BY DEF Step, Typed, OrderInv, LinkInv
<1>1. \A m \in 1..cur : /\ nodes'[m].id = nodes[m].id
                        /\ nodes'[m].PTx = nodes[m].PTx
                        /\ nodes'[m].WriteSet = nodes[m].WriteSet
                        /\ nodes'[m].NChildNodes = nodes[m].NChildNodes
  BY <1>0 DEF Fixed, ChildrenStay, SameChildren
<1>2. /\ \A q \in 1..cur : \A i \in 1..Len(nodes[q].NChildNodes) : nodes[q].NChildNodes[i] \in 1..cur
      /\ \A x \in DOMAIN wait : \A i \in 1..Len(wait[x].NChildNodes) : wait[x].NChildNodes[i] \in 1..cur
  BY <1>0, KidsOK
<1>3. KidValues'
  <2>1. ASSUME NEW q \in 1..cur, NEW i \in 1..Len(nodes'[q].NChildNodes)
        PROVE  LET c == nodes'[q].NChildNodes[i]
               IN  /\ nodes'[q].id \in DOMAIN nodes'[c].PTx
                   /\ \/ nodes'[c].everFailed
                      \/ Agrees(nodes'[q].WriteSet, nodes'[c].PTx[nodes'[q].id])
                      \/ Doomed(q, i)'
    <3> DEFINE c == nodes[q].NChildNodes[i]
    <3>1. /\ i \in 1..Len(nodes[q].NChildNodes) /\ nodes'[q].NChildNodes[i] = c
          /\ nodes'[q].id = nodes[q].id /\ nodes'[q].WriteSet = nodes[q].WriteSet
      BY <1>1
    <3>2. c \in 1..cur /\ nodes'[c].PTx = nodes[c].PTx
      BY <1>1, <1>2, <3>1
    <3>3. /\ nodes[q].id \in DOMAIN nodes[c].PTx
          /\ \/ nodes[c].everFailed
             \/ Agrees(nodes[q].WriteSet, nodes[c].PTx[nodes[q].id])
             \/ Doomed(q, i)
      BY <1>0, <3>1, Zenon DEF KidValues
    <3> QED
      BY <3>1, <3>2, <3>3, Zenon
  <2> QED
    BY <2>1, Zenon DEF KidValues
<1>4. EntryValues'
  <2>1. ASSUME NEW x \in DOMAIN wait, wait[x].ChoosedNode = 0,
               NEW i \in 1..Len(wait[x].NChildNodes)
        PROVE  LET c == wait[x].NChildNodes[i]
               IN  /\ x \in DOMAIN nodes'[c].PTx
                   /\ \/ nodes'[c].everFailed
                      \/ wait[x].DiffWaitWKV
                      \/ Agrees(wait[x].WriteSet, nodes'[c].PTx[x])
    BY <1>0, <1>1, <1>2, <2>1, Zenon DEF EntryValues
  <2> QED
    BY <2>1, Zenon DEF EntryValues
<1>5. OwnValues' /\ Marked'
  BY DEF OwnValues, Marked
<1>6. Read'
  <2>1. SUFFICES ASSUME NEW m \in 1..cur, ~nodes'[m].everFailed, NEW r \in DOMAIN nodes[m].PTx
                 PROVE  r \in nodes'[m].Parents \/ Supplied(m, r)'
    BY <1>1, Zenon DEF Read
  <2>2. r \in nodes'[m].Parents \/ Supplied(m, r)
    BY <1>0, <2>1 DEF Read
  <2> QED
    BY <2>2, <1>0, SupplyStays
<1> QED
  BY <1>3, <1>4, <1>5, <1>6 DEF Values

LEMMA FinishValues == ASSUME OrderInv, Finish, Typed PROVE Values'
<1>0. TypeOK /\ LinkInv /\ Marked /\ Step
  BY DEF OrderInv, LinkInv, Next, Step
<1>1. /\ cur \in 1..cur /\ cur' = cur /\ pc = "finish" /\ pc' \in {"delete", "cut"} /\ wait' = wait
      /\ OnlyMarks(cur) /\ SameParents(nodes'[cur], nodes[cur])
      /\ \/ Releases(cur)
         \/ nodes[cur].State = Failed /\ Quiet(cur) /\ stack' = <<Call(cur, Failed)>>
         \/ nodes[cur].State # Failed /\ Quiet(cur)
  BY <1>0, FinishEffect
<1>2. /\ ChildrenStay
      /\ \A m \in 1..cur : nodes'[m].everFailed = nodes[m].everFailed
      /\ \A m \in 1..cur : nodes'[m].Parents = nodes[m].Parents
      /\ \A m \in 1..cur : nodes'[m].State = Failed => nodes[m].State = Failed
  BY <1>1 DEF OnlyMarks, SameMark, SameParents, Releases, Quiet
<1>3. ASSUME NEW q \in 1..cur, NEW i \in 1..Len(nodes[q].NChildNodes), Doomed(q, i)
      PROVE  Doomed(q, i)' \/ nodes'[nodes[q].NChildNodes[i]].everFailed
  <2>1. q = cur /\ nodes[cur].State = Failed
    BY <1>0, <1>1, <1>3, NoStack DEF Doomed
  <2>2. CASE Quiet(cur) /\ stack' = <<Call(cur, Failed)>>
    <3>1. nodes'[q].State = Failed
      BY <2>1, <2>2 DEF Quiet, SameMark
    <3>2. /\ 1 \in 1..Len(stack') /\ stack'[1].node = q /\ stack'[1].next = 1 /\ 1 <= i
      BY <2>1, <2>2 DEF Call
    <3>3. Pending(stack', q, i)
      BY <3>2, Zenon DEF Pending
    <3> QED
      BY <3>1, <3>3 DEF Doomed
  <2>3. CASE Releases(cur)
    <3>1. nodes[cur].everFailed /\ nodes'[cur].everFailed
      BY <2>1, <1>0, <1>1, <1>2 DEF Marked
    <3>2. nodes[cur].State # Failed
      BY <1>0, <1>1, <2>3, FinishEffect DEF Quiet, Releases, SameMark
    <3> QED
      BY <3>2, <2>1
  <2> QED
    BY <1>1, <2>1, <2>2, <2>3
<1>4. \A m \in 1..cur : nodes'[m].State = Failed => nodes'[m].everFailed
  BY <1>0, <1>2 DEF Marked
<1> QED
  BY <1>0, <1>1, <1>2, <1>3, <1>4, MarksValues

LEMMA FailChildValues == ASSUME OrderInv, FailChild, Typed PROVE Values'
<1> DEFINE t == Top.node
           j == Top.next
           c == nodes[t].NChildNodes[j]
<1>0. TypeOK /\ LinkInv /\ Marked /\ Step
  BY DEF OrderInv, LinkInv, Next, Step
<1>1. /\ pc = "delete" /\ stack # <<>> /\ c \in 1..cur
      /\ UNCHANGED <<cur, wait, pc>>
      /\ OnlyMarks(c) /\ SameParents(nodes'[c], nodes[c])
      /\ \/ Fails(c) /\ Pushed(stack', stack, c, Failed)
         \/ nodes[c].State = Failed /\ Quiet(c) /\ Advanced(stack', stack)
  BY <1>0, FailChildEffect, Zenon
<1>2. /\ nodes'[c].State = Failed /\ nodes'[c].everFailed
      /\ \A m \in 1..cur : m # c => /\ nodes'[m].everFailed = nodes[m].everFailed
                                    /\ nodes'[m].State = nodes[m].State
      /\ \A m \in 1..cur : nodes'[m].Parents = nodes[m].Parents
      /\ ChildrenStay
  <2>1. nodes'[c].State = Failed /\ nodes'[c].everFailed
    BY <1>0, <1>1, Zenon DEF Marked, Fails, Quiet, SameMark
  <2> QED
    BY <1>1, <2>1, Zenon DEF OnlyMarks, SameMark, SameParents
<1>3. ASSUME NEW q \in 1..cur, NEW i \in 1..Len(nodes[q].NChildNodes), Doomed(q, i)
      PROVE  Doomed(q, i)' \/ nodes'[nodes[q].NChildNodes[i]].everFailed
  <2>1. nodes[q].State = Failed /\ Pending(stack, q, i)
    BY <1>1, <1>3, Zenon DEF Doomed
  <2>2. nodes'[q].State = Failed
    BY <1>2, <2>1
  <2>3. i \in Nat /\ Len(nodes[q].NChildNodes) \in Nat
    BY <1>0, KidsOK
  <2>4. Pending(stack', q, i) \/ (q = t /\ i = j)
    BY <2>1, <2>3, <1>0, <1>1, PendingStep, Zenon
  <2> QED
    BY <2>2, <2>4, <1>2, Zenon DEF Doomed
<1>4. \A m \in 1..cur : nodes'[m].State = Failed => nodes'[m].everFailed
  BY <1>0, <1>2 DEF Marked
<1> QED
  BY <1>0, <1>1, <1>2, <1>3, <1>4, MarksValues, Zenon

LEMMA ReleaseChildValues == ASSUME OrderInv, ReleaseChild, Typed PROVE Values'
<1> DEFINE t == Top.node
           j == Top.next
           c == nodes[t].NChildNodes[j]
<1>0. TypeOK /\ LinkInv /\ KidValues /\ Marked /\ ExactlyOnce /\ Step
  BY DEF OrderInv, LinkInv, Next, Step
<1>1. /\ pc = "delete" /\ stack # <<>>
      /\ UNCHANGED <<cur, wait, pc>>
      /\ OnlyMarks(c) /\ Takes(nodes'[c], nodes[c], nodes[t].id)
      /\ Releases(c) \/ Quiet(c)
  BY <1>0, ReleaseChildEffect, Zenon
<1>2. /\ t \in 1..cur /\ j \in 1..Len(nodes[t].NChildNodes) /\ c \in 1..cur
      /\ nodes[t].State = Committed
      /\ \A f \in 1..Len(stack) : nodes[stack[f].node].State = Committed
  BY <1>0, CalledOnce, Zenon
<1>3. ASSUME NEW q, NEW i, Doomed(q, i) PROVE FALSE
  <2>1. nodes[q].State = Failed /\ Pending(stack, q, i)
    BY <1>1, <1>3 DEF Doomed
  <2>2. nodes[q].State = Committed
    BY <1>2, <2>1, Zenon DEF Pending
  <2> QED
    BY <2>1, <2>2
<1>4. /\ ChildrenStay
      /\ \A m \in 1..cur : nodes'[m].everFailed = nodes[m].everFailed
      /\ \A m \in 1..cur : m # c => nodes'[m].Parents = nodes[m].Parents
      /\ nodes'[c].Parents = nodes[c].Parents \ {nodes[t].id}
      /\ \A m \in 1..cur : nodes'[m].State = Failed => nodes[m].State = Failed
  <2>1. nodes'[c].everFailed = nodes[c].everFailed /\ (nodes'[c].State = Failed => nodes[c].State = Failed)
    <3>1. CASE Releases(c)
      <4>1. nodes'[c].State = Committed /\ nodes'[c].everFailed = nodes[c].everFailed
        BY <3>1, Zenon DEF Releases
      <4> QED
        BY <4>1
    <3>2. CASE Quiet(c)
      BY <3>2, Zenon DEF Quiet, SameMark
    <3> QED
      BY <1>1, <3>1, <3>2, Zenon
  <2> QED
    BY <1>1, <2>1, Zenon DEF OnlyMarks, SameMark, SameParents, Takes
<1>5. ~nodes[c].everFailed => Supplied(c, nodes[t].id)
  <2>1. \/ nodes[c].everFailed
        \/ Agrees(nodes[t].WriteSet, nodes[c].PTx[nodes[t].id])
    BY <1>0, <1>2, <1>3, Zenon DEF KidValues
  <2> QED
    BY <2>1, <1>0, <1>2, ReleasedSupplies, Zenon DEF Supplied
<1> HIDE DEF c
<1>6. ASSUME NEW m \in 1..cur, NEW p \in DOMAIN nodes[m].PTx, p \in nodes[m].Parents,
             ~nodes'[m].everFailed
      PROVE  p \in nodes'[m].Parents \/ Supplied(m, p)
  BY <1>4, <1>5, <1>6
<1>7. \A m \in 1..cur : nodes'[m].State = Failed => nodes'[m].everFailed
  BY <1>0, <1>4 DEF Marked
<1> QED
  BY <1>0, <1>1, <1>3, <1>4, <1>6, <1>7, MarksValues, Zenon

LEMMA OtherValues ==
    ASSUME OrderInv, Return \/ CutOnSize \/ CutOnTimer \/ UNCHANGED vars, Typed
    PROVE  Values'
<1>0. /\ TypeOK /\ LinkInv /\ Step
      /\ KidValues /\ EntryValues /\ OwnValues /\ Marked /\ Read
  BY DEF OrderInv, LinkInv, Next, Step
<1>1. /\ cur' = cur /\ nodes' = nodes /\ wait' = wait /\ todo' = todo /\ hadWait' = hadWait
      /\ pc' = "parents" <=> pc = "parents"
      /\ pc' = "finish" <=> pc = "finish"
  BY DEF Return, CutOnSize, CutOnTimer, vars, graph
<1>2. ASSUME NEW q \in 1..cur, NEW i \in 1..Len(nodes[q].NChildNodes), Doomed(q, i)
      PROVE  Doomed(q, i)'
  <2>1. CASE Return
    <3>1. /\ pc = "delete" /\ stack # <<>>
          /\ Top.next > Len(nodes[Top.node].NChildNodes)
          /\ Len(stack') = Len(stack) - 1
          /\ \A f \in 1..Len(stack') : stack'[f] = stack[f] /\ f \in 1..Len(stack)
      BY <1>0, <2>1, ReturnEffect
    <3>2. PICK f \in 1..Len(stack) : stack[f].node = q /\ stack[f].next <= i
      BY <1>2, <3>1 DEF Doomed, Pending
    <3>3. Len(nodes[q].NChildNodes) \in Nat /\ Len(stack) \in Nat /\ stack[f].next \in Nat
      BY <1>0, <3>1, KidsOK, StackParts
    <3>4. f # Len(stack)
      BY <3>1, <3>2, <3>3 DEF Top
    <3>5. f \in 1..Len(stack')
      BY <3>1, <3>3, <3>4
    <3>6. Pending(stack', q, i)
      BY <3>1, <3>2, <3>5 DEF Pending
    <3> QED
      BY <3>6, <1>1, <1>2 DEF Doomed
  <2>2. CASE stack' = stack
    BY <2>2, <1>1, <1>2 DEF Doomed
  <2> QED
    BY <2>1, <2>2 DEF CutOnSize, CutOnTimer, vars
<1>3. KidValues'
  BY <1>0, <1>1, <1>2, Zenon DEF KidValues
<1>4. EntryValues' /\ OwnValues' /\ Marked'
  BY <1>0, <1>1 DEF EntryValues, OwnValues, Marked
<1>5. Read'
  <2>1. \A m \in 1..cur : \A p : Supplied(m, p) => Supplied(m, p)'
    BY <1>0, SupplyStays
  <2> QED
    BY <1>0, <1>1, <2>1 DEF Read
<1> QED
  BY <1>3, <1>4, <1>5 DEF Values

LEMMA ValuesStep == OrderInv /\ Step => Values'
BY ReceiveValues, LinkParentValues, AdoptChildrenValues, FinishValues, FailChildValues,
   ReleaseChildValues, OtherValues DEF Next, Blocked, Step

\* A node is released when no parent is left, and what it read is in the stream by then.
LEMMA ReleasedHasAll ==
    ASSUME OrderInv, Step, NEW c \in 1..cur, StreamGrows(c), ~nodes'[c].everFailed
    PROVE  \A p \in DOMAIN nodes[c].PTx : Supplied(c, p)
<1>0. /\ TypeOK /\ LinkInv /\ LinkInv' /\ Read /\ KidValues /\ ExactlyOnce
      /\ cur' = cur /\ nodes'[c].Parents = {} /\ nodes'[c].State = Committed /\ nodes[c].State # Committed
  BY LinkStep DEF OrderInv, LinkInv, Counted, StreamGrows
<1>1. CASE Finish
  <2>1. /\ pc = "finish" /\ OnlyMarks(cur) /\ SameParents(nodes'[cur], nodes[cur])
        /\ nodes'[cur].everFailed = nodes[cur].everFailed
    BY <1>0, <1>1, FinishEffect DEF Releases, Quiet, SameMark
  <2>2. c = cur
    BY <1>0, <2>1 DEF OnlyMarks, SameMark
  <2>3. nodes[c].Parents = {} /\ ~nodes[c].everFailed
    BY <1>0, <2>1, <2>2 DEF SameParents
  <2> QED
    BY <1>0, <2>1, <2>3 DEF Read
<1>2. CASE ReleaseChild
  <2> DEFINE t == Top.node
             d == nodes[t].NChildNodes[Top.next]
  <2>1. /\ pc = "delete" /\ OnlyMarks(d) /\ Takes(nodes'[d], nodes[d], nodes[t].id)
        /\ Releases(d) \/ Quiet(d)
    BY <1>0, <1>2, ReleaseChildEffect, Zenon
  <2>2. /\ t \in 1..cur /\ Top.next \in 1..Len(nodes[t].NChildNodes)
        /\ nodes[t].State = Committed
        /\ \A f \in 1..Len(stack) : nodes[stack[f].node].State = Committed
    BY <1>0, <1>2, CalledOnce, Zenon
  <2>3. ~Doomed(t, Top.next)
    <3>1. nodes[t].State # Failed
      BY <2>2
    <3> QED
      BY <3>1, Zenon DEF Doomed
  <2>4. nodes[d].everFailed \/ Agrees(nodes[t].WriteSet, nodes[d].PTx[nodes[t].id])
    BY <1>0, <2>2, <2>3, Zenon DEF KidValues
  <2> HIDE DEF d
  <2>5. c = d
    BY <1>0, <2>1 DEF OnlyMarks, SameMark
  <2>6. nodes'[d].everFailed = nodes[d].everFailed
    BY <2>1 DEF Releases, Quiet, SameMark
  <2>7. ~nodes[c].everFailed /\ nodes[c].Parents \ {nodes[t].id} = {}
    BY <1>0, <2>1, <2>5, <2>6 DEF Takes
  <2>8. Supplied(c, nodes[t].id)
    BY <1>0, <2>2, <2>4, <2>5, <2>7, ReleasedSupplies DEF Supplied
  <2>9. \A p \in DOMAIN nodes[c].PTx : p \in nodes[c].Parents \/ Supplied(c, p)
    BY <1>0, <2>1, <2>7 DEF Read
  <2> QED
    BY <2>7, <2>8, <2>9
<1>3. CASE Receive \/ LinkParent \/ AdoptChildren \/ FailChild
  <2>1. ReadyBatch' = ReadyBatch
    BY <1>3 DEF Receive, LinkParent, AdoptChildren, FailChild
  <2>2. ReadyBatch \in Seq(1..cur) /\ ReadyBatch' = Append(ReadyBatch, c)
    BY <1>0 DEF TypeOK, StreamGrows
  <2>3. Len(Append(ReadyBatch, c)) = Len(ReadyBatch) + 1 /\ Len(ReadyBatch) \in Nat
    BY <2>2, AppendParts
  <2> QED
    BY <2>1, <2>2, <2>3
<1>4. CASE Return \/ CutOnSize \/ CutOnTimer \/ UNCHANGED vars
  <2>1. nodes' = nodes
    BY <1>4 DEF Return, CutOnSize, CutOnTimer, vars, graph
  <2> QED
    BY <2>1, <1>0
<1> QED
  BY <1>1, <1>2, <1>3, <1>4 DEF Next, Blocked, Step

LEMMA EverStays ==
    ASSUME OrderInv, Step
    PROVE  \A m \in 1..cur : nodes[m].everFailed => nodes'[m].everFailed
<1>0. TypeOK
  BY DEF OrderInv, LinkInv
<1>1. CASE Receive
  BY <1>0, <1>1, ReceiveEffect
<1>2. CASE LinkParent
  <2>1. pc = "parents" /\ cur \in 1..cur
    BY <1>0, <1>2 DEF LinkParent, TypeOK
  <2>2. Iterated
    BY <1>0, <1>2, <2>1, LinkEffect DEF LinkParent
  <2> QED
    BY <2>2 DEF Iterated, SameMark
<1>3. CASE AdoptChildren
  <2>1. \A m \in 1..cur : SameMark(nodes'[m], nodes[m])
    BY <1>0, <1>3, AdoptEffect
  <2> QED
    BY <2>1 DEF SameMark
<1>4. CASE Finish
  <2>1. OnlyMarks(cur) /\ nodes'[cur].everFailed = nodes[cur].everFailed
    BY <1>0, <1>4, FinishEffect DEF Releases, Quiet, SameMark
  <2> QED
    BY <2>1 DEF OnlyMarks, SameMark
<1>5. CASE FailChild
  <2> DEFINE d == nodes[Top.node].NChildNodes[Top.next]
  <2>1. OnlyMarks(d) /\ (Fails(d) \/ Quiet(d))
    BY <1>0, <1>5, FailChildEffect, Zenon
  <2> HIDE DEF d
  <2> QED
    BY <2>1 DEF OnlyMarks, SameMark, Fails, Quiet
<1>6. CASE ReleaseChild
  <2> DEFINE d == nodes[Top.node].NChildNodes[Top.next]
  <2>1. OnlyMarks(d) /\ (Releases(d) \/ Quiet(d))
    BY <1>0, <1>6, ReleaseChildEffect, Zenon
  <2> HIDE DEF d
  <2> QED
    BY <2>1 DEF OnlyMarks, SameMark, Releases, Quiet
<1>7. CASE Return \/ CutOnSize \/ CutOnTimer \/ UNCHANGED vars
  BY <1>7 DEF Return, CutOnSize, CutOnTimer, vars, graph
<1> QED
  BY <1>1, <1>2, <1>3, <1>4, <1>5, <1>6, <1>7 DEF Next, Blocked, Step

LEMMA ParentsFirstStep == OrderInv /\ Step => ParentsFirst'
<1> SUFFICES ASSUME OrderInv, Step PROVE ParentsFirst'
  OBVIOUS
<1>0. /\ TypeOK /\ LinkInv /\ ParentsFirst
      /\ \A m \in 1..cur : nodes'[m].PTx = nodes[m].PTx
      /\ \A m \in 1..cur : nodes[m].everFailed => nodes'[m].everFailed
  BY EverStays DEF Step, Typed, OrderInv, LinkInv, Fixed
<1> DEFINE First(y) == LET n == nodes[At(y)]
                       IN  ~n.everFailed => \A p \in DOMAIN n.PTx :
                                \E x \in Slots : Precedes(x, y) /\ Supplies(x, n, p)
<1>1. \A x \in Slots : /\ x \in Slots' /\ At(x)' = At(x) /\ At(x) \in 1..cur
                       /\ nodes'[At(x)'].id = nodes[At(x)].id
                       /\ nodes'[At(x)'].PTx = nodes[At(x)].PTx
                       /\ nodes'[At(x)'].WriteSet = nodes[At(x)].WriteSet
  BY <1>0, SlotsStay
<1>2. \A x \in Slots, m \in 1..cur : \A p : Supplies(x, nodes[m], p) => Supplies(x, nodes[m], p)'
  BY <1>0, <1>1, Zenon DEF Supplies
<1>3. \A x, y : Precedes(x, y)' <=> Precedes(x, y)
  BY DEF Precedes
<1>4. ASSUME NEW y \in Slots PROVE First(y)'
  <2>1. First(y)
    BY <1>0 DEF ParentsFirst
  <2>2. /\ At(y) \in 1..cur /\ At(y)' = At(y)
        /\ nodes'[At(y)].PTx = nodes[At(y)].PTx
        /\ ~nodes'[At(y)].everFailed => ~nodes[At(y)].everFailed
    BY <1>0, <1>1
  <2>3. PICK m \in 1..cur : m = At(y)
    BY <2>2
  <2>4. ~nodes'[m].everFailed => \A p \in DOMAIN nodes'[m].PTx :
           \E x \in Slots' : Precedes(x, y)' /\ Supplies(x, nodes[m], p)'
    BY <2>1, <2>2, <2>3, <1>1, <1>2, <1>3
  <2> QED
    BY <2>2, <2>3, <2>4
<1>5. CASE StreamStays
  BY <1>4, <1>5 DEF StreamStays, ParentsFirst
<1>6. ASSUME NEW c \in 1..cur, StreamGrows(c) PROVE ParentsFirst'
  <2>1. PICK new : /\ \A x : x \in Slots' <=> x \in Slots \/ x = new
                   /\ At(new)' = c
                   /\ \A x \in Slots : Precedes(x, new)
    BY <1>0, <1>6, AppendSlot DEF StreamGrows
  <2>2. ~nodes'[c].everFailed => \A p \in DOMAIN nodes[c].PTx : Supplied(c, p)
    BY <1>6, ReleasedHasAll
  <2>3. ~nodes'[c].everFailed => \A p \in DOMAIN nodes'[c].PTx :
           \E x \in Slots' : Precedes(x, new)' /\ Supplies(x, nodes[c], p)'
    BY <2>1, <2>2, <1>0, <1>2, <1>3 DEF Supplied
  <2>4. First(new)'
    BY <2>1, <2>3
  <2> QED
    BY <2>1, <2>4, <1>4 DEF ParentsFirst
<1> QED
  BY <1>0, <1>5, <1>6, StreamStep DEF Step

LEMMA OrderStep == OrderInv /\ Step => OrderInv'
BY LinkStep, OnceStep, ValuesStep, ParentsFirstStep DEF OrderInv, Values

---------------------------------------------------------------------------
(* GState is the state of the stream: whatever the orderer released, in    *)
(* batches of whatever size, a peer that applies the batches in order      *)
(* reaches the state with which ProcessTX compares reads.                  *)

\* the disjunction of GStateIsReplay for one key
Replays(k) ==
    \/ Writers(k) = {} /\ GState[k] = EmptyValue
    \/ \E x \in Writers(k) : /\ GState[k] = nodes[At(x)].WriteSet[k]
                           /\ \A y \in Writers(k) : y = x \/ Precedes(y, x)

\* what the nodes wrote stays
WritesStay == \A m \in 1..cur : nodes'[m].WriteSet = nodes[m].WriteSet

\* A step that leaves the places of the stream and GState alone.
LEMMA SameStream ==
    ASSUME TypeOK, GStateIsReplay, WritesStay, GState' = GState,
           \A x : x \in Slots' <=> x \in Slots,
           \A x \in Slots : At(x)' = At(x)
    PROVE  GStateIsReplay'
<1>1. \A x \in Slots : nodes'[At(x)'].WriteSet = nodes[At(x)].WriteSet
  BY SlotNode DEF WritesStay
<1>2. ASSUME NEW k \in Keys PROVE Replays(k)'
  <2>1. Replays(k)
    BY DEF GStateIsReplay, Replays
  <2>2. \A x : x \in Writers(k)' <=> x \in Writers(k)
    BY <1>1 DEF Writers
  <2>3. \A x \in Writers(k) : x \in Slots
    BY DEF Writers
  <2>4. \A x, y : Precedes(x, y)' <=> Precedes(x, y)
    BY DEF Precedes
  <2>5. CASE Writers(k) = {} /\ GState[k] = EmptyValue
    <3>1. Writers(k)' = {}
      BY <2>2, <2>5
    <3> QED
      BY <2>5, <3>1 DEF Replays
  <2>6. CASE \E x \in Writers(k) : /\ GState[k] = nodes[At(x)].WriteSet[k]
                                 /\ \A y \in Writers(k) : y = x \/ Precedes(y, x)
    <3>1. PICK x \in Writers(k) : /\ GState[k] = nodes[At(x)].WriteSet[k]
                                 /\ \A y \in Writers(k) : y = x \/ Precedes(y, x)
      BY <2>6
    <3>2. GState'[k] = nodes'[At(x)'].WriteSet[k] /\ x \in Writers(k)'
      BY <3>1, <1>1, <2>2, <2>3
    <3>3. \A y \in Writers(k)' : y = x \/ Precedes(y, x)'
      BY <3>1, <2>2, <2>4
    <3> QED
      BY <3>2, <3>3 DEF Replays
  <2> QED
    BY <2>1, <2>5, <2>6 DEF Replays
<1> QED
  BY <1>2 DEF GStateIsReplay, Replays

\* A step that releases node m.
LEMMA GrownStream ==
    ASSUME TypeOK, GStateIsReplay, WritesStay, cur' = cur, NEW m \in 1..cur,
           batches' = batches, ReadyBatch' = Append(ReadyBatch, m),
           GState' = Written(nodes[m].WriteSet)
    PROVE  GStateIsReplay'
<1>1. PICK new : /\ \A x : x \in Slots' <=> x \in Slots \/ x = new
                 /\ At(new)' = m
                 /\ \A x \in Slots : At(x)' = At(x) /\ Precedes(x, new)
  BY AppendSlot
<1>2. /\ \A x \in Slots : nodes'[At(x)'].WriteSet = nodes[At(x)].WriteSet
      /\ nodes'[At(new)'].WriteSet = nodes[m].WriteSet
  BY <1>1, SlotNode DEF WritesStay
<1>3. \A x, y : Precedes(x, y)' <=> Precedes(x, y)
  BY DEF Precedes
<1>4. ASSUME NEW k \in Keys PROVE Replays(k)'
  <2>1. \A x \in Writers(k)' : x = new \/ x \in Writers(k)
    BY <1>1, <1>2 DEF Writers
  <2>2. \A x \in Writers(k) : x \in Slots /\ x \in Writers(k)'
    BY <1>1, <1>2 DEF Writers
  <2>3. CASE k \in DOMAIN nodes[m].WriteSet
    <3>1. new \in Writers(k)' /\ GState'[k] = nodes'[At(new)'].WriteSet[k]
      BY <2>3, <1>1, <1>2 DEF Writers, Written
    <3>2. \A y \in Writers(k)' : y = new \/ Precedes(y, new)'
      BY <2>1, <2>2, <1>1, <1>3
    <3> QED
      BY <3>1, <3>2 DEF Replays
  <2>4. CASE k \notin DOMAIN nodes[m].WriteSet
    <3>1. GState'[k] = GState[k]
      BY <2>4 DEF Written
    <3>2. new \in Slots \/ new \notin Writers(k)'
      BY <2>4, <1>1, <1>2 DEF Writers
    <3>3. \A x : x \in Writers(k)' <=> x \in Writers(k)
      BY <2>1, <2>2, <3>2, <1>2 DEF Writers
    <3>4. Replays(k)
      BY DEF GStateIsReplay, Replays
    <3>5. CASE Writers(k) = {} /\ GState[k] = EmptyValue
      <4>1. Writers(k)' = {}
        BY <3>3, <3>5
      <4> QED
        BY <3>1, <3>5, <4>1 DEF Replays
    <3>6. CASE \E x \in Writers(k) : /\ GState[k] = nodes[At(x)].WriteSet[k]
                                   /\ \A y \in Writers(k) : y = x \/ Precedes(y, x)
      <4>1. PICK x \in Writers(k) : /\ GState[k] = nodes[At(x)].WriteSet[k]
                                   /\ \A y \in Writers(k) : y = x \/ Precedes(y, x)
        BY <3>6
      <4>2. GState'[k] = nodes'[At(x)'].WriteSet[k] /\ x \in Writers(k)'
        BY <4>1, <1>2, <2>2, <3>1
      <4>3. \A y \in Writers(k)' : y = x \/ Precedes(y, x)'
        BY <4>1, <3>3, <1>3
      <4> QED
        BY <4>2, <4>3 DEF Replays
    <3> QED
      BY <3>4, <3>5, <3>6, Zenon DEF Replays
  <2> QED
    BY <2>3, <2>4
<1> QED
  BY <1>4, Zenon DEF GStateIsReplay, Replays

LEMMA ReplayStep == TypeOK /\ GStateIsReplay /\ [Next]_vars => GStateIsReplay'
<1> SUFFICES ASSUME TypeOK, GStateIsReplay, [Next]_vars PROVE GStateIsReplay'
  OBVIOUS
<1>1. ASSUME WritesStay, UNCHANGED <<GState, ReadyBatch, batches>> PROVE GStateIsReplay'
  <2>1. Slots' = Slots /\ \A x : At(x)' = At(x)
    BY <1>1 DEF Slots, At, Stream
  <2> QED
    BY <1>1, <2>1, SameStream
<1>2. ASSUME Receive \/ LinkParent \/ AdoptChildren PROVE GStateIsReplay'
  <2>1. Fixed
    BY <1>2, ReceiveTypeOK, LinkParentTypeOK, AdoptChildrenTypeOK
  <2>2. WritesStay /\ UNCHANGED <<GState, ReadyBatch, batches>>
    BY <2>1, <1>2 DEF Fixed, WritesStay, Receive, LinkParent, AdoptChildren
  <2> QED
    BY <2>2, <1>1
<1>3. ASSUME Finish \/ FailChild \/ ReleaseChild PROVE GStateIsReplay'
  <2>1. Unmoved /\ Grown /\ cur' = cur
    BY <1>3, FinishTypeOK, FailChildTypeOK, ReleaseChildTypeOK, Zenon DEF Finish, FailChild, ReleaseChild
  <2>2. WritesStay
    BY <2>1 DEF Unmoved, Same, WritesStay
  <2>3. CASE UNCHANGED <<GState, ReadyBatch>>
    BY <2>1, <2>2, <2>3, <1>1 DEF Grown
  <2>4. CASE \E m \in 1..cur : /\ ReadyBatch' = Append(ReadyBatch, m)
                               /\ GState' = Written(nodes[m].WriteSet)
    BY <2>1, <2>2, <2>4, GrownStream DEF Grown
  <2> QED
    BY <2>1, <2>3, <2>4 DEF Grown
<1>4. ASSUME Return \/ CutOnSize \/ CutOnTimer \/ UNCHANGED vars PROVE GStateIsReplay'
  <2>1. WritesStay /\ GState' = GState /\ (Cut \/ UNCHANGED <<ReadyBatch, batches>>)
    BY <1>4 DEF WritesStay, Return, CutOnSize, CutOnTimer, vars, graph
  <2>2. CASE Cut
    BY <2>1, <2>2, CutSlots, SameStream
  <2> QED
    BY <2>1, <2>2, <1>1
<1> QED
  BY <1>2, <1>3, <1>4 DEF Next, Blocked

\* GState is what applying the write sets of the stream in order yields, in every state
\* and for every workload.
THEOREM ReplayCorrect == Spec => []GStateIsReplay
<1>1. Init => GStateIsReplay
  <2> SUFFICES ASSUME Init PROVE GStateIsReplay
    OBVIOUS
  <2>1. batches = <<>> /\ ReadyBatch = <<>> /\ \A k \in Keys : GState[k] = EmptyValue
    BY DEF Init
  <2>2. Slots = {}
    BY <2>1 DEF Slots, Stream, Places
  <2> QED
    BY <2>1, <2>2 DEF GStateIsReplay, Writers
<1> QED
  BY InitTypeOK, TypeStep, <1>1, ReplayStep, PTL DEF Spec

---------------------------------------------------------------------------
(* When no transaction is submitted twice.                                 *)

LEMMA LinkCorrect == ASSUME UniqueIds PROVE Spec => []LinkInv
<1>1. LinkInv /\ [Next]_vars => LinkInv'
  BY TypeStep, LinkStep DEF LinkInv, Step, Typed
<1> QED
  BY <1>1, InitTypeOK, InitLinkInv, PTL DEF Spec

\* When no transaction is submitted twice, a node is marked committed exactly when its
\* envelope is in the stream, and no envelope is there twice, for every workload.
THEOREM ReleasedOnce == ASSUME UniqueIds PROVE Spec => []ExactlyOnce
<1>1. LinkInv /\ ExactlyOnce /\ [Next]_vars => ExactlyOnce'
  BY TypeStep, OnceStep DEF LinkInv, Step, Typed
<1> QED
  BY <1>1, InitOnce, LinkCorrect, PTL DEF Spec

\* When no transaction is submitted twice, the failure of a parent never reaches a
\* transaction that was already released, for every workload.
THEOREM ReleasedIsFinal == ASSUME UniqueIds PROVE Spec => CommittedIsFinal
<1> DEFINE Final == \A m \in DOMAIN nodes : nodes[m].State = Committed => nodes'[m].State = Committed
<1>1. LinkInv /\ [Next]_vars => [Final]_vars
  BY FinalStep
<1> QED
  BY <1>1, LinkCorrect, PTL DEF Spec, CommittedIsFinal

\* When no transaction is submitted twice, a released transaction that never failed comes
\* after every transaction it read from, and those wrote what it read: for every workload,
\* in whatever order the envelopes arrive.
THEOREM ParentsAreFirst == ASSUME UniqueIds PROVE Spec => []ParentsFirst
<1>1. OrderInv => ParentsFirst /\ TypeOK
  BY DEF OrderInv, LinkInv
<1>2. OrderInv /\ [Next]_vars => OrderInv'
  BY <1>1, TypeStep, OrderStep DEF Step, Typed
<1> QED
  BY <1>1, <1>2, InitTypeOK, InitOrderInv, PTL DEF Spec
=============================================================================
