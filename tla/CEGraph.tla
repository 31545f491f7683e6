------------------------------ MODULE CEGraph ------------------------------
(***************************************************************************)
(* The CE-Graph of the ordering service: the goroutine ProcessEnvMsg of    *)
(* orderer/common/blockcutter takes one envelope at a time, links its      *)
(* transaction to the transactions it read from (ProcessTX), releases or   *)
(* fails it and everything below it (Delete), and cuts batches.            *)
(*                                                                         *)
(* One step of the model is one iteration of a loop of the code.  The      *)
(* graph belongs to one goroutine, so the steps of one envelope are not    *)
(* interleaved with those of another: pc says where the goroutine is.      *)
(* A step per iteration keeps the random order in which Go ranges over the *)
(* map PTx, and replaces the recursion of Delete by its call stack.        *)
(*                                                                         *)
(* Left out: the counters and times that are only logged, and UNPTx with   *)
(* UNParentTxConsensusNode and UNChildNodes, which stay empty because      *)
(* ProcessEnvForBC no longer fills UNPTx.  ConsensusState is always 0 on   *)
(* this path, so the branches for 2 and 3 are not reached either.          *)
(***************************************************************************)
EXTENDS Integers, Sequences, FiniteSets, Functions

CONSTANTS TxIds,            \* transaction ids
          Keys,             \* keys of the world state
          EmptyValue,       \* the empty string: what a missing entry of GState reads as
          Workloads,        \* each a set of envelopes the orderer will receive
          MaxMessageCount   \* BatchSize.MaxMessageCount of the channel

ASSUME MaxAssumption == MaxMessageCount \in Nat \ {0}

EnvelopeOK(env) ==
    /\ env.id \in TxIds
    /\ \A i \in DOMAIN env.accesses : /\ env.accesses[i].key \in Keys
                                      /\ env.accesses[i].txid \in TxIds

ASSUME WorkloadAssumption == \A w \in Workloads : \A env \in w : EnvelopeOK(env)

\* no transaction is submitted twice (what some of the theorems assume)
UniqueIds == \A w \in Workloads : \A e, f \in w : e.id = f.id => e = f

Committed == 1
Waiting == 3
Failed == 4

VARIABLES inbox,       \* envelopes still to come out of RaftEnvMsgC, in any order
          cur,         \* the number of TxConsensusNodes made; the last one is being processed
          nodes,       \* 1..cur -> node, in the order of arrival
          TxCNs,       \* transaction id -> node
          wait,        \* WaitUnChoosedTxCNs: transaction id -> entry
          GState,      \* the state reached by the released transactions
          ReadyBatch,  \* released, not yet cut (indices of nodes)
          batches,     \* the batches sent on CommitC
          pc,          \* where ProcessEnvMsg is: recv, parents, finish, delete, cut
          todo,        \* entries of PTx the loop at line 366 has still to visit
          hadWait,     \* isExistwaittxcn, read when ProcessTX starts
          stack        \* call stack of Delete: node, next child, branch taken

graph == <<cur, nodes, TxCNs, wait, GState>>
vars == <<inbox, graph, ReadyBatch, batches, pc, todo, hadWait, stack>>

---------------------------------------------------------------------------
(* An envelope carries an id, a copy number (a client may submit the same  *)
(* transaction again) and the accesses of its read-write set in order.     *)

\* Go's m[k] = v
Put(m, k, v) == [x \in DOMAIN m \cup {k} |-> IF x = k THEN v ELSE m[x]]

\* Go's delete(m, k)
Drop(m, k) == Restrict(m, DOMAIN m \ {k})

NoMap == [x \in {} |-> x]

\* the accesses that ProcessEnvForBC keeps: those outside lscc, of kind op
Kept(env, op) ==
    {i \in DOMAIN env.accesses : env.accesses[i].op = op /\ env.accesses[i].ns # "lscc"}

\* key -> value of the accesses at the positions S; a later access to a key wins
\* whatever its namespace, since the maps are indexed by the key alone
ByKey(env, S) ==
    [k \in {env.accesses[i].key : i \in S} |->
        LET same == {i \in S : env.accesses[i].key = k}
        IN  env.accesses[CHOOSE i \in same : \A j \in same : j <= i].val]

\* the parents an envelope names, each with the values read from it
PTx(env) ==
    [p \in {env.accesses[i].txid : i \in Kept(env, "read")} |->
        ByKey(env, {i \in Kept(env, "read") : env.accesses[i].txid = p})]

WriteSet(env) == ByKey(env, Kept(env, "write"))

\* the node OrderedRaftForBC makes for an envelope
NewNode(env) ==
    [id |-> env.id, PTx |-> PTx(env), WriteSet |-> WriteSet(env), State |-> Waiting,
     ParentNum |-> 0, Parents |-> {}, NChildNodes |-> <<>>, WaitPTX |-> {},
     everFailed |-> FALSE]

\* State = 4; everFailed is a history field, read only by the properties
Fail(n) == [n EXCEPT !.State = Failed, !.everFailed = TRUE]

\* append c to NChildNodes of a node or of a wait entry
AddChild(x, c) == [x EXCEPT !.NChildNodes = Append(@, c)]

\* WaitPTX[w] = true for all w in ws; delete(WaitPTX, w)
WaitFor(n, ws) == [n EXCEPT !.WaitPTX = @ \cup ws]
WaitNoMore(n, w) == [n EXCEPT !.WaitPTX = @ \ {w}]

\* (mutant) does not count the parent
RegisterMutant(n, p) == [n EXCEPT !.Parents = @ \cup {p}]

\* ParentTxConsensusNode[p] = true, ParentNum++; and the reverse
Register(n, p) == [n EXCEPT !.Parents = @ \cup {p}, !.ParentNum = @ + 1]
Unregister(n, p) == [n EXCEPT !.Parents = @ \ {p}, !.ParentNum = @ - 1]

\* (mutant) files the node before it is appended
FileMutant(id) == Put(TxCNs, id, cur)

\* TxCNs[txid] = txCN for the node that is made next
File(id) == Put(TxCNs, id, cur + 1)

\* a WaitTxConsensusNode: choosed is the failed node it stands for, 0 for nil
WaitEntry(diff, choosed) ==
    [NChildNodes |-> <<>>, WriteSet |-> NoMap, DiffWaitWKV |-> diff,
     ChoosedNode |-> choosed, ChildWait |-> NoMap]

\* the wait entry of id as it is after "create it, failed, if it is not there"
WithOwnFailed(id) ==
    IF id \in DOMAIN wait THEN wait ELSE Put(wait, id, WaitEntry(TRUE, cur))

---------------------------------------------------------------------------
\* the entry left by children that came before is contradictory (ERROR-2), or the
\* envelope does not write what they read (ERROR-3)
Unexpected(env) ==
    LET expected == wait[env.id].WriteSet
        ws == WriteSet(env)
    IN  /\ env.id \in DOMAIN wait
        /\ \/ wait[env.id].DiffWaitWKV
           \/ \E k \in DOMAIN expected : k \notin DOMAIN ws \/ ws[k] # expected[k]

\* ProcessTX up to the loop over PTx, when the loop is entered
Enter(env) ==
    /\ ~Unexpected(env)
    /\ nodes' = Put(nodes, cur + 1, NewNode(env))
    /\ TxCNs' = File(env.id)
    /\ todo' = DOMAIN PTx(env)
    /\ wait' = wait

\* ProcessTX up to the loop, when the node fails before it
Reject(env) ==
    /\ Unexpected(env)
    /\ nodes' = Put(nodes, cur + 1, Fail(NewNode(env)))
    /\ wait' = [wait EXCEPT ![env.id].DiffWaitWKV = TRUE]
    /\ todo' = {}
    /\ TxCNs' = TxCNs

Receive ==
    /\ pc = "recv"
    /\ \E env \in inbox :
         /\ Enter(env) \/ Reject(env)
         /\ inbox' = inbox \ {env}
         /\ hadWait' = (env.id \in DOMAIN wait)
    /\ cur' = cur + 1
    /\ pc' = "parents"
    /\ UNCHANGED <<GState, ReadyBatch, batches, stack>>

\* (mutant) takes a second child that expects the same key for a disagreement
DisagreeMutant(kv, expected) == DOMAIN kv \cap DOMAIN expected # {}

\* two children expect different values of one key
Disagree(kv, expected) ==
    \E k \in DOMAIN kv \cap DOMAIN expected : kv[k] # expected[k]

\* record the values a child expects its absent parent to write; the first one stands
\* (the loop breaks at a disagreement, so keys after it stay unrecorded; once DiffWaitWKV
\* is set the code never looks at the WriteSet again)
Expect(entry, kv) ==
    [entry EXCEPT !.DiffWaitWKV = @ \/ Disagree(kv, entry.WriteSet),
                  !.WriteSet = [k \in DOMAIN @ \cup DOMAIN kv |->
                                  IF k \in DOMAIN @ THEN @[k] ELSE kv[k]]]

\* ChildWait[txid] = txCN
ListWaiter(entry) == [entry EXCEPT !.ChildWait = Put(@, nodes[cur].id, cur)]

\* an iteration for a parent that has not arrived: wait for it, and remember the
\* values it must write; two children that disagree about them doom it (ERROR-6)
ParentAbsent(p) ==
    LET n == nodes[cur]
        entry == IF p \in DOMAIN wait THEN wait[p] ELSE WaitEntry(FALSE, 0)
    IN  /\ p \notin DOMAIN TxCNs
        /\ entry.ChoosedNode = 0
        /\ wait' = Put(wait, p, Expect(AddChild(ListWaiter(entry), cur), n.PTx[p]))
        /\ nodes' = [nodes EXCEPT ![cur] = Register(WaitFor(@, {p}), p)]
        /\ todo' = todo \ {p}
        /\ UNCHANGED TxCNs

\* an iteration for a parent that has arrived and failed, and was taken out of TxCNs
\* (ERROR-7)
ParentRejected(p) ==
    /\ p \notin DOMAIN TxCNs
    /\ p \in DOMAIN wait
    /\ wait[p].ChoosedNode # 0
    /\ wait' = [wait EXCEPT ![p] = ListWaiter(@)]
    /\ nodes' = [nodes EXCEPT ![cur] = Fail(WaitFor(@, {p}))]
    /\ todo' = {}
    /\ UNCHANGED TxCNs

\* (mutant) only asks whether the key was written
MismatchMutant(p) ==
    \E k \in DOMAIN nodes[cur].PTx[p] : k \notin DOMAIN nodes[TxCNs[p]].WriteSet

\* the parent p, which is in TxCNs, did not write what the current node read from it
Mismatch(p) ==
    LET kv == nodes[cur].PTx[p]
        ws == nodes[TxCNs[p]].WriteSet
    IN  \E k \in DOMAIN kv : k \notin DOMAIN ws \/ ws[k] # kv[k]

\* the State of the parent when the code looks at it, which is after ERROR-8 has set
\* the State of the current node: a node can name itself as its parent
ParentState(p) ==
    IF TxCNs[p] = cur /\ Mismatch(p) THEN Failed ELSE nodes[TxCNs[p]].State

\* an iteration for a released parent: the values read must still be the newest
\* (ERROR-8, ERROR-9); a node failed by an earlier iteration stops here as well
ParentCommitted(p) ==
    LET n == nodes[cur]
        stale == \E k \in DOMAIN n.PTx[p] : GState[k] # n.PTx[p][k]
        failing == n.State = Failed \/ Mismatch(p) \/ stale
    IN  /\ p \in DOMAIN TxCNs
        /\ ParentState(p) = Committed
        /\ \/ /\ failing
              /\ nodes' = [nodes EXCEPT ![cur] = Fail(@)]
              /\ wait' = WithOwnFailed(n.id)
              /\ TxCNs' = Drop(TxCNs, n.id)
              /\ todo' = {}
           \/ /\ ~failing
              /\ todo' = todo \ {p}
              /\ UNCHANGED <<nodes, wait, TxCNs>>

\* (mutant) leaves the child out
JoinWaitsMutant(w, waits) == w

\* every entry the parent waits for also lists the child
JoinWaits(w, waits) ==
    [x \in DOMAIN w |-> IF x \in waits THEN ListWaiter(w[x]) ELSE w[x]]

\* an iteration for a waiting parent: become its child, also when the values differ
\* (ERROR-8 fails the node but only leaves the inner loop)
ParentWaiting(p) ==
    LET n == nodes[cur]
        parent == nodes[TxCNs[p]]
        bad == Mismatch(p)
        listed == [nodes EXCEPT ![TxCNs[p]] = AddChild(@, cur)]
        linked == Register(WaitFor(listed[cur], parent.WaitPTX), p)
    IN  /\ p \in DOMAIN TxCNs
        /\ ParentState(p) = Waiting
        /\ nodes' = [listed EXCEPT ![cur] = IF bad THEN Fail(linked) ELSE linked]
        /\ wait' = JoinWaits(IF bad THEN WithOwnFailed(n.id) ELSE wait, parent.WaitPTX)
        /\ TxCNs' = IF bad THEN Drop(TxCNs, n.id) ELSE TxCNs
        /\ todo' = todo \ {p}

\* an iteration for a failed parent that is still in TxCNs (ERROR-11)
ParentFailed(p) ==
    LET n == nodes[cur]
        parent == nodes[TxCNs[p]]
        bad == Mismatch(p)
    IN  /\ p \in DOMAIN TxCNs
        /\ ParentState(p) = Failed
        /\ nodes' = [nodes EXCEPT ![cur] = Fail(WaitFor(@, parent.WaitPTX))]
        /\ wait' = JoinWaits(IF bad THEN WithOwnFailed(n.id) ELSE wait, parent.WaitPTX)
        /\ TxCNs' = IF bad THEN Drop(TxCNs, n.id) ELSE TxCNs
        /\ todo' = {}

LinkParent ==
    /\ pc = "parents"
    /\ \E p \in todo : \/ ParentAbsent(p)
                       \/ ParentRejected(p)
                       \/ ParentCommitted(p)
                       \/ ParentWaiting(p)
                       \/ ParentFailed(p)
    /\ UNCHANGED <<inbox, cur, GState, ReadyBatch, batches, pc, hadWait, stack>>

\* (mutant) forgets the children that came before their parent
AdoptedMutant == nodes

\* NChildNodes of the wait entry become those of the node
Adopted ==
    IF hadWait THEN [nodes EXCEPT ![cur].NChildNodes = wait[nodes[cur].id].NChildNodes]
               ELSE nodes

\* after the loop: take over the children that waited for this node, and close its
\* wait entry or mark it failed
AdoptChildren ==
    LET n == nodes[cur]
        entry == wait[n.id]
        released == {entry.ChildWait[x] : x \in DOMAIN entry.ChildWait}
    IN  /\ pc = "parents"
        /\ todo = {}
        /\ nodes' = IF hadWait /\ n.State # Failed
                    THEN [m \in DOMAIN nodes |->
                            IF m \in released THEN WaitNoMore(Adopted[m], n.id) ELSE Adopted[m]]
                    ELSE Adopted
        /\ wait' = CASE ~hadWait -> wait
                     [] hadWait /\ n.State # Failed -> Drop(wait, n.id)
                     [] hadWait /\ n.State = Failed -> [wait EXCEPT ![n.id].ChoosedNode = cur]
        /\ pc' = "finish"
        /\ UNCHANGED <<inbox, cur, TxCNs, GState, ReadyBatch, batches, todo, hadWait, stack>>

---------------------------------------------------------------------------
\* (mutant) keeps the first value written
WrittenMutant(ws) ==
    [k \in Keys |-> IF k \in DOMAIN ws /\ GState[k] = EmptyValue THEN ws[k] ELSE GState[k]]

\* GState after the writes of a released node
Written(ws) == [k \in Keys |-> IF k \in DOMAIN ws THEN ws[k] ELSE GState[k]]

\* (mutant) the node is not marked
ReleaseMutant(m, ns) ==
    /\ ReadyBatch' = Append(ReadyBatch, m)
    /\ nodes' = ns
    /\ GState' = Written(ns[m].WriteSet)

\* append the node to ReadyBatch, mark it committed, write its write set
Release(m, ns) ==
    /\ ReadyBatch' = Append(ReadyBatch, m)
    /\ nodes' = [ns EXCEPT ![m].State = Committed]
    /\ GState' = Written(ns[m].WriteSet)

Call(m, state) == [node |-> m, next |-> 1, State |-> state]

\* end of ProcessTX: release the node when it has no parent left, fail its children
\* when it failed, otherwise leave it waiting
Finish ==
    LET n == nodes[cur]
    IN  /\ pc = "finish"
        /\ \/ /\ n.State # Failed /\ n.ParentNum = 0
              /\ Release(cur, nodes)
              /\ stack' = <<Call(cur, Committed)>>
              /\ pc' = "delete"
           \/ /\ n.State = Failed
              /\ stack' = <<Call(cur, Failed)>>
              /\ pc' = "delete"
              /\ UNCHANGED <<nodes, GState, ReadyBatch>>
           \/ /\ n.State # Failed /\ n.ParentNum # 0
              /\ pc' = "cut"
              /\ UNCHANGED <<nodes, GState, ReadyBatch, stack>>
        /\ UNCHANGED <<inbox, cur, TxCNs, wait, batches, todo, hadWait>>

Top == stack[Len(stack)]
Rest == [stack EXCEPT ![Len(stack)].next = @ + 1]
Children(m) == nodes[m].NChildNodes

\* Delete of a failed node: fail the next child unless it has failed already
FailChild ==
    /\ pc = "delete" /\ stack # <<>>
    /\ Top.State = Failed
    /\ Top.next <= Len(Children(Top.node))
    /\ LET c == Children(Top.node)[Top.next]
       IN  \/ /\ nodes[c].State # Failed
              /\ nodes' = [nodes EXCEPT ![c] = Fail(@)]
              /\ stack' = Append(Rest, Call(c, Failed))
           \/ /\ nodes[c].State = Failed
              /\ stack' = Rest
              /\ nodes' = nodes
    /\ UNCHANGED <<inbox, cur, TxCNs, wait, GState, ReadyBatch, batches, pc, todo, hadWait>>

\* (mutant) off by one
LastParentMutant(n) == n.ParentNum <= 1

\* the child has no parent left
LastParent(n) == n.ParentNum = 0

\* Delete of a released node: the next child has one parent less; with none left it
\* is released, whatever its State
ReleaseChild ==
    /\ pc = "delete" /\ stack # <<>>
    /\ Top.State = Committed
    /\ Top.next <= Len(Children(Top.node))
    /\ LET c == Children(Top.node)[Top.next]
           ns == [nodes EXCEPT ![c] = Unregister(@, nodes[Top.node].id)]
       IN  \/ /\ LastParent(ns[c])
              /\ Release(c, ns)
              /\ stack' = Append(Rest, Call(c, Committed))
           \/ /\ ~LastParent(ns[c])
              /\ nodes' = ns
              /\ stack' = Rest
              /\ UNCHANGED <<GState, ReadyBatch>>
    /\ UNCHANGED <<inbox, cur, TxCNs, wait, batches, pc, todo, hadWait>>

\* Delete returns
Return ==
    /\ pc = "delete" /\ stack # <<>>
    /\ Top.next > Len(Children(Top.node))
    /\ stack' = SubSeq(stack, 1, Len(stack) - 1)
    /\ pc' = IF Len(stack) = 1 THEN "cut" ELSE "delete"
    /\ UNCHANGED <<inbox, graph, ReadyBatch, batches, todo, hadWait>>

---------------------------------------------------------------------------
\* Cut, and the send of the batch on CommitC
Cut ==
    /\ batches' = Append(batches, ReadyBatch)
    /\ ReadyBatch' = <<>>

\* (mutant) cuts one transaction too late
CutOnSizeMutant ==
    /\ pc = "cut"
    /\ \/ Len(ReadyBatch) > MaxMessageCount /\ Cut
       \/ Len(ReadyBatch) <= MaxMessageCount /\ UNCHANGED <<ReadyBatch, batches>>
    /\ pc' = "recv"
    /\ UNCHANGED <<inbox, graph, todo, hadWait, stack>>

\* end of OrderedRaftForBC: cut when enough transactions are ready
CutOnSize ==
    /\ pc = "cut"
    /\ \/ Len(ReadyBatch) >= MaxMessageCount /\ Cut
       \/ Len(ReadyBatch) < MaxMessageCount /\ UNCHANGED <<ReadyBatch, batches>>
    /\ pc' = "recv"
    /\ UNCHANGED <<inbox, graph, todo, hadWait, stack>>

\* the message with a nil envelope, sent when the batch timer fires; an empty batch
\* is not sent
CutOnTimer ==
    /\ pc = "recv"
    /\ ReadyBatch # <<>>
    /\ Cut
    /\ UNCHANGED <<inbox, graph, pc, todo, hadWait, stack>>

---------------------------------------------------------------------------
\* nothing to receive and nothing to cut: the goroutine blocks on the channel
Blocked ==
    /\ pc = "recv" /\ inbox = {} /\ ReadyBatch = <<>>
    /\ UNCHANGED vars

Init ==
    /\ inbox \in Workloads
    /\ cur = 0
    /\ nodes = NoMap
    /\ TxCNs = NoMap
    /\ wait = NoMap
    /\ GState = [k \in Keys |-> EmptyValue]
    /\ ReadyBatch = <<>>
    /\ batches = <<>>
    /\ pc = "recv"
    /\ todo = {}
    /\ hadWait = FALSE
    /\ stack = <<>>

Next ==
    \/ Receive \/ LinkParent \/ AdoptChildren \/ Finish
    \/ FailChild \/ ReleaseChild \/ Return
    \/ CutOnSize \/ CutOnTimer \/ Blocked

Spec == Init /\ [][Next]_vars

\* The goroutine is always runnable, envelopes that were submitted come out of the
\* channel, and the timer of the chain fires while transactions are ready.
FairSpec == Spec /\ WF_vars(Next)

---------------------------------------------------------------------------
NodeFields == {"id", "PTx", "WriteSet", "State", "ParentNum", "Parents", "NChildNodes",
               "WaitPTX", "everFailed"}
EntryFields == {"NChildNodes", "WriteSet", "DiffWaitWKV", "ChoosedNode", "ChildWait"}

\* a node, and an entry of WaitUnChoosedTxCNs, when the nodes made so far are made
NodeOK(n, made) ==
    /\ DOMAIN n = NodeFields
    /\ n.id \in TxIds
    /\ DOMAIN n.PTx \subseteq TxIds
    /\ \A p \in DOMAIN n.PTx : DOMAIN n.PTx[p] \subseteq Keys
    /\ DOMAIN n.WriteSet \subseteq Keys
    /\ n.State \in {Committed, Waiting, Failed}
    /\ n.ParentNum \in Int
    /\ n.Parents \subseteq TxIds
    /\ n.NChildNodes \in Seq(made)
    /\ n.WaitPTX \subseteq TxIds

EntryOK(e, made) ==
    /\ DOMAIN e = EntryFields
    /\ e.NChildNodes \in Seq(made)
    /\ DOMAIN e.WriteSet \subseteq Keys
    /\ e.ChoosedNode \in {0} \cup made
    /\ \A id \in DOMAIN e.ChildWait : e.ChildWait[id] \in made

Frame(made) == [node : made, next : Nat \ {0}, State : {Committed, Failed}]

\* Type invariant: every reference between the maps, the lists, the batches and the
\* call stack of Delete is to a node that was made, and TxCNs files a node under its id.
TypeOK ==
    LET made == 1..cur
    IN  /\ \A env \in inbox : EnvelopeOK(env)
        /\ cur \in Nat
        /\ DOMAIN nodes = made
        /\ \A m \in made : NodeOK(nodes[m], made)
        /\ DOMAIN TxCNs \subseteq TxIds
        /\ \A id \in DOMAIN TxCNs : TxCNs[id] \in made /\ nodes[TxCNs[id]].id = id
        /\ DOMAIN wait \subseteq TxIds
        /\ \A id \in DOMAIN wait : EntryOK(wait[id], made)
        /\ DOMAIN GState = Keys
        /\ ReadyBatch \in Seq(made)
        /\ batches \in Seq(Seq(made))
        /\ hadWait \in BOOLEAN
        /\ pc \in {"recv", "parents", "finish", "delete", "cut"}
        /\ pc \in {"parents", "finish"} => cur > 0 /\ todo \subseteq DOMAIN nodes[cur].PTx
        /\ pc = "parents" /\ hadWait => nodes[cur].id \in DOMAIN wait
        /\ stack \in Seq(Frame(made))

\* The released transactions in the order of the blocks: the batches sent, and the
\* open batch last.  A slot is a place in that stream.
Stream == Append(batches, ReadyBatch)
Places(s) == UNION {{<<b, i>> : i \in DOMAIN s[b]} : b \in DOMAIN s}
Slots == Places(Stream)
At(x) == Stream[x[1]][x[2]]
Precedes(x, y) == x[1] < y[1] \/ (x[1] = y[1] /\ x[2] < y[2])

\* A node is marked committed exactly when its envelope is in the stream, and no
\* envelope is there twice: ProcessTX and the recursion of Delete neither lose a
\* transaction they mark nor put one into two blocks.
ExactlyOnce ==
    /\ \A x, y \in Slots : At(x) = At(y) => x = y
    /\ \A m \in DOMAIN nodes :
         nodes[m].State = Committed <=> \E x \in Slots : At(x) = m

\* the places that write k
Writers(k) == {x \in Slots : k \in DOMAIN nodes[At(x)].WriteSet}

\* GState, with which ProcessTX compares the reads of a new transaction, is the state
\* a peer reaches by applying the write sets of the stream one after the other.
GStateIsReplay ==
    \A k \in Keys :
        \/ Writers(k) = {} /\ GState[k] = EmptyValue
        \/ \E x \in Writers(k) : /\ GState[k] = nodes[At(x)].WriteSet[k]
                               /\ \A y \in Writers(k) : y = x \/ Precedes(y, x)

\* the transaction in slot x wrote what node n read from p
Supplies(x, n, p) ==
    /\ nodes[At(x)].id = p
    /\ \A k \in DOMAIN n.PTx[p] : /\ k \in DOMAIN nodes[At(x)].WriteSet
                                  /\ nodes[At(x)].WriteSet[k] = n.PTx[p][k]

\* A released transaction that never failed comes after every transaction it read
\* from, and that transaction wrote the values it read, whatever order the envelopes
\* came in: the promise of the graph.
ParentsFirst ==
    \A y \in Slots :
        LET n == nodes[At(y)]
        IN  ~n.everFailed => \A p \in DOMAIN n.PTx :
                                \E x \in Slots : Precedes(x, y) /\ Supplies(x, n, p)

\* What lines 477 and 485 rely on when they index WaitUnChoosedTxCNs without a check:
\* an entry that a node of TxCNs still waits for exists, and lists that node.
NoDanglingWait ==
    \A id \in DOMAIN TxCNs : \A x \in nodes[TxCNs[id]].WaitPTX :
        /\ x \in DOMAIN wait
        /\ id \in DOMAIN wait[x].ChildWait
        /\ wait[x].ChildWait[id] = TxCNs[id]

\* what a transaction is, read and wrote never changes (a step of the proofs)
Fixed == \A m \in 1..cur : /\ nodes'[m].id = nodes[m].id
                            /\ nodes'[m].PTx = nodes[m].PTx
                            /\ nodes'[m].WriteSet = nodes[m].WriteSet

InSeq(m, s) == \E i \in DOMAIN s : s[i] = m

\* Between two envelopes, a waiting node waits for as many parents as ParentNum says,
\* and each of them is an open entry or a waiting node that will call it back: the
\* wake-up cannot be lost, in whatever order parents and children arrived.
WaitingIsJustified ==
    pc = "recv" =>
        \A m \in DOMAIN nodes : nodes[m].State = Waiting =>
            /\ nodes[m].Parents # {}
            /\ nodes[m].ParentNum = Cardinality(nodes[m].Parents)
            /\ \A p \in nodes[m].Parents :
                 \/ /\ p \in DOMAIN wait /\ wait[p].ChoosedNode = 0
                    /\ InSeq(m, wait[p].NChildNodes)
                 \/ \E q \in DOMAIN nodes : /\ nodes[q].id = p /\ nodes[q].State = Waiting
                                            /\ InSeq(m, nodes[q].NChildNodes)

\* When all envelopes come from one serial execution, a transaction fails only because
\* one it read from failed, or because a value it read was overwritten in the stream:
\* arrival order alone never fails a transaction.
NoSpuriousFailure ==
    \A m \in DOMAIN nodes : nodes[m].State = Failed =>
        \E p \in DOMAIN nodes[m].PTx :
            \/ \E q \in DOMAIN nodes : nodes[q].id = p /\ nodes[q].State = Failed
            \/ \E x, y \in Slots :
                  /\ Supplies(x, nodes[m], p)
                  /\ Precedes(x, y)
                  /\ DOMAIN nodes[At(y)].WriteSet \cap DOMAIN nodes[m].PTx[p] # {}

\* A batch is larger than MaxMessageCount only by what its last envelope set free: each
\* transaction beyond the limit read from one that is in the same batch before it.
OversizeIsChained ==
    \A b \in DOMAIN batches : \A i \in DOMAIN batches[b] : i > MaxMessageCount =>
        \E j \in 1 .. i - 1 :
            nodes[batches[b][j]].id \in DOMAIN nodes[batches[b][i]].PTx

\* A released transaction stays released: the failure of a parent never reaches it.
CommittedIsFinal ==
    [][\A m \in DOMAIN nodes : nodes[m].State = Committed => nodes'[m].State = Committed]_vars

\* When all envelopes come from one serial execution, nothing waits for ever: in the end
\* every transaction has failed or is in a batch that was sent.
Settled ==
    <>[](/\ inbox = {} /\ ReadyBatch = <<>>
         /\ \A m \in DOMAIN nodes : nodes[m].State # Waiting)

\* A transaction marked "4:false" stays so and is not released.
FalseIsFinal ==
    [][\A m \in DOMAIN nodes : nodes[m].State = Failed => nodes'[m].State = Failed]_vars
=============================================================================
