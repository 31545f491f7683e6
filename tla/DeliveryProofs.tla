---- MODULE DeliveryProofs ----
(***************************************************************************)
(* Blocks reach the ledger in order and once, and the commit loop misses   *)
(* no wake-up: for every channel height, every set of peers, every size of *)
(* the buffer and any number of faults.                                    *)
(***************************************************************************)
EXTENDS Delivery, WellFoundedInduction, TLAPS

\* The part of the state the two properties rest on: numbers, and the commit loop's record.
LoopTypeOK ==
  /\ height \in Nat /\ next \in Nat
  /\ loop \in [pc : {"wait", "pop", "commit", "aborted"}, blk : Nat]

IInv == LoopTypeOK /\ InOrder /\ NoLostWakeUp

\* A Push, whoever makes it, moves neither next nor the loop, and it leaves the token in the
\* ready channel when it brings the block the loop waits for.
LEMMA PushKeeps ==
  ASSUME NEW n, IInv, Push(n), UNCHANGED <<height, loop>>
  PROVE  IInv'
<1>1. next' = next
  BY DEF Push, buffer
<1>2. LoopTypeOK' /\ InOrder'
  BY <1>1 DEF IInv, LoopTypeOK, InOrder
<1>3. NoLostWakeUp'
  <2>1. CASE n < next \/ n \in buf
    BY <2>1 DEF IInv, NoLostWakeUp, Push, buffer
  <2>2. CASE ~(n < next \/ n \in buf)
    BY <2>2 DEF IInv, NoLostWakeUp, Push
  <2> QED BY <2>1, <2>2
<1> QED BY <1>2, <1>3 DEF IInv

\* A step of another goroutine that leaves ledger, buffer and commit loop alone.
LEMMA OthersKeep ==
  ASSUME IInv, UNCHANGED <<height, buffer, loop>>
  PROVE  IInv'
BY DEF IInv, LoopTypeOK, InOrder, NoLostWakeUp, buffer

\* deliverPayloads: the token is consumed only on the way to Pop, a block is popped only when
\* it is the one after the ledger's last, and the loop sleeps again only when Pop found nothing.
LEMMA LoopKeeps ==
  ASSUME IInv, DeliverPayloads \/ AbortProcessing
  PROVE  IInv'
<1>1. CASE WakeUp
  BY <1>1 DEF WakeUp, IInv, LoopTypeOK, InOrder, NoLostWakeUp
<1>2. CASE PopBlock
  <2>1. CASE /\ Pop
             /\ loop' = [pc |-> "commit", blk |-> next]
    BY <1>2, <2>1 DEF PopBlock, Pop, IInv, LoopTypeOK, InOrder, NoLostWakeUp
  <2>2. CASE /\ next \notin buf
             /\ loop' = Asleep
             /\ UNCHANGED buffer
    BY <1>2, <2>2 DEF PopBlock, Asleep, buffer, IInv, LoopTypeOK, InOrder, NoLostWakeUp
  <2> QED BY <1>2, <2>1, <2>2 DEF PopBlock
<1>3. CASE CommitBlock
  BY <1>3 DEF CommitBlock, buffer, IInv, LoopTypeOK, InOrder, NoLostWakeUp
<1>4. CASE AbortProcessing
  BY <1>4 DEF AbortProcessing, buffer, IInv, LoopTypeOK, InOrder, NoLostWakeUp
<1> QED BY <1>1, <1>2, <1>3, <1>4 DEF DeliverPayloads

\* A restart begins at the height of the ledger, with an empty buffer and a sleeping loop.
LEMMA CrashKeeps ==
  ASSUME IInv, Crash
  PROVE  IInv'
BY DEF Crash, NewProvider, Asleep, IInv, LoopTypeOK, InOrder, NoLostWakeUp

LEMMA InitIInv == Init => IInv
BY DEF Init, Asleep, IInv, LoopTypeOK, InOrder, NoLostWakeUp

LEMMA NextIInv == IInv /\ [Next]_vars => IInv'
<1> SUFFICES ASSUME IInv, [Next]_vars PROVE IInv'
  OBVIOUS
<1>1. CASE DeliverPayloads \/ AbortProcessing
  BY <1>1, LoopKeeps
<1>2. CASE DeliverBlocks
  BY <1>2, OthersKeep
     DEF DeliverBlocks, StartDeliver, Reconnect, ReceiveBlock, StopDeliver
<1>3. CASE AntiEntropy \/ TimeOut
  BY <1>3, OthersKeep, Zenon
     DEF AntiEntropy, StartRound, TakeResponse, AddResponse, NextRange, TimeOut
<1>4. CASE \E c \in waiting : AddPayload(c)
  BY <1>4, PushKeeps DEF AddPayload
<1>5. CASE \E n \in Blocks : QueueNewMessage(n)
  BY <1>5, PushKeeps DEF QueueNewMessage
<1>6. CASE \E r \in net : Arrive(r)
  BY <1>6, OthersKeep DEF Arrive
<1>7. CASE \E p \in Peers : PeerLeaves(p)
  BY <1>7, OthersKeep DEF PeerLeaves
<1>8. CASE Crash
  BY <1>8, CrashKeeps
<1>9. CASE UNCHANGED vars
  BY <1>9, OthersKeep DEF vars
<1> QED
  BY <1>1, <1>2, <1>3, <1>4, <1>5, <1>6, <1>7, <1>8, <1>9 DEF Next

\* Blocks reach the ledger in order and once, whatever the three sources bring, in whatever
\* order and however often, and wherever the process dies.
THEOREM DeliversInOrder == Spec => []InOrder
<1>1. IInv => InOrder
  BY DEF IInv
<1> QED BY <1>1, InitIInv, NextIInv, PTL DEF Spec

\* deliverPayloads never sleeps on an empty ready channel while the block it needs is in the
\* payload buffer, although Pop drains the channel and Push signals only for that block.
THEOREM WakesUp == Spec => []NoLostWakeUp
<1>1. IInv => NoLostWakeUp
  BY DEF IInv
<1> QED BY <1>1, InitIInv, NextIInv, PTL DEF Spec

-----------------------------------------------------------------------------
\* Types.  The blocks of an answer, and so the range that anti-entropy goes on with, are
\* found with Min and Max, which exist because the naturals are well-founded.

LEMMA LeastNat ==
  ASSUME NEW T \in SUBSET Nat, T # {}
  PROVE  \E x \in T : \A y \in T : x <= y
<1> DEFINE R == { ss \in Nat \X Nat : ss[1] < ss[2] }
<1>1. IsWellFoundedOn(R, Nat)
  BY ONLY NatLessThanWellFounded DEF OpToRel
<1>2. \A x, y \in Nat : <<y, x>> \notin R => x <= y
  OBVIOUS
<1> HIDE DEF R
<1>3. \E x \in T : \A y \in T : ~(<<y, x>> \in R)
  BY <1>1, WFMin, Zenon
<1> QED BY <1>2, <1>3, Zenon

LEMMA MinIn ==
  ASSUME NEW T \in SUBSET Nat, T # {}
  PROVE  Min(T) \in T
<1>1. \E x \in T : \A y \in T : x <= y
  BY LeastNat
<1> QED BY <1>1, Zenon DEF Min

\* The greatest element of a set that has a bound is its least bound.
LEMMA MaxIn ==
  ASSUME NEW N \in Nat, NEW T \in SUBSET (0 .. N), T # {}
  PROVE  Max(T) \in T
<1> DEFINE U == { u \in Nat : \A y \in T : y <= u }
<1>1. U \in SUBSET Nat /\ N \in U
  OBVIOUS
<1>2. PICK u \in U : \A v \in U : u <= v
  BY <1>1, LeastNat, Zenon
<1>3. u \in T
  <2> SUFFICES ASSUME u \notin T PROVE FALSE
    OBVIOUS
  <2>1. \A y \in T : y \in Nat /\ y <= u - 1
    BY <1>2
  <2>2. u - 1 \in Nat
    <3>1. PICK y \in T : y \in Nat /\ y <= u - 1
      BY <2>1, Zenon
    <3>2. u \in Nat
      BY <1>2
    <3> QED BY <3>1, <3>2
  <2>3. u - 1 \in U
    BY <2>1, <2>2
  <2> QED BY <1>2, <2>2, <2>3
<1>4. \A y \in T : u >= y
  BY <1>2
<1> QED BY <1>3, <1>4, Zenon DEF Max

\* Asking, for the first time or again, keeps the range and counts the tries.
LEMMA AskTypes ==
  ASSUME DeliveryTypeOK, NEW prev \in 0 .. Top, NEW last \in Blocks,
         NEW tries \in 0 .. AntiEntropyMaxRetries + 1, NEW late \in SUBSET Responses,
         Ask(prev, last, tries, late)
  PROVE  /\ ae' \in [pc : {"idle", "wait", "add", "addPart"}, prev : 0 .. Top, last : Blocks,
                     tries : 0 .. AntiEntropyMaxRetries + 1, left : SUBSET Blocks]
         /\ net' \subseteq Responses
<1> USE DeliveryAssumption
<1> DEFINE end == BatchEnd(prev, last)
           able == { p \in Peers : adv[p] >= end }
<1>1. \A p \in Peers : Response(p, prev, end) \in Responses
  <2> SUFFICES ASSUME NEW p \in Peers PROVE Response(p, prev, end) \in Responses
    OBVIOUS
  <2>1. adv[p] \in 0 .. Top
    BY DEF DeliveryTypeOK
  <2>2. end \in Nat
    BY DEF BatchEnd, Least, Blocks
  <2>3. Least(adv[p], end) \in Nat
    BY <2>1, <2>2 DEF Least
  <2>4. { n \in prev .. Least(adv[p], end) : n < adv[p] } \subseteq Blocks
    BY <2>1, <2>3 DEF Blocks
  <2> QED BY <2>4 DEF Response, Responses
<1> HIDE DEF end
<1>2. CASE ae' = Idle /\ net' = late
  <2>1. 0 \in Blocks /\ 0 \in 0 .. Top /\ 0 \in 0 .. AntiEntropyMaxRetries + 1
    BY DEF Blocks
  <2> QED BY <1>2, <2>1 DEF Idle
<1>3. CASE /\ tries <= AntiEntropyMaxRetries
           /\ ae' = [pc |-> "wait", prev |-> prev, last |-> last, tries |-> tries + 1, left |-> {}]
           /\ \E p \in able : net' \in {late, {Response(p, prev, end)}}
  <2>1. tries + 1 \in 0 .. AntiEntropyMaxRetries + 1
    BY <1>3
  <2>2. PICK p \in Peers : net' \in {late, {Response(p, prev, end)}}
    BY <1>3
  <2>3. net' \subseteq Responses
    BY <1>1, <2>2
  <2> QED BY <1>3, <2>1, <2>3
<1> QED BY <1>2, <1>3 DEF Ask, end

\* A request with a new nonce makes the answers on their way useless, not more.
LEMMA NewRangeTypes ==
  ASSUME DeliveryTypeOK, NEW prev \in 0 .. Top, NEW last \in Blocks, NewRange(prev, last)
  PROVE  /\ ae' \in [pc : {"idle", "wait", "add", "addPart"}, prev : 0 .. Top, last : Blocks,
                     tries : 0 .. AntiEntropyMaxRetries + 1, left : SUBSET Blocks]
         /\ net' \subseteq Responses
         /\ respCh' \in Seq(Responses) /\ Len(respCh') <= ChannelBufferSize
<1> USE DeliveryAssumption
<1>1. Stale \in Responses
  BY DEF Stale, Responses
<1>2. { Stale : r \in net } \in SUBSET Responses
  BY <1>1
<1>3. 0 \in 0 .. AntiEntropyMaxRetries + 1
  OBVIOUS
<1>4. Ask(prev, last, 0, { Stale : r \in net })
  BY DEF NewRange
<1>5. respCh' = [i \in 1 .. Len(respCh) |-> Stale] /\ Len(respCh) \in Nat
  BY DEF NewRange, DeliveryTypeOK
<1>6. respCh' \in Seq(Responses) /\ Len(respCh') = Len(respCh)
  BY <1>1, <1>5
<1>7. Len(respCh') <= ChannelBufferSize
  BY <1>6 DEF DeliveryTypeOK
<1> QED BY <1>2, <1>3, <1>4, <1>6, <1>7, AskTypes

LEMMA PushTypes ==
  ASSUME DeliveryTypeOK, NEW n \in Blocks, Push(n)
  PROVE  next' \in 1 .. Top /\ buf' \subseteq Blocks /\ ready' \in {0, 1}
BY DEF Push, DeliveryTypeOK, buffer

LEMMA LoopTypes ==
  ASSUME DeliveryTypeOK, InOrder, DeliverPayloads \/ AbortProcessing
  PROVE  DeliveryTypeOK'
<1> USE DeliveryAssumption
<1>1. /\ UNCHANGED <<stream, waiting, ae>> /\ UNCHANGED <<net, respCh, adv>>
  BY DEF DeliverPayloads, WakeUp, PopBlock, CommitBlock, AbortProcessing
<1>2. 0 \in Blocks
  BY DEF Blocks
<1>3. /\ height' \in 1 .. Top /\ next' \in 1 .. Top /\ buf' \subseteq Blocks /\ ready' \in {0, 1}
      /\ loop' \in [pc : {"wait", "pop", "commit", "aborted"}, blk : Blocks]
  <2>1. CASE WakeUp
    BY <2>1, Zenon DEF WakeUp, DeliveryTypeOK
  <2>2. CASE PopBlock
    <3>1. CASE Pop /\ loop' = [pc |-> "commit", blk |-> next]
      <4>1. next \in Blocks
        BY <3>1 DEF Pop, DeliveryTypeOK
      <4>2. next' \in 1 .. Top
        BY <3>1, <4>1 DEF Pop, Blocks, DeliveryTypeOK
      <4> QED BY <2>2, <3>1, <4>1, <4>2 DEF PopBlock, Pop, DeliveryTypeOK
    <3>2. CASE loop' = Asleep /\ UNCHANGED buffer
      BY <1>2, <2>2, <3>2 DEF PopBlock, Asleep, buffer, DeliveryTypeOK
    <3> QED BY <2>2, <3>1, <3>2 DEF PopBlock
  <2>3. CASE CommitBlock
    <3>1. height \in Blocks
      BY <2>3 DEF CommitBlock, InOrder, DeliveryTypeOK
    <3>2. height' \in 1 .. Top
      BY <2>3, <3>1 DEF CommitBlock, Blocks, DeliveryTypeOK
    <3> QED BY <1>2, <2>3, <3>2 DEF CommitBlock, buffer, DeliveryTypeOK
  <2>4. CASE AbortProcessing
    BY <1>2, <2>4 DEF AbortProcessing, buffer, DeliveryTypeOK
  <2> QED BY <2>1, <2>2, <2>3, <2>4 DEF DeliverPayloads
<1> QED BY <1>1, <1>3 DEF DeliveryTypeOK

LEMMA StreamTypes ==
  ASSUME DeliveryTypeOK, DeliverBlocks
  PROVE  DeliveryTypeOK'
<1> USE DeliveryAssumption
<1>1. /\ UNCHANGED <<height, loop, ae>> /\ UNCHANGED <<net, respCh, adv>> /\ UNCHANGED <<next, buf, ready>>
  BY DEF DeliverBlocks, StartDeliver, Reconnect, ReceiveBlock, StopDeliver, buffer
<1>2. stream' \in [on : BOOLEAN, pos : 0 .. Top]
  <2>1. 0 \in 0 .. Top /\ height \in 0 .. Top
    BY DEF DeliveryTypeOK
  <2>2. stream \in [on : BOOLEAN, pos : 0 .. Top] /\ stream.pos \in 0 .. Top
    BY DEF DeliveryTypeOK
  <2>3. CASE StartDeliver
    BY <2>1, <2>3 DEF StartDeliver
  <2>4. CASE Reconnect
    <3>1. stream' = [stream EXCEPT !.pos = height]
      BY <2>4 DEF Reconnect
    <3> QED BY <2>1, <2>2, <3>1
  <2>5. CASE ReceiveBlock
    <3>1. stream' = [stream EXCEPT !.pos = stream.pos + 1] /\ stream.pos < Top
      BY <2>2, <2>5 DEF ReceiveBlock
    <3>2. stream.pos + 1 \in 0 .. Top
      BY <2>2, <3>1
    <3> QED BY <2>2, <3>1, <3>2
  <2>6. CASE StopDeliver
    BY <2>1, <2>6 DEF StopDeliver, NoStream
  <2> QED BY <2>3, <2>4, <2>5, <2>6 DEF DeliverBlocks
<1>3. waiting' \subseteq ({"stream", "stopped", "ae"} \X Blocks)
  <2>1. CASE StartDeliver \/ Reconnect
    BY <2>1 DEF StartDeliver, Reconnect, DeliveryTypeOK
  <2>2. CASE ReceiveBlock
    <3>1. stream.pos \in Blocks
      BY <2>2, SMTT(40) DEF ReceiveBlock, Blocks, DeliveryTypeOK
    <3>2. waiting' \in {waiting, waiting \cup {<<"stream", stream.pos>>}}
      BY <2>2 DEF ReceiveBlock
    <3> QED BY <3>1, <3>2 DEF DeliveryTypeOK
  <2>3. CASE StopDeliver
    BY <2>3 DEF StopDeliver, Renamed, DeliveryTypeOK
  <2> QED BY <2>1, <2>2, <2>3 DEF DeliverBlocks
<1> QED BY <1>1, <1>2, <1>3 DEF DeliveryTypeOK

LEMMA AntiEntropyTypes ==
  ASSUME DeliveryTypeOK, AntiEntropy \/ TimeOut
  PROVE  DeliveryTypeOK'
<1> USE DeliveryAssumption
<1> DEFINE Rounds == [pc : {"idle", "wait", "add", "addPart"}, prev : 0 .. Top, last : Blocks,
                      tries : 0 .. AntiEntropyMaxRetries + 1, left : SUBSET Blocks]
<1>1. /\ UNCHANGED <<height, loop, stream, adv>> /\ UNCHANGED <<next, buf, ready>>
  BY Zenon DEF AntiEntropy, StartRound, TakeResponse, AddResponse, NextRange, TimeOut, buffer
<1>2. /\ ae.prev \in 0 .. Top /\ ae.last \in Blocks /\ ae.tries \in 0 .. AntiEntropyMaxRetries + 1
      /\ ae.left \in SUBSET Blocks /\ net \in SUBSET Responses
  BY DEF DeliveryTypeOK
<1>3. /\ ae' \in Rounds /\ net' \subseteq Responses
      /\ respCh' \in Seq(Responses) /\ Len(respCh') <= ChannelBufferSize
  <2>1. CASE StartRound
    <3> DEFINE most == Max({0} \cup { adv[p] : p \in Peers })
    <3>1. most \in 0 .. Top
      <4>1. {0} \cup { adv[p] : p \in Peers } \in SUBSET (0 .. Top)
        BY DEF DeliveryTypeOK
      <4> QED BY <4>1, MaxIn, Zenon
    <3>2. height < most /\ NewRange(height, most - 1)
      BY <2>1 DEF StartRound
    <3> HIDE DEF most
    <3>3. height \in 0 .. Top /\ most - 1 \in Blocks
      BY <3>1, <3>2 DEF DeliveryTypeOK, Blocks
    <3> QED BY <3>2, <3>3, NewRangeTypes
  <2>2. CASE TakeResponse
    <3> DEFINE r == Head(respCh)
    <3>1. /\ r \in Responses /\ Tail(respCh) \in Seq(Responses) /\ respCh' = Tail(respCh)
          /\ Len(respCh) \in Nat /\ Len(Tail(respCh)) = Len(respCh) - 1
      <4>1. respCh \in Seq(Responses) /\ respCh # <<>> /\ respCh' = Tail(respCh)
        BY <2>2, Zenon DEF TakeResponse, DeliveryTypeOK
      <4> QED BY <4>1
    <3>2. Len(respCh') <= ChannelBufferSize
      BY <3>1 DEF DeliveryTypeOK
    <3>3. r.blocks \in SUBSET Blocks
      BY <3>1 DEF Responses
    <3> HIDE DEF r
    <3>4. CASE Ask(ae.prev, ae.last, ae.tries, net)
      BY <1>2, <3>1, <3>2, <3>4, AskTypes, Zenon
    <3>5. CASE /\ r.blocks # {} /\ net' = net
               /\ ae' = [ae EXCEPT !.pc = "add", !.left = r.blocks, !.prev = Max(r.blocks) + 1]
      <4>1. r.blocks \in SUBSET (0 .. Top)
        BY <3>3 DEF Blocks
      <4>2. Max(r.blocks) \in Blocks
        BY <3>3, <3>5, <4>1, MaxIn
      <4>3. Max(r.blocks) + 1 \in 0 .. Top
        BY <4>2 DEF Blocks
      <4> QED BY <1>2, <3>1, <3>2, <3>3, <3>5, <4>3, Zenon DEF DeliveryTypeOK
    <3>6. CASE /\ net' = net
               /\ \E bad \in r.blocks :
                    ae' = [ae EXCEPT !.pc = "addPart", !.left = { n \in r.blocks : n < bad }]
      <4>1. PICK bad : ae' = [ae EXCEPT !.pc = "addPart", !.left = { n \in r.blocks : n < bad }]
        BY <3>6, Zenon
      <4> DEFINE some == { n \in r.blocks : n < bad }
      <4>2. some \in SUBSET Blocks /\ ae \in Rounds
        BY <3>3 DEF DeliveryTypeOK
      <4> HIDE DEF some
      <4>3. ae' \in Rounds
        BY <4>1, <4>2, Zenon DEF some
      <4> QED BY <1>2, <3>1, <3>2, <3>6, <4>3, Zenon
    <3> QED BY <2>2, <3>4, <3>5, <3>6, Zenon DEF TakeResponse, r
  <2>3. CASE AddResponse
    <3>1. UNCHANGED <<net, respCh>> /\ ae' = [ae EXCEPT !.left = @ \ {Min(@)}]
      BY <2>3 DEF AddResponse
    <3> QED BY <1>2, <3>1, Zenon DEF DeliveryTypeOK
  <2>4. CASE NextRange
    <3>1. CASE NewRange(ae.prev, ae.last)
      BY <1>2, <3>1, NewRangeTypes
    <3>2. CASE ae' = Idle /\ UNCHANGED <<net, respCh>>
      <4>1. 0 \in Blocks /\ 0 \in 0 .. Top /\ 0 \in 0 .. AntiEntropyMaxRetries + 1
        BY DEF Blocks
      <4> QED BY <3>2, <4>1 DEF Idle, DeliveryTypeOK
    <3>3. CASE Ask(ae.prev, ae.last, ae.tries, net) /\ UNCHANGED respCh
      BY <1>2, <3>3, AskTypes DEF DeliveryTypeOK
    <3> QED BY <2>4, <3>1, <3>2, <3>3 DEF NextRange
  <2>5. CASE TimeOut
    BY <1>2, <2>5, AskTypes DEF TimeOut, DeliveryTypeOK
  <2> QED BY <2>1, <2>2, <2>3, <2>4, <2>5 DEF AntiEntropy
<1>4. waiting' \subseteq ({"stream", "stopped", "ae"} \X Blocks)
  <2>1. CASE AddResponse
    <3>1. Min(ae.left) \in Blocks
      <4>1. ae.left \in SUBSET Nat /\ ae.left # {}
        BY <1>2, <2>1 DEF AddResponse, Blocks
      <4> QED BY <1>2, <4>1, MinIn
    <3>2. waiting' = waiting \cup {<<"ae", Min(ae.left)>>}
      BY <2>1 DEF AddResponse
    <3> QED BY <3>1, <3>2 DEF DeliveryTypeOK
  <2>2. CASE ~AddResponse
    <3>1. waiting' = waiting
      BY <2>2, Zenon DEF AntiEntropy, StartRound, TakeResponse, NextRange, TimeOut
    <3> QED BY <3>1 DEF DeliveryTypeOK
  <2> QED BY <2>1, <2>2
<1> QED BY <1>1, <1>3, <1>4 DEF DeliveryTypeOK

LEMMA InitTypes == Init => DeliveryTypeOK
<1> SUFFICES ASSUME Init PROVE DeliveryTypeOK
  OBVIOUS
<1>1. 0 \in Blocks /\ 0 \in 0 .. Top /\ 1 \in 1 .. Top /\ 0 \in 0 .. AntiEntropyMaxRetries + 1
  BY DeliveryAssumption DEF Blocks
<1> QED BY <1>1, DeliveryAssumption DEF Init, DeliveryTypeOK, Asleep, NoStream, Idle

LEMMA NextTypes == DeliveryTypeOK /\ InOrder /\ [Next]_vars => DeliveryTypeOK'
<1> SUFFICES ASSUME DeliveryTypeOK, InOrder, [Next]_vars PROVE DeliveryTypeOK'
  OBVIOUS
<1> USE DeliveryAssumption
<1>1. CASE DeliverPayloads \/ AbortProcessing
  BY <1>1, LoopTypes
<1>2. CASE DeliverBlocks
  BY <1>2, StreamTypes
<1>3. CASE AntiEntropy \/ TimeOut
  BY <1>3, AntiEntropyTypes
<1>4. CASE \E c \in waiting : AddPayload(c)
  <2>1. PICK c \in waiting : AddPayload(c)
    BY <1>4
  <2>2. c[2] \in Blocks
    BY DEF DeliveryTypeOK
  <2>3. Push(c[2])
    BY <2>1 DEF AddPayload
  <2>4. next' \in 1 .. Top /\ buf' \subseteq Blocks /\ ready' \in {0, 1}
    BY <2>2, <2>3, PushTypes
  <2>5. /\ waiting' \subseteq waiting /\ UNCHANGED <<height, loop, stream>>
        /\ UNCHANGED <<ae, net, respCh, adv>>
    BY <2>1 DEF AddPayload
  <2> QED BY <2>4, <2>5 DEF DeliveryTypeOK
<1>5. CASE \E n \in Blocks : QueueNewMessage(n)
  <2>1. PICK n \in Blocks : QueueNewMessage(n)
    BY <1>5
  <2>2. next' \in 1 .. Top /\ buf' \subseteq Blocks /\ ready' \in {0, 1}
    BY <2>1, PushTypes DEF QueueNewMessage
  <2>3. UNCHANGED <<height, loop, stream, waiting>> /\ UNCHANGED <<ae, net, respCh, adv>>
    BY <2>1 DEF QueueNewMessage
  <2> QED BY <2>2, <2>3 DEF DeliveryTypeOK
<1>6. CASE \E r \in net : Arrive(r)
  <2>1. PICK r \in net : Arrive(r)
    BY <1>6
  <2>2. /\ UNCHANGED <<height, loop, stream, waiting>> /\ UNCHANGED <<ae, adv>>
        /\ UNCHANGED <<next, buf, ready>> /\ net' \subseteq net
    BY <2>1 DEF Arrive, buffer
  <2>3. respCh' \in Seq(Responses) /\ Len(respCh') <= ChannelBufferSize
    <3>1. respCh \in Seq(Responses) /\ Len(respCh) <= ChannelBufferSize /\ r \in Responses
      BY DEF DeliveryTypeOK
    <3>2. CASE respCh' = respCh
      BY <3>1, <3>2
    <3>3. CASE respCh' = Append(respCh, r) /\ Len(respCh) < ChannelBufferSize
      BY <3>1, <3>3
    <3> QED BY <2>1, <3>2, <3>3 DEF Arrive
  <2> QED BY <2>2, <2>3 DEF DeliveryTypeOK
<1>7. CASE \E p \in Peers : PeerLeaves(p)
  <2>1. PICK p \in Peers : PeerLeaves(p)
    BY <1>7
  <2>2. /\ UNCHANGED <<height, loop, stream, waiting>> /\ UNCHANGED <<ae, net, respCh>>
        /\ UNCHANGED <<next, buf, ready>> /\ adv' = [adv EXCEPT ![p] = 0]
    BY <2>1 DEF PeerLeaves, buffer
  <2> QED BY <2>2 DEF DeliveryTypeOK
<1>8. CASE Crash
  <2>1. 0 \in Blocks /\ 0 \in 0 .. Top /\ 0 \in 0 .. AntiEntropyMaxRetries + 1
    BY DEF Blocks
  <2>2. UNCHANGED <<height, adv>> /\ NewProvider(height)
    BY <1>8 DEF Crash
  <2> QED BY <2>1, <2>2 DEF NewProvider, Asleep, NoStream, Idle, DeliveryTypeOK
<1>9. CASE UNCHANGED vars
  BY <1>9 DEF vars, buffer, DeliveryTypeOK
<1> QED
  BY <1>1, <1>2, <1>3, <1>4, <1>5, <1>6, <1>7, <1>8, <1>9 DEF Next

\* Nothing beyond the channel's last block is asked for, queued or committed, and tries and
\* queues stay within the configured limits.
THEOREM DeliveryTypes == Spec => []DeliveryTypeOK
<1>1. IInv /\ DeliveryTypeOK /\ [Next]_vars => (IInv /\ DeliveryTypeOK)'
  BY NextIInv, NextTypes DEF IInv
<1>2. Init => IInv /\ DeliveryTypeOK
  BY InitIInv, InitTypes
<1> QED BY <1>1, <1>2, PTL DEF Spec
====
