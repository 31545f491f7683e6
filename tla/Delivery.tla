---- MODULE Delivery ----
(***************************************************************************)
(* How the blocks of a channel reach one peer's ledger: the payload buffer *)
(* of the gossip state provider, the goroutine that commits from it, and   *)
(* the three that fill it - the stream from the ordering service (when the *)
(* peer leads its organization), gossip, and the anti-entropy rounds that  *)
(* ask other peers for what is missing.  A block is its number.            *)
(***************************************************************************)
EXTENDS Naturals, FiniteSets, Sequences, FiniteSetsExt

CONSTANTS Top,          \* height of the channel: blocks 0 .. Top - 1 exist
          Peers,        \* the other peers of the channel
          Heights,      \* the heights they advertise
          MaxBlockDistance, AntiEntropyBatchSize, AntiEntropyMaxRetries, ChannelBufferSize,
          Gossiping,    \* blocks also arrive by gossip
          MaxFaults     \* blocks that fail VerifyBlock, losses of the leadership, peers that
                        \* leave, crashes, failures of the validation chaincode: in all

ASSUME DeliveryAssumption ==
  /\ Top \in Nat \ {0} /\ Heights \in [Peers -> 0 .. Top]
  /\ AntiEntropyBatchSize \in Nat /\ AntiEntropyMaxRetries \in Nat /\ ChannelBufferSize \in Nat

VARIABLES height,   \* of the peer's ledger
          next, buf, ready,   \* PayloadsBufferImpl: next, buf, len(readyChan)
          loop,     \* deliverPayloads: [pc, blk]
          stream,   \* the block provider: [on, pos]
          waiting,  \* blocking addPayload calls that wait for room: <<caller, block>>
          ae,       \* antiEntropy: [pc, prev, last, tries, left]
          net,      \* state responses on their way
          respCh,   \* stateResponseCh
          adv,      \* Heights, 0 for a peer that left
          faults

buffer == <<next, buf, ready>>
vars == <<height, buffer, loop, stream, waiting, ae, net, respCh, adv, faults>>

Blocks == 0 .. Top - 1
Idle == [pc |-> "idle", prev |-> 0, last |-> 0, tries |-> 0, left |-> {}]
Asleep == [pc |-> "wait", blk |-> 0]
NoStream == [on |-> FALSE, pos |-> 0]
Room == Cardinality(buf) <= 2 * MaxBlockDistance

\* (mutant) starts below the height of the ledger
NewProviderMutant(h) ==
  /\ next' = h - 1 /\ buf' = {} /\ ready' = 0
  /\ loop' = Asleep /\ stream' = NoStream
  /\ waiting' = {}
  /\ ae' = Idle /\ net' = {} /\ respCh' = <<>>

\* NewGossipStateProvider over a ledger of the given height
NewProvider(h) ==
  /\ next' = h /\ buf' = {} /\ ready' = 0
  /\ loop' = Asleep /\ stream' = NoStream
  /\ waiting' = {}
  /\ ae' = Idle /\ net' = {} /\ respCh' = <<>>

Init ==
  /\ height = 1 /\ next = 1 /\ buf = {} /\ ready = 0
  /\ loop = Asleep /\ stream = NoStream
  /\ waiting = {}
  /\ ae = Idle /\ net = {} /\ respCh = <<>>
  /\ adv = Heights
  /\ faults = 0

-----------------------------------------------------------------------------
\* The payload buffer

\* (mutant) signals only when the buffer was empty
PushMutant(n) ==
  IF n < next \/ n \in buf
  THEN UNCHANGED buffer
  ELSE /\ buf' = buf \cup {n}
       /\ ready' = IF n = next /\ buf = {} THEN 1 ELSE ready
       /\ UNCHANGED next

Push(n) ==
  IF n < next \/ n \in buf
  THEN UNCHANGED buffer
  ELSE /\ buf' = buf \cup {n}
       /\ ready' = IF n = next THEN 1 ELSE ready
       /\ UNCHANGED next

\* Pop of a block that is there; a Pop that returns nil changes nothing
Pop ==
  /\ next \in buf
  /\ buf' = buf \ {next}
  /\ next' = next + 1
  /\ ready' = IF buf' = {} THEN 0 ELSE ready

\* addPayload in blocking mode waits until the buffer has room, and pushes.  (The size is read
\* outside the buffer's lock: each caller may find room for the same last place.)
AddPayload(c) ==
  /\ c \in waiting /\ Room
  /\ waiting' = waiting \ {c}
  /\ Push(c[2])
  /\ UNCHANGED <<height, loop, stream, ae, net, respCh, adv, faults>>

-----------------------------------------------------------------------------
\* deliverPayloads

WakeUp ==
  /\ loop.pc = "wait" /\ ready = 1
  /\ ready' = 0
  /\ loop' = [loop EXCEPT !.pc = "pop"]
  /\ UNCHANGED <<height, next, buf, stream, waiting, ae, net, respCh, adv, faults>>

PopBlock ==
  /\ loop.pc = "pop"
  /\ \/ /\ Pop
        /\ loop' = [pc |-> "commit", blk |-> next]
     \/ /\ next \notin buf
        /\ loop' = Asleep
        /\ UNCHANGED buffer
  /\ UNCHANGED <<height, stream, waiting, ae, net, respCh, adv, faults>>

\* commitBlock: the coordinator stores the block, then the new height is advertised
CommitBlock ==
  /\ loop.pc = "commit"
  /\ height' = height + 1
  /\ loop' = [pc |-> "pop", blk |-> 0]
  /\ UNCHANGED <<buffer, stream, waiting, ae, net, respCh, adv, faults>>

\* the validation chaincode could not be executed: the goroutine ends, the process goes on
AbortProcessing ==
  /\ loop.pc = "commit" /\ faults < MaxFaults
  /\ loop' = [pc |-> "aborted", blk |-> 0]
  /\ faults' = faults + 1
  /\ UNCHANGED <<height, buffer, stream, waiting, ae, net, respCh, adv>>

-----------------------------------------------------------------------------
\* Gossip: any block, at any time, any number of times.  The distance is computed on
\* unsigned integers, so a block below the height is out of range as well.  The height only
\* grows, so that what passes the check and is pushed later would pass it then too, or is
\* below next and dropped: one step.

InRange(n) == n >= height /\ n - height < MaxBlockDistance

QueueNewMessage(n) ==
  /\ Gossiping
  /\ InRange(n)
  /\ Push(n)
  /\ UNCHANGED <<height, loop, stream, waiting, ae, net, respCh, adv, faults>>

-----------------------------------------------------------------------------
\* The block provider: StartDeliverForChannel, DeliverBlocks, StopDeliverForChannel

Calls(who) == { c \in waiting : c[1] = who }

StartDeliver ==
  /\ ~stream.on
  /\ stream' = [on |-> TRUE, pos |-> height]
  /\ UNCHANGED <<height, buffer, loop, waiting, ae, net, respCh, adv, faults>>

\* the connection breaks, or a status arrives: connect again, from the ledger's height
Reconnect ==
  /\ stream.on /\ Calls("stream") = {} /\ stream.pos # height
  /\ stream' = [stream EXCEPT !.pos = height]
  /\ UNCHANGED <<height, buffer, loop, waiting, ae, net, respCh, adv, faults>>

\* a block that fails VerifyBlock is skipped, and the stream goes on with the one after it
ReceiveBlock ==
  /\ stream.on /\ Calls("stream") = {} /\ stream.pos < Top
  /\ stream' = [stream EXCEPT !.pos = @ + 1]
  /\ \/ /\ waiting' = waiting \cup {<<"stream", stream.pos>>}
        /\ UNCHANGED faults
     \/ /\ faults < MaxFaults
        /\ faults' = faults + 1
        /\ UNCHANGED waiting
  /\ UNCHANGED <<height, buffer, loop, ae, net, respCh, adv>>

\* the provider is done, but a call of AddPayload it is in goes on
Renamed(cs) == { IF c[1] = "stream" THEN <<"stopped", c[2]>> ELSE c : c \in cs }

StopDeliver ==
  /\ stream.on /\ faults < MaxFaults
  /\ stream' = NoStream
  /\ faults' = faults + 1
  /\ waiting' = Renamed(waiting)
  /\ UNCHANGED <<height, buffer, loop, ae, net, respCh, adv>>

-----------------------------------------------------------------------------
\* Anti-entropy

Least(a, b) == IF a < b THEN a ELSE b
BatchEnd(prev, last) == Least(last, prev + AntiEntropyBatchSize)

\* (mutant) leaves out the last block asked for
ResponseMutant(p, prev, end) ==
  [match |-> TRUE, blocks |-> { n \in prev .. Least(adv[p], end) : n < adv[p] /\ n < end }]

\* handleStateRequest at the peer that is asked: it reads up to its own height
Response(p, prev, end) ==
  [match |-> TRUE, blocks |-> { n \in prev .. Least(adv[p], end) : n < adv[p] }]

\* (mutant) tries once too often
AskMutant(prev, last, tries, late) ==
  LET end == BatchEnd(prev, last)
      able == { p \in Peers : adv[p] >= end }
  IN \/ /\ tries > AntiEntropyMaxRetries + 1 \/ able = {}
        /\ ae' = Idle
        /\ net' = late
     \/ /\ tries <= AntiEntropyMaxRetries + 1
        /\ ae' = [pc |-> "wait", prev |-> prev, last |-> last, tries |-> tries + 1, left |-> {}]
        /\ \E p \in able : net' \in {late, {Response(p, prev, end)}}

\* One turn of the loop in requestBlocksInRange.  At most one answer is on its way: the
\* request or its answer is lost, or an earlier answer (one of "late") is.
Ask(prev, last, tries, late) ==
  LET end == BatchEnd(prev, last)
      able == { p \in Peers : adv[p] >= end }
  IN \/ /\ tries > AntiEntropyMaxRetries \/ able = {}
        /\ ae' = Idle
        /\ net' = late
     \/ /\ tries <= AntiEntropyMaxRetries
        /\ ae' = [pc |-> "wait", prev |-> prev, last |-> last, tries |-> tries + 1, left |-> {}]
        /\ \E p \in able : net' \in {late, {Response(p, prev, end)}}

\* a request with a new nonce: the answers to earlier ones no longer match
Stale == [match |-> FALSE, blocks |-> {}]
NewRange(prev, last) ==
  /\ respCh' = [i \in DOMAIN respCh |-> Stale]
  /\ Ask(prev, last, 0, { Stale : r \in net })

StartRound ==
  /\ ae.pc = "idle"
  /\ LET most == Max({0} \cup { adv[p] : p \in Peers })
     IN height < most /\ NewRange(height, most - 1)
  /\ UNCHANGED <<height, buffer, loop, stream, waiting, adv, faults>>

\* directMessage: dropped unless a round is active, queued if there is space
Arrive(r) ==
  /\ r \in net
  /\ ae.pc = "idle" \/ Len(respCh) < ChannelBufferSize
  /\ net' = net \ {r}
  /\ respCh' = IF ae.pc = "idle" THEN respCh ELSE Append(respCh, r)
  /\ UNCHANGED <<height, buffer, loop, stream, waiting, ae, adv, faults>>

\* an answer with another nonce, or without payload, costs a try; one with a block that
\* fails VerifyBlock adds what comes before it and costs a try as well
TakeResponse ==
  /\ ae.pc = "wait" /\ respCh # <<>>
  /\ respCh' = Tail(respCh)
  /\ LET r == Head(respCh)
     IN \/ /\ ~r.match \/ r.blocks = {}
           /\ Ask(ae.prev, ae.last, ae.tries, net)
           /\ UNCHANGED faults
        \/ /\ r.match /\ r.blocks # {}
           /\ ae' = [ae EXCEPT !.pc = "add", !.left = r.blocks, !.prev = Max(r.blocks) + 1]
           /\ UNCHANGED <<net, faults>>
        \/ /\ r.match /\ faults < MaxFaults
           /\ \E bad \in r.blocks :
                ae' = [ae EXCEPT !.pc = "addPart", !.left = { n \in r.blocks : n < bad }]
           /\ faults' = faults + 1
           /\ UNCHANGED net
  /\ UNCHANGED <<height, buffer, loop, stream, waiting, adv>>

\* the timer is up before an answer is there
TimeOut ==
  /\ ae.pc = "wait" /\ respCh = <<>>
  /\ Ask(ae.prev, ae.last, ae.tries, net)
  /\ UNCHANGED <<height, buffer, loop, stream, waiting, respCh, adv, faults>>

\* handleStateResponse, one payload after the other, each a blocking addPayload
AddResponse ==
  /\ ae.pc \in {"add", "addPart"} /\ Calls("ae") = {} /\ ae.left # {}
  /\ ae' = [ae EXCEPT !.left = @ \ {Min(@)}]
  /\ waiting' = waiting \cup {<<"ae", Min(ae.left)>>}
  /\ UNCHANGED <<height, buffer, loop, stream, net, respCh, adv, faults>>

NextRange ==
  /\ Calls("ae") = {} /\ ae.left = {}
  /\ \/ /\ ae.pc = "add" /\ ae.prev <= ae.last
        /\ NewRange(ae.prev, ae.last)
     \/ /\ ae.pc = "add" /\ ae.prev > ae.last
        /\ ae' = Idle
        /\ UNCHANGED <<net, respCh>>
     \/ /\ ae.pc = "addPart"
        /\ Ask(ae.prev, ae.last, ae.tries, net)
        /\ UNCHANGED respCh
  /\ UNCHANGED <<height, buffer, loop, stream, waiting, adv, faults>>

\* another peer is no longer in the membership
PeerLeaves(p) ==
  /\ faults < MaxFaults /\ adv[p] # 0
  /\ adv' = [adv EXCEPT ![p] = 0]
  /\ faults' = faults + 1
  /\ UNCHANGED <<height, buffer, loop, stream, waiting, ae, net, respCh>>

\* the process dies and starts again on the ledger it has
Crash ==
  /\ faults < MaxFaults
  /\ faults' = faults + 1
  /\ NewProvider(height)
  /\ UNCHANGED <<height, adv>>

-----------------------------------------------------------------------------
DeliverPayloads == WakeUp \/ PopBlock \/ CommitBlock
DeliverBlocks == StartDeliver \/ Reconnect \/ ReceiveBlock \/ StopDeliver
AntiEntropy == StartRound \/ TakeResponse \/ AddResponse \/ NextRange

Next ==
  \/ DeliverPayloads \/ AbortProcessing
  \/ DeliverBlocks
  \/ AntiEntropy \/ TimeOut
  \/ \E c \in waiting : AddPayload(c)
  \/ \E n \in Blocks : QueueNewMessage(n)
  \/ \E r \in net : Arrive(r)
  \/ \E p \in Peers : PeerLeaves(p)
  \/ Crash

Spec == Init /\ [][Next]_vars

Useful(r) == r.match /\ r.blocks # {}
Answered == (AntiEntropy \/ TimeOut) /\ \E r \in net' : Useful(r)
ArriveInTime == \E r \in net : Useful(r) /\ ae.pc = "wait" /\ Arrive(r)

\* The goroutines keep running, and an answer to an anti-entropy request is not lost or late
\* for ever.  Nothing is assumed of gossip, of the ordering service or of the leadership.
FairSpec ==
  /\ Spec
  /\ WF_vars(DeliverPayloads) /\ WF_vars(AntiEntropy \/ TimeOut)
  /\ WF_vars(\E c \in waiting : AddPayload(c))
  /\ SF_vars(Answered) /\ SF_vars(ArriveInTime)

-----------------------------------------------------------------------------
Responses == [match : BOOLEAN, blocks : SUBSET Blocks]

\* Type invariant of the state provider: no block beyond the channel's last is asked for,
\* queued or committed, tries and queues stay within their limits.
DeliveryTypeOK ==
  /\ height \in 1 .. Top /\ next \in 1 .. Top /\ buf \subseteq Blocks /\ ready \in {0, 1}
  /\ loop \in [pc : {"wait", "pop", "commit", "aborted"}, blk : Blocks]
  /\ stream \in [on : BOOLEAN, pos : 0 .. Top]
  /\ waiting \subseteq ({"stream", "stopped", "ae"} \X Blocks)
  /\ ae \in [pc : {"idle", "wait", "add", "addPart"}, prev : 0 .. Top, last : Blocks,
             tries : 0 .. AntiEntropyMaxRetries + 1, left : SUBSET Blocks]
  /\ net \subseteq Responses
  /\ respCh \in Seq(Responses) /\ Len(respCh) <= ChannelBufferSize
  /\ adv \in [Peers -> 0 .. Top]

\* Blocks reach the ledger in order and once: whatever order the three sources bring them in
\* and however often, the block the commit loop holds is the one after the last block of the
\* ledger, also after a restart in the middle of a commit.
InOrder ==
  /\ loop.pc = "commit" => loop.blk = height /\ next = height + 1
  /\ loop.pc \in {"wait", "pop"} => next = height

\* No wake-up is lost: when the block the ledger needs is in the buffer, the commit loop is
\* running, or the token that starts it is in the ready channel (the token is only sent by the
\* Push of the next block, and Pop drains it).
NoLostWakeUp ==
  next \in buf => ready = 1 \/ loop.pc \in {"pop", "commit", "aborted"}

\* The buffer is full of later blocks and the one that would empty it is missing.
Jammed == ~Room /\ next \notin buf

Offered == \E p \in Peers : adv[p] = Top

\* What some peer of the channel has, this peer gets, from anti-entropy alone if need be:
\* through lost and late answers, a peer that has less than it is asked for, blocks that fail
\* verification, a leadership that comes and goes, and restarts; unless the validation
\* chaincode could not be executed, or the buffer is jammed.
PeerCatchesUp ==
  Offered ~> (height = Top \/ ~Offered \/ loop.pc = "aborted" \/ Jammed)

\* The comment at the start of the anti-entropy goroutine: it runs "to fill missing gaps".
FillsGaps ==
  Offered ~> (height = Top \/ ~Offered \/ loop.pc = "aborted")
====
