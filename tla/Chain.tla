------------------------------- MODULE Chain -------------------------------
(***************************************************************************)
(* One orderer's etcdraft chain and the goroutines around it:              *)
(*   serveRequest   takes submissions, batches, applied entries and the    *)
(*                  batch timer from its channels, one at a time           *)
(*   ProcessEnvMsg  the block cutter, which takes envelopes and the timer  *)
(*                  message from RaftEnvMsgC and sends batches on CommitC  *)
(*   a proposer per leadership, which hands blocks from propC to raft      *)
(*   node.run       which hands leader changes and committed entries of    *)
(*                  raft to applyC                                         *)
(*                                                                         *)
(* The CE-Graph inside the cutter is CEGraph: here an envelope releases    *)
(* any of those the graph holds, in any order.  raft is the library as     *)
(* this node sees it: it wins and loses elections, other leaders replace   *)
(* the entries that were not committed, and entries commit in log order.   *)
(*                                                                         *)
(* Left out: metrics, errorC and observeC, snapshots and catching up,      *)
(* certificate rotation, and the removal of this node.                     *)
(***************************************************************************)
EXTENDS Integers, Sequences, FiniteSets, Functions

CONSTANTS Txs,                \* envelopes of normal transactions
          Configs,            \* envelopes of configuration transactions
          MemberConfigs,      \* those of them that change the consenter set
          Submissions,        \* what clients may submit: sets of these
          Tick,               \* EnvMsg with a nil Env: the timer fired
          MaxMessageCount,    \* BatchSize.MaxMessageCount
          MaxInflightBlocks,  \* Options.MaxInflightBlocks, the capacity of propC
          EnvMsgCap,          \* capacity of RaftEnvMsgC (10000 in the code)
          CommitCap,          \* capacity of CommitC (1000)
          ApplyCap,           \* capacity of applyC (80000)
          Prompt,             \* the goroutines of one leadership end before the next one starts
          Racing,             \* the cutter may run between the two halves of serveRequest's Cut
          MaxElections,       \* bound: elections this node wins
          MaxForeign          \* bound: blocks that other leaders write

ASSUME ChainAssumption ==
    /\ MemberConfigs \subseteq Configs
    /\ Txs \cap Configs = {} /\ Tick \notin Txs \cup Configs
    /\ Submissions \subseteq SUBSET (Txs \cup Configs)
    /\ {MaxMessageCount, MaxInflightBlocks, EnvMsgCap, CommitCap, ApplyCap} \subseteq Nat \ {0}
    /\ {MaxElections, MaxForeign} \subseteq Nat
    /\ {Prompt, Racing} \subseteq BOOLEAN

VARIABLES submits,      \* messages that clients have still to get through submitC
          c,            \* the Chain and the local variables of serveRequest
          pc,           \* serveRequest: select, send (to RaftEnvMsgC), cut, commit or submit (in propose)
          arg,          \* what it sends, or the batches it has still to propose
          RaftEnvMsgC,
          held,         \* envelopes in the graph that are not released
          ReadyBatch,
          out,          \* what the cutter is sending on CommitC: at most one batch
          CommitC,
          proposers,    \* one goroutine per leadership, with its channel; propC is the last one's
          raft,         \* leader, follower or none (no leader is known)
          log,          \* the entries of raft's log after appliedIndex
          sent,         \* the soft state that node.run reported last: is this node the leader
          applyC,
          confC,        \* a goroutine is in ProposeConfChange
          elections,
          released,     \* history: the envelopes in the order the graph released them
          created,      \* history: the blocks made by createNextBlock
          accepted      \* history: the envelopes that were ordered

cutter == <<RaftEnvMsgC, held, ReadyBatch, out, CommitC, released>>
library == <<raft, log, sent, elections>>
vars == <<submits, c, pc, arg, cutter, proposers, library, applyC, confC, created, accepted>>

NoCreator == -1
Batch(txs) == [txs |-> txs, config |-> "no"]
ConfigBatch(m) == [txs |-> <<m>>, config |-> IF m \in MemberConfigs THEN "member" ELSE "plain"]
EmptyEntry == [kind |-> "empty"]
ConfEntry == [kind |-> "conf"]
BlockEntry(b) == [kind |-> "block", block |-> b]
Height == Len(c.ledger)

Leadership == Len(proposers)
PropC == proposers[Leadership].ch

---------------------------------------------------------------------------
(* serveRequest                                                            *)

StartTimer(d) == IF d.timer = "stopped" THEN [d EXCEPT !.timer = "ticking"] ELSE d
StopTimer(d) == [d EXCEPT !.timer = "stopped"]

\* (mutant) keeps the batch it has returned
AfterCutMutant(cut, ready) == ready

\* ReadyBatch when Cut was called or not
AfterCut(cut, ready) == IF cut THEN <<>> ELSE ready

\* submitC = nil while a configuration, or too many blocks, are in flight
Pause(d) ==
    IF d.configInflight \/ d.blockInflight >= MaxInflightBlocks
    THEN [d EXCEPT !.accepting = FALSE] ELSE d

\* the message does not get past the leader check, or past the second validation that
\* ordered makes when a configuration was committed since the first one
Refuse(m) ==
    /\ \/ ~c.leads
       \/ \E i \in DOMAIN c.ledger : c.ledger[i].config # "no"
    /\ UNCHANGED <<c, pc, arg, ReadyBatch, accepted>>

Accept(m) ==
    /\ c.leads
    /\ accepted' = accepted \cup {m}

\* ordered, for a normal message: hand it to the cutter
OrderNormal(m) ==
    /\ m \in Txs
    /\ Accept(m)
    /\ pc' = "send" /\ arg' = <<m>>
    /\ UNCHANGED <<c, ReadyBatch>>

\* (mutant) drops the batch it has cut
OrderConfigMutant(m) ==
    /\ m \in Configs
    /\ Accept(m)
    /\ pc' = "cut"
    /\ arg' = <<ConfigBatch(m)>>
    /\ c' = StopTimer(c)
    /\ UNCHANGED ReadyBatch

\* ordered, for a configuration: cut what is ready and propose both, the message last
OrderConfig(m) ==
    /\ m \in Configs
    /\ Accept(m)
    /\ pc' = "cut"
    /\ arg' = (IF ReadyBatch = <<>> THEN <<>> ELSE <<Batch(ReadyBatch)>>) \o <<ConfigBatch(m)>>
    /\ c' = StopTimer(c)
    /\ UNCHANGED ReadyBatch

\* CutTx copies ReadyBatch and then replaces it, without a lock
ResetBatch ==
    /\ pc = "cut"
    /\ ReadyBatch' = AfterCut(TRUE, ReadyBatch)
    /\ pc' = "submit"
    /\ UNCHANGED <<submits, c, arg, RaftEnvMsgC, held, out, CommitC, released, proposers, library,
                   applyC, confC, created, accepted>>

\* case s := <-submitC
Submit ==
    /\ pc = "select" /\ c.accepting
    /\ \E m \in submits :
         /\ submits' = submits \ {m}
         /\ Refuse(m) \/ OrderNormal(m) \/ OrderConfig(m)
    /\ UNCHANGED <<RaftEnvMsgC, held, out, CommitC, released, proposers, library, applyC, confC,
                   created>>

\* the send to RaftEnvMsgC, which blocks while the channel is full, and for a normal
\* message the rest of the case
SendEnvMsg ==
    /\ pc = "send"
    /\ Len(RaftEnvMsgC) < EnvMsgCap
    /\ RaftEnvMsgC' = RaftEnvMsgC \o arg
    /\ c' = IF arg = <<Tick>> THEN c ELSE Pause(StartTimer(c))
    /\ pc' = "select" /\ arg' = <<>>
    /\ UNCHANGED <<submits, held, ReadyBatch, out, CommitC, released, proposers, library, applyC,
                   confC, created, accepted>>

\* case raftbatches := <-c.CommitC
TakeBatch ==
    /\ pc = "select"
    /\ CommitC # <<>>
    /\ CommitC' = Tail(CommitC)
    /\ c' = StopTimer(c)
    /\ pc' = "commit" /\ arg' = <<Batch(Head(CommitC))>>
    /\ UNCHANGED <<submits, RaftEnvMsgC, held, ReadyBatch, out, released, proposers, library,
                   applyC, confC, created, accepted>>

\* an iteration of propose: without a block creator, or with propC full, it panics;
\* after the last one the submit case looks whether it has to pause
Propose ==
    LET block == [num |-> c.bc + 1, txs |-> Head(arg).txs, config |-> Head(arg).config]
        d == [c EXCEPT !.bc = @ + 1, !.blockInflight = @ + 1,
                       !.configInflight = @ \/ block.config # "no"]
    IN  /\ pc \in {"commit", "submit"}
        /\ \/ /\ c.bc = NoCreator
              /\ c' = [c EXCEPT !.panic = "nil"]
              /\ pc' = "panic" /\ arg' = <<>>
              /\ UNCHANGED <<proposers, created>>
           \/ /\ c.bc # NoCreator /\ Len(PropC) >= MaxInflightBlocks
              /\ c' = [c EXCEPT !.panic = "limit"]
              /\ pc' = "panic" /\ arg' = <<>>
              /\ created' = Append(created, block)
              /\ UNCHANGED proposers
           \/ /\ c.bc # NoCreator /\ Len(PropC) < MaxInflightBlocks
              /\ proposers' = [proposers EXCEPT ![Leadership].ch = Append(@, block)]
              /\ created' = Append(created, block)
              /\ arg' = Tail(arg)
              /\ \/ /\ Len(arg) = 1
                    /\ pc' = "select"
                    /\ c' = IF pc = "submit" THEN Pause(d) ELSE d
                 \/ /\ Len(arg) > 1
                    /\ pc' = pc
                    /\ c' = d
        /\ UNCHANGED <<submits, cutter, library, applyC, confC, accepted>>

\* (mutant) cuts here instead of asking the cutter, ahead of the batches on CommitC
TimerCaseMutant ==
    /\ pc = "select"
    /\ c.timer = "fired"
    /\ ReadyBatch # <<>>
    /\ c' = StopTimer(c)
    /\ pc' = "commit" /\ arg' = <<Batch(ReadyBatch)>>
    /\ ReadyBatch' = <<>>
    /\ UNCHANGED <<submits, RaftEnvMsgC, held, out, CommitC, released, proposers, library, applyC,
                   confC, created, accepted>>

\* case <-timer.C()
TimerCase ==
    /\ pc = "select"
    /\ c.timer = "fired"
    /\ c' = StopTimer(c)
    /\ pc' = "send" /\ arg' = <<Tick>>
    /\ UNCHANGED <<submits, cutter, proposers, library, applyC, confC, created, accepted>>

BecomeLeader(d) ==
    [d EXCEPT !.leads = TRUE, !.blockInflight = 0, !.justElected = TRUE, !.accepting = FALSE,
              !.configInflight = @ \/ d.confChange]

\* (the Cut and cancelProp are in Apply)
BecomeFollower(d) ==
    [StopTimer(d) EXCEPT !.leads = FALSE, !.blockInflight = 0, !.accepting = TRUE,
                         !.bc = NoCreator]

\* (mutant) counts down on followers too
WriteBlockMutant(d, b) ==
    IF b.num = Len(d.ledger) + 1
    THEN [d EXCEPT !.blockInflight = @ - 1, !.ledger = Append(@, b)] ELSE d

\* (mutant) leaves configInflight to the ConfChange of a plain configuration, too
WriteConfigBlockMutant(d, b) == [d EXCEPT !.confChange = @ \/ (b.config = "member")]

\* a change of the consenter set keeps configInflight until its ConfChange is applied
WriteConfigBlock(d, b) ==
    [d EXCEPT !.configInflight = (b.config = "member"),
              !.confChange = @ \/ (b.config = "member")]

WriteBlock(d, b) ==
    LET last == Len(d.ledger)
        e == [d EXCEPT !.blockInflight = IF @ > 0 THEN @ - 1 ELSE @,
                       !.ledger = Append(@, b)]
    IN  CASE b.num > last + 1 -> [d EXCEPT !.panic = "gap"]
          [] b.num < last + 1 -> d
          [] b.num = last + 1 ->
               IF b.config = "no" THEN e ELSE WriteConfigBlock(e, b)

\* apply, for one entry
ApplyEntry(d, e) ==
    CASE e.kind = "empty" -> d
      [] e.kind = "block" -> WriteBlock(d, e.block)
      [] e.kind = "conf"  -> IF d.confChange
                             THEN [d EXCEPT !.confChange = FALSE, !.configInflight = FALSE]
                             ELSE d

\* (mutant) does not wait for the entries of earlier leaders
ServeMutant(d, lastIndexApplied) ==
    IF d.justElected
    THEN [d EXCEPT !.bc = Len(d.ledger), !.accepting = TRUE, !.justElected = FALSE] ELSE d

\* the end of the applyC case: when the log is applied, a new leader makes its block
\* creator and starts to serve
Serve(d, lastIndexApplied) ==
    CASE d.justElected /\ (~lastIndexApplied \/ d.configInflight) -> d
      [] d.justElected /\ lastIndexApplied /\ ~d.configInflight ->
           [d EXCEPT !.bc = Len(d.ledger), !.accepting = TRUE, !.justElected = FALSE]
      [] ~d.justElected /\ d.configInflight -> [d EXCEPT !.accepting = FALSE]
      [] ~d.justElected /\ ~d.configInflight ->
           IF d.blockInflight < MaxInflightBlocks THEN [d EXCEPT !.accepting = TRUE] ELSE d

NewProposer == [ch |-> <<>>, hand |-> <<>>, cancelled |-> FALSE, quit |-> FALSE]

\* case app := <-c.applyC
Apply ==
    LET app == Head(applyC)
        elected == app.lead /\ ~c.leads
        deposed == ~app.lead /\ c.leads
        c1 == CASE elected -> BecomeLeader(c)
                [] deposed -> BecomeFollower(c)
                [] ~elected /\ ~deposed -> c
        c2 == IF app.entry THEN ApplyEntry(c1, Head(log)) ELSE c1
        rest == IF app.entry THEN Tail(log) ELSE log
        confChanges == app.entry /\ c2.ledger # c1.ledger /\ Head(log).block.config = "member"
    IN  /\ pc = "select"
        /\ applyC # <<>>
        /\ applyC' = Tail(applyC)
        /\ log' = rest
        /\ c' = IF c2.panic = "no" THEN Serve(c2, rest = <<>>) ELSE c2
        /\ pc' = IF c2.panic = "no" THEN "select" ELSE "panic"
        /\ proposers' = CASE elected -> Append(proposers, NewProposer)
                          [] deposed -> [proposers EXCEPT ![Leadership].cancelled = TRUE]
                          [] ~elected /\ ~deposed -> proposers
        /\ ReadyBatch' = AfterCut(deposed, ReadyBatch)
        /\ confC' = (confC \/ (elected /\ c.confChange) \/ confChanges)
        /\ UNCHANGED <<submits, arg, RaftEnvMsgC, held, out, CommitC, released, raft, sent, elections,
                       created, accepted>>

---------------------------------------------------------------------------
(* The cutter, the timer and the proposers                                 *)

Orders(S) == UNION {{s \in [1..n -> S] : \A i, j \in 1..n : s[i] = s[j] => i = j}
                    : n \in 0..Cardinality(S)}

\* (mutant) off by one
FullMutant(ready) == Len(ready) > MaxMessageCount

\* the size test of OrderedRaftForBC
Full(ready) == Len(ready) >= MaxMessageCount

\* ProcessEnvMsg takes a message, and cuts when the batch is full or the timer fired
ProcessEnvMsg ==
    /\ pc # "panic" /\ (pc = "cut" => Racing)
    /\ out = <<>>
    /\ RaftEnvMsgC # <<>>
    /\ RaftEnvMsgC' = Tail(RaftEnvMsgC)
    /\ LET m == Head(RaftEnvMsgC)
       IN  \/ /\ m # Tick
              /\ \E r \in Orders(held \cup {m}) :
                   LET ready == ReadyBatch \o r
                   IN  /\ held' = (held \cup {m}) \ {r[i] : i \in DOMAIN r}
                       /\ released' = released \o r
                       /\ ReadyBatch' = AfterCut(Full(ready), ready)
                       /\ out' = IF Full(ready) THEN <<ready>> ELSE <<>>
           \/ /\ m = Tick
              /\ ReadyBatch' = AfterCut(TRUE, ReadyBatch)
              /\ out' = IF ReadyBatch = <<>> THEN <<>> ELSE <<ReadyBatch>>
              /\ UNCHANGED <<held, released>>
    /\ UNCHANGED <<submits, c, pc, arg, CommitC, proposers, library, applyC, confC, created, accepted>>

SendBatches ==
    /\ pc # "panic"
    /\ out # <<>>
    /\ Len(CommitC) < CommitCap
    /\ CommitC' = CommitC \o out
    /\ out' = <<>>
    /\ UNCHANGED <<submits, c, pc, arg, RaftEnvMsgC, held, ReadyBatch, released, proposers, library,
                   applyC, confC, created, accepted>>

\* BatchTimeout passes
TimerFires ==
    /\ pc # "panic"
    /\ c.timer = "ticking"
    /\ c' = [c EXCEPT !.timer = "fired"]
    /\ UNCHANGED <<submits, pc, arg, cutter, proposers, library, applyC, confC, created, accepted>>

\* case b := <-ch, which a cancelled proposer may choose as well
TakeBlock(i) ==
    LET p == proposers[i]
    IN  /\ ~p.quit /\ p.hand = <<>> /\ p.ch # <<>>
        /\ proposers' = [proposers EXCEPT ![i].hand = <<Head(p.ch)>>, ![i].ch = Tail(p.ch)]
        /\ UNCHANGED log

\* Node.Propose: the leader appends, a follower drops the block and the proposer ends;
\* it blocks while no leader is known
ProposeBlock(i) ==
    LET p == proposers[i]
    IN  /\ ~p.quit /\ p.hand # <<>>
        /\ \/ /\ raft = "leader"
              /\ log' = Append(log, BlockEntry(p.hand[1]))
              /\ proposers' = [proposers EXCEPT ![i].hand = <<>>]
           \/ /\ raft = "follower"
              /\ proposers' = [proposers EXCEPT ![i].quit = TRUE]
              /\ log' = log

\* case <-ctx.Done(), in the loop or in Propose
QuitProposing(i) ==
    /\ ~proposers[i].quit /\ proposers[i].cancelled
    /\ proposers' = [proposers EXCEPT ![i].quit = TRUE]
    /\ log' = log

Proposer ==
    /\ pc # "panic"
    /\ \E i \in DOMAIN proposers : TakeBlock(i) \/ ProposeBlock(i) \/ QuitProposing(i)
    /\ UNCHANGED <<submits, c, pc, arg, cutter, raft, sent, elections, applyC, confC, created, accepted>>

\* ProposeConfChange: raft lets one change into the log at a time, and puts an empty
\* entry in the place of another one; a follower drops it
ProposeConfChange ==
    /\ pc # "panic"
    /\ confC
    /\ raft # "none"
    /\ confC' = FALSE
    /\ log' = CASE raft = "follower" -> log
                [] raft = "leader" /\ \E i \in DOMAIN log : log[i].kind = "conf" -> Append(log, EmptyEntry)
                [] raft = "leader" /\ \A i \in DOMAIN log : log[i].kind # "conf" -> Append(log, ConfEntry)
    /\ UNCHANGED <<submits, c, pc, arg, cutter, proposers, raft, sent, elections, applyC, created, accepted>>

---------------------------------------------------------------------------
(* raft, as this node sees it                                              *)

\* the entries that node.run has handed to applyC are committed
Handed == Cardinality({i \in DOMAIN applyC : applyC[i].entry})

BlocksIn(entries) == SelectSeq(entries, LAMBDA e : e.kind = "block")

\* the height of the ledger when the entries are applied, those below it being skipped
HeightAfter(entries) ==
    Height + Cardinality({e.block.num : e \in {entries[i] : i \in
                             {j \in DOMAIN entries : /\ entries[j].kind = "block"
                                                     /\ entries[j].block.num > Height}}})

\* win an election; the votes are asked for in a Ready, which reports that this node
\* does not lead
Elect ==
    /\ raft # "leader" /\ elections < MaxElections
    /\ ~sent
    /\ Prompt => ~c.leads /\ \A i \in DOMAIN proposers : proposers[i].quit
    /\ raft' = "leader"
    /\ elections' = elections + 1
    /\ log' = Append(log, EmptyEntry)

\* step down for want of a quorum
StepDown ==
    /\ raft = "leader"
    /\ raft' = "none"
    /\ UNCHANGED <<log, elections>>

\* what is left of the log when another leader replaces entries that are not committed
Kept == {SubSeq(log, 1, n) : n \in Handed..Len(log)}

\* another leader is known; its first entry, an empty one, may have arrived
Follow ==
    /\ raft # "follower"
    /\ raft' = "follower"
    /\ \/ log' = log
       \/ \E kept \in Kept : log' = Append(kept, EmptyEntry)
    /\ UNCHANGED elections

\* more entries of the other leader: a block, or the change of the consenter set that is due
Foreign ==
    /\ raft = "follower"
    /\ \E kept \in Kept :
         LET next == HeightAfter(kept) + 1
         IN  \/ /\ next <= MaxForeign
                /\ log' = Append(kept, BlockEntry([num |-> next, txs |-> <<>>, config |-> "no"]))
             \/ /\ c.confChange /\ \A i \in DOMAIN kept : kept[i].kind # "conf"
                /\ log' = Append(kept, ConfEntry)
    /\ UNCHANGED <<raft, elections>>

Raft ==
    /\ pc # "panic"
    /\ Elect \/ StepDown \/ Follow \/ Foreign
    /\ UNCHANGED <<submits, c, pc, arg, cutter, proposers, sent, applyC, confC, created, accepted>>

\* node.run: a Ready with a change of leader, a committed entry, or both
Ready ==
    /\ pc # "panic"
    /\ Len(applyC) < ApplyCap
    /\ \E entry \in BOOLEAN :
         /\ entry \/ sent # (raft = "leader")
         /\ entry => raft # "none" /\ Handed < Len(log)
         /\ applyC' = Append(applyC, [lead |-> raft = "leader", entry |-> entry])
    /\ sent' = (raft = "leader")
    /\ UNCHANGED <<submits, c, pc, arg, cutter, proposers, raft, log, elections, confC, created, accepted>>

---------------------------------------------------------------------------
\* serveRequest waits in its select, or the process has ended.  (A serveRequest that
\* cannot send to RaftEnvMsgC is neither.)
Idle ==
    /\ pc \in {"select", "panic"}
    /\ UNCHANGED vars

Init ==
    /\ submits \in Submissions
    /\ c = [leads |-> FALSE, accepting |-> TRUE, timer |-> "stopped", bc |-> NoCreator,
            blockInflight |-> 0, justElected |-> FALSE, configInflight |-> FALSE,
            confChange |-> FALSE, ledger |-> <<>>, panic |-> "no"]
    /\ pc = "select" /\ arg = <<>>
    /\ RaftEnvMsgC = <<>> /\ held = {} /\ ReadyBatch = <<>> /\ out = <<>> /\ CommitC = <<>>
    /\ proposers = <<>>
    /\ raft = "none" /\ log = <<>> /\ sent = FALSE /\ elections = 0
    /\ applyC = <<>> /\ confC = FALSE
    /\ released = <<>> /\ created = <<>> /\ accepted = {}

Next ==
    \/ Submit \/ ResetBatch \/ SendEnvMsg \/ TakeBatch \/ Propose \/ TimerCase \/ Apply
    \/ ProcessEnvMsg \/ SendBatches \/ TimerFires \/ Proposer \/ ProposeConfChange
    \/ Raft \/ Ready \/ Idle

Spec == Init /\ [][Next]_vars

\* The scheduler runs every goroutine that can move, the select of serveRequest picks
\* among the ready cases at random, BatchTimeout passes, and raft commits what a leader
\* appends.  Nothing is assumed of clients and of elections.
FairSpec ==
    /\ Spec
    /\ SF_vars(TakeBatch) /\ SF_vars(Apply) /\ SF_vars(TimerCase)
    /\ WF_vars(ResetBatch \/ Propose) /\ WF_vars(SendEnvMsg)
    /\ WF_vars(ProcessEnvMsg) /\ WF_vars(SendBatches)
    /\ WF_vars(TimerFires) /\ WF_vars(Proposer) /\ WF_vars(Ready)

---------------------------------------------------------------------------
Blocks == [num : Nat \ {0}, txs : Seq(Txs \cup Configs), config : {"no", "plain", "member"}]
Entries == [kind : {"empty", "conf"}] \cup [kind : {"block"}, block : Blocks]

Batches == [txs : Seq(Txs \cup Configs), config : {"no", "plain", "member"}]
ChainState ==
    [leads : BOOLEAN, accepting : BOOLEAN, timer : {"stopped", "ticking", "fired"},
     bc : Nat \cup {NoCreator}, blockInflight : Nat, justElected : BOOLEAN,
     configInflight : BOOLEAN, confChange : BOOLEAN, ledger : Seq(Blocks),
     panic : {"no", "nil", "limit", "gap"}]
Proposers == [ch : Seq(Blocks), hand : Seq(Blocks), cancelled : BOOLEAN, quit : BOOLEAN]

\* Type invariant of the chain, its channels and the goroutines.
ChainTypeOK ==
    /\ submits \subseteq Txs \cup Configs
    /\ c \in ChainState
    /\ pc \in {"select", "send", "cut", "commit", "submit", "panic"}
    /\ pc = "send" => arg \in Seq(Txs \cup {Tick}) /\ Len(arg) = 1
    /\ pc \in {"cut", "commit", "submit"} => arg \in Seq(Batches) /\ arg # <<>>
    /\ pc \in {"select", "panic"} => arg = <<>>
    /\ RaftEnvMsgC \in Seq(Txs \cup {Tick}) /\ Len(RaftEnvMsgC) <= EnvMsgCap
    /\ held \subseteq Txs
    /\ ReadyBatch \in Seq(Txs) /\ released \in Seq(Txs)
    /\ out \in Seq(Seq(Txs)) /\ Len(out) <= 1
    /\ CommitC \in Seq(Seq(Txs)) /\ Len(CommitC) <= CommitCap
    /\ proposers \in Seq(Proposers)
    /\ \A i \in DOMAIN proposers : /\ Len(proposers[i].ch) <= MaxInflightBlocks
                                   /\ Len(proposers[i].hand) <= 1
    /\ raft \in {"leader", "follower", "none"} /\ sent \in BOOLEAN /\ elections \in 0..MaxElections
    /\ log \in Seq(Entries)
    /\ applyC \in Seq([lead : BOOLEAN, entry : BOOLEAN]) /\ Len(applyC) <= ApplyCap
    /\ confC \in BOOLEAN
    /\ created \in Seq(Blocks)
    /\ accepted \subseteq Txs \cup Configs

\* An envelope is put into at most one block, whatever the order in which batches,
\* configurations, the timer and changes of leadership reach serveRequest.
AtMostOneBlock ==
    \A i, j \in DOMAIN created :
        \A x \in DOMAIN created[i].txs, y \in DOMAIN created[j].txs :
            created[i].txs[x] = created[j].txs[y] => i = j /\ x = y

TxsIn(blocks) == UNION {Range(blocks[i].txs) : i \in DOMAIN blocks}
Concat(batches) == UNION {Range(batches[i]) : i \in DOMAIN batches}
BlocksOf(entries) == [i \in DOMAIN BlocksIn(entries) |-> BlocksIn(entries)[i].block]

\* the node leads, knows it, serves, and its leadership is not about to end
Steady ==
    /\ pc # "panic"
    /\ raft = "leader" /\ c.leads /\ ~c.justElected
    /\ \A i \in DOMAIN applyC : applyC[i].lead

\* the blocks of this leadership that are not written yet, in the order they were made
InFlight == BlocksOf(log) \o proposers[Leadership].hand \o PropC

\* A serving leader knows how many of its blocks are in flight, and they are numbered
\* without a gap from its last block to its block creator: what the limit of in-flight
\* blocks, and the number of the next block, are computed from.
InflightCounts ==
    Steady => /\ c.blockInflight = Len(InFlight)
              /\ c.bc = Height + Len(InFlight)
              /\ \A i \in DOMAIN InFlight : InFlight[i].num = Height + i

\* As long as the node has led without interruption, nothing that it ordered is lost:
\* an ordered envelope is on its way to the graph, in it, or released; and a released
\* one is ready, in a batch, or in a block that is written or in flight.
NothingLost ==
    (Steady /\ elections = 1) =>
        /\ accepted \cap Txs =
             ((Range(RaftEnvMsgC) \cup Range(released) \cup held) \ {Tick})
             \cup (IF pc = "send" THEN Range(arg) \ {Tick} ELSE {})
        /\ Range(released) \cup (accepted \cap Configs) =
             Range(ReadyBatch) \cup Concat(out) \cup Concat(CommitC)
             \cup (IF pc \in {"cut", "commit", "submit"} THEN TxsIn(arg) ELSE {})
             \cup TxsIn(InFlight) \cup TxsIn(c.ledger)

Pos(t) == CHOOSE i \in DOMAIN released : released[i] = t

\* The blocks hold the transactions in the order in which the graph released them,
\* across leaderships too, as long as no configuration is ordered: a transaction is never
\* in an earlier block than one it read from.
ReleaseOrder ==
    accepted \cap Configs = {} =>
    \A i, j \in DOMAIN created :
        \A x \in DOMAIN created[i].txs, y \in DOMAIN created[j].txs :
            (i < j \/ (i = j /\ x < y)) => Pos(created[i].txs[x]) < Pos(created[j].txs[y])

\* A serving leader that does not take messages has a reason that will pass: a
\* configuration, or as many blocks as are allowed, are in flight.
PausedForAReason ==
    (Steady /\ ~c.accepting) =>
        \/ Len(InFlight) >= MaxInflightBlocks
        \/ c.confChange
        \/ \E i \in DOMAIN InFlight : InFlight[i].config # "no"

\* While the node leads, a transaction that is released gets into a block: serveRequest
\* and the cutter never wait for each other, and the batch timer runs while
\* transactions are ready ("the amount of time to wait before creating a batch").
Delivered ==
    <>[](raft = "leader" /\ pc # "panic") =>
        \A t \in Txs : (t \in Range(released)) ~> (t \in TxsIn(c.ledger))

\* "We need to make sure applyC can still be consumed properly": serveRequest never
\* waits for the cutter while the cutter waits for serveRequest.
NoCircularWait ==
    ~(/\ pc = "send" /\ Len(RaftEnvMsgC) = EnvMsgCap
      /\ out # <<>> /\ Len(CommitC) = CommitCap)

\* "limit of in-flight blocks does not properly take effect or block is proposed by
\* follower" never happens: propose has a block creator and room in propC.
ProposeSucceeds == c.panic \notin {"limit", "nil"}

\* "Got block [%d], expect block [%d]": blocks come out of raft without a gap.
NoGap == c.panic # "gap"
=============================================================================
