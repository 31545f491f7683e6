---- MODULE Election ----
(***************************************************************************)
(* How the peers of an organization elect the one that pulls blocks from   *)
(* the ordering service, and how its election starts and stops the block   *)
(* provider.  Each peer runs two goroutines, run() and handleMessages(),   *)
(* and one per block provider, whose finalizer yields the leadership.      *)
(* Time is counted in units of LeaderAliveThreshold / AliveTime; it passes *)
(* only when no goroutine has an instant step to take, and, once the       *)
(* network is stable, when no message is on its way.                       *)
(***************************************************************************)
EXTENDS Naturals, FiniteSets

CONSTANTS Peers,          \* ids, ordered as bytes.Compare orders PKI ids
          ElectionTime,   \* LeaderElectionDuration
          AliveTime,      \* LeaderAliveThreshold
          Prompt,         \* a block provider that was stopped returns before time passes
          MaxFaults       \* lost and late messages, crashes, providers that give up: in all

ASSUME ElectionAssumption ==
  /\ Peers \subseteq Nat /\ IsFiniteSet(Peers)
  /\ ElectionTime \in Nat \ {0}
  /\ AliveTime \in Nat /\ AliveTime > 1
  /\ Prompt \in BOOLEAN /\ MaxFaults \in Nat

VARIABLES s,       \* of each peer: leaderElectionSvcImpl, its run() and deliverClients[channel]
          net,     \* leadership messages on their way
          stable,  \* from here on messages arrive in time and no peer crashes
          faults

vars == <<s, net, stable, faults>>

Sleeping == {"collect", "lead", "follow"}
Instant == {"run", "be", "callback", "exists", "after"}

\* a service that NewLeaderElectionService has just made
Fresh == [pc |-> "start", timer |-> 0, isLeader |-> FALSE, leaderExists |-> FALSE,
          proposals |-> {}, yield |-> FALSE, client |-> "none", finalizers |-> 0, stray |-> FALSE]
Down == [Fresh EXCEPT !.pc = "down"]

Init == /\ s = [p \in Peers |-> Fresh]
        /\ net = {}
        /\ stable = FALSE
        /\ faults = 0

Up == {p \in Peers : s[p].pc # "down"}
Gossip(p, isDeclaration) ==
  net' = net \cup {[to |-> q, from |-> p, decl |-> isDeclaration] : q \in Up \ {p}}

Faulty == faults < MaxFaults /\ faults' = faults + 1

\* StartDeliverForChannel: an error, and nothing else, when a provider is there already
StartDeliver(r) ==
  IF r.client = "none" THEN [r EXCEPT !.client = "live", !.stray = ~r.isLeader] ELSE r

\* StopDeliverForChannel: a provider that still runs is made to return, to its finalizer
StopDeliver(r) ==
  [r EXCEPT !.client = "none", !.stray = FALSE,
            !.finalizers = IF r.client = "live" THEN @ + 1 ELSE @]

\* (mutant) forgets the flag
StopBeingLeaderMutant(r) == StopDeliver(r)

StopBeingLeader(r) == StopDeliver([r EXCEPT !.isLeader = FALSE])

-----------------------------------------------------------------------------
\* run()

\* start: waitForMembershipStabilization returns
Start(p) ==
  /\ s[p].pc = "start"
  /\ s' = [s EXCEPT ![p].pc = "run"]
  /\ UNCHANGED <<net, stable, faults>>

\* the top of the loop; a peer that knows no leader and does not yield proposes itself
Run(p) ==
  /\ s[p].pc = "run"
  /\ IF s[p].leaderExists \/ s[p].yield
     THEN s' = [s EXCEPT ![p].pc = "after"] /\ UNCHANGED net
     ELSE s' = [s EXCEPT ![p].pc = "collect", ![p].timer = ElectionTime] /\ Gossip(p, FALSE)
  /\ UNCHANGED <<stable, faults>>

\* (mutant) forgets to look for a better candidate
CollectMutant(p) ==
  /\ s[p].pc = "collect" /\ s[p].timer = 0
  /\ s' = [s EXCEPT ![p].pc = IF s[p].leaderExists \/ s[p].yield THEN "after" ELSE "be"]
  /\ UNCHANGED <<net, stable, faults>>

\* leaderElection after waitForInterrupt
Collect(p) ==
  /\ s[p].pc = "collect" /\ s[p].timer = 0
  /\ s' = [s EXCEPT ![p].pc = IF \/ s[p].leaderExists \/ s[p].yield
                                 \/ \E q \in s[p].proposals : q < p
                              THEN "after" ELSE "be"]
  /\ UNCHANGED <<net, stable, faults>>

\* beLeader, its two statements, and the one that follows it; le.Lock is not held
BeLeader(p) ==
  /\ s[p].pc = "be"
  /\ s' = [s EXCEPT ![p].isLeader = TRUE, ![p].pc = "callback"]
  /\ UNCHANGED <<net, stable, faults>>

Callback(p) ==
  /\ s[p].pc = "callback"
  /\ s' = [s EXCEPT ![p] = StartDeliver([@ EXCEPT !.pc = "exists"])]
  /\ UNCHANGED <<net, stable, faults>>

LeaderExists(p) ==
  /\ s[p].pc = "exists"
  /\ s' = [s EXCEPT ![p].leaderExists = TRUE, ![p].pc = "after"]
  /\ UNCHANGED <<net, stable, faults>>

\* the rest of the loop: stopYielding, then leader() or follower() up to its wait
After(p) ==
  LET r == [s[p] EXCEPT !.yield = @ /\ ~s[p].leaderExists] IN
  /\ s[p].pc = "after"
  /\ IF r.isLeader
     THEN /\ s' = [s EXCEPT ![p] = [r EXCEPT !.pc = "lead", !.timer = AliveTime \div 2]]
          /\ Gossip(p, TRUE)
     ELSE /\ s' = [s EXCEPT ![p] = [r EXCEPT !.pc = "follow", !.timer = AliveTime,
                                             !.proposals = {}, !.leaderExists = FALSE]]
          /\ UNCHANGED net
  /\ UNCHANGED <<stable, faults>>

\* leader() and follower() after the wait
Wake(p) ==
  /\ s[p].pc \in {"lead", "follow"} /\ s[p].timer = 0
  /\ s' = [s EXCEPT ![p].pc = "run"]
  /\ UNCHANGED <<net, stable, faults>>

-----------------------------------------------------------------------------
\* handleMessages()

\* waitForInterrupt returns when a declaration comes in; follower() waits its time out
Interrupted(r) == IF r.pc \in {"collect", "lead"} THEN [r EXCEPT !.timer = 0] ELSE r

\* (mutant) a leader does not give way to one with a lower id
HandleMutant(r, m) ==
  IF m.decl THEN Interrupted([r EXCEPT !.leaderExists = TRUE])
  ELSE [r EXCEPT !.proposals = @ \cup {m.from}]

\* handleMessage
Handle(r, m) ==
  IF ~m.decl THEN [r EXCEPT !.proposals = @ \cup {m.from}]
  ELSE LET d == Interrupted([r EXCEPT !.leaderExists = TRUE]) IN
       IF m.from < m.to /\ r.isLeader THEN StopBeingLeader(d) ELSE d

Receive(m) ==
  /\ m \in net
  /\ net' = net \ {m}
  /\ s' = [s EXCEPT ![m.to] = Handle(@, m)]
  /\ UNCHANGED <<stable, faults>>

-----------------------------------------------------------------------------
\* The goroutine of a block provider, and the timer of a yield

\* DeliverBlocks returns by itself: the ordering service was out of reach for too long
ProviderEnds(p) ==
  /\ s[p].client = "live" /\ Faulty
  /\ s' = [s EXCEPT ![p].client = "ended", ![p].finalizers = @ + 1]
  /\ UNCHANGED <<net, stable>>

\* (mutant) the finalizer does nothing
YieldMutant(p) ==
  /\ s[p].finalizers > 0
  /\ s' = [s EXCEPT ![p].finalizers = @ - 1]
  /\ UNCHANGED <<net, stable, faults>>

\* the finalizer
Yield(p) ==
  LET r == [s[p] EXCEPT !.finalizers = @ - 1] IN
  /\ s[p].finalizers > 0
  /\ s' = [s EXCEPT ![p] =
             IF r.isLeader /\ ~r.yield
             THEN StopBeingLeader([r EXCEPT !.yield = TRUE, !.leaderExists = FALSE])
             ELSE r]
  /\ UNCHANGED <<net, stable, faults>>

\* six times LeaderAliveThreshold after the yield
YieldExpires(p) ==
  /\ s[p].yield
  /\ s' = [s EXCEPT ![p].yield = FALSE]
  /\ UNCHANGED <<net, stable, faults>>

-----------------------------------------------------------------------------
\* Time, and what goes wrong before the network is stable

\* a message is lost, or its sender is not in the receiver's view
Lose(m) ==
  /\ m \in net /\ ~stable /\ Faulty
  /\ net' = net \ {m}
  /\ UNCHANGED <<s, stable>>

Crash(p) ==
  /\ p \in Up /\ Up # {p} /\ ~stable /\ Faulty
  /\ s' = [s EXCEPT ![p] = Down]
  /\ net' = {m \in net : m.to # p}
  /\ UNCHANGED stable

Restart(p) ==
  /\ s[p].pc = "down"
  /\ s' = [s EXCEPT ![p] = Fresh]
  /\ UNCHANGED <<net, stable, faults>>

Stabilise == ~stable /\ stable' = TRUE /\ UNCHANGED <<s, net, faults>>

Tick ==
  /\ \A p \in Peers : /\ s[p].pc \notin Instant
                      /\ s[p].pc \in Sleeping => s[p].timer > 0
                      /\ Prompt => s[p].finalizers = 0
  /\ IF net = {} THEN UNCHANGED faults ELSE ~stable /\ Faulty
  /\ s' = [p \in Peers |-> IF s[p].pc \in Sleeping THEN [s[p] EXCEPT !.timer = @ - 1] ELSE s[p]]
  /\ UNCHANGED <<net, stable>>

RunStep(p) == Start(p) \/ Run(p) \/ Collect(p) \/ BeLeader(p) \/ Callback(p)
              \/ LeaderExists(p) \/ After(p) \/ Wake(p)

Next == \/ \E p \in Peers : \/ RunStep(p) \/ ProviderEnds(p) \/ Yield(p) \/ YieldExpires(p)
                            \/ Crash(p) \/ Restart(p)
        \/ \E m \in net : Receive(m) \/ Lose(m)
        \/ Stabilise \/ Tick

Spec == Init /\ [][Next]_vars

\* The goroutines run, messages that are not lost arrive, time passes, the network
\* becomes stable.
FairSpec == /\ Spec
            /\ \A p \in Peers : /\ WF_vars(RunStep(p)) /\ WF_vars(Yield(p))
                                /\ WF_vars(YieldExpires(p))
            /\ WF_vars(\E m \in net : Receive(m))
            /\ WF_vars(Tick)
            /\ WF_vars(Stabilise)

-----------------------------------------------------------------------------
Leaders == {p \in Peers : s[p].isLeader}

\* The fields of the services and the messages have their types, and a service that
\* yields, in Yield or since, is not the leader.
ElectionTypeOK ==
  /\ s \in [Peers -> [pc : Sleeping \cup Instant \cup {"start", "down"},
                      timer : 0 .. ElectionTime + AliveTime, isLeader : BOOLEAN,
                      leaderExists : BOOLEAN, proposals : SUBSET Peers, yield : BOOLEAN,
                      client : {"none", "live", "ended"}, finalizers : Nat, stray : BOOLEAN]]
  /\ net \subseteq [to : Peers, from : Peers, decl : BOOLEAN]
  /\ stable \in BOOLEAN /\ faults \in 0 .. MaxFaults
  /\ \A p \in Peers : s[p].yield => ~s[p].isLeader

\* As long as nothing goes wrong no two peers lead at once, however the peers'
\* elections overlap: leaderElection gives up on a declaration and on a lower proposal.
AtMostOneLeader == faults = 0 => Cardinality(Leaders) <= 1

\* Whatever went wrong before, once messages arrive in time exactly one peer is left
\* as the leader, for good: leaders with a higher id give way, and one that yields is
\* replaced.
OneLeader == <>[](Cardinality(Leaders) = 1)

\* A leader whose provider has given up does not stay the leader, unless the provider
\* was started by a callback that a step-down had overtaken.
LeaderDelivers ==
  \A p \in Peers : (s[p].isLeader /\ s[p].client # "live") ~>
                     (~s[p].isLeader \/ s[p].client = "live" \/ s[p].stray)

\* "In a steady state with no network partitions, there will be only one active leader
\* connecting to the ordering service" (docs/source/gossip.rst): in the end one peer,
\* and one only, runs a block provider.
OnePuller == <>[](\E p \in Peers : {q \in Peers : s[q].client = "live"} = {p})
====
