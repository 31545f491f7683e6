---- MODULE ElectionProofs ----
(***************************************************************************)
(* The leader election of an organization's peers: types for every run,    *)
(* and, as long as nothing goes wrong, at most one leader, for every set   *)
(* of peers and every choice of the two durations.                         *)
(***************************************************************************)
EXTENDS Election, Integers, TLAPS

\* what run() and the callbacks keep of isLeader, leaderExists and yield
Consistent(r) ==
  /\ r.yield => ~r.isLeader
  /\ r.isLeader => r.leaderExists \/ r.pc \in {"callback", "exists"}
  /\ r.pc \in {"collect", "be"} => ~r.isLeader
  /\ r.pc = "be" => ~r.yield

\* a wait is never longer than the duration it was started with
Timed(r) ==
  /\ r.pc = "collect" => r.timer <= ElectionTime
  /\ r.pc = "follow" => r.timer <= AliveTime
  /\ r.pc = "lead" => r.timer < AliveTime

TypeInv ==
  /\ ElectionTypeOK
  /\ \A m \in net : m.from # m.to
  /\ \A p \in Peers : Consistent(s[p]) /\ Timed(s[p])

-----------------------------------------------------------------------------
\* p is the leader, or has decided that it is
Elected(p) == s[p].isLeader \/ s[p].pc \in {"be", "callback", "exists"}

Proposal(r, p) == [to |-> p, from |-> r, decl |-> FALSE] \in net
Declaration(q, p) == [to |-> p, from |-> q, decl |-> TRUE] \in net

\* nobody has crashed, stepped down or yielded
Calm(r) == r.pc # "down" /\ r.finalizers = 0 /\ ~r.yield

Seeking == {"start", "run", "collect", "follow", "after"}

\* the least time until the service can decide to be the leader
Due(r) == CASE r.pc = "collect" -> r.timer
            [] r.pc = "follow" -> r.timer + ElectionTime
            [] r.pc = "after" -> AliveTime + ElectionTime
            [] OTHER -> ElectionTime

\* p hears of the candidate r before it can decide
Ahead(p, r) == r \in s[p].proposals \/ Proposal(r, p) \/ Due(s[p]) > s[r].timer

\* nobody is elected: the proposal of a candidate arrives before time passes
Contest ==
  /\ \A m \in net : ~m.decl /\ s[m.from].pc = "collect" /\ s[m.from].timer = ElectionTime
  /\ \A p \in Peers : s[p].pc \in Seeking /\ ~s[p].leaderExists
  /\ \A p, r \in Peers : p # r /\ s[r].pc = "collect" => Ahead(p, r)

Undecided == (\A p \in Peers : ~Elected(p)) => Contest

\* the declaration of q will reach p before time passes
Pending(q, p) == Declaration(q, p) \/ s[q].pc \notin Sleeping

\* p does not become the leader beside q
Safe(p, q) ==
  /\ s[p].pc \in Seeking /\ ~s[p].isLeader
  /\ s[p].pc \in {"start", "run"} => s[p].leaderExists \/ Pending(q, p)
  /\ s[p].pc = "collect" => \/ s[p].leaderExists
                            \/ \E r \in s[p].proposals : r < p
                            \/ s[p].timer > 0 /\ Pending(q, p)
  /\ s[p].pc = "follow" => \/ s[p].leaderExists \/ Pending(q, p)
                           \/ s[p].timer > s[q].timer

\* once q is elected, it alone declares, and it declares again before a follower gives up
Decided ==
  \A q \in Peers : Elected(q) =>
     /\ \A m \in net : m.decl => m.from = q
     /\ s[q].pc \in {"be", "callback", "exists", "after", "lead", "run"}
     /\ s[q].pc # "be" => s[q].isLeader
     /\ s[q].pc \in {"after", "lead", "run"} => s[q].leaderExists
     /\ \A p \in Peers \ {q} : Safe(p, q)

Leadership == (\A p \in Peers : Calm(s[p])) /\ Undecided /\ Decided

IInv == TypeInv /\ (faults = 0 => Leadership)

-----------------------------------------------------------------------------
PCs == Sleeping \cup Instant \cup {"start", "down"}
Times == 0 .. ElectionTime + AliveTime
Clients == {"none", "live", "ended"}

Services == [pc : PCs, timer : Times, isLeader : BOOLEAN, leaderExists : BOOLEAN,
             proposals : SUBSET Peers, yield : BOOLEAN, client : Clients, finalizers : Nat,
             stray : BOOLEAN]

LEMMA TimesOK ==
  /\ ElectionTime \in Times /\ AliveTime \in Times /\ 0 \in Times
  /\ AliveTime \div 2 \in Times /\ AliveTime \div 2 < AliveTime
  /\ ElectionTime > 0 /\ Times \subseteq Nat
  /\ \A n \in Times : n > 0 => n - 1 \in Times
BY ElectionAssumption DEF Times

LEMMA PCsOK == \A v \in {"run", "be", "callback", "exists", "after", "collect", "lead", "follow",
                          "start", "down"} : v \in PCs
BY DEF PCs, Sleeping, Instant

\* what TypeInv says of one service
ServiceOK(r) == r \in Services /\ Consistent(r) /\ Timed(r)

Messages == {m \in [to : Peers, from : Peers, decl : BOOLEAN] : m.from # m.to}

LEMMA TypeInvIs ==
  TypeInv <=> /\ s \in [Peers -> Services] /\ \A p \in Peers : ServiceOK(s[p])
              /\ net \subseteq Messages /\ stable \in BOOLEAN /\ faults \in 0 .. MaxFaults
BY DEF TypeInv, ElectionTypeOK, Services, PCs, Times, Clients, ServiceOK, Messages, Consistent

LEMMA TypeInvIsNext ==
  TypeInv' <=> /\ s' \in [Peers -> Services] /\ \A p \in Peers : ServiceOK(s'[p])
               /\ net' \subseteq Messages /\ stable' \in BOOLEAN /\ faults' \in 0 .. MaxFaults
BY DEF TypeInv, ElectionTypeOK, Services, PCs, Times, Clients, ServiceOK, Messages, Consistent

LEMMA FreshOK == ServiceOK(Fresh) /\ ServiceOK(Down)
<1>1. ServiceOK(Fresh)
  BY PCsOK, TimesOK DEF Fresh, ServiceOK, Services, Clients, Consistent, Timed
<1>2. Down \in Services /\ Down.pc = "down" /\ Down.yield = FALSE /\ Down.isLeader = FALSE
  BY <1>1, PCsOK, Zenon DEF Down, ServiceOK, Services, Fresh
<1>3. ServiceOK(Down)
  BY <1>2 DEF ServiceOK, Consistent, Timed
<1> QED BY <1>1, <1>3

\* a step of one service keeps the types when the service is what it should be after it
LEMMA OneService ==
  ASSUME TypeInv, NEW p \in Peers, NEW r, ServiceOK(r), s' = [s EXCEPT ![p] = r]
  PROVE  s' \in [Peers -> Services] /\ \A q \in Peers : ServiceOK(s'[q])
BY TypeInvIs DEF ServiceOK

LEMMA GossipOK ==
  ASSUME TypeInv, NEW p \in Peers, NEW d \in BOOLEAN, Gossip(p, d)
  PROVE  net' \subseteq Messages
BY TypeInvIs DEF Gossip, Messages, Up

LEMMA StopOK ==
  ASSUME NEW r \in Services
  PROVE  /\ StopBeingLeader(r) \in Services
         /\ ~StopBeingLeader(r).isLeader
         /\ StopBeingLeader(r).pc = r.pc /\ StopBeingLeader(r).timer = r.timer
         /\ StopBeingLeader(r).yield = r.yield
<1> DEFINE a == [r EXCEPT !.isLeader = FALSE]
           b == StopDeliver(a)
<1>1. /\ a \in Services /\ ~a.isLeader /\ a.pc = r.pc /\ a.timer = r.timer
      /\ a.yield = r.yield
  BY Zenon DEF Services
<1> HIDE DEF a
<1>2. \A f \in Nat : [a EXCEPT !.client = "none", !.stray = FALSE, !.finalizers = f] \in Services
  BY <1>1, Zenon DEF Services, Clients
<1>3. a.finalizers \in Nat /\ a.finalizers + 1 \in Nat
  BY <1>1 DEF Services
<1>4. b \in Services
  BY <1>2, <1>3, Zenon DEF StopDeliver
<1>5. b.isLeader = a.isLeader /\ b.pc = a.pc /\ b.timer = a.timer /\ b.yield = a.yield
  BY <1>1 DEF StopDeliver, Services
<1> QED BY <1>1, <1>4, <1>5, Zenon DEF StopBeingLeader, a


LEMMA TypeInit == Init => TypeInv
<1> SUFFICES ASSUME Init PROVE TypeInv
  OBVIOUS
<1>1. s \in [Peers -> Services] /\ \A p \in Peers : ServiceOK(s[p])
  BY FreshOK DEF Init, ServiceOK
<1>2. net \subseteq Messages /\ faults \in 0 .. MaxFaults
  BY ElectionAssumption DEF Init
<1>3. stable \in BOOLEAN
  BY Zenon DEF Init
<1> QED BY <1>1, <1>2, <1>3, TypeInvIs

\* Only service p is touched, and it is what it should be after the step.
Touches(p) ==
  /\ s' = [s EXCEPT ![p] = s'[p]] /\ ServiceOK(s'[p])
  /\ net' \subseteq Messages

\* the fields the election reads
Shape(r, pc, timer, leads, exists, proposals) ==
  /\ r.pc = pc /\ r.timer = timer /\ r.isLeader = leads /\ r.leaderExists = exists
  /\ r.proposals = proposals

LEMMA Replaced ==
  ASSUME TypeInv, NEW p \in Peers, NEW a, ServiceOK(a), s' = [s EXCEPT ![p] = a],
         net' \subseteq Messages
  PROVE  Touches(p) /\ s'[p] = a
BY TypeInvIs DEF Touches, ServiceOK

LEMMA StartOK ==
  ASSUME TypeInv, NEW p \in Peers, Start(p)
  PROVE  /\ Touches(p) /\ UNCHANGED net
         /\ Shape(s'[p], "run", s[p].timer, s[p].isLeader, s[p].leaderExists, s[p].proposals)
         /\ s'[p].yield = s[p].yield /\ s'[p].finalizers = s[p].finalizers
<1> DEFINE r == s[p]
           a == [r EXCEPT !.pc = "run"]
<1>0. r \in Services /\ ServiceOK(r) /\ r.pc = "start"
  BY TypeInvIs DEF ServiceOK, Start
<1>1. s' = [s EXCEPT ![p] = a] /\ UNCHANGED net
  BY DEF Start
<1>2. a \in Services
  BY <1>0, PCsOK DEF Services
<1>3. /\ Shape(a, "run", s[p].timer, s[p].isLeader, s[p].leaderExists, s[p].proposals)
      /\ a.yield = s[p].yield /\ a.finalizers = s[p].finalizers
  BY <1>0 DEF Services, Shape
<1> HIDE DEF a
<1>4. ServiceOK(a)
  BY <1>0, <1>2, <1>3, TimesOK DEF ServiceOK, Shape, Consistent, Timed, Start
<1>5. net' \subseteq Messages
  BY <1>1, TypeInvIs
<1> QED BY <1>1, <1>3, <1>4, <1>5, Replaced, Zenon

LEMMA RunOnOK ==
  ASSUME TypeInv, NEW p \in Peers, Run(p), s[p].leaderExists \/ s[p].yield
  PROVE  /\ Touches(p) /\ UNCHANGED net
         /\ Shape(s'[p], "after", s[p].timer, s[p].isLeader, s[p].leaderExists, s[p].proposals)
         /\ s'[p].yield = s[p].yield /\ s'[p].finalizers = s[p].finalizers
<1> DEFINE r == s[p]
           a == [r EXCEPT !.pc = "after"]
<1>0. r \in Services /\ ServiceOK(r) /\ r.pc = "run"
  BY TypeInvIs DEF ServiceOK, Run
<1>1. s' = [s EXCEPT ![p] = a] /\ UNCHANGED net
  BY Zenon DEF Run
<1>2. a \in Services
  BY <1>0, PCsOK DEF Services
<1>3. /\ Shape(a, "after", s[p].timer, s[p].isLeader, s[p].leaderExists, s[p].proposals)
      /\ a.yield = s[p].yield /\ a.finalizers = s[p].finalizers
  BY <1>0 DEF Services, Shape
<1> HIDE DEF a
<1>4. ServiceOK(a)
  BY <1>0, <1>2, <1>3, TimesOK DEF ServiceOK, Shape, Consistent, Timed, Run
<1>5. net' \subseteq Messages
  BY <1>1, TypeInvIs
<1> QED BY <1>1, <1>3, <1>4, <1>5, Replaced, Zenon

LEMMA RunOK ==
  ASSUME TypeInv, NEW p \in Peers, Run(p), ~(s[p].leaderExists \/ s[p].yield)
  PROVE  /\ Touches(p) /\ Gossip(p, FALSE)
         /\ Shape(s'[p], "collect", ElectionTime, s[p].isLeader, s[p].leaderExists, s[p].proposals)
         /\ s'[p].yield = s[p].yield /\ s'[p].finalizers = s[p].finalizers
<1> DEFINE r == s[p]
           a == [r EXCEPT !.pc = "collect", !.timer = ElectionTime]
<1>0. r \in Services /\ ServiceOK(r) /\ r.pc = "run"
  BY TypeInvIs DEF ServiceOK, Run
<1>1. s' = [s EXCEPT ![p] = a] /\ Gossip(p, FALSE)
  BY Zenon DEF Run
<1>2. a \in Services
  BY <1>0, PCsOK, TimesOK, Zenon DEF Services
<1>3. /\ Shape(a, "collect", ElectionTime, s[p].isLeader, s[p].leaderExists, s[p].proposals)
      /\ a.yield = s[p].yield /\ a.finalizers = s[p].finalizers
  BY <1>0 DEF Services, Shape
<1> HIDE DEF a
<1>4. ServiceOK(a)
  BY <1>0, <1>2, <1>3, TimesOK DEF ServiceOK, Shape, Consistent, Timed, Run
<1>5. net' \subseteq Messages
  BY <1>1, GossipOK, Zenon
<1> QED BY <1>1, <1>3, <1>4, <1>5, Replaced, Zenon

\* leaderElection gives up
GivesUp(p) == s[p].leaderExists \/ s[p].yield \/ \E q \in s[p].proposals : q < p

LEMMA GiveUpOK ==
  ASSUME TypeInv, NEW p \in Peers, Collect(p), GivesUp(p)
  PROVE  /\ Touches(p) /\ UNCHANGED net
         /\ Shape(s'[p], "after", s[p].timer, s[p].isLeader, s[p].leaderExists, s[p].proposals)
         /\ s'[p].yield = s[p].yield /\ s'[p].finalizers = s[p].finalizers
<1> DEFINE r == s[p]
           a == [r EXCEPT !.pc = "after"]
<1>0. r \in Services /\ ServiceOK(r) /\ r.pc = "collect"
  BY TypeInvIs DEF ServiceOK, Collect
<1>1. s' = [s EXCEPT ![p] = a] /\ UNCHANGED net
  BY Zenon DEF Collect, GivesUp
<1>2. a \in Services
  BY <1>0, PCsOK DEF Services
<1>3. /\ Shape(a, "after", s[p].timer, s[p].isLeader, s[p].leaderExists, s[p].proposals)
      /\ a.yield = s[p].yield /\ a.finalizers = s[p].finalizers
  BY <1>0 DEF Services, Shape
<1> HIDE DEF a
<1>4. ServiceOK(a)
  BY <1>0, <1>2, <1>3, TimesOK DEF ServiceOK, Shape, Consistent, Timed, GivesUp
<1>5. net' \subseteq Messages
  BY <1>1, TypeInvIs
<1> QED BY <1>1, <1>3, <1>4, <1>5, Replaced, Zenon

LEMMA CollectOK ==
  ASSUME TypeInv, NEW p \in Peers, Collect(p), ~GivesUp(p)
  PROVE  /\ Touches(p) /\ UNCHANGED net
         /\ Shape(s'[p], "be", s[p].timer, s[p].isLeader, s[p].leaderExists, s[p].proposals)
         /\ s'[p].yield = s[p].yield /\ s'[p].finalizers = s[p].finalizers
<1> DEFINE r == s[p]
           a == [r EXCEPT !.pc = "be"]
<1>0. r \in Services /\ ServiceOK(r) /\ r.pc = "collect"
  BY TypeInvIs DEF ServiceOK, Collect
<1>1. s' = [s EXCEPT ![p] = a] /\ UNCHANGED net
  BY DEF Collect, GivesUp
<1>2. a \in Services
  BY <1>0, PCsOK DEF Services
<1>3. /\ Shape(a, "be", s[p].timer, s[p].isLeader, s[p].leaderExists, s[p].proposals)
      /\ a.yield = s[p].yield /\ a.finalizers = s[p].finalizers
  BY <1>0 DEF Services, Shape
<1> HIDE DEF a
<1>4. ServiceOK(a)
  BY <1>0, <1>2, <1>3, TimesOK DEF ServiceOK, Shape, Consistent, Timed, GivesUp
<1>5. net' \subseteq Messages
  BY <1>1, TypeInvIs
<1> QED BY <1>1, <1>3, <1>4, <1>5, Replaced, Zenon

LEMMA BeLeaderOK ==
  ASSUME TypeInv, NEW p \in Peers, BeLeader(p)
  PROVE  /\ Touches(p) /\ UNCHANGED net
         /\ Shape(s'[p], "callback", s[p].timer, TRUE, s[p].leaderExists, s[p].proposals)
         /\ s'[p].yield = s[p].yield /\ s'[p].finalizers = s[p].finalizers
<1> DEFINE r == s[p]
           a == [r EXCEPT !.isLeader = TRUE, !.pc = "callback"]
<1>0. r \in Services /\ ServiceOK(r) /\ r.pc = "be"
  BY TypeInvIs DEF ServiceOK, BeLeader
<1>1. s' = [s EXCEPT ![p] = a] /\ UNCHANGED net
  BY Zenon DEF BeLeader
<1>2. a \in Services
  BY <1>0, PCsOK, Zenon DEF Services
<1>3. /\ Shape(a, "callback", s[p].timer, TRUE, s[p].leaderExists, s[p].proposals)
      /\ a.yield = s[p].yield /\ a.finalizers = s[p].finalizers
  BY <1>0 DEF Services, Shape
<1> HIDE DEF a
<1>4. ServiceOK(a)
  BY <1>0, <1>2, <1>3, TimesOK DEF ServiceOK, Shape, Consistent, Timed, BeLeader
<1>5. net' \subseteq Messages
  BY <1>1, TypeInvIs
<1> QED BY <1>1, <1>3, <1>4, <1>5, Replaced, Zenon

LEMMA CallbackOK ==
  ASSUME TypeInv, NEW p \in Peers, Callback(p)
  PROVE  /\ Touches(p) /\ UNCHANGED net
         /\ Shape(s'[p], "exists", s[p].timer, s[p].isLeader, s[p].leaderExists, s[p].proposals)
         /\ s'[p].yield = s[p].yield /\ s'[p].finalizers = s[p].finalizers
<1> DEFINE r == s[p]
           a == StartDeliver([r EXCEPT !.pc = "exists"])
<1>0. r \in Services /\ ServiceOK(r) /\ r.pc = "callback"
  BY TypeInvIs DEF ServiceOK, Callback
<1>1. s' = [s EXCEPT ![p] = a] /\ UNCHANGED net
  BY DEF Callback
<1>2. a \in Services
  BY <1>0, PCsOK, Zenon DEF Services, StartDeliver, Clients
<1>3. /\ Shape(a, "exists", s[p].timer, s[p].isLeader, s[p].leaderExists, s[p].proposals)
      /\ a.yield = s[p].yield /\ a.finalizers = s[p].finalizers
  BY <1>0 DEF Services, Shape, StartDeliver, Clients
<1> HIDE DEF a
<1>4. ServiceOK(a)
  BY <1>0, <1>2, <1>3, TimesOK DEF ServiceOK, Shape, Consistent, Timed, Callback
<1>5. net' \subseteq Messages
  BY <1>1, TypeInvIs
<1> QED BY <1>1, <1>3, <1>4, <1>5, Replaced, Zenon

LEMMA LeaderExistsOK ==
  ASSUME TypeInv, NEW p \in Peers, LeaderExists(p)
  PROVE  /\ Touches(p) /\ UNCHANGED net
         /\ Shape(s'[p], "after", s[p].timer, s[p].isLeader, TRUE, s[p].proposals)
         /\ s'[p].yield = s[p].yield /\ s'[p].finalizers = s[p].finalizers
<1> DEFINE r == s[p]
           a == [r EXCEPT !.leaderExists = TRUE, !.pc = "after"]
<1>0. r \in Services /\ ServiceOK(r) /\ r.pc = "exists"
  BY TypeInvIs DEF ServiceOK, LeaderExists
<1>1. s' = [s EXCEPT ![p] = a] /\ UNCHANGED net
  BY Zenon DEF LeaderExists
<1>2. a \in Services
  BY <1>0, PCsOK, Zenon DEF Services
<1>3. /\ Shape(a, "after", s[p].timer, s[p].isLeader, TRUE, s[p].proposals)
      /\ a.yield = s[p].yield /\ a.finalizers = s[p].finalizers
  BY <1>0 DEF Services, Shape
<1> HIDE DEF a
<1>4. ServiceOK(a)
  BY <1>0, <1>2, <1>3, TimesOK DEF ServiceOK, Shape, Consistent, Timed, LeaderExists
<1>5. net' \subseteq Messages
  BY <1>1, TypeInvIs
<1> QED BY <1>1, <1>3, <1>4, <1>5, Replaced, Zenon

LEMMA LeadOK ==
  ASSUME TypeInv, NEW p \in Peers, After(p), s[p].isLeader
  PROVE  /\ Touches(p) /\ Gossip(p, TRUE)
         /\ Shape(s'[p], "lead", AliveTime \div 2, s[p].isLeader, s[p].leaderExists, s[p].proposals)
         /\ s'[p].yield = (s[p].yield /\ ~s[p].leaderExists) /\ s'[p].finalizers = s[p].finalizers
<1> DEFINE r == s[p]
           a == [[r EXCEPT !.yield = @ /\ ~r.leaderExists] EXCEPT
                   !.pc = "lead", !.timer = AliveTime \div 2]
<1>0. r \in Services /\ ServiceOK(r) /\ r.pc = "after" /\ r.isLeader
  BY TypeInvIs DEF ServiceOK, After
<1>00. [r EXCEPT !.yield = @ /\ ~r.leaderExists].isLeader = r.isLeader
  BY <1>0, Zenon DEF Services
<1>1. s' = [s EXCEPT ![p] = a] /\ Gossip(p, TRUE)
  BY <1>0, <1>00, Zenon DEF After
<1>2. a \in Services
  BY <1>0, PCsOK, TimesOK, Zenon DEF Services
<1>3. /\ Shape(a, "lead", AliveTime \div 2, s[p].isLeader, s[p].leaderExists, s[p].proposals)
      /\ a.yield = (s[p].yield /\ ~s[p].leaderExists) /\ a.finalizers = s[p].finalizers
  BY <1>0, Zenon DEF Services, Shape
<1> HIDE DEF a
<1>4. ServiceOK(a)
  BY <1>0, <1>2, <1>3, TimesOK, Zenon DEF ServiceOK, Shape, Consistent, Timed, After
<1>5. net' \subseteq Messages
  BY <1>1, GossipOK, Zenon
<1> QED BY <1>1, <1>3, <1>4, <1>5, Replaced, Zenon

LEMMA FollowOK ==
  ASSUME TypeInv, NEW p \in Peers, After(p), ~s[p].isLeader
  PROVE  /\ Touches(p) /\ UNCHANGED net
         /\ Shape(s'[p], "follow", AliveTime, s[p].isLeader, FALSE, {})
         /\ s'[p].yield = (s[p].yield /\ ~s[p].leaderExists) /\ s'[p].finalizers = s[p].finalizers
<1> DEFINE r == s[p]
           a == [[r EXCEPT !.yield = @ /\ ~r.leaderExists] EXCEPT
                   !.pc = "follow", !.timer = AliveTime, !.proposals = {}, !.leaderExists = FALSE]
<1>0. r \in Services /\ ServiceOK(r) /\ r.pc = "after" /\ ~r.isLeader
  BY TypeInvIs DEF ServiceOK, After
<1>00. [r EXCEPT !.yield = @ /\ ~r.leaderExists].isLeader = r.isLeader
  BY <1>0 DEF Services
<1>1. s' = [s EXCEPT ![p] = a] /\ UNCHANGED net
  BY <1>0, <1>00, Zenon DEF After
<1>2. a \in Services
  BY <1>0, PCsOK, TimesOK, Zenon DEF Services
<1>3. /\ Shape(a, "follow", AliveTime, s[p].isLeader, FALSE, {})
      /\ a.yield = (s[p].yield /\ ~s[p].leaderExists) /\ a.finalizers = s[p].finalizers
  BY <1>0 DEF Services, Shape
<1> HIDE DEF a
<1>4. ServiceOK(a)
  BY <1>0, <1>2, <1>3, TimesOK DEF ServiceOK, Shape, Consistent, Timed, After
<1>5. net' \subseteq Messages
  BY <1>1, TypeInvIs
<1> QED BY <1>1, <1>3, <1>4, <1>5, Replaced, Zenon

LEMMA WakeOK ==
  ASSUME TypeInv, NEW p \in Peers, Wake(p)
  PROVE  /\ Touches(p) /\ UNCHANGED net
         /\ Shape(s'[p], "run", s[p].timer, s[p].isLeader, s[p].leaderExists, s[p].proposals)
         /\ s'[p].yield = s[p].yield /\ s'[p].finalizers = s[p].finalizers
<1> DEFINE r == s[p]
           a == [r EXCEPT !.pc = "run"]
<1>0. r \in Services /\ ServiceOK(r) /\ r.pc \in {"lead", "follow"}
  BY TypeInvIs DEF ServiceOK, Wake
<1>1. s' = [s EXCEPT ![p] = a] /\ UNCHANGED net
  BY DEF Wake
<1>2. a \in Services
  BY <1>0, PCsOK DEF Services
<1>3. /\ Shape(a, "run", s[p].timer, s[p].isLeader, s[p].leaderExists, s[p].proposals)
      /\ a.yield = s[p].yield /\ a.finalizers = s[p].finalizers
  BY <1>0 DEF Services, Shape
<1> HIDE DEF a
<1>4. ServiceOK(a)
  BY <1>0, <1>2, <1>3, TimesOK DEF ServiceOK, Shape, Consistent, Timed, Wake
<1>5. net' \subseteq Messages
  BY <1>1, TypeInvIs
<1> QED BY <1>1, <1>3, <1>4, <1>5, Replaced, Zenon

LEMMA ProviderEndsOK ==
  ASSUME TypeInv, NEW p \in Peers, ProviderEnds(p)
  PROVE  /\ Touches(p) /\ UNCHANGED net
         /\ Shape(s'[p], s[p].pc, s[p].timer, s[p].isLeader, s[p].leaderExists, s[p].proposals)
         /\ s'[p].yield = s[p].yield /\ s'[p].finalizers = s[p].finalizers + 1
<1> DEFINE r == s[p]
           a == [r EXCEPT !.client = "ended", !.finalizers = @ + 1]
<1>0. r \in Services /\ ServiceOK(r) /\ TRUE
  BY TypeInvIs DEF ServiceOK, ProviderEnds
<1>00. r.finalizers + 1 \in Nat
  BY <1>0 DEF Services
<1>1. s' = [s EXCEPT ![p] = a] /\ UNCHANGED net
  BY Zenon DEF ProviderEnds
<1>2. a \in Services
  BY <1>0, <1>00, Zenon DEF Services, Clients
<1>3. /\ Shape(a, s[p].pc, s[p].timer, s[p].isLeader, s[p].leaderExists, s[p].proposals)
      /\ a.yield = s[p].yield /\ a.finalizers = s[p].finalizers + 1
  BY <1>0 DEF Services, Shape, Clients
<1> HIDE DEF a
<1>4. ServiceOK(a)
  BY <1>0, <1>2, <1>3, TimesOK DEF ServiceOK, Shape, Consistent, Timed, ProviderEnds
<1>5. net' \subseteq Messages
  BY <1>1, TypeInvIs
<1> QED BY <1>1, <1>3, <1>4, <1>5, Replaced, Zenon

LEMMA YieldExpiresOK ==
  ASSUME TypeInv, NEW p \in Peers, YieldExpires(p)
  PROVE  /\ Touches(p) /\ UNCHANGED net
         /\ Shape(s'[p], s[p].pc, s[p].timer, s[p].isLeader, s[p].leaderExists, s[p].proposals)
         /\ s'[p].yield = FALSE /\ s'[p].finalizers = s[p].finalizers
<1> DEFINE r == s[p]
           a == [r EXCEPT !.yield = FALSE]
<1>0. r \in Services /\ ServiceOK(r) /\ TRUE
  BY TypeInvIs DEF ServiceOK, YieldExpires
<1>1. s' = [s EXCEPT ![p] = a] /\ UNCHANGED net
  BY DEF YieldExpires
<1>2. a \in Services
  BY <1>0, PCsOK, Zenon DEF Services
<1>3. /\ Shape(a, s[p].pc, s[p].timer, s[p].isLeader, s[p].leaderExists, s[p].proposals)
      /\ a.yield = FALSE /\ a.finalizers = s[p].finalizers
  BY <1>0 DEF Services, Shape
<1> HIDE DEF a
<1>4. ServiceOK(a)
  BY <1>0, <1>2, <1>3, TimesOK DEF ServiceOK, Shape, Consistent, Timed, YieldExpires
<1>5. net' \subseteq Messages
  BY <1>1, TypeInvIs
<1> QED BY <1>1, <1>3, <1>4, <1>5, Replaced, Zenon

LEMMA YieldOK ==
  ASSUME TypeInv, NEW p \in Peers, Yield(p)
  PROVE  Touches(p)
<1> DEFINE r == [s[p] EXCEPT !.finalizers = @ - 1]
           y == [r EXCEPT !.yield = TRUE, !.leaderExists = FALSE]
<1>0. s[p] \in Services /\ ServiceOK(s[p]) /\ s[p].finalizers > 0
  BY TypeInvIs DEF ServiceOK, Yield
<1>1. s[p].finalizers - 1 \in Nat
  BY <1>0 DEF Services
<1>2. /\ r \in Services /\ r.pc = s[p].pc /\ r.timer = s[p].timer
      /\ r.isLeader = s[p].isLeader /\ r.leaderExists = s[p].leaderExists
      /\ r.yield = s[p].yield
  BY <1>0, <1>1 DEF Services
<1>3. /\ UNCHANGED net
      /\ s' = [s EXCEPT ![p] = IF r.isLeader /\ ~r.yield THEN StopBeingLeader(y) ELSE r]
  BY DEF Yield
<1> HIDE DEF r
<1>4. ServiceOK(r)
  BY <1>0, <1>2 DEF ServiceOK, Consistent, Timed
<1>5. y \in Services /\ y.pc = r.pc /\ y.timer = r.timer
  BY <1>2, Zenon DEF Services
<1> HIDE DEF y
<1>6. ASSUME r.isLeader PROVE ServiceOK(StopBeingLeader(y))
  <2>1. r.pc # "be"
    BY <1>4, <1>6 DEF ServiceOK, Consistent
  <2> QED BY <1>4, <1>5, <2>1, StopOK DEF ServiceOK, Consistent, Timed
<1>7. net' \subseteq Messages
  BY <1>3, TypeInvIs
<1>8. CASE r.isLeader /\ ~r.yield
  BY <1>3, <1>6, <1>7, <1>8, Replaced, Zenon
<1>9. CASE ~(r.isLeader /\ ~r.yield)
  BY <1>3, <1>4, <1>7, <1>9, Replaced, Zenon
<1> QED BY <1>8, <1>9

LEMMA ProposedOK ==
  ASSUME TypeInv, NEW m \in net, Receive(m), ~m.decl
  PROVE  /\ m \in Messages /\ m.to \in Peers /\ Touches(m.to) /\ net' = net \ {m}
         /\ Shape(s'[m.to], s[m.to].pc, s[m.to].timer, s[m.to].isLeader, s[m.to].leaderExists,
                  s[m.to].proposals \cup {m.from})
         /\ s'[m.to].yield = s[m.to].yield /\ s'[m.to].finalizers = s[m.to].finalizers
<1> DEFINE p == m.to
           r == s[p]
           a == [r EXCEPT !.proposals = @ \cup {m.from}]
<1>0. m \in Messages /\ p \in Peers /\ m.from \in Peers
  BY TypeInvIs DEF Messages
<1> HIDE DEF p
<1>1. r \in Services /\ ServiceOK(r)
  BY <1>0, TypeInvIs DEF ServiceOK
<1>2. s' = [s EXCEPT ![p] = a] /\ net' = net \ {m}
  BY DEF Receive, Handle, p
<1>3. a \in Services
  BY <1>0, <1>1 DEF Services
<1>4. /\ Shape(a, r.pc, r.timer, r.isLeader, r.leaderExists, r.proposals \cup {m.from})
      /\ a.yield = r.yield /\ a.finalizers = r.finalizers
  BY <1>1 DEF Services, Shape
<1> HIDE DEF a
<1>5. ServiceOK(a)
  BY <1>1, <1>3, <1>4 DEF ServiceOK, Shape, Consistent, Timed
<1>6. net' \subseteq Messages
  BY <1>2, TypeInvIs
<1>7. Touches(p) /\ s'[p] = a
  BY <1>0, <1>2, <1>5, <1>6, Replaced, Zenon
<1> QED BY <1>0, <1>2, <1>4, <1>7 DEF p

LEMMA DeclaredOK ==
  ASSUME TypeInv, NEW m \in net, Receive(m), m.decl
  PROVE  /\ m \in Messages /\ m.to \in Peers /\ Touches(m.to) /\ net' = net \ {m}
         /\ ~s[m.to].isLeader =>
              /\ Shape(s'[m.to], s[m.to].pc,
                       IF s[m.to].pc \in {"collect", "lead"} THEN 0 ELSE s[m.to].timer,
                       FALSE, TRUE, s[m.to].proposals)
              /\ s'[m.to].yield = s[m.to].yield /\ s'[m.to].finalizers = s[m.to].finalizers
<1> DEFINE p == m.to
           r == s[p]
           e == [r EXCEPT !.leaderExists = TRUE]
           d == Interrupted(e)
<1>0. m \in Messages /\ p \in Peers /\ m.from \in Peers
  BY TypeInvIs DEF Messages
<1> HIDE DEF p
<1>1. r \in Services /\ ServiceOK(r)
  BY <1>0, TypeInvIs DEF ServiceOK
<1>2. /\ s' = [s EXCEPT ![p] = IF m.from < m.to /\ r.isLeader THEN StopBeingLeader(d) ELSE d]
      /\ net' = net \ {m}
  BY DEF Receive, Handle, p
<1>3. e \in Services
  BY <1>1, Zenon DEF Services
<1>4. /\ Shape(e, r.pc, r.timer, r.isLeader, TRUE, r.proposals)
      /\ e.yield = r.yield /\ e.finalizers = r.finalizers
  BY <1>1 DEF Services, Shape
<1> HIDE DEF e
<1>5. d \in Services
  BY <1>3, TimesOK DEF Services, Interrupted
<1>6. /\ Shape(d, r.pc, IF r.pc \in {"collect", "lead"} THEN 0 ELSE r.timer, r.isLeader, TRUE,
               r.proposals)
      /\ d.yield = r.yield /\ d.finalizers = r.finalizers
  BY <1>3, <1>4 DEF Services, Shape, Interrupted
<1> HIDE DEF d
<1>7. ServiceOK(d)
  BY <1>1, <1>5, <1>6, ElectionAssumption DEF ServiceOK, Shape, Consistent, Timed
<1>8. ServiceOK(StopBeingLeader(d))
  BY <1>5, <1>7, StopOK DEF ServiceOK, Consistent, Timed
<1>9. net' \subseteq Messages
  BY <1>2, TypeInvIs
<1>10. Touches(p)
  BY <1>0, <1>2, <1>7, <1>8, <1>9, Replaced, Zenon
<1>11. ~r.isLeader => s'[p] = d
  BY <1>0, <1>2, <1>7, <1>9, Replaced, Zenon
<1>12. ~r.isLeader => d.isLeader = FALSE
  BY <1>1, <1>6 DEF Services, Shape
<1> QED BY <1>0, <1>2, <1>6, <1>10, <1>11, <1>12 DEF p, Shape

LEMMA TickOK ==
  ASSUME TypeInv, Tick
  PROVE  /\ s' \in [Peers -> Services] /\ \A p \in Peers : ServiceOK(s'[p])
         /\ \A p \in Peers :
              /\ Shape(s'[p], s[p].pc,
                       IF s[p].pc \in Sleeping THEN s[p].timer - 1 ELSE s[p].timer,
                       s[p].isLeader, s[p].leaderExists, s[p].proposals)
              /\ s'[p].yield = s[p].yield /\ s'[p].finalizers = s[p].finalizers
<1>1. ASSUME NEW p \in Peers
      PROVE  /\ ServiceOK(s'[p])
             /\ Shape(s'[p], s[p].pc,
                      IF s[p].pc \in Sleeping THEN s[p].timer - 1 ELSE s[p].timer,
                      s[p].isLeader, s[p].leaderExists, s[p].proposals)
             /\ s'[p].yield = s[p].yield /\ s'[p].finalizers = s[p].finalizers
  <2> DEFINE r == s[p]
             a == [r EXCEPT !.timer = @ - 1]
  <2>1. r \in Services /\ ServiceOK(r)
    BY TypeInvIs DEF ServiceOK
  <2>2. s'[p] = IF r.pc \in Sleeping THEN a ELSE r
    BY DEF Tick
  <2>3. CASE r.pc \notin Sleeping
    BY <2>1, <2>2, <2>3 DEF Shape
  <2>4. CASE r.pc \in Sleeping
    <3>1. r.timer \in Times /\ r.timer > 0 /\ r.timer - 1 \in Times /\ r.timer \in Nat
      BY <2>1, <2>4, TimesOK DEF Tick, Services
    <3>2. a \in Services
      BY <2>1, <3>1 DEF Services
    <3>3. /\ Shape(a, r.pc, r.timer - 1, r.isLeader, r.leaderExists, r.proposals)
          /\ a.yield = r.yield /\ a.finalizers = r.finalizers
      BY <2>1 DEF Services, Shape
    <3> HIDE DEF a
    <3>4. ServiceOK(a)
      BY <2>1, <3>1, <3>2, <3>3, ElectionAssumption DEF ServiceOK, Shape, Consistent, Timed
    <3> QED BY <2>2, <2>4, <3>3, <3>4
  <2> QED BY <2>3, <2>4
<1>2. s' = [p \in Peers |-> s'[p]]
  BY DEF Tick
<1> QED BY <1>1, <1>2 DEF ServiceOK

\* steps that touch one service, or none
LEMMA TouchesOK ==
  ASSUME TypeInv, NEW p \in Peers, Touches(p), stable' \in BOOLEAN, faults' \in 0 .. MaxFaults
  PROVE  TypeInv'
<1>1. s' \in [Peers -> Services] /\ \A q \in Peers : ServiceOK(s'[q])
  BY OneService DEF Touches
<1> QED BY <1>1, TypeInvIsNext DEF Touches

LEMMA FaultyOK ==
  ASSUME TypeInv, Faulty
  PROVE  faults' \in 0 .. MaxFaults /\ faults' # 0
BY TypeInvIs, ElectionAssumption DEF Faulty

LEMMA TypeNext == TypeInv /\ [Next]_vars => TypeInv'
<1> SUFFICES ASSUME TypeInv, [Next]_vars PROVE TypeInv'
  OBVIOUS
<1>0. s \in [Peers -> Services] /\ stable \in BOOLEAN /\ faults \in 0 .. MaxFaults
      /\ net \subseteq Messages /\ \A p \in Peers : ServiceOK(s[p])
  BY TypeInvIs
<1>1. ASSUME NEW p \in Peers, RunStep(p) PROVE TypeInv'
  <2>1. Touches(p)
    BY <1>1, StartOK, RunOnOK, RunOK, GiveUpOK, CollectOK, BeLeaderOK, CallbackOK, LeaderExistsOK,
       LeadOK, FollowOK, WakeOK, Zenon DEF RunStep
  <2>2. UNCHANGED <<stable, faults>>
    BY <1>1, Zenon DEF RunStep, Start, Run, Collect, BeLeader, Callback, LeaderExists, After, Wake
  <2> QED BY <1>0, <2>1, <2>2, TouchesOK
<1>2. ASSUME NEW p \in Peers, ProviderEnds(p) PROVE TypeInv'
  BY <1>0, <1>2, ProviderEndsOK, FaultyOK, TouchesOK, Zenon DEF ProviderEnds
<1>3. ASSUME NEW p \in Peers, Yield(p) PROVE TypeInv'
  BY <1>0, <1>3, YieldOK, TouchesOK, Zenon DEF Yield
<1>4. ASSUME NEW p \in Peers, YieldExpires(p) PROVE TypeInv'
  BY <1>0, <1>4, YieldExpiresOK, TouchesOK, Zenon DEF YieldExpires
<1>5. ASSUME NEW p \in Peers, Crash(p) PROVE TypeInv'
  <2>1. net' \subseteq Messages /\ s' = [s EXCEPT ![p] = Down]
    BY <1>0, <1>5 DEF Crash
  <2>2. stable' = stable /\ faults' \in 0 .. MaxFaults
    BY <1>5, FaultyOK DEF Crash
  <2> QED BY <1>0, <2>1, <2>2, FreshOK, Replaced, TouchesOK, Zenon
<1>6. ASSUME NEW p \in Peers, Restart(p) PROVE TypeInv'
  <2>1. net' \subseteq Messages /\ s' = [s EXCEPT ![p] = Fresh] /\ UNCHANGED <<stable, faults>>
    BY <1>0, <1>6 DEF Restart
  <2> QED BY <1>0, <2>1, FreshOK, Replaced, TouchesOK, Zenon
<1>7. ASSUME NEW m \in net, Receive(m) PROVE TypeInv'
  BY <1>0, <1>7, ProposedOK, DeclaredOK, TouchesOK, Zenon DEF Receive
<1>8. ASSUME NEW m \in net, Lose(m) PROVE TypeInv'
  BY <1>0, <1>8, FaultyOK, TypeInvIsNext DEF Lose
<1>9. CASE Stabilise
  BY <1>0, <1>9, TypeInvIsNext DEF Stabilise
<1>10. CASE Tick
  <2>1. faults' \in 0 .. MaxFaults /\ UNCHANGED <<net, stable>>
    BY <1>0, <1>10, FaultyOK DEF Tick
  <2> QED BY <1>0, <1>10, <2>1, TickOK, TypeInvIsNext
<1>11. CASE UNCHANGED vars
  BY <1>0, <1>11, TypeInvIsNext DEF vars
<1> QED BY <1>1, <1>2, <1>3, <1>4, <1>5, <1>6, <1>7, <1>8, <1>9, <1>10, <1>11 DEF Next

\* Whatever goes wrong, the services keep their types, and one that yields, in the
\* finalizer of its provider or since, is not the leader: beLeader is reached only by
\* a leaderElection that saw no yield, and Yield stops being the leader.
THEOREM TypesHold == Spec => []ElectionTypeOK
<1>1. TypeInv => ElectionTypeOK
  BY DEF TypeInv
<1> QED BY <1>1, TypeInit, TypeNext, PTL DEF Spec

-----------------------------------------------------------------------------
\* One lemma per step that can be taken while nothing has gone wrong

LEMMA Others ==
  ASSUME NEW p \in Peers, TypeInv, Touches(p)
  PROVE  \A q \in Peers : q # p => s'[q] = s[q]
BY TypeInvIs DEF Touches

LEMMA NumbersOK ==
  ASSUME TypeInv
  PROVE  /\ \A p \in Peers : s[p].timer \in Nat /\ Timed(s[p]) /\ s[p].proposals \subseteq Peers
         /\ \A m \in net : m \in Messages
         /\ Peers \subseteq Nat /\ ElectionTime \in Nat /\ ElectionTime > 0
         /\ AliveTime \in Nat /\ AliveTime > 1
<1>1. ASSUME NEW p \in Peers
      PROVE  s[p].timer \in Nat /\ Timed(s[p]) /\ s[p].proposals \subseteq Peers
  BY TypeInvIs, TimesOK, Zenon DEF ServiceOK, Services
<1>2. \A m \in net : m \in Messages
  BY TypeInvIs
<1> QED BY <1>1, <1>2, ElectionAssumption

LEMMA Alone ==
  ASSUME Leadership, NEW p \in Peers, NEW q \in Peers, Elected(p), Elected(q)
  PROVE  p = q
BY DEF Leadership, Decided, Safe, Elected, Seeking

LEMMA StartLeads ==
  ASSUME TypeInv, Leadership, NEW p \in Peers, Start(p)
  PROVE  Leadership'
<1>1. /\ Shape(s'[p], "run", s[p].timer, s[p].isLeader, s[p].leaderExists, s[p].proposals)
      /\ s'[p].yield = s[p].yield /\ s'[p].finalizers = s[p].finalizers
      /\ UNCHANGED net /\ s[p].pc = "start" /\ \A q \in Peers : q # p => s'[q] = s[q]
  BY StartOK, Others, Zenon DEF Start
<1>2. \A q \in Peers : Elected(q)' <=> Elected(q)
  BY <1>1 DEF Elected, Shape
<1>3. \A q \in Peers : Calm(s'[q])
  BY <1>1 DEF Leadership, Calm, Shape
<1>4. Contest => Contest'
  BY <1>1, NumbersOK DEF Contest, Ahead, Seeking, Shape, Due, Proposal, Messages
<1>5. Decided'
  BY <1>1, <1>2 DEF Leadership, Decided, Safe, Pending, Declaration, Seeking, Shape
<1> QED BY <1>2, <1>3, <1>4, <1>5 DEF Leadership, Undecided

LEMMA RunOnLeads ==
  ASSUME TypeInv, Leadership, NEW p \in Peers, Run(p), s[p].leaderExists \/ s[p].yield
  PROVE  Leadership'
<1>1. /\ Shape(s'[p], "after", s[p].timer, s[p].isLeader, s[p].leaderExists, s[p].proposals)
      /\ s'[p].yield = s[p].yield /\ s'[p].finalizers = s[p].finalizers
      /\ UNCHANGED net /\ s[p].pc = "run" /\ \A q \in Peers : q # p => s'[q] = s[q]
  BY RunOnOK, Others, Zenon DEF Run
<1>2. \A q \in Peers : Elected(q)' <=> Elected(q)
  BY <1>1 DEF Elected, Shape
<1>3. \A q \in Peers : Calm(s'[q])
  BY <1>1 DEF Leadership, Calm, Shape
<1>4. Undecided'
  <2>1. s[p].leaderExists
    BY DEF Leadership, Calm
  <2> QED BY <1>2, <2>1 DEF Leadership, Undecided, Contest
<1>5. Decided'
  BY <1>1, <1>2 DEF Leadership, Decided, Safe, Pending, Declaration, Seeking, Sleeping, Shape
<1> QED BY <1>3, <1>4, <1>5 DEF Leadership

LEMMA RunLeads ==
  ASSUME TypeInv, Leadership, NEW p \in Peers, Run(p), ~(s[p].leaderExists \/ s[p].yield)
  PROVE  Leadership'
<1>0. Gossip(p, FALSE) /\ Up = Peers
  BY RunOK, Zenon DEF Leadership, Calm, Up
<1>1. /\ Shape(s'[p], "collect", ElectionTime, s[p].isLeader, s[p].leaderExists, s[p].proposals)
      /\ s'[p].yield = s[p].yield /\ s'[p].finalizers = s[p].finalizers
      /\ s[p].pc = "run" /\ \A q \in Peers : q # p => s'[q] = s[q]
      /\ net' = net \cup {[to |-> q, from |-> p, decl |-> FALSE] : q \in Peers \ {p}}
  BY <1>0, RunOK, Others DEF Run, Gossip
<1>2. \A q \in Peers : Elected(q)' <=> Elected(q)
  BY <1>1 DEF Elected, Shape
<1>3. \A q \in Peers : Calm(s'[q])
  BY <1>1 DEF Leadership, Calm, Shape
<1>4. ASSUME Contest PROVE Contest'
  <2>1. \A m \in net' : ~m.decl /\ s'[m.from].pc = "collect" /\ s'[m.from].timer = ElectionTime
    BY <1>1, <1>4, NumbersOK DEF Contest, Messages, Shape
  <2>2. \A q \in Peers : s'[q].pc \in Seeking /\ ~s'[q].leaderExists
    BY <1>1, <1>4 DEF Contest, Shape, Seeking
  <2>3. ASSUME NEW q \in Peers, q # p PROVE Ahead(q, p)'
    BY <1>1, <2>3, Zenon DEF Ahead, Proposal
  <2>4. ASSUME NEW r \in Peers, r # p, s[r].pc = "collect" PROVE Ahead(p, r)'
    BY <1>1, <1>4, <2>4 DEF Contest, Ahead, Proposal, Shape, Due
  <2>5. ASSUME NEW q \in Peers, NEW r \in Peers, q # p, r # p, q # r, s[r].pc = "collect"
        PROVE  Ahead(q, r)'
    BY <1>1, <1>4, <2>5 DEF Contest, Ahead, Proposal, Due
  <2> QED BY <1>1, <2>1, <2>2, <2>3, <2>4, <2>5 DEF Contest
<1>5. Decided'
  BY <1>1, <1>2, NumbersOK, SMTT(40)
     DEF Leadership, Decided, Safe, Pending, Declaration, Seeking, Sleeping, Shape
<1> QED BY <1>2, <1>3, <1>4, <1>5 DEF Leadership, Undecided

LEMMA GiveUpLeads ==
  ASSUME TypeInv, Leadership, NEW p \in Peers, Collect(p), GivesUp(p)
  PROVE  Leadership'
<1>1. /\ Shape(s'[p], "after", s[p].timer, s[p].isLeader, s[p].leaderExists,
               s[p].proposals)
      /\ s'[p].yield = s[p].yield /\ s'[p].finalizers = s[p].finalizers
      /\ UNCHANGED net /\ s[p].pc = "collect" /\ s[p].timer = 0
      /\ \A q \in Peers : q # p => s'[q] = s[q]
  BY GiveUpOK, Others, Zenon DEF Collect
<1>2. \A q \in Peers : Elected(q)' <=> Elected(q)
  BY <1>1, TypeInvIs DEF Elected, Shape, ServiceOK, Consistent
<1>3. \A q \in Peers : Calm(s'[q])
  BY <1>1 DEF Leadership, Calm, Shape
<1>4. Contest => Contest'
  BY <1>1, NumbersOK DEF Contest, Ahead, Seeking, Shape, Due, Proposal, Messages, Timed
<1>5. Decided'
  BY <1>1, <1>2, SMTT(40) DEF Leadership, Decided, Safe, Pending, Declaration, Seeking, Shape
<1> QED BY <1>2, <1>3, <1>4, <1>5 DEF Leadership, Undecided

LEMMA CollectLeads ==
  ASSUME TypeInv, Leadership, NEW p \in Peers, Collect(p), ~GivesUp(p)
  PROVE  Leadership'
<1>1. /\ Shape(s'[p], "be", s[p].timer, s[p].isLeader, s[p].leaderExists,
               s[p].proposals)
      /\ s'[p].yield = s[p].yield /\ s'[p].finalizers = s[p].finalizers
      /\ UNCHANGED net /\ s[p].pc = "collect" /\ s[p].timer = 0
      /\ \A q \in Peers : q # p => s'[q] = s[q]
  BY CollectOK, Others, Zenon DEF Collect
<1>3. \A q \in Peers : Calm(s'[q])
  BY <1>1 DEF Leadership, Calm, Shape
<1>2. \A q \in Peers : ~Elected(q)
  <2>1. \A q \in Peers : q # p => ~Elected(q)
    BY <1>1, NumbersOK DEF Leadership, Decided, Safe, GivesUp
  <2>2. ~Elected(p)
    BY <1>1, TypeInvIs DEF Elected, ServiceOK, Consistent
  <2> QED BY <2>1, <2>2
<1>4. Contest
  BY <1>2 DEF Leadership, Undecided
<1>5. Elected(p)' /\ \A q \in Peers : Elected(q)' => q = p
  BY <1>1, <1>2 DEF Elected, Shape
<1>6. ASSUME NEW x \in Peers, x # p PROVE Safe(x, p)'
  <2>1. Pending(p, x)'
    BY <1>1 DEF Pending, Shape, Sleeping
  <2>2. ASSUME s[x].pc = "collect", s[x].timer = 0 PROVE \E r \in s[x].proposals : r < x
    <3>1. ~Proposal(x, p) /\ ~Proposal(p, x)
      BY <1>1, <1>4, <2>2, NumbersOK DEF Contest, Proposal
    <3>2. x \in s[p].proposals /\ p \in s[x].proposals
      BY <1>1, <1>4, <1>6, <2>2, <3>1 DEF Contest, Ahead, Due
    <3> QED BY <1>6, <3>2, NumbersOK DEF GivesUp
  <2>3. s[x].pc \in Seeking /\ ~s[x].isLeader /\ s'[x] = s[x]
    BY <1>1, <1>2, <1>4, <1>6 DEF Contest, Elected
  <2> QED BY <2>1, <2>2, <2>3, NumbersOK DEF Safe
<1>7. Decided'
  BY <1>1, <1>4, <1>5, <1>6 DEF Decided, Contest, Shape
<1> QED BY <1>3, <1>5, <1>7 DEF Leadership, Undecided

LEMMA BeLeaderLeads ==
  ASSUME TypeInv, Leadership, NEW p \in Peers, BeLeader(p)
  PROVE  Leadership'
<1>1. /\ Shape(s'[p], "callback", s[p].timer, TRUE, s[p].leaderExists,
               s[p].proposals)
      /\ s'[p].yield = s[p].yield /\ s'[p].finalizers = s[p].finalizers
      /\ UNCHANGED net /\ s[p].pc = "be" /\ \A q \in Peers : q # p => s'[q] = s[q]
  BY BeLeaderOK, Others, Zenon DEF BeLeader
<1>3. \A q \in Peers : Calm(s'[q])
  BY <1>1 DEF Leadership, Calm, Shape
<1>2. Elected(p) /\ \A q \in Peers : Elected(q) => q = p
  BY <1>1, Alone DEF Elected
<1>4. Elected(p)' /\ \A q \in Peers : Elected(q)' => q = p
  BY <1>1, <1>2 DEF Elected, Shape, Leadership, Decided
<1>5. Decided'
  BY <1>1, <1>2, <1>4, SMTT(40) DEF Leadership, Decided, Safe, Pending, Sleeping, Shape
<1> QED BY <1>3, <1>4, <1>5 DEF Leadership, Undecided

LEMMA CallbackLeads ==
  ASSUME TypeInv, Leadership, NEW p \in Peers, Callback(p)
  PROVE  Leadership'
<1>1. /\ Shape(s'[p], "exists", s[p].timer, s[p].isLeader, s[p].leaderExists,
               s[p].proposals)
      /\ s'[p].yield = s[p].yield /\ s'[p].finalizers = s[p].finalizers
      /\ UNCHANGED net /\ s[p].pc = "callback" /\ \A q \in Peers : q # p => s'[q] = s[q]
  BY CallbackOK, Others, Zenon DEF Callback
<1>3. \A q \in Peers : Calm(s'[q])
  BY <1>1 DEF Leadership, Calm, Shape
<1>2. Elected(p) /\ \A q \in Peers : Elected(q) => q = p
  BY <1>1, Alone DEF Elected
<1>4. Elected(p)' /\ \A q \in Peers : Elected(q)' => q = p
  BY <1>1, <1>2 DEF Elected, Shape, Leadership, Decided
<1>5. Decided'
  BY <1>1, <1>2, <1>4, SMTT(40) DEF Leadership, Decided, Safe, Pending, Sleeping, Shape
<1> QED BY <1>3, <1>4, <1>5 DEF Leadership, Undecided

LEMMA LeaderExistsLeads ==
  ASSUME TypeInv, Leadership, NEW p \in Peers, LeaderExists(p)
  PROVE  Leadership'
<1>1. /\ Shape(s'[p], "after", s[p].timer, s[p].isLeader, TRUE,
               s[p].proposals)
      /\ s'[p].yield = s[p].yield /\ s'[p].finalizers = s[p].finalizers
      /\ UNCHANGED net /\ s[p].pc = "exists" /\ \A q \in Peers : q # p => s'[q] = s[q]
  BY LeaderExistsOK, Others, Zenon DEF LeaderExists
<1>3. \A q \in Peers : Calm(s'[q])
  BY <1>1 DEF Leadership, Calm, Shape
<1>2. Elected(p) /\ \A q \in Peers : Elected(q) => q = p
  BY <1>1, Alone DEF Elected
<1>4. Elected(p)' /\ \A q \in Peers : Elected(q)' => q = p
  BY <1>1, <1>2 DEF Elected, Shape, Leadership, Decided
<1>5. Decided'
  BY <1>1, <1>2, <1>4, SMTT(40) DEF Leadership, Decided, Safe, Pending, Sleeping, Shape
<1> QED BY <1>3, <1>4, <1>5 DEF Leadership, Undecided

LEMMA LeadLeads ==
  ASSUME TypeInv, Leadership, NEW p \in Peers, After(p), s[p].isLeader
  PROVE  Leadership'
<1>0. Gossip(p, TRUE) /\ Up = Peers /\ ~s[p].yield
  BY LeadOK, Zenon DEF Leadership, Calm, Up
<1>1. /\ Shape(s'[p], "lead", AliveTime \div 2, s[p].isLeader, s[p].leaderExists, s[p].proposals)
      /\ ~s'[p].yield /\ s'[p].finalizers = s[p].finalizers
      /\ s[p].pc = "after" /\ \A q \in Peers : q # p => s'[q] = s[q]
      /\ net' = net \cup {[to |-> q, from |-> p, decl |-> TRUE] : q \in Peers \ {p}}
  BY <1>0, LeadOK, Others, Zenon DEF After, Gossip
<1>2. Elected(p) /\ \A q \in Peers : Elected(q) => q = p
  BY Alone DEF Elected
<1>3. \A q \in Peers : Calm(s'[q])
  BY <1>1 DEF Leadership, Calm, Shape
<1>4. Elected(p)' /\ \A q \in Peers : Elected(q)' => q = p
  BY <1>1, <1>2 DEF Elected, Shape
<1>5. \A x \in Peers : x # p => Declaration(p, x)'
  BY <1>1, Zenon DEF Declaration
<1>6. Decided'
  <2>1. \A m \in net' : m.decl => m.from = p
    BY <1>1, <1>2 DEF Leadership, Decided
  <2>2. ASSUME NEW x \in Peers \ {p} PROVE Safe(x, p)'
    BY <1>1, <1>2, <1>5, Zenon DEF Leadership, Decided, Safe, Pending
  <2>3. s'[p].pc = "lead" /\ s'[p].isLeader /\ s'[p].leaderExists
    BY <1>1, <1>2 DEF Leadership, Decided, Shape
  <2> QED BY <1>4, <2>1, <2>2, <2>3 DEF Decided
<1> QED BY <1>3, <1>4, <1>6 DEF Leadership, Undecided

LEMMA FollowLeads ==
  ASSUME TypeInv, Leadership, NEW p \in Peers, After(p), ~s[p].isLeader
  PROVE  Leadership'
<1>0. ~s[p].yield
  BY DEF Leadership, Calm
<1>1. /\ Shape(s'[p], "follow", AliveTime, s[p].isLeader, FALSE, {})
      /\ ~s'[p].yield /\ s'[p].finalizers = s[p].finalizers
      /\ UNCHANGED net /\ s[p].pc = "after" /\ \A q \in Peers : q # p => s'[q] = s[q]
  BY <1>0, FollowOK, Others, Zenon DEF After
<1>2. \A q \in Peers : Elected(q)' <=> Elected(q)
  BY <1>1 DEF Elected, Shape
<1>3. \A q \in Peers : Calm(s'[q])
  BY <1>1 DEF Leadership, Calm, Shape
<1>4. Contest => Contest'
  BY <1>1, NumbersOK DEF Contest, Ahead, Seeking, Shape, Due, Proposal, Messages, Timed
<1>5. ASSUME NEW q \in Peers, Elected(q), q # p PROVE Safe(p, q)'
  <2>1. s[q].pc \in {"be", "callback", "exists", "after", "lead", "run"}
    BY <1>5 DEF Leadership, Decided
  <2>2. s[q].pc = "lead" => AliveTime > s[q].timer
    BY NumbersOK DEF Timed
  <2>3. Pending(q, p)' \/ AliveTime > s'[q].timer
    BY <1>1, <1>5, <2>1, <2>2 DEF Pending, Sleeping
  <2> QED BY <1>1, <2>3 DEF Safe, Shape, Seeking
<1>6. ~Elected(p)
  BY <1>1 DEF Elected
<1>7. Decided'
  BY <1>1, <1>2, <1>5, <1>6, SMTT(40) DEF Leadership, Decided, Safe, Pending, Declaration
<1> QED BY <1>2, <1>3, <1>4, <1>7 DEF Leadership, Undecided

LEMMA WakeLeads ==
  ASSUME TypeInv, Leadership, NEW p \in Peers, Wake(p)
  PROVE  Leadership'
<1>1. /\ Shape(s'[p], "run", s[p].timer, s[p].isLeader, s[p].leaderExists, s[p].proposals)
      /\ s'[p].yield = s[p].yield /\ s'[p].finalizers = s[p].finalizers
      /\ UNCHANGED net /\ s[p].pc \in {"lead", "follow"} /\ s[p].timer = 0
      /\ \A q \in Peers : q # p => s'[q] = s[q]
  BY WakeOK, Others, Zenon DEF Wake
<1>2. \A q \in Peers : Elected(q)' <=> Elected(q)
  BY <1>1 DEF Elected, Shape
<1>3. \A q \in Peers : Calm(s'[q])
  BY <1>1 DEF Leadership, Calm, Shape
<1>4. Contest => Contest'
  BY <1>1, NumbersOK DEF Contest, Ahead, Seeking, Shape, Due, Proposal, Messages
<1>5. Decided'
  BY <1>1, <1>2, NumbersOK, SMTT(40)
     DEF Leadership, Decided, Safe, Pending, Declaration, Seeking, Sleeping, Shape
<1> QED BY <1>2, <1>3, <1>4, <1>5 DEF Leadership, Undecided

LEMMA ProposedLeads ==
  ASSUME TypeInv, Leadership, NEW m \in net, Receive(m), ~m.decl
  PROVE  Leadership'
<1> DEFINE p == m.to
<1>0. m \in Messages /\ p \in Peers
  BY ProposedOK, Zenon
<1>1. /\ Shape(s'[p], s[p].pc, s[p].timer, s[p].isLeader, s[p].leaderExists,
               s[p].proposals \cup {m.from})
      /\ s'[p].yield = s[p].yield /\ s'[p].finalizers = s[p].finalizers
      /\ net' = net \ {m} /\ \A q \in Peers : q # p => s'[q] = s[q]
  BY ProposedOK, Others
<1>2. \A q \in Peers : Elected(q)' <=> Elected(q)
  BY <1>1 DEF Elected, Shape
<1>3. \A q \in Peers : Calm(s'[q])
  BY <1>1 DEF Leadership, Calm, Shape
<1>4. ASSUME Contest PROVE Contest'
  <2>1. \A n \in net' : ~n.decl /\ s'[n.from].pc = "collect" /\ s'[n.from].timer = ElectionTime
    BY <1>1, <1>4, NumbersOK DEF Contest, Messages, Shape
  <2>2. \A q \in Peers : s'[q].pc \in Seeking /\ ~s'[q].leaderExists
    BY <1>1, <1>4 DEF Contest, Shape, Seeking
  <2>3. ASSUME NEW q \in Peers, NEW r \in Peers, Ahead(q, r) PROVE Ahead(q, r)'
    <3>1. Due(s'[q]) = Due(s[q]) /\ s'[r].timer = s[r].timer
      BY <1>1 DEF Due, Shape
    <3>2. s[q].proposals \subseteq s'[q].proposals
      BY <1>1 DEF Shape
    <3>3. Proposal(r, q) => Proposal(r, q)' \/ r \in s'[q].proposals
      BY <1>1 DEF Proposal, Shape
    <3> QED BY <2>3, <3>1, <3>2, <3>3 DEF Ahead
  <2>4. \A r \in Peers : s'[r].pc = s[r].pc
    BY <1>1 DEF Shape
  <2> QED BY <1>4, <2>1, <2>2, <2>3, <2>4 DEF Contest
<1>5. Decided'
  BY <1>0, <1>1, <1>2, SMTT(40) DEF Leadership, Decided, Safe, Pending, Declaration, Shape
<1> QED BY <1>2, <1>3, <1>4, <1>5 DEF Leadership, Undecided

LEMMA DeclaredLeads ==
  ASSUME TypeInv, Leadership, NEW m \in net, Receive(m), m.decl
  PROVE  Leadership'
<1> DEFINE p == m.to
           q == m.from
<1>0. m \in Messages /\ p \in Peers /\ q \in Peers /\ q # p
  BY DeclaredOK, Zenon DEF Messages
<1>1. Elected(q)
  BY DEF Leadership, Undecided, Contest, Decided
<1>2. ~s[p].isLeader /\ s[p].pc \in Seeking
  BY <1>0, <1>1 DEF Leadership, Decided, Safe
<1>3. /\ Shape(s'[p], s[p].pc, IF s[p].pc \in {"collect", "lead"} THEN 0 ELSE s[p].timer,
               FALSE, TRUE, s[p].proposals)
      /\ s'[p].yield = s[p].yield /\ s'[p].finalizers = s[p].finalizers
      /\ net' = net \ {m} /\ \A r \in Peers : r # p => s'[r] = s[r]
  BY <1>2, DeclaredOK, Others, Zenon
<1>4. \A r \in Peers : Calm(s'[r])
  BY <1>3 DEF Leadership, Calm, Shape
<1>5. \A r \in Peers : Elected(r)' <=> r = q
  BY <1>0, <1>1, <1>2, <1>3, Alone DEF Elected, Shape, Seeking
<1>6. Decided'
  <2>1. Safe(p, q)'
    BY <1>2, <1>3 DEF Safe, Shape
  <2>2. ASSUME NEW x \in Peers, x # p, x # q PROVE Safe(x, q)'
    <3>1. s'[x] = s[x] /\ s'[q] = s[q] /\ (Declaration(q, x) => Declaration(q, x)') /\ Safe(x, q)
      BY <1>0, <1>1, <1>3, <2>2 DEF Declaration, Leadership, Decided
    <3> QED BY <3>1 DEF Safe, Pending
  <2> QED BY <1>0, <1>1, <1>3, <1>5, <2>1, <2>2 DEF Leadership, Decided
<1> QED BY <1>0, <1>4, <1>5, <1>6 DEF Leadership, Undecided

LEMMA TickLeads ==
  ASSUME TypeInv, Leadership, Tick, net = {}
  PROVE  Leadership'
<1>1. /\ \A p \in Peers :
           /\ Shape(s'[p], s[p].pc,
                    IF s[p].pc \in Sleeping THEN s[p].timer - 1 ELSE s[p].timer,
                    s[p].isLeader, s[p].leaderExists, s[p].proposals)
           /\ s'[p].yield = s[p].yield /\ s'[p].finalizers = s[p].finalizers
           /\ s[p].pc \notin Instant /\ (s[p].pc \in Sleeping => s[p].timer > 0)
      /\ net' = {}
  BY TickOK DEF Tick
<1>2. \A q \in Peers : Elected(q)' <=> Elected(q)
  BY <1>1 DEF Elected, Shape
<1>3. \A q \in Peers : Calm(s'[q])
  BY <1>1 DEF Leadership, Calm, Shape
<1>4. ASSUME Contest PROVE Contest'
  <2>1. \A q \in Peers : s'[q].pc \in Seeking /\ ~s'[q].leaderExists
    BY <1>1, <1>4 DEF Contest, Shape, Seeking
  <2>2. ASSUME NEW q \in Peers, NEW r \in Peers, s[r].pc = "collect", Ahead(q, r)
        PROVE  Ahead(q, r)'
    <3>1. r \in s[q].proposals \/ Due(s[q]) > s[r].timer
      BY <2>2 DEF Ahead, Proposal
    <3>2. s'[r].timer = s[r].timer - 1 /\ s[r].timer \in Nat /\ s[q].timer \in Nat
      BY <1>1, <2>2, NumbersOK DEF Shape, Sleeping
    <3>3. Due(s'[q]) >= Due(s[q]) - 1 /\ Due(s[q]) \in Nat /\ Due(s'[q]) \in Int
      BY <1>1, <3>2, NumbersOK DEF Due, Shape, Sleeping
    <3>4. s'[q].proposals = s[q].proposals
      BY <1>1 DEF Shape
    <3> QED BY <3>1, <3>2, <3>3, <3>4 DEF Ahead
  <2>3. \A r \in Peers : s'[r].pc = s[r].pc
    BY <1>1 DEF Shape
  <2> QED BY <1>1, <1>4, <2>1, <2>2, <2>3 DEF Contest
<1>5. ASSUME NEW q \in Peers, Elected(q) PROVE s[q].pc = "lead"
  BY <1>1, <1>5 DEF Leadership, Decided, Instant
<1>6. ASSUME NEW q \in Peers, Elected(q), NEW x \in Peers, x # q PROVE Safe(x, q)'
  <2>1. Safe(x, q) /\ ~Pending(q, x)
    BY <1>5, <1>6 DEF Leadership, Decided, Pending, Declaration, Sleeping
  <2>2. s[x].pc = "follow" => s'[x].timer = s[x].timer - 1
    BY <1>1 DEF Shape, Sleeping
  <2>3. s'[q].timer = s[q].timer - 1
    BY <1>1, <1>5, <1>6 DEF Shape, Sleeping
  <2>4. s[q].timer \in Nat /\ s[x].timer \in Nat
    BY NumbersOK
  <2> QED BY <1>1, <2>1, <2>2, <2>3, <2>4 DEF Safe, Shape
<1>7. Decided'
  BY <1>1, <1>2, <1>5, <1>6 DEF Leadership, Decided, Shape
<1> QED BY <1>2, <1>3, <1>4, <1>7 DEF Leadership, Undecided

-----------------------------------------------------------------------------
LEMMA IInvInit == Init => IInv
<1> SUFFICES ASSUME Init PROVE IInv
  OBVIOUS
<1>1. /\ \A p \in Peers : /\ s[p].pc = "start" /\ ~s[p].isLeader /\ ~s[p].leaderExists
                          /\ ~s[p].yield /\ s[p].finalizers = 0
      /\ net = {}
  BY DEF Init, Fresh
<1>2. \A p \in Peers : ~Elected(p) /\ Calm(s[p])
  BY <1>1 DEF Elected, Calm
<1>3. Contest
  BY <1>1 DEF Contest, Seeking
<1> QED BY <1>2, <1>3, TypeInit DEF IInv, Leadership, Undecided, Decided

LEMMA IInvNext == IInv /\ [Next]_vars => IInv'
<1> SUFFICES ASSUME IInv, [Next]_vars PROVE IInv'
  OBVIOUS
<1>0. TypeInv /\ TypeInv'
  BY TypeNext DEF IInv
<1> SUFFICES ASSUME faults' = 0 PROVE Leadership'
  BY <1>0 DEF IInv
<1>1. ~Faulty
  BY <1>0, FaultyOK
<1>2. ASSUME NEW p \in Peers, RunStep(p) PROVE Leadership'
  <2>1. Leadership
    BY <1>2, Zenon DEF IInv, RunStep, Start, Run, Collect, BeLeader, Callback, LeaderExists,
                       After, Wake
  <2> QED BY <1>0, <1>2, <2>1, StartLeads, RunOnLeads, RunLeads, GiveUpLeads, CollectLeads,
             BeLeaderLeads, CallbackLeads, LeaderExistsLeads, LeadLeads, FollowLeads, WakeLeads
          DEF RunStep
<1>3. ASSUME NEW p \in Peers,
             ProviderEnds(p) \/ Yield(p) \/ YieldExpires(p) \/ Crash(p) \/ Restart(p)
      PROVE  FALSE
  <2>1. ~ProviderEnds(p) /\ ~Crash(p)
    BY <1>1 DEF ProviderEnds, Crash
  <2>2. Leadership
    BY <1>3, <2>1 DEF IInv, Yield, YieldExpires, Restart
  <2> QED BY <1>3, <2>1, <2>2 DEF Leadership, Calm, Yield, YieldExpires, Restart
<1>4. ASSUME NEW m \in net, Receive(m) \/ Lose(m) PROVE Leadership'
  <2>1. Receive(m)
    BY <1>1, <1>4 DEF Lose
  <2>2. Leadership
    BY <2>1 DEF IInv, Receive
  <2> QED BY <1>0, <2>1, <2>2, ProposedLeads, DeclaredLeads
<1>5. CASE Tick
  <2>1. net = {} /\ Leadership
    BY <1>1, <1>5 DEF IInv, Tick
  <2> QED BY <1>0, <1>5, <2>1, TickLeads
<1>6. CASE Stabilise \/ UNCHANGED vars
  <2>1. UNCHANGED <<s, net, faults>>
    BY <1>6 DEF Stabilise, vars
  <2> QED BY <2>1, SMTT(40) DEF IInv, Leadership, Undecided, Decided, Contest, Elected, Ahead, Safe,
                      Pending, Proposal, Declaration
<1> QED BY <1>2, <1>3, <1>4, <1>5, <1>6 DEF Next

\* a set without two different elements
LEMMA AtMostOne ==
  ASSUME NEW S, \A x, y \in S : x = y
  PROVE  Cardinality(S) <= 1
<1> DEFINE Step(f) == [T \in SUBSET S |-> IF T = {} THEN 0
                                          ELSE 1 + f[T \ {CHOOSE x : x \in T}]]
           CS == CHOOSE f : f = Step(f)
           g == [T \in SUBSET S |-> IF T = {} THEN 0 ELSE 1]
<1>1. \A T \in SUBSET S : T # {} => T \ {CHOOSE x : x \in T} = {}
  OBVIOUS
<1>2. g = Step(g)
  BY <1>1
<1> HIDE DEF g
<1>3. CS = Step(CS)
  BY <1>2, ZenonT(60)
<1>4. Cardinality(S) = CS[S]
  BY DEF Cardinality
<1> HIDE DEF CS
<1>5. CS[{}] = 0 /\ (S # {} => CS[S] = 1 + CS[{}])
  BY <1>1, <1>3
<1> QED BY <1>4, <1>5

\* As long as nothing goes wrong no two peers of any set are the leader at once, whatever
\* LeaderElectionDuration is and as soon as LeaderAliveThreshold is two units: of two
\* candidates one hears of the other before it decides, and a leader declares itself
\* again before a follower gives up on it.
THEOREM OneLeaderAtATime == Spec => []AtMostOneLeader
<1>1. IInv => AtMostOneLeader
  <2> SUFFICES ASSUME IInv, faults = 0 PROVE Cardinality(Leaders) <= 1
    BY DEF AtMostOneLeader
  <2>1. \A p, q \in Leaders : p = q
    BY Alone DEF IInv, Leaders, Elected
  <2> QED BY <2>1, AtMostOne
<1> QED BY <1>1, IInvInit, IInvNext, PTL DEF Spec
====
