---------------------------- MODULE ChainProofs ----------------------------
(***************************************************************************)
(* The types of the chain, for every number of envelopes, configurations,  *)
(* elections and blocks of other leaders, and for channels of any          *)
(* capacity.                                                               *)
(***************************************************************************)
EXTENDS Chain, FiniteSetTheorems, TLAPS

---------------------------------------------------------------------------
(* Sequences.                                                              *)

LEMMA SingleSeq ==
    ASSUME NEW S, NEW x \in S
    PROVE  <<x>> \in Seq(S) /\ Len(<<x>>) = 1 /\ <<x>>[1] = x /\ <<x>> # <<>>
OBVIOUS

LEMMA HeadTailSeq ==
    ASSUME NEW S, NEW s \in Seq(S), s # <<>>
    PROVE  /\ Head(s) \in S /\ Tail(s) \in Seq(S) /\ Len(Tail(s)) = Len(s) - 1
           /\ Len(s) \in Nat \ {0} /\ Head(s) = s[1]
           /\ \A i \in 1..Len(Tail(s)) : Tail(s)[i] = s[i + 1]
OBVIOUS

LEMMA AppendSeq ==
    ASSUME NEW S, NEW s \in Seq(S), NEW x \in S
    PROVE  /\ Append(s, x) \in Seq(S) /\ Len(Append(s, x)) = Len(s) + 1 /\ Append(s, x) # <<>>
           /\ Len(s) \in Nat /\ DOMAIN s = 1..Len(s) /\ DOMAIN Append(s, x) = 1..(Len(s) + 1)
           /\ Append(s, x)[Len(s) + 1] = x /\ \A i \in 1..Len(s) : Append(s, x)[i] = s[i]
<1>1. Append(s, x) \in Seq(S) /\ Len(Append(s, x)) = Len(s) + 1 /\ Len(s) \in Nat
  OBVIOUS
<1>2. Len(Append(s, x)) # 0
  BY <1>1
<1>3. /\ DOMAIN s = 1..Len(s) /\ DOMAIN Append(s, x) = 1..(Len(s) + 1)
      /\ Append(s, x)[Len(s) + 1] = x /\ \A i \in 1..Len(s) : Append(s, x)[i] = s[i]
  OBVIOUS
<1> QED
  BY <1>1, <1>2, <1>3

LEMMA ConcatSeq ==
    ASSUME NEW S, NEW s \in Seq(S), NEW t \in Seq(S)
    PROVE  s \o t \in Seq(S) /\ Len(s \o t) = Len(s) + Len(t)
OBVIOUS

LEMMA ExceptSeq ==
    ASSUME NEW S, NEW s \in Seq(S), NEW i \in DOMAIN s, NEW x \in S
    PROVE  /\ [s EXCEPT ![i] = x] \in Seq(S) /\ [s EXCEPT ![i] = x] # <<>>
           /\ DOMAIN [s EXCEPT ![i] = x] = DOMAIN s /\ Len([s EXCEPT ![i] = x]) = Len(s)
           /\ [s EXCEPT ![i] = x][i] = x
           /\ \A j \in DOMAIN s \ {i} : [s EXCEPT ![i] = x][j] = s[j]
<1>1. s \in [1..Len(s) -> S] /\ Len(s) \in Nat /\ DOMAIN s = 1..Len(s)
  OBVIOUS
<1> DEFINE t == [s EXCEPT ![i] = x]
<1>2. /\ t \in [1..Len(s) -> S] /\ DOMAIN t = DOMAIN s /\ t[i] = x
      /\ \A j \in DOMAIN s \ {i} : t[j] = s[j]
  BY <1>1
<1> HIDE DEF t
<1>3. t \in Seq(S) /\ Len(t) = Len(s)
  BY <1>1, <1>2
<1>4. t # <<>>
  BY <1>2
<1> QED
  BY <1>2, <1>3, <1>4 DEF t

\* a subset is one of sequences
LEMMA SeqSubset == ASSUME NEW S, NEW T, S \subseteq T PROVE Seq(S) \subseteq Seq(T)
OBVIOUS

\* Orders(S) holds sequences over S without repetition.
LEMMA OrdersSeq ==
    ASSUME NEW S, NEW r \in Orders(S)
    PROVE  /\ r \in Seq(S) /\ DOMAIN r = 1..Len(r)
           /\ \A i, j \in 1..Len(r) : r[i] = r[j] => i = j
<1>1. PICK n \in 0..Cardinality(S) :
              r \in {s \in [1..n -> S] : \A i, j \in 1..n : s[i] = s[j] => i = j}
  BY DEF Orders
<1>2. n \in Nat /\ r \in [1..n -> S]
  BY <1>1
<1>3. r \in Seq(S) /\ Len(r) = n
  BY <1>2
<1> QED
  BY <1>1, <1>2, <1>3

---------------------------------------------------------------------------
(* The committed entries that wait on applyC are in the log.               *)

Due(s) == {i \in DOMAIN s : s[i].entry}
Reports == [lead : BOOLEAN, entry : BOOLEAN]

LEMMA DueFinite ==
    ASSUME NEW s \in Seq(Reports)
    PROVE  IsFiniteSet(Due(s)) /\ Cardinality(Due(s)) \in Nat
<1>1. IsFiniteSet(1..Len(s)) /\ Due(s) \in SUBSET (1..Len(s))
  BY FS_Interval DEF Due
<1> QED
  BY <1>1, FS_Subset, FS_CardinalityType

LEMMA DueAppend ==
    ASSUME NEW s \in Seq(Reports), NEW a \in Reports
    PROVE  /\ a.entry => Cardinality(Due(Append(s, a))) = Cardinality(Due(s)) + 1
           /\ ~a.entry => Cardinality(Due(Append(s, a))) = Cardinality(Due(s))
<1>1. /\ Len(s) \in Nat /\ DOMAIN s = 1..Len(s) /\ DOMAIN Append(s, a) = 1..(Len(s) + 1)
      /\ Append(s, a)[Len(s) + 1] = a /\ \A i \in 1..Len(s) : Append(s, a)[i] = s[i]
  OBVIOUS
<1>2. Len(s) + 1 \notin Due(s)
  BY <1>1 DEF Due
<1>3. CASE a.entry
  <2>1. Due(Append(s, a)) = Due(s) \cup {Len(s) + 1}
    BY <1>1, <1>3 DEF Due
  <2> QED
    BY <2>1, <1>2, <1>3, DueFinite, FS_AddElement, Zenon
<1>4. CASE ~a.entry
  <2>1. Due(Append(s, a)) = Due(s)
    BY <1>1, <1>4 DEF Due
  <2> QED
    BY <2>1, <1>4
<1> QED
  BY <1>3, <1>4

LEMMA DueTail ==
    ASSUME NEW s \in Seq(Reports), s # <<>>
    PROVE  /\ Head(s).entry => Cardinality(Due(Tail(s))) = Cardinality(Due(s)) - 1
           /\ ~Head(s).entry => Cardinality(Due(Tail(s))) = Cardinality(Due(s))
<1>1. /\ Len(s) \in Nat \ {0} /\ DOMAIN s = 1..Len(s) /\ Tail(s) \in Seq(Reports)
      /\ Head(s) = s[1] /\ DOMAIN Tail(s) = 1..(Len(s) - 1)
      /\ \A i \in 1..(Len(s) - 1) : Tail(s)[i] = s[i + 1]
  OBVIOUS
<1> DEFINE S == Due(Tail(s))
           T == Due(s) \ {1}
           f == [i \in S |-> i + 1]
<1>2. f \in Bijection(S, T)
  <2>1. \A i \in S : i \in 1..(Len(s) - 1) /\ i + 1 \in T
    BY <1>1 DEF Due
  <2>2. \A j \in T : j - 1 \in S /\ f[j - 1] = j
    BY <1>1 DEF Due
  <2>3. \A i, j \in S : f[i] = f[j] => i = j
    BY <2>1
  <2> QED
    BY <2>1, <2>2, <2>3, Zenon DEF Bijection, Injection, Surjection, IsInjective
<1>3. IsFiniteSet(S) /\ Cardinality(T) = Cardinality(S)
  BY <1>1, <1>2, DueFinite, FS_Bijection, Zenon DEF ExistsBijection
<1>4. Cardinality(T) = IF 1 \in Due(s) THEN Cardinality(Due(s)) - 1 ELSE Cardinality(Due(s))
  BY DueFinite, FS_RemoveElement, Zenon
<1>5. 1 \in Due(s) <=> Head(s).entry
  BY <1>1 DEF Due
<1> QED
  BY <1>3, <1>4, <1>5

---------------------------------------------------------------------------
(* Types.                                                                  *)

\* A proposer exists as soon as there is a block creator, and the committed entries that
\* serveRequest has still to apply are in the log.
Sound == /\ c.leads \/ c.justElected \/ c.bc # NoCreator => proposers # <<>>
         /\ Cardinality(Due(applyC)) <= Len(log)
         /\ Configs = {} => pc # "cut"

\* what serveRequest does to the state of the chain is well typed, and needs a proposer
\* only where one was started
NeedsProposer(d) == d.leads \/ d.justElected \/ d.bc # NoCreator

LEMMA StateSteps ==
    ASSUME NEW d \in ChainState
    PROVE  /\ Pause(d) \in ChainState /\ StartTimer(d) \in ChainState /\ StopTimer(d) \in ChainState
           /\ BecomeLeader(d) \in ChainState /\ BecomeFollower(d) \in ChainState
           /\ NeedsProposer(Pause(d)) => NeedsProposer(d)
           /\ NeedsProposer(StartTimer(d)) => NeedsProposer(d)
           /\ NeedsProposer(StopTimer(d)) => NeedsProposer(d)
           /\ NeedsProposer(BecomeFollower(d)) => NeedsProposer(d)
<1>1. Pause(d) \in ChainState /\ (NeedsProposer(Pause(d)) => NeedsProposer(d))
  BY ZenonT(60) DEF Pause, ChainState, NeedsProposer
<1>2. StartTimer(d) \in ChainState /\ (NeedsProposer(StartTimer(d)) => NeedsProposer(d))
  BY DEF StartTimer, ChainState, NeedsProposer
<1>3. StopTimer(d) \in ChainState /\ (NeedsProposer(StopTimer(d)) => NeedsProposer(d))
  BY DEF StopTimer, ChainState, NeedsProposer
<1>4. BecomeLeader(d) \in ChainState
  BY Zenon DEF BecomeLeader, ChainState
<1>5. BecomeFollower(d) \in ChainState /\ (NeedsProposer(BecomeFollower(d)) => NeedsProposer(d))
  BY Zenon DEF BecomeFollower, StopTimer, ChainState, NeedsProposer, NoCreator
<1> QED
  BY <1>1, <1>2, <1>3, <1>4, <1>5

LEMMA ApplySteps ==
    ASSUME NEW d \in ChainState, NEW e \in Entries
    PROVE  /\ ApplyEntry(d, e) \in ChainState
           /\ NeedsProposer(ApplyEntry(d, e)) => NeedsProposer(d)
<1>1. CASE e.kind = "empty"
  BY <1>1 DEF ApplyEntry
<1>2. CASE e.kind = "conf"
  BY <1>2, Zenon DEF ApplyEntry, ChainState, NeedsProposer
<1>3. CASE e.kind = "block"
  <2> DEFINE b == e.block
             w == [d EXCEPT !.blockInflight = IF @ > 0 THEN @ - 1 ELSE @, !.ledger = Append(@, b)]
  <2>1. b \in Blocks
    BY <1>3 DEF Entries
  <2>2. b.num \in Nat /\ b.config \in {"no", "plain", "member"} /\ d.ledger \in Seq(Blocks)
        /\ Append(d.ledger, b) \in Seq(Blocks)
    BY <2>1, AppendSeq DEF Blocks, ChainState
  <2>3. ApplyEntry(d, e) = WriteBlock(d, b)
    BY <1>3 DEF ApplyEntry
  <2> HIDE DEF b
  <2>4. w \in ChainState /\ (NeedsProposer(w) => NeedsProposer(d))
    <3> DEFINE n == IF d.blockInflight > 0 THEN d.blockInflight - 1 ELSE d.blockInflight
               l == Append(d.ledger, b)
    <3>1. n \in Nat
      BY DEF ChainState
    <3>2. w = [d EXCEPT !.blockInflight = n, !.ledger = l] /\ l \in Seq(Blocks)
      BY <2>2 DEF ChainState
    <3> HIDE DEF n, l, w
    <3> QED
      BY <3>1, <3>2, Zenon DEF ChainState, NeedsProposer
  <2>5. CASE b.num > Len(d.ledger) + 1
    <3>1. [d EXCEPT !.panic = "gap"] \in ChainState
           /\ (NeedsProposer([d EXCEPT !.panic = "gap"]) => NeedsProposer(d))
      BY DEF ChainState, NeedsProposer
    <3> QED
      BY <3>1, <2>2, <2>3, <2>5 DEF WriteBlock
  <2>6. CASE b.num < Len(d.ledger) + 1
    BY <2>2, <2>3, <2>6 DEF WriteBlock
  <2>7. CASE b.num = Len(d.ledger) + 1
    <3>1. WriteBlock(d, b) = IF b.config = "no" THEN w ELSE WriteConfigBlock(w, b)
      BY <2>2, <2>7 DEF WriteBlock
    <3>2. WriteConfigBlock(w, b) \in ChainState /\ (NeedsProposer(WriteConfigBlock(w, b)) => NeedsProposer(d))
      <4> HIDE DEF w
      <4> QED
        BY <2>4, ZenonT(60) DEF WriteConfigBlock, ChainState, NeedsProposer
    <3> QED
      BY <2>3, <2>4, <3>1, <3>2
  <2> QED
    BY <2>2, <2>5, <2>6, <2>7 DEF ChainState
<1> QED
  BY <1>1, <1>2, <1>3 DEF Entries

LEMMA ServeStep ==
    ASSUME NEW d \in ChainState, NEW done \in BOOLEAN
    PROVE  Serve(d, done) \in ChainState /\ (NeedsProposer(Serve(d, done)) => NeedsProposer(d))
<1>1. CASE d.justElected /\ (~done \/ d.configInflight)
  BY <1>1 DEF Serve
<1>2. CASE d.justElected /\ done /\ ~d.configInflight
  <2> DEFINE n == Len(d.ledger)
  <2>1. n \in Nat
    BY DEF ChainState
  <2>2. Serve(d, done) = [d EXCEPT !.bc = n, !.accepting = TRUE, !.justElected = FALSE]
    BY <1>2 DEF Serve
  <2> HIDE DEF n
  <2> QED
    BY <1>2, <2>1, <2>2, ZenonT(60) DEF ChainState, NeedsProposer
<1>3. CASE ~d.justElected /\ d.configInflight
  BY <1>3, Zenon DEF Serve, ChainState, NeedsProposer
<1>4. CASE ~d.justElected /\ ~d.configInflight
  BY <1>4, Zenon DEF Serve, ChainState, NeedsProposer
<1> QED
  BY <1>1, <1>2, <1>3, <1>4 DEF ChainState

\* the parts of the type invariant
ServeOK ==
    /\ submits \subseteq Txs \cup Configs
    /\ c \in ChainState
    /\ pc \in {"select", "send", "cut", "commit", "submit", "panic"}
    /\ pc = "send" => arg \in Seq(Txs \cup {Tick}) /\ Len(arg) = 1
    /\ pc \in {"cut", "commit", "submit"} => arg \in Seq(Batches) /\ arg # <<>>
    /\ pc \in {"select", "panic"} => arg = <<>>
    /\ confC \in BOOLEAN
    /\ created \in Seq(Blocks)
    /\ accepted \subseteq Txs \cup Configs

CutterOK ==
    /\ RaftEnvMsgC \in Seq(Txs \cup {Tick}) /\ Len(RaftEnvMsgC) <= EnvMsgCap
    /\ held \subseteq Txs
    /\ ReadyBatch \in Seq(Txs) /\ released \in Seq(Txs)
    /\ out \in Seq(Seq(Txs)) /\ Len(out) <= 1
    /\ CommitC \in Seq(Seq(Txs)) /\ Len(CommitC) <= CommitCap

RaftOK ==
    /\ proposers \in Seq(Proposers)
    /\ \A i \in DOMAIN proposers : /\ Len(proposers[i].ch) <= MaxInflightBlocks
                                   /\ Len(proposers[i].hand) <= 1
    /\ raft \in {"leader", "follower", "none"} /\ sent \in BOOLEAN /\ elections \in 0..MaxElections
    /\ log \in Seq(Entries)
    /\ applyC \in Seq(Reports) /\ Len(applyC) <= ApplyCap

TypeInv == ServeOK /\ CutterOK /\ RaftOK /\ Sound

LEMMA TypeParts == TypeInv => ChainTypeOK
BY DEF TypeInv, ChainTypeOK, ServeOK, CutterOK, RaftOK, Reports

LEMMA CutterSame == CutterOK /\ UNCHANGED cutter => CutterOK'
BY DEF CutterOK, cutter

LEMMA RaftSame == RaftOK /\ UNCHANGED <<proposers, library, applyC>> => RaftOK'
BY DEF RaftOK, library

\* Steps of serveRequest that start no proposer and leave raft and applyC alone.
LEMMA SoundSame ==
    ASSUME Sound, UNCHANGED <<proposers, library, applyC>>, NeedsProposer(c') => NeedsProposer(c),
           Configs = {} => pc' # "cut"
    PROVE  Sound'
BY DEF Sound, library, NeedsProposer

\* Steps that change one proposer, and may append to the log.
LEMMA OneProposer ==
    ASSUME RaftOK, NEW i \in DOMAIN proposers, NEW p \in Proposers,
           Len(p.ch) <= MaxInflightBlocks, Len(p.hand) <= 1,
           proposers' = [proposers EXCEPT ![i] = p], log' \in Seq(Entries),
           UNCHANGED <<raft, sent, elections, applyC>>
    PROVE  RaftOK' /\ proposers' # <<>>
<1>1. /\ proposers' \in Seq(Proposers) /\ proposers' # <<>> /\ DOMAIN proposers' = DOMAIN proposers
      /\ proposers'[i] = p /\ \A j \in DOMAIN proposers \ {i} : proposers'[j] = proposers[j]
  BY ExceptSeq DEF RaftOK
<1> QED
  BY <1>1 DEF RaftOK

LEMMA Bounds == /\ MaxMessageCount \in Nat \ {0} /\ MaxInflightBlocks \in Nat \ {0}
                /\ EnvMsgCap \in Nat \ {0} /\ CommitCap \in Nat \ {0} /\ ApplyCap \in Nat \ {0}
                /\ MaxElections \in Nat /\ MaxForeign \in Nat /\ Racing \in BOOLEAN
BY ChainAssumption, Zenon

LEMMA InitTypes == Init => TypeInv
<1> SUFFICES ASSUME Init PROVE ServeOK /\ CutterOK /\ RaftOK /\ Sound
  BY DEF TypeInv
<1>1. /\ c = [leads |-> FALSE, accepting |-> TRUE, timer |-> "stopped", bc |-> NoCreator,
             blockInflight |-> 0, justElected |-> FALSE, configInflight |-> FALSE,
             confChange |-> FALSE, ledger |-> <<>>, panic |-> "no"]
      /\ pc = "select" /\ arg = <<>> /\ proposers = <<>> /\ log = <<>> /\ applyC = <<>>
      /\ raft = "none" /\ sent = FALSE /\ elections = 0
      /\ confC = FALSE /\ created = <<>> /\ accepted = {}
  BY DEF Init
<1>2. \A S : <<>> \in Seq(S)
  OBVIOUS
<1>3. c \in ChainState /\ ~NeedsProposer(c)
  BY <1>1, <1>2 DEF ChainState, NeedsProposer
<1>4. ServeOK
  <2>1. submits \subseteq Txs \cup Configs
    BY ChainAssumption DEF Init
  <2> QED
    BY <1>1, <1>2, <1>3, <2>1, Zenon DEF ServeOK
<1>5. CutterOK
  BY Bounds DEF Init, CutterOK
<1>6. RaftOK
  <2>1. DOMAIN proposers = {} /\ Len(applyC) = 0
    BY <1>1
  <2>2. elections \in 0..MaxElections /\ Len(applyC) <= ApplyCap
    BY <1>1, <2>1, Bounds
  <2>3. proposers \in Seq(Proposers) /\ log \in Seq(Entries) /\ applyC \in Seq(Reports)
    BY <1>1, <1>2
  <2> QED
    BY <1>1, <2>1, <2>2, <2>3, Zenon DEF RaftOK
<1>7. Sound
  <2>1. Due(applyC) = {} /\ Len(log) = 0
    BY <1>1 DEF Due
  <2>2. Cardinality(Due(applyC)) <= Len(log)
    BY <2>1, FS_EmptySet
  <2> QED
    BY <1>1, <1>3, <2>2 DEF Sound, NeedsProposer
<1> QED
  BY <1>4, <1>5, <1>6, <1>7

LEMMA SubmitTypes == TypeInv /\ Submit => TypeInv'
<1> SUFFICES ASSUME ServeOK, CutterOK, RaftOK, Sound, Submit PROVE ServeOK' /\ CutterOK' /\ RaftOK' /\ Sound'
  BY DEF TypeInv
<1>1. PICK m \in submits : submits' = submits \ {m} /\ (Refuse(m) \/ OrderNormal(m) \/ OrderConfig(m))
  BY DEF Submit
<1>2. /\ UNCHANGED <<RaftEnvMsgC, held, out, CommitC, released, proposers, library, applyC, confC, created>>
      /\ UNCHANGED ReadyBatch /\ pc = "select"
  BY <1>1 DEF Submit, Refuse, OrderNormal, OrderConfig
<1>3. CutterOK' /\ RaftOK'
  BY <1>2, CutterSame, RaftSame DEF cutter
<1>4. m \in Txs \cup Configs
  BY <1>1 DEF ServeOK
<1>5. CASE Refuse(m)
  <2>1. ServeOK'
    BY <1>1, <1>2, <1>5 DEF Refuse, ServeOK
  <2> QED
    BY <1>2, <1>3, <1>5, <2>1, SoundSame DEF Refuse
<1>6. CASE OrderNormal(m)
  <2>1. <<m>> \in Seq(Txs \cup {Tick}) /\ Len(<<m>>) = 1
    BY <1>6 DEF OrderNormal
  <2>2. ServeOK'
    BY <1>1, <1>2, <1>4, <1>6, <2>1 DEF OrderNormal, Accept, ServeOK
  <2> QED
    BY <1>2, <1>3, <1>6, <2>2, SoundSame DEF OrderNormal
<1>7. CASE OrderConfig(m)
  <2> DEFINE cut == IF ReadyBatch = <<>> THEN <<>> ELSE <<Batch(ReadyBatch)>>
  <2>1. ConfigBatch(m) \in Batches
    BY <1>7 DEF ConfigBatch, Batches, OrderConfig
  <2>2. ReadyBatch \in Seq(Txs \cup Configs)
    BY SeqSubset DEF CutterOK
  <2>3. Batch(ReadyBatch) \in Batches
    BY <2>2 DEF Batch, Batches
  <2>4. cut \in Seq(Batches)
    BY <2>3
  <2> HIDE DEF cut
  <2>5. cut \o <<ConfigBatch(m)>> \in Seq(Batches) /\ cut \o <<ConfigBatch(m)>> # <<>>
    <3>1. <<ConfigBatch(m)>> \in Seq(Batches) /\ Len(<<ConfigBatch(m)>>) = 1
      BY <2>1
    <3>2. /\ cut \o <<ConfigBatch(m)>> \in Seq(Batches)
          /\ Len(cut \o <<ConfigBatch(m)>>) = Len(cut) + 1 /\ Len(cut) \in Nat
      BY <2>4, <3>1, ConcatSeq
    <3>3. Len(cut \o <<ConfigBatch(m)>>) # 0
      BY <3>2
    <3> QED
      BY <3>2, <3>3
  <2>6. pc' = "cut" /\ arg' = cut \o <<ConfigBatch(m)>> /\ c' = StopTimer(c) /\ m \in Configs
        /\ accepted' = accepted \cup {m}
    BY <1>7 DEF OrderConfig, Accept, cut
  <2>7. c' \in ChainState /\ (NeedsProposer(c') => NeedsProposer(c))
    BY <2>6, StateSteps DEF ServeOK
  <2>8. ServeOK'
    BY <1>1, <1>2, <2>5, <2>6, <2>7 DEF ServeOK
  <2> QED
    BY <1>2, <1>3, <2>6, <2>7, <2>8, SoundSame
<1> QED
  BY <1>1, <1>5, <1>6, <1>7

LEMMA ResetBatchTypes == TypeInv /\ ResetBatch => TypeInv'
<1> SUFFICES ASSUME ServeOK, CutterOK, RaftOK, Sound, ResetBatch
             PROVE  ServeOK' /\ CutterOK' /\ RaftOK' /\ Sound'
  BY DEF TypeInv
<1>1. /\ pc = "cut" /\ pc' = "submit" /\ ReadyBatch' = <<>>
      /\ UNCHANGED <<submits, c, arg, confC, created, accepted>>
      /\ UNCHANGED <<proposers, library, applyC>>
      /\ UNCHANGED <<RaftEnvMsgC, held, out, CommitC, released>>
  BY DEF ResetBatch, AfterCut
<1>2. ServeOK'
  BY <1>1 DEF ServeOK
<1>3. CutterOK'
  BY <1>1 DEF CutterOK
<1> QED
  BY <1>1, <1>2, <1>3, RaftSame, SoundSame

LEMMA SendEnvMsgTypes == TypeInv /\ SendEnvMsg => TypeInv'
<1> SUFFICES ASSUME ServeOK, CutterOK, RaftOK, Sound, SendEnvMsg
             PROVE  ServeOK' /\ CutterOK' /\ RaftOK' /\ Sound'
  BY DEF TypeInv
<1>1. /\ pc = "send" /\ pc' = "select" /\ arg' = <<>> /\ Len(RaftEnvMsgC) < EnvMsgCap
      /\ RaftEnvMsgC' = RaftEnvMsgC \o arg
      /\ c' = IF arg = <<Tick>> THEN c ELSE Pause(StartTimer(c))
      /\ UNCHANGED <<submits, confC, created, accepted>>
      /\ UNCHANGED <<proposers, library, applyC>>
      /\ UNCHANGED <<held, ReadyBatch, out, CommitC, released>>
  BY DEF SendEnvMsg
<1>2. c' \in ChainState /\ (NeedsProposer(c') => NeedsProposer(c))
  BY <1>1, StateSteps DEF ServeOK
<1>3. ServeOK'
  BY <1>1, <1>2 DEF ServeOK
<1>4. RaftEnvMsgC' \in Seq(Txs \cup {Tick}) /\ Len(RaftEnvMsgC') <= EnvMsgCap
  <2>1. arg \in Seq(Txs \cup {Tick}) /\ Len(arg) = 1 /\ RaftEnvMsgC \in Seq(Txs \cup {Tick})
    BY <1>1 DEF ServeOK, CutterOK
  <2>2. /\ RaftEnvMsgC \o arg \in Seq(Txs \cup {Tick})
        /\ Len(RaftEnvMsgC \o arg) = Len(RaftEnvMsgC) + Len(arg)
    BY <2>1, ConcatSeq, Zenon
  <2>3. Len(RaftEnvMsgC) \in Nat
    BY <2>1
  <2> QED
    BY <1>1, <2>1, <2>2, <2>3, Bounds
<1>5. CutterOK'
  BY <1>1, <1>4 DEF CutterOK
<1> QED
  BY <1>1, <1>2, <1>3, <1>5, RaftSame, SoundSame

LEMMA TakeBatchTypes == TypeInv /\ TakeBatch => TypeInv'
<1> SUFFICES ASSUME ServeOK, CutterOK, RaftOK, Sound, TakeBatch
             PROVE  ServeOK' /\ CutterOK' /\ RaftOK' /\ Sound'
  BY DEF TypeInv
<1>1. /\ pc' = "commit" /\ arg' = <<Batch(Head(CommitC))>> /\ CommitC # <<>>
      /\ CommitC' = Tail(CommitC) /\ c' = StopTimer(c)
      /\ UNCHANGED <<submits, confC, created, accepted>>
      /\ UNCHANGED <<proposers, library, applyC>>
      /\ UNCHANGED <<RaftEnvMsgC, held, ReadyBatch, out, released>>
  BY DEF TakeBatch
<1>2. c' \in ChainState /\ (NeedsProposer(c') => NeedsProposer(c))
  BY <1>1, StateSteps DEF ServeOK
<1>3. /\ Head(CommitC) \in Seq(Txs) /\ Tail(CommitC) \in Seq(Seq(Txs))
      /\ Len(Tail(CommitC)) = Len(CommitC) - 1
  BY <1>1, HeadTailSeq DEF CutterOK
<1>4. Batch(Head(CommitC)) \in Batches
  <2>1. Head(CommitC) \in Seq(Txs \cup Configs)
    BY <1>3, SeqSubset
  <2> QED
    BY <2>1 DEF Batch, Batches
<1>5. arg' \in Seq(Batches) /\ arg' # <<>>
  BY <1>1, <1>4, SingleSeq
<1>6. ServeOK'
  BY <1>1, <1>2, <1>5 DEF ServeOK
<1>7. Len(CommitC') <= CommitCap
  BY <1>1, <1>3, Bounds DEF CutterOK
<1>8. CutterOK'
  BY <1>1, <1>3, <1>7 DEF CutterOK
<1> QED
  BY <1>1, <1>2, <1>6, <1>8, RaftSame, SoundSame

LEMMA TimerTypes == TypeInv /\ (TimerCase \/ TimerFires) => TypeInv'
<1> SUFFICES ASSUME ServeOK, CutterOK, RaftOK, Sound, TimerCase \/ TimerFires
             PROVE  ServeOK' /\ CutterOK' /\ RaftOK' /\ Sound'
  BY DEF TypeInv
<1>1. CASE TimerCase
  <2>1. /\ pc' = "send" /\ arg' = <<Tick>> /\ c' = StopTimer(c) /\ UNCHANGED cutter
        /\ UNCHANGED <<submits, confC, created, accepted>>
        /\ UNCHANGED <<proposers, library, applyC>>
    BY <1>1 DEF TimerCase
  <2>2. c' \in ChainState /\ (NeedsProposer(c') => NeedsProposer(c))
    BY <2>1, StateSteps DEF ServeOK
  <2>3. arg' \in Seq(Txs \cup {Tick}) /\ Len(arg') = 1
    BY <2>1, SingleSeq
  <2>4. ServeOK'
    BY <2>1, <2>2, <2>3 DEF ServeOK
  <2> QED
    BY <2>1, <2>2, <2>4, CutterSame, RaftSame, SoundSame
<1>2. CASE TimerFires
  <2>1. /\ c' = [c EXCEPT !.timer = "fired"] /\ UNCHANGED cutter
        /\ UNCHANGED <<submits, pc, arg, confC, created, accepted>>
        /\ UNCHANGED <<proposers, library, applyC>>
    BY <1>2 DEF TimerFires
  <2>2. c' \in ChainState /\ (NeedsProposer(c') => NeedsProposer(c))
    BY <2>1, SMTT(40) DEF ServeOK, ChainState, NeedsProposer
  <2>3. ServeOK' /\ (Configs = {} => pc' # "cut")
    BY <2>1, <2>2 DEF ServeOK, Sound
  <2> QED
    BY <2>1, <2>2, <2>3, CutterSame, RaftSame, SoundSame
<1> QED
  BY <1>1, <1>2

LEMMA ProposeTypes == TypeInv /\ Propose => TypeInv'
<1> SUFFICES ASSUME ServeOK, CutterOK, RaftOK, Sound, Propose
             PROVE  ServeOK' /\ CutterOK' /\ RaftOK' /\ Sound'
  BY DEF TypeInv
<1> DEFINE block == [num |-> c.bc + 1, txs |-> Head(arg).txs, config |-> Head(arg).config]
           d == [c EXCEPT !.bc = @ + 1, !.blockInflight = @ + 1,
                          !.configInflight = @ \/ block.config # "no"]
<1>1. /\ UNCHANGED cutter /\ UNCHANGED <<submits, confC, accepted>> /\ UNCHANGED <<library, applyC>>
      /\ pc \in {"commit", "submit"} /\ arg \in Seq(Batches) /\ arg # <<>>
      /\ c \in ChainState
  BY DEF Propose, ServeOK
<1>2. CutterOK'
  BY <1>1, CutterSame
<1>3. CASE c.bc = NoCreator
  <2>1. /\ c' = [c EXCEPT !.panic = "nil"] /\ pc' = "panic" /\ arg' = <<>>
        /\ UNCHANGED <<proposers, created>>
    BY <1>3 DEF Propose
  <2>2. c' \in ChainState /\ (NeedsProposer(c') => NeedsProposer(c))
    BY <1>1, <2>1 DEF ChainState, NeedsProposer
  <2>3. ServeOK'
    BY <1>1, <2>1, <2>2 DEF ServeOK
  <2> QED
    BY <1>1, <1>2, <2>1, <2>2, <2>3, RaftSame, SoundSame
<1>4. CASE c.bc # NoCreator
  <2>1. block \in Blocks
    <3>1. Head(arg) \in Batches
      BY <1>1, HeadTailSeq
    <3>2. Head(arg).txs \in Seq(Txs \cup Configs) /\ Head(arg).config \in {"no", "plain", "member"}
      BY <3>1 DEF Batches
    <3>3. c.bc + 1 \in Nat \ {0}
      BY <1>1, <1>4 DEF ChainState
    <3> QED
      BY <3>2, <3>3 DEF Blocks
  <2>2. d \in ChainState
    <3> DEFINE n == c.bc + 1
               k == c.blockInflight + 1
               g == c.configInflight \/ block.config # "no"
    <3>1. n \in Nat /\ k \in Nat
      BY <1>1, <1>4 DEF ChainState
    <3>2. d = [c EXCEPT !.bc = n, !.blockInflight = k, !.configInflight = g]
      BY <1>1 DEF ChainState
    <3>3. g \in BOOLEAN
      BY Zenon
    <3> HIDE DEF n, k, g, d
    <3> QED
      BY <1>1, <3>1, <3>2, <3>3, Zenon DEF ChainState
  <2>3. Append(created, block) \in Seq(Blocks)
    BY <2>1, AppendSeq DEF ServeOK
  <2>4. proposers # <<>> /\ Leadership \in DOMAIN proposers /\ proposers[Leadership] \in Proposers
    <3>1. proposers # <<>> /\ proposers \in Seq(Proposers)
      BY <1>4 DEF Sound, RaftOK
    <3> QED
      BY <3>1 DEF Leadership
  <2>5. CASE Len(PropC) >= MaxInflightBlocks
    <3>1. /\ c' = [c EXCEPT !.panic = "limit"] /\ pc' = "panic" /\ arg' = <<>>
          /\ created' = Append(created, block) /\ UNCHANGED proposers
      <4>1. Len(PropC) \in Nat
        BY <2>4 DEF PropC, Proposers
      <4> QED
        BY <1>4, <2>5, <4>1, Bounds DEF Propose
    <3>2. c' \in ChainState /\ (NeedsProposer(c') => NeedsProposer(c))
      BY <1>1, <3>1, Zenon DEF ChainState, NeedsProposer
    <3>3. ServeOK'
      BY <1>1, <2>3, <3>1, <3>2 DEF ServeOK
    <3> QED
      BY <1>1, <1>2, <3>1, <3>2, <3>3, RaftSame, SoundSame
  <2>6. CASE ~(Len(PropC) >= MaxInflightBlocks)
    <3>1. /\ proposers' = [proposers EXCEPT ![Leadership].ch = Append(@, block)]
          /\ created' = Append(created, block) /\ arg' = Tail(arg)
          /\ \/ Len(arg) = 1 /\ pc' = "select" /\ c' = IF pc = "submit" THEN Pause(d) ELSE d
             \/ Len(arg) > 1 /\ pc' = pc /\ c' = d
      BY <1>4, <2>6 DEF Propose
    <3> HIDE DEF d
    <3>2. c' \in ChainState
      BY <2>2, <3>1, StateSteps
    <3>3. Tail(arg) \in Seq(Batches) /\ Len(Tail(arg)) = Len(arg) - 1 /\ Len(arg) \in Nat
      BY <1>1, HeadTailSeq
    <3>4. ServeOK'
      <4>1. CASE Len(arg) = 1
        <5>1. Tail(arg) = <<>> /\ pc' = "select"
          BY <3>1, <3>3, <4>1
        <5> QED
          BY <1>1, <2>3, <3>1, <3>2, <5>1 DEF ServeOK
      <4>2. CASE Len(arg) > 1
        <5>1. Tail(arg) # <<>> /\ pc' = pc
          BY <3>1, <3>3, <4>2
        <5> QED
          BY <1>1, <2>3, <3>1, <3>2, <3>3, <5>1 DEF ServeOK
      <4> QED
        BY <3>1, <4>1, <4>2
    <3>5. RaftOK' /\ proposers' # <<>>
      <4> DEFINE p == [proposers[Leadership] EXCEPT !.ch = Append(@, block)]
      <4>1. /\ proposers[Leadership].ch \in Seq(Blocks) /\ Len(proposers[Leadership].hand) <= 1
            /\ Len(proposers[Leadership].ch) \in Nat
        BY <2>4 DEF Proposers, RaftOK
      <4>2. /\ Append(proposers[Leadership].ch, block) \in Seq(Blocks)
            /\ Len(Append(proposers[Leadership].ch, block)) = Len(proposers[Leadership].ch) + 1
        BY <2>1, <4>1, AppendSeq
      <4>3. /\ p \in Proposers /\ p.ch = Append(proposers[Leadership].ch, block)
            /\ p.hand = proposers[Leadership].hand
        <5> HIDE DEF block
        <5> QED
          BY <2>4, <4>2, Zenon DEF Proposers
      <4>4. Len(p.ch) <= MaxInflightBlocks
        <5> HIDE DEF p
        <5> QED
          BY <2>6, <4>1, <4>2, <4>3, Bounds DEF PropC
      <4>5. proposers' = [proposers EXCEPT ![Leadership] = p]
        BY <2>4, <3>1
      <4>6. log' \in Seq(Entries)
        BY <1>1 DEF RaftOK, library
      <4> HIDE DEF p
      <4> QED
        BY <1>1, <2>4, <4>1, <4>3, <4>4, <4>5, <4>6, OneProposer, Zenon DEF library
    <3>6. Sound'
      BY <1>1, <3>1, <3>5 DEF Sound, library
    <3> QED
      BY <1>2, <3>4, <3>5, <3>6
  <2> QED
    BY <2>5, <2>6
<1> QED
  BY <1>3, <1>4

LEMMA ApplyTypes == TypeInv /\ Apply => TypeInv'
<1> SUFFICES ASSUME ServeOK, CutterOK, RaftOK, Sound, Apply
             PROVE  ServeOK' /\ CutterOK' /\ RaftOK' /\ Sound'
  BY DEF TypeInv
<1> DEFINE app == Head(applyC)
           elected == app.lead /\ ~c.leads
           deposed == ~app.lead /\ c.leads
           c1 == CASE elected -> BecomeLeader(c)
                   [] deposed -> BecomeFollower(c)
                   [] ~elected /\ ~deposed -> c
           c2 == IF app.entry THEN ApplyEntry(c1, Head(log)) ELSE c1
           rest == IF app.entry THEN Tail(log) ELSE log
           confChanges == app.entry /\ c2.ledger # c1.ledger /\ Head(log).block.config = "member"
<1>1. /\ pc = "select" /\ applyC # <<>> /\ applyC' = Tail(applyC) /\ log' = rest
      /\ c' = IF c2.panic = "no" THEN Serve(c2, rest = <<>>) ELSE c2
      /\ pc' = IF c2.panic = "no" THEN "select" ELSE "panic"
      /\ proposers' = CASE elected -> Append(proposers, NewProposer)
                         [] deposed -> [proposers EXCEPT ![Leadership].cancelled = TRUE]
                         [] ~elected /\ ~deposed -> proposers
      /\ ReadyBatch' = AfterCut(deposed, ReadyBatch)
      /\ confC' = (confC \/ (elected /\ c.confChange) \/ confChanges)
      /\ UNCHANGED <<submits, arg, created, accepted>>
      /\ UNCHANGED <<RaftEnvMsgC, held, out, CommitC, released>>
      /\ UNCHANGED <<raft, sent, elections>>
  BY Zenon DEF Apply
<1>2. app \in Reports /\ Tail(applyC) \in Seq(Reports) /\ Len(Tail(applyC)) = Len(applyC) - 1
      /\ Len(applyC) \in Nat
  BY <1>1, HeadTailSeq, Zenon DEF RaftOK
<1>3. app.lead \in BOOLEAN /\ app.entry \in BOOLEAN /\ c.leads \in BOOLEAN /\ c \in ChainState
  BY <1>2 DEF Reports, ServeOK, ChainState
<1>4. rest \in Seq(Entries) /\ (app.entry => Head(log) \in Entries) /\ Cardinality(Due(Tail(applyC))) <= Len(rest)
  <2>1. Cardinality(Due(applyC)) <= Len(log) /\ log \in Seq(Entries) /\ applyC \in Seq(Reports)
    BY DEF Sound, RaftOK
  <2>2. Cardinality(Due(applyC)) \in Nat /\ Cardinality(Due(Tail(applyC))) \in Nat /\ Len(log) \in Nat
    <3>1. Cardinality(Due(applyC)) \in Nat
      BY <2>1, DueFinite
    <3>2. Cardinality(Due(Tail(applyC))) \in Nat
      BY <1>2, DueFinite, Zenon
    <3>3. Len(log) \in Nat
      BY <2>1
    <3> QED
      BY <3>1, <3>2, <3>3
  <2>3. CASE app.entry
    <3>1. Cardinality(Due(Tail(applyC))) = Cardinality(Due(applyC)) - 1
      BY <1>1, <2>1, <2>3, DueTail, Zenon
    <3>2. log # <<>>
      BY <2>1, <2>2, <3>1
    <3>3. Head(log) \in Entries /\ Tail(log) \in Seq(Entries) /\ Len(Tail(log)) = Len(log) - 1
      BY <2>1, <3>2, HeadTailSeq
    <3>4. Cardinality(Due(Tail(applyC))) <= Len(Tail(log))
      <4>1. \A i, j \in Nat : i <= j => i - 1 <= j - 1
        OBVIOUS
      <4>2. Cardinality(Due(applyC)) - 1 <= Len(log) - 1
        BY <2>1, <2>2, <4>1, Zenon
      <4> QED
        BY <3>1, <3>3, <4>2, Zenon
    <3>5. rest = Tail(log)
      BY <2>3
    <3> HIDE DEF rest
    <3> QED
      BY <3>3, <3>4, <3>5
  <2>4. CASE ~app.entry
    <3>1. Cardinality(Due(Tail(applyC))) = Cardinality(Due(applyC))
      BY <1>1, <2>1, <2>4, DueTail, Zenon
    <3> QED
      BY <2>1, <2>4, <3>1
  <2> QED
    BY <2>3, <2>4
<1>5. c1 \in ChainState /\ (NeedsProposer(c1) => elected \/ NeedsProposer(c))
  BY <1>3, StateSteps
<1> HIDE DEF c1
<1>6. c2 \in ChainState /\ (NeedsProposer(c2) => NeedsProposer(c1))
  BY <1>3, <1>4, <1>5, ApplySteps
<1>7. c' \in ChainState /\ (NeedsProposer(c') => NeedsProposer(c2))
  <2> HIDE DEF c2, rest
  <2>1. (rest = <<>>) \in BOOLEAN
    OBVIOUS
  <2> QED
    BY <1>1, <1>6, <2>1, ServeStep, Zenon
<1>8. confC' \in BOOLEAN /\ pc' \in {"select", "panic"}
  BY <1>1, Zenon
<1>9. ServeOK'
  <2>1. arg' = <<>>
    BY <1>1 DEF ServeOK
  <2> QED
    BY <1>1, <1>7, <1>8, <2>1, SMTT(40) DEF ServeOK
<1>10. CutterOK'
  BY <1>1 DEF CutterOK, AfterCut
<1>11. /\ proposers' \in Seq(Proposers) /\ (elected \/ proposers # <<>> => proposers' # <<>>)
       /\ \A i \in DOMAIN proposers' : Len(proposers'[i].ch) <= MaxInflightBlocks /\ Len(proposers'[i].hand) <= 1
  <2>1. proposers \in Seq(Proposers)
        /\ \A i \in DOMAIN proposers : Len(proposers[i].ch) <= MaxInflightBlocks /\ Len(proposers[i].hand) <= 1
    BY DEF RaftOK
  <2>2. CASE elected
    <3>1. NewProposer \in Proposers /\ Len(NewProposer.ch) <= MaxInflightBlocks /\ Len(NewProposer.hand) <= 1
      BY Bounds DEF NewProposer, Proposers
    <3>2. proposers' = Append(proposers, NewProposer)
      BY <1>1, <2>2
    <3>3. Append(proposers, NewProposer) \in Seq(Proposers) /\ Append(proposers, NewProposer) # <<>>
      BY <2>1, <3>1, AppendSeq
    <3>4. \A i \in DOMAIN Append(proposers, NewProposer) :
            \/ Append(proposers, NewProposer)[i] = NewProposer
            \/ i \in DOMAIN proposers /\ Append(proposers, NewProposer)[i] = proposers[i]
      BY <2>1, <3>1, AppendSeq
    <3> HIDE DEF elected, deposed
    <3> QED
      BY <2>1, <3>1, <3>2, <3>3, <3>4
  <2>3. CASE deposed
    <3> DEFINE p == [proposers[Leadership] EXCEPT !.cancelled = TRUE]
    <3>1. proposers # <<>> /\ Leadership \in DOMAIN proposers /\ proposers[Leadership] \in Proposers
      <4>1. proposers # <<>>
        BY <2>3 DEF Sound
      <4> QED
        BY <2>1, <4>1 DEF Leadership
    <3>2. p \in Proposers /\ p.ch = proposers[Leadership].ch /\ p.hand = proposers[Leadership].hand
      BY <3>1, Zenon DEF Proposers
    <3>3. proposers' = [proposers EXCEPT ![Leadership] = p]
      BY <1>1, <1>3, <2>3
    <3> HIDE DEF p, elected, deposed
    <3>4. /\ proposers' \in Seq(Proposers) /\ proposers' # <<>> /\ DOMAIN proposers' = DOMAIN proposers
          /\ proposers'[Leadership] = p
          /\ \A j \in DOMAIN proposers \ {Leadership} : proposers'[j] = proposers[j]
      BY <2>1, <3>1, <3>2, <3>3, ExceptSeq
    <3> QED
      BY <2>1, <3>1, <3>2, <3>4
  <2>4. CASE ~elected /\ ~deposed
    <3>1. proposers' = proposers
      BY <1>1, <2>4
    <3> QED
      BY <2>1, <2>4, <3>1
  <2> QED
    BY <2>2, <2>3, <2>4
<1> HIDE DEF elected, deposed, rest, c2
<1>12. RaftOK'
  <2>1. applyC' \in Seq(Reports) /\ Len(applyC') <= ApplyCap
    <3>1. Len(applyC) <= ApplyCap
      BY DEF RaftOK
    <3> QED
      BY <1>1, <1>2, <3>1, Bounds
  <2>2. raft' \in {"leader", "follower", "none"} /\ sent' \in BOOLEAN /\ elections' \in 0..MaxElections
    BY <1>1 DEF RaftOK
  <2> QED
    BY <1>1, <1>4, <1>11, <2>1, <2>2 DEF RaftOK
<1>13. Sound'
  <2>1. NeedsProposer(c') => proposers' # <<>>
    BY <1>5, <1>6, <1>7, <1>11 DEF Sound, NeedsProposer
  <2> QED
    BY <1>1, <1>4, <1>8, <2>1 DEF Sound, NeedsProposer
<1> QED
  BY <1>9, <1>10, <1>12, <1>13

LEMMA ProcessEnvMsgTypes == TypeInv /\ ProcessEnvMsg => TypeInv'
<1> SUFFICES ASSUME ServeOK, CutterOK, RaftOK, Sound, ProcessEnvMsg
             PROVE  ServeOK' /\ CutterOK' /\ RaftOK' /\ Sound'
  BY DEF TypeInv
<1> DEFINE m == Head(RaftEnvMsgC)
<1>1. /\ RaftEnvMsgC # <<>> /\ RaftEnvMsgC' = Tail(RaftEnvMsgC)
      /\ UNCHANGED <<submits, c, pc, arg, confC, created, accepted>>
      /\ UNCHANGED <<proposers, library, applyC>> /\ UNCHANGED CommitC
  BY DEF ProcessEnvMsg
<1>2. ServeOK' /\ RaftOK' /\ Sound'
  BY <1>1, RaftSame, SoundSame DEF ServeOK, Sound
<1>3. /\ m \in Txs \cup {Tick} /\ Tail(RaftEnvMsgC) \in Seq(Txs \cup {Tick})
      /\ Len(Tail(RaftEnvMsgC)) = Len(RaftEnvMsgC) - 1 /\ Len(RaftEnvMsgC) \in Nat
      /\ Len(RaftEnvMsgC) <= EnvMsgCap
  BY <1>1, HeadTailSeq DEF CutterOK
<1>4. RaftEnvMsgC' \in Seq(Txs \cup {Tick}) /\ Len(RaftEnvMsgC') <= EnvMsgCap
  BY <1>1, <1>3, Bounds
<1>5. ReadyBatch \in Seq(Txs) /\ released \in Seq(Txs) /\ held \subseteq Txs
  BY DEF CutterOK
<1>6. /\ held' \subseteq Txs /\ ReadyBatch' \in Seq(Txs) /\ released' \in Seq(Txs)
      /\ out' \in Seq(Seq(Txs)) /\ Len(out') <= 1
  <2>1. \A r \in Seq(Txs) : /\ <<r>> \in Seq(Seq(Txs)) /\ Len(<<r>>) <= 1
                            /\ <<>> \in Seq(Seq(Txs)) /\ Len(<<>>) <= 1 /\ <<>> \in Seq(Txs)
    BY SingleSeq
  <2>2. CASE m = Tick
    <3>1. /\ ReadyBatch' = <<>> /\ UNCHANGED <<held, released>>
          /\ out' = IF ReadyBatch = <<>> THEN <<>> ELSE <<ReadyBatch>>
      BY <2>2 DEF ProcessEnvMsg, AfterCut
    <3> QED
      BY <1>5, <2>1, <3>1
  <2>3. CASE m # Tick
    <3>1. PICK r \in Orders(held \cup {m}) :
             /\ held' = (held \cup {m}) \ {r[i] : i \in DOMAIN r}
             /\ released' = released \o r
             /\ ReadyBatch' = AfterCut(Full(ReadyBatch \o r), ReadyBatch \o r)
             /\ out' = IF Full(ReadyBatch \o r) THEN <<ReadyBatch \o r>> ELSE <<>>
      BY <2>3, Zenon DEF ProcessEnvMsg
    <3>2. r \in Seq(Txs)
      <4>1. r \in Seq(held \cup {m}) /\ held \cup {m} \subseteq Txs
        BY <1>3, <1>5, <2>3, OrdersSeq
      <4> HIDE DEF m
      <4> QED
        BY <4>1, SeqSubset
    <3>3. ReadyBatch \o r \in Seq(Txs) /\ released \o r \in Seq(Txs)
      BY <1>5, <3>2, ConcatSeq
    <3>4. held' \subseteq Txs /\ released' \in Seq(Txs)
      BY <1>3, <1>5, <2>3, <3>1, <3>3
    <3>5. ReadyBatch' \in Seq(Txs)
      BY <2>1, <3>1, <3>3 DEF AfterCut
    <3>6. out' \in Seq(Seq(Txs)) /\ Len(out') <= 1
      BY <2>1, <3>1, <3>3
    <3> QED
      BY <3>4, <3>5, <3>6
  <2> QED
    BY <2>2, <2>3
<1>7. CutterOK'
  BY <1>1, <1>4, <1>6 DEF CutterOK
<1> QED
  BY <1>2, <1>7

LEMMA SendBatchesTypes == TypeInv /\ SendBatches => TypeInv'
<1> SUFFICES ASSUME ServeOK, CutterOK, RaftOK, Sound, SendBatches
             PROVE  ServeOK' /\ CutterOK' /\ RaftOK' /\ Sound'
  BY DEF TypeInv
<1>1. /\ UNCHANGED <<submits, c, pc, arg, confC, created, accepted>>
      /\ UNCHANGED <<proposers, library, applyC>>
      /\ UNCHANGED <<RaftEnvMsgC, held, ReadyBatch, released>>
      /\ Len(CommitC) < CommitCap /\ CommitC' = CommitC \o out /\ out' = <<>>
  BY DEF SendBatches
<1>2. ServeOK' /\ RaftOK' /\ Sound'
  BY <1>1, RaftSame, SoundSame DEF ServeOK, Sound
<1>3. CommitC \in Seq(Seq(Txs)) /\ out \in Seq(Seq(Txs)) /\ Len(out) <= 1 /\ Len(out) \in Nat
      /\ Len(CommitC) \in Nat
  BY DEF CutterOK
<1>4. CommitC \o out \in Seq(Seq(Txs)) /\ Len(CommitC \o out) = Len(CommitC) + Len(out)
  BY <1>3, ConcatSeq
<1>5. Len(CommitC') <= CommitCap
  BY <1>1, <1>3, <1>4, Bounds
<1>6. CutterOK'
  BY <1>1, <1>4, <1>5 DEF CutterOK
<1> QED
  BY <1>2, <1>6

\* The proposers: a block goes from the channel to the hand, and from there to the log.
LEMMA ProposerTypes == TypeInv /\ Proposer => TypeInv'
<1> SUFFICES ASSUME ServeOK, CutterOK, RaftOK, Sound, Proposer
             PROVE  ServeOK' /\ CutterOK' /\ RaftOK' /\ Sound'
  BY DEF TypeInv
<1>1. PICK i \in DOMAIN proposers : TakeBlock(i) \/ ProposeBlock(i) \/ QuitProposing(i)
  BY DEF Proposer
<1>2. /\ UNCHANGED <<submits, c, pc, arg, confC, created, accepted>> /\ UNCHANGED cutter
      /\ UNCHANGED <<raft, sent, elections, applyC>>
  BY DEF Proposer
<1>3. ServeOK' /\ CutterOK'
  BY <1>2, CutterSame DEF ServeOK
<1> DEFINE p == proposers[i]
<1>4. /\ p \in Proposers /\ p.ch \in Seq(Blocks) /\ p.hand \in Seq(Blocks) /\ proposers \in Seq(Proposers)
      /\ Len(p.ch) <= MaxInflightBlocks /\ Len(p.hand) <= 1 /\ log \in Seq(Entries)
      /\ Len(p.ch) \in Nat /\ Len(p.hand) \in Nat
  <2>1. proposers \in Seq(Proposers) /\ Len(p.ch) <= MaxInflightBlocks /\ Len(p.hand) <= 1
        /\ log \in Seq(Entries)
    BY DEF RaftOK
  <2>2. p \in Proposers
    BY <2>1
  <2>3. p.ch \in Seq(Blocks) /\ p.hand \in Seq(Blocks)
    BY <2>2 DEF Proposers
  <2> HIDE DEF p
  <2> QED
    BY <2>1, <2>2, <2>3
<1>5. \E q \in Proposers : /\ proposers' = [proposers EXCEPT ![i] = q]
                           /\ Len(q.ch) <= MaxInflightBlocks /\ Len(q.hand) <= 1
  <2>1. CASE TakeBlock(i)
    <3> DEFINE q == [p EXCEPT !.hand = <<Head(p.ch)>>, !.ch = Tail(p.ch)]
    <3>1. p.ch # <<>> /\ proposers' = [proposers EXCEPT ![i].hand = <<Head(p.ch)>>, ![i].ch = Tail(p.ch)]
      BY <2>1 DEF TakeBlock
    <3>2. proposers' = [proposers EXCEPT ![i] = q]
      BY <1>4, <3>1, Zenon
    <3>3. /\ Head(p.ch) \in Blocks /\ Tail(p.ch) \in Seq(Blocks) /\ Len(Tail(p.ch)) = Len(p.ch) - 1
      BY <1>4, <3>1, HeadTailSeq
    <3>4. <<Head(p.ch)>> \in Seq(Blocks) /\ Len(<<Head(p.ch)>>) = 1
      BY <3>3, SingleSeq
    <3>5. Len(Tail(p.ch)) <= MaxInflightBlocks
      BY <1>4, <3>3, Bounds
    <3>6. q \in Proposers /\ q.ch = Tail(p.ch) /\ q.hand = <<Head(p.ch)>>
      <4> HIDE DEF p
      <4> QED
        BY <1>4, <3>3, <3>4, Zenon DEF Proposers
    <3>7. Len(q.ch) <= MaxInflightBlocks /\ Len(q.hand) <= 1
      <4> HIDE DEF q
      <4> QED
        BY <3>4, <3>5, <3>6
    <3> HIDE DEF q
    <3> QED
      BY <3>2, <3>6, <3>7, Zenon
  <2>2. CASE ProposeBlock(i) /\ raft = "leader"
    <3> DEFINE q == [p EXCEPT !.hand = <<>>]
    <3>1. proposers' = [proposers EXCEPT ![i] = q]
      BY <1>4, <2>2 DEF ProposeBlock
    <3>2. q \in Proposers /\ q.ch = p.ch /\ q.hand = <<>>
      <4> HIDE DEF p
      <4>1. <<>> \in Seq(Blocks)
        OBVIOUS
      <4> QED
        BY <1>4, <4>1, Zenon DEF Proposers
    <3>3. Len(q.ch) <= MaxInflightBlocks /\ Len(q.hand) <= 1
      <4> HIDE DEF p, q
      <4> QED
        BY <1>4, <3>2
    <3> HIDE DEF q
    <3> QED
      BY <3>1, <3>2, <3>3, Zenon
  <2>3. CASE QuitProposing(i) \/ (ProposeBlock(i) /\ raft # "leader")
    <3> DEFINE q == [p EXCEPT !.quit = TRUE]
    <3>1. proposers' = [proposers EXCEPT ![i] = q]
      BY <1>4, <2>3 DEF ProposeBlock, QuitProposing
    <3>2. q \in Proposers /\ q.ch = p.ch /\ q.hand = p.hand
      BY <1>4, Zenon DEF Proposers
    <3>3. Len(q.ch) <= MaxInflightBlocks /\ Len(q.hand) <= 1
      <4> HIDE DEF p, q
      <4> QED
        BY <1>4, <3>2
    <3> HIDE DEF q
    <3> QED
      BY <3>1, <3>2, <3>3, Zenon
  <2> QED
    BY <1>1, <2>1, <2>2, <2>3
<1>6. log' \in Seq(Entries) /\ Len(log') >= Len(log)
  <2>1. CASE log' = log
    BY <1>4, <2>1
  <2>2. CASE ProposeBlock(i) /\ raft = "leader"
    <3>1. log' = Append(log, BlockEntry(p.hand[1])) /\ p.hand # <<>>
      BY <2>2 DEF ProposeBlock
    <3>2. p.hand[1] \in Blocks
      BY <1>4, <3>1, HeadTailSeq
    <3>3. BlockEntry(p.hand[1]) \in Entries
      BY <3>2 DEF BlockEntry, Entries
    <3>4. /\ Append(log, BlockEntry(p.hand[1])) \in Seq(Entries) /\ Len(log) \in Nat
          /\ Len(Append(log, BlockEntry(p.hand[1]))) = Len(log) + 1
      BY <1>4, <3>3, AppendSeq
    <3> QED
      BY <3>1, <3>4
  <2> QED
    BY <1>1, <2>1, <2>2 DEF TakeBlock, ProposeBlock, QuitProposing
<1>7. RaftOK' /\ proposers' # <<>>
  BY <1>2, <1>5, <1>6, OneProposer, Zenon
<1>8. Sound'
  BY <1>2, <1>4, <1>6, <1>7, DueFinite DEF Sound, RaftOK
<1> QED
  BY <1>3, <1>7, <1>8

\* Steps that change nothing but raft, its log and the confirmation goroutine.
LEMMA RaftMoves ==
    ASSUME TypeInv, UNCHANGED <<submits, c, pc, arg, created, accepted>>, UNCHANGED cutter,
           UNCHANGED <<proposers, applyC>>, confC' \in BOOLEAN, sent' \in BOOLEAN,
           raft' \in {"leader", "follower", "none"}, elections' \in 0..MaxElections,
           log' \in Seq(Entries), Handed <= Len(log')
    PROVE  TypeInv'
<1>1. ServeOK' /\ CutterOK' /\ RaftOK'
  BY CutterSame DEF TypeInv, ServeOK, RaftOK
<1>2. Sound'
  BY DEF TypeInv, Sound, Handed, Due
<1> QED
  BY <1>1, <1>2 DEF TypeInv

LEMMA ProposeConfChangeTypes == TypeInv /\ ProposeConfChange => TypeInv'
<1> SUFFICES ASSUME TypeInv, ProposeConfChange PROVE TypeInv'
  OBVIOUS
<1>1. /\ log' = log \/ log' = Append(log, EmptyEntry) \/ log' = Append(log, ConfEntry)
      /\ UNCHANGED <<submits, c, pc, arg, created, accepted>> /\ UNCHANGED cutter
      /\ UNCHANGED <<proposers, applyC>> /\ UNCHANGED <<raft, sent, elections>> /\ confC' = FALSE
  BY DEF ProposeConfChange, TypeInv, RaftOK
<1>2. /\ log \in Seq(Entries) /\ Handed <= Len(log) /\ Handed \in Nat /\ sent' \in BOOLEAN
      /\ raft' \in {"leader", "follower", "none"} /\ elections' \in 0..MaxElections
  BY <1>1, DueFinite, Zenon DEF TypeInv, RaftOK, Sound, Handed, Due
<1>3. EmptyEntry \in Entries /\ ConfEntry \in Entries
  BY DEF EmptyEntry, ConfEntry, Entries
<1>4. log' \in Seq(Entries) /\ Handed <= Len(log')
  <2>1. ASSUME NEW e \in Entries
        PROVE  Append(log, e) \in Seq(Entries) /\ Handed <= Len(Append(log, e))
    <3>1. Append(log, e) \in Seq(Entries) /\ Len(Append(log, e)) = Len(log) + 1 /\ Len(log) \in Nat
      BY <1>2, <2>1, AppendSeq
    <3> QED
      BY <1>2, <3>1
  <2> QED
    BY <1>1, <1>2, <1>3, <2>1, Zenon
<1> QED
  BY <1>1, <1>2, <1>4, RaftMoves, Zenon

LEMMA ReadyTypes == TypeInv /\ Ready => TypeInv'
<1> SUFFICES ASSUME ServeOK, CutterOK, RaftOK, Sound, Ready
             PROVE  ServeOK' /\ CutterOK' /\ RaftOK' /\ Sound'
  BY DEF TypeInv
<1>1. /\ UNCHANGED <<submits, c, pc, arg, confC, created, accepted>> /\ UNCHANGED cutter
      /\ UNCHANGED <<proposers, raft, log, elections>> /\ sent' = (raft = "leader")
      /\ Len(applyC) < ApplyCap
  BY DEF Ready
<1>2. PICK entry \in BOOLEAN : /\ entry => Handed < Len(log)
                              /\ applyC' = Append(applyC, [lead |-> raft = "leader", entry |-> entry])
  BY DEF Ready
<1> DEFINE a == [lead |-> raft = "leader", entry |-> entry]
<1>3. a \in Reports /\ a.entry = entry
  <2>1. (raft = "leader") \in BOOLEAN
    OBVIOUS
  <2> QED
    BY <2>1, Zenon DEF Reports
<1> HIDE DEF a
<1>4. applyC \in Seq(Reports) /\ log \in Seq(Entries) /\ Cardinality(Due(applyC)) <= Len(log)
  BY DEF RaftOK, Sound
<1>5. /\ Append(applyC, a) \in Seq(Reports) /\ Len(Append(applyC, a)) = Len(applyC) + 1
      /\ Len(applyC) \in Nat
  <2>1. a \in Reports /\ applyC \in Seq(Reports)
    BY <1>3, <1>4
  <2> QED
    BY <2>1, AppendSeq
<1>6. Cardinality(Due(applyC)) \in Nat /\ Len(log) \in Nat
  BY <1>4, DueFinite
<1>7. Cardinality(Due(Append(applyC, a))) <= Len(log)
  <2>1. CASE entry
    <3>1. Cardinality(Due(Append(applyC, a))) = Cardinality(Due(applyC)) + 1
      BY <1>3, <1>4, <2>1, DueAppend, Zenon
    <3>2. Cardinality(Due(applyC)) < Len(log)
      BY <1>2, <2>1 DEF Handed, Due
    <3> QED
      BY <1>6, <3>1, <3>2
  <2>2. CASE ~entry
    <3>1. Cardinality(Due(Append(applyC, a))) = Cardinality(Due(applyC))
      BY <1>3, <1>4, <2>2, DueAppend
    <3> QED
      BY <1>4, <3>1
  <2> QED
    BY <2>1, <2>2
<1>8. applyC' = Append(applyC, a)
  BY <1>2 DEF a
<1>9. ServeOK' /\ CutterOK'
  BY <1>1, CutterSame DEF ServeOK
<1>10. Len(Append(applyC, a)) <= ApplyCap
  BY <1>1, <1>5, Bounds
<1>11. RaftOK'
  BY <1>1, <1>5, <1>8, <1>10 DEF RaftOK
<1>12. Sound'
  BY <1>1, <1>7, <1>8 DEF Sound
<1> QED
  BY <1>9, <1>11, <1>12

\* Whatever another leader replaces, the entries that were handed to applyC stay.
LEMMA KeptSeq ==
    ASSUME TypeInv, NEW kept \in Kept
    PROVE  kept \in Seq(Entries) /\ Len(kept) \in Nat /\ Handed <= Len(kept) /\ Handed \in Nat
<1>1. log \in Seq(Entries) /\ Handed \in Nat
  BY DueFinite, Zenon DEF TypeInv, RaftOK, Handed, Due
<1>2. PICK n \in Handed..Len(log) : kept = SubSeq(log, 1, n)
  BY DEF Kept
<1>3. n \in Nat /\ n <= Len(log) /\ Handed <= n
  BY <1>1, <1>2
<1>4. SubSeq(log, 1, n) \in Seq(Entries) /\ Len(SubSeq(log, 1, n)) = n
  BY <1>1, <1>3
<1> QED
  BY <1>1, <1>2, <1>3, <1>4

\* The number of the next block of another leader.
LEMMA HeightAfterNat ==
    ASSUME TypeInv, NEW kept \in Seq(Entries)
    PROVE  HeightAfter(kept) + 1 \in Nat \ {0}
<1> DEFINE S == {j \in DOMAIN kept : kept[j].kind = "block" /\ kept[j].block.num > Height}
           T == {e.block.num : e \in {kept[i] : i \in S}}
           f == [i \in S |-> kept[i].block.num]
<1>1. IsFiniteSet(1..Len(kept)) /\ S \in SUBSET (1..Len(kept))
  BY FS_Interval
<1>2. IsFiniteSet(S)
  BY <1>1, FS_Subset
<1>3. f \in Surjection(S, T)
  <2>1. f \in [S -> T]
    OBVIOUS
  <2>2. \A t \in T : \E i \in S : f[i] = t
    OBVIOUS
  <2> HIDE DEF S, T, f
  <2> QED
    BY <2>1, <2>2 DEF Surjection
<1>4. Cardinality(T) \in Nat
  <2> HIDE DEF S, T, f
  <2> QED
    BY <1>2, <1>3, FS_Surjection, FS_CardinalityType
<1>5. HeightAfter(kept) = Height + Cardinality(T)
  BY DEF HeightAfter
<1>6. Height \in Nat
  BY DEF TypeInv, ServeOK, ChainState, Height
<1> HIDE DEF T
<1> QED
  BY <1>4, <1>5, <1>6

LEMMA RaftTypes == TypeInv /\ Raft => TypeInv'
<1> SUFFICES ASSUME TypeInv, Raft PROVE TypeInv'
  OBVIOUS
<1>1. /\ UNCHANGED <<submits, c, pc, arg, created, accepted>> /\ UNCHANGED cutter
      /\ UNCHANGED <<proposers, applyC>> /\ UNCHANGED <<sent, confC>>
  BY DEF Raft
<1>2. /\ log \in Seq(Entries) /\ Handed <= Len(log) /\ Handed \in Nat /\ sent' \in BOOLEAN
      /\ raft \in {"leader", "follower", "none"} /\ elections \in 0..MaxElections
      /\ confC' \in BOOLEAN
  BY <1>1, DueFinite, Zenon DEF TypeInv, ServeOK, RaftOK, Sound, Handed, Due
<1>3. EmptyEntry \in Entries /\ ConfEntry \in Entries
  BY DEF EmptyEntry, ConfEntry, Entries
<1>4. \A kept \in Seq(Entries), e \in Entries :
        Handed <= Len(kept) => Append(kept, e) \in Seq(Entries) /\ Handed <= Len(Append(kept, e))
  BY <1>2, AppendSeq
<1>5. /\ raft' \in {"leader", "follower", "none"} /\ elections' \in 0..MaxElections
      /\ log' \in Seq(Entries) /\ Handed <= Len(log')
  <2>1. CASE Elect
    <3>1. /\ raft' = "leader" /\ elections' = elections + 1 /\ elections < MaxElections
          /\ log' = Append(log, EmptyEntry)
      BY <2>1 DEF Elect
    <3> QED
      BY <1>2, <1>3, <1>4, <3>1, Bounds
  <2>2. CASE StepDown
    BY <1>2, <2>2 DEF StepDown
  <2>3. CASE Follow
    <3>1. /\ raft' = "follower" /\ elections' = elections
          /\ log' = log \/ \E kept \in Kept : log' = Append(kept, EmptyEntry)
      BY <2>3 DEF Follow
    <3> QED
      BY <1>2, <1>3, <1>4, <3>1, KeptSeq
  <2>4. CASE Foreign
    <3>1. PICK kept \in Kept :
             \/ log' = Append(kept, BlockEntry([num |-> HeightAfter(kept) + 1, txs |-> <<>>, config |-> "no"]))
             \/ log' = Append(kept, ConfEntry)
      BY <2>4 DEF Foreign
    <3>2. kept \in Seq(Entries) /\ Handed <= Len(kept)
      BY KeptSeq
    <3> DEFINE n == HeightAfter(kept) + 1
    <3>3. n \in Nat \ {0}
      BY <3>2, HeightAfterNat
    <3> HIDE DEF n
    <3>4. BlockEntry([num |-> n, txs |-> <<>>, config |-> "no"]) \in Entries
      <4>1. [num |-> n, txs |-> <<>>, config |-> "no"] \in Blocks
        BY <3>3 DEF Blocks
      <4> QED
        BY <4>1 DEF BlockEntry, Entries
    <3>5. log' \in Seq(Entries) /\ Handed <= Len(log')
      BY <1>3, <1>4, <3>1, <3>2, <3>4, Zenon DEF n
    <3> QED
      BY <1>2, <2>4, <3>5 DEF Foreign
  <2> QED
    BY <2>1, <2>2, <2>3, <2>4 DEF Raft
<1> QED
  BY <1>1, <1>2, <1>5, RaftMoves

LEMMA TypeStep == TypeInv /\ [Next]_vars => TypeInv'
<1> SUFFICES ASSUME TypeInv, [Next]_vars PROVE TypeInv'
  OBVIOUS
<1>1. CASE UNCHANGED vars
  <2>1. UNCHANGED <<submits, c, pc, arg, confC, created, accepted>> /\ UNCHANGED cutter
        /\ UNCHANGED <<proposers, library, applyC>>
    BY <1>1 DEF vars
  <2>2. ServeOK' /\ CutterOK' /\ RaftOK' /\ Sound'
    BY <2>1, CutterSame, RaftSame, SoundSame, Zenon DEF TypeInv, ServeOK, Sound
  <2> QED
    BY <2>2 DEF TypeInv
<1>2. CASE Idle
  BY <1>1, <1>2 DEF Idle
<1> QED
  BY <1>1, <1>2, SubmitTypes, ResetBatchTypes, SendEnvMsgTypes, TakeBatchTypes, ProposeTypes,
     TimerTypes, ApplyTypes, ProcessEnvMsgTypes, SendBatchesTypes, ProposerTypes,
     ProposeConfChangeTypes, RaftTypes, ReadyTypes DEF Next

\* Every value that serveRequest, the cutter, the proposers and node.run hand to each other has
\* the type of its channel, no channel holds more than its capacity, and serveRequest always
\* has the batch it is proposing, for every number of envelopes, leaders and foreign blocks.
THEOREM ChainTypes == Spec => []ChainTypeOK
<1>1. Spec => []TypeInv
  BY InitTypes, TypeStep, PTL DEF Spec
<1> QED
  BY <1>1, TypeParts, PTL
=============================================================================
