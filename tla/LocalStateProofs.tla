------------------------- MODULE LocalStateProofs -------------------------
(***************************************************************************)
(* The edges that the shim's answers name, for every workload, every       *)
(* chaincode function Compute and every queue capacity.                    *)
(*                                                                         *)
(* The two properties talk about answers already sent.  The invariant      *)
(* that carries them ties LocalKeyValues to the answers: an entry was      *)
(* written either by the invocation being committed or by the last answer  *)
(* that writes its key, and what the invocation being committed is about   *)
(* to answer refers to the answers sent so far.                            *)
(***************************************************************************)
EXTENDS LocalState, TLAPS

Sent == Len(endorsed) + 1

\* shapes, and that what an invocation has read is still there
Shape ==
    /\ DOMAIN inv = Invocations
    /\ \A i \in Invocations :
        /\ DOMAIN inv[i] = {"pc", "given", "ReadSet"}
        /\ DOMAIN inv[i].ReadSet \subseteq DOMAIN LocalKeyValues
    /\ CommitC \in Seq(Invocations)
    /\ cur.busy \in BOOLEAN
    /\ cur.busy => DOMAIN cur = {"busy", "inv", "given", "reads", "todo", "writes"}
    /\ \E S : endorsed \in Seq(S)

Installed(k) == cur.busy /\ k \in DOMAIN cur.writes

\* who wrote the entries of the local state
Origin ==
    /\ \A k \in DOMAIN LocalKeyValues :
        \/ /\ Installed(k)
           /\ LocalKeyValues[k].StrValue = cur.writes[k].Value
           /\ LocalKeyValues[k].FromTxnid = prog[cur.inv].txid
        \/ /\ ~Installed(k)
           /\ LastValue(endorsed, k, Sent, LocalKeyValues[k].FromTxnid,
                        LocalKeyValues[k].StrValue)
    /\ \A k : k \notin DOMAIN LocalKeyValues =>
        ~Installed(k) /\ Writers(endorsed, k, Sent) = {}

\* what the answer in preparation refers to
CurReads ==
    cur.busy => \A k \in DOMAIN cur.reads :
        LastValue(endorsed, k, Sent, cur.reads[k].Txid, cur.reads[k].Value)

CurWrites ==
    cur.busy => \A k \in DOMAIN cur.writes :
        \/ Writers(endorsed, k, Sent) = {} /\ cur.writes[k].Txid = prog[cur.inv].txid
        \/ LastWrite(endorsed, k, Sent, cur.writes[k].Txid)

EdgeInv == Shape /\ Origin /\ CurReads /\ CurWrites /\ ReadsFromLast /\ WritersFormAChain

---------------------------------------------------------------------------
\* Appending an answer changes none of the earlier ones.
LEMMA AppendFacts ==
    ASSUME NEW S, NEW e \in Seq(S), NEW x
    PROVE  /\ Append(e, x) \in Seq(S \cup {x})
           /\ Len(e) \in Nat
           /\ Len(Append(e, x)) = Len(e) + 1
           /\ \A n \in 1..Len(e) : Append(e, x)[n] = e[n]
           /\ Append(e, x)[Len(e) + 1] = x
<1>1. e \in Seq(S \cup {x})
  OBVIOUS
<1> QED
  BY <1>1

\* ... nor who wrote a key before a position up to the new one.
LEMMA WritersKept ==
    ASSUME NEW S, NEW e \in Seq(S), NEW x, NEW k, NEW n \in 1..(Len(e) + 1)
    PROVE  Writers(Append(e, x), k, n) = Writers(e, k, n)
<1>1. \A m \in 1..(n - 1) : m \in 1..Len(e) /\ Append(e, x)[m] = e[m]
  BY AppendFacts
<1> QED
  BY <1>1 DEF Writers

\* ... nor what the last writer before such a position wrote.
LEMMA LastKept ==
    ASSUME NEW S, NEW e \in Seq(S), NEW x, NEW k, NEW n \in 1..(Len(e) + 1), NEW t, NEW v
    PROVE  /\ LastWrite(e, k, n, t) => LastWrite(Append(e, x), k, n, t)
           /\ LastValue(e, k, n, t, v) => LastValue(Append(e, x), k, n, t, v)
<1>1. Writers(Append(e, x), k, n) = Writers(e, k, n)
  BY WritersKept
<1>2. \A m \in Writers(e, k, n) : Append(e, x)[m] = e[m]
  BY AppendFacts DEF Writers
<1> QED
  BY <1>1, <1>2, Zenon DEF LastWrite, LastValue

\* After an answer that writes k, it is the last writer of k.
LEMMA NewLast ==
    ASSUME NEW S, NEW e \in Seq(S), NEW x, NEW k \in DOMAIN x.writes
    PROVE  LastValue(Append(e, x), k, Len(Append(e, x)) + 1, x.txid, x.writes[k].Value)
<1> DEFINE last == Len(e) + 1
           ws == Writers(Append(e, x), k, Len(Append(e, x)) + 1)
<1>1. last \in Nat /\ Len(Append(e, x)) = last /\ Append(e, x)[last] = x
  BY AppendFacts
<1>2. last \in ws /\ \A j \in ws : j <= last
  BY <1>1 DEF Writers
<1> QED
  BY <1>1, <1>2 DEF LastValue, IsLast

\* After an answer that does not write k, the writers of k are those from before.
LEMMA Skipped ==
    ASSUME NEW S, NEW e \in Seq(S), NEW x, NEW k, k \notin DOMAIN x.writes
    PROVE  Writers(Append(e, x), k, Len(Append(e, x)) + 1) = Writers(e, k, Len(e) + 1)
<1>1. /\ Len(e) \in Nat /\ Len(Append(e, x)) = Len(e) + 1
      /\ \A n \in 1..Len(e) : Append(e, x)[n] = e[n]
      /\ Append(e, x)[Len(e) + 1] = x
  BY AppendFacts
<1> QED
  BY <1>1 DEF Writers

LEMMA LastSkipped ==
    ASSUME NEW S, NEW e \in Seq(S), NEW x, NEW k, k \notin DOMAIN x.writes, NEW t, NEW v,
           LastValue(e, k, Len(e) + 1, t, v)
    PROVE  LastValue(Append(e, x), k, Len(Append(e, x)) + 1, t, v)
<1>1. Writers(Append(e, x), k, Len(Append(e, x)) + 1) = Writers(e, k, Len(e) + 1)
  BY Skipped
<1>2. \A m \in Writers(e, k, Len(e) + 1) : Append(e, x)[m] = e[m]
  BY AppendFacts DEF Writers
<1> QED
  BY <1>1, <1>2, Zenon DEF LastValue

\* A value written last was written last by its transaction.
LEMMA ValueIsWrite ==
    ASSUME NEW e, NEW k, NEW n, NEW t, NEW v, LastValue(e, k, n, t, v)
    PROVE  LastWrite(e, k, n, t)
BY DEF LastValue, LastWrite

---------------------------------------------------------------------------
\* The invariant holds before the first invocation.
LEMMA EdgeInit == Init => EdgeInv
<1> SUFFICES ASSUME Init PROVE EdgeInv
  OBVIOUS
<1> USE DEF Init
<1>1. endorsed \in Seq({}) /\ Len(endorsed) = 0 /\ ~cur.busy
  BY DEF Idle
<1>2. DOMAIN NoMap = {}
  BY DEF NoMap
<1>3. Shape
  <2>1. \E S : endorsed \in Seq(S)
    BY <1>1
  <2>2. cur.busy \in BOOLEAN
    BY DEF Idle
  <2> QED
    BY <1>1, <1>2, <2>1, <2>2 DEF Shape
<1>4. \A k : Writers(endorsed, k, Sent) = {}
  BY <1>1 DEF Writers, Sent
<1>5. Origin /\ CurReads /\ CurWrites
  BY <1>1, <1>2, <1>4 DEF Origin, CurReads, CurWrites, Installed
<1>6. ReadsFromLast /\ WritersFormAChain
  BY <1>1 DEF ReadsFromLast, WritersFormAChain
<1> QED
  BY <1>3, <1>5, <1>6 DEF EdgeInv

\* The steps of an invocation's goroutine touch neither the local state nor the answers.
LEMMA EdgeInvoke ==
    ASSUME EdgeInv, NEW i \in Invocations, Invoke(i)
    PROVE  EdgeInv'
<1>1. UNCHANGED <<prog, LocalKeyValues, cur, endorsed>>
  BY Zenon DEF Invoke, handleTransaction, GetState, SendCommitMsg
<1>2. (Origin /\ CurReads /\ CurWrites /\ ReadsFromLast /\ WritersFormAChain)'
  BY <1>1 DEF EdgeInv, Origin, Installed, CurReads, CurWrites, ReadsFromLast,
              WritersFormAChain, Sent
<1>3. Shape'
  <2>1. CASE handleTransaction(i)
    <3>1. DOMAIN NoMap = {}
      BY DEF NoMap
    <3> QED
      BY <1>1, <2>1, <3>1 DEF handleTransaction, EdgeInv, Shape
  <2>2. CASE GetState(i)
    <3> DEFINE k == prog[i].reads[Len(inv[i].given) + 1]
    <3> DEFINE v == [StrValue |-> ValueOf(k), PTxid |-> LocalKeyValues[k].FromTxnid]
               rs == IF k \in DOMAIN LocalKeyValues THEN Put(inv[i].ReadSet, k, v)
                                                     ELSE inv[i].ReadSet
               r == [inv[i] EXCEPT !.given = Append(@, ValueOf(k)), !.ReadSet = rs]
    <3>2. inv' = [inv EXCEPT ![i] = r]
      BY <2>2, Zenon DEF GetState, EdgeInv, Shape
    <3>3. DOMAIN r = DOMAIN inv[i] /\ r.ReadSet = rs
      BY DEF EdgeInv, Shape
    <3>1. DOMAIN rs \subseteq DOMAIN LocalKeyValues
      <4>1. DOMAIN inv[i].ReadSet \subseteq DOMAIN LocalKeyValues
        BY DEF EdgeInv, Shape
      <4>2. DOMAIN Put(inv[i].ReadSet, k, v) = DOMAIN inv[i].ReadSet \cup {k}
        BY DEF Put
      <4> QED
        BY <4>1, <4>2, Zenon
    <3> HIDE DEF k, v, rs, r
    <3>4. /\ DOMAIN inv' = Invocations /\ inv'[i].ReadSet = rs
          /\ \A j \in Invocations : /\ DOMAIN inv'[j] = DOMAIN inv[j]
                                    /\ j # i => inv'[j] = inv[j]
      BY <3>2, <3>3 DEF EdgeInv, Shape
    <3>5. DOMAIN inv'[i].ReadSet \subseteq DOMAIN LocalKeyValues
      BY <3>1, <3>4
    <3>6. CommitC' = CommitC
      BY <2>2 DEF GetState
    <3> QED
      BY <1>1, <3>4, <3>5, <3>6 DEF EdgeInv, Shape
  <2>3. CASE SendCommitMsg(i)
    BY <1>1, <2>3 DEF SendCommitMsg, EdgeInv, Shape
  <2> QED
    BY <2>1, <2>2, <2>3 DEF Invoke
<1> QED
  BY <1>2, <1>3 DEF EdgeInv

\* Validation starts an answer whose reads are present values, compared or read anew.
LEMMA EdgeValidate ==
    ASSUME EdgeInv, Validate
    PROVE  EdgeInv'
<1>1. UNCHANGED <<prog, LocalKeyValues, inv, endorsed>> /\ ~cur.busy
  BY DEF Validate
<1>2. PICK i, given, rs :
        /\ cur' = Committing(i, given, rs)
        /\ DOMAIN rs \subseteq DOMAIN LocalKeyValues
        /\ \A k \in DOMAIN rs : rs[k].StrValue = LocalKeyValues[k].StrValue
  <2>1. Head(CommitC) \in Invocations
    BY DEF Validate, EdgeInv, Shape
  <2>2. CASE Unchanged(inv[Head(CommitC)].ReadSet)
    <3> DEFINE rs == inv[Head(CommitC)].ReadSet
    <3>1. cur' = Committing(Head(CommitC), inv[Head(CommitC)].given, rs)
      BY <2>2 DEF Validate
    <3>2. DOMAIN rs \subseteq DOMAIN LocalKeyValues
      BY <2>1 DEF EdgeInv, Shape
    <3>3. \A k \in DOMAIN rs : rs[k].StrValue = LocalKeyValues[k].StrValue
      BY <2>2 DEF Unchanged
    <3> QED
      BY <2>1, <3>1, <3>2, <3>3
  <2>3. CASE ~Unchanged(inv[Head(CommitC)].ReadSet)
    <3> DEFINE p == prog[Head(CommitC)]
    <3>1. cur' = Committing(Head(CommitC), GivenNow(p), ReadNow(p))
      BY <2>3 DEF Validate
    <3>2. DOMAIN ReadNow(p) \subseteq DOMAIN LocalKeyValues
      BY DEF ReadNow
    <3>3. \A k \in DOMAIN ReadNow(p) : ReadNow(p)[k].StrValue = LocalKeyValues[k].StrValue
      BY DEF ReadNow
    <3> QED
      BY <2>1, <3>1, <3>2, <3>3
  <2> QED
    BY <2>2, <2>3
<1>3. /\ cur'.busy
      /\ DOMAIN cur' = {"busy", "inv", "given", "reads", "todo", "writes"}
      /\ cur'.reads = FinalReadSet(rs)
      /\ DOMAIN cur'.writes = {}
  BY <1>2 DEF Committing, NoMap
<1>4. Shape'
  BY <1>1, <1>3 DEF Validate, EdgeInv, Shape
<1>5. \A k : ~Installed(k) /\ ~Installed(k)'
  BY <1>1, <1>3 DEF Installed
<1>6. Origin'
  BY <1>1, <1>5 DEF EdgeInv, Origin, Sent
<1>7. CurReads'
  <2> SUFFICES ASSUME NEW k \in DOMAIN rs
               PROVE  LastValue(endorsed, k, Sent, FinalReadSet(rs)[k].Txid,
                                FinalReadSet(rs)[k].Value)
    BY <1>1, <1>3 DEF CurReads, FinalReadSet, Sent
  <2>1. LastValue(endorsed, k, Sent, LocalKeyValues[k].FromTxnid, LocalKeyValues[k].StrValue)
    BY <1>2, <1>5 DEF EdgeInv, Origin
  <2>2. /\ FinalReadSet(rs)[k].Txid = LocalKeyValues[k].FromTxnid
        /\ FinalReadSet(rs)[k].Value = LocalKeyValues[k].StrValue
    BY <1>2 DEF FinalReadSet
  <2> QED
    BY <2>1, <2>2
<1>8. CurWrites'
  BY <1>3 DEF CurWrites
<1>9. (ReadsFromLast /\ WritersFormAChain)'
  BY <1>1 DEF EdgeInv, ReadsFromLast, WritersFormAChain
<1> QED
  BY <1>4, <1>6, <1>7, <1>8, <1>9 DEF EdgeInv

\* Installing a write names the writer it replaces, which is the last answer's.
LEMMA EdgeInstall ==
    ASSUME EdgeInv, SetUnLockKVForWrite
    PROVE  EdgeInv'
<1> DEFINE t == prog[cur.inv].txid
<1>1. UNCHANGED <<prog, inv, CommitC, endorsed>> /\ cur.busy
  BY DEF SetUnLockKVForWrite
<1>2. PICK k, v : /\ k \notin DOMAIN cur.writes
                  /\ LocalKeyValues' = Put(LocalKeyValues, k, [StrValue |-> v, FromTxnid |-> t])
                  /\ cur' = [cur EXCEPT !.writes =
                                Put(@, k, [Value |-> v, Txid |-> WriteParent(k)])]
  BY Zenon DEF SetUnLockKVForWrite
<1>3. /\ DOMAIN cur' = DOMAIN cur
      /\ cur'.busy /\ cur'.inv = cur.inv /\ cur'.reads = cur.reads
      /\ cur'.writes = Put(cur.writes, k, [Value |-> v, Txid |-> WriteParent(k)])
  BY <1>1, <1>2 DEF EdgeInv, Shape
<1>4. /\ DOMAIN LocalKeyValues' = DOMAIN LocalKeyValues \cup {k}
      /\ LocalKeyValues'[k].StrValue = v /\ LocalKeyValues'[k].FromTxnid = t
      /\ \A x \in DOMAIN LocalKeyValues : x # k => LocalKeyValues'[x] = LocalKeyValues[x]
  BY <1>2 DEF Put
<1>5. /\ DOMAIN cur'.writes = DOMAIN cur.writes \cup {k}
      /\ cur'.writes[k].Value = v /\ cur'.writes[k].Txid = WriteParent(k)
      /\ \A x \in DOMAIN cur.writes : x # k => cur'.writes[x] = cur.writes[x]
  BY <1>3 DEF Put
<1>6. Shape'
  BY <1>1, <1>3, <1>4 DEF EdgeInv, Shape
<1>7. Sent' = Sent
  BY <1>1 DEF Sent
<1>8. Origin'
  BY <1>1, <1>2, <1>3, <1>4, <1>5, <1>7 DEF EdgeInv, Origin, Installed
<1>9. CurReads'
  BY <1>1, <1>3, <1>7 DEF EdgeInv, CurReads
<1>10. CurWrites'
  <2>1. \/ Writers(endorsed, k, Sent) = {} /\ WriteParent(k) = t
        \/ LastWrite(endorsed, k, Sent, WriteParent(k))
    <3>1. CASE k \in DOMAIN LocalKeyValues
      <4>1. LastValue(endorsed, k, Sent, LocalKeyValues[k].FromTxnid,
                      LocalKeyValues[k].StrValue)
        BY <1>2, <3>1 DEF EdgeInv, Origin, Installed
      <4>2. LastWrite(endorsed, k, Sent, LocalKeyValues[k].FromTxnid)
        BY <4>1, ValueIsWrite
      <4> QED
        BY <3>1, <4>2 DEF WriteParent
    <3>2. CASE k \notin DOMAIN LocalKeyValues
      BY <3>2 DEF WriteParent, EdgeInv, Origin
    <3> QED
      BY <3>1, <3>2
  <2> QED
    BY <1>1, <1>3, <1>5, <1>7, <2>1 DEF EdgeInv, CurWrites
<1>11. (ReadsFromLast /\ WritersFormAChain)'
  BY <1>1 DEF EdgeInv, ReadsFromLast, WritersFormAChain
<1> QED
  BY <1>6, <1>8, <1>9, <1>10, <1>11 DEF EdgeInv

\* Answering turns the facts about the invocation being committed into facts about the
\* last answer.
LEMMA EdgeAnswer ==
    ASSUME EdgeInv, Answer
    PROVE  EdgeInv'
<1> DEFINE x == [inv |-> cur.inv, txid |-> prog[cur.inv].txid, ok |-> prog[cur.inv].ok,
                 given |-> cur.given, reads |-> cur.reads, writes |-> cur.writes]
<1>1. /\ UNCHANGED <<prog, LocalKeyValues, CommitC>>
      /\ cur.busy /\ ~cur'.busy
      /\ endorsed' = Append(endorsed, x)
      /\ inv' = [inv EXCEPT ![cur.inv].pc = "answered"]
  BY DEF Answer, Idle
<1>2. PICK S : endorsed \in Seq(S)
  BY DEF EdgeInv, Shape
<1>3. x.txid = prog[cur.inv].txid /\ x.reads = cur.reads /\ x.writes = cur.writes
  OBVIOUS
<1> HIDE DEF x
<1>4. /\ endorsed' \in Seq(S \cup {x})
      /\ Len(endorsed) \in Nat
      /\ Len(endorsed') = Sent
      /\ \A n \in 1..Len(endorsed) : endorsed'[n] = endorsed[n]
      /\ endorsed'[Sent] = x
  BY <1>1, <1>2, AppendFacts DEF Sent
<1>5. Shape'
  <2>1. \E T : endorsed' \in Seq(T)
    BY <1>4
  <2>2. cur'.busy \in BOOLEAN
    BY DEF Answer, Idle
  <2>3. /\ DOMAIN inv' = Invocations
        /\ \A i \in Invocations :
            DOMAIN inv'[i] = DOMAIN inv[i] /\ inv'[i].ReadSet = inv[i].ReadSet
    BY <1>1 DEF EdgeInv, Shape
  <2> QED
    BY <1>1, <2>1, <2>2, <2>3 DEF EdgeInv, Shape
<1>6. Origin'
  <2>1. \A k : Installed(k) <=> k \in DOMAIN x.writes
    BY <1>1, <1>3 DEF Installed
  <2>2. ASSUME NEW k \in DOMAIN LocalKeyValues
        PROVE  LastValue(endorsed', k, Sent', LocalKeyValues[k].FromTxnid,
                         LocalKeyValues[k].StrValue)
    <3>1. CASE Installed(k)
      <4>1. LastValue(Append(endorsed, x), k, Len(Append(endorsed, x)) + 1, x.txid,
                      x.writes[k].Value)
        BY <1>2, <2>1, <3>1, NewLast
      <4>2. /\ x.txid = LocalKeyValues[k].FromTxnid
            /\ x.writes[k].Value = LocalKeyValues[k].StrValue
        BY <1>3, <3>1 DEF EdgeInv, Origin
      <4> QED
        BY <1>1, <4>1, <4>2 DEF Sent
    <3>2. CASE ~Installed(k)
      <4>1. LastValue(endorsed, k, Len(endorsed) + 1, LocalKeyValues[k].FromTxnid,
                      LocalKeyValues[k].StrValue)
        BY <3>2 DEF EdgeInv, Origin, Sent
      <4>2. LastValue(Append(endorsed, x), k, Len(Append(endorsed, x)) + 1,
                      LocalKeyValues[k].FromTxnid, LocalKeyValues[k].StrValue)
        BY <1>2, <2>1, <3>2, <4>1, LastSkipped
      <4> QED
        BY <1>1, <4>2 DEF Sent
    <3> QED
      BY <3>1, <3>2
  <2>3. ASSUME NEW k, k \notin DOMAIN LocalKeyValues
        PROVE  Writers(endorsed', k, Sent') = {}
    <3>1. k \notin DOMAIN x.writes /\ Writers(endorsed, k, Len(endorsed) + 1) = {}
      BY <2>1, <2>3 DEF EdgeInv, Origin, Sent
    <3>2. Writers(Append(endorsed, x), k, Len(Append(endorsed, x)) + 1) = {}
      BY <1>2, <3>1, Skipped
    <3> QED
      BY <1>1, <3>2 DEF Sent
  <2> QED
    BY <1>1, <2>2, <2>3 DEF Origin, Installed
<1>7. (CurReads /\ CurWrites)'
  BY <1>1 DEF CurReads, CurWrites
<1>8. ReadsFromLast'
  <2> SUFFICES ASSUME NEW n \in 1..Sent, NEW k \in DOMAIN endorsed'[n].reads
               PROVE  LastValue(endorsed', k, n, endorsed'[n].reads[k].Txid,
                                endorsed'[n].reads[k].Value)
    BY <1>4 DEF ReadsFromLast
  <2>1. n \in 1..(Len(endorsed) + 1)
    BY DEF Sent
  <2>2. LastValue(endorsed, k, n, endorsed'[n].reads[k].Txid, endorsed'[n].reads[k].Value)
    <3>1. CASE n = Sent
      BY <1>1, <1>3, <1>4, <3>1 DEF EdgeInv, CurReads
    <3>2. CASE n # Sent
      <4>1. n \in 1..Len(endorsed) /\ endorsed'[n] = endorsed[n]
        BY <1>4, <3>2 DEF Sent
      <4> QED
        BY <4>1 DEF EdgeInv, ReadsFromLast
    <3> QED
      BY <3>1, <3>2
  <2> QED
    BY <1>1, <1>2, <2>1, <2>2, LastKept
<1>9. WritersFormAChain'
  <2> SUFFICES ASSUME NEW n \in 1..Sent, NEW k \in DOMAIN endorsed'[n].writes
               PROVE  \/ /\ Writers(endorsed', k, n) = {}
                         /\ endorsed'[n].writes[k].Txid = endorsed'[n].txid
                      \/ LastWrite(endorsed', k, n, endorsed'[n].writes[k].Txid)
    BY <1>4 DEF WritersFormAChain
  <2>1. n \in 1..(Len(endorsed) + 1)
    BY DEF Sent
  <2>2. \/ /\ Writers(endorsed, k, n) = {}
           /\ endorsed'[n].writes[k].Txid = endorsed'[n].txid
        \/ LastWrite(endorsed, k, n, endorsed'[n].writes[k].Txid)
    <3>1. CASE n = Sent
      BY <1>1, <1>3, <1>4, <3>1 DEF EdgeInv, CurWrites
    <3>2. CASE n # Sent
      <4>1. n \in 1..Len(endorsed) /\ endorsed'[n] = endorsed[n]
        BY <1>4, <3>2 DEF Sent
      <4> QED
        BY <4>1 DEF EdgeInv, WritersFormAChain
    <3> QED
      BY <3>1, <3>2
  <2>3. Writers(endorsed', k, n) = Writers(endorsed, k, n)
    BY <1>1, <1>2, <2>1, WritersKept
  <2>4. \A t : LastWrite(endorsed, k, n, t) => LastWrite(endorsed', k, n, t)
    BY <1>1, <1>2, <2>1, LastKept, Zenon
  <2> QED
    BY <2>2, <2>3, <2>4
<1> QED
  BY <1>5, <1>6, <1>7, <1>8, <1>9 DEF EdgeInv

\* Every step keeps the invariant.
LEMMA EdgeNext == EdgeInv /\ [Next]_vars => EdgeInv'
<1> SUFFICES ASSUME EdgeInv, [Next]_vars PROVE EdgeInv'
  OBVIOUS
<1>1. ASSUME NEW i \in Invocations, Invoke(i) PROVE EdgeInv'
  BY <1>1, EdgeInvoke
<1>2. CASE LocalCommitChan
  BY <1>2, EdgeValidate, EdgeInstall, EdgeAnswer DEF LocalCommitChan
<1>3. CASE UNCHANGED vars
  BY <1>3, Zenon DEF vars, EdgeInv, Shape, Origin, Installed, CurReads, CurWrites, ReadsFromLast,
              WritersFormAChain, Sent
<1> QED
  BY <1>1, <1>2, <1>3 DEF Next, Quiet

\* What ValidateAndCommit answers was read is what the last answer before it to write the
\* key wrote, under that answer's transaction id.
THEOREM ReadsCorrect == Spec => []ReadsFromLast
<1>1. EdgeInv => ReadsFromLast
  BY DEF EdgeInv
<1> QED
  BY <1>1, EdgeInit, EdgeNext, PTL DEF Spec

\* The writers that SetUnLockKVForWrite names form one chain per key, in answer order.
THEOREM WritesCorrect == Spec => []WritersFormAChain
<1>1. EdgeInv => WritersFormAChain
  BY DEF EdgeInv
<1> QED
  BY <1>1, EdgeInit, EdgeNext, PTL DEF Spec

---------------------------------------------------------------------------
(* Serial execution.  The reads that an invocation collects one by one are *)
(* validated together, so that all it was given are values of one moment.  *)

\* before the n-th answer of e, k was last written with value v
LastIs(e, k, n, v) ==
    \E m \in Writers(e, k, n) : IsLast(m, Writers(e, k, n)) /\ e[m].writes[k].Value = v

\* g is what program p is given when it is executed after the first n - 1 answers of e
GivenAt(e, n, p, g) ==
    /\ DOMAIN g = 1..Len(p.reads) /\ g = [j \in DOMAIN g |-> g[j]]
    /\ \A j \in 1..Len(p.reads) : LastIs(e, p.reads[j], n, g[j])

Started(i) == inv[i].pc # "idle"
Finished(i) == inv[i].pc \notin {"idle", "invoking"}

\* the keys that an invocation reads, and those that an answered one wrote, are there
Present ==
    \A i \in Invocations :
        /\ Started(i) => \A n \in 1..Len(prog[i].reads) : prog[i].reads[n] \in DOMAIN LocalKeyValues
        /\ inv[i].pc = "answered" => prog[i].puts \cup prog[i].dels \subseteq DOMAIN LocalKeyValues

\* the read set of an invocation has all the values that it was given
Collected ==
    \A i \in Invocations : Started(i) =>
        LET g == inv[i].given IN
        /\ DOMAIN g = 1..Len(g) /\ Len(g) \in Nat /\ g = [n \in DOMAIN g |-> g[n]]
        /\ Len(g) <= Len(prog[i].reads) /\ (Finished(i) => Len(g) = Len(prog[i].reads))
        /\ \A n \in DOMAIN g : /\ prog[i].reads[n] \in DOMAIN inv[i].ReadSet
                               /\ inv[i].ReadSet[prog[i].reads[n]].StrValue = g[n]

Queued == \A n \in 1..Len(CommitC) : Finished(CommitC[n])

\* the answer in preparation
CurSerial ==
    cur.busy =>
        /\ cur.inv \in Invocations /\ Finished(cur.inv)
        /\ GivenAt(endorsed, Sent, prog[cur.inv], cur.given)
        /\ cur.todo = Written(prog[cur.inv], cur.given)
        /\ DOMAIN cur.writes \subseteq DOMAIN cur.todo
        /\ \A k \in DOMAIN cur.writes : cur.writes[k].Value = cur.todo[k]

\* the answers that were sent
Serial ==
    \A n \in 1..Len(endorsed) :
        LET p == prog[endorsed[n].inv]
        IN  /\ GivenAt(endorsed, n, p, endorsed[n].given)
            /\ \A k \in p.puts : endorsed[n].writes[k].Value = Compute(p.txid, endorsed[n].given, k)

SerialInv == prog \in Workloads /\ Present /\ Collected /\ Queued /\ CurSerial /\ Serial

\* Two last writers are one, so SerialValue is what it wrote.
LEMMA SerialIs ==
    ASSUME NEW k, NEW n, NEW v, LastIs(endorsed, k, n, v)
    PROVE  SerialValue(k, n) = v
<1> DEFINE S == Writers(endorsed, k, n)
<1>1. PICK m \in S : IsLast(m, S) /\ endorsed[m].writes[k].Value = v
  BY DEF LastIs
<1>2. \A a, b \in S : IsLast(a, S) /\ IsLast(b, S) => a = b
  BY DEF IsLast, Writers
<1> HIDE DEF S
<1>3. (CHOOSE x \in S : IsLast(x, S)) = m
  BY <1>1, <1>2
<1>4. S # {}
  BY <1>1
<1> QED
  BY <1>1, <1>3, <1>4, Zenon DEF SerialValue, S

LEMMA LastIsValue ==
    ASSUME NEW e, NEW k, NEW n, NEW t, NEW v, LastValue(e, k, n, t, v)
    PROVE  LastIs(e, k, n, v)
BY DEF LastValue, LastIs

\* An answer that is appended changes nothing for the earlier ones.
LEMMA GivenKept ==
    ASSUME NEW S, NEW e \in Seq(S), NEW x, NEW n \in 1..(Len(e) + 1), NEW p, NEW g,
           GivenAt(e, n, p, g)
    PROVE  GivenAt(Append(e, x), n, p, g)
<1>1. ASSUME NEW k, NEW v, LastIs(e, k, n, v) PROVE LastIs(Append(e, x), k, n, v)
  <2>1. Writers(Append(e, x), k, n) = Writers(e, k, n)
    BY WritersKept
  <2>2. \A m \in Writers(e, k, n) : Append(e, x)[m] = e[m]
    BY AppendFacts DEF Writers
  <2> QED
    BY <1>1, <2>1, <2>2, Zenon DEF LastIs
<1> QED
  BY <1>1, Zenon DEF GivenAt

LEMMA SerialFollows == Serial => SerialExecution
<1> SUFFICES ASSUME Serial, NEW n \in 1..Len(endorsed)
             PROVE  LET p == prog[endorsed[n].inv]
                    IN  /\ endorsed[n].given = [j \in 1..Len(p.reads) |-> SerialValue(p.reads[j], n)]
                        /\ \A k \in p.puts :
                               endorsed[n].writes[k].Value = Compute(p.txid, endorsed[n].given, k)
  BY DEF SerialExecution
<1> DEFINE p == prog[endorsed[n].inv]
           g == endorsed[n].given
<1>1. /\ GivenAt(endorsed, n, p, g)
      /\ \A k \in p.puts : endorsed[n].writes[k].Value = Compute(p.txid, g, k)
  BY DEF Serial
<1>2. \A j \in 1..Len(p.reads) : SerialValue(p.reads[j], n) = g[j]
  BY <1>1, SerialIs DEF GivenAt
<1>3. DOMAIN g = 1..Len(p.reads) /\ g = [j \in DOMAIN g |-> g[j]]
  BY <1>1 DEF GivenAt
<1> HIDE DEF p, g
<1>4. g = [j \in 1..Len(p.reads) |-> SerialValue(p.reads[j], n)]
  BY <1>2, <1>3
<1> QED
  BY <1>1, <1>4, Zenon DEF p, g

LEMMA SerialInit == Init => SerialInv
<1> SUFFICES ASSUME Init PROVE SerialInv
  OBVIOUS
<1>1. \A i \in Invocations : inv[i].pc = "idle"
  BY DEF Init
<1>2. endorsed = <<>> /\ CommitC = <<>> /\ ~cur.busy /\ prog \in Workloads
  BY DEF Init, Idle
<1> QED
  BY <1>1, <1>2 DEF SerialInv, Present, Collected, Queued, CurSerial, Serial, Started

\* The shape of the programs.
LEMMA Programs ==
    ASSUME SerialInv, NEW i \in Invocations
    PROVE  ProgramOK(prog[i])
BY ShimAssumption DEF SerialInv

\* A step of an invocation's goroutine.  It starts when the invocations that it waits for are
\* answered, so that the keys it reads are there.
LEMMA SerialInvoke ==
    ASSUME KnownKeys, Shape, SerialInv, NEW i \in Invocations, Invoke(i)
    PROVE  SerialInv'
<1>1. UNCHANGED <<prog, LocalKeyValues, cur, endorsed>>
  BY Zenon DEF Invoke, handleTransaction, GetState, SendCommitMsg
<1>2. prog' \in Workloads /\ Serial'
  BY <1>1 DEF SerialInv, Serial
<1>3. /\ DOMAIN inv' = Invocations
      /\ \A j \in Invocations : j # i => inv'[j] = inv[j]
      /\ inv'[i].pc \in {"invoking", "queued"}
      /\ Finished(i) => FALSE
  BY SMTT(40) DEF Invoke, handleTransaction, GetState, SendCommitMsg, Shape, Finished
<1>4. CurSerial'
  BY <1>1, <1>3 DEF SerialInv, CurSerial, Sent, Finished
<1>5. Queued'
  <2>1. CASE CommitC' = CommitC
    <3>1. \A n \in 1..Len(CommitC) : CommitC[n] \in Invocations /\ Finished(CommitC[n])
      BY DEF SerialInv, Queued, Shape
    <3> QED
      BY <1>3, <2>1, <3>1 DEF Queued, Finished
  <2>2. CASE SendCommitMsg(i)
    <3>1. CommitC' = Append(CommitC, i) /\ inv'[i].pc = "queued" /\ CommitC \in Seq(Invocations)
      BY <2>2 DEF SendCommitMsg, Shape
    <3>2. \A n \in 1..Len(CommitC) : CommitC[n] \in Invocations /\ Finished(CommitC[n])
      BY DEF SerialInv, Queued, Shape
    <3>3. \A n \in 1..Len(CommitC) : Finished(CommitC[n])'
      BY <1>3, <3>1, <3>2 DEF Finished
    <3>4. Len(CommitC') = Len(CommitC) + 1 /\ CommitC'[Len(CommitC) + 1] = i
          /\ Len(CommitC) \in Nat /\ \A n \in 1..Len(CommitC) : CommitC'[n] = CommitC[n]
      BY <3>1
    <3>5. \A n \in 1..Len(CommitC') : inv'[CommitC'[n]].pc \notin {"idle", "invoking"}
      BY <3>1, <3>3, <3>4 DEF Finished
    <3> QED
      BY <3>5 DEF Queued, Finished
  <2> QED
    BY <2>1, <2>2, Zenon DEF Invoke, handleTransaction, GetState
<1>6. Present'
  <2>1. \A n \in 1..Len(prog[i].reads) : prog[i].reads[n] \in DOMAIN LocalKeyValues
    <3>1. CASE handleTransaction(i)
      <4> SUFFICES ASSUME NEW n \in 1..Len(prog[i].reads)
                   PROVE  prog[i].reads[n] \in DOMAIN LocalKeyValues
        OBVIOUS
      <4>1. PICK j \in prog[i].after : prog[i].reads[n] \in prog[j].puts \cup prog[j].dels
        BY DEF KnownKeys, SerialInv
      <4>2. j \in Invocations /\ inv[j].pc = "answered"
        BY <3>1, Programs DEF handleTransaction, ProgramOK
      <4> QED
        BY <4>1, <4>2 DEF SerialInv, Present
    <3>2. CASE ~handleTransaction(i)
      BY <3>2, Zenon DEF Invoke, GetState, SendCommitMsg, SerialInv, Present, Started
    <3> QED
      BY <3>1, <3>2
  <2> QED
    BY <1>1, <1>3, <2>1 DEF SerialInv, Present, Started
<1>7. Collected'
  <2> SUFFICES ASSUME NEW j \in Invocations, Started(j)'
               PROVE  LET g == inv'[j].given IN
                      /\ DOMAIN g = 1..Len(g) /\ Len(g) \in Nat /\ g = [n \in DOMAIN g |-> g[n]]
                      /\ Len(g) <= Len(prog[j].reads) /\ (Finished(j)' => Len(g) = Len(prog[j].reads))
                      /\ \A n \in DOMAIN g : /\ prog[j].reads[n] \in DOMAIN inv'[j].ReadSet
                                             /\ inv'[j].ReadSet[prog[j].reads[n]].StrValue = g[n]
    BY <1>1, Zenon DEF Collected
  <2>1. CASE j # i
    <3>1. inv'[j] = inv[j]
      BY <1>3, <2>1
    <3> QED
      BY <3>1, SMTT(40) DEF SerialInv, Collected, Started, Finished
  <2>2. CASE j = i /\ handleTransaction(i)
    <3>1. inv'[j].given = <<>> /\ inv'[j].pc = "invoking"
      BY <2>2 DEF handleTransaction, Shape
    <3>2. Len(prog[j].reads) \in Nat
      BY Programs DEF ProgramOK
    <3> QED
      BY <3>1, <3>2 DEF Finished
  <2>3. CASE j = i /\ SendCommitMsg(i)
    <3>1. /\ inv'[j].given = inv[j].given /\ inv'[j].ReadSet = inv[j].ReadSet /\ Started(j)
          /\ Len(inv[j].given) = Len(prog[j].reads)
      BY <2>3 DEF SendCommitMsg, Shape, Started
    <3> QED
      BY <3>1, SMTT(40) DEF SerialInv, Collected
  <2>4. CASE j = i /\ GetState(i)
    <3> DEFINE r == prog[i].reads
               g == inv[i].given
               l == Len(g)
               k == r[l + 1]
               v == [StrValue |-> ValueOf(k), PTxid |-> LocalKeyValues[k].FromTxnid]
    <3>1. /\ DOMAIN g = 1..l /\ l \in Nat /\ g = [n \in DOMAIN g |-> g[n]]
          /\ \A n \in DOMAIN g : /\ r[n] \in DOMAIN inv[i].ReadSet
                                 /\ inv[i].ReadSet[r[n]].StrValue = g[n]
      BY <2>4, Zenon DEF GetState, SerialInv, Collected, Started
    <3>2. l < Len(r) /\ Len(r) \in Nat /\ l + 1 \in 1..Len(r)
      BY <2>4, <3>1, Programs, SMTT(40) DEF GetState, ProgramOK
    <3>3. k \in DOMAIN LocalKeyValues
      BY <2>4, <3>2, Zenon DEF GetState, SerialInv, Present, Started
    <3>4. \A n \in 1..l : r[n] # k
      BY <3>1, <3>2, SMTT(40) DEF SerialInv, KnownKeys
    <3>5. /\ inv'[i].given = Append(g, ValueOf(k)) /\ inv'[i].pc = "invoking"
          /\ inv'[i].ReadSet = Put(inv[i].ReadSet, k, v)
      BY <2>4, <3>3, Zenon DEF GetState, Shape
    <3>6. /\ DOMAIN inv'[i].ReadSet = DOMAIN inv[i].ReadSet \cup {k}
          /\ inv'[i].ReadSet[k].StrValue = ValueOf(k)
          /\ \A x \in DOMAIN inv[i].ReadSet : x # k => inv'[i].ReadSet[x] = inv[i].ReadSet[x]
      <4>1. v.StrValue = ValueOf(k)
        OBVIOUS
      <4> HIDE DEF v, k
      <4> QED
        BY <3>5, <4>1 DEF Put
    <3> DEFINE h == Append(g, ValueOf(k))
    <3>7. g \in Seq({g[n] : n \in 1..l} \cup {ValueOf(k)})
      BY <3>1
    <3>8. /\ DOMAIN h = 1..(l + 1) /\ Len(h) = l + 1 /\ h = [n \in DOMAIN h |-> h[n]]
          /\ \A n \in 1..l : h[n] = g[n]
          /\ h[l + 1] = ValueOf(k)
      <4> DEFINE S == {g[n] : n \in 1..l} \cup {ValueOf(k)}
                 y == ValueOf(k)
      <4>1. y \in S
        OBVIOUS
      <4> HIDE DEF g, S, y
      <4> QED
        BY <3>7, <4>1, AppendFacts DEF S, y
    <3> HIDE DEF h, g, v, k, l, r
    <3>9. ASSUME NEW n \in DOMAIN h
          PROVE  /\ r[n] \in DOMAIN inv'[i].ReadSet
                 /\ inv'[i].ReadSet[r[n]].StrValue = h[n]
      <4>1. CASE n = l + 1
        BY <3>6, <3>8, <4>1 DEF k
      <4>2. CASE n # l + 1
        <5>1. n \in 1..l
          BY <3>1, <3>8, <4>2
        <5> QED
          BY <3>1, <3>4, <3>6, <3>8, <5>1
      <4> QED
        BY <4>1, <4>2
    <3>10. ~Finished(i)'
      BY <3>5 DEF Finished
    <3>11. inv'[i].given = h
      BY <3>5 DEF h
    <3>12. Len(h) <= Len(r) /\ Len(h) \in Nat /\ DOMAIN h = 1..Len(h)
      BY <3>1, <3>2, <3>8
    <3> QED
      BY <2>4, <3>8, <3>9, <3>10, <3>11, <3>12, Zenon DEF r
  <2> QED
    BY <2>1, <2>2, <2>3, <2>4, Zenon DEF Invoke
<1> QED
  BY <1>2, <1>4, <1>5, <1>6, <1>7 DEF SerialInv

\* Validation.  Whether the values that were collected are still the present ones or the
\* chaincode is executed again, what it was given are the present values.
LEMMA SerialValidate ==
    ASSUME EdgeInv, SerialInv, Validate
    PROVE  SerialInv'
<1> DEFINE i == Head(CommitC)
           p == prog[i]
<1>1. UNCHANGED <<prog, LocalKeyValues, inv, endorsed>> /\ ~cur.busy
  BY DEF Validate
<1>2. i \in Invocations /\ Finished(i) /\ Started(i)
  <2>1. CommitC \in Seq(Invocations) /\ CommitC # <<>>
    BY DEF Validate, EdgeInv, Shape
  <2>2. i = CommitC[1] /\ 1 \in 1..Len(CommitC) /\ CommitC[1] \in Invocations
    BY <2>1
  <2> QED
    BY <2>2 DEF SerialInv, Queued, Finished, Started
<1>3. \A n \in 1..Len(p.reads) : p.reads[n] \in DOMAIN LocalKeyValues
  BY <1>2 DEF SerialInv, Present
<1>4. \A k \in DOMAIN LocalKeyValues : LastIs(endorsed, k, Sent, LocalKeyValues[k].StrValue)
  BY <1>1, LastIsValue DEF EdgeInv, Origin, Installed
<1>5. PICK g, rs : /\ cur' = Committing(i, g, rs)
                   /\ DOMAIN g = 1..Len(p.reads) /\ g = [n \in DOMAIN g |-> g[n]]
                   /\ \A n \in 1..Len(p.reads) : g[n] = LocalKeyValues[p.reads[n]].StrValue
  <2>1. CASE Unchanged(inv[i].ReadSet)
    <3>1. cur' = Committing(i, inv[i].given, inv[i].ReadSet)
      BY <2>1 DEF Validate
    <3>2. /\ DOMAIN inv[i].given = 1..Len(p.reads)
          /\ inv[i].given = [n \in DOMAIN inv[i].given |-> inv[i].given[n]]
          /\ \A n \in 1..Len(p.reads) : /\ p.reads[n] \in DOMAIN inv[i].ReadSet
                                        /\ inv[i].ReadSet[p.reads[n]].StrValue = inv[i].given[n]
      BY <1>2, Zenon DEF SerialInv, Collected
    <3>3. \A n \in 1..Len(p.reads) : inv[i].given[n] = LocalKeyValues[p.reads[n]].StrValue
      BY <2>1, <3>2, Zenon DEF Unchanged
    <3> HIDE DEF i, p
    <3> QED
      BY <3>1, <3>2, <3>3, Zenon
  <2>2. CASE ~Unchanged(inv[i].ReadSet)
    <3>1. cur' = Committing(i, GivenNow(p), ReadNow(p))
      BY <2>2 DEF Validate
    <3>2. /\ DOMAIN GivenNow(p) = 1..Len(p.reads)
          /\ GivenNow(p) = [n \in DOMAIN GivenNow(p) |-> GivenNow(p)[n]]
          /\ \A n \in 1..Len(p.reads) : GivenNow(p)[n] = LocalKeyValues[p.reads[n]].StrValue
      BY <1>3 DEF GivenNow, ValueOf
    <3> HIDE DEF i, p
    <3> QED
      BY <3>1, <3>2, Zenon
  <2> QED
    BY <2>1, <2>2
<1>6. GivenAt(endorsed, Sent, p, g)
  BY <1>3, <1>4, <1>5 DEF GivenAt
<1>7. /\ cur'.inv = i /\ cur'.given = g /\ cur'.todo = Written(p, g) /\ DOMAIN cur'.writes = {}
  BY <1>5 DEF Committing, NoMap
<1>8. CurSerial'
  BY <1>1, <1>2, <1>6, <1>7 DEF CurSerial, Finished, Sent
<1>9. Queued'
  <2>1. CommitC \in Seq(Invocations) /\ CommitC # <<>> /\ CommitC' = Tail(CommitC)
    BY DEF Validate, EdgeInv, Shape
  <2>2. /\ Len(CommitC') = Len(CommitC) - 1 /\ Len(CommitC) \in Nat
        /\ \A n \in 1..Len(CommitC') : CommitC'[n] = CommitC[n + 1] /\ n + 1 \in 1..Len(CommitC)
    BY <2>1
  <2> QED
    BY <1>1, <2>2 DEF SerialInv, Queued, Finished
<1>10. prog' \in Workloads /\ Present' /\ Collected' /\ Serial'
  BY <1>1, Zenon DEF SerialInv, Present, Collected, Serial, Started, Finished
<1> QED
  BY <1>8, <1>9, <1>10 DEF SerialInv

\* A key that is there stays there, and what is written is what was computed.
LEMMA SerialInstall ==
    ASSUME EdgeInv, SerialInv, SetUnLockKVForWrite
    PROVE  SerialInv'
<1>1. UNCHANGED <<prog, inv, CommitC, endorsed>> /\ cur.busy
  BY DEF SetUnLockKVForWrite
<1>2. PICK k, t, w : /\ k \in DOMAIN cur.todo /\ w.Value = cur.todo[k]
                     /\ LocalKeyValues' = Put(LocalKeyValues, k, t)
                     /\ cur' = [cur EXCEPT !.writes = Put(@, k, w)]
  <2>1. PICK k \in DOMAIN cur.todo :
            /\ LocalKeyValues' = Put(LocalKeyValues, k,
                                     [StrValue |-> cur.todo[k], FromTxnid |-> prog[cur.inv].txid])
            /\ cur' = [cur EXCEPT !.writes =
                          Put(@, k, [Value |-> cur.todo[k], Txid |-> WriteParent(k)])]
    BY Zenon DEF SetUnLockKVForWrite
  <2>2. [Value |-> cur.todo[k], Txid |-> WriteParent(k)].Value = cur.todo[k]
    OBVIOUS
  <2> QED
    BY <2>1, <2>2, Zenon
<1>3. /\ cur'.busy /\ cur'.inv = cur.inv /\ cur'.given = cur.given /\ cur'.todo = cur.todo
      /\ cur'.writes = Put(cur.writes, k, w)
  BY <1>1, <1>2 DEF EdgeInv, Shape
<1>4. DOMAIN LocalKeyValues \subseteq DOMAIN LocalKeyValues'
  BY <1>2 DEF Put
<1>5. /\ DOMAIN cur'.writes = DOMAIN cur.writes \cup {k} /\ cur'.writes[k] = w
      /\ \A x \in DOMAIN cur.writes : x # k => cur'.writes[x] = cur.writes[x]
  BY <1>3 DEF Put
<1>6. CurSerial'
  BY <1>1, <1>2, <1>3, <1>5 DEF SerialInv, CurSerial, Finished, Sent
<1>7. Present'
  BY <1>1, <1>4 DEF SerialInv, Present, Started
<1>8. prog' \in Workloads /\ Queued' /\ Collected' /\ Serial'
  BY <1>1, Zenon DEF SerialInv, Queued, Collected, Serial, Started, Finished
<1> QED
  BY <1>6, <1>7, <1>8 DEF SerialInv

\* The answer.
LEMMA SerialAnswer ==
    ASSUME EdgeInv, SerialInv, Answer
    PROVE  SerialInv'
<1> DEFINE x == [inv |-> cur.inv, txid |-> prog[cur.inv].txid, ok |-> prog[cur.inv].ok,
                 given |-> cur.given, reads |-> cur.reads, writes |-> cur.writes]
           p == prog[cur.inv]
<1>1. /\ UNCHANGED <<prog, LocalKeyValues, CommitC>>
      /\ cur.busy /\ ~cur'.busy /\ DOMAIN cur.todo = DOMAIN cur.writes
      /\ endorsed' = Append(endorsed, x)
      /\ inv' = [inv EXCEPT ![cur.inv].pc = "answered"]
  BY DEF Answer, Idle
<1>2. PICK S : endorsed \in Seq(S)
  BY DEF EdgeInv, Shape
<1>3. x.inv = cur.inv /\ x.given = cur.given /\ x.writes = cur.writes
  OBVIOUS
<1> HIDE DEF x
<1>4. /\ cur.inv \in Invocations /\ Finished(cur.inv) /\ GivenAt(endorsed, Sent, p, cur.given)
      /\ cur.todo = Written(p, cur.given)
      /\ \A k \in DOMAIN cur.writes : cur.writes[k].Value = cur.todo[k]
  BY <1>1 DEF SerialInv, CurSerial
<1>5. DOMAIN cur.writes = p.puts \cup p.dels
  BY <1>1, <1>4 DEF Written
<1>6. p.puts \cup p.dels \subseteq DOMAIN LocalKeyValues
  BY <1>1, <1>5 DEF EdgeInv, Origin, Installed
<1>7. /\ Len(endorsed) \in Nat /\ Len(endorsed') = Len(endorsed) + 1
      /\ \A n \in 1..Len(endorsed) : endorsed'[n] = endorsed[n]
      /\ endorsed'[Len(endorsed) + 1] = x
  BY <1>1, <1>2, AppendFacts
<1>8. \A k \in p.puts : cur.writes[k].Value = Compute(p.txid, cur.given, k)
  <2>1. p.puts \cap p.dels = {}
    BY <1>4, Programs DEF ProgramOK
  <2> QED
    BY <1>4, <1>5, <2>1, Zenon DEF Written
<1>9. Serial'
  <2> SUFFICES ASSUME NEW n \in 1..Len(endorsed')
               PROVE  LET q == prog[endorsed'[n].inv]
                      IN  /\ GivenAt(endorsed', n, q, endorsed'[n].given)
                          /\ \A k \in q.puts :
                                endorsed'[n].writes[k].Value = Compute(q.txid, endorsed'[n].given, k)
    BY <1>1, Zenon DEF Serial
  <2>1. CASE n = Len(endorsed) + 1
    <3>1. n \in 1..(Len(endorsed) + 1) /\ endorsed'[n] = x /\ n = Sent
      BY <1>7, <2>1 DEF Sent
    <3>2. GivenAt(endorsed', n, p, cur.given)
      BY <1>1, <1>2, <1>4, <3>1, GivenKept
    <3> QED
      BY <1>3, <1>8, <3>1, <3>2
  <2>2. CASE n # Len(endorsed) + 1
    <3>1. n \in 1..Len(endorsed) /\ n \in 1..(Len(endorsed) + 1) /\ endorsed'[n] = endorsed[n]
      BY <1>7, <2>2
    <3> DEFINE q == prog[endorsed[n].inv]
    <3>2. /\ GivenAt(endorsed, n, q, endorsed[n].given)
          /\ \A k \in q.puts : endorsed[n].writes[k].Value = Compute(q.txid, endorsed[n].given, k)
      BY <3>1 DEF SerialInv, Serial
    <3>3. GivenAt(endorsed', n, q, endorsed[n].given)
      BY <1>1, <1>2, <3>1, <3>2, GivenKept
    <3> QED
      BY <3>1, <3>2, <3>3
  <2> QED
    BY <2>1, <2>2
<1>10. /\ \A j \in Invocations : j # cur.inv => inv'[j] = inv[j]
       /\ inv'[cur.inv].pc = "answered" /\ inv'[cur.inv].given = inv[cur.inv].given
       /\ inv'[cur.inv].ReadSet = inv[cur.inv].ReadSet
  BY <1>1, <1>4 DEF EdgeInv, Shape
<1>11. \A j \in Invocations : (Started(j)' <=> Started(j)) /\ (Finished(j)' <=> Finished(j))
  BY <1>4, <1>10 DEF Started, Finished
<1>12. Present'
  BY <1>1, <1>6, <1>10, <1>11 DEF SerialInv, Present
<1>13. Collected'
  <2>1. prog' = prog
    BY <1>1
  <2> SUFFICES ASSUME NEW j \in Invocations, Started(j)'
               PROVE  LET g == inv'[j].given IN
                      /\ DOMAIN g = 1..Len(g) /\ Len(g) \in Nat /\ g = [n \in DOMAIN g |-> g[n]]
                      /\ Len(g) <= Len(prog[j].reads) /\ (Finished(j)' => Len(g) = Len(prog[j].reads))
                      /\ \A n \in DOMAIN g : /\ prog[j].reads[n] \in DOMAIN inv'[j].ReadSet
                                             /\ inv'[j].ReadSet[prog[j].reads[n]].StrValue = g[n]
    BY <2>1, Zenon DEF Collected
  <2>2. inv'[j].given = inv[j].given /\ inv'[j].ReadSet = inv[j].ReadSet
    BY <1>10
  <2> QED
    BY <1>11, <2>2, ZenonT(60) DEF SerialInv, Collected
<1>14. Queued'
  BY <1>1, <1>11 DEF SerialInv, Queued, EdgeInv, Shape
<1>15. prog' \in Workloads /\ CurSerial'
  BY <1>1 DEF SerialInv, CurSerial
<1> QED
  BY <1>9, <1>12, <1>13, <1>14, <1>15 DEF SerialInv

LEMMA SerialNext == KnownKeys /\ EdgeInv /\ SerialInv /\ [Next]_vars => SerialInv'
<1> SUFFICES ASSUME KnownKeys, EdgeInv, SerialInv, [Next]_vars PROVE SerialInv'
  OBVIOUS
<1>1. ASSUME NEW i \in Invocations, Invoke(i) PROVE SerialInv'
  BY <1>1, SerialInvoke DEF EdgeInv
<1>2. CASE LocalCommitChan
  BY <1>2, SerialValidate, SerialInstall, SerialAnswer DEF LocalCommitChan
<1>3. CASE UNCHANGED vars
  BY <1>3, ZenonT(60) DEF vars, SerialInv, Present, Collected, Queued, CurSerial, Serial, Started, Finished, Sent
<1> QED
  BY <1>1, <1>2, <1>3 DEF Next, Quiet

\* ValidateAndCommit compares values only, and one by one, and the reads were made while
\* other invocations installed theirs.  Still every answer is what executing the chaincode
\* alone, after the answers before it, gives, if the chaincode reads each key once and reads
\* only keys that are there: the two cases that the comparison skips.
THEOREM AnswersAreSerial ==
    ASSUME KnownKeys
    PROVE  Spec => []SerialExecution
<1>1. EdgeInv /\ SerialInv /\ [Next]_vars => (EdgeInv /\ SerialInv)'
  BY EdgeNext, SerialNext
<1>2. SerialInv => SerialExecution
  BY SerialFollows DEF SerialInv
<1>3. Init => EdgeInv /\ SerialInv
  BY EdgeInit, SerialInit
<1> QED
  BY <1>1, <1>2, <1>3, PTL DEF Spec
=============================================================================
