---------------------------- MODULE LocalState ----------------------------
(***************************************************************************)
(* Speculative execution of chaincode against the shim's local state       *)
(* (core/chaincode/shim).                                                  *)
(*                                                                         *)
(* Every TRANSACTION message starts a goroutine that invokes the chaincode *)
(* (handleTransaction).  The invocation reads the shared LocalState        *)
(* without a lock and buffers its writes.  The goroutine then queues the   *)
(* invocation on CommitC.  One goroutine (LocalCommitChan) takes them one  *)
(* at a time: it compares every value read with the present one, executes  *)
(* the chaincode again when one differs, installs the writes key by key    *)
(* while other invocations read, and answers the peer with the read set    *)
(* and the write set, each entry naming the transaction it depends on.     *)
(* Those entries are the edges the orderer's CE-Graph is built from.       *)
(*                                                                         *)
(* Chaincode is deterministic: a program reads a sequence of keys and      *)
(* writes, to each key it writes, a function of the values it was given.   *)
(***************************************************************************)
EXTENDS Integers, Sequences, FiniteSets

CONSTANTS Invocations,      \* executions asked for by the peer
          Keys,
          Workloads,        \* each gives every invocation its program
          Compute(_, _, _), \* Compute(txid, values given, key): the value written
          Nil,              \* what GetState returns for a key not in LocalState
          Empty,            \* the empty string, StrValue of a deleted key
          CommitCap         \* capacity of CommitC (5000 in chatWithPeer)

\* txid: the transaction; reads: the keys it reads, in order; puts, dels: the keys it
\* writes and deletes; ok: its response has no error status; after: the invocations
\* whose answers its client waits for
ProgramOK(p) ==
    /\ DOMAIN p = {"txid", "reads", "puts", "dels", "ok", "after"}
    /\ p.reads \in Seq(Keys)
    /\ p.puts \subseteq Keys /\ p.dels \subseteq Keys /\ p.puts \cap p.dels = {}
    /\ p.ok \in BOOLEAN
    /\ p.after \subseteq Invocations

ASSUME ShimAssumption ==
    /\ CommitCap \in Nat \ {0}
    /\ \A w \in Workloads : DOMAIN w = Invocations /\ \A i \in Invocations : ProgramOK(w[i])

VARIABLES prog,            \* the workload
          LocalKeyValues,  \* key -> StrValue and FromTxnid, for the keys ever written
          inv,             \* per invocation: where it is, the values given, UNLockReadSets
          CommitC,         \* invocations waiting for LocalCommitChan
          cur,             \* the invocation LocalCommitChan is working on, when it is busy
          endorsed         \* COMPLETED messages sent to the peer, in order

vars == <<prog, LocalKeyValues, inv, CommitC, cur, endorsed>>

NoMap == [x \in {} |-> x]
Put(m, k, v) == [x \in DOMAIN m \cup {k} |-> IF x = k THEN v ELSE m[x]]

---------------------------------------------------------------------------
\* the invocation's goroutine

\* stub.init and NewLocalTxnSimulator
handleTransaction(i) ==
    /\ inv[i].pc = "idle"
    /\ \A j \in prog[i].after : inv[j].pc = "answered"
    /\ inv' = [inv EXCEPT ![i] = [pc |-> "invoking", given |-> <<>>, ReadSet |-> NoMap]]
    /\ UNCHANGED <<prog, LocalKeyValues, CommitC, cur, endorsed>>

\* what GetState(k) returns: a key that is not there leaves no entry in UNLockReadSets,
\* a key read again overwrites its entry
ValueOf(k) == IF k \in DOMAIN LocalKeyValues THEN LocalKeyValues[k].StrValue ELSE Nil

GetState(i) ==
    LET k == prog[i].reads[Len(inv[i].given) + 1]
    IN  /\ inv[i].pc = "invoking"
        /\ Len(inv[i].given) < Len(prog[i].reads)
        /\ inv' = [inv EXCEPT
               ![i].given = Append(@, ValueOf(k)),
               ![i].ReadSet = IF k \in DOMAIN LocalKeyValues
                              THEN Put(@, k, [StrValue |-> ValueOf(k),
                                              PTxid |-> LocalKeyValues[k].FromTxnid])
                              ELSE @]
        /\ UNCHANGED <<prog, LocalKeyValues, CommitC, cur, endorsed>>

SendCommitMsg(i) ==
    /\ inv[i].pc = "invoking"
    /\ Len(inv[i].given) = Len(prog[i].reads)
    /\ Len(CommitC) < CommitCap
    /\ CommitC' = Append(CommitC, i)
    /\ inv' = [inv EXCEPT ![i].pc = "queued"]
    /\ UNCHANGED <<prog, LocalKeyValues, cur, endorsed>>

---------------------------------------------------------------------------
\* the commit goroutine

\* plausible bug: one matching value is enough
UnchangedMutant(rs) ==
    DOMAIN rs = {} \/ \E k \in DOMAIN rs : rs[k].StrValue = LocalKeyValues[k].StrValue

\* flagCommit: every value read is still the present one
Unchanged(rs) == \A k \in DOMAIN rs : rs[k].StrValue = LocalKeyValues[k].StrValue

\* plausible bug: name the writer seen when the key was read
FinalReadSetMutant(rs) ==
    [k \in DOMAIN rs |-> [Value |-> rs[k].StrValue, Txid |-> rs[k].PTxid]]

\* the value read, and the transaction that wrote the key last when it is validated
FinalReadSet(rs) ==
    [k \in DOMAIN rs |-> [Value |-> rs[k].StrValue, Txid |-> LocalKeyValues[k].FromTxnid]]

\* what executing the program now, in the commit goroutine, reads
GivenNow(p) == [n \in 1..Len(p.reads) |-> ValueOf(p.reads[n])]
ReadNow(p) ==
    [k \in {p.reads[n] : n \in 1..Len(p.reads)} \cap DOMAIN LocalKeyValues |->
        [StrValue |-> LocalKeyValues[k].StrValue, PTxid |-> LocalKeyValues[k].FromTxnid]]

Written(p, given) ==
    [k \in p.puts \cup p.dels |-> IF k \in p.dels THEN Empty ELSE Compute(p.txid, given, k)]

Idle == [busy |-> FALSE]

Committing(i, given, rs) ==
    [busy |-> TRUE, inv |-> i, given |-> given, reads |-> FinalReadSet(rs),
     todo |-> Written(prog[i], given), writes |-> NoMap]

\* plausible bug: queue a changed invocation again without executing it
ValidateMutant ==
    /\ ~cur.busy /\ CommitC # <<>>
    /\ LET i == Head(CommitC)
       IN  IF Unchanged(inv[i].ReadSet)
           THEN CommitC' = Tail(CommitC) /\ cur' = Committing(i, inv[i].given, inv[i].ReadSet)
           ELSE CommitC' = Append(Tail(CommitC), i) /\ UNCHANGED cur
    /\ UNCHANGED <<prog, LocalKeyValues, inv, endorsed>>

\* only this goroutine writes LocalKeyValues, so the comparison and the second execution
\* see one state
Validate ==
    /\ ~cur.busy /\ CommitC # <<>>
    /\ LET i == Head(CommitC)
       IN  \/ /\ Unchanged(inv[i].ReadSet)
              /\ cur' = Committing(i, inv[i].given, inv[i].ReadSet)
           \/ /\ ~Unchanged(inv[i].ReadSet)
              /\ cur' = Committing(i, GivenNow(prog[i]), ReadNow(prog[i]))
    /\ CommitC' = Tail(CommitC)
    /\ UNCHANGED <<prog, LocalKeyValues, inv, endorsed>>

\* plausible bug: name the writer the transaction read from
WriteParentMutant(k) ==
    IF k \in DOMAIN cur.reads THEN cur.reads[k].Txid ELSE prog[cur.inv].txid

\* the transaction a write names: the last writer of the key, or the transaction itself
\* when it creates the key
WriteParent(k) ==
    IF k \in DOMAIN LocalKeyValues THEN LocalKeyValues[k].FromTxnid ELSE prog[cur.inv].txid

SetUnLockKVForWrite ==
    /\ cur.busy
    /\ \E k \in DOMAIN cur.todo \ DOMAIN cur.writes :
        LET v == cur.todo[k]
        IN  /\ LocalKeyValues' = Put(LocalKeyValues, k, [StrValue |-> v, FromTxnid |-> prog[cur.inv].txid])
            /\ cur' = [cur EXCEPT !.writes = Put(@, k, [Value |-> v, Txid |-> WriteParent(k)])]
    /\ UNCHANGED <<prog, inv, CommitC, endorsed>>

\* triggerNextState with the COMPLETED message, whatever the status of the response
Answer ==
    /\ cur.busy
    /\ DOMAIN cur.todo = DOMAIN cur.writes
    /\ endorsed' = Append(endorsed, [inv |-> cur.inv, txid |-> prog[cur.inv].txid,
                                     ok |-> prog[cur.inv].ok, given |-> cur.given,
                                     reads |-> cur.reads, writes |-> cur.writes])
    /\ inv' = [inv EXCEPT ![cur.inv].pc = "answered"]
    /\ cur' = Idle
    /\ UNCHANGED <<prog, LocalKeyValues, CommitC>>

LocalCommitChan == Validate \/ SetUnLockKVForWrite \/ Answer

---------------------------------------------------------------------------
Init ==
    /\ prog \in Workloads
    /\ LocalKeyValues = NoMap
    /\ inv = [i \in Invocations |-> [pc |-> "idle", given |-> <<>>, ReadSet |-> NoMap]]
    /\ CommitC = <<>>
    /\ cur = Idle
    /\ endorsed = <<>>

\* every invocation has been answered
Quiet == (\A i \in Invocations : inv[i].pc = "answered") /\ UNCHANGED vars

Invoke(i) == handleTransaction(i) \/ GetState(i) \/ SendCommitMsg(i)

Next == (\E i \in Invocations : Invoke(i)) \/ LocalCommitChan \/ Quiet

Spec == Init /\ [][Next]_vars

\* goroutines that can run do run, and chaincode returns
FairSpec == Spec /\ WF_vars(LocalCommitChan) /\ \A i \in Invocations : WF_vars(Invoke(i))

---------------------------------------------------------------------------
\* the answers before the n-th of e that write k, and the last of them
Writers(e, k, n) == {m \in 1..(n - 1) : k \in DOMAIN e[m].writes}
IsLast(m, S) == m \in S /\ \A j \in S : j <= m

\* before the n-th answer of e, k was last written by an answer of transaction t
LastWrite(e, k, n, t) ==
    \E m \in Writers(e, k, n) : IsLast(m, Writers(e, k, n)) /\ e[m].txid = t

\* ... and with value v
LastValue(e, k, n, t, v) ==
    \E m \in Writers(e, k, n) :
        IsLast(m, Writers(e, k, n)) /\ e[m].txid = t /\ e[m].writes[k].Value = v

\* ValidateAndCommit: what an answer says it read is what the last answer before it to
\* write the key wrote, and it names the transaction of that answer.  So the parents the
\* orderer sees are those of one serial execution, in the order of the answers, even when
\* a value was overwritten and came back between the read and the validation.
ReadsFromLast ==
    \A n \in 1..Len(endorsed) : \A k \in DOMAIN endorsed[n].reads :
        LastValue(endorsed, k, n, endorsed[n].reads[k].Txid, endorsed[n].reads[k].Value)

\* SetUnLockKVForWrite: a write names the transaction of the last answer before it to
\* write the key, or its own when there is none, so that the writers of a key form one
\* chain in the order of the answers.
WritersFormAChain ==
    \A n \in 1..Len(endorsed) : \A k \in DOMAIN endorsed[n].writes :
        \/ /\ Writers(endorsed, k, n) = {}
           /\ endorsed[n].writes[k].Txid = endorsed[n].txid
        \/ LastWrite(endorsed, k, n, endorsed[n].writes[k].Txid)

\* what executing answer n's program after the answers before it gives it
SerialValue(k, n) ==
    LET before == Writers(endorsed, k, n)
    IN  IF before = {} THEN Nil
        ELSE endorsed[CHOOSE m \in before : IsLast(m, before)].writes[k].Value

\* An invocation reads a key once, and only keys that were written by an invocation whose
\* answer its client had: the local state has the key, and the read is validated.
KnownKeys ==
    \A w \in Workloads : \A i \in Invocations :
        /\ \A m, n \in 1..Len(w[i].reads) : w[i].reads[m] = w[i].reads[n] => m = n
        /\ \A n \in 1..Len(w[i].reads) :
               \E j \in w[i].after : w[i].reads[n] \in w[j].puts \cup w[j].dels

\* Validation by value: every answer is what executing its program after the answers
\* before it, alone, gives, although invocations run side by side, read a write set that
\* is half installed, and validation looks at the read set only.
SerialExecution ==
    \A n \in 1..Len(endorsed) :
        LET p == prog[endorsed[n].inv]
        IN  /\ endorsed[n].given = [j \in 1..Len(p.reads) |-> SerialValue(p.reads[j], n)]
            /\ \A k \in p.puts :
                   endorsed[n].writes[k].Value = Compute(p.txid, endorsed[n].given, k)

\* LocalCommitChan: every invocation the peer starts is answered: again and again there is
\* none under way, since each is started once.
Answered == []<>(\A i \in Invocations : inv[i].pc \in {"idle", "answered"})
=============================================================================
