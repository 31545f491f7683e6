SPECIFICATION FairSpec
CONSTANTS
    i0 = i0  i1 = i1  i2 = i2  i3 = i3
    t0 = t0  t1 = t1  t2 = t2  t3 = t3  t4 = t4  t5 = t5
    k1 = k1  k2 = k2
    Nil = Nil
    Empty = Empty
    Invocations = {i0, i1, i2, i3}
    Keys = {k1, k2}
    Workloads <- Concurrent
    Compute <- Value
    CommitCap = 2
INVARIANTS SerialExecution ReadsFromLast WritersFormAChain
PROPERTY Answered
