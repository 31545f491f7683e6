SPECIFICATION FairSpec
CONSTANTS
    t1 = t1
    t2 = t2
    t3 = t3
    t4 = t4
    k1 = k1
    k2 = k2
    none = none
    TxIds = {t1, t2, t3, t4}
    Keys = {k1, k2}
    EmptyValue = none
    MaxMessageCount = 2
    Workloads <- Serial4
INVARIANT ParentsFirst
INVARIANT NoSpuriousFailure
PROPERTY Settled
 
