SPECIFICATION Spec
CONSTANTS
    t1 = t1
    t2 = t2
    t3 = t3
    t4 = t4
    m1 = m1
    m2 = m2
    tick = tick
    Txs = {t1, t2, t3}
    Configs = {m1, m2}
    MemberConfigs = {m2}
    Tick = tick
    Submissions <- Mixed
    Racing = FALSE
    MaxMessageCount = 2
    MaxInflightBlocks = 2
    EnvMsgCap = 3
    CommitCap = 2
    ApplyCap = 2
    MaxElections = 2
    MaxForeign = 1
    Prompt = TRUE
SYMMETRY TxSymmetry
INVARIANT ChainTypeOK
 
 
INVARIANT ReleaseOrder
 
INVARIANT PausedForAReason
