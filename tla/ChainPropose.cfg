SPECIFICATION Spec
CONSTANTS
    t1 = t1
    t2 = t2
    t3 = t3
    t4 = t4
    m1 = m1
    m2 = m2
    tick = tick
    Txs = {t1, t2, t3}
    Configs = {}
    MemberConfigs = {}
    Tick = tick
    Submissions <- Everything
    Racing = FALSE
    MaxMessageCount = 1
    MaxInflightBlocks = 1
    EnvMsgCap = 3
    CommitCap = 2
    ApplyCap = 2
    MaxElections = 1
    MaxForeign = 0
    Prompt = TRUE
INVARIANT ProposeSucceeds
