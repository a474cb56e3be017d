SPECIFICATION Spec
CONSTANTS
    m1 = m1
    m2 = m2
    q1 = q1
    q2 = q2
    q3 = q3
    k1 = k1
    a1 = a1
    a2 = a2
    a3 = a3
    a4 = a4
    u1 = u1
    u2 = u2
    u3 = u3
    u4 = u4
    u5 = u5
    u6 = u6
    x = x
    MinerOrder <- MCMinerOrder
    RequestOrder <- MCRequestOrder
    Requests = {q1}
    Miners = {m1, m2}
    Challengers = {k1}
    Auditors = {a1, a2, a3}
    Utxos = {u1, u2, u3, u4, u5}
    Answers = {x}
    Verifiable = {}
    Canary = {}
    SampledNew <- Sampled
    SampledOld <- Sampled
    NewMinerResponses = 5
    MinAuditors = 2
    CommitWindow = 1
    RequestExpiry = 6
    RevealWindow = 2
    UnstakeCooldown = 3
    RenewalBlocks = 50
    CanaryFrequency = 50
    CanaryWindow = 2
    AuditWindow = 2
    MaxCanaryStrikes = 3
    Budget = 3
    RewardsFit = 2
    HeightSpace = 64
    MaxBlockTxs = 1
    MaxReorg = 0
    MaxHeight = 6
    Beginnings <- Staked
    MayReject = FALSE
    EarlyReveals = TRUE
    MayRestart = FALSE
    Txs <- AnswerTxs
INVARIANT RebuildAgrees
