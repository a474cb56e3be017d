CONSTANTS
    Outpoints = {1}
    Ips = {ip1}
    NoIp = noip
    StartExpiration = 1
    DosRemoveAmount = 2
    ConfirmExpiration = 0
    UpdateMin = 0
    IpChangeMin = 1
    Tiers = {1}
    TierOf <- OneTier
    P2SHNodes = {1}
    PaymentsStart = 2
    UndoKept = 3
    Cleanup = FALSE
    Rebuild = FALSE
    Reorgs = TRUE
    TornFlush = FALSE
    MaxConnects = 5
SPECIFICATION Spec
INVARIANTS TypeOK CacheMatchesChain DirtyCovers UndoOfChain
