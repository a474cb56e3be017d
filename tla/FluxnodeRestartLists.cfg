CONSTANTS
    Outpoints = {1, 2}
    Ips = {ip1}
    NoIp = noip
    StartExpiration = 1
    DosRemoveAmount = 2
    ConfirmExpiration = 0
    UpdateMin = 0
    IpChangeMin = 1
    Tiers = {1}
    TierOf <- OneTier
    P2SHNodes = {2}
    PaymentsStart = 2
    UndoKept = 2
    Cleanup = TRUE
    Rebuild = TRUE
    Reorgs = FALSE
    TornFlush = TRUE
    MaxConnects = 4
SPECIFICATION Spec
CONSTRAINT DamageBound
INVARIANTS AcceptsNetworkBlocks 
