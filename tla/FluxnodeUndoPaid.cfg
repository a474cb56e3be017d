CONSTANTS
    Outpoints = {1, 2}
    Ips = {ip1}
    NoIp = noip
    StartExpiration = 2
    DosRemoveAmount = 3
    ConfirmExpiration = 3
    UpdateMin = 1
    IpChangeMin = 1
    Tiers = {1}
    TierOf <- OneTier
    P2SHNodes = {}
    PaymentsStart = 2
    MaxReorgDepth = 2
    MaxHeight = 7
SPECIFICATION Spec
INVARIANT PayeeIsOldest
