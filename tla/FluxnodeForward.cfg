CONSTANTS
    Outpoints = {1, 2, 3}
    Ips = {ip1}
    NoIp = noip
    StartExpiration = 2
    DosRemoveAmount = 3
    ConfirmExpiration = 2
    UpdateMin = 1
    IpChangeMin = 1
    Tiers = {1}
    TierOf <- OneTier
    P2SHNodes = {2}
    PaymentsStart = 2
    MaxReorgDepth = 0
    MaxHeight = 6
SPECIFICATION Spec
INVARIANT PayeeIsOldest
