CONSTANTS
    k1 = k1
    ec = ec
    None = None
    Calls = {c1, c2}
    Kids = {k1, ec}
    Usable = {k1}
    Requests <- AllRequests
    TTL = 2
    Latency = 1
    MaxTime = 3
SPECIFICATION FairSpec
INVARIANTS
    TypeOK
    RefreshFindsKey
    IInv
PROPERTIES
    WithdrawnKeysExpire
    EveryRequestAnswered
