SPECIFICATION MCSpec
CONSTANTS
    a1 = a1
    a2 = a2
    t1 = t1
    t2 = t2
    s1 = s1
    s2 = s2
    None = None
    Wad = 100
    Ray = 10000
    Bps = 20
    Dust = 1
    Threshold = 1
    Clients = {c1, c2}
    Pairs <- MCPairs
    Markets <- MCMarkets
    RetryTotal = 1
    MaxTx = 4
    MaxRuns = 4
SYMMETRY ClientSymmetry
INVARIANT TypeOK
INVARIANT StreakBounded
INVARIANT NoKickOverLeftovers
INVARIANT OneActionPerAuction
INVARIANT StopsWhilePending
INVARIANT VerdictsAreTrue
INVARIANT PricesAreSound
INVARIANT PolicyRespected
CHECK_DEADLOCK FALSE
