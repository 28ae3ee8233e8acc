SPECIFICATION MCSpec
CONSTANTS
    Procs = {p1, p2}
    MaxRuns = 2
    MaxSends = 2
    MaxElsewhere = 1
    Requests = {q1, q2}
    Slots = 1
    MaxDeployments = 2
    MaxScripts = 2
    MaxStrangers = 2
    a2 = a2
    t2 = t2
    p2 = p2
    q1 = q1
    q2 = q2
    Sources = {s1}
    Auctions = {a1, a2}
    Tokens = {t1, t2}
    None = none
    MaxScans = 2
    MaxMoves = 2
INVARIANT MCTypeOK
INVARIANT RowsAreTrue
INVARIANT CacheIsSound
INVARIANT RunsAreRecorded
INVARIANT FleetIsSound
PROPERTY LiveLotsAreLeftAlone
PROPERTY MappingIsTrusted
PROPERTY KicksFollowClosedRounds
CHECK_DEADLOCK FALSE
