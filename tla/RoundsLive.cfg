SPECIFICATION MCFairSpec
CONSTANTS
    RetryTotal = 2
    Finalisers = {f1}
    Scanners = {s1}
    Ops = {"kick", "resolve"}
    Amount = 1
    MaxTx = 2
    MaxReverts = 0
    MaxReviews = 0
    MaxSettles = 1
    MaxDonations = 1
PROPERTY ClosedRoundIsJudged
CHECK_DEADLOCK FALSE
