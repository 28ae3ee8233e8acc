SPECIFICATION MCSpec
CONSTANTS
    RetryTotal = 2
    Finalisers = {f1}
    Scanners = {s1, s2}
    Ops = {"kick", "resolve", "sweep"}
    Amount = 2
    MaxTx = 4
    MaxReverts = 1
    MaxReviews = 1
    MaxSettles = 2
    MaxDonations = 1
SYMMETRY ScannerSymmetry
INVARIANT TypeOK
INVARIANT AllowsOnlyClosedRounds
INVARIANT NoFillIsTrue
INVARIANT ProductiveIsTrue
INVARIANT CaughtUpIsTrue
CHECK_DEADLOCK FALSE
