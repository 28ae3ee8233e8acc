SPECIFICATION Spec
CONSTANTS
    RetryTotal = 2
    Finalisers = {f1}
    Scanners = {s1}
    Ops = {"kick", "resolve", "sweep"}
    Amount = 1
    MaxTx = 3
    MaxReverts = 0
    MaxReviews = 0
    MaxSettles = 0
    MaxDonations = 0
INVARIANT AmbiguousEvidenceBlocks
CHECK_DEADLOCK FALSE
