SPECIFICATION MCSpec
CONSTANTS
    Scanners = {s1}
    Items = {"balance"}
    Pairs = {"pool"}
    Destinations = {"admin_alerts"}
    MaxRuns = 4
    MaxRounds = 2
INVARIANT TypeOK
INVARIANT FailureAnnounced
INVARIANT OneAlertPerEpisode
PROPERTY ImplementsBoundedDelivery
CHECK_DEADLOCK FALSE
