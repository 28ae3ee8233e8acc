SPECIFICATION Spec
CONSTANTS
    Sources = {s1}
    Auctions = {a1}
    Tokens = {t1}
    None = none
    MaxScans = 1
    MaxMoves = 0
PROPERTY UnreadTokensDoNotAbort
CHECK_DEADLOCK FALSE
