SPECIFICATION MCFairSpec
CONSTANTS
    a1 = a1
    none = none
    b1 = b1
    e1 = e1
    e2 = e2
    e3 = e3
    Burners = {b1, b2}
    Tokens = {e1, e2, e3}
    GasCap = 2
    MaxGas = 3
    MaxMoves = 1
    Actions = {a1}
    NumTx = 2
    Legacy <- LegacySecond
    Reporters = {r1}
    Finalisers = {f1}
    BatchLimit = 1
INVARIANT TypeOK
INVARIANT StatusBacked
INVARIANT LedgersAgree
INVARIANT EnablingIsSound
PROPERTY OutcomeIsFinal
PROPERTY VerifiedInTheEnd
CHECK_DEADLOCK FALSE
