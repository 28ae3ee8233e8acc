SPECIFICATION Spec
CONSTANTS
    a1 = a1
    Actions = {a1}
    NumTx = 1
    Legacy = {}
    Reporters = {r1}
    Finalisers = {f1}
    BatchLimit = 1
PROPERTY ReplayKeepsOutcome
CHECK_DEADLOCK FALSE
