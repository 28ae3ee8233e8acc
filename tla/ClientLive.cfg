SPECIFICATION FairSpec
CONSTANTS
    a1 = a1
    a2 = a2
    Procs = {p1}
    Actions = {a1}
    NumTx = 1
    Legacy = {}
    ReconcileLimit = 20
    ReportLimit = 1
PROPERTY MinedIsResolved
PROPERTY ResolvedIsReported
