SPECIFICATION Spec
CONSTANTS
    a1 = a1
    a2 = a2
    Procs = {p1, p2}
    Actions = {a1, a2}
    NumTx = 1
    Legacy = {}
    ReconcileLimit = 20
    ReportLimit = 100
PROPERTY RefusesWhileUnresolved
