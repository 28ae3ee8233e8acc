SPECIFICATION MCSpec
CONSTANTS
    a1 = a1
    a2 = a2
    Procs = {p1}
    Actions = {a1, a2}
    NumTx = 2
    Legacy <- LegacyTwo
    ReconcileLimit = 1
    ReportLimit = 1
INVARIANT TypeOK
INVARIANT SubmissionRetained
INVARIANT NoReplacementSigned
INVARIANT ReportKeptOrAnnounced
PROPERTY ForgottenOnlyWhenMined
PROPERTY ImplementsSerialSender
