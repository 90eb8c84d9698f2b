SPECIFICATION Spec
CONSTANTS
    q1 = q1
    q2 = q2
    w1 = w1
    w2 = w2
    n1 = n1
    Requests <- TwoRequests
    NoRequest = NoRequest
    Workers <- TwoWorkers
    Needs <- OneNeed
    MaxSearch = 1
    MaxProvider = 2
    Reservation = 1
    ParentEvidence <- Nothing
    NoLedger = NoLedger
    Lapses <- InACall
    MaxFaults = 1
SYMMETRY Symmetry
VIEW View
CHECK_DEADLOCK FALSE
INVARIANTS
    TypeOK
    SpendIsCounted
    SuccessIsEarned
PROPERTIES
    AmbiguityHolds
