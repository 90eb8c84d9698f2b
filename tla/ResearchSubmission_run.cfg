SPECIFICATION Spec
CONSTANTS
    q1 = q1
    q2 = q2
    q3 = q3
    q4 = q4
    Requests <- FourRequests
    NoRequest = NoRequest
    Briefs <- TwoBriefs
    MaxFaults = 3
SYMMETRY Symmetry
CHECK_DEADLOCK FALSE
INVARIANTS
    TypeOK
    KeyIsHonest
