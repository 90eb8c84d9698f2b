SPECIFICATION Spec
CONSTANTS
    w1 = w1
    w2 = w2
    c1 = c1
    c2 = c2
    Runs <- OneRun
    Workers <- TwoWorkers
    Clients <- OneClient
    Kinds <- AllKinds
    NoWorker = NoWorker
    NoRun = NoRun
    NoPrint = NoPrint
    MaxFaults = 1
    MaxRequests = 1
    MaxVersion = 8
SYMMETRY Symmetry
INVARIANTS
    TypeOK
    EstablishedSeesRow
    OneEstablishedWriter
PROPERTIES
    FinishedRunSafeFromEstablished
    LeaseKept
