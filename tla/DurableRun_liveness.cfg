SPECIFICATION FairSpec
CONSTANTS
    w1 = w1
    w2 = w2
    c1 = c1
    c2 = c2
    Runs <- TwoRuns
    Workers <- OneWorker
    Clients <- OneClient
    Kinds <- ResumeKinds
    NoWorker = NoWorker
    NoRun = NoRun
    NoPrint = NoPrint
    MaxFaults = 2
    MaxRequests = 1
    MaxVersion = 50
PROPERTIES
    RunnableRunSettles
