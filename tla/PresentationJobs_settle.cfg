SPECIFICATION FairSpec
CONSTANTS
    w1 = w1
    w2 = w2
    s1 = s1
    s2 = s2
    Workers <- TwoWorkers
    DraftGenerator = DraftGenerator
    Nobody = Nobody
    Sources <- OneSource
    NoSource = NoSource
    Contract <- Editorial
    MaxAttempts = 3
    MaxFaults = 2
CHECK_DEADLOCK FALSE
PROPERTIES
    JobsSettle
