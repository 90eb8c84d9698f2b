SPECIFICATION Spec
CONSTANTS
    w1 = w1
    w2 = w2
    s1 = s1
    s2 = s2
    Workers <- TwoWorkers
    DraftGenerator = DraftGenerator
    Nobody = Nobody
    Sources <- TwoSources
    NoSource = NoSource
    Contract <- StructuredAndDraft
    MaxAttempts = 2
    MaxFaults = 0
CHECK_DEADLOCK FALSE
SYMMETRY Symmetry
INVARIANTS
    TypeOK
    CompletedRunIsDelivered
PROPERTIES
    OnlyTheClaimantSettles
    RunFollowsItsJob
    DeliveryKept
