SPECIFICATION FairSpec
CONSTANTS
    Needs <- ThreeNeeds
    NoNeed = 0
    MaxRounds = 2
    MaxAttempts = 2
    Seeds <- SomeSeeds
    Findings <- SomeFindings
    MaxReach = 1
    MaxCrashes = 1
CHECK_DEADLOCK FALSE
INVARIANTS
    TypeOK
    TurnsAreFair
    OutcomeIsTrue
PROPERTIES
    LoopEnds
