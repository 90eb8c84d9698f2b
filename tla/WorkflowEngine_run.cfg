SPECIFICATION FairSpec
CONSTANTS
    Tasks <- AllTasks
    NoTask = NoTask
    Templates <- AllTemplates
    Position <- InOrder
    MaxFaults = 2
    MaxResumes = 1
CHECK_DEADLOCK FALSE
INVARIANTS
    TypeOK
    EngineNeverRaises
    PausedAtOneBoundary
    DeliveryIsEarned
    OutcomeIsEarned
PROPERTIES
    ScheduleIsOnePass
    GraphKept
    RunSettles
