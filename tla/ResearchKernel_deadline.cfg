SPECIFICATION Spec
CONSTANTS
    w1 = w1
    w2 = w2
    e1 = e1
    e2 = e2
    a1 = a1
    a2 = a2
    Workers <- TwoWorkers
    NoWorker = NoWorker
    Executions <- TwoExecutions
    NoExecution = NoExecution
    WorkerOf <- WorkerOfTwo
    Actions <- TwoActions
    NoAction = NoAction
    Cost <- Costs
    MaxAttempts <- Ceilings
    Units = 3
    Decisions = 2
    MaxFaults = 0
CHECK_DEADLOCK FALSE
INVARIANTS
    DeadlineHandsOver
