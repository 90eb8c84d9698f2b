SPECIFICATION Spec
CONSTANTS
    o1 = o1
    o2 = o2
    Operators <- TwoOperators
    Worker = Worker
    MaxDatasets = 2
    MaxAccidents = 1
SYMMETRY Symmetry
CHECK_DEADLOCK FALSE
INVARIANTS
    TypeOK
    AnalysisIsAuthorized
PROPERTIES
    RunIsKept
