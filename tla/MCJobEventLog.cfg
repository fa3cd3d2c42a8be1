SPECIFICATION FairSpec
CONSTANTS
    Tails = {0, 1, 9}
    AllLines = 9
    Retentions = {0, 2}
    PruneEvery = 2
    PageSize = 2
    MaxLines = 2
    MaxFaults = 3
INVARIANTS
    LinesInOrder
    LateEvents
    PanelMissesNothing
    RepeatsOnlyAfterReopen
PROPERTIES
    PanelLearnsEnd
CHECK_DEADLOCK FALSE
