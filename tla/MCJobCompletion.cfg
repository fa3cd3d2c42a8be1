SPECIFICATION Spec
CONSTANTS
    Jobs = {j1}
    Pages = {p1}
    Stops = {s1}
    Viewers = {v1}
    Monitor = monitor
    None = None
    ContainerCodes = {0, 1}
    RuntimeEnabled = TRUE
    MaxRestarts = 0
INVARIANTS
    TypeOK
    VerdictIsTrue
    VerdictIsDurable
    UncontestedVerdict
PROPERTIES
    SettledStays
    LoopKeepsStop
    ImplementsLedger
CHECK_DEADLOCK TRUE
