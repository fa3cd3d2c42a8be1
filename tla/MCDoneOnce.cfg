SPECIFICATION Spec
CONSTANTS
    Jobs = {j1}
    Pages = {p1}
    Stops = {}
    Viewers = {}
    Monitor = monitor
    None = None
    ContainerCodes = {0, 1}
    RuntimeEnabled = TRUE
    MaxRestarts = 0
INVARIANT DoneOnce
