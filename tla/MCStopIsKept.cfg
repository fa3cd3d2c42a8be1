SPECIFICATION Spec
CONSTANTS
    Jobs = {j1}
    Pages = {}
    Stops = {s1}
    Viewers = {}
    Monitor = monitor
    None = None
    ContainerCodes = {0, 1}
    RuntimeEnabled = TRUE
    MaxRestarts = 0
PROPERTY StopIsKept
