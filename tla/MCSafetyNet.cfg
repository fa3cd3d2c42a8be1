SPECIFICATION FairSpec
CONSTANTS
    Jobs = {j1}
    Pages = {}
    Stops = {}
    Viewers = {}
    Monitor = monitor
    None = None
    ContainerCodes = {0, 1}
    RuntimeEnabled = TRUE
    MaxRestarts = 1
PROPERTY SafetyNet
