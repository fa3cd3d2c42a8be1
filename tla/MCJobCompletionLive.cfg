SPECIFICATION FairSpec
CONSTANTS
    Jobs = {j1}
    Pages = {}
    Stops = {s1}
    Viewers = {v1}
    Monitor = monitor
    None = None
    ContainerCodes = {0}
    RuntimeEnabled = TRUE
    MaxRestarts = 1
PROPERTIES
    EndedJobCloses
    ProducerComesBack
    StreamFindsEnd
