SPECIFICATION FairSpec
CONSTANTS
    ann = ann
    ben = ben
    t1 = t1
    t2 = t2
    Users = {ann, ben}
    Requests = {k1, k2}
    Tabs = {t1, t2}
    Owner <- OwnerOf
    Directs = {d1}
    None = None
    MaxActive = 1
    MaxFailedPolls = 2
    MaxJobs = 2
    MaxRestarts = 1
INVARIANTS
    TypeOK
    UserJobs
    QueuedOnce
    FilesMatchJobs
    ToldDoneIsServed
PROPERTIES
    PositionFalls
    PageLearnsTheEnd
CHECK_DEADLOCK FALSE
