SPECIFICATION FairSpec
CONSTANTS
    Types = {parquet}
    Roots = {r1}
    Requests = {q1}
    Refreshers = {b1, b2}
    None = None
    WatchersEnabled = TRUE
    MaxChanges = 1
    MaxRestarts = 1
INVARIANTS
    TypeOK
    RefreshIsBooked
    ProgressIsTrue
PROPERTIES
    AnswersShowWhatWasTold
    ProgressLasts
    ListingCatchesUp
