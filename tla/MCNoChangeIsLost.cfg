SPECIFICATION Spec
CONSTANTS
    Types = {parquet}
    Roots = {r1}
    Requests = {q1}
    Refreshers = {b1}
    None = None
    WatchersEnabled = TRUE
    MaxChanges = 1
    MaxRestarts = 0
INVARIANT NoChangeIsLost
