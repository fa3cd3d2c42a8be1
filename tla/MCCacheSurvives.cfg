SPECIFICATION Spec
CONSTANTS
    Types = {parquet, parquet_sat}
    Roots = {r1}
    Requests = {q1}
    Refreshers = {b1}
    None = None
    WatchersEnabled = TRUE
    MaxChanges = 0
    MaxRestarts = 1
PROPERTY CacheSurvives
