\* One worker, one failure or restart of Redis.
SPECIFICATION PipelineFairSpec
CONSTANTS
    MaxPost = 1
    MaxBatch = 1
    MaxEntries = 1
    MaxTime = 1
    MaxSkew = 0
    Robots = {r1}
    None = None
    Fits = {TRUE}
    Workers = {w1}
    Lasting = {w1}
    BatchInsert = {w1}
    MaxLen = 1
    Count = 1
    Restarts = TRUE
    MaxFaults = 1
PROPERTY QueuedIsPersisted
