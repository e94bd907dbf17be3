\* One of two workers may vanish with entries pending; nothing is trimmed.
SPECIFICATION PipelineFairSpec
CONSTANTS
    MaxPost = 2
    MaxBatch = 1
    MaxEntries = 2
    MaxTime = 2
    MaxSkew = 0
    Robots = {r1}
    None = None
    Fits = {TRUE}
    Workers = {w1, w2}
    Lasting = {w1}
    BatchInsert = {w1}
    MaxLen = 2
    Count = 1
    Restarts = TRUE
    MaxFaults = 1
PROPERTY DrainedByGroup
