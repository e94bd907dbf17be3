\* Two workers of both write modes, one of which may vanish.
SPECIFICATION PipelineSpec
CONSTANTS
    MaxPost = 2
    MaxBatch = 2
    MaxEntries = 2
    MaxTime = 1
    MaxSkew = 1
    Robots = {r1}
    None = None
    Fits = {TRUE, FALSE}
    Workers = {w1, w2}
    Lasting = {w1}
    BatchInsert = {w1}
    MaxLen = 1
    Count = 2
    Restarts = TRUE
    MaxFaults = 1
INVARIANTS AtLeastOnce RosterInStep SeenNotAhead
PROPERTY LastSeenForward
PROPERTY SettledForGood
