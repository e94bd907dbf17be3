CONSTANTS
    Handlers = {h1, h2}
    None = None
    MaxReadings = 2
    MaxBatch = 1
    MaxFaults = 3
SPECIFICATION FreeTierSpec
INVARIANT FreeTierTypeOK
INVARIANT AckedIsKept
INVARIANT TwiceOnlyByRetry
INVARIANT SeenIsStored
PROPERTY FollowsViewers
