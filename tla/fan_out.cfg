CONSTANTS
    Clients = {c1, c2}
    Stalled = {c2}
    None = None
    Backends = {"redis", "direct"}
    Capacity = 2
    Count = 2
    MaxPublished = 3
    MaxTotal = 4
    MaxFaults = 1
SPECIFICATION FanOutSpec
INVARIANT FanOutTypeOK
INVARIANT Gapless
PROPERTY ImplementsLiveFeed
PROPERTY NewestArrives
PROPERTY PublishedIsFanned
