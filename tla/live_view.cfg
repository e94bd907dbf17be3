CONSTANTS
    Robots = {r1}
    None = None
    Polls = {p1, p2}
    MaxVersion = 2
    MaxFrames = 3
SPECIFICATION DashboardSpec
INVARIANT DisplayTruthful
PROPERTY QuietIsOffline
PROPERTY DisplaySettles
