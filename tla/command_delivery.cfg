\* One robot that polls again after a timed-out claim, two commands.
SPECIFICATION DeliverySpec
CONSTANTS
    MaxCommand = 2
    Robots = {r1}
    Keys = {}
    NoKey = NoKey
    None = None
    Deadlines = {"never"}
    Creators = {p1}
    Claimers = {h1, h2}
    Patchers = {u1}
    Scanners = {}
    MaxFaults = 1
SYMMETRY Symmetry
VIEW View
INVARIANTS DeliveryTypeOK PerformedAtMostOnce CompletedWasPerformed PerformedInOrder ExclusiveClaim
