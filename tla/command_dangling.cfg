\* One command without timeout_seconds, as the dashboard sends it.
SPECIFICATION DeliveryFairSpec
CONSTANTS
    MaxCommand = 1
    Robots = {r1}
    Keys = {}
    NoKey = NoKey
    None = None
    Deadlines = {"never"}
    Creators = {p1}
    Claimers = {h1}
    Patchers = {u1}
    Scanners = {s1}
    MaxFaults = 0
PROPERTY DanglingIsReconciled
