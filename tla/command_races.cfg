\* Two PATCHes and a timeout scanner race over one command.
SPECIFICATION Spec
CONSTANTS
    MaxCommand = 1
    Robots = {r1}
    Keys = {}
    NoKey = NoKey
    None = None
    Deadlines = {"future"}
    Creators = {p1}
    Claimers = {}
    Patchers = {u1, u2}
    Scanners = {s1}
    MaxFaults = 0
SYMMETRY Symmetry
INVARIANTS RowIsOneRun ToldOnlyDurable
PROPERTY ImplementsContract
