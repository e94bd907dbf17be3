\* Two workers sweep two commands while two requests create them, with and without a key;
\* one fault.
SPECIFICATION FairSpec
CONSTANTS
    MaxCommand = 2
    Robots = {r1}
    Keys = {k1}
    NoKey = NoKey
    None = None
    Deadlines = {"future"}
    Creators = {p1, p2}
    Claimers = {}
    Patchers = {}
    Scanners = {s1, s2}
    MaxFaults = 1
INVARIANT IdempotentReplies
PROPERTY ExpiredIsSwept
