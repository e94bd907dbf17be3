CONSTANTS
    Robots = {r1}
    None = None
    MissionLengths = {2}
    MaxCommands = 2
    MaxSpikes = 3
SPECIFICATION FleetSpec
INVARIANT FleetTypeOK
INVARIANT OneDuty
INVARIANT StepInRange
INVARIANT StopHolds
PROPERTY BackInService
