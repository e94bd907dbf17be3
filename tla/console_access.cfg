CONSTANTS
    Budget = 2
    Window = 3
    Retry = 2
    TTL = 4
    Margin = 2
    Skew = 1
    Transit = 1
    Lag = 1
    Deployments <- DemoAndProduction
    None = None
    Mounts = 2
    MaxClicks = 1
    MaxOthers = 1
    MaxFaults = 2
SPECIFICATION ConsoleSpec
INVARIANT ConsoleTypeOK
INVARIANT BudgetHolds
INVARIANT TicketOutlastsUse
INVARIANT NoOrphanSocket
PROPERTY Reconnects
