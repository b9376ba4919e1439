SPECIFICATION Spec
CONSTANTS
    Connectors <- MCConnectors
    Requests <- MCRequests
    Loads <- MCLoads
    Ages <- MCAges
    Capacity = 100
    SafetyMargin = 5
    Fallback = 48
    Freshness = 3
    MaxConnector = 40
    MinimumUseful = 14
    Grain = 2
INVARIANTS WithinLimits FairShare NothingWasted
PROPERTIES EveryoneIsAnswered
CHECK_DEADLOCK FALSE
