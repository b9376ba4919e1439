SPECIFICATION Spec
CONSTANTS
    Replicas = {r1}
    Draws = {0, 3}
    OtherLoads = {4}
    Window = 2
    Capacity = 8
    SafetyMargin = 1
    Fallback = 3
    Freshness = 1
    MaxTime = 2
    MaxChanges = 1
    MaxSamples = 2
    MaxPending = 2
INVARIANTS TypeOK SteadyIsSafe  OutageFallsBack
