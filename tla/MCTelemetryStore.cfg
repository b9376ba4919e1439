SPECIFICATION Spec
CONSTANTS
    Connectors = {c1, c2}
    States = {"CHARGING", "AVAILABLE"}
    ChargingStates = {"CHARGING"}
    Replicas = {r1, r2}
    BatchSize = 2
    Window = 1
    Threshold = 1
    Skew = 1
    DeviceTimes = {1, 2}
    MaxReadings = 3
    MaxRedeliveries = 1
    MaxTime = 2
SYMMETRY Symmetric
CHECK_DEADLOCK FALSE
INVARIANTS TypeOK ViewsAgree SilenceIsReal ShownIsBudgeted
