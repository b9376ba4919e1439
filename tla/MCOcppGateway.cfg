SPECIFICATION FairSpec
CONSTANTS
    Transactions = {1, 2}
    ConnectorOf <- MCConnectorOf
    Sessions <- MCSessions
    MaxClock = 1
    MaxMeter = 1
    MaxUpdates = 1
    MaxId = 2
    MaxStarts = 2
INVARIANTS TypeOK AcceptedIsRecorded BillIsRight
PROPERTIES EnergyNeverDrops StopIsBilled
CHECK_DEADLOCK FALSE
