CONSTANTS
    SegmentRecords = 2
    MaxTotal = 4
    BatchSize = 2
    MaxRecords = 4
SPECIFICATION PSpec
INVARIANTS IntactIsReachable
