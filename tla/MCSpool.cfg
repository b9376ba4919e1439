SPECIFICATION FairSpec
CONSTANTS
    SegmentRecords = 2
    MaxTotal = 6
    BatchSize = 5
    MaxRecords = 8
INVARIANTS TypeOK NoSilentLoss ReplayIsOneBatch OldestGoesFirst Sound
PROPERTIES LossIsCounted Keeps EventuallySettled
