SPECIFICATION FairSpec
CONSTANTS
    MaxReadings = 4
    Invalid = {2}
    ChannelSize = 1
    ReadAhead = 1
    MaxFaults = 2
INVARIANTS TypeOK NothingDropped LossIsBounded
PROPERTY EveryReadingSettles
