SPECIFICATION FairSpec
CONSTANTS
    Runners = {r1}
    MaxMessages = 3
    Invalid = {2}
    Refused = {3}
    BatchSize = 2
    NoMessage = NoMessage
PROPERTY NoStall
CHECK_DEADLOCK FALSE
