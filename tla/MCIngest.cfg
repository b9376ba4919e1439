SPECIFICATION FairSpec
CONSTANTS
    Runners = {r1, r2}
    MaxMessages = 2
    Invalid = {2}
    Refused = {}
    BatchSize = 2
    NoMessage = NoMessage
INVARIANTS TypeOK NothingForgotten AnswersAreEarned
PROPERTY NoStall
CHECK_DEADLOCK FALSE
