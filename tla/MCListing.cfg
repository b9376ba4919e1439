SPECIFICATION Spec
CONSTANTS
    Keys = {1, 2, 3, 4}
    Requests = {0, 1, 4}
    DefaultPageLimit = 2
    MaxPageLimit = 3
INVARIANTS NothingSkipped SeenInOrder
PROPERTY WalkEnds
CHECK_DEADLOCK FALSE
