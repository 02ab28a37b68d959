CONSTANTS
    cb1 = cb1
    N = 1
    Caching = {1}
    Capacity = 1
    Callbacks = {cb1}
    MaxVersion = 2
    MaxChanges = 1
SPECIFICATION UndisturbedSpec
INVARIANTS NoChangeIsLost
PROPERTIES ChangesAreDelivered StopEndsEverything CancelEndsWatching
CHECK_DEADLOCK FALSE
