CONSTANTS
    cb1 = cb1
    N = 2
    Caching = {2}
    Capacity = 1
    Callbacks = {cb1}
    MaxVersion = 2
    MaxChanges = 1
SPECIFICATION Spec
INVARIANTS CallbacksSeeTheChange OnlyStopDoesHarm WatchInv
PROPERTIES ImplementsChangeDelivery
CHECK_DEADLOCK FALSE
