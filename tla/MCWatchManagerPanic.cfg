CONSTANTS
    cb1 = cb1
    N = 2
    Caching = {2}
    Capacity = 1
    Callbacks = {}
    MaxVersion = 1
    MaxChanges = 1
SPECIFICATION Spec
INVARIANTS StopNeverPanics
CHECK_DEADLOCK FALSE
