CONSTANTS
    Layouts <- MCLayouts
    Readers <- MCReaders
    MaxClock = 3
    QueueBound = 1
    Capacity = 1
SPECIFICATION HotSpec
INVARIANTS RequestsAreHonoured HotInv
PROPERTIES FilesNeverGoBack FilesCatchUp CancelEndsReloading
CHECK_DEADLOCK FALSE
