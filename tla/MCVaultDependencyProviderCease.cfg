CONSTANTS
    N = 1
    Mirrored = {1}
    Outages = {FALSE}
    MaxVersion = 1
SPECIFICATION OnDemandSpec
PROPERTIES EventsCease
CHECK_DEADLOCK FALSE
