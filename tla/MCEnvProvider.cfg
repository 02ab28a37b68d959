CONSTANTS
    Environments <- AllEnvironments
    Atoi <- Integral
    ParseFloat <- Decimal
SPECIFICATION LoadSpec
INVARIANTS LastVariableWins CacheIsTheLastLoad OnlyAStopWithinLoadPanics
PROPERTIES VariablesAreLayered
CHECK_DEADLOCK FALSE
