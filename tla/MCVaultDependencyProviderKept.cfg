CONSTANTS
    N = 1
    Mirrored = {1}
    Outages = {TRUE}
    MaxVersion = 1
SPECIFICATION Spec
PROPERTIES DependenciesAreKept
