CONSTANTS
    N = 2
    Mirrored = {1}
    Outages = {TRUE, FALSE}
    MaxVersion = 2
SPECIFICATION FairSpec
INVARIANTS FreshDependencies DepInv
PROPERTIES FailedReadsFallBack DependenciesCatchUp
