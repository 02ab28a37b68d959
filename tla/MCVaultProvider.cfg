CONSTANTS
    c1 = c1
    c2 = c2
    Loaders = {c1, c2}
    MaxVersion = 3
    Form <- Printed
SPECIFICATION FairVaultSpec
INVARIANTS FreshAnswers NothingStoredSilently VaultInv
PROPERTIES OutageIsAnswered ChangesAreAnnounced ImplementsCachedSource
