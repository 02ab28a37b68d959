CONSTANTS
    t1 = t1
    t2 = t2
    t3 = t3
    c1 = c1
    c2 = c2
    Threads <- TwoThreads
    N = 2
    Fallback <- VaultOnly
    Callbacks = {c1, c2}
    MaxVersion = 2
    MaxCallbacks = 2
SYMMETRY Symmetry
SPECIFICATION Spec
INVARIANTS WriterExcludesAll CallbacksReadFreshSettings IInv
PROPERTIES SettingsNeverGoBack ImplementsAtomicReload
