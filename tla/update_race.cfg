\* update() that waited for the lock while the file was replaced.
SPECIFICATION Spec
CONSTANTS
    c1 = c1  c2 = c2  k1 = k1  k2 = k2
    Conns <- TwoConns
    Keys = {k1}
    Proc <- Apart
    MaxVal = 1  MaxFiles = 2  MaxRetries = 2
    MaxCalls <- WriterCalls
    Calls <- UpdaterAndCompactor
    Rules <- Discipline
    Faults = {}
    TreeType = "bst"
    Unstored = Unstored  NoKey = NoKey
PROPERTIES UpdateAtomic
