\* Writing sessions that commit and compact, of two processes that may crash.
SPECIFICATION SessionsSpec
CONSTANTS
    c1 = c1  c2 = c2  k1 = k1  k2 = k2
    Conns <- TwoConns
    Keys = {k1, k2}
    Proc <- Apart
    MaxVal = 1  MaxFiles = 3  MaxRetries = 2
    MaxCalls <- FourCalls
    Calls <- SessionCalls
    Rules <- Discipline
    Faults = {"crash", "compactFails"}
    TreeType = "btree"
    Unstored = Unstored  NoKey = NoKey
INVARIANTS HolderOnLiveFile PendingLocked
PROPERTIES AtomicSessions SessionKept
SYMMETRY Interchangeable
