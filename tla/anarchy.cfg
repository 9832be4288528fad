\* Every call in every order, no discipline, every failure.
SPECIFICATION Spec
CONSTANTS
    c1 = c1  c2 = c2  k1 = k1  k2 = k2
    Conns <- TwoConns
    Keys = {k1}
    Proc <- Apart
    MaxVal = 1  MaxFiles = 3  MaxRetries = 2
    MaxCalls <- UnevenCalls
    Calls <- AnyCalls
    Rules = {}
    Faults = {"crash", "compactFails"}
    TreeType = "btree"
    Unstored = Unstored  NoKey = NoKey
INVARIANTS TypeOK LockExclusion OptimisticValidated SnapshotIntact
