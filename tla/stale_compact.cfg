\* compact() copies a tree read before the lock was taken.
SPECIFICATION Spec
CONSTANTS
    c1 = c1  c2 = c2  k1 = k1  k2 = k2
    Conns <- TwoConns
    Keys = {k1}
    Proc <- Apart
    MaxVal = 1  MaxFiles = 3  MaxRetries = 2
    MaxCalls <- FourCalls
    Calls <- SetCommitCompact
    Rules = {"commitLocked"}
    Faults = {}
    TreeType = "bst"
    Unstored = Unstored  NoKey = NoKey
PROPERTIES EmptyCommitKeepsData
