\* Trees stored by two processes that share parts of them, with writes that
\* fail half-way, commits that are tried again and processes that die.
SPECIFICATION NSpec
CONSTANTS
    p1 = p1  p2 = p2
    Procs <- TwoProcs
    None = None
    MaxRecords = 4  MaxCommits = 2  MaxRefs = 5  MaxMade = 3
    Faults = {"kill", "write"}
SYMMETRY Interchangeable
INVARIANTS StoredWhole StoredOnce
PROPERTIES KeepsStorage
CHECK_DEADLOCK FALSE
