\* Commits of two processes, killed or cut off by a power failure anywhere, and
\* with an fsync that fails.
SPECIFICATION Spec
CONSTANTS
    p1 = p1  p2 = p2
    Procs <- TwoProcs
    None = None
    MaxRecords = 3  MaxCommits = 2
    Faults = {"kill", "power", "fsync", "write"}
INVARIANTS TypeOK RootReadable Recoverable Durable
PROPERTIES RootTreeUnchanged
SYMMETRY Interchangeable
