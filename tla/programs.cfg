\* The command line and the benchmarks side by side.
SPECIFICATION PSpec
CONSTANTS
    t1 = t1  t2 = t2  t3 = t3  t4 = t4  p1 = p1  p2 = p2  p3 = p3
    k1 = k1  k2 = k2
    Conns <- Everyone
    Keys = {k1, k2}
    Proc <- ProcOf
    MaxVal = 1  MaxFiles = 2  MaxRetries = 2
    MaxCalls <- SevenCalls
    Calls <- AllCalls
    Rules = {}
    Faults = {"crash"}
    TreeType = "avl"
    Unstored = Unstored  NoKey = NoKey
    Mixes <- AllMixes
INVARIANTS LockExclusion OptimisticValidated CounterExact EachDeletedOnce OwnWritesRead
PROPERTIES AtomicPrograms ProgramsEnd
