\* Three processes connect to one path, which may not exist.
SPECIFICATION Spec
CONSTANTS
    p1 = p1  p2 = p2  p3 = p3
    Procs = {p1, p2, p3}
    None = None
    Requests <- Mixed
    FirstFiles = {"missing", "fresh", "data"}
    FirstType = 1
    Creations = {"alone", "raced"}
INVARIANTS TypeOK SafeIfCreatedAlone OneTypeForAll
PROPERTIES LostOnlyByEmptying
CHECK_DEADLOCK FALSE
