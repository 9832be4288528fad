\* New keys and deletes on B-trees of degree 2, up to three levels.
SPECIFICATION Spec
CONSTANTS
    Keys = {1, 2, 3, 4, 5, 6, 7, 8, 9, 10}
    Plans <- BTreePlans
    Absent = 0
    Nil = Nil  NoTree = NoTree  KeyError = KeyError  Internal = Internal
    T = 2  MaxWrites = 1  MaxLost = 2
INVARIANTS ScanAgrees BTreeFilled
PROPERTIES IsMap
