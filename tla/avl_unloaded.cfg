\* A delete on an AVL tree that is only partly in memory.
SPECIFICATION Spec
CONSTANTS
    Keys = {1, 2, 3, 4, 5, 6, 7}
    Plans <- PartlyLoaded
    Absent = 0
    Nil = Nil  NoTree = NoTree  KeyError = KeyError  Internal = Internal
    T = 3  MaxWrites = 1  MaxLost = 2
INVARIANTS OnlyMissingKeysRaise
