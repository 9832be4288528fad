\* Setting a key that a B-tree of the shipped degree has.
SPECIFICATION Spec
CONSTANTS
    Keys = {1, 2, 3, 4, 5, 6}
    Plans <- Overwriting
    Absent = 0
    Nil = Nil  NoTree = NoTree  KeyError = KeyError  Internal = Internal
    T = 3  MaxWrites = 1  MaxLost = 2
PROPERTIES IsMap
