\* Sessions of writes on every class of tree, saved and reloaded.
SPECIFICATION Spec
CONSTANTS
    Keys = {1, 2, 3, 4, 5, 6, 7}
    Plans <- TreePlans
    Absent = 0
    Nil = Nil  NoTree = NoTree  KeyError = KeyError  Internal = Internal
    T = 2  MaxWrites = 2  MaxLost = 2
INVARIANTS ScanAgrees LengthExact AvlBalanced OnlyUnloadedFails
PROPERTIES IsMap
