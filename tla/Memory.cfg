SPECIFICATION Spec
CONSTANTS
    Ids = {i1, i2, i3}
    NoId = NoId
    Values = {v1, v2}
    Absent = Absent
    Foreign = Foreign
    MaxEdits = 1
    Leftovers = TRUE
SYMMETRY Symmetric
INVARIANTS
    UndoSound
PROPERTIES
    EditsNotOverwritten
    ImplementsUndoableStore
