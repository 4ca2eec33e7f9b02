SPECIFICATION Spec
CONSTANTS
    Ids = {i1, i2, i3}
    NoId = NoId
    Values = {v1, v2}
    Absent = Absent
    Foreign = Foreign
    MaxEdits = 0
    Leftovers = TRUE
SYMMETRY Symmetric
INVARIANT PreparedRecovered
