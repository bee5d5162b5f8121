SPECIFICATION Spec
CONSTANTS
    Calls = {c1, c2, c3}
    Capacity = 2
    MaxIdle = 1
SYMMETRY CallSymmetry
INVARIANT NonResumableHasCause
