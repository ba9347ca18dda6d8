CONSTANTS
    Requests = {r1, r2}
    Compressors = {z1, z2}
    None = None
    MinLength = 2
    MaxUnits = 3
SYMMETRY Symmetry
SPECIFICATION Spec
INVARIANTS TypeOK Identical OneOwner Labelled
CHECK_DEADLOCK FALSE
