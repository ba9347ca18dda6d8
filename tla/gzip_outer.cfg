CONSTANTS
    Requests = {r1}
    Compressors = {z1}
    None = None
    MinLength = 2
    MaxUnits = 4
SPECIFICATION Spec
INVARIANT AlwaysIdentical
CHECK_DEADLOCK FALSE
