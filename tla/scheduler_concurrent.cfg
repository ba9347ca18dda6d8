CONSTANTS
    five = five
    six = six
    descriptor = descriptor
    invalid = invalid
    Callers = {c1, c2}
    Jobs = {five, six, invalid}
    Schedule <- MCSchedule
    WithSeconds = TRUE
    AllowOverlap = FALSE
    Goroutines = {g1, g2, g3}
    MaxJobs = 2
    MaxStarts = 2
SPECIFICATION Spec
SYMMETRY Symmetry
INVARIANTS NoSelfOverlap RegisteredOnce StopReachesHandlers
PROPERTIES StaysAtRest
