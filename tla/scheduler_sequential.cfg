CONSTANTS
    five = five
    six = six
    descriptor = descriptor
    invalid = invalid
    Callers = {c1}
    Jobs = {five, six, descriptor}
    Schedule <- MCSchedule
    WithSeconds = TRUE
    AllowOverlap = FALSE
    Goroutines = {g1, g2, g3}
    MaxJobs = 2
    MaxStarts = 2
SPECIFICATION FairSpec
PROPERTIES Implements StopDrains
