CONSTANTS
    five = five
    six = six
    descriptor = descriptor
    invalid = invalid
    Callers = {c1, c2}
    Jobs = {five}
    Schedule <- MCSchedule
    WithSeconds = FALSE
    AllowOverlap = FALSE
    Goroutines = {g1}
    MaxJobs = 1
    MaxStarts = 1
SPECIFICATION Spec
PROPERTY NoDispatchAfterStop
