CONSTANTS
    five = five
    six = six
    descriptor = descriptor
    invalid = invalid
    Callers = {c1}
    Jobs = {five, six}
    Schedule <- MCSchedule
    WithSeconds = TRUE
    AllowOverlap = FALSE
    Goroutines = {g1}
    MaxJobs = 2
    MaxStarts = 2
SPECIFICATION Spec
INVARIANT AcceptedScheduleStarts
