SPECIFICATION LiveSpec
CONSTANTS
    s1 = s1  s2 = s2
    Schedules = {s1, s2}
    Ticks = {k1, k2}
    MaxDay = 1
    Hours = 2
    OpenHour <- Mixed
    Window <- Long
    Occurs <- Weekly
    Dissolvable = {}
    MaxEdits = 0
    Failures = FALSE
    LateReads = FALSE
    Null = Null
PROPERTIES CycleContractSpec OverdueClosed DueOpened
CHECK_DEADLOCK FALSE
