SPECIFICATION Spec
CONSTANTS
    s1 = s1  s2 = s2
    Schedules = {s1, s2}
    Ticks = {k1}
    MaxDay = 1
    Hours = 2
    OpenHour <- Mixed
    Window <- Long
    Occurs <- Weekly
    Dissolvable = {s1, s2}
    MaxEdits = 1
    Failures = FALSE
    LateReads = FALSE
    Null = Null
PROPERTY TickDoesItsWork
CHECK_DEADLOCK FALSE
