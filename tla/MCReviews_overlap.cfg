SPECIFICATION MCSpec
CONSTANTS
    Questions = {q1, q2, q3}
    MaxMarks = 2
    AutoMarks = 1
    PassMark = 2
    Reviewers = {r1, r2}
    MarksOf = {100}
    Penalties = {0, 30}
    Tolerances = {0, 1}
    MaxItems = 3
    MaxWords = 3
    Places = 2
    MaxClaims = 3
    s1 = s1
    Schedules = {s1}
    Ticks = {k1, k2}
    MaxDay = 1
    Hours = 1
    OpenHour <- Morning
    Window <- Short
    Occurs <- Daily
    Dissolvable = {s1}
    MaxEdits = 3
    Failures = TRUE
    LateReads = TRUE
    Null = Null
INVARIANTS ReviewInv QuestionsInv SchedulerInv
PROPERTY PublishedInTheEnd
CHECK_DEADLOCK FALSE
