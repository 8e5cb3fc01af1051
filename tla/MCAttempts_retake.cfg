SPECIFICATION Spec
CONSTANTS
    t1 = t1
    Tests = {t1}
    MaxAssignments = 1
    MaxAttempts = 3
    Questions = {q1}
    ReviewQuestions = {}
    Duration <- Untimed
    Grace = 0
    DueTimes = {Null}
    MaxTime = 0
    MaxEdits = 1
    Requests = {r1, r2}
    Admins = {m1}
    Ticks = {s1}
    Null = Null
INVARIANT AttemptsLeftCanBeStarted
CHECK_DEADLOCK FALSE
