SPECIFICATION MCSpec
CONSTANTS
    t1 = t1
    Tests = {t1}
    MaxAssignments = 1
    MaxAttempts = 1
    Questions = {q1}
    ReviewQuestions = {}
    Duration <- Timed
    Grace = 1
    DueTimes = {Null, 1}
    MaxTime = 3
    MaxEdits = 1
    r1 = r1
    r2 = r2
    Requests = {r1}
    Admins = {m1}
    Ticks = {k1}
    Null = Null
    Fields = {f1}
    SwitchLimit = 1
    MaxAnswers = 2
    MaxLosses = 2
    MaxSwitches = 2
    tab1 = tab1
    call1 = call1
    call2 = call2
    Tabs = {tab1}
    Calls = {call1, call2}
    TabOf <- OneTab
    Refreshes = {p1, p2}
    Rows = {1}
    MaxCuts = 2
    First = 1
    NoToken = NoToken
    Spent = Spent
INVARIANTS AttemptsInv PlayerInv SessionsInv
PROPERTIES TimedOutAttemptCloses OverdueAssignmentCloses PlayerSettles CallsSettle
CHECK_DEADLOCK FALSE
