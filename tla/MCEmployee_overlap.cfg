SPECIFICATION MCSpec
CONSTANTS
    t1 = t1
    Tests = {t1}
    MaxAssignments = 1
    MaxAttempts = 2
    Questions = {q1}
    ReviewQuestions = {q1}
    Duration <- Timed
    Grace = 1
    DueTimes = {Null, 2}
    MaxTime = 3
    MaxEdits = 2
    Requests = {r1, r2}
    Admins = {m1}
    Ticks = {s1}
    Null = Null
    tab1 = tab1
    Tabs = {tab1, tab2}
    call1 = call1
    Calls = {call1}
    TabOf <- OneTab
    Refreshes = {f1, f2}
    Rows = {1, 2}
    MaxCuts = 1
    First = 1
    NoToken = NoToken
    Spent = Spent
    Handlers = {h1, h2}
    Links = {1, 2}
    MaxPasswords = 2
SYMMETRY Alike
INVARIANTS InductiveInv NoLateAnswerScored NeverThrownOut CredentialsInv
PROPERTIES ScoredExactlyOnce RevokedNeverStarts ContractSpec EndedStaysEnded
CHECK_DEADLOCK FALSE
