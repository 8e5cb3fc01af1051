SPECIFICATION Spec
CONSTANTS
    s1 = s1  s2 = s2  s3 = s3  t1 = t1  t2 = t2  b1 = b1  b2 = b2
    Submissions = {s3}
    TestOf <- TestOfAttempt
    BasePaid = {}
    PassedAtOnce = {}
    PassedByReview = {s3}
    CountBadges = {b1}
    ScoreBadges = {b2}
    Threshold <- AfterTwo
    HighScores = {}
    PaidBadges = {}
    MaxToggles = 0
    MaxFailures = 0
    Base = Base
    Null = Null
INVARIANT EveryPassCertified
CHECK_DEADLOCK FALSE
