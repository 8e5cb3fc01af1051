SPECIFICATION Spec
CONSTANTS
    s1 = s1  s2 = s2  s3 = s3  t1 = t1  t2 = t2  b1 = b1  b2 = b2
    Submissions = {s1, s2, s3}
    TestOf <- TestOfAttempt
    BasePaid = {s1}
    PassedAtOnce = {s1, s2}
    PassedByReview = {s3}
    CountBadges = {b1}
    ScoreBadges = {b2}
    Threshold <- AfterTwo
    HighScores = {s2}
    PaidBadges = {b1}
    MaxToggles = 1
    MaxFailures = 1
    Base = Base
    Null = Null
INVARIANTS RewardInv EveryAwardPaid CountBadgeAwarded PassCertified
PROPERTY RewardContractSpec
CHECK_DEADLOCK FALSE
