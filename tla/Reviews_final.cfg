SPECIFICATION ReviewsSpec
CONSTANTS
    Questions = {q1, q2}
    MaxMarks = 1
    AutoMarks = 1
    PassMark = 2
    Reviewers = {r1, r2}
INVARIANT FinalWhenEveryQuestionReviewed
CHECK_DEADLOCK FALSE
