------------------------------ MODULE Reviews ------------------------------
(***************************************************************************)
(* Manual review of one submitted attempt whose typed answers await marks. *)
(*                                                                         *)
(* The attempt carries its result summary, one entry per question, as a    *)
(* single JSON value.  A reviewer's request reads the attempt with the     *)
(* summary, computes a new summary from it and writes it back whole in a   *)
(* transaction that looks at nothing again; requests for other questions   *)
(* may have committed in between.                                          *)
(***************************************************************************)
EXTENDS Integers, FiniteSetsExt

CONSTANTS
    Questions,  \* the questions whose typed answer awaits a reviewer
    MaxMarks,   \* bound: the maximum of a question
    AutoMarks,  \* marks of the questions scored automatically
    PassMark,   \* the passing percentage, in marks
    Reviewers   \* concurrent handlers of reviewers' requests

ASSUME MarksAssumption ==
    /\ MaxMarks \in Nat /\ AutoMarks \in Nat /\ PassMark \in Nat
    /\ IsFiniteSet(Questions) /\ Questions # {}

Marks == 0..MaxMarks
Offered == 0..(MaxMarks + 1)  \* what a reviewer may send
Entry == [marks : Marks, pending : BOOLEAN]
Summary == [Questions -> Entry]
Work == [status : {"PENDING", "COMPLETED"}, marks : Marks]
Result == [status : {"NEEDS_REVIEW", "PUBLISHED"}, score : Nat, passed : BOOLEAN]

Idle == [op |-> "idle"]
ReviewerState ==
    {Idle} \cup [op : {"write"}, q : Questions, marks : Marks, summary : Summary]
           \cup [op : {"tell"}]

VARIABLES
    question,   \* AttemptQuestion.status
    work,       \* the ManualReview row of each question
    summary,    \* AssessmentAttempt.resultSummary.perQuestion
    attempt,    \* the attempt's status, score and verdict
    assignment, \* its assignment's status
    told,       \* "Result published" sent by a reviewer's request
    reviewer,
    overlapped  \* history: a request read while another was about to write

reviewVars == <<question, work, summary, attempt, assignment, told, reviewer, overlapped>>

Total(s) == AutoMarks + MapThenSumSet(LAMBDA q : s[q].marks, Questions)
Pending(s) == \E q \in Questions : s[q].pending

-----------------------------------------------------------------------------
(* finalizeAttempt left the attempt NEEDS_REVIEW: a pending question has   *)
(* no marks yet, and the score adds up all of them.                        *)
Unreviewed == [q \in Questions |-> [marks |-> 0, pending |-> TRUE]]
ReviewsInit ==
    /\ question = [q \in Questions |-> "NEEDS_REVIEW"]
    /\ work = [q \in Questions |-> [status |-> "PENDING", marks |-> 0]]
    /\ summary = Unreviewed
    /\ attempt = [status |-> "NEEDS_REVIEW", score |-> Total(Unreviewed),
                  passed |-> Total(Unreviewed) >= PassMark]
    /\ assignment = "SUBMITTED"
    /\ told = 0
    /\ reviewer = [r \in Reviewers |-> Idle]
    /\ overlapped = FALSE

Awaiting(q) == attempt.status = "NEEDS_REVIEW" /\ question[q] = "NEEDS_REVIEW"

(* Mutations: the other entries are marked as reviewed too, or the entry   *)
(* stays pending.                                                          *)
BugReviewedAll(s, q, m) == [p \in Questions |->
    IF p = q THEN [marks |-> m, pending |-> FALSE] ELSE [s[p] EXCEPT !.pending = FALSE]]
BugReviewedStillPending(s, q, m) == [s EXCEPT ![q].marks = m]
Reviewed(s, q, m) == [s EXCEPT ![q] = [marks |-> m, pending |-> FALSE]]

(* Mutation: more marks than the question has are accepted. *)
WithinMaximum(m) == m <= MaxMarks

(* POST /reviews/:attemptId/:questionId reads the attempt and computes the *)
(* new summary ...                                                         *)
ReviewRead(r, q, m) ==
    /\ reviewer[r] = Idle
    /\ Awaiting(q)
    /\ WithinMaximum(m)
    /\ reviewer' = [reviewer EXCEPT ![r] =
          [op |-> "write", q |-> q, marks |-> m, summary |-> Reviewed(summary, q, m)]]
    /\ overlapped' = (overlapped \/ \E o \in Reviewers : reviewer[o].op = "write")
    /\ UNCHANGED <<question, work, summary, attempt, assignment, told>>

(* Mutation: the assignment is left as it was. *)
AssignmentAfter(s) == IF Pending(s) THEN assignment ELSE "COMPLETED"

(* ... and writes it, the question, the review and the verdict.            *)
ReviewCommit(r) ==
    /\ reviewer[r].op = "write"
    /\ LET q == reviewer[r].q
           m == reviewer[r].marks
           s == reviewer[r].summary
       IN /\ question' = [question EXCEPT ![q] = "SCORED"]
          /\ work' = [work EXCEPT ![q] = [status |-> "COMPLETED", marks |-> m]]
          /\ summary' = s
          /\ attempt' = [status |-> IF Pending(s) THEN "NEEDS_REVIEW" ELSE "PUBLISHED",
                         score |-> Total(s), passed |-> Total(s) >= PassMark]
          /\ assignment' = AssignmentAfter(s)
          /\ reviewer' = [reviewer EXCEPT ![r] =
                             IF Pending(s) THEN Idle ELSE [op |-> "tell"]]
    /\ UNCHANGED <<told, overlapped>>

(* The notification of a published result, after the commit.               *)
Tell(r) ==
    /\ reviewer[r].op = "tell"
    /\ told' = told + 1
    /\ reviewer' = [reviewer EXCEPT ![r] = Idle]
    /\ UNCHANGED <<question, work, summary, attempt, assignment, overlapped>>

(* The request dies where it stands. *)
Abandon(r) ==
    /\ reviewer[r] # Idle
    /\ reviewer' = [reviewer EXCEPT ![r] = Idle]
    /\ UNCHANGED <<question, work, summary, attempt, assignment, told, overlapped>>

ReviewsNext ==
    \E r \in Reviewers :
        \/ \E q \in Questions, m \in Offered : ReviewRead(r, q, m)
        \/ ReviewCommit(r) \/ Tell(r) \/ Abandon(r)

ReviewsSpec == ReviewsInit /\ [][ReviewsNext]_reviewVars

(* Reviewers come back to what the queue shows them, and not every request *)
(* dies.                                                                   *)
Fairness ==
    \A r \in Reviewers :
        /\ WF_reviewVars(\E q \in Questions, m \in Offered : ReviewRead(r, q, m))
        /\ SF_reviewVars(ReviewCommit(r))
        /\ WF_reviewVars(Tell(r))

FairReviewsSpec == ReviewsSpec /\ Fairness

-----------------------------------------------------------------------------
RowsOK ==
    /\ question \in [Questions -> {"NEEDS_REVIEW", "SCORED"}]
    /\ work \in [Questions -> Work]
    /\ summary \in Summary
    /\ assignment \in {"SUBMITTED", "COMPLETED"}
    /\ told \in Nat
    /\ reviewer \in [Reviewers -> ReviewerState]

ReviewsTypeOK == RowsOK /\ attempt \in Result /\ overlapped \in BOOLEAN

(* However many reviewers write over each other, a result is published,    *)
(* its assignment completed and the employee told only when every question *)
(* of the attempt has been reviewed.                                       *)
PublishedFullyReviewed ==
    (attempt.status = "PUBLISHED" \/ assignment = "COMPLETED" \/ told > 0)
        => \A q \in Questions : question[q] = "SCORED"

(* A published result has a completed assignment.                          *)
PublishedCompletesAssignment ==
    attempt.status = "PUBLISHED" => assignment = "COMPLETED"

(* As long as no two requests overlap, the summary, the questions and the  *)
(* reviews agree, and the score is the sum of the marks.                   *)
RecordsAgree ==
    ~overlapped =>
    /\ \A q \in Questions :
          /\ summary[q].pending <=> question[q] = "NEEDS_REVIEW"
          /\ summary[q].marks = work[q].marks
          /\ question[q] = "SCORED" <=> work[q].status = "COMPLETED"
    /\ attempt.score = Total(summary)
    /\ attempt.status = "PUBLISHED" <=> ~Pending(summary)

(* And the attempt is published in the end, although requests may die, and *)
(* stays published.                                                        *)
PublishedInTheEnd == <>overlapped \/ <>[](attempt.status = "PUBLISHED")

-----------------------------------------------------------------------------
(* What the documents and the client say, and concurrent reviewers refute. *)

(* The page Reviews: "Scores are provisional until every question is       *)
(* reviewed".  With every question reviewed and no request under way, the  *)
(* result is final.                                                        *)
FinalWhenEveryQuestionReviewed ==
    (/\ \A q \in Questions : question[q] = "SCORED"
     /\ \A r \in Reviewers : reviewer[r] = Idle)
        => attempt.status = "PUBLISHED"

(* DATA_MODEL.md on AssessmentAttempt: "state monotonic".                  *)
PublishedStaysPublished ==
    [][attempt.status = "PUBLISHED" => attempt'.status = "PUBLISHED"]_reviewVars

(* DATA_MODEL.md on ManualReview: "completed review immutable".            *)
CompletedReviewImmutable ==
    [][\A q \in Questions : work[q].status = "COMPLETED" => work'[q] = work[q]]_reviewVars

-----------------------------------------------------------------------------
(* The inductive invariant: a question no summary, stored or under way,    *)
(* calls pending has been scored, except the one its reader is to score.   *)
Knows(s, but) ==
    \A q \in Questions : ~s[q].pending => question[q] = "SCORED" \/ q = but

AllScored == \A q \in Questions : question[q] = "SCORED"

NothingUnscored ==
    /\ RowsOK
    /\ \A q \in Questions : ~summary[q].pending => question[q] = "SCORED"
    /\ attempt.status = "PUBLISHED" => assignment = "COMPLETED"
    /\ attempt.status = "PUBLISHED" \/ assignment = "COMPLETED" \/ told > 0 => AllScored
    /\ \A r \in Reviewers :
          /\ reviewer[r].op = "write" => Knows(reviewer[r].summary, reviewer[r].q)
          /\ reviewer[r].op = "tell" => AllScored

(* A request that overlaps no other will write what is stored now, with    *)
(* its own question reviewed.                                              *)
WriterUpToDate ==
    ~overlapped => \A r \in Reviewers : reviewer[r].op = "write" =>
        /\ reviewer[r].summary = Reviewed(summary, reviewer[r].q, reviewer[r].marks)
        /\ \A o \in Reviewers : reviewer[o].op = "write" => o = r

ReviewInv ==
    NothingUnscored /\ overlapped \in BOOLEAN /\ RecordsAgree /\ WriterUpToDate
=============================================================================
