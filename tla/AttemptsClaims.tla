--------------------------- MODULE AttemptsClaims ---------------------------
(***************************************************************************)
(* What the repository's documents and comments say of attempts and        *)
(* assignments and the handlers do not keep.  A run refutes the last one;  *)
(* the constants of MCAttempts_lifecycle.cfg refute the others.            *)
(***************************************************************************)
EXTENDS Attempts

(* database/DATA_MODEL.md on AttemptResponse: "submitted answer frozen".   *)
SubmittedAnswerFrozen ==
    [][\A x \in Attempt : attempt[x].status \in Finished =>
          response'[x] = response[x]]_vars

(* database/DATA_MODEL.md on AttemptResponse: "lower client sequence       *)
(* cannot overwrite".                                                      *)
LowerSequenceNeverOverwrites ==
    [][\A x \in Attempt, q \in Questions :
          response'[x][q].seq >= response[x][q].seq]_vars

(* The comment on finalizeAttempt: it scores and closes the attempt "using *)
(* whatever answers were saved".                                           *)
ScoredFromSavedAnswers ==
    [][\A x \in Attempt : (Open(x) /\ attempt'[x].status \in Finished) =>
          attempt'[x].scored = response[x]]_vars

(* database/DATA_MODEL.md on AssessmentAssignment: "state/windows          *)
(* monotonic"; here, that a completed assignment stays completed.          *)
CompletedStaysCompleted ==
    [][\A a \in Assignments : assignment[a].status = "COMPLETED" =>
          assignment'[a].status = "COMPLETED"]_vars

(* The traceability matrix on attempt limits: "attempt-count vs            *)
(* maxAttempts+retake grants"; the page My Tests offers "Retake" while     *)
(* attempts are left.  So a finished assignment with attempts left, within *)
(* its due date, can be started.                                           *)
AttemptsLeftCanBeStarted ==
    \A a \in Assignments :
        (/\ Submitted(a)
         /\ assignment[a].count < MaxAttempts
         /\ assignment[a].due = Null
         /\ assignment[a].test \notin archived)
        => Startable(a, assignment[a].test)
=============================================================================
