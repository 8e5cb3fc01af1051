----------------------------- MODULE MCReviews -----------------------------
(***************************************************************************)
(* What comes before an attempt and after it, for TLC: a question edited,  *)
(* stored, answered and scored; a recurring schedule, with its             *)
(* administrators and two ticks that overlap and fail; and the reviews of  *)
(* an attempt.  They share no state: "running" is the one that moves.  The *)
(* fairness is the reviewers'.  No symmetry, for the liveness property.    *)
(***************************************************************************)
EXTENDS Reviews, Questions, Scheduler, TLC

CONSTANT s1

VARIABLE running

\* Two days of one hour; the schedule recurs daily.
Morning == s1 :> 0
Short == s1 :> 1
Daily == s1 :> Days

MCInit ==
    /\ running \in {"questions", "schedules", "reviews"}
    /\ ReviewsInit /\ QuestionsInit /\ Init
    /\ running = "questions" \/ Is("mcq")

MCNext ==
    /\ UNCHANGED running
    /\ IF running = "questions" THEN QuestionsNext ELSE UNCHANGED questionVars
    /\ IF running = "schedules" THEN Next ELSE UNCHANGED vars
    /\ IF running = "reviews" THEN ReviewsNext ELSE UNCHANGED reviewVars

MCSpec ==
    MCInit /\ [][MCNext]_<<running, vars, questionVars, reviewVars>> /\ Fairness
=============================================================================
