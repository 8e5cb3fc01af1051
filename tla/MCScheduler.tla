---------------------------- MODULE MCScheduler ----------------------------
(***************************************************************************)
(* A small instance of Scheduler for TLC: days of two hours, a schedule    *)
(* open in the first hour and one whose window runs past midnight.         *)
(***************************************************************************)
EXTENDS Scheduler, TLC

CONSTANTS s1, s2

Mixed == s1 :> 0 @@ s2 :> 1
Long == s1 :> 1 @@ s2 :> 2
Weekly == s1 :> Days @@ s2 :> {1}

\* What the liveness properties are asked of: nothing fails, and administrators
\* leave the schedules as they created them.
Undisturbed ==
    \/ Advance
    \/ \E s \in Schedules, dates \in SUBSET Days : CreateSchedule(s, dates)
    \/ \E k \in Ticks : TickStep(k)

LiveSpec == Init /\ [][Undisturbed]_vars /\ TickFairness
=============================================================================
