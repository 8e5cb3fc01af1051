------------------------------ MODULE MCClient ------------------------------
(***************************************************************************)
(* What must happen in the end, for TLC: an attempt at the server, the     *)
(* player that shows one, and the refresh sessions of a page; and a test   *)
(* assigned twice at the server, for its invariant.  They share no state,  *)
(* so that one run checks them side by side: "running" is the one that     *)
(* moves, under its own fairness; the others stay as they start.           *)
(***************************************************************************)
EXTENDS Attempts, Player, Sessions, TLC

CONSTANTS t1, r1, r2, tab1, call1, call2

VARIABLE running

Timed == [t \in {t1} |-> 1]
OneTab == call1 :> tab1 @@ call2 :> tab1

\* Two requests of the employee and a manager, who may assign the test twice;
\* nothing falls due.
Twice == INSTANCE Attempts WITH
            MaxAssignments <- 2, Duration <- [t \in Tests |-> 0], Grace <- 0,
            DueTimes <- {Null}, MaxTime <- 0, Requests <- {r1, r2}

clientVars == <<running, vars, playerVars, sessionVars>>

MCInit ==
    /\ running \in {"attempts", "twice", "player", "sessions"}
    /\ IF running = "twice" THEN Twice!Init ELSE Init
    /\ PlayerInit /\ SessionsInit

MCNext ==
    /\ UNCHANGED running
    /\ CASE running = "attempts" -> Next
         [] running = "twice" -> Twice!Next
         [] OTHER -> UNCHANGED vars
    /\ IF running = "player" THEN PlayerNext ELSE UNCHANGED playerVars
    /\ IF running = "sessions" THEN SessionsNext ELSE UNCHANGED sessionVars

\* What does not move has nothing left to do, but for the page that loads.
MCSpec ==
    /\ MCInit /\ [][MCNext]_clientVars
    /\ Fairness /\ PlayerFairness /\ AnswersArrive
    /\ \A t \in Tabs : WF_sessionVars(running = "sessions" /\ Loads(t))

\* The rows of a test that is assigned twice.
AttemptsInv == running = "twice" => Twice!InductiveInv
=============================================================================
