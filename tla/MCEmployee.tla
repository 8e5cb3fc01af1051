----------------------------- MODULE MCEmployee -----------------------------
(***************************************************************************)
(* What an employee meets, for TLC: the attempts at a test, the refresh    *)
(* sessions of two tabs of a browser, and the password of the account with *)
(* its links.  They share no state: "running" is the one that moves, the   *)
(* others stay as they start.                                              *)
(***************************************************************************)
EXTENDS MCAttempts, Sessions, Credentials

CONSTANTS tab1, call1

VARIABLE running

OneTab == call1 :> tab1
Alike == Perms \cup Permutations(Handlers)

MCInit ==
    /\ running \in {"attempts", "sessions", "credentials"}
    /\ Init /\ SessionsInit /\ CredentialsInit

MCNext ==
    /\ UNCHANGED running
    /\ IF running = "attempts" THEN Next ELSE UNCHANGED vars
    /\ IF running = "sessions" THEN SessionsNext ELSE UNCHANGED sessionVars
    /\ IF running = "credentials" THEN CredentialsNext ELSE UNCHANGED credentialVars

MCSpec == MCInit /\ [][MCNext]_<<running, vars, sessionVars, credentialVars>>
=============================================================================
