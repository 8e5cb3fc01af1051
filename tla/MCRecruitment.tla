--------------------------- MODULE MCRecruitment ---------------------------
(***************************************************************************)
(* A small instance of Recruitment for TLC: a drive that is open at time 1 *)
(* only, with choice questions, and one without limits whose saved answer  *)
(* is a typed text, to be reviewed.                                        *)
(***************************************************************************)
EXTENDS Recruitment, TLC

CONSTANTS d1, d2

From == d1 :> 1 @@ d2 :> Null
Until == d1 :> 1 @@ d2 :> Null

First == d1 :> {} @@ d2 :> {1}

Perms == Permutations(Requests) \cup Permutations(Decisions)
=============================================================================
