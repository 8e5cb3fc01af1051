----------------------------- MODULE MCRewards -----------------------------
(***************************************************************************)
(* Small instances of Rewards for TLC: two tests, one of them taken twice. *)
(***************************************************************************)
EXTENDS Rewards, TLC

CONSTANTS s1, s2, s3, t1, t2, b1, b2

TestOfAttempt == s1 :> t1 @@ s2 :> t1 @@ s3 :> t2
AfterTwo == b1 :> 2
=============================================================================
