----------------------------- MODULE MCAttempts -----------------------------
(***************************************************************************)
(* Small instances of Attempts for TLC.                                    *)
(***************************************************************************)
EXTENDS AttemptsClaims, TLC

CONSTANTS t1

OneTest(limit) == [t \in {t1} |-> limit]
Untimed == OneTest(0)
Timed == OneTest(1)

Perms == Permutations(Requests)
=============================================================================
