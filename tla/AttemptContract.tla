-------------------------- MODULE AttemptContract --------------------------
(***************************************************************************)
(* What an assessment attempt promises the employee, without handlers,     *)
(* clocks or database rows: an assignment is sat at most once, the answers *)
(* that count are fixed in one step when the attempt ends and never        *)
(* afterwards, and the result is announced at most once, after that.       *)
(***************************************************************************)
EXTENDS Integers

CONSTANTS
    Papers,   \* the attempts an assignment could have, <<assignment, number>>
    Sheets,   \* the answers an attempt may end with
    Null

VARIABLES
    phase,    \* unstarted, open or sealed
    sheet,    \* the answers that count, once sealed
    told      \* attempts whose result was announced

vars == <<phase, sheet, told>>

Init ==
    /\ phase = [x \in Papers |-> "unstarted"]
    /\ sheet = [x \in Papers |-> Null]
    /\ told = {}

Begin(x) ==
    /\ \A y \in Papers : y[1] = x[1] => phase[y] = "unstarted"
    /\ phase' = [phase EXCEPT ![x] = "open"]
    /\ UNCHANGED <<sheet, told>>

Seal(x, answers) ==
    /\ phase[x] = "open"
    /\ phase' = [phase EXCEPT ![x] = "sealed"]
    /\ sheet' = [sheet EXCEPT ![x] = answers]
    /\ UNCHANGED told

Tell(x) ==
    /\ phase[x] = "sealed"
    /\ x \notin told
    /\ told' = told \cup {x}
    /\ UNCHANGED <<phase, sheet>>

Next == \E x \in Papers :
    \/ Begin(x)
    \/ \E answers \in Sheets : Seal(x, answers)
    \/ Tell(x)

Spec == Init /\ [][Next]_vars
=============================================================================
