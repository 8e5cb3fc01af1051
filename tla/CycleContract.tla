--------------------------- MODULE CycleContract ----------------------------
(***************************************************************************)
(* What a recurring assessment promises, without ticks, transactions or    *)
(* their failures: a cycle is opened once, on a day the schedule asks for  *)
(* and not before its hour, unless the schedule was deleted or the day     *)
(* blacked out before; its notices announce a cycle that is being opened;  *)
(* it is closed after its deadline, and for good.                          *)
(***************************************************************************)
EXTENDS Integers

CONSTANTS
    Schedules, Days,
    Planned,    \* the cycles the schedules ask for
    Opening,    \* the time each may be opened
    Deadline,   \* the time each may be closed
    Lossy,      \* whether the opening of a cycle may be given up
    Null

Cycles == Schedules \X Days

VARIABLES
    today, clock,
    gone,       \* the day each schedule was deleted
    barred,     \* the day each blackout date was set
    told,       \* notices of each cycle, counted to 2
    pending,    \* cycles being opened
    stage       \* of each cycle

vars == <<today, clock, gone, barred, told, pending, stage>>
rules == <<today, clock, gone, barred>>

Init ==
    /\ today = 0 /\ clock = 0
    /\ gone = [s \in Schedules |-> Null]
    /\ barred = [s \in Schedules |-> [d \in Days |-> Null]]
    /\ told = [c \in Cycles |-> 0]
    /\ pending = {}
    /\ stage = [c \in Cycles |-> "NONE"]

Pass ==
    /\ today <= today' /\ clock < clock'
    /\ UNCHANGED <<gone, barred, told, pending, stage>>

Delete(s) ==
    /\ gone' = [gone EXCEPT ![s] = today]
    /\ UNCHANGED <<today, clock, barred, told, pending, stage>>

Bar(s, dates, kept) ==
    /\ barred' = [barred EXCEPT ![s] =
                     [d \in Days |-> IF d \in dates THEN today
                                     ELSE IF d \in kept THEN barred[s][d] ELSE Null]]
    /\ UNCHANGED <<today, clock, gone, told, pending, stage>>

Permitted(s, d) ==
    /\ gone[s] # Null => d <= gone[s]
    /\ barred[s][d] # Null => d <= barred[s][d]

Tell(s, d) ==
    /\ stage[<<s, d>>] = "NONE" /\ <<s, d>> \notin pending
    /\ <<s, d>> \in Planned /\ Opening[<<s, d>>] <= clock /\ Permitted(s, d)
    /\ Lossy \/ told[<<s, d>>] = 0
    /\ told' = [told EXCEPT ![<<s, d>>] = IF @ < 2 THEN @ + 1 ELSE 2]
    /\ pending' = pending \cup {<<s, d>>}
    /\ UNCHANGED <<rules, stage>>

Open(s, d) ==
    /\ <<s, d>> \in pending /\ Permitted(s, d)
    /\ pending' = pending \ {<<s, d>>}
    /\ stage' = [stage EXCEPT ![<<s, d>>] = "AVAILABLE"]
    /\ UNCHANGED <<rules, told>>

GiveUp(s, d) ==
    /\ Lossy /\ <<s, d>> \in pending
    /\ pending' = pending \ {<<s, d>>}
    /\ UNCHANGED <<rules, told, stage>>

Close(s, d) ==
    /\ stage[<<s, d>>] = "AVAILABLE" /\ Deadline[<<s, d>>] < clock
    /\ stage' = [stage EXCEPT ![<<s, d>>] = "CLOSED"]
    /\ UNCHANGED <<rules, told, pending>>

Next ==
    \/ Pass
    \/ \E s \in Schedules :
          \/ Delete(s)
          \/ \E dates, kept \in SUBSET Days : Bar(s, dates, kept)
          \/ \E d \in Days : Tell(s, d) \/ Open(s, d) \/ GiveUp(s, d) \/ Close(s, d)

Spec == Init /\ [][Next]_vars
=============================================================================
