------------------------ MODULE RecruitmentContract -------------------------
(***************************************************************************)
(* What a recruitment drive promises to candidates and recruiters, without *)
(* look-ups, rows in flight or unique keys: who asked while the drive was  *)
(* open may be admitted, once, and sit the test once; the result is that   *)
(* of answers which were stored when the test was handed in; what a        *)
(* reviewer published stays published; and a place expires only after the  *)
(* drive's window.                                                         *)
(***************************************************************************)
EXTENDS Integers

CONSTANTS
    Candidates, Drives, Decisions,
    OpensAt, ClosesAt,  \* the window of each drive
    Typed,              \* the versions of the answers a reviewer must mark
    Null

Application == Candidates \X Drives

VARIABLES
    time, drive,
    asks,       \* what was asked and not answered yet: to be admitted, to begin
                \* the test, to store an answer, or to hand in those stored
    status,     \* of each application
    place,      \* whether its test may be begun, is under way, or is over
    sheet,      \* its test
    saved, scored,
    marked      \* applications whose answers were given to a reviewer

result == <<place, sheet, saved, scored, marked>>
vars == <<time, drive, asks, status, result>>

Init ==
    /\ time = 0 /\ drive = [d \in Drives |-> "NONE"]
    /\ asks = {}
    /\ status = [a \in Application |-> "NONE"]
    /\ place = [a \in Application |-> "NONE"]
    /\ sheet = [a \in Application |-> "NONE"]
    /\ saved = [a \in Application |-> 0]
    /\ scored = [a \in Application |-> Null]
    /\ marked = {}

Window(d) ==
    /\ drive[d] = "OPEN"
    /\ OpensAt[d] # Null => OpensAt[d] <= time
    /\ ClosesAt[d] # Null => time <= ClosesAt[d]

Pass ==
    /\ time < time'
    /\ UNCHANGED <<drive, asks, status, result>>

(* A drive is opened once: a closed one stays closed.                      *)
Turn(d) ==
    /\ \/ drive[d] = "NONE" /\ drive' = [drive EXCEPT ![d] = "OPEN"]
       \/ drive[d] # "NONE" /\ drive' = [drive EXCEPT ![d] = "CLOSED"]
    /\ UNCHANGED <<time, asks, status, result>>

Ask(a) ==
    /\ UNCHANGED <<time, drive, status, result>>
    /\ \/ Window(a[2]) /\ asks' = asks \cup {<<"register", a>>}
       \/ /\ Window(a[2]) /\ place[a] = "AVAILABLE" /\ sheet[a] = "NONE"
          /\ asks' = asks \cup {<<"start", a>>}
       \/ /\ sheet[a] = "IN_PROGRESS"
          /\ asks' \in {asks \cup {<<"save", a>>}, asks \cup {<<"submit", a, saved[a]>>}}

(* One of those who asked a thing is answered; another may still ask it.   *)
Answer(x) == x \in asks /\ asks' \in {asks, asks \ {x}}

Refuse ==
    /\ UNCHANGED <<time, drive, status, result>>
    /\ \E x \in asks : asks' = asks \ {x}

Admit(a) ==
    /\ status[a] = "NONE"
    /\ status' = [status EXCEPT ![a] = "APPLIED"]
    /\ place' = [place EXCEPT ![a] = "AVAILABLE"]
    /\ Answer(<<"register", a>>)
    /\ UNCHANGED <<time, drive, sheet, saved, scored, marked>>

Begin(a) ==
    /\ sheet[a] = "NONE"
    /\ sheet' = [sheet EXCEPT ![a] = "IN_PROGRESS"]
    /\ place' = [place EXCEPT ![a] = "IN_PROGRESS"]
    /\ status' = [status EXCEPT ![a] = "ASSESSING"]
    /\ Answer(<<"start", a>>)
    /\ UNCHANGED <<time, drive, saved, scored, marked>>

Write(a) ==
    /\ saved' = [saved EXCEPT ![a] = @ + 1]
    /\ Answer(<<"save", a>>)
    /\ UNCHANGED <<time, drive, status, place, sheet, scored, marked>>

(* The answers of version n, which go to a reviewer, once, or are final.   *)
HandIn(a, n) ==
    /\ sheet[a] # "NONE"
    /\ \/ /\ n \in Typed[a[2]] /\ a \notin marked
          /\ marked' = marked \cup {a}
          /\ sheet' = [sheet EXCEPT ![a] = "NEEDS_REVIEW"]
          /\ place' = [place EXCEPT ![a] = "SUBMITTED"]
       \/ /\ n \notin Typed[a[2]]
          /\ sheet' = [sheet EXCEPT ![a] = "PUBLISHED"]
          /\ place' = [place EXCEPT ![a] = "COMPLETED"]
          /\ UNCHANGED marked
    /\ scored' = [scored EXCEPT ![a] = n]
    /\ status' = [status EXCEPT ![a] = "UNDER_REVIEW"]
    /\ Answer(<<"submit", a, n>>)
    /\ UNCHANGED <<time, drive, saved>>

Publish(a) ==
    /\ sheet[a] = "NEEDS_REVIEW" /\ a \in marked
    /\ sheet' = [sheet EXCEPT ![a] = "PUBLISHED"]
    /\ place' = [place EXCEPT ![a] = "COMPLETED"]
    /\ UNCHANGED <<time, drive, asks, status, saved, scored, marked>>

Decide(a) ==
    /\ status[a] # "NONE"
    /\ \E d \in Decisions : status' = [status EXCEPT ![a] = d]
    /\ UNCHANGED <<time, drive, asks, result>>

(* After the window a place is over: completed if the test was handed in.  *)
Expire(a) ==
    /\ status[a] # "NONE" /\ ClosesAt[a[2]] # Null /\ ClosesAt[a[2]] < time
    /\ \/ place' = [place EXCEPT ![a] = "EXPIRED"]
       \/ /\ sheet[a] \in {"NEEDS_REVIEW", "PUBLISHED"}
          /\ place' = [place EXCEPT ![a] = "COMPLETED"]
    /\ UNCHANGED <<time, drive, status, sheet, saved, scored, marked, asks>>

Next ==
    \/ Pass \/ Refuse
    \/ \E d \in Drives : Turn(d)
    \/ \E a \in Application :
          \/ Ask(a) \/ Admit(a) \/ Begin(a) \/ Write(a)
          \/ \E n \in 0..saved[a] : HandIn(a, n)
          \/ Publish(a) \/ Decide(a) \/ Expire(a)

Spec == Init /\ [][Next]_vars
=============================================================================
