----------------------------- MODULE Scheduler -----------------------------
(***************************************************************************)
(* The recurring-assessment scheduler: ticks started by a timer every      *)
(* minute, whether or not an earlier one is done (and in every API         *)
(* process), against administrators who change the schedules.  A tick      *)
(* reads the schedules once, opens the due cycles one transaction after    *)
(* the other, and closes the assignments whose deadline has passed.        *)
(*                                                                         *)
(* Time is a day and an hour; a cycle key is a day.  One employee stands   *)
(* for the audience of a schedule; the work on its assignments, and how    *)
(* closing one races with it, is in module Attempts.                       *)
(***************************************************************************)
EXTENDS Integers, Sequences, SequencesExt

CONSTANTS
    Schedules, Ticks,
    MaxDay, Hours,     \* bound: days 0..MaxDay, of hours 0..Hours-1
    OpenHour, Window,  \* of each schedule, in hours
    Occurs,            \* the days its weekday or day of the month falls on
    Dissolvable,       \* schedules whose audience may be suspended or deleted
    MaxEdits,          \* bound: changes by administrators
    Failures,          \* whether transactions fail and processes die
    LateReads,         \* whether a day may begin between a tick's reading of
                       \* the clock and its reading of the schedules
    Null

Days == 0..MaxDay

ASSUME SchedulerAssumption ==
    /\ MaxDay \in Nat /\ Hours \in Nat \ {0} /\ MaxEdits \in Nat
    /\ OpenHour \in [Schedules -> 0..(Hours - 1)]
    /\ Window \in [Schedules -> Nat \ {0}]
    /\ Occurs \in [Schedules -> SUBSET Days]
    /\ Null \notin Days /\ Null \notin Schedules /\ Failures \in BOOLEAN
    /\ LateReads \in BOOLEAN

Assignments == Schedules \X Days

VARIABLES
    day, hour,
    status,     \* of AssessmentSchedule; "NONE" before it is created
    deletedAt,  \* the day it was deleted
    blackout,   \* ScheduleBlackoutDate rows: the day each was created
    published,  \* schedules whose test is PUBLISHED
    valid,      \* schedules whose audience resolveAssignmentTarget finds
    cycles,     \* AssessmentCycle keys, by sequenceNumber
    assignments, \* AssessmentAssignment status by schedule and day
    notices,     \* notices handed to the mailer, counted to 2
    edits,
    pc, key, at, todo, number, current, due    \* the ticks

schedule == <<status, deletedAt, blackout, published, valid>>
opened == <<cycles, assignments, notices>>
tick == <<pc, key, at, todo, number, current, due>>
vars == <<day, hour, schedule, opened, edits, tick>>

Clock == day * Hours + hour
Opens(s, d) == d * Hours + OpenHour[s]
Closes(s, d) == Opens(s, d) + Window[s]     \* windowFor; an assignment's dueAt

NoNumbers == [s \in Schedules |-> 1]

Init ==
    /\ day = 0 /\ hour = 0
    /\ status = [s \in Schedules |-> "NONE"]
    /\ deletedAt = [s \in Schedules |-> Null]
    /\ blackout = [s \in Schedules |-> [d \in Days |-> Null]]
    /\ published = Schedules /\ valid = Schedules
    /\ cycles = [s \in Schedules |-> <<>>]
    /\ assignments = [a \in Assignments |-> "NONE"]
    /\ notices = [a \in Assignments |-> 0]
    /\ edits = 0
    /\ pc = [k \in Ticks |-> "idle"]
    /\ key = [k \in Ticks |-> 0] /\ at = [k \in Ticks |-> 0]
    /\ todo = [k \in Ticks |-> {}]
    /\ number = [k \in Ticks |-> NoNumbers]
    /\ current = [k \in Ticks |-> Null]
    /\ due = [k \in Ticks |-> {}]

Go(k, label) == pc' = [pc EXCEPT ![k] = label]

(* The rest of a tick's state are locals of its call.                      *)
Stop(k) ==
    /\ Go(k, "idle")
    /\ key' = [key EXCEPT ![k] = 0] /\ at' = [at EXCEPT ![k] = 0]
    /\ todo' = [todo EXCEPT ![k] = {}] /\ number' = [number EXCEPT ![k] = NoNumbers]
    /\ current' = [current EXCEPT ![k] = Null] /\ due' = [due EXCEPT ![k] = {}]
    /\ UNCHANGED <<day, hour, schedule, opened, edits>>

Advance ==
    /\ LateReads \/ \A k \in Ticks : pc[k] # "scan"
    /\ \/ hour + 1 < Hours /\ hour' = hour + 1 /\ day' = day
       \/ hour + 1 = Hours /\ day < MaxDay /\ hour' = 0 /\ day' = day + 1
    /\ UNCHANGED <<schedule, opened, edits, tick>>

-----------------------------------------------------------------------------
(* The administrators.                                                     *)
EditSchedule ==
    /\ edits < MaxEdits /\ edits' = edits + 1
    /\ UNCHANGED <<day, hour, opened, tick>>

(* POST /schedules, with blackout dates or without.  The test was          *)
(* PUBLISHED when it was read, as every test is at first; the audience is  *)
(* looked up in the transaction.                                           *)
CreateSchedule(s, dates) ==
    /\ status[s] = "NONE" /\ s \in valid
    /\ status' = [status EXCEPT ![s] = "ACTIVE"]
    /\ blackout' = [blackout EXCEPT ![s] =
                       [d \in Days |-> IF d \in dates THEN day ELSE Null]]
    /\ UNCHANGED <<deletedAt, published, valid, edits, day, hour, opened, tick>>

(* PATCH /schedules/:id/toggle writes the opposite of the status it read,  *)
(* by id alone: other requests may have changed or deleted the schedule    *)
(* since.                                                                  *)
ToggleSchedule(s) ==
    /\ status[s] # "NONE" /\ EditSchedule
    /\ \E new \in {"ACTIVE", "INACTIVE"} : status' = [status EXCEPT ![s] = new]
    /\ UNCHANGED <<deletedAt, blackout, published, valid>>

(* PATCH /schedules/:id/blackout-dates deletes the rows and inserts the    *)
(* new ones in one transaction.  The delete of a request that overlaps     *)
(* another does not see the rows the other inserts; then both sets stay,   *)
(* unless the unique constraint refuses them.                              *)
SetBlackoutDates(s, dates) ==
    /\ status[s] # "NONE" /\ EditSchedule
    /\ \E overlap \in BOOLEAN :
          /\ overlap => \A d \in dates : blackout[s][d] = Null
          /\ blackout' = [blackout EXCEPT ![s] =
                [d \in Days |-> IF d \in dates THEN day
                                ELSE IF overlap THEN blackout[s][d] ELSE Null]]
    /\ UNCHANGED <<status, deletedAt, published, valid>>

(* DELETE /schedules/:id; of two such requests the second writes the later *)
(* time.                                                                   *)
DeleteSchedule(s) ==
    /\ status[s] # "NONE" /\ EditSchedule
    /\ status' = [status EXCEPT ![s] = "ARCHIVED"]
    /\ deletedAt' = [deletedAt EXCEPT ![s] = day]
    /\ UNCHANGED <<blackout, published, valid>>

(* The test is closed or archived.                                         *)
CloseTest(s) ==
    /\ s \in published /\ EditSchedule
    /\ published' = published \ {s}
    /\ UNCHANGED <<status, deletedAt, blackout, valid>>

(* The employee, team or department the schedule names is suspended,       *)
(* terminated or deleted; an employee may be reactivated.                  *)
ChangeAudience(s) ==
    /\ s \in Dissolvable /\ EditSchedule
    /\ valid' \in {valid \ {s}, valid \cup {s}}
    /\ UNCHANGED <<status, deletedAt, blackout, published>>

-----------------------------------------------------------------------------
(* The timer.                                                              *)
BeginTick(k) ==
    /\ pc[k] = "idle"
    /\ key' = [key EXCEPT ![k] = day] /\ at' = [at EXCEPT ![k] = Clock]
    /\ Go(k, "scan")
    /\ UNCHANGED <<day, hour, schedule, opened, edits, todo, number, current, due>>

(* Mutation: the filter on deletedAt is missing, the status is enough.     *)
BugScanned(s) == status[s] = "ACTIVE"
Scanned(s) == status[s] = "ACTIVE" /\ deletedAt[s] = Null

(* Mutation: the blackout dates are not looked at.                         *)
BlackedOut(s, d) == blackout[s][d] # Null

(* The conditions under which the tick goes on to open a cycle: due today, *)
(* not the last cycle, no blackout, the window open, the test published.   *)
IsDue(s, d, now) ==
    /\ d \in Occurs[s]
    /\ ~(cycles[s] # <<>> /\ Last(cycles[s]) = d)
    /\ ~BlackedOut(s, d)
    /\ Opens(s, d) <= now /\ now <= Closes(s, d)
    /\ s \in published

(* Mutation: the number of the last cycle.                                 *)
BugNextNumber(s) == Len(cycles[s])
NextNumber(s) == Len(cycles[s]) + 1

(* The schedules are read with their last cycles; what the tick will do    *)
(* with them depends on these rows only.                                   *)
Scan(k) ==
    /\ pc[k] = "scan"
    /\ todo' = [todo EXCEPT ![k] =
                   {s \in Schedules : Scanned(s) /\ IsDue(s, key[k], at[k])}]
    /\ number' = [number EXCEPT ![k] = [s \in Schedules |-> NextNumber(s)]]
    /\ Go(k, "open")
    /\ UNCHANGED <<day, hour, schedule, opened, edits, key, at, current, due>>

(* Mutation: only the sequence number is unique, not the key.              *)
(* The unique constraints on (schedule, key) and (schedule, sequence).     *)
Taken(k, s) ==
    key[k] \in ToSet(cycles[s]) \/ number[k][s] <= Len(cycles[s])

(* Mutation: the insert does not wait for the other transaction.           *)
BugLocked(k, s) == FALSE
Locked(k, s) == \E j \in Ticks \ {k} : pc[j] = "commit" /\ current[j] = s

(* The body of a transaction: the audience, the cycle and its assignments  *)
(* are inserted (another tick's insert of the same cycle waits), and the   *)
(* notices are sent.                                                       *)
OpenCycle(k, s) ==
    /\ pc[k] = "open" /\ s \in todo[k] /\ s \in valid
    /\ ~Taken(k, s) /\ ~Locked(k, s)
    /\ current' = [current EXCEPT ![k] = s]
    /\ notices' = [notices EXCEPT ![<<s, key[k]>>] = IF @ < 2 THEN @ + 1 ELSE 2]
    /\ Go(k, "commit")
    /\ UNCHANGED <<day, hour, schedule, cycles, assignments, edits, key, at, todo,
                   number, due>>

Commit(k) ==
    /\ pc[k] = "commit"
    /\ LET s == current[k]
       IN /\ cycles' = [cycles EXCEPT ![s] = Append(@, key[k])]
          /\ assignments' = [assignments EXCEPT ![<<s, key[k]>>] = "AVAILABLE"]
          /\ todo' = [todo EXCEPT ![k] = @ \ {s}]
    /\ current' = [current EXCEPT ![k] = Null]
    /\ Go(k, "open")
    /\ UNCHANGED <<day, hour, schedule, notices, edits, key, at, number, due>>

(* The audience is not found (422) or the cycle exists (P2002): the error  *)
(* leaves the loop and the tick.                                           *)
AbortTick(k, s) ==
    /\ pc[k] = "open" /\ s \in todo[k]
    /\ s \notin valid \/ Taken(k, s)
    /\ Stop(k)

Overdue(a, now) == Closes(a[1], a[2]) < now

(* Mutation: only the assignments of the tick's own day.                   *)
BugExpiring(k) ==
    {a \in Assignments :
        assignments[a] = "AVAILABLE" /\ Overdue(a, at[k]) /\ a[2] = key[k]}
Expiring(k) ==
    {a \in Assignments : assignments[a] = "AVAILABLE" /\ Overdue(a, at[k])}

(* closeDueAssignments.                                                    *)
FindDue(k) ==
    /\ pc[k] = "open" /\ todo[k] = {}
    /\ due' = [due EXCEPT ![k] = Expiring(k)]
    /\ Go(k, "close")
    /\ UNCHANGED <<day, hour, schedule, opened, edits, key, at, todo, number, current>>

CloseAssignment(k, a) ==
    /\ pc[k] = "close" /\ a \in due[k]
    /\ assignments' = [assignments EXCEPT ![a] = "CLOSED"]
    /\ due' = [due EXCEPT ![k] = @ \ {a}]
    /\ UNCHANGED <<day, hour, schedule, cycles, notices, edits, pc, key, at, todo,
                   number, current>>

EndTick(k) ==
    /\ pc[k] = "close" /\ due[k] = {}
    /\ Stop(k)

(* A statement or a commit fails, or the process dies.                     *)
Fail(k) ==
    /\ Failures /\ pc[k] # "idle"
    /\ Stop(k)

TickStep(k) ==
    \/ BeginTick(k) \/ Scan(k) \/ Commit(k) \/ FindDue(k) \/ EndTick(k)
    \/ \E s \in Schedules : OpenCycle(k, s) \/ AbortTick(k, s)
    \/ \E a \in Assignments : CloseAssignment(k, a)

Next ==
    \/ Advance
    \/ \E s \in Schedules :
          \/ \E dates \in SUBSET Days : CreateSchedule(s, dates) \/ SetBlackoutDates(s, dates)
          \/ ToggleSchedule(s) \/ DeleteSchedule(s) \/ CloseTest(s) \/ ChangeAudience(s)
    \/ \E k \in Ticks : TickStep(k) \/ Fail(k)

Spec == Init /\ [][Next]_vars

(* setInterval starts ticks as long as the process runs, and a tick that   *)
(* has been started goes on.                                               *)
TickFairness == \A k \in Ticks : WF_vars(TickStep(k))

-----------------------------------------------------------------------------
(* The type invariant. *)
TypeOK ==
    /\ day \in Days /\ hour \in 0..(Hours - 1)
    /\ status \in [Schedules -> {"NONE", "ACTIVE", "INACTIVE", "ARCHIVED"}]
    /\ deletedAt \in [Schedules -> Days \cup {Null}]
    /\ blackout \in [Schedules -> [Days -> Days \cup {Null}]]
    /\ published \subseteq Schedules /\ valid \subseteq Schedules
    /\ cycles \in [Schedules -> Seq(Days)]
    /\ assignments \in [Assignments -> {"NONE", "AVAILABLE", "CLOSED"}]
    /\ notices \in [Assignments -> 0..2]
    /\ edits \in 0..MaxEdits
    /\ pc \in [Ticks -> {"idle", "scan", "open", "commit", "close"}]
    /\ key \in [Ticks -> Days] /\ at \in [Ticks -> Int]
    /\ todo \in [Ticks -> SUBSET Schedules]
    /\ number \in [Ticks -> [Schedules -> Nat]]
    /\ current \in [Ticks -> Schedules \cup {Null}]
    /\ due \in [Ticks -> SUBSET Assignments]

(* However the ticks overlap, a schedule has one cycle per day, and its    *)
(* assignments exist exactly for its cycles ("cycle creation idempotent").  *)
CycleOnce ==
    \A s \in Schedules : \A i, j \in 1..Len(cycles[s]) :
        cycles[s][i] = cycles[s][j] => i = j

(* A schedule opens no cycle after the day it was deleted: not when a tick *)
(* read it before, nor when a toggle under way makes it ACTIVE again.      *)
DeletedStaysClosed ==
    \A s \in Schedules : \A i \in 1..Len(cycles[s]) :
        deletedAt[s] # Null => cycles[s][i] <= deletedAt[s]

(* A blackout date set before its day is kept by every tick.               *)
BlackoutRespected ==
    \A s \in Schedules : \A i \in 1..Len(cycles[s]) :
        LET d == cycles[s][i] IN blackout[s][d] # Null => blackout[s][d] >= d

(* When no transaction fails, an employee is told once of a cycle, and of  *)
(* no cycle that is not opened.                                            *)
ToldOnce ==
    \A a \in Assignments :
        /\ notices[a] <= 1
        /\ notices[a] = 1 => \/ assignments[a] # "NONE"
                          \/ \E k \in Ticks : pc[k] = "commit" /\ <<current[k], key[k]>> = a

Planned == {a \in Assignments : a[2] \in Occurs[a[1]]}
InFlight == {<<current[k], key[k]>> : k \in {j \in Ticks : pc[j] = "commit"}}

(* The ticks, however they overlap and fail, and whatever administrators   *)
(* change meanwhile, keep the contract of the cycles: opened once, on the  *)
(* day and after the hour; told once and opened when nothing fails; closed *)
(* after the deadline and for good.                                        *)
Contract == INSTANCE CycleContract WITH
    Opening <- [a \in Assignments |-> Opens(a[1], a[2])],
    Deadline <- [a \in Assignments |-> Closes(a[1], a[2])],
    Lossy <- Failures,
    today <- day,
    clock <- Clock,
    gone <- deletedAt,
    barred <- blackout,
    told <- notices,
    pending <- InFlight,
    stage <- assignments

CycleContractSpec == Contract!Spec

(* When no transaction fails and every audience is found, an overdue       *)
(* assignment is closed although overlapping ticks abort each other.       *)
OverdueClosed ==
    \A a \in Assignments :
        (assignments[a] = "AVAILABLE" /\ Overdue(a, Clock)) ~> (assignments[a] = "CLOSED")

(* And a cycle that stays due is opened.                                   *)
DueOpened ==
    \A s \in Schedules :
        (\E d \in Days : d = day /\ Scanned(s) /\ IsDue(s, d, Clock)) ~>
            ~(\E d \in Days : d = day /\ Scanned(s) /\ IsDue(s, d, Clock))

-----------------------------------------------------------------------------
(* What the documents and comments say, and the code does not keep.        *)

(* DATA_MODEL.md on AssessmentSchedule: "cycle creation idempotent": a     *)
(* cycle that exists is not due again, to abort the tick with P2002.       *)
OpenedNotDue ==
    \A s \in Schedules, d \in Days : d \in ToSet(cycles[s]) => ~IsDue(s, d, Clock)

Ends(k) == pc[k] # "idle" /\ pc'[k] = "idle"

(* The comment on runSchedulerTick: a tick "scans every tenant's active    *)
(* schedules for a due, unopened cycle, opens the assignment fan-out for   *)
(* it, and closes assignments whose deadline has passed".                  *)
TickDoesItsWork ==
    [][\A k \in Ticks : Ends(k) =>
          /\ todo[k] \cap valid = {}
          /\ \A a \in Assignments : assignments[a] = "AVAILABLE" => ~Overdue(a, at[k])]_vars

-----------------------------------------------------------------------------
(* The inductive invariant: transactions on one schedule exclude each      *)
(* other once the cycle is inserted, and a schedule a tick is to open was  *)
(* neither deleted nor blacked out before the tick's day.                  *)
NotFuture ==
    /\ \A k \in Ticks : key[k] <= day
    /\ \A s \in Schedules : deletedAt[s] # Null => deletedAt[s] <= day
    /\ \A s \in Schedules : \A i \in 1..Len(cycles[s]) : cycles[s][i] <= day

CommitHolds ==
    \A k \in Ticks : pc[k] = "commit" =>
        /\ current[k] \in todo[k]
        /\ \A i \in 1..Len(cycles[current[k]]) : cycles[current[k]][i] # key[k]
        /\ \A j \in Ticks \ {k} : pc[j] = "commit" => current[j] # current[k]

Scheduled ==
    \A k \in Ticks : pc[k] \in {"open", "commit"} => \A s \in todo[k] :
        /\ deletedAt[s] # Null => key[k] <= deletedAt[s]
        /\ blackout[s][key[k]] # Null => blackout[s][key[k]] >= key[k]

OpeningInv ==
    /\ TypeOK /\ CycleOnce /\ DeletedStaysClosed /\ BlackoutRespected
    /\ NotFuture /\ CommitHolds /\ Scheduled

(* The fan-out of a cycle is committed with it, so an assignment that does *)
(* not exist is one nobody was told of yet; those found due exist.         *)
FannedOut ==
    \A a \in Assignments :
        assignments[a] = "NONE" <=> \A i \in 1..Len(cycles[a[1]]) : cycles[a[1]][i] # a[2]

DueExist == \A k \in Ticks : \A a \in due[k] : assignments[a] # "NONE"

(* What a tick is about to open or to close was due at the time it read,   *)
(* which is not in the future.                                             *)
Timely ==
    \A k \in Ticks :
        /\ at[k] <= Clock
        /\ pc[k] \in {"open", "commit"} => \A s \in todo[k] :
              key[k] \in Occurs[s] /\ Opens(s, key[k]) <= at[k]
        /\ pc[k] = "close" => \A a \in due[k] : Overdue(a, at[k])

SchedulerInv == OpeningInv /\ FannedOut /\ DueExist /\ Timely /\ (Failures \/ ToldOnce)
=============================================================================
