-------------------------- MODULE SchedulerProofs --------------------------
(***************************************************************************)
(* Proofs about Scheduler, for any number of schedules, ticks and days.    *)
(***************************************************************************)
EXTENDS Scheduler, TLAPS

USE SchedulerAssumption

LEMMA InitOpeningInv == Init => OpeningInv
  <1> SUFFICES ASSUME Init PROVE OpeningInv
    OBVIOUS
  <1>1. TypeOK
    BY DEF Init, TypeOK, Days, Assignments, NoNumbers
  <1>2. \A s \in Schedules : Len(cycles[s]) = 0
    BY DEF Init
  <1>3. CycleOnce /\ DeletedStaysClosed /\ BlackoutRespected
    BY <1>2 DEF CycleOnce, DeletedStaysClosed, BlackoutRespected
  <1>4. NotFuture
    BY <1>2 DEF Init, NotFuture
  <1>5. CommitHolds /\ Scheduled
    BY DEF Init, CommitHolds, Scheduled
  <1> QED BY <1>1, <1>3, <1>4, <1>5 DEF OpeningInv

(* Time, statuses, tests and audiences: nothing the invariant relates.     *)
LEMMA EnvironmentKeeps ==
  ASSUME OpeningInv, TypeOK', day <= day',
         UNCHANGED <<deletedAt, blackout, cycles, tick>>
  PROVE  OpeningInv'
  <1>1. CycleOnce' /\ DeletedStaysClosed' /\ BlackoutRespected'
    BY DEF OpeningInv, CycleOnce, DeletedStaysClosed, BlackoutRespected
  <1>2. NotFuture'
    <2>1. /\ day \in Int /\ day' \in Int
          /\ \A k \in Ticks : key[k] \in Int
          /\ \A s \in Schedules : deletedAt[s] # Null => deletedAt[s] \in Int
          /\ \A s \in Schedules : \A i \in 1..Len(cycles[s]) : cycles[s][i] \in Int
      BY DEF OpeningInv, TypeOK, Days
    <2> QED BY <2>1 DEF OpeningInv, NotFuture, tick
  <1>3. CommitHolds' /\ Scheduled'
    BY DEF OpeningInv, CommitHolds, Scheduled, tick
  <1> QED BY <1>1, <1>2, <1>3 DEF OpeningInv

LEMMA AdvanceKeeps == ASSUME OpeningInv, Advance PROVE OpeningInv'
  <1>1. day' \in Days /\ hour' \in 0..(Hours - 1) /\ day <= day'
    BY DEF OpeningInv, TypeOK, Advance, Days
  <1>2. UNCHANGED <<schedule, opened, edits, tick>>
    BY DEF Advance
  <1>3. TypeOK'
    BY <1>1, <1>2 DEF OpeningInv, TypeOK, schedule, opened, tick
  <1> QED BY <1>1, <1>2, <1>3, EnvironmentKeeps DEF schedule, opened

LEMMA StatusKeeps ==
  ASSUME OpeningInv, NEW s \in Schedules,
         ToggleSchedule(s) \/ CloseTest(s) \/ ChangeAudience(s)
  PROVE  OpeningInv'
  <1>1. /\ UNCHANGED <<day, hour, opened, tick, deletedAt, blackout>>
        /\ edits' \in 0..MaxEdits
    BY DEF OpeningInv, TypeOK, EditSchedule, ToggleSchedule, CloseTest, ChangeAudience
  <1>2. /\ status' \in [Schedules -> {"NONE", "ACTIVE", "INACTIVE", "ARCHIVED"}]
        /\ published' \subseteq Schedules /\ valid' \subseteq Schedules
    BY DEF OpeningInv, TypeOK, ToggleSchedule, CloseTest, ChangeAudience
  <1>3. TypeOK'
    BY <1>1, <1>2 DEF OpeningInv, TypeOK, opened, tick
  <1>4. day <= day'
    BY <1>1 DEF OpeningInv, TypeOK, Days
  <1> QED BY <1>1, <1>3, <1>4, EnvironmentKeeps DEF opened

(* Blackout dates are stamped with the day they are set on; no cycle and   *)
(* no tick is of a later day.                                              *)
LEMMA BlackoutKeeps ==
  ASSUME OpeningInv, TypeOK',
         UNCHANGED <<day, hour, opened, tick, deletedAt>>,
         \A s \in Schedules, d \in Days :
            blackout'[s][d] # Null => blackout'[s][d] = day \/ blackout'[s][d] = blackout[s][d]
  PROVE  OpeningInv'
  <1>0. /\ TypeOK /\ NotFuture /\ day \in Int /\ UNCHANGED <<cycles, pc, key, todo, current>>
        /\ \A s \in Schedules : \A i \in 1..Len(cycles[s]) : cycles[s][i] \in Days
        /\ \A k \in Ticks : key[k] \in Days
    BY DEF OpeningInv, TypeOK, opened, tick, Days
  <1>1. CycleOnce' /\ DeletedStaysClosed' /\ NotFuture'
    BY <1>0 DEF OpeningInv, CycleOnce, DeletedStaysClosed, NotFuture
  <1>2. BlackoutRespected'
    <2> SUFFICES ASSUME NEW s \in Schedules, NEW i \in 1..Len(cycles[s]),
                        blackout'[s][cycles[s][i]] # Null
                 PROVE  blackout'[s][cycles[s][i]] >= cycles[s][i]
      BY <1>0 DEF BlackoutRespected
    <2>1. cycles[s][i] \in Days /\ cycles[s][i] <= day
      BY <1>0 DEF NotFuture
    <2>2. CASE blackout'[s][cycles[s][i]] = day
      BY <1>0, <2>1, <2>2 DEF Days
    <2>3. CASE blackout'[s][cycles[s][i]] = blackout[s][cycles[s][i]]
      BY <2>3 DEF OpeningInv, BlackoutRespected
    <2> QED BY <2>1, <2>2, <2>3
  <1>3. Scheduled'
    <2> SUFFICES ASSUME NEW k \in Ticks, pc[k] \in {"open", "commit"}, NEW s \in todo[k]
                 PROVE  /\ deletedAt[s] # Null => key[k] <= deletedAt[s]
                        /\ blackout'[s][key[k]] # Null => blackout'[s][key[k]] >= key[k]
      BY <1>0 DEF Scheduled
    <2>1. s \in Schedules /\ key[k] \in Days /\ key[k] <= day
      BY <1>0 DEF NotFuture, TypeOK
    <2>2. blackout'[s][key[k]] = day => blackout'[s][key[k]] >= key[k]
      BY <1>0, <2>1 DEF Days
    <2> QED BY <2>1, <2>2 DEF OpeningInv, Scheduled
  <1>4. CommitHolds'
    BY <1>0 DEF OpeningInv, CommitHolds
  <1> QED BY <1>1, <1>2, <1>3, <1>4 DEF OpeningInv

LEMMA CreateKeeps ==
  ASSUME OpeningInv, NEW s \in Schedules, NEW dates \in SUBSET Days, CreateSchedule(s, dates)
  PROVE  OpeningInv'
  <1>0. TypeOK /\ day \in Days
    BY DEF OpeningInv, TypeOK
  <1>1. /\ UNCHANGED <<deletedAt, published, valid, edits, day, hour, opened, tick>>
        /\ status' = [status EXCEPT ![s] = "ACTIVE"]
        /\ blackout' = [blackout EXCEPT ![s] =
                           [d \in Days |-> IF d \in dates THEN day ELSE Null]]
    BY DEF CreateSchedule
  <1>2. blackout' \in [Schedules -> [Days -> Days \cup {Null}]]
    BY <1>0, <1>1 DEF TypeOK
  <1>3. TypeOK'
    BY <1>0, <1>1, <1>2 DEF TypeOK, opened, tick
  <1>4. \A t \in Schedules, d \in Days :
          blackout'[t][d] # Null => blackout'[t][d] = day \/ blackout'[t][d] = blackout[t][d]
    BY <1>0, <1>1 DEF TypeOK
  <1> QED BY <1>1, <1>3, <1>4, BlackoutKeeps

LEMMA SetBlackoutKeeps ==
  ASSUME OpeningInv, NEW s \in Schedules, NEW dates \in SUBSET Days, SetBlackoutDates(s, dates)
  PROVE  OpeningInv'
  <1>0. TypeOK /\ day \in Days
    BY DEF OpeningInv, TypeOK
  <1>1. PICK overlap \in BOOLEAN :
          blackout' = [blackout EXCEPT ![s] =
                [d \in Days |-> IF d \in dates THEN day
                                ELSE IF overlap THEN blackout[s][d] ELSE Null]]
    BY DEF SetBlackoutDates
  <1>2. /\ UNCHANGED <<deletedAt, published, valid, status, day, hour, opened, tick>>
        /\ edits' \in 0..MaxEdits
    BY <1>0 DEF SetBlackoutDates, EditSchedule, TypeOK
  <1>3. blackout' \in [Schedules -> [Days -> Days \cup {Null}]]
    BY <1>0, <1>1 DEF TypeOK
  <1>4. TypeOK'
    BY <1>0, <1>2, <1>3 DEF TypeOK, opened, tick
  <1>5. \A t \in Schedules, d \in Days :
          blackout'[t][d] # Null => blackout'[t][d] = day \/ blackout'[t][d] = blackout[t][d]
    BY <1>0, <1>1 DEF TypeOK
  <1> QED BY <1>2, <1>4, <1>5, BlackoutKeeps

(* A deletion is of today; no cycle and no tick is of a later day.         *)
LEMMA DeleteKeeps ==
  ASSUME OpeningInv, NEW s \in Schedules, DeleteSchedule(s)
  PROVE  OpeningInv'
  <1>0. /\ TypeOK /\ NotFuture /\ day \in Days /\ edits' \in 0..MaxEdits
        /\ UNCHANGED <<blackout, published, valid, day, hour, opened, tick>>
        /\ status' = [status EXCEPT ![s] = "ARCHIVED"]
        /\ deletedAt' = [deletedAt EXCEPT ![s] = day]
    BY DEF OpeningInv, TypeOK, DeleteSchedule, EditSchedule
  <1>1. TypeOK'
    BY <1>0 DEF TypeOK, opened, tick
  <1>2. \A t \in Schedules : deletedAt'[t] # Null =>
          deletedAt'[t] = day \/ deletedAt'[t] = deletedAt[t]
    BY <1>0 DEF TypeOK
  <1>3. UNCHANGED <<cycles, pc, key, todo, current>>
    BY <1>0 DEF opened, tick
  <1>4. CycleOnce' /\ BlackoutRespected' /\ CommitHolds'
    BY <1>0, <1>3 DEF OpeningInv, CycleOnce, BlackoutRespected, CommitHolds
  <1>5. DeletedStaysClosed' /\ NotFuture'
    BY <1>0, <1>2, <1>3 DEF OpeningInv, DeletedStaysClosed, NotFuture, Days
  <1>6. Scheduled'
    <2> SUFFICES ASSUME NEW k \in Ticks, pc[k] \in {"open", "commit"}, NEW t \in todo[k]
                 PROVE  /\ deletedAt'[t] # Null => key[k] <= deletedAt'[t]
                        /\ blackout[t][key[k]] # Null => blackout[t][key[k]] >= key[k]
      BY <1>0, <1>3 DEF Scheduled
    <2>1. t \in Schedules /\ key[k] <= day
      BY <1>0 DEF NotFuture, TypeOK
    <2> QED BY <1>2, <2>1 DEF OpeningInv, Scheduled
  <1> QED BY <1>1, <1>4, <1>5, <1>6 DEF OpeningInv

-----------------------------------------------------------------------------
(* A tick that goes on, or stops, without a transaction.                   *)
LEMMA TickKeeps ==
  ASSUME OpeningInv, TypeOK', NEW k \in Ticks,
         UNCHANGED <<day, deletedAt, blackout, cycles>>,
         pc'[k] # "commit",
         key'[k] <= day,
         pc'[k] = "open" => \A s \in todo'[k] :
            /\ deletedAt[s] # Null => key'[k] <= deletedAt[s]
            /\ blackout[s][key'[k]] # Null => blackout[s][key'[k]] >= key'[k],
         \A j \in Ticks \ {k} : /\ pc'[j] = pc[j] /\ key'[j] = key[j]
                                /\ todo'[j] = todo[j] /\ current'[j] = current[j]
  PROVE  OpeningInv'
  <1>1. CycleOnce' /\ DeletedStaysClosed' /\ BlackoutRespected'
    BY DEF OpeningInv, CycleOnce, DeletedStaysClosed, BlackoutRespected
  <1>2. NotFuture'
    BY DEF OpeningInv, NotFuture
  <1>3. CommitHolds'
    BY DEF OpeningInv, CommitHolds
  <1>4. Scheduled'
    BY DEF OpeningInv, Scheduled
  <1> QED BY <1>1, <1>2, <1>3, <1>4 DEF OpeningInv

LEMMA BeginKeeps == ASSUME OpeningInv, NEW k \in Ticks, BeginTick(k) PROVE OpeningInv'
  <1>0. /\ TypeOK /\ day \in Days
        /\ key' = [key EXCEPT ![k] = day] /\ at' = [at EXCEPT ![k] = Clock]
        /\ pc' = [pc EXCEPT ![k] = "scan"]
        /\ UNCHANGED <<day, hour, schedule, opened, edits, todo, number, current, due>>
    BY DEF OpeningInv, TypeOK, BeginTick, Go
  <1>1. Clock \in Int
    BY <1>0 DEF Clock, TypeOK, Days
  <1>2. TypeOK'
    BY <1>0, <1>1 DEF TypeOK, schedule, opened
  <1>3. pc'[k] = "scan" /\ key'[k] <= day
    BY <1>0 DEF TypeOK, Days
  <1> QED BY <1>0, <1>2, <1>3, TickKeeps DEF TypeOK, schedule, opened

(* What a scan finds is not deleted and not blacked out.                   *)
LEMMA ScanKeeps == ASSUME OpeningInv, NEW k \in Ticks, Scan(k) PROVE OpeningInv'
  <1>0. /\ TypeOK
        /\ todo' = [todo EXCEPT ![k] =
                       {s \in Schedules : Scanned(s) /\ IsDue(s, key[k], at[k])}]
        /\ number' = [number EXCEPT ![k] = [s \in Schedules |-> NextNumber(s)]]
        /\ pc' = [pc EXCEPT ![k] = "open"]
        /\ UNCHANGED <<day, hour, schedule, opened, edits, key, at, current, due>>
    BY DEF OpeningInv, Scan, Go
  <1>1. [s \in Schedules |-> NextNumber(s)] \in [Schedules -> Nat]
    BY <1>0 DEF NextNumber, TypeOK
  <1>2. TypeOK'
    BY <1>0, <1>1 DEF TypeOK, schedule, opened
  <1>3. \A s \in todo'[k] : deletedAt[s] = Null /\ blackout[s][key[k]] = Null
    BY <1>0 DEF TypeOK, Scanned, IsDue, BlackedOut
  <1>4. pc'[k] = "open" /\ key[k] <= day
    BY <1>0 DEF TypeOK, OpeningInv, NotFuture
  <1> QED BY <1>0, <1>2, <1>3, <1>4, TickKeeps DEF TypeOK, schedule, opened

LEMMA StopKeeps == ASSUME OpeningInv, NEW k \in Ticks, Stop(k) PROVE OpeningInv'
  <1>0. /\ TypeOK /\ day \in Days
        /\ pc' = [pc EXCEPT ![k] = "idle"]
        /\ key' = [key EXCEPT ![k] = 0] /\ at' = [at EXCEPT ![k] = 0]
        /\ todo' = [todo EXCEPT ![k] = {}] /\ number' = [number EXCEPT ![k] = NoNumbers]
        /\ current' = [current EXCEPT ![k] = Null] /\ due' = [due EXCEPT ![k] = {}]
        /\ UNCHANGED <<day, hour, schedule, opened, edits>>
    BY DEF OpeningInv, TypeOK, Stop, Go
  <1>1. TypeOK'
    BY <1>0 DEF TypeOK, schedule, opened, NoNumbers, Days
  <1>2. pc'[k] = "idle" /\ key'[k] <= day
    BY <1>0 DEF TypeOK, Days
  <1> QED BY <1>0, <1>1, <1>2, TickKeeps DEF TypeOK, schedule, opened

LEMMA CloseKeeps ==
  ASSUME OpeningInv, NEW k \in Ticks,
         FindDue(k) \/ \E a \in Assignments : CloseAssignment(k, a)
  PROVE  OpeningInv'
  <1>0. /\ TypeOK /\ pc \in [Ticks -> {"idle", "scan", "open", "commit", "close"}]
        /\ UNCHANGED <<day, hour, schedule, cycles, notices, edits, key, at, todo,
                       number, current>>
    BY DEF OpeningInv, TypeOK, FindDue, CloseAssignment, opened
  <1>1. /\ due' \in [Ticks -> SUBSET Assignments]
        /\ assignments' \in [Assignments -> {"NONE", "AVAILABLE", "CLOSED"}]
    <2>1. CASE FindDue(k)
      BY <1>0, <2>1 DEF TypeOK, FindDue, Expiring, opened
    <2>2. ASSUME NEW a \in Assignments, CloseAssignment(k, a)
          PROVE  /\ due' \in [Ticks -> SUBSET Assignments]
                 /\ assignments' \in [Assignments -> {"NONE", "AVAILABLE", "CLOSED"}]
      BY <1>0, <2>2 DEF TypeOK, CloseAssignment
    <2> QED BY <2>1, <2>2
  <1>2. pc' = [pc EXCEPT ![k] = "close"]
    BY <1>0 DEF FindDue, CloseAssignment, Go
  <1>3. TypeOK'
    BY <1>0, <1>1, <1>2 DEF TypeOK, schedule
  <1>4. pc'[k] = "close" /\ key[k] <= day
    BY <1>0, <1>2 DEF OpeningInv, NotFuture
  <1> QED BY <1>0, <1>2, <1>3, <1>4, TickKeeps DEF TypeOK, schedule

-----------------------------------------------------------------------------
(* The transactions.  The cycle that is inserted does not exist and no     *)
(* other transaction is inserting one for the schedule ...                 *)
LEMMA OpenKeeps ==
  ASSUME OpeningInv, NEW k \in Ticks, NEW s \in Schedules, OpenCycle(k, s)
  PROVE  OpeningInv'
  <1>0. /\ TypeOK /\ pc[k] = "open" /\ s \in todo[k] /\ ~Taken(k, s) /\ ~Locked(k, s)
        /\ current' = [current EXCEPT ![k] = s]
        /\ notices' = [notices EXCEPT ![<<s, key[k]>>] = IF @ < 2 THEN @ + 1 ELSE 2]
        /\ pc' = [pc EXCEPT ![k] = "commit"]
        /\ UNCHANGED <<day, hour, schedule, cycles, assignments, edits, key, at, todo,
                       number, due>>
    BY DEF OpeningInv, OpenCycle, Go
  <1>1. notices' \in [Assignments -> 0..2]
    <2>1. PICK n \in 0..2 : n = IF notices[<<s, key[k]>>] < 2 THEN notices[<<s, key[k]>>] + 1 ELSE 2
      <3>1. <<s, key[k]>> \in Assignments
        BY <1>0 DEF TypeOK, Assignments
      <3>2. notices[<<s, key[k]>>] \in 0..2
        BY <1>0, <3>1 DEF TypeOK
      <3> QED BY <3>2
    <2>2. notices' = [notices EXCEPT ![<<s, key[k]>>] = n]
      BY <1>0, <2>1
    <2> QED BY <1>0, <2>2 DEF TypeOK
  <1>2. TypeOK'
    BY <1>0, <1>1 DEF TypeOK, schedule
  <1>3. /\ pc'[k] = "commit" /\ current'[k] = s
        /\ \A j \in Ticks \ {k} : pc'[j] = pc[j] /\ current'[j] = current[j]
    BY <1>0 DEF TypeOK
  <1>4. \A i \in 1..Len(cycles[s]) : cycles[s][i] # key[k]
    <2>1. PICK q \in Seq(Days) : q = cycles[s]
      BY <1>0 DEF TypeOK
    <2>2. DOMAIN q = 1..Len(q)
      OBVIOUS
    <2>3. \A i \in 1..Len(q) : q[i] \in ToSet(q)
      BY <2>2 DEF ToSet
    <2> QED BY <1>0, <2>1, <2>3 DEF Taken
  <1>5. CommitHolds'
    <2> SUFFICES ASSUME NEW l \in Ticks, pc'[l] = "commit"
                 PROVE  /\ current'[l] \in todo'[l]
                        /\ \A i \in 1..Len(cycles'[current'[l]]) :
                              cycles'[current'[l]][i] # key'[l]
                        /\ \A j \in Ticks \ {l} : pc'[j] = "commit" => current'[j] # current'[l]
      BY DEF CommitHolds
    <2>1. CASE l = k
      BY <1>0, <1>3, <1>4, <2>1 DEF Locked
    <2>2. CASE l # k
      <3>1. pc[l] = "commit" /\ current'[l] = current[l] /\ current[l] # s
        BY <1>0, <1>3, <2>2 DEF Locked
      <3> QED BY <1>0, <1>3, <2>2, <3>1 DEF OpeningInv, CommitHolds
    <2> QED BY <2>1, <2>2
  <1>6. CycleOnce' /\ DeletedStaysClosed' /\ BlackoutRespected' /\ NotFuture'
    BY <1>0 DEF OpeningInv, CycleOnce, DeletedStaysClosed, BlackoutRespected, NotFuture,
                schedule
  <1>7. Scheduled'
    BY <1>0, <1>3 DEF OpeningInv, Scheduled, schedule
  <1> QED BY <1>2, <1>5, <1>6, <1>7 DEF OpeningInv

(* ... so a commit adds a day that the schedule has no cycle of, and one   *)
(* before which it was neither deleted nor blacked out.                    *)
LEMMA CommitKeeps ==
  ASSUME OpeningInv, NEW k \in Ticks, Commit(k)
  PROVE  OpeningInv'
  <1>0. TypeOK /\ CommitHolds /\ pc[k] = "commit" /\ current[k] \in Schedules /\ key[k] \in Days
    BY DEF OpeningInv, TypeOK, CommitHolds, Commit
  <1>1. PICK s \in Schedules, d \in Days : s = current[k] /\ d = key[k]
    BY <1>0
  <1>2. /\ cycles' = [cycles EXCEPT ![s] = Append(@, d)]
        /\ assignments' = [assignments EXCEPT ![<<s, d>>] = "AVAILABLE"]
        /\ todo' = [todo EXCEPT ![k] = @ \ {s}]
        /\ current' = [current EXCEPT ![k] = Null]
        /\ pc' = [pc EXCEPT ![k] = "open"]
        /\ UNCHANGED <<day, hour, schedule, notices, edits, key, at, number, due>>
    BY <1>1 DEF Commit, Go
  <1>3. /\ cycles[s] \in Seq(Days) /\ cycles'[s] = Append(cycles[s], d)
        /\ \A t \in Schedules \ {s} : cycles'[t] = cycles[t]
    BY <1>0, <1>2 DEF TypeOK
  <1>4. /\ cycles'[s] \in Seq(Days) /\ Len(cycles'[s]) = Len(cycles[s]) + 1
        /\ \A i \in 1..Len(cycles[s]) : cycles'[s][i] = cycles[s][i]
        /\ cycles'[s][Len(cycles[s]) + 1] = d
    BY <1>3
  <1>5. TypeOK'
    <2>1. cycles' \in [Schedules -> Seq(Days)]
      BY <1>0, <1>2, <1>4 DEF TypeOK
    <2> QED BY <1>0, <1>2, <2>1 DEF TypeOK, schedule
  <1>6. /\ s \in todo[k] /\ \A i \in 1..Len(cycles[s]) : cycles[s][i] # d
        /\ \A j \in Ticks \ {k} : pc[j] = "commit" => current[j] # s
    BY <1>0, <1>1 DEF CommitHolds
  <1>7. /\ d <= day
        /\ deletedAt[s] # Null => d <= deletedAt[s]
        /\ blackout[s][d] # Null => blackout[s][d] >= d
    BY <1>0, <1>1, <1>6 DEF OpeningInv, NotFuture, Scheduled
  <1>8. CycleOnce'
    <2>1. PICK n \in Nat : n = Len(cycles[s])
      BY <1>3
    <2>2. ASSUME NEW i \in 1..(n + 1), NEW j \in 1..(n + 1), cycles'[s][i] = cycles'[s][j]
          PROVE  i = j
      <3>1. CASE i \in 1..n /\ j \in 1..n
        BY <1>4, <2>1, <2>2, <3>1 DEF OpeningInv, CycleOnce
      <3>2. CASE i = n + 1 /\ j \in 1..n
        BY <1>4, <1>6, <2>1, <2>2, <3>2
      <3>3. CASE i \in 1..n /\ j = n + 1
        BY <1>4, <1>6, <2>1, <2>2, <3>3
      <3> QED BY <3>1, <3>2, <3>3
    <2> QED BY <1>3, <1>4, <2>1, <2>2 DEF OpeningInv, CycleOnce
  <1>9. \A t \in Schedules : \A i \in 1..Len(cycles'[t]) :
          \/ i \in 1..Len(cycles[t]) /\ cycles'[t][i] = cycles[t][i]
          \/ t = s /\ cycles'[t][i] = d
    <2>1. PICK n \in Nat : n = Len(cycles[s])
      BY <1>3
    <2>2. ASSUME NEW i \in 1..(n + 1)
          PROVE  \/ i \in 1..n /\ cycles'[s][i] = cycles[s][i]
                 \/ cycles'[s][i] = d
      BY <1>4, <2>1
    <2> QED BY <1>3, <1>4, <2>1, <2>2
  <1>10. DeletedStaysClosed' /\ BlackoutRespected' /\ NotFuture'
    <2>1. UNCHANGED <<day, deletedAt, blackout, key>>
      BY <1>2 DEF schedule
    <2>2. DeletedStaysClosed'
      BY <1>7, <1>9, <2>1 DEF OpeningInv, DeletedStaysClosed
    <2>3. BlackoutRespected'
      BY <1>7, <1>9, <2>1 DEF OpeningInv, BlackoutRespected
    <2>4. NotFuture'
      BY <1>7, <1>9, <2>1 DEF OpeningInv, NotFuture
    <2> QED BY <2>2, <2>3, <2>4
  <1>11. /\ pc'[k] = "open" /\ todo'[k] \subseteq todo[k]
         /\ \A j \in Ticks \ {k} : /\ pc'[j] = pc[j] /\ current'[j] = current[j]
                                   /\ todo'[j] = todo[j]
    BY <1>0, <1>2 DEF TypeOK
  <1>12. CommitHolds'
    <2> SUFFICES ASSUME NEW l \in Ticks, pc'[l] = "commit"
                 PROVE  /\ current'[l] \in todo'[l]
                        /\ \A i \in 1..Len(cycles'[current'[l]]) :
                              cycles'[current'[l]][i] # key'[l]
                        /\ \A j \in Ticks \ {l} : pc'[j] = "commit" => current'[j] # current'[l]
      BY DEF CommitHolds
    <2>1. l # k /\ pc[l] = "commit" /\ current'[l] = current[l] /\ current[l] # s
      BY <1>6, <1>11
    <2>2. current[l] \in Schedules
      BY <1>0, <2>1 DEF CommitHolds, TypeOK
    <2>3. cycles'[current[l]] = cycles[current[l]]
      BY <1>3, <2>1, <2>2
    <2> QED BY <1>0, <1>2, <1>11, <2>1, <2>3 DEF CommitHolds
  <1>13. Scheduled'
    BY <1>0, <1>2, <1>11 DEF OpeningInv, Scheduled, schedule
  <1> QED BY <1>5, <1>8, <1>10, <1>12, <1>13 DEF OpeningInv

-----------------------------------------------------------------------------
LEMMA NextOpeningInv == OpeningInv /\ [Next]_vars => OpeningInv'
  <1> SUFFICES ASSUME OpeningInv, [Next]_vars PROVE OpeningInv'
    OBVIOUS
  <1>1. CASE UNCHANGED vars
    <2>1. UNCHANGED <<day, hour, schedule, opened, edits, tick>>
      BY <1>1 DEF vars
    <2>2. TypeOK' /\ day <= day'
      BY <2>1 DEF OpeningInv, TypeOK, schedule, opened, tick, Days
    <2> QED BY <2>1, <2>2, EnvironmentKeeps DEF schedule, opened
  <1>2. CASE Advance
    BY <1>2, AdvanceKeeps
  <1>3. ASSUME NEW s \in Schedules, NEW dates \in SUBSET Days,
               CreateSchedule(s, dates) \/ SetBlackoutDates(s, dates)
        PROVE  OpeningInv'
    BY <1>3, CreateKeeps, SetBlackoutKeeps
  <1>4. ASSUME NEW s \in Schedules,
               ToggleSchedule(s) \/ DeleteSchedule(s) \/ CloseTest(s) \/ ChangeAudience(s)
        PROVE  OpeningInv'
    BY <1>4, StatusKeeps, DeleteKeeps
  <1>5. ASSUME NEW k \in Ticks, TickStep(k) \/ Fail(k)
        PROVE  OpeningInv'
    <2>1. CASE BeginTick(k) \/ Scan(k) \/ Commit(k)
      BY <2>1, BeginKeeps, ScanKeeps, CommitKeeps
    <2>2. CASE FindDue(k) \/ \E a \in Assignments : CloseAssignment(k, a)
      BY <2>2, CloseKeeps
    <2>3. CASE EndTick(k) \/ Fail(k) \/ \E s \in Schedules : AbortTick(k, s)
      BY <2>3, StopKeeps DEF EndTick, Fail, AbortTick
    <2>4. ASSUME NEW s \in Schedules, OpenCycle(k, s)
          PROVE  OpeningInv'
      BY <2>4, OpenKeeps
    <2> QED BY <1>5, <2>1, <2>2, <2>3, <2>4 DEF TickStep
  <1> QED BY <1>1, <1>2, <1>3, <1>4, <1>5 DEF Next

-----------------------------------------------------------------------------
(* The notices.                                                            *)
LEMMA InitNotices == Init => FannedOut /\ DueExist /\ ToldOnce
  <1> SUFFICES ASSUME Init PROVE FannedOut /\ DueExist /\ ToldOnce
    OBVIOUS
  <1>1. \A a \in Assignments : a[1] \in Schedules /\ assignments[a] = "NONE" /\ notices[a] = 0
    BY DEF Init, Assignments
  <1>2. \A s \in Schedules : Len(cycles[s]) = 0
    BY DEF Init
  <1>3. DueExist
    BY DEF Init, DueExist
  <1> QED BY <1>1, <1>2, <1>3 DEF FannedOut, ToldOnce

(* What inserts no assignment and tells nobody keeps both, unless it ends  *)
(* a transaction that was to be committed.                                 *)
LEMMA NoticesStay ==
  ASSUME FannedOut, ToldOnce, UNCHANGED <<cycles, notices>>,
         \A a \in Assignments : assignments'[a] = "NONE" <=> assignments[a] = "NONE",
         \A k \in Ticks : pc[k] = "commit" =>
            pc'[k] = "commit" /\ current'[k] = current[k] /\ key'[k] = key[k]
  PROVE  FannedOut' /\ ToldOnce'
  <1>1. FannedOut'
    BY DEF FannedOut
  <1>2. ToldOnce'
    BY DEF ToldOnce
  <1> QED BY <1>1, <1>2

LEMMA FannedOutStays ==
  ASSUME FannedOut, UNCHANGED cycles,
         \A a \in Assignments : assignments'[a] = "NONE" <=> assignments[a] = "NONE"
  PROVE  FannedOut'
  BY DEF FannedOut

(* What the transactions of a tick leave alone.                            *)
LEMMA OtherSteps ==
  ASSUME OpeningInv, DueExist, [Next]_vars,
         ~ \E k \in Ticks : Commit(k) \/ \E s \in Schedules : OpenCycle(k, s)
  PROVE  /\ UNCHANGED <<cycles, notices>>
         /\ \A a \in Assignments : assignments'[a] = "NONE" <=> assignments[a] = "NONE"
         /\ Failures \/ \A k \in Ticks : pc[k] = "commit" =>
               pc'[k] = "commit" /\ current'[k] = current[k] /\ key'[k] = key[k]
  <1> DEFINE Keeps ==
               /\ UNCHANGED <<cycles, notices>>
               /\ \A a \in Assignments : assignments'[a] = "NONE" <=> assignments[a] = "NONE"
               /\ Failures \/ \A k \in Ticks : pc[k] = "commit" =>
                     pc'[k] = "commit" /\ current'[k] = current[k] /\ key'[k] = key[k]
  <1>1. UNCHANGED <<opened, tick>> => Keeps
    BY DEF opened, tick
  <1>2. UNCHANGED vars \/ Advance => Keeps
    BY <1>1 DEF vars, Advance
  <1>3. ASSUME NEW s \in Schedules, NEW dates \in SUBSET Days,
               \/ CreateSchedule(s, dates) \/ SetBlackoutDates(s, dates)
               \/ ToggleSchedule(s) \/ DeleteSchedule(s) \/ CloseTest(s) \/ ChangeAudience(s)
        PROVE  Keeps
    BY <1>1, <1>3 DEF CreateSchedule, SetBlackoutDates, ToggleSchedule, DeleteSchedule,
                      CloseTest, ChangeAudience, EditSchedule
  <1>4. ASSUME NEW k \in Ticks, pc[k] # "commit",
               UNCHANGED <<cycles, notices>>,
               \A a \in Assignments : assignments'[a] = "NONE" <=> assignments[a] = "NONE",
               \A j \in Ticks \ {k} :
                  pc'[j] = pc[j] /\ current'[j] = current[j] /\ key'[j] = key[j]
        PROVE  Keeps
    BY <1>4
  <1>5. ASSUME NEW k \in Ticks, BeginTick(k) \/ Scan(k) \/ FindDue(k)
        PROVE  Keeps
    <2>1. /\ pc[k] # "commit" /\ UNCHANGED opened
          /\ \A j \in Ticks \ {k} :
                pc'[j] = pc[j] /\ current'[j] = current[j] /\ key'[j] = key[j]
      BY <1>5 DEF BeginTick, Scan, FindDue, Go, OpeningInv, TypeOK
    <2> QED BY <2>1, <1>4 DEF opened
  <1>6. ASSUME NEW k \in Ticks, NEW a \in Assignments, CloseAssignment(k, a)
        PROVE  Keeps
    <2>1. /\ UNCHANGED <<cycles, notices, pc, key, current>>
          /\ assignments' = [assignments EXCEPT ![a] = "CLOSED"]
          /\ assignments[a] # "NONE"
      BY <1>6 DEF CloseAssignment, DueExist
    <2> QED BY <2>1 DEF OpeningInv, TypeOK
  <1>7. ASSUME NEW k \in Ticks, Stop(k), pc[k] # "commit" \/ Failures
        PROVE  Keeps
    <2>1. /\ UNCHANGED opened
          /\ \A j \in Ticks \ {k} :
                pc'[j] = pc[j] /\ current'[j] = current[j] /\ key'[j] = key[j]
      BY <1>7 DEF Stop, Go, OpeningInv, TypeOK
    <2> QED BY <2>1, <1>4, <1>7 DEF opened
  <1>8. ASSUME NEW k \in Ticks, EndTick(k) \/ Fail(k) \/ \E s \in Schedules : AbortTick(k, s)
        PROVE  Keeps
    BY <1>7, <1>8 DEF EndTick, Fail, AbortTick
  <1>9. ASSUME NEW k \in Ticks, TickStep(k) \/ Fail(k)
        PROVE  Keeps
    BY <1>5, <1>6, <1>8, <1>9 DEF TickStep
  <1> QED BY <1>2, <1>3, <1>9 DEF Next

(* What is found due exists, and no assignment is ever deleted.            *)
LEMMA NextDueExist == ASSUME OpeningInv, DueExist, [Next]_vars PROVE DueExist'
  <1>0. TypeOK
    BY DEF OpeningInv
  <1>1. \A a \in Assignments : assignments[a] # "NONE" => assignments'[a] # "NONE"
    <2>1. ASSUME NEW k \in Ticks, Commit(k)
          PROVE  \A a \in Assignments : assignments[a] # "NONE" => assignments'[a] # "NONE"
      <3>1. PICK x : x = <<current[k], key[k]>>
        OBVIOUS
      <3>2. assignments' = [assignments EXCEPT ![x] = "AVAILABLE"]
        BY <2>1, <3>1 DEF Commit
      <3> QED BY <1>0, <3>2 DEF TypeOK
    <2>2. ASSUME NEW k \in Ticks, NEW s \in Schedules, OpenCycle(k, s)
          PROVE  assignments' = assignments
      BY <2>2 DEF OpenCycle
    <2> QED BY <2>1, <2>2, OtherSteps
  <1>2. \A k \in Ticks : \A a \in due'[k] :
          a \in due[k] \/ (a \in Assignments /\ assignments[a] # "NONE")
    <2>1. ASSUME NEW k \in Ticks, FindDue(k)
          PROVE  \A j \in Ticks : \A a \in due'[j] :
                    a \in due[j] \/ (a \in Assignments /\ assignments[a] # "NONE")
      BY <1>0, <2>1 DEF FindDue, Expiring, TypeOK
    <2>2. ASSUME NEW k \in Ticks, NEW a \in Assignments, CloseAssignment(k, a)
          PROVE  \A j \in Ticks : due'[j] \subseteq due[j]
      BY <1>0, <2>2 DEF CloseAssignment, TypeOK
    <2>3. ASSUME NEW k \in Ticks, Stop(k)
          PROVE  \A j \in Ticks : due'[j] \subseteq due[j]
      BY <1>0, <2>3 DEF Stop, TypeOK
    <2>4. ASSUME NEW k \in Ticks, TickStep(k) \/ Fail(k)
          PROVE  \A j \in Ticks : \A a \in due'[j] :
                    a \in due[j] \/ (a \in Assignments /\ assignments[a] # "NONE")
      BY <2>1, <2>2, <2>3, <2>4 DEF TickStep, Fail, EndTick, AbortTick, BeginTick, Scan, Commit,
                                    OpenCycle
    <2>5. ASSUME NEW s \in Schedules, NEW dates \in SUBSET Days,
                 \/ CreateSchedule(s, dates) \/ SetBlackoutDates(s, dates)
                 \/ ToggleSchedule(s) \/ DeleteSchedule(s) \/ CloseTest(s) \/ ChangeAudience(s)
          PROVE  due' = due
      BY <2>5 DEF CreateSchedule, SetBlackoutDates, ToggleSchedule, DeleteSchedule,
                  CloseTest, ChangeAudience, EditSchedule, tick
    <2>6. UNCHANGED vars \/ Advance => due' = due
      BY DEF vars, Advance, tick
    <2> QED BY <2>4, <2>5, <2>6 DEF Next
  <1>3. \A k \in Ticks : due[k] \subseteq Assignments
    BY <1>0 DEF TypeOK
  <1> QED BY <1>1, <1>2, <1>3 DEF DueExist

(* Whoever a transaction tells was not told before: the cycle is new, and  *)
(* no other transaction is opening it.                                     *)
LEMMA OpenTells ==
  ASSUME OpeningInv, FannedOut, NEW k \in Ticks, NEW s \in Schedules, OpenCycle(k, s)
  PROVE  FannedOut' /\ (ToldOnce => ToldOnce')
  <1>0. /\ TypeOK /\ pc[k] = "open" /\ ~Taken(k, s) /\ ~Locked(k, s) /\ key[k] \in Days
        /\ current' = [current EXCEPT ![k] = s]
        /\ pc' = [pc EXCEPT ![k] = "commit"]
        /\ UNCHANGED <<cycles, assignments, key>>
    BY DEF OpeningInv, OpenCycle, Go, TypeOK
  <1>1. PICK x \in Assignments : x = <<s, key[k]>>
    BY <1>0 DEF Assignments
  <1>2. notices' = [notices EXCEPT ![x] = IF @ < 2 THEN @ + 1 ELSE 2]
    BY <1>1 DEF OpenCycle
  <1>3. /\ notices[x] \in 0..2 /\ \A a \in Assignments : a # x => notices'[a] = notices[a]
        /\ notices[x] = 0 => notices'[x] = 1
    BY <1>0, <1>2 DEF TypeOK
  <1>4. assignments[x] = "NONE"
    <2>1. PICK q \in Seq(Days) : q = cycles[s]
      BY <1>0 DEF TypeOK
    <2>2. DOMAIN q = 1..Len(q)
      OBVIOUS
    <2>3. \A i \in 1..Len(q) : q[i] \in ToSet(q)
      BY <2>2 DEF ToSet
    <2>4. x[1] = s /\ x[2] = key[k]
      BY <1>1
    <2> QED BY <1>0, <2>1, <2>3, <2>4 DEF Taken, FannedOut
  <1>5. ~ \E j \in Ticks : pc[j] = "commit" /\ <<current[j], key[j]>> = x
    BY <1>0, <1>1 DEF Locked
  <1>6. FannedOut'
    BY <1>0, FannedOutStays
  <1>7. ASSUME ToldOnce PROVE ToldOnce'
    <2>1. notices[x] = 0
      BY <1>3, <1>4, <1>5, <1>7 DEF ToldOnce
    <2>2. pc'[k] = "commit" /\ <<current'[k], key'[k]>> = x
      BY <1>0, <1>1 DEF TypeOK
    <2>3. ASSUME NEW a \in Assignments, a # x
          PROVE  /\ notices'[a] <= 1
                 /\ notices'[a] = 1 =>
                       \/ assignments'[a] # "NONE"
                       \/ \E j \in Ticks : pc'[j] = "commit" /\ <<current'[j], key'[j]>> = a
      <3>1. \A j \in Ticks : pc[j] = "commit" =>
              pc'[j] = "commit" /\ current'[j] = current[j] /\ key'[j] = key[j]
        BY <1>0 DEF TypeOK
      <3> QED BY <1>0, <1>3, <1>7, <2>3, <3>1 DEF ToldOnce
    <2> QED BY <1>3, <2>1, <2>2, <2>3 DEF ToldOnce
  <1> QED BY <1>6, <1>7

(* The commit adds the assignment of the cycle it adds, which was told of. *)
LEMMA CommitTells ==
  ASSUME OpeningInv, FannedOut, NEW k \in Ticks, Commit(k)
  PROVE  FannedOut' /\ (ToldOnce => ToldOnce')
  <1>0. TypeOK /\ CommitHolds /\ pc[k] = "commit" /\ current[k] \in Schedules /\ key[k] \in Days
    BY DEF OpeningInv, TypeOK, CommitHolds, Commit
  <1>1. PICK s \in Schedules, d \in Days : s = current[k] /\ d = key[k]
    BY <1>0
  <1>2. PICK x \in Assignments : x = <<s, d>>
    BY DEF Assignments
  <1>3. /\ cycles' = [cycles EXCEPT ![s] = Append(@, d)]
        /\ assignments' = [assignments EXCEPT ![x] = "AVAILABLE"]
        /\ UNCHANGED <<notices, key>>
        /\ \A j \in Ticks \ {k} : pc'[j] = pc[j] /\ current'[j] = current[j]
    BY <1>0, <1>1, <1>2 DEF Commit, Go, TypeOK
  <1>4. /\ cycles[s] \in Seq(Days) /\ cycles'[s] = Append(cycles[s], d)
        /\ \A t \in Schedules \ {s} : cycles'[t] = cycles[t]
    BY <1>0, <1>3 DEF TypeOK
  <1>5. PICK n \in Nat : n = Len(cycles[s])
    BY <1>4
  <1>6. /\ Len(cycles'[s]) = n + 1 /\ cycles'[s][n + 1] = d
        /\ \A i \in 1..n : cycles'[s][i] = cycles[s][i]
    BY <1>4, <1>5
  <1>7. /\ assignments'[x] # "NONE"
        /\ \A a \in Assignments : a # x => assignments'[a] = assignments[a]
    BY <1>0, <1>3 DEF TypeOK
  <1>8. FannedOut'
    <2> SUFFICES ASSUME NEW a \in Assignments
                 PROVE  assignments'[a] = "NONE" <=>
                           \A i \in 1..Len(cycles'[a[1]]) : cycles'[a[1]][i] # a[2]
      BY DEF FannedOut
    <2>1. a[1] \in Schedules /\ a = <<a[1], a[2]>>
      BY DEF Assignments
    <2>2. CASE a = x
      <3>1. a[1] = s /\ a[2] = d
        BY <1>2, <2>2
      <3>2. n + 1 \in 1..(n + 1)
        OBVIOUS
      <3>3. ~ \A i \in 1..Len(cycles'[a[1]]) : cycles'[a[1]][i] # a[2]
        BY <1>6, <3>1, <3>2
      <3> QED BY <1>7, <2>2, <3>3
    <2>3. CASE a[1] # s
      <3>1. a # x
        BY <1>2, <2>3
      <3>2. assignments'[a] = assignments[a] /\ cycles'[a[1]] = cycles[a[1]]
        BY <1>4, <1>7, <2>1, <2>3, <3>1
      <3> QED BY <3>2, Zenon DEF FannedOut
    <2>4. CASE a[1] = s /\ a[2] # d
      <3>1. a # x
        BY <1>2, <2>4
      <3>2. (\A i \in 1..(n + 1) : cycles'[s][i] # a[2]) <=>
               (\A i \in 1..n : cycles[s][i] # a[2])
        <4>1. \A i \in 1..(n + 1) : i \in 1..n \/ i = n + 1
          OBVIOUS
        <4>2. \A i \in 1..n : i \in 1..(n + 1)
          OBVIOUS
        <4> QED BY <1>6, <2>4, <4>1, <4>2
      <3>3. assignments'[a] = assignments[a]
        BY <1>7, <3>1
      <3>4. assignments[a] = "NONE" <=> \A i \in 1..n : cycles[s][i] # a[2]
        BY <1>5, <2>4 DEF FannedOut
      <3>5. (\A i \in 1..Len(cycles'[a[1]]) : cycles'[a[1]][i] # a[2]) <=>
               (\A i \in 1..(n + 1) : cycles'[s][i] # a[2])
        BY <1>6, <2>4
      <3> QED BY <3>2, <3>3, <3>4, <3>5
    <2>5. a[1] = s /\ a[2] = d => a = x
      BY <1>2, <2>1
    <2> QED BY <2>2, <2>3, <2>4, <2>5
  <1>9. ASSUME ToldOnce PROVE ToldOnce'
    <2> SUFFICES ASSUME NEW a \in Assignments
                 PROVE  /\ notices[a] <= 1
                        /\ notices[a] = 1 =>
                              \/ assignments'[a] # "NONE"
                              \/ \E j \in Ticks : /\ pc'[j] = "commit"
                                                  /\ <<current'[j], key'[j]>> = a
      BY <1>3 DEF ToldOnce
    <2>1. CASE a = x
      BY <1>7, <1>9, <2>1 DEF ToldOnce
    <2>2. CASE a # x
      <3>1. <<current[k], key[k]>> # a
        BY <1>1, <1>2, <2>2
      <3> QED BY <1>3, <1>7, <1>9, <2>2, <3>1 DEF ToldOnce
    <2> QED BY <2>1, <2>2
  <1> QED BY <1>8, <1>9

LEMMA NextNotices ==
  ASSUME OpeningInv, FannedOut, DueExist, Failures \/ ToldOnce, [Next]_vars
  PROVE  FannedOut' /\ (Failures \/ ToldOnce')
  <1>1. ASSUME NEW k \in Ticks, Commit(k) \/ \E s \in Schedules : OpenCycle(k, s)
        PROVE  FannedOut' /\ (ToldOnce => ToldOnce')
    BY <1>1, CommitTells, OpenTells
  <1>2. CASE ~ \E k \in Ticks : Commit(k) \/ \E s \in Schedules : OpenCycle(k, s)
    BY <1>2, OtherSteps, FannedOutStays, NoticesStay
  <1> QED BY <1>1, <1>2

-----------------------------------------------------------------------------
(* The times.                                                              *)
LEMMA ClockRuns ==
  ASSUME TypeOK
  PROVE  Clock \in Nat /\ (Advance => Clock' \in Nat /\ Clock < Clock')
  <1>1. day \in Nat /\ hour \in Nat /\ Hours \in Nat /\ day * Hours \in Nat
    BY DEF TypeOK, Days
  <1>2. (day + 1) * Hours = day * Hours + Hours
    BY <1>1
  <1>3. CASE Advance /\ day' = day /\ hour' = hour + 1
    BY <1>1, <1>3 DEF Clock
  <1>4. CASE Advance /\ day' = day + 1 /\ hour' = 0 /\ hour + 1 = Hours
    BY <1>1, <1>2, <1>4 DEF Clock
  <1>5. Clock \in Nat
    BY <1>1 DEF Clock
  <1> QED BY <1>3, <1>4, <1>5 DEF Advance

LEMMA InitTimely == Init => Timely
  BY DEF Init, Timely, Clock

(* Time passes, and what a tick knows stays true; what is not the ticks'   *)
(* business does not touch it.                                             *)
LEMMA TimelyStays ==
  ASSUME TypeOK, Timely, UNCHANGED tick, Clock' = Clock \/ Advance
  PROVE  Timely'
  <1>1. /\ Clock \in Int /\ Clock' \in Int /\ Clock <= Clock'
        /\ \A k \in Ticks : at[k] \in Int
    BY ClockRuns DEF TypeOK
  <1> QED BY <1>1 DEF Timely, tick

LEMMA TimelyTick ==
  ASSUME Timely, NEW k \in Ticks, UNCHANGED <<day, hour>>,
         \A j \in Ticks \ {k} : /\ pc'[j] = pc[j] /\ key'[j] = key[j] /\ at'[j] = at[j]
                                /\ todo'[j] = todo[j] /\ due'[j] = due[j],
         at'[k] <= Clock,
         pc'[k] \in {"open", "commit"} => \A s \in todo'[k] :
            key'[k] \in Occurs[s] /\ Opens(s, key'[k]) <= at'[k],
         pc'[k] = "close" => \A a \in due'[k] : Overdue(a, at'[k])
  PROVE  Timely'
  <1>1. Clock' = Clock
    BY DEF Clock
  <1> QED BY <1>1 DEF Timely

LEMMA NextTimely == ASSUME OpeningInv, Timely, [Next]_vars PROVE Timely'
  <1>0. TypeOK /\ Clock \in Nat
    BY ClockRuns DEF OpeningInv
  <1>1. CASE UNCHANGED vars \/ Advance
    BY <1>0, <1>1, TimelyStays DEF vars, Advance, Clock
  <1>2. ASSUME NEW s \in Schedules, NEW dates \in SUBSET Days,
               \/ CreateSchedule(s, dates) \/ SetBlackoutDates(s, dates)
               \/ ToggleSchedule(s) \/ DeleteSchedule(s) \/ CloseTest(s) \/ ChangeAudience(s)
        PROVE  Timely'
    <2>1. UNCHANGED <<day, hour, tick>>
      BY <1>2 DEF CreateSchedule, SetBlackoutDates, ToggleSchedule, DeleteSchedule,
                  CloseTest, ChangeAudience, EditSchedule
    <2> QED BY <1>0, <2>1, TimelyStays DEF Clock
  <1>3. ASSUME NEW k \in Ticks, BeginTick(k)
        PROVE  Timely'
    <2>1. /\ UNCHANGED <<day, hour, todo, due>> /\ pc'[k] = "scan" /\ at'[k] = Clock
          /\ \A j \in Ticks \ {k} : pc'[j] = pc[j] /\ key'[j] = key[j] /\ at'[j] = at[j]
      BY <1>0, <1>3 DEF BeginTick, Go, TypeOK
    <2> QED BY <1>0, <2>1, TimelyTick
  <1>4. ASSUME NEW k \in Ticks, Scan(k)
        PROVE  Timely'
    <2>1. /\ UNCHANGED <<day, hour, key, at, due>> /\ pc'[k] = "open"
          /\ todo'[k] = {s \in Schedules : Scanned(s) /\ IsDue(s, key[k], at[k])}
          /\ \A j \in Ticks \ {k} : pc'[j] = pc[j] /\ todo'[j] = todo[j]
      BY <1>0, <1>4 DEF Scan, Go, TypeOK
    <2>2. \A s \in todo'[k] : key[k] \in Occurs[s] /\ Opens(s, key[k]) <= at[k]
      BY <2>1 DEF IsDue
    <2>3. at[k] <= Clock
      BY DEF Timely
    <2> QED BY <2>1, <2>2, <2>3, TimelyTick
  <1>5. ASSUME NEW k \in Ticks, FindDue(k)
        PROVE  Timely'
    <2>1. /\ UNCHANGED <<day, hour, key, at, todo>> /\ pc'[k] = "close"
          /\ due'[k] = Expiring(k)
          /\ \A j \in Ticks \ {k} : pc'[j] = pc[j] /\ due'[j] = due[j]
      BY <1>0, <1>5 DEF FindDue, Go, TypeOK
    <2>2. \A a \in due'[k] : Overdue(a, at[k])
      BY <2>1 DEF Expiring
    <2>3. at[k] <= Clock
      BY DEF Timely
    <2> QED BY <2>1, <2>2, <2>3, TimelyTick
  <1>6. ASSUME NEW k \in Ticks,
               Commit(k) \/ \E s \in Schedules : OpenCycle(k, s)
        PROVE  Timely'
    <2>1. /\ UNCHANGED <<day, hour, key, at, due>> /\ pc'[k] \in {"open", "commit"}
          /\ pc[k] \in {"open", "commit"} /\ todo'[k] \subseteq todo[k]
          /\ \A j \in Ticks \ {k} : pc'[j] = pc[j] /\ todo'[j] = todo[j]
      <3>1. CASE Commit(k)
        BY <1>0, <3>1 DEF Commit, Go, TypeOK
      <3>2. CASE \E s \in Schedules : OpenCycle(k, s)
        BY <1>0, <3>2 DEF OpenCycle, Go, TypeOK
      <3> QED BY <1>6, <3>1, <3>2
    <2>2. /\ at[k] <= Clock
          /\ \A s \in todo'[k] : key[k] \in Occurs[s] /\ Opens(s, key[k]) <= at[k]
      BY <2>1 DEF Timely
    <2> QED BY <2>1, <2>2, TimelyTick
  <1>7. ASSUME NEW k \in Ticks, NEW a \in Assignments, CloseAssignment(k, a)
        PROVE  Timely'
    <2>1. /\ UNCHANGED <<day, hour, key, at, todo, pc>> /\ pc[k] = "close"
          /\ due'[k] \subseteq due[k]
          /\ \A j \in Ticks \ {k} : due'[j] = due[j]
      BY <1>0, <1>7 DEF CloseAssignment, TypeOK
    <2>2. at[k] <= Clock /\ \A b \in due'[k] : Overdue(b, at[k])
      BY <2>1 DEF Timely
    <2> QED BY <2>1, <2>2, TimelyTick
  <1>8. ASSUME NEW k \in Ticks, Stop(k)
        PROVE  Timely'
    <2>1. /\ UNCHANGED <<day, hour>> /\ pc'[k] = "idle" /\ at'[k] = 0
          /\ \A j \in Ticks \ {k} : /\ pc'[j] = pc[j] /\ key'[j] = key[j] /\ at'[j] = at[j]
                                     /\ todo'[j] = todo[j] /\ due'[j] = due[j]
      BY <1>0, <1>8 DEF Stop, Go, TypeOK
    <2> QED BY <1>0, <2>1, TimelyTick
  <1>9. ASSUME NEW k \in Ticks, TickStep(k) \/ Fail(k)
        PROVE  Timely'
    BY <1>3, <1>4, <1>5, <1>6, <1>7, <1>8, <1>9 DEF TickStep, Fail, EndTick, AbortTick
  <1> QED BY <1>1, <1>2, <1>9 DEF Next

-----------------------------------------------------------------------------
(* The inductive invariant of the scheduler: one cycle a day, deletions    *)
(* and blackout dates kept, assignments exactly for the cycles, one notice *)
(* for each.                                                               *)
THEOREM SchedulerInvariant == Spec => []SchedulerInv
  <1>1. Init => SchedulerInv
    BY InitOpeningInv, InitNotices, InitTimely DEF SchedulerInv
  <1>2. SchedulerInv /\ [Next]_vars => SchedulerInv'
    BY NextOpeningInv, NextNotices, NextDueExist, NextTimely DEF SchedulerInv
  <1> QED BY <1>1, <1>2, PTL DEF Spec

(* A schedule has one cycle per day, whatever ticks overlap, fail or are   *)
(* overtaken by midnight.                                                  *)
THEOREM OneCyclePerDay == Spec => []CycleOnce
  <1>1. SchedulerInv => CycleOnce
    BY DEF SchedulerInv, OpeningInv
  <1> QED BY <1>1, SchedulerInvariant, PTL

(* No cycle is opened for a day after the deletion, nor for a blackout     *)
(* date that was set before its day.                                       *)
THEOREM DeletionsAndBlackoutsHold == Spec => [](DeletedStaysClosed /\ BlackoutRespected)
  <1>1. SchedulerInv => DeletedStaysClosed /\ BlackoutRespected
    BY DEF SchedulerInv, OpeningInv
  <1> QED BY <1>1, SchedulerInvariant, PTL

(* Unless transactions fail or processes die, nobody is told twice of a    *)
(* cycle or of one that is not opened, however many ticks find it due.     *)
THEOREM NobodyToldTwice == ASSUME ~Failures PROVE Spec => []ToldOnce
  <1>1. SchedulerInv => ToldOnce
    BY DEF SchedulerInv
  <1> QED BY <1>1, SchedulerInvariant, PTL

-----------------------------------------------------------------------------
(* The contract of the cycles.  The constants of the contract, and the     *)
(* transactions under way, as the steps below need them.                   *)
LEMMA ContractSets ==
  /\ Contract!Cycles = Assignments
  /\ \A s \in Schedules, d \in Days :
        /\ <<s, d>> \in Assignments
        /\ <<s, d>> \in Planned <=> d \in Occurs[s]
        /\ [a \in Assignments |-> Opens(a[1], a[2])][<<s, d>>] = Opens(s, d)
        /\ [a \in Assignments |-> Closes(a[1], a[2])][<<s, d>>] = Closes(s, d)
  BY DEF Contract!Cycles, Assignments, Planned

LEMMA InFlightStays ==
  ASSUME NEW k \in Ticks, pc[k] # "commit", pc'[k] # "commit",
         \A j \in Ticks \ {k} :
            pc'[j] = pc[j] /\ current'[j] = current[j] /\ key'[j] = key[j]
  PROVE  InFlight' = InFlight
  BY DEF InFlight

(* The transaction of a tick is the only one that opens its cycle.         *)
LEMMA InFlightEnds ==
  ASSUME CommitHolds, NEW k \in Ticks, pc[k] = "commit", pc'[k] # "commit",
         \A j \in Ticks \ {k} :
            pc'[j] = pc[j] /\ current'[j] = current[j] /\ key'[j] = key[j]
  PROVE  InFlight' = InFlight \ {<<current[k], key[k]>>} /\ <<current[k], key[k]>> \in InFlight
  <1>1. \A j \in Ticks \ {k} : pc[j] = "commit" => current[j] # current[k]
    BY DEF CommitHolds
  <1> QED BY <1>1 DEF InFlight

(* A transaction tells of a cycle that is due and that nobody is opening.  *)
LEMMA OpenIsTell ==
  ASSUME SchedulerInv, NEW k \in Ticks, NEW s \in Schedules, OpenCycle(k, s)
  PROVE  \E d \in Days : Contract!Tell(s, d)
  <1>0. /\ TypeOK /\ pc[k] = "open" /\ s \in todo[k] /\ ~Taken(k, s) /\ ~Locked(k, s)
        /\ current' = [current EXCEPT ![k] = s]
        /\ notices' = [notices EXCEPT ![<<s, key[k]>>] = IF @ < 2 THEN @ + 1 ELSE 2]
        /\ pc' = [pc EXCEPT ![k] = "commit"]
        /\ UNCHANGED <<day, hour, schedule, cycles, assignments, key>>
    BY DEF SchedulerInv, OpeningInv, OpenCycle, Go
  <1>1. PICK d \in Days : d = key[k]
    BY <1>0 DEF TypeOK
  <1>2. <<s, d>> \in Assignments
    BY ContractSets
  <1>3. assignments[<<s, d>>] = "NONE"
    <2>1. PICK q \in Seq(Days) : q = cycles[s]
      BY <1>0 DEF TypeOK
    <2>2. DOMAIN q = 1..Len(q)
      OBVIOUS
    <2>3. \A i \in 1..Len(q) : q[i] \in ToSet(q)
      BY <2>2 DEF ToSet
    <2> QED BY <1>0, <1>1, <1>2, <2>1, <2>3 DEF Taken, SchedulerInv, FannedOut
  <1>4. \A j \in Ticks : pc[j] = "commit" => <<current[j], key[j]>> # <<s, d>>
    BY <1>0 DEF Locked
  <1>5. Failures \/ notices[<<s, d>>] = 0
    <2> SUFFICES ASSUME ~Failures PROVE notices[<<s, d>>] = 0
      OBVIOUS
    <2>1. notices[<<s, d>>] # 1 /\ notices[<<s, d>>] <= 1
      BY <1>2, <1>3, <1>4 DEF SchedulerInv, ToldOnce
    <2>2. notices[<<s, d>>] \in 0..2
      BY <1>0, <1>2 DEF TypeOK
    <2> QED BY <2>1, <2>2
  <1>6. InFlight' = InFlight \cup {<<s, d>>} /\ <<s, d>> \notin InFlight
    <2>1. /\ pc'[k] = "commit" /\ current'[k] = s /\ key'[k] = d
          /\ \A j \in Ticks \ {k} :
                pc'[j] = pc[j] /\ current'[j] = current[j] /\ key'[j] = key[j]
      BY <1>0, <1>1 DEF TypeOK
    <2> QED BY <1>0, <1>4, <2>1 DEF InFlight
  <1>7. d \in Occurs[s] /\ Opens(s, d) <= Clock
    <2>1. d \in Occurs[s] /\ Opens(s, d) <= at[k] /\ at[k] <= Clock
      BY <1>0, <1>1 DEF SchedulerInv, Timely
    <2>2. Opens(s, d) \in Int /\ at[k] \in Int /\ Clock \in Int
      BY <1>0, ClockRuns DEF Opens, TypeOK, Days
    <2> QED BY <2>1, <2>2
  <1>8. Contract!Permitted(s, d)
    <2>1. /\ deletedAt[s] # Null => d <= deletedAt[s]
          /\ blackout[s][d] # Null => blackout[s][d] >= d
      BY <1>0, <1>1 DEF SchedulerInv, OpeningInv, Scheduled
    <2>2. blackout[s][d] \in Days \cup {Null}
      BY <1>0 DEF TypeOK
    <2> QED BY <2>1, <2>2 DEF Contract!Permitted, Days
  <1>9. UNCHANGED <<day, Clock, deletedAt, blackout, assignments>>
    BY <1>0 DEF Clock, schedule
  <1>10. /\ <<s, d>> \in Planned
         /\ [a \in Assignments |-> Opens(a[1], a[2])][<<s, d>>] <= Clock
    BY <1>7, ContractSets
  <1>11. notices' = [notices EXCEPT ![<<s, d>>] = IF @ < 2 THEN @ + 1 ELSE 2]
    BY <1>0, <1>1
  <1> QED BY <1>3, <1>5, <1>6, <1>8, <1>9, <1>10, <1>11
          DEF Contract!Tell, Contract!rules

(* Its commit opens the cycle.                                             *)
LEMMA CommitIsOpen ==
  ASSUME SchedulerInv, NEW k \in Ticks, Commit(k)
  PROVE  \E s \in Schedules, d \in Days : Contract!Open(s, d)
  <1>0. TypeOK /\ CommitHolds /\ pc[k] = "commit" /\ current[k] \in Schedules /\ key[k] \in Days
    BY DEF SchedulerInv, OpeningInv, TypeOK, CommitHolds, Commit
  <1>1. PICK s \in Schedules, d \in Days : s = current[k] /\ d = key[k]
    BY <1>0
  <1>2. /\ assignments' = [assignments EXCEPT ![<<s, d>>] = "AVAILABLE"]
        /\ UNCHANGED <<day, hour, schedule, notices, key>> /\ pc'[k] = "open"
        /\ \A j \in Ticks \ {k} : pc'[j] = pc[j] /\ current'[j] = current[j]
    BY <1>0, <1>1 DEF Commit, Go, TypeOK
  <1>3. InFlight' = InFlight \ {<<s, d>>} /\ <<s, d>> \in InFlight
    BY <1>0, <1>1, <1>2, InFlightEnds
  <1>4. Contract!Permitted(s, d)
    <2>1. /\ deletedAt[s] # Null => d <= deletedAt[s]
          /\ blackout[s][d] # Null => blackout[s][d] >= d
      BY <1>0, <1>1 DEF SchedulerInv, OpeningInv, Scheduled, CommitHolds
    <2>2. blackout[s][d] \in Days \cup {Null}
      BY <1>0 DEF TypeOK
    <2> QED BY <2>1, <2>2 DEF Contract!Permitted, Days
  <1>5. UNCHANGED <<day, Clock, deletedAt, blackout, notices>>
    BY <1>2 DEF Clock, schedule
  <1> QED BY <1>2, <1>3, <1>4, <1>5 DEF Contract!Open, Contract!rules

(* What is closed was overdue when the tick read it, and is overdue still. *)
LEMMA CloseIsClose ==
  ASSUME SchedulerInv, NEW k \in Ticks, NEW a \in Assignments, CloseAssignment(k, a)
  PROVE  \/ UNCHANGED Contract!vars
         \/ \E s \in Schedules, d \in Days : Contract!Close(s, d)
  <1>0. /\ TypeOK /\ pc[k] = "close" /\ a \in due[k]
        /\ assignments' = [assignments EXCEPT ![a] = "CLOSED"]
        /\ UNCHANGED <<day, hour, schedule, notices, pc, key, current>>
    BY DEF SchedulerInv, OpeningInv, CloseAssignment
  <1>1. PICK s \in Schedules, d \in Days : a = <<s, d>>
    BY DEF Assignments
  <1>2. UNCHANGED <<day, Clock, deletedAt, blackout, notices, InFlight>>
    BY <1>0 DEF Clock, schedule, InFlight
  <1>3. CASE assignments[a] = "CLOSED"
    <2>1. assignments' = assignments
      BY <1>0, <1>3 DEF TypeOK
    <2> QED BY <1>2, <2>1 DEF Contract!vars
  <1>4. CASE assignments[a] = "AVAILABLE"
    <2>1. Closes(s, d) < at[k] /\ at[k] <= Clock
      <3>1. a[1] = s /\ a[2] = d
        BY <1>1
      <3> QED BY <1>0, <3>1 DEF SchedulerInv, Timely, Overdue
    <2>2. Closes(s, d) \in Int /\ at[k] \in Int /\ Clock \in Int
      BY <1>0, ClockRuns DEF Closes, Opens, TypeOK, Days
    <2>3. [b \in Assignments |-> Closes(b[1], b[2])][<<s, d>>] < Clock
      <3>1. [b \in Assignments |-> Closes(b[1], b[2])][<<s, d>>] = Closes(s, d)
        BY ContractSets
      <3>2. Closes(s, d) < Clock
        BY <2>1, <2>2
      <3> QED BY <3>1, <3>2
    <2>4. assignments[<<s, d>>] = "AVAILABLE"
      BY <1>1, <1>4
    <2>5. assignments' = [assignments EXCEPT ![<<s, d>>] = "CLOSED"]
      BY <1>0, <1>1
    <2>6. Contract!Close(s, d)
      BY <1>2, <2>3, <2>4, <2>5 DEF Contract!Close, Contract!rules
    <2> QED BY <2>6
  <1>5. assignments[a] # "NONE"
    BY <1>0 DEF SchedulerInv, DueExist
  <1> QED BY <1>0, <1>3, <1>4, <1>5 DEF TypeOK

(* A tick that ends in a transaction gives the cycle up.                   *)
LEMMA StopGivesUp ==
  ASSUME SchedulerInv, NEW k \in Ticks, Stop(k), pc[k] # "commit" \/ Failures
  PROVE  \/ UNCHANGED Contract!vars
         \/ \E s \in Schedules, d \in Days : Contract!GiveUp(s, d)
  <1>0. /\ TypeOK /\ CommitHolds
        /\ UNCHANGED <<day, Clock, deletedAt, blackout, notices, assignments>>
        /\ pc'[k] # "commit"
        /\ \A j \in Ticks \ {k} :
              pc'[j] = pc[j] /\ current'[j] = current[j] /\ key'[j] = key[j]
    BY DEF SchedulerInv, OpeningInv, TypeOK, Stop, Go, Clock, schedule, opened
  <1>1. CASE pc[k] # "commit"
    BY <1>0, <1>1, InFlightStays DEF Contract!vars
  <1>2. CASE pc[k] = "commit"
    <2>1. PICK s \in Schedules, d \in Days : s = current[k] /\ d = key[k]
      BY <1>0, <1>2 DEF CommitHolds, TypeOK
    <2>2. InFlight' = InFlight \ {<<s, d>>} /\ <<s, d>> \in InFlight
      BY <1>0, <1>2, <2>1, InFlightEnds
    <2>3. Contract!GiveUp(s, d)
      BY <1>0, <1>2, <2>2 DEF Contract!GiveUp, Contract!rules
    <2> QED BY <2>3
  <1> QED BY <1>1, <1>2

(* Administrators delete and bar; nothing else of theirs is promised.      *)
LEMMA BlackoutIsBar ==
  ASSUME SchedulerInv, NEW s \in Schedules, NEW dates \in SUBSET Days,
         CreateSchedule(s, dates) \/ SetBlackoutDates(s, dates)
  PROVE  \E kept \in SUBSET Days : Contract!Bar(s, dates, kept)
  <1>1. UNCHANGED <<day, Clock, deletedAt, notices, InFlight, assignments>>
    BY DEF CreateSchedule, SetBlackoutDates, EditSchedule, Clock, opened, tick, InFlight
  <1>2. PICK kept \in SUBSET Days :
          blackout' = [blackout EXCEPT ![s] =
                          [d \in Days |-> IF d \in dates THEN day
                                          ELSE IF d \in kept THEN blackout[s][d] ELSE Null]]
    <2>1. CASE CreateSchedule(s, dates)
      <3>1. [d \in Days |-> IF d \in dates THEN day ELSE Null] =
              [d \in Days |-> IF d \in dates THEN day
                              ELSE IF d \in {} THEN blackout[s][d] ELSE Null]
        OBVIOUS
      <3> QED BY <2>1, <3>1 DEF CreateSchedule
    <2>2. CASE SetBlackoutDates(s, dates)
      <3>1. PICK overlap \in BOOLEAN :
              blackout' = [blackout EXCEPT ![s] =
                [d \in Days |-> IF d \in dates THEN day
                                ELSE IF overlap THEN blackout[s][d] ELSE Null]]
        BY <2>2 DEF SetBlackoutDates
      <3>2. CASE overlap
        <4>1. [d \in Days |-> IF d \in dates THEN day
                              ELSE IF overlap THEN blackout[s][d] ELSE Null] =
                [d \in Days |-> IF d \in dates THEN day
                                ELSE IF d \in Days THEN blackout[s][d] ELSE Null]
          BY <3>2
        <4> QED BY <3>1, <4>1
      <3>3. CASE ~overlap
        <4>1. [d \in Days |-> IF d \in dates THEN day
                              ELSE IF overlap THEN blackout[s][d] ELSE Null] =
                [d \in Days |-> IF d \in dates THEN day
                                ELSE IF d \in {} THEN blackout[s][d] ELSE Null]
          BY <3>3
        <4> QED BY <3>1, <4>1
      <3> QED BY <3>2, <3>3
    <2> QED BY <2>1, <2>2
  <1> QED BY <1>1, <1>2 DEF Contract!Bar

LEMMA ContractNext ==
  ASSUME SchedulerInv, [Next]_vars
  PROVE  [Contract!Next]_(Contract!vars)
  <1>0. TypeOK
    BY DEF SchedulerInv, OpeningInv
  <1>1. CASE UNCHANGED vars
    BY <1>1 DEF vars, schedule, opened, tick, Clock, InFlight, Contract!vars
  <1>2. CASE Advance
    <2>1. UNCHANGED <<deletedAt, blackout, notices, InFlight, assignments>>
      BY <1>2 DEF Advance, schedule, opened, tick, InFlight
    <2>2. Clock < Clock' /\ day <= day'
      BY <1>0, <1>2, ClockRuns DEF Advance, TypeOK, Days
    <2>3. Contract!Pass
      BY <2>1, <2>2 DEF Contract!Pass
    <2> QED BY <2>3 DEF Contract!Next
  <1>3. ASSUME NEW s \in Schedules, NEW dates \in SUBSET Days,
               CreateSchedule(s, dates) \/ SetBlackoutDates(s, dates)
        PROVE  Contract!Next
    BY <1>3, BlackoutIsBar DEF Contract!Next
  <1>4. ASSUME NEW s \in Schedules, DeleteSchedule(s)
        PROVE  Contract!Next
    <2>1. Contract!Delete(s)
      BY <1>4 DEF DeleteSchedule, EditSchedule, opened, tick, Clock, InFlight, Contract!Delete
    <2> QED BY <2>1 DEF Contract!Next
  <1>5. ASSUME NEW s \in Schedules,
               ToggleSchedule(s) \/ CloseTest(s) \/ ChangeAudience(s)
        PROVE  UNCHANGED Contract!vars
    BY <1>5 DEF ToggleSchedule, CloseTest, ChangeAudience, EditSchedule, opened, tick, Clock, InFlight,
                Contract!vars
  <1>6. ASSUME NEW k \in Ticks, BeginTick(k) \/ Scan(k) \/ FindDue(k)
        PROVE  UNCHANGED Contract!vars
    <2>1. /\ pc[k] # "commit" /\ pc'[k] # "commit" /\ UNCHANGED <<day, hour, schedule, opened>>
          /\ \A j \in Ticks \ {k} :
                pc'[j] = pc[j] /\ current'[j] = current[j] /\ key'[j] = key[j]
      BY <1>0, <1>6 DEF BeginTick, Scan, FindDue, Go, TypeOK
    <2> QED BY <2>1, InFlightStays DEF Clock, schedule, opened, Contract!vars
  <1>7. ASSUME NEW k \in Ticks, EndTick(k) \/ Fail(k) \/ \E s \in Schedules : AbortTick(k, s)
        PROVE  [Contract!Next]_(Contract!vars)
    <2>1. Stop(k) /\ (pc[k] # "commit" \/ Failures)
      BY <1>7 DEF EndTick, Fail, AbortTick
    <2> QED BY <2>1, StopGivesUp DEF Contract!Next
  <1>8. ASSUME NEW k \in Ticks, TickStep(k) \/ Fail(k)
        PROVE  [Contract!Next]_(Contract!vars)
    <2>1. CASE \E s \in Schedules : OpenCycle(k, s)
      BY <2>1, OpenIsTell DEF Contract!Next
    <2>2. CASE Commit(k)
      BY <2>2, CommitIsOpen DEF Contract!Next
    <2>3. CASE \E a \in Assignments : CloseAssignment(k, a)
      BY <2>3, CloseIsClose DEF Contract!Next
    <2> QED BY <1>6, <1>7, <1>8, <2>1, <2>2, <2>3 DEF TickStep
  <1> QED BY <1>1, <1>2, <1>3, <1>4, <1>5, <1>8 DEF Next

(* The ticks implement the contract of the cycles, however many overlap,   *)
(* whatever fails and whatever administrators change meanwhile             *)
(* (runSchedulerTick, closeDueAssignments).                                *)
THEOREM ImplementsCycleContract == Spec => CycleContractSpec
  <1>1. Init => Contract!Init
    <2> SUFFICES ASSUME Init PROVE Contract!Init
      OBVIOUS
    <2>1. Clock = 0 /\ InFlight = {}
      BY DEF Init, Clock, InFlight
    <2> QED BY <2>1, ContractSets DEF Init, Contract!Init
  <1>2. SchedulerInv /\ [Next]_vars => [Contract!Next]_(Contract!vars)
    BY ContractNext
  <1> QED BY <1>1, <1>2, SchedulerInvariant, PTL DEF Spec, CycleContractSpec, Contract!Spec
=============================================================================
