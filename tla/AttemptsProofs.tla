--------------------------- MODULE AttemptsProofs ---------------------------
(***************************************************************************)
(* Proofs about Attempts, for every number of assignments, attempts,       *)
(* handlers and ticks.                                                     *)
(***************************************************************************)
EXTENDS Attempts, TLAPS

USE CountsAssumption, DataAssumption DEF Assignments

(* The shapes of the local state a handler can be in. *)
LEMMA IdleState == NoRequest \in RequestState /\ NoRequest \in AdminState /\ NoRequest \in TickState
  BY DEF RequestState, AdminState, TickState

LEMMA HandlerShapes ==
  ASSUME NEW h \in RequestState
  PROVE  /\ h.op = "start" => h.test \in Tests
         /\ h.op = "save" =>
              h.x \in Attempt /\ h.q \in Questions /\ h.answer \in Answer
         /\ h.op = "finalize" => h.x \in Attempt /\ h.answers \in Answers
         /\ h.op = "announce" => h.x \in Attempt
  BY DEF RequestState, NoRequest

LEMMA AdminShapes ==
  ASSUME NEW h \in AdminState
  PROVE  /\ h.op = "assign" => h.test \in Tests /\ h.due \in Nat \cup {Null}
         /\ h.op = "revoke" => h.a \in Assignments
  BY DEF AdminState, NoRequest

LEMMA TickShapes ==
  ASSUME NEW h \in TickState
  PROVE  /\ h.op = "scan" => h.due \in SUBSET Assignments
         /\ h.op = "close" =>
              /\ h.due \in SUBSET Assignments /\ h.a \in Assignments
              /\ h.submitted \in BOOLEAN
  BY DEF TickState, NoRequest

(* The rows the handlers write are rows of their tables. *)
LEMMA StatusRow ==
  ASSUME NEW row \in AssignmentRow, NEW status \in AssignmentStatus
  PROVE  [row EXCEPT !.status = status] \in AssignmentRow
  BY DEF AssignmentRow

LEMMA StartedRow ==
  ASSUME NEW row \in AssignmentRow
  PROVE  /\ Started(row) \in AssignmentRow
         /\ Started(row).count = row.count + 1
         /\ Started(row).status = "IN_PROGRESS"
         /\ Started(row).due = row.due
  <1>1. row.count + 1 \in Nat
    BY DEF AssignmentRow
  <1> DEFINE more == row.count + 1
  <1>2. Started(row) = [row EXCEPT !.status = "IN_PROGRESS", !.count = more]
    BY DEF Started
  <1>3. more \in Nat /\ "IN_PROGRESS" \in AssignmentStatus
    BY <1>1 DEF AssignmentStatus
  <1> HIDE DEF more
  <1>4. /\ Started(row) \in AssignmentRow
        /\ Started(row).count = more
        /\ Started(row).status = "IN_PROGRESS"
        /\ Started(row).due = row.due
    BY <1>2, <1>3 DEF AssignmentRow
  <1> QED BY <1>4 DEF more

LEMMA ClosedRow ==
  ASSUME NEW row \in AttemptRow, NEW answers \in Answers
  PROVE  /\ Closed(row, answers) \in AttemptRow
         /\ Closed(row, answers).status \in Finished
         /\ Closed(row, answers).status = Outcome(answers)
         /\ Closed(row, answers).scored = answers
         /\ Closed(row, answers).expires = row.expires
  <1>1. Outcome(answers) \in Finished
    BY DEF Outcome, Finished
  <1> QED BY <1>1 DEF AttemptRow, AttemptStatus, Finished, Closed

LEMMA NewAttemptRow ==
  ASSUME NEW limit \in Nat, now \in Nat
  PROVE  /\ NewAttempt(limit) \in AttemptRow
         /\ NewAttempt(limit).status = "IN_PROGRESS"
  BY DEF AttemptRow, AttemptStatus, NewAttempt

LEMMA AssignmentUpdates ==
  ASSUME NEW f \in [Assignments -> AssignmentRow], NEW a \in Assignments,
         NEW status \in AssignmentStatus
  PROVE  /\ [f EXCEPT ![a].status = status] \in [Assignments -> AssignmentRow]
         /\ [f EXCEPT ![a] = Started(@)] \in [Assignments -> AssignmentRow]
  <1>1. f[a] \in AssignmentRow
    OBVIOUS
  <1>2. [f[a] EXCEPT !.status = status] \in AssignmentRow
    BY <1>1, StatusRow
  <1>3. Started(f[a]) \in AssignmentRow
    BY <1>1, StartedRow
  <1> HIDE DEF Assignments
  <1> QED BY <1>2, <1>3

(* The initial state is well typed. *)
LEMMA InitTypeOK == Init => TypeOK
  <1> SUFFICES ASSUME Init PROVE TypeOK
    OBVIOUS
  <1>1. NoAssignment \in AssignmentRow /\ NoAttempt \in AttemptRow
    BY DEF NoAssignment, NoAttempt, AssignmentRow, AttemptRow,
           AssignmentStatus, AttemptStatus
  <1>2. NoAnswer \in Answer
    BY DEF NoAnswer, Answer
  <1> QED
    BY <1>1, <1>2, IdleState DEF Init, TypeOK, Answers

(* Every step of the employee's handlers keeps the types. *)
LEMMA RequestTypeOK ==
  ASSUME TypeOK, NEW r \in Requests, RequestStep(r)
  PROVE  TypeOK'
  <1> USE DEF TypeOK
  <1>0. /\ handler[r] \in RequestState
        /\ \A state \in RequestState : Go(r, state) =>
              /\ handler' \in [Requests -> RequestState]
              /\ UNCHANGED <<now, archived, admin, tick>>
    BY DEF Go
  <1>1. ASSUME NEW t \in Tests, StartRead(r, t) PROVE TypeOK'
    <2>1. [op |-> "start", test |-> t] \in RequestState
      BY DEF RequestState
    <2> QED BY <1>0, <1>1, <2>1 DEF StartRead, rows
  <1>2. CASE StartCommit(r)
    <2>1. Go(r, NoRequest) /\ handler[r].op = "start" /\ handler[r].test \in Tests
      BY <1>0, <1>2, HandlerShapes DEF StartCommit
    <2>2. PICK a \in Assignments :
            /\ attempt' = [attempt EXCEPT ![<<a, assignment[a].count + 1>>] =
                              NewAttempt(Duration[handler[r].test])]
            /\ assignment' = [assignment EXCEPT ![a] = Started(@)]
      BY <1>2 DEF StartCommit, StartableFor
    <2>3. assignment' \in [Assignments -> AssignmentRow]
      BY <2>2, AssignmentUpdates DEF AssignmentStatus
    <2>4. NewAttempt(Duration[handler[r].test]) \in AttemptRow
      <3>1. Duration[handler[r].test] \in Nat /\ now \in Nat
        BY <2>1
      <3> QED BY <3>1, NewAttemptRow
    <2>5. attempt' \in [Attempt -> AttemptRow]
      BY <2>2, <2>4
    <2> QED BY <1>0, <1>2, <2>1, <2>3, <2>5, IdleState DEF StartCommit
  <1>3. CASE StartRefused(r)
    BY <1>0, <1>3, IdleState DEF StartRefused, rows
  <1>4. ASSUME NEW x \in Attempt, NEW q \in Questions, SaveRead(r, x, q)
        PROVE  TypeOK'
    <2>1. [op |-> "save", x |-> x, q |-> q,
           answer |-> [seq |-> edits + 1, at |-> now]] \in RequestState
      BY <1>4 DEF SaveRead, RequestState, Answer
    <2> QED BY <1>0, <1>4, <2>1 DEF SaveRead, rows
  <1>5. CASE SaveCommit(r)
    <2>1. /\ handler[r].x \in Attempt /\ handler[r].q \in Questions
          /\ handler[r].answer \in Answer
      BY <1>0, <1>5, HandlerShapes DEF SaveCommit
    <2>2. response' \in [Attempt -> Answers]
      BY <1>5, <2>1 DEF SaveCommit, Answers
    <2> QED BY <1>0, <1>5, <2>2, IdleState DEF SaveCommit
  <1>6. ASSUME NEW x \in Attempt, SubmitRead(r, x) \/ SeeTimedOut(r, x)
        PROVE  TypeOK'
    <2>1. [op |-> "finalize", x |-> x, answers |-> response[x]] \in RequestState
      BY DEF RequestState
    <2> QED BY <1>0, <1>6, <2>1 DEF SubmitRead, SeeTimedOut, rows
  <1>7. CASE FinalizeCommit(r)
    <2>1. handler[r].x \in Attempt /\ handler[r].answers \in Answers
      BY <1>0, <1>7, HandlerShapes DEF FinalizeCommit
    <2>2. [op |-> "announce", x |-> handler[r].x] \in RequestState
      BY <2>1 DEF RequestState
    <2>3. handler[r].x[1] \in Assignments
      BY <2>1 DEF Attempt
    <2>4. assignment' \in [Assignments -> AssignmentRow]
      BY <1>7, <2>3, AssignmentUpdates DEF FinalizeCommit, AssignmentStatus
    <2>5. Closed(attempt[handler[r].x], handler[r].answers) \in AttemptRow
      BY <2>1, ClosedRow
    <2>6. attempt' \in [Attempt -> AttemptRow]
      BY <1>7, <2>1, <2>5 DEF FinalizeCommit
    <2> QED BY <1>0, <1>7, <2>2, <2>4, <2>6 DEF FinalizeCommit
  <1>8. CASE FinalizeLost(r)
    BY <1>0, <1>8, IdleState DEF FinalizeLost, rows
  <1>9. CASE Announce(r)
    <2>1. handler[r].x \in Attempt
      BY <1>0, <1>9, HandlerShapes DEF Announce
    <2>2. announced' \in [Attempt -> Nat]
      BY <1>9, <2>1 DEF Announce
    <2> QED BY <1>0, <1>9, <2>2, IdleState DEF Announce
  <1>10. CASE Abandon(r)
    BY <1>0, <1>10, IdleState DEF Abandon, rows
  <1> QED
    BY <1>1, <1>2, <1>3, <1>4, <1>5, <1>6, <1>7, <1>8, <1>9, <1>10
       DEF RequestStep

(* Every step of a manager's handlers keeps the types. *)
LEMMA AdminTypeOK ==
  ASSUME TypeOK, NEW m \in Admins, AdminStep(m)
  PROVE  TypeOK'
  <1>0. /\ admin \in [Admins -> AdminState] /\ admin[m] \in AdminState
        /\ assignment \in [Assignments -> AssignmentRow]
        /\ active \subseteq Assignments
    BY DEF TypeOK
  <1>1. ASSUME NEW t \in Tests, NEW due \in DueTimes, AssignRead(m, t, due)
        PROVE  TypeOK'
    <2>1. [op |-> "assign", test |-> t, due |-> due] \in AdminState
      BY DEF AdminState
    <2> QED BY <1>0, <1>1, <2>1 DEF AssignRead, TypeOK, rows
  <1>2. CASE AssignCommit(m)
    <2>1. admin[m].test \in Tests /\ admin[m].due \in Nat \cup {Null}
      BY <1>0, <1>2, AdminShapes DEF AssignCommit
    <2>2. [status |-> "AVAILABLE", test |-> admin[m].test,
           due |-> admin[m].due, count |-> 0] \in AssignmentRow
      BY <2>1 DEF AssignmentRow, AssignmentStatus
    <2>3. /\ assignment' \in [Assignments -> AssignmentRow]
          /\ active' \subseteq Assignments
      BY <1>0, <1>2, <2>2 DEF AssignCommit
    <2>4. admin' \in [Admins -> AdminState]
      BY <1>0, <1>2, IdleState DEF AssignCommit
    <2> QED BY <1>2, <2>3, <2>4 DEF AssignCommit, TypeOK
  <1>3. ASSUME NEW a \in Assignments, RevokeRead(m, a) PROVE TypeOK'
    <2>1. [op |-> "revoke", a |-> a] \in AdminState
      BY DEF AdminState
    <2> QED BY <1>0, <1>3, <2>1 DEF RevokeRead, TypeOK, rows
  <1>4. CASE RevokeCommit(m)
    <2>1. admin[m].a \in Assignments
      BY <1>0, <1>4, AdminShapes DEF RevokeCommit
    <2>2. /\ assignment' \in [Assignments -> AssignmentRow]
          /\ active' \subseteq Assignments
      BY <1>0, <1>4, <2>1, AssignmentUpdates DEF RevokeCommit, AssignmentStatus
    <2>3. admin' \in [Admins -> AdminState]
      BY <1>0, <1>4, IdleState DEF RevokeCommit
    <2> QED BY <1>4, <2>2, <2>3 DEF RevokeCommit, TypeOK
  <1> QED BY <1>1, <1>2, <1>3, <1>4 DEF AdminStep

(* Every step of a scheduler tick keeps the types. *)
LEMMA TickTypeOK ==
  ASSUME TypeOK, NEW s \in Ticks, TickStep(s)
  PROVE  TypeOK'
  <1>0. /\ tick \in [Ticks -> TickState] /\ tick[s] \in TickState
        /\ assignment \in [Assignments -> AssignmentRow]
    BY DEF TypeOK
  <1>1. CASE ScanDue(s)
    <2>1. PICK due \in SUBSET Assignments :
            tick' = [tick EXCEPT ![s] = [op |-> "scan", due |-> due]]
      BY <1>1 DEF ScanDue
    <2>2. [op |-> "scan", due |-> due] \in TickState
      BY DEF TickState
    <2> QED BY <1>0, <1>1, <2>1, <2>2 DEF ScanDue, TypeOK, rows
  <1>2. ASSUME NEW a \in Assignments, LookForSubmitted(s, a) PROVE TypeOK'
    <2>1. tick[s].due \ {a} \in SUBSET Assignments
      BY <1>0, <1>2, TickShapes DEF LookForSubmitted
    <2>2. Submitted(a) \in BOOLEAN
      BY DEF Submitted
    <2>3. [op |-> "close", due |-> tick[s].due \ {a}, a |-> a,
           submitted |-> Submitted(a)] \in TickState
      BY <2>1, <2>2 DEF TickState
    <2> QED BY <1>0, <1>2, <2>3 DEF LookForSubmitted, TypeOK, rows
  <1>3. CASE CloseDue(s)
    <2>1. tick[s].a \in Assignments /\ tick[s].due \in SUBSET Assignments
      BY <1>0, <1>3, TickShapes DEF CloseDue
    <2>2. assignment' \in [Assignments -> AssignmentRow]
      BY <1>0, <1>3, <2>1, AssignmentUpdates DEF CloseDue, AssignmentStatus
    <2>3. [op |-> "scan", due |-> tick[s].due] \in TickState
      BY <2>1 DEF TickState
    <2>4. tick' \in [Ticks -> TickState]
      BY <1>0, <1>3, <2>3, IdleState DEF CloseDue
    <2> QED BY <1>3, <2>2, <2>4 DEF CloseDue, TypeOK
  <1> QED BY <1>1, <1>2, <1>3 DEF TickStep

(* Type correctness: what every step writes into a row or keeps in a       *)
(* handler's local state has its type.                                     *)
THEOREM TypeCorrect == Spec => []TypeOK
  <1>1. TypeOK /\ [Next]_vars => TypeOK'
    <2> SUFFICES ASSUME TypeOK, [Next]_vars PROVE TypeOK'
      OBVIOUS
    <2>1. ASSUME NEW t \in Tests, Archive(t) PROVE TypeOK'
      BY <2>1 DEF Archive, TypeOK, rows
    <2>2. ASSUME NEW x \in Attempt, ReviewPublishes(x) PROVE TypeOK'
      <3>1. x[1] \in Assignments
        BY DEF Attempt
      <3>2. assignment' \in [Assignments -> AssignmentRow]
        BY <2>2, <3>1, AssignmentUpdates
           DEF ReviewPublishes, TypeOK, AssignmentStatus
      <3>3. [attempt[x] EXCEPT !.status = "PUBLISHED"] \in AttemptRow
        <4>1. attempt[x] \in AttemptRow /\ "PUBLISHED" \in AttemptStatus
          BY DEF TypeOK, AttemptStatus, Finished
        <4> QED BY <4>1 DEF AttemptRow
      <3>4. attempt' \in [Attempt -> AttemptRow]
        BY <2>2, <3>3 DEF ReviewPublishes, TypeOK
      <3> QED BY <2>2, <3>2, <3>4 DEF ReviewPublishes, TypeOK
    <2>5. ASSUME NEW x \in Attempt, ReviewLeavesPending(x) PROVE TypeOK'
      <3>1. [attempt[x] EXCEPT !.status = "NEEDS_REVIEW"] \in AttemptRow
        <4>1. attempt[x] \in AttemptRow /\ "NEEDS_REVIEW" \in AttemptStatus
          BY DEF TypeOK, AttemptStatus, Finished
        <4> QED BY <4>1 DEF AttemptRow
      <3>2. attempt' \in [Attempt -> AttemptRow]
        BY <2>5, <3>1 DEF ReviewLeavesPending, TypeOK
      <3> QED BY <2>5, <3>2 DEF ReviewLeavesPending, TypeOK
    <2>3. CASE PassTime
      BY <2>3 DEF PassTime, TypeOK, rows
    <2>4. CASE UNCHANGED vars
      BY <2>4 DEF vars, TypeOK
    <2> QED
      BY <2>1, <2>2, <2>3, <2>4, <2>5, RequestTypeOK, AdminTypeOK, TickTypeOK DEF Next
  <1> QED BY <1>1, InitTypeOK, PTL DEF Spec

-----------------------------------------------------------------------------
(* The inductive invariant.                                                *)

LEMMA Pairs ==
  /\ \A x \in Attempt :
        x[1] \in Assignments /\ x[2] \in 1..MaxAttempts /\ x = <<x[1], x[2]>>
  /\ \A a \in Assignments, n \in 1..MaxAttempts : <<a, n>> \in Attempt
  /\ \A a \in Assignments : <<a, 1>> \in Attempt
  BY DEF Attempt

(* Only attempt number 1 of an assignment ever exists. *)
LEMMA FirstOnly ==
  ASSUME InductiveInv, NEW x \in Attempt, attempt[x].status # "NONE"
  PROVE  x = <<x[1], 1>>
  <1>1. PICK a \in Assignments, n \in 1..MaxAttempts : x = <<a, n>>
    BY DEF Attempt
  <1>2. \A m \in 2..MaxAttempts : attempt[<<a, m>>].status = "NONE"
    BY <1>1 DEF InductiveInv, OneSitting
  <1>3. n = 1 \/ n \in 2..MaxAttempts
    OBVIOUS
  <1> QED BY <1>1, <1>2, <1>3

(* An assignment whose row and attempts a step leaves alone stays as it is. *)
LEMMA OneSittingFrame ==
  ASSUME TypeOK, TypeOK', NEW a \in Assignments, OneSitting(a),
         assignment'[a] = assignment[a],
         \A n \in 1..MaxAttempts : attempt'[<<a, n>>] = attempt[<<a, n>>],
         a \in active => a \in active', now <= now'
  PROVE  OneSitting(a)'
  <1>1. Overdue(a) => Overdue(a)'
    BY DEF Overdue, TypeOK, AssignmentRow
  <1> QED BY <1>1 DEF OneSitting

LEMMA FinishedNotOpen == "NONE" \notin Finished /\ "IN_PROGRESS" \notin Finished
  BY DEF Finished

(* Start: the chosen assignment is available, so it has no attempt yet.    *)
LEMMA StartSitting ==
  ASSUME InductiveInv, TypeOK', NEW r \in Requests, StartCommit(r)
  PROVE  \A a \in Assignments : OneSitting(a)'
  <1>1. PICK a \in Assignments :
          /\ Startable(a, handler[r].test)
          /\ assignment[a].count < MaxAttempts
          /\ attempt' = [attempt EXCEPT ![<<a, assignment[a].count + 1>>] =
                            NewAttempt(Duration[handler[r].test])]
          /\ assignment' = [assignment EXCEPT ![a] = Started(@)]
    BY DEF StartCommit, StartableFor
  <1>2. /\ assignment[a].status = "AVAILABLE" /\ assignment[a].count = 0
        /\ attempt[<<a, 1>>].status = "NONE" /\ OneSitting(a)
    BY <1>1 DEF Startable, InductiveInv, OneSitting
  <1>3. attempt' = [attempt EXCEPT ![<<a, 1>>] = NewAttempt(Duration[handler[r].test])]
    BY <1>1, <1>2
  <1>4. NewAttempt(Duration[handler[r].test]).status = "IN_PROGRESS"
    BY DEF NewAttempt
  <1>5. /\ assignment'[a].status = "IN_PROGRESS" /\ assignment'[a].count = 1
        /\ attempt'[<<a, 1>>].status = "IN_PROGRESS"
        /\ \A n \in 2..MaxAttempts : attempt'[<<a, n>>] = attempt[<<a, n>>]
    <2>1. /\ assignment \in [Assignments -> AssignmentRow]
          /\ assignment[a] \in AssignmentRow
          /\ attempt \in [Attempt -> AttemptRow]
      BY DEF InductiveInv, TypeOK
    <2>2. assignment'[a] = Started(assignment[a])
      BY <1>1, <2>1
    <2> QED BY <1>2, <1>3, <1>4, <2>1, <2>2, StartedRow, Pairs
  <1>6. OneSitting(a)'
    BY <1>2, <1>5 DEF OneSitting, Finished
  <1>7. ASSUME NEW b \in Assignments, b # a PROVE OneSitting(b)'
    <2>1. assignment'[b] = assignment[b]
      BY <1>1, <1>7 DEF InductiveInv, TypeOK
    <2>2. \A n \in 1..MaxAttempts : attempt'[<<b, n>>] = attempt[<<b, n>>]
      BY <1>3, <1>7, Pairs DEF InductiveInv, TypeOK
    <2>3. active' = active /\ now' = now /\ now \in Nat
      BY DEF StartCommit, Go, InductiveInv, TypeOK
    <2> QED BY <2>1, <2>2, <2>3, OneSittingFrame DEF InductiveInv
  <1> QED BY <1>6, <1>7

(* An attempt ends and its assignment with it: the attempt is the          *)
(* assignment's only one.                                                  *)
LEMMA EndSitting ==
  ASSUME InductiveInv, TypeOK', NEW x \in Attempt, NEW row \in AttemptRow,
         NEW status \in {"SUBMITTED", "COMPLETED"},
         attempt[x].status # "NONE", row.status \in Finished,
         status = "SUBMITTED" => row.status = "NEEDS_REVIEW",
         attempt' = [attempt EXCEPT ![x] = row],
         assignment' = [assignment EXCEPT ![x[1]].status = status],
         active' = active, now' = now
  PROVE  \A a \in Assignments : OneSitting(a)'
  <1>1. PICK a \in Assignments : a = x[1]
    BY Pairs
  <1>2. x = <<a, 1>>
    BY <1>1, FirstOnly
  <1>3. /\ assignment \in [Assignments -> AssignmentRow]
        /\ attempt \in [Attempt -> AttemptRow]
        /\ now \in Nat
    BY DEF InductiveInv, TypeOK
  <1>4. attempt'[<<a, 1>>].status \in Finished
    BY <1>2, <1>3
  <1>5. /\ assignment'[a].status = status
        /\ assignment'[a].count = assignment[a].count
        /\ \A n \in 2..MaxAttempts : attempt'[<<a, n>>] = attempt[<<a, n>>]
    BY <1>1, <1>2, <1>3, Pairs DEF AssignmentRow
  <1>6. OneSitting(a)'
    <2>1. OneSitting(a) /\ attempt[<<a, 1>>].status # "NONE"
      BY <1>2 DEF InductiveInv
    <2>2. attempt'[<<a, 1>>].status = row.status
      BY <1>2, <1>3
    <2> QED BY <1>4, <1>5, <2>1, <2>2 DEF OneSitting, Finished
  <1>7. ASSUME NEW b \in Assignments, b # a PROVE OneSitting(b)'
    <2>1. assignment'[b] = assignment[b]
      BY <1>1, <1>3, <1>7
    <2>2. \A n \in 1..MaxAttempts : attempt'[<<b, n>>] = attempt[<<b, n>>]
      BY <1>2, <1>3, <1>7, Pairs
    <2> QED BY <1>3, <2>1, <2>2, OneSittingFrame DEF InductiveInv
  <1> QED BY <1>6, <1>7

LEMMA FinalizeSitting ==
  ASSUME InductiveInv, TypeOK', NEW r \in Requests, FinalizeCommit(r)
  PROVE  \A a \in Assignments : OneSitting(a)'
  <1>1. handler[r].x \in Attempt /\ handler[r].answers \in Answers
    BY HandlerShapes DEF FinalizeCommit, InductiveInv, TypeOK
  <1>2. PICK x \in Attempt : x = handler[r].x
    BY <1>1
  <1>3. PICK answers \in Answers : answers = handler[r].answers
    BY <1>1
  <1>4. PICK row \in AttemptRow : row = Closed(attempt[x], answers)
    BY ClosedRow DEF InductiveInv, TypeOK
  <1>5. PICK status \in {"SUBMITTED", "COMPLETED"} : status =
            IF Outcome(answers) = "NEEDS_REVIEW" THEN "SUBMITTED" ELSE "COMPLETED"
    OBVIOUS
  <1>6. /\ attempt' = [attempt EXCEPT ![x] = row]
        /\ assignment' = [assignment EXCEPT ![x[1]].status = status]
        /\ active' = active /\ now' = now
        /\ attempt[x].status # "NONE"
    BY <1>2, <1>3, <1>4, <1>5 DEF FinalizeCommit, Claimable, Go, InductiveInv, TypeOK
  <1>7. row.status = Outcome(answers) /\ row.status \in Finished
    BY <1>4, ClosedRow DEF InductiveInv, TypeOK
  <1>8. status = "SUBMITTED" => row.status = "NEEDS_REVIEW"
    BY <1>5, <1>7
  <1> QED BY <1>6, <1>7, <1>8, EndSitting

LEMMA ReviewSitting ==
  ASSUME InductiveInv, TypeOK', NEW x \in Attempt, ReviewPublishes(x)
  PROVE  \A a \in Assignments : OneSitting(a)'
  <1>1. attempt[x] \in AttemptRow
    BY DEF InductiveInv, TypeOK
  <1>2. PICK row \in AttemptRow : row = [attempt[x] EXCEPT !.status = "PUBLISHED"]
    BY <1>1 DEF AttemptRow, AttemptStatus, Finished
  <1>3. row.status = "PUBLISHED"
    BY <1>1, <1>2 DEF AttemptRow
  <1>4. /\ attempt' = [attempt EXCEPT ![x] = row]
        /\ assignment' = [assignment EXCEPT ![x[1]].status = "COMPLETED"]
        /\ active' = active /\ now' = now
        /\ attempt[x].status # "NONE"
    BY <1>2, FinishedNotOpen DEF ReviewPublishes, UnderReview, InductiveInv, TypeOK
  <1> QED BY <1>3, <1>4, EndSitting DEF Finished

(* A review that leaves others pending moves the attempt among the finished *)
(* states and its assignment not at all.                                    *)
LEMMA PendingSitting ==
  ASSUME InductiveInv, TypeOK', NEW x \in Attempt, ReviewLeavesPending(x)
  PROVE  \A a \in Assignments : OneSitting(a)'
  <1>0. /\ TypeOK /\ attempt \in [Attempt -> AttemptRow] /\ now \in Nat
        /\ attempt[x].status \in Finished
        /\ attempt' = [attempt EXCEPT ![x].status = "NEEDS_REVIEW"]
        /\ assignment' = assignment /\ active' = active /\ now' = now
    BY DEF InductiveInv, TypeOK, ReviewLeavesPending, UnderReview
  <1>1. PICK a \in Assignments : a = x[1]
    BY Pairs
  <1>2. x = <<a, 1>>
    BY <1>0, <1>1, FirstOnly, FinishedNotOpen
  <1>3. OneSitting(a)'
    <2>1. OneSitting(a)
      BY DEF InductiveInv
    <2>2. attempt'[<<a, 1>>].status = "NEEDS_REVIEW"
      BY <1>0, <1>2 DEF AttemptRow
    <2>3. \A n \in 2..MaxAttempts : attempt'[<<a, n>>] = attempt[<<a, n>>]
      BY <1>0, <1>2, Pairs
    <2> QED BY <1>0, <1>2, <2>1, <2>2, <2>3, FinishedNotOpen DEF OneSitting, Finished
  <1>4. ASSUME NEW b \in Assignments, b # a PROVE OneSitting(b)'
    <2>1. \A n \in 1..MaxAttempts : attempt'[<<b, n>>] = attempt[<<b, n>>]
      BY <1>0, <1>2, <1>4, Pairs
    <2> QED BY <1>0, <2>1, OneSittingFrame DEF InductiveInv
  <1> QED BY <1>3, <1>4

(* A step that changes one assignment row and no attempt.                  *)
LEMMA RowSitting ==
  ASSUME InductiveInv, TypeOK', NEW a \in Assignments,
         \A b \in Assignments : b # a => assignment'[b] = assignment[b],
         \A b \in Assignments : b # a /\ b \in active => b \in active',
         attempt' = attempt, now' = now,
         OneSitting(a)'
  PROVE  \A b \in Assignments : OneSitting(b)'
  <1>1. now \in Nat
    BY DEF InductiveInv, TypeOK
  <1>2. ASSUME NEW b \in Assignments, b # a PROVE OneSitting(b)'
    BY <1>1, <1>2, OneSittingFrame DEF InductiveInv
  <1> QED BY <1>2

LEMMA AssignSitting ==
  ASSUME InductiveInv, TypeOK', NEW m \in Admins, AssignCommit(m)
  PROVE  \A a \in Assignments : OneSitting(a)'
  <1>1. PICK a \in Assignments :
          /\ assignment[a].status = "NONE"
          /\ assignment' = [assignment EXCEPT ![a] =
                [status |-> "AVAILABLE", test |-> admin[m].test,
                 due |-> admin[m].due, count |-> 0]]
          /\ active' = active \cup {a}
    BY DEF AssignCommit
  <1>2. attempt' = attempt /\ now' = now
    BY DEF AssignCommit
  <1>3. assignment'[a].status = "AVAILABLE" /\ assignment'[a].count = 0
    BY <1>1 DEF InductiveInv, TypeOK
  <1>4. OneSitting(a)'
    <2>1. OneSitting(a) /\ attempt[<<a, 1>>].status = "NONE"
      BY <1>1 DEF InductiveInv, OneSitting
    <2> QED BY <1>1, <1>2, <1>3, <2>1 DEF OneSitting
  <1>5. \A b \in Assignments : b # a => assignment'[b] = assignment[b]
    BY <1>1 DEF InductiveInv, TypeOK
  <1> QED BY <1>1, <1>2, <1>4, <1>5, RowSitting

LEMMA RevokeSitting ==
  ASSUME InductiveInv, TypeOK', NEW m \in Admins, RevokeCommit(m)
  PROVE  \A a \in Assignments : OneSitting(a)'
  <1>1. admin[m].a \in Assignments
    BY AdminShapes DEF RevokeCommit, InductiveInv, TypeOK
  <1>2. PICK a \in Assignments : a = admin[m].a
    BY <1>1
  <1>3. /\ assignment' = IF Revocable(a)
                         THEN [assignment EXCEPT ![a].status = "CANCELLED"]
                         ELSE assignment
        /\ active' = active \ {a}
        /\ attempt' = attempt /\ now' = now
    BY <1>2 DEF RevokeCommit
  <1>4. OneSitting(a) /\ now \in Nat
    BY DEF InductiveInv, TypeOK
  <1>5. OneSitting(a)'
    <2>1. CASE Revocable(a)
      <3>1. /\ assignment'[a].status = "CANCELLED"
            /\ assignment'[a].count = assignment[a].count
        BY <1>3, <2>1 DEF InductiveInv, TypeOK, AssignmentRow
      <3> QED BY <1>3, <1>4, <2>1, <3>1 DEF OneSitting, Revocable
    <2>2. CASE ~Revocable(a)
      <3>1. Overdue(a)' <=> Overdue(a)
        BY <1>3, <2>2 DEF Overdue
      <3> QED BY <1>3, <1>4, <2>2, <3>1 DEF OneSitting, Revocable
    <2> QED BY <2>1, <2>2
  <1>6. \A b \in Assignments : b # a => assignment'[b] = assignment[b]
    BY <1>3 DEF InductiveInv, TypeOK
  <1> QED BY <1>3, <1>5, <1>6, RowSitting

(* The scheduler writes COMPLETED only over a finished attempt and EXPIRED *)
(* only after the due date, however stale what it read.                    *)
LEMMA CloseSitting ==
  ASSUME InductiveInv, TypeOK', NEW s \in Ticks, CloseDue(s)
  PROVE  \A a \in Assignments : OneSitting(a)'
  <1>1. tick[s].a \in Assignments /\ tick[s].op = "close"
    BY TickShapes DEF CloseDue, InductiveInv, TypeOK
  <1>2. PICK a \in Assignments : a = tick[s].a
    BY <1>1
  <1>3. /\ assignment' = [assignment EXCEPT ![a].status =
                            IF tick[s].submitted THEN "COMPLETED" ELSE "EXPIRED"]
        /\ active' = active /\ attempt' = attempt /\ now' = now
    BY <1>2 DEF CloseDue
  <1>4. /\ OneSitting(a) /\ Overdue(a) /\ (tick[s].submitted => Submitted(a))
    BY <1>1, <1>2 DEF InductiveInv, TickKnows
  <1>5. /\ assignment'[a].status =
              IF tick[s].submitted THEN "COMPLETED" ELSE "EXPIRED"
        /\ assignment'[a].count = assignment[a].count
        /\ assignment'[a].due = assignment[a].due
    BY <1>3 DEF InductiveInv, TypeOK, AssignmentRow
  <1>6. Submitted(a) => attempt[<<a, 1>>].status \in Finished
    BY FirstOnly DEF Submitted, Finished
  <1>7. Overdue(a)'
    BY <1>3, <1>4, <1>5 DEF Overdue
  <1>8. OneSitting(a)'
    BY <1>3, <1>4, <1>5, <1>6, <1>7 DEF OneSitting, Finished
  <1>9. \A b \in Assignments : b # a => assignment'[b] = assignment[b]
    BY <1>3 DEF InductiveInv, TypeOK
  <1> QED BY <1>3, <1>8, <1>9, RowSitting

(* The other steps leave the rows of assignments and attempts alone.       *)
RowsUnchanged ==
  /\ assignment' = assignment /\ attempt' = attempt /\ active' = active
  /\ now \in Nat => now' \in Nat /\ now' >= now

LEMMA UnchangedSitting ==
  ASSUME InductiveInv, TypeOK', RowsUnchanged
  PROVE  \A a \in Assignments : OneSitting(a)'
  BY OneSittingFrame DEF InductiveInv, RowsUnchanged, TypeOK

LEMMA StepKinds ==
  ASSUME TypeOK, [Next]_vars
  PROVE  \/ RowsUnchanged
         \/ \E r \in Requests : StartCommit(r) \/ FinalizeCommit(r)
         \/ \E m \in Admins : AssignCommit(m) \/ RevokeCommit(m)
         \/ \E s \in Ticks : CloseDue(s)
         \/ \E x \in Attempt : ReviewPublishes(x) \/ ReviewLeavesPending(x)
  <1>1. CASE UNCHANGED vars
    BY <1>1 DEF vars, RowsUnchanged
  <1>2. ASSUME NEW r \in Requests, RequestStep(r)
        PROVE  RowsUnchanged \/ StartCommit(r) \/ FinalizeCommit(r)
    BY <1>2 DEF RequestStep, StartRead, StartRefused, SaveRead, SaveCommit,
         SubmitRead, SeeTimedOut, FinalizeLost, Announce, Abandon, Go, rows,
         RowsUnchanged
  <1>3. ASSUME NEW m \in Admins, AdminStep(m)
        PROVE  RowsUnchanged \/ AssignCommit(m) \/ RevokeCommit(m)
    BY <1>3 DEF AdminStep, AssignRead, RevokeRead, rows, RowsUnchanged
  <1>4. ASSUME NEW s \in Ticks, TickStep(s)
        PROVE  RowsUnchanged \/ CloseDue(s)
    BY <1>4 DEF TickStep, ScanDue, LookForSubmitted, rows, RowsUnchanged
  <1>5. ASSUME NEW t \in Tests, Archive(t) PROVE RowsUnchanged
    BY <1>5 DEF Archive, rows, RowsUnchanged
  <1>6. CASE PassTime
    BY <1>6 DEF PassTime, rows, RowsUnchanged
  <1> QED BY <1>1, <1>2, <1>3, <1>4, <1>5, <1>6 DEF Next

LEMMA NextSitting ==
  ASSUME InductiveInv, TypeOK', [Next]_vars
  PROVE  \A a \in Assignments : OneSitting(a)'
  <1>1. TypeOK
    BY DEF InductiveInv
  <1> QED BY <1>1, StepKinds, UnchangedSitting, StartSitting, FinalizeSitting,
             AssignSitting, RevokeSitting, CloseSitting, ReviewSitting,
             PendingSitting

(* A finished attempt keeps its status and its scored answers in every     *)
(* step: finalization needs it open, a start creates one that did not      *)
(* exist.                                                                  *)
LEMMA FinishedStays ==
  ASSUME InductiveInv, [Next]_vars, NEW x \in Attempt,
         attempt[x].status \in Finished
  PROVE  /\ attempt'[x].status \in Finished
         /\ attempt'[x].scored = attempt[x].scored
  <1> USE FinishedNotOpen
  <1>0. TypeOK /\ attempt \in [Attempt -> AttemptRow] /\ x = <<x[1], 1>>
    BY FirstOnly DEF InductiveInv, TypeOK
  <1>1. CASE RowsUnchanged
    BY <1>1 DEF RowsUnchanged
  <1>2. ASSUME NEW r \in Requests, StartCommit(r) PROVE attempt'[x] = attempt[x]
    <2>1. PICK a \in Assignments :
            /\ assignment[a].status = "AVAILABLE"
            /\ attempt' = [attempt EXCEPT ![<<a, assignment[a].count + 1>>] =
                              NewAttempt(Duration[handler[r].test])]
      BY <1>2 DEF StartCommit, StartableFor, Startable
    <2>2. assignment[a].count = 0 /\ attempt[<<a, 1>>].status = "NONE"
      BY <2>1 DEF InductiveInv, OneSitting
    <2>3. x # <<a, 1>>
      BY <2>2
    <2> QED BY <1>0, <2>1, <2>2, <2>3
  <1>3. ASSUME NEW r \in Requests, FinalizeCommit(r) PROVE attempt'[x] = attempt[x]
    <2>1. handler[r].x # x
      BY <1>3 DEF FinalizeCommit, Claimable
    <2> QED BY <1>0, <1>3, <2>1 DEF FinalizeCommit
  <1>4. ASSUME NEW y \in Attempt, ReviewPublishes(y) \/ ReviewLeavesPending(y)
        PROVE  /\ attempt'[x].status \in Finished
               /\ attempt'[x].scored = attempt[x].scored
    <2>1. \/ attempt' = [attempt EXCEPT ![y].status = "PUBLISHED"]
          \/ attempt' = [attempt EXCEPT ![y].status = "NEEDS_REVIEW"]
      BY <1>4 DEF ReviewPublishes, ReviewLeavesPending
    <2>2. attempt[x] \in AttemptRow
      BY <1>0
    <2> QED BY <1>0, <2>1, <2>2 DEF Finished, AttemptRow
  <1>5. ASSUME NEW m \in Admins, AssignCommit(m) \/ RevokeCommit(m)
        PROVE  attempt' = attempt
    BY <1>5 DEF AssignCommit, RevokeCommit
  <1>6. ASSUME NEW s \in Ticks, CloseDue(s) PROVE attempt' = attempt
    BY <1>6 DEF CloseDue
  <1> QED BY <1>0, <1>1, <1>2, <1>3, <1>4, <1>5, <1>6, StepKinds

(* Due dates do not move and the clock does not go back.                   *)
LEMMA OverdueStays ==
  ASSUME InductiveInv, TypeOK', [Next]_vars, NEW a \in Assignments, Overdue(a)
  PROVE  Overdue(a)'
  <1>0. /\ TypeOK /\ assignment \in [Assignments -> AssignmentRow] /\ now \in Nat
        /\ assignment[a].status # "NONE" /\ assignment[a].due \in Nat
    <2>1. /\ TypeOK /\ assignment \in [Assignments -> AssignmentRow]
          /\ now \in Nat /\ OneSitting(a)
      BY DEF InductiveInv, TypeOK
    <2>2. assignment[a].due \in Nat \cup {Null} /\ assignment[a].due # Null
      BY <2>1 DEF Overdue, AssignmentRow
    <2> QED BY <2>1, <2>2 DEF OneSitting
  <1>1. CASE RowsUnchanged
    BY <1>0, <1>1 DEF RowsUnchanged, Overdue
  <1>2. ASSUME now' = now, assignment'[a].due = assignment[a].due
        PROVE  Overdue(a)'
    BY <1>2 DEF Overdue
  <1>3. ASSUME NEW r \in Requests, StartCommit(r) PROVE Overdue(a)'
    <2>1. PICK b \in Assignments : assignment' = [assignment EXCEPT ![b] = Started(@)]
      BY <1>3 DEF StartCommit, StartableFor
    <2>2. assignment'[a].due = assignment[a].due
      BY <1>0, <2>1, StartedRow
    <2> QED BY <1>2, <1>3, <2>2 DEF StartCommit, Go
  <1>4. ASSUME NEW b, NEW status,
               assignment' = [assignment EXCEPT ![b].status = status]
        PROVE  assignment'[a].due = assignment[a].due
    BY <1>0, <1>4 DEF AssignmentRow
  <1>5. ASSUME NEW r \in Requests, FinalizeCommit(r) PROVE Overdue(a)'
    BY <1>2, <1>4, <1>5 DEF FinalizeCommit, Go
  <1>6. ASSUME NEW y \in Attempt, ReviewPublishes(y) PROVE Overdue(a)'
    BY <1>2, <1>4, <1>6 DEF ReviewPublishes
  <1>10. ASSUME NEW y \in Attempt, ReviewLeavesPending(y) PROVE Overdue(a)'
    BY <1>2, <1>10 DEF ReviewLeavesPending
  <1>7. ASSUME NEW m \in Admins, AssignCommit(m) PROVE Overdue(a)'
    <2>1. assignment'[a] = assignment[a]
      BY <1>0, <1>7 DEF AssignCommit
    <2> QED BY <1>2, <1>7, <2>1 DEF AssignCommit
  <1>8. ASSUME NEW m \in Admins, RevokeCommit(m) PROVE Overdue(a)'
    <2>1. \/ assignment' = assignment
          \/ assignment' = [assignment EXCEPT ![admin[m].a].status = "CANCELLED"]
      BY <1>8 DEF RevokeCommit
    <2> QED BY <1>2, <1>4, <1>8, <2>1 DEF RevokeCommit
  <1>9. ASSUME NEW s \in Ticks, CloseDue(s) PROVE Overdue(a)'
    BY <1>2, <1>4, <1>9 DEF CloseDue
  <1> QED BY <1>0, <1>1, <1>3, <1>5, <1>6, <1>7, <1>8, <1>9, <1>10, StepKinds

LEMMA NextTickKnows ==
  ASSUME InductiveInv, TypeOK', [Next]_vars, NEW s \in Ticks
  PROVE  TickKnows(s)'
  <1>0. /\ TickKnows(s) /\ tick \in [Ticks -> TickState] /\ tick[s] \in TickState
    BY DEF InductiveInv, TypeOK
  <1>1. \A a \in Assignments : Overdue(a) => Overdue(a)'
    BY OverdueStays
  <1>2. \A a \in Assignments : Submitted(a) => Submitted(a)'
    BY FinishedStays DEF Submitted
  <1>3. CASE tick'[s] = tick[s]
    BY <1>0, <1>1, <1>2, <1>3, TickShapes DEF TickKnows
  <1>4. CASE ScanDue(s)
    <2>1. PICK due \in SUBSET Assignments :
            /\ due = {a \in Assignments : Closable(a) /\ Overdue(a)}
            /\ tick' = [tick EXCEPT ![s] = [op |-> "scan", due |-> due]]
      BY <1>4 DEF ScanDue
    <2>2. tick'[s] = [op |-> "scan", due |-> due]
      BY <1>0, <2>1
    <2> QED BY <1>1, <2>1, <2>2 DEF TickKnows
  <1>5. ASSUME NEW a \in Assignments, LookForSubmitted(s, a)
        PROVE  TickKnows(s)'
    <2>1. PICK due \in SUBSET Assignments, found \in BOOLEAN :
            /\ due = tick[s].due \ {a} /\ found = Submitted(a)
            /\ tick' = [tick EXCEPT ![s] = [op |-> "close", due |-> due,
                                            a |-> a, submitted |-> found]]
      BY <1>0, <1>5, TickShapes DEF LookForSubmitted, Submitted
    <2>2. tick'[s] = [op |-> "close", due |-> due, a |-> a, submitted |-> found]
      BY <1>0, <2>1
    <2>3. Overdue(a) /\ \A b \in due : Overdue(b)
      BY <1>0, <1>5, <2>1 DEF LookForSubmitted, TickKnows
    <2>4. Overdue(a)' /\ (\A b \in due : Overdue(b)') /\ (found => Submitted(a)')
      BY <1>1, <1>2, <2>1, <2>3
    <2>5. /\ tick'[s].op = "close" /\ tick'[s].a = a /\ tick'[s].due = due
          /\ tick'[s].submitted = found
      BY <2>2
    <2>6. Overdue(tick[s].a)'
      BY <2>4, <2>5 DEF Overdue
    <2>7. (\A b \in tick[s].due : Overdue(b))'
      BY <2>4, <2>5
    <2>8. (tick[s].submitted => Submitted(tick[s].a))'
      BY <2>4, <2>5 DEF Submitted
    <2> QED BY <2>5, <2>6, <2>7, <2>8 DEF TickKnows
  <1>6. CASE CloseDue(s)
    <2>1. PICK due \in SUBSET Assignments : due = tick[s].due
      BY <1>0, <1>6, TickShapes DEF CloseDue
    <2>2. tick'[s] = NoRequest \/ tick'[s] = [op |-> "scan", due |-> due]
      BY <1>0, <1>6, <2>1 DEF CloseDue
    <2>3. \A b \in due : Overdue(b)
      BY <1>0, <1>6, <2>1 DEF CloseDue, TickKnows
    <2>4. \A b \in due : Overdue(b)'
      BY <1>1, <2>3
    <2>5. CASE tick'[s] = NoRequest
      BY <2>5 DEF TickKnows, NoRequest
    <2>6. CASE tick'[s] = [op |-> "scan", due |-> due]
      <3>1. tick'[s].op = "scan" /\ tick'[s].due = due
        BY <2>6
      <3> QED BY <3>1, <2>4 DEF TickKnows
    <2> QED BY <2>2, <2>5, <2>6
  <1>7. tick'[s] = tick[s] \/ ScanDue(s) \/ CloseDue(s)
          \/ \E a \in Assignments : LookForSubmitted(s, a)
    <2>1. ASSUME NEW t \in Ticks, TickStep(t), t # s PROVE tick'[s] = tick[s]
      BY <1>0, <2>1 DEF TickStep, ScanDue, CloseDue, LookForSubmitted
    <2>2. ASSUME NEW r \in Requests, RequestStep(r) PROVE tick' = tick
      BY <2>2 DEF RequestStep, StartRead, StartCommit, StartRefused, SaveRead,
           SaveCommit, SubmitRead, SeeTimedOut, FinalizeCommit, FinalizeLost,
           Announce, Abandon, Go
    <2>3. ASSUME NEW m \in Admins, AdminStep(m) PROVE tick' = tick
      BY <2>3 DEF AdminStep, AssignRead, AssignCommit, RevokeRead, RevokeCommit
    <2> QED BY <2>1, <2>2, <2>3
            DEF Next, vars, TickStep, Archive, ReviewPublishes, ReviewLeavesPending,
                PassTime
  <1> QED BY <1>3, <1>4, <1>5, <1>6, <1>7

(* The steps that create no announcer and announce nothing.                *)
AnnouncersKept ==
  /\ announced' = announced
  /\ \A r \in Requests : handler'[r] = handler[r] \/ handler'[r].op # "announce"

LEMMA AnnounceFrame ==
  ASSUME InductiveInv, [Next]_vars, AnnouncersKept, NEW x \in Attempt
  PROVE  AnnounceOnce(x)'
  <1>1. AnnounceOnce(x)
    BY DEF InductiveInv
  <1>2. attempt[x].status \in Finished => attempt'[x].status \in Finished
    BY FinishedStays
  <1>3. \A r \in Requests : Announcer(r, x)' => Announcer(r, x)
    BY DEF AnnouncersKept, Announcer
  <1> QED BY <1>1, <1>2, <1>3 DEF AnnounceOnce, AnnouncersKept

LEMMA AnnounceKinds ==
  ASSUME TypeOK, [Next]_vars
  PROVE  AnnouncersKept \/ \E r \in Requests : FinalizeCommit(r) \/ Announce(r)
  <1>0. handler \in [Requests -> RequestState]
    BY DEF TypeOK
  <1>1. CASE UNCHANGED vars
    BY <1>1 DEF vars, AnnouncersKept
  <1>2. ASSUME NEW r \in Requests, NEW state, Go(r, state),
               state.op # "announce", announced' = announced
        PROVE  AnnouncersKept
    BY <1>0, <1>2 DEF Go, AnnouncersKept
  <1>3. ASSUME NEW r \in Requests, RequestStep(r)
        PROVE  AnnouncersKept \/ FinalizeCommit(r) \/ Announce(r)
    <2>1. ASSUME NEW t \in Tests, StartRead(r, t) PROVE AnnouncersKept
      BY <1>2, <2>1 DEF StartRead, rows
    <2>2. ASSUME NEW x \in Attempt, NEW q \in Questions, SaveRead(r, x, q)
          PROVE  AnnouncersKept
      <3>1. Go(r, [op |-> "save", x |-> x, q |-> q,
                   answer |-> [seq |-> edits + 1, at |-> now]])
        BY <2>2 DEF SaveRead
      <3>2. announced' = announced
        BY <2>2 DEF SaveRead, rows
      <3> HIDE <2>2
      <3> QED BY <1>2, <3>1, <3>2
    <2>3. ASSUME NEW x \in Attempt, SubmitRead(r, x) \/ SeeTimedOut(r, x)
          PROVE  AnnouncersKept
      BY <1>2, <2>3 DEF SubmitRead, SeeTimedOut, rows
    <2>4. CASE \/ StartCommit(r) \/ StartRefused(r) \/ SaveCommit(r)
               \/ FinalizeLost(r) \/ Abandon(r)
      <3>1. Go(r, NoRequest) /\ announced' = announced /\ NoRequest.op # "announce"
        BY <2>4 DEF StartCommit, StartRefused, SaveCommit, FinalizeLost,
                    Abandon, rows, NoRequest
      <3> QED BY <1>2, <3>1
    <2> QED BY <1>3, <2>1, <2>2, <2>3, <2>4 DEF RequestStep
  <1>4. ASSUME NEW m \in Admins, AdminStep(m) PROVE AnnouncersKept
    BY <1>4 DEF AdminStep, AssignRead, AssignCommit, RevokeRead, RevokeCommit,
                rows, AnnouncersKept
  <1>5. ASSUME NEW s \in Ticks, TickStep(s) PROVE AnnouncersKept
    BY <1>5 DEF TickStep, ScanDue, LookForSubmitted, CloseDue, rows, AnnouncersKept
  <1>6. ASSUME NEW x \in Attempt, ReviewPublishes(x) \/ ReviewLeavesPending(x)
        PROVE  AnnouncersKept
    BY <1>6 DEF ReviewPublishes, ReviewLeavesPending, AnnouncersKept
  <1>7. ASSUME PassTime \/ \E t \in Tests : Archive(t) PROVE AnnouncersKept
    BY <1>7 DEF PassTime, Archive, rows, AnnouncersKept
  <1> QED BY <1>1, <1>3, <1>4, <1>5, <1>6, <1>7 DEF Next

(* The claim of a finalization makes its handler the only announcer.       *)
LEMMA ClaimAnnounces ==
  ASSUME InductiveInv, [Next]_vars, NEW r \in Requests, FinalizeCommit(r),
         NEW x \in Attempt
  PROVE  AnnounceOnce(x)'
  <1>0. /\ TypeOK /\ AnnounceOnce(x) /\ handler \in [Requests -> RequestState]
        /\ attempt \in [Attempt -> AttemptRow] /\ announced' = announced
        /\ handler[r].op = "finalize"
    BY DEF InductiveInv, TypeOK, FinalizeCommit
  <1>1. PICK y \in Attempt, answers \in Answers :
          /\ y = handler[r].x /\ answers = handler[r].answers
    BY <1>0, HandlerShapes
  <1>2. /\ attempt[y].status = "IN_PROGRESS"
        /\ attempt' = [attempt EXCEPT ![y] = Closed(@, answers)]
        /\ handler' = [handler EXCEPT ![r] = [op |-> "announce", x |-> y]]
    BY <1>1 DEF FinalizeCommit, Claimable, Go
  <1>3. attempt'[y].status \in Finished
    BY <1>0, <1>2, ClosedRow
  <1>4. attempt[x].status \in Finished => attempt'[x].status \in Finished
    BY FinishedStays
  <1>5. CASE x = y
    <2>1. announced[x] = 0 /\ \A q \in Requests : ~Announcer(q, x)
      BY <1>0, <1>2, <1>5, FinishedNotOpen DEF AnnounceOnce
    <2>2. \A q \in Requests : Announcer(q, x)' => q = r
      BY <1>0, <1>2, <2>1 DEF Announcer
    <2> QED BY <1>0, <1>3, <1>5, <2>1, <2>2 DEF AnnounceOnce
  <1>6. CASE x # y
    <2>1. \A q \in Requests : Announcer(q, x)' => Announcer(q, x)
      BY <1>0, <1>2, <1>6 DEF Announcer
    <2> QED BY <1>0, <1>4, <2>1 DEF AnnounceOnce
  <1> QED BY <1>5, <1>6

(* The announcement itself is the last of its attempt.                     *)
LEMMA AnnounceEnds ==
  ASSUME InductiveInv, [Next]_vars, NEW r \in Requests, Announce(r),
         NEW x \in Attempt
  PROVE  AnnounceOnce(x)'
  <1>0. /\ TypeOK /\ AnnounceOnce(x) /\ handler \in [Requests -> RequestState]
        /\ announced \in [Attempt -> Nat] /\ handler[r].op = "announce"
        /\ handler' = [handler EXCEPT ![r] = NoRequest]
    BY DEF InductiveInv, TypeOK, Announce, Go
  <1>1. PICK y \in Attempt : y = handler[r].x
    BY <1>0, HandlerShapes
  <1>2. announced' = [announced EXCEPT ![y] = @ + 1]
    BY <1>1 DEF Announce
  <1>3. attempt[x].status \in Finished => attempt'[x].status \in Finished
    BY FinishedStays
  <1>4. ~Announcer(r, x)'
    BY <1>0 DEF Announcer, NoRequest
  <1>5. \A q \in Requests : Announcer(q, x)' => Announcer(q, x) /\ q # r
    BY <1>0, <1>4 DEF Announcer
  <1>6. CASE x = y
    <2>1. Announcer(r, x)
      BY <1>0, <1>1, <1>6 DEF Announcer
    <2>2. \A q \in Requests : ~Announcer(q, x)'
      BY <1>0, <1>5, <2>1 DEF AnnounceOnce
    <2>3. announced'[x] = 1 /\ attempt'[x].status \in Finished
      BY <1>0, <1>2, <1>3, <1>6, <2>1 DEF AnnounceOnce
    <2> QED BY <2>2, <2>3 DEF AnnounceOnce
  <1>7. CASE x # y
    <2>1. announced'[x] = announced[x]
      BY <1>0, <1>2, <1>7
    <2> QED BY <1>0, <1>3, <1>5, <2>1 DEF AnnounceOnce
  <1> QED BY <1>6, <1>7

LEMMA NextAnnounceOnce ==
  ASSUME InductiveInv, [Next]_vars, NEW x \in Attempt
  PROVE  AnnounceOnce(x)'
  <1>1. TypeOK
    BY DEF InductiveInv
  <1> QED BY <1>1, AnnounceKinds, AnnounceFrame, ClaimAnnounces, AnnounceEnds

-----------------------------------------------------------------------------
LEMMA StartAttempt ==
  ASSUME InductiveInv, NEW r \in Requests, StartCommit(r)
  PROVE  \E y \in Attempt :
            attempt' = [attempt EXCEPT ![y] = NewAttempt(Duration[handler[r].test])]
  <1>1. PICK a \in Assignments :
          /\ assignment[a].status = "AVAILABLE"
          /\ attempt' = [attempt EXCEPT ![<<a, assignment[a].count + 1>>] =
                            NewAttempt(Duration[handler[r].test])]
    BY DEF StartCommit, StartableFor, Startable
  <1>2. assignment[a].count = 0
    BY <1>1 DEF InductiveInv, OneSitting
  <1>3. assignment[a].count + 1 = 1 /\ <<a, 1>> \in Attempt
    BY <1>2, Pairs
  <1> QED BY <1>1, <1>3

(* Time limits.  An attempt that exists keeps the one it was given.        *)
LEMMA ExpiresStays ==
  ASSUME InductiveInv, [Next]_vars, NEW x \in Attempt, attempt[x].status # "NONE"
  PROVE  /\ attempt'[x].status # "NONE"
         /\ attempt'[x].expires = attempt[x].expires
  <1>0. /\ TypeOK /\ attempt \in [Attempt -> AttemptRow] /\ attempt[x] \in AttemptRow
        /\ x = <<x[1], 1>>
    BY FirstOnly DEF InductiveInv, TypeOK
  <1>1. CASE attempt' = attempt
    BY <1>1
  <1>2. ASSUME NEW r \in Requests, StartCommit(r) PROVE attempt'[x] = attempt[x]
    <2>1. PICK a \in Assignments :
            /\ assignment[a].status = "AVAILABLE"
            /\ attempt' = [attempt EXCEPT ![<<a, assignment[a].count + 1>>] =
                              NewAttempt(Duration[handler[r].test])]
      BY <1>2 DEF StartCommit, StartableFor, Startable
    <2>2. assignment[a].count = 0 /\ attempt[<<a, 1>>].status = "NONE"
      BY <2>1 DEF InductiveInv, OneSitting
    <2>3. x # <<a, 1>>
      BY <2>2
    <2> QED BY <1>0, <2>1, <2>2, <2>3
  <1>3. ASSUME NEW r \in Requests, FinalizeCommit(r)
        PROVE  /\ attempt'[x].status # "NONE"
               /\ attempt'[x].expires = attempt[x].expires
    <2>1. PICK y \in Attempt, answers \in Answers :
            y = handler[r].x /\ answers = handler[r].answers
      BY <1>3, HandlerShapes DEF FinalizeCommit, InductiveInv, TypeOK
    <2>2. attempt' = [attempt EXCEPT ![y] = Closed(@, answers)]
      BY <1>3, <2>1 DEF FinalizeCommit
    <2>3. /\ Closed(attempt[x], answers).status # "NONE"
          /\ Closed(attempt[x], answers).expires = attempt[x].expires
      BY <1>0, ClosedRow, FinishedNotOpen
    <2> QED BY <1>0, <2>2, <2>3
  <1>4. ASSUME NEW y \in Attempt, ReviewPublishes(y) \/ ReviewLeavesPending(y)
        PROVE  /\ attempt'[x].status # "NONE"
               /\ attempt'[x].expires = attempt[x].expires
    <2>1. \/ attempt' = [attempt EXCEPT ![y].status = "PUBLISHED"]
          \/ attempt' = [attempt EXCEPT ![y].status = "NEEDS_REVIEW"]
      BY <1>4 DEF ReviewPublishes, ReviewLeavesPending
    <2> QED BY <1>0, <2>1 DEF AttemptRow
  <1> QED BY <1>0, <1>1, <1>2, <1>3, <1>4, StepKinds
          DEF RowsUnchanged, AssignCommit, RevokeCommit, CloseDue

LEMMA InTimeStays ==
  ASSUME InductiveInv, [Next]_vars, NEW x \in Attempt, attempt[x].status # "NONE",
         NEW answer, InTime(x, answer)
  PROVE  attempt'[x].expires # Null /\ answer.seq # 0 =>
            answer.at <= attempt'[x].expires + Grace
  BY ExpiresStays DEF InTime

(* What a handler holds after a step: what it held before, or answers that *)
(* it just read, in time, from an attempt that exists.                     *)
Fresh(r) ==
    \/ handler'[r] = handler[r]
    \/ handler'[r].op \notin {"save", "finalize"}
    \/ \E x \in Attempt :
          /\ attempt[x].status # "NONE"
          /\ \/ \E q \in Questions, answer \in [seq : Nat, at : Nat] :
                   /\ handler'[r] = [op |-> "save", x |-> x, q |-> q, answer |-> answer]
                   /\ InTime(x, answer)
             \/ handler'[r] = [op |-> "finalize", x |-> x, answers |-> response[x]]

LEMMA HandlersFresh ==
  ASSUME InductiveInv, [Next]_vars, NEW r \in Requests
  PROVE  Fresh(r)
  <1>0. TypeOK /\ handler \in [Requests -> RequestState]
    BY DEF InductiveInv, TypeOK
  <1>1. CASE handler' = handler
    BY <1>1 DEF Fresh
  <1>2. ASSUME NEW o \in Requests, NEW state, Go(o, state),
               state.op \notin {"save", "finalize"}
        PROVE  Fresh(r)
    BY <1>0, <1>2 DEF Go, Fresh
  <1>3. ASSUME NEW o \in Requests, RequestStep(o)
        PROVE  Fresh(r)
    <2>1. ASSUME NEW t \in Tests, StartRead(o, t) PROVE Fresh(r)
      BY <1>2, <2>1 DEF StartRead
    <2>2. ASSUME NEW x \in Attempt, NEW q \in Questions, SaveRead(o, x, q)
          PROVE  Fresh(r)
      <3>1. /\ attempt[x].status # "NONE" /\ now \in Nat /\ edits \in Nat
            /\ attempt[x].expires # Null => now <= attempt[x].expires + Grace
        <4>1. now \in Nat /\ edits \in Nat /\ attempt[x] \in AttemptRow
          BY <1>0 DEF TypeOK
        <4>2. attempt[x].expires # Null => attempt[x].expires \in Nat
          BY <4>1 DEF AttemptRow
        <4> QED BY <2>2, <4>1, <4>2 DEF SaveRead, Open, TimeIsOver
      <3>2. PICK answer \in [seq : Nat, at : Nat] : answer = [seq |-> edits + 1, at |-> now]
        <4>1. PICK n \in Nat : n = edits + 1
          BY <3>1
        <4>2. [seq |-> n, at |-> now] \in [seq : Nat, at : Nat]
          BY <3>1
        <4> QED BY <4>1, <4>2
      <3>3. InTime(x, answer)
        BY <3>1, <3>2 DEF InTime
      <3>4. Go(o, [op |-> "save", x |-> x, q |-> q, answer |-> answer])
        BY <2>2, <3>2 DEF SaveRead
      <3>5. handler' = [handler EXCEPT ![o] =
                           [op |-> "save", x |-> x, q |-> q, answer |-> answer]]
        BY <3>4 DEF Go
      <3>6. r # o => handler'[r] = handler[r]
        BY <1>0, <3>5
      <3>7. r = o => handler'[r] = [op |-> "save", x |-> x, q |-> q, answer |-> answer]
        BY <1>0, <3>5
      <3> QED BY <3>1, <3>3, <3>6, <3>7 DEF Fresh
    <2>3. ASSUME NEW x \in Attempt, SubmitRead(o, x) \/ SeeTimedOut(o, x)
          PROVE  Fresh(r)
      <3>1. /\ attempt[x].status # "NONE"
            /\ handler' = [handler EXCEPT ![o] =
                              [op |-> "finalize", x |-> x, answers |-> response[x]]]
        BY <2>3 DEF SubmitRead, SeeTimedOut, Go, Open
      <3> QED BY <1>0, <3>1 DEF Fresh
    <2>4. CASE \/ StartCommit(o) \/ StartRefused(o) \/ SaveCommit(o)
               \/ FinalizeLost(o) \/ Abandon(o) \/ Announce(o)
      <3>1. Go(o, NoRequest) /\ NoRequest.op \notin {"save", "finalize"}
        BY <2>4 DEF StartCommit, StartRefused, SaveCommit, FinalizeLost,
                    Abandon, Announce, NoRequest
      <3> QED BY <1>2, <3>1
    <2>5. CASE FinalizeCommit(o)
      <3>1. Go(o, [op |-> "announce", x |-> handler[o].x])
        BY <2>5 DEF FinalizeCommit
      <3> QED BY <1>2, <3>1
    <2> QED BY <1>3, <2>1, <2>2, <2>3, <2>4, <2>5 DEF RequestStep
  <1>4. ASSUME \/ UNCHANGED vars \/ PassTime
               \/ \E m \in Admins : AdminStep(m)
               \/ \E s \in Ticks : TickStep(s)
               \/ \E t \in Tests : Archive(t)
               \/ \E x \in Attempt : ReviewPublishes(x) \/ ReviewLeavesPending(x)
        PROVE  handler' = handler
    BY <1>4 DEF vars, PassTime, AdminStep, TickStep, Archive, ReviewPublishes,
                ReviewLeavesPending, AssignRead, AssignCommit, RevokeRead, RevokeCommit,
                ScanDue, LookForSubmitted, CloseDue
  <1> QED BY <1>1, <1>3, <1>4 DEF Next

LEMMA NextHeldInTime ==
  ASSUME InductiveInv, [Next]_vars, NEW r \in Requests
  PROVE  HeldInTime(r)'
  <1>0. /\ handler[r] \in RequestState /\ HeldInTime(r)
        /\ \A x \in Attempt : StoredInTime(x)
    BY DEF InductiveInv, TypeOK
  <1>1. CASE handler'[r] = handler[r]
    <2>1. ASSUME handler[r].op = "save"
          PROVE  /\ attempt'[handler[r].x].status # "NONE"
                 /\ attempt'[handler[r].x].expires = attempt[handler[r].x].expires
      BY <1>0, <2>1, HandlerShapes, ExpiresStays DEF HeldInTime
    <2>2. ASSUME handler[r].op = "finalize"
          PROVE  /\ attempt'[handler[r].x].status # "NONE"
                 /\ attempt'[handler[r].x].expires = attempt[handler[r].x].expires
      BY <1>0, <2>2, HandlerShapes, ExpiresStays DEF HeldInTime
    <2> QED BY <1>0, <1>1, <2>1, <2>2 DEF HeldInTime, InTime
  <1>2. CASE handler'[r].op \notin {"save", "finalize"}
    BY <1>2 DEF HeldInTime
  <1>3. ASSUME NEW x \in Attempt, attempt[x].status # "NONE",
               NEW q \in Questions, NEW answer \in [seq : Nat, at : Nat],
               handler'[r] = [op |-> "save", x |-> x, q |-> q, answer |-> answer],
               InTime(x, answer)
        PROVE  HeldInTime(r)'
    <2>1. /\ handler'[r].op = "save" /\ handler'[r].x = x /\ handler'[r].answer = answer
          /\ handler'[r].op # "finalize"
      BY <1>3
    <2> QED BY <1>3, <2>1, ExpiresStays DEF HeldInTime, InTime
  <1>4. ASSUME NEW x \in Attempt, attempt[x].status # "NONE",
               handler'[r] = [op |-> "finalize", x |-> x, answers |-> response[x]]
        PROVE  HeldInTime(r)'
    <2>1. /\ handler'[r].op = "finalize" /\ handler'[r].x = x
          /\ handler'[r].answers = response[x] /\ handler'[r].op # "save"
      BY <1>4
    <2>2. \A q \in Questions : InTime(x, response[x][q])
      BY <1>0 DEF StoredInTime
    <2> QED BY <1>4, <2>1, <2>2, ExpiresStays DEF HeldInTime, InTime
  <1> QED BY <1>1, <1>2, <1>3, <1>4, HandlersFresh DEF Fresh

(* A response changes only by a save under way.                            *)
LEMMA ResponseKinds ==
  ASSUME [Next]_vars
  PROVE  response' = response \/ \E r \in Requests : SaveCommit(r)
  <1>1. ASSUME NEW r \in Requests, RequestStep(r)
        PROVE  response' = response \/ SaveCommit(r)
    BY <1>1 DEF RequestStep, StartRead, StartCommit, StartRefused, SaveRead, SubmitRead,
                SeeTimedOut, FinalizeCommit, FinalizeLost, Announce, Abandon, rows
  <1>2. ASSUME \/ UNCHANGED vars \/ PassTime
               \/ \E m \in Admins : AdminStep(m)
               \/ \E s \in Ticks : TickStep(s)
               \/ \E t \in Tests : Archive(t)
               \/ \E x \in Attempt : ReviewPublishes(x) \/ ReviewLeavesPending(x)
        PROVE  response' = response
    BY <1>2 DEF vars, PassTime, AdminStep, TickStep, Archive, ReviewPublishes,
                ReviewLeavesPending, AssignRead, AssignCommit, RevokeRead, RevokeCommit,
                ScanDue, LookForSubmitted, CloseDue, rows
  <1> QED BY <1>1, <1>2 DEF Next

LEMMA NextStoredInTime ==
  ASSUME InductiveInv, [Next]_vars, NEW x \in Attempt
  PROVE  StoredInTime(x)'
  <1>0. /\ TypeOK /\ StoredInTime(x) /\ response \in [Attempt -> Answers]
        /\ attempt[x].status # "NONE" => /\ attempt'[x].status # "NONE"
                                         /\ attempt'[x].expires = attempt[x].expires
    BY ExpiresStays DEF InductiveInv, TypeOK
  <1>1. CASE response'[x] = response[x]
    <2>1. CASE attempt[x].status # "NONE"
      BY <1>0, <1>1, <2>1 DEF StoredInTime, InTime
    <2>2. CASE attempt[x].status = "NONE"
      BY <1>0, <1>1, <2>2 DEF StoredInTime, InTime
    <2> QED BY <2>1, <2>2
  <1>2. ASSUME NEW r \in Requests, SaveCommit(r), handler[r].x = x
        PROVE  StoredInTime(x)'
    <2>1. PICK q \in Questions, answer \in Answer :
            q = handler[r].q /\ answer = handler[r].answer
      BY <1>2, HandlerShapes DEF SaveCommit, InductiveInv, TypeOK
    <2>2. attempt[x].status # "NONE" /\ InTime(x, answer)
      BY <1>2, <2>1 DEF SaveCommit, InductiveInv, HeldInTime
    <2>3. response' = [response EXCEPT ![x][q] = answer]
      BY <1>2, <2>1 DEF SaveCommit
    <2>4. /\ response'[x][q] = answer
          /\ \A p \in Questions : p # q => response'[x][p] = response[x][p]
      BY <1>0, <2>3 DEF Answers
    <2> QED BY <1>0, <2>2, <2>4 DEF StoredInTime, InTime
  <1>3. ASSUME NEW r \in Requests, SaveCommit(r), handler[r].x # x
        PROVE  response'[x] = response[x]
    BY <1>0, <1>3 DEF SaveCommit
  <1> QED BY <1>1, <1>2, <1>3, ResponseKinds

(* An attempt finishes with the answers its handler read.                  *)
LEMMA FinishesWith ==
  ASSUME InductiveInv, [Next]_vars, NEW x \in Attempt,
         attempt[x].status \notin Finished, attempt'[x].status \in Finished
  PROVE  \E r \in Requests : /\ handler[r].op = "finalize" /\ handler[r].x = x
                             /\ attempt'[x].scored = handler[r].answers
  <1>0. /\ TypeOK /\ attempt \in [Attempt -> AttemptRow] /\ attempt[x] \in AttemptRow
        /\ attempt'[x] # attempt[x]
    BY DEF InductiveInv, TypeOK
  <1>1. ASSUME NEW r \in Requests, StartCommit(r) PROVE FALSE
    <2>1. PICK y \in Attempt :
            attempt' = [attempt EXCEPT ![y] = NewAttempt(Duration[handler[r].test])]
      BY <1>1, StartAttempt
    <2> QED BY <1>0, <2>1, FinishedNotOpen DEF NewAttempt
  <1>2. ASSUME NEW y \in Attempt, ReviewPublishes(y) \/ ReviewLeavesPending(y) PROVE FALSE
    <2>1. /\ attempt[y].status \in Finished
          /\ \E status \in Finished : attempt' = [attempt EXCEPT ![y].status = status]
      BY <1>2 DEF ReviewPublishes, ReviewLeavesPending, UnderReview, Finished
    <2>2. x # y
      BY <2>1
    <2> QED BY <1>0, <2>1, <2>2
  <1>3. ASSUME NEW r \in Requests, FinalizeCommit(r)
        PROVE  /\ handler[r].op = "finalize" /\ handler[r].x = x
               /\ attempt'[x].scored = handler[r].answers
    <2>1. PICK y \in Attempt, answers \in Answers :
            /\ handler[r].op = "finalize"
            /\ y = handler[r].x /\ answers = handler[r].answers
      BY <1>3, HandlerShapes DEF FinalizeCommit, InductiveInv, TypeOK
    <2>2. attempt' = [attempt EXCEPT ![y] = Closed(@, answers)]
      BY <1>3, <2>1 DEF FinalizeCommit
    <2>3. x = y
      BY <1>0, <2>2
    <2>4. attempt'[x].scored = answers
      BY <1>0, <2>2, <2>3, ClosedRow
    <2> QED BY <2>1, <2>3, <2>4
  <1> QED BY <1>0, <1>1, <1>2, <1>3, StepKinds
          DEF RowsUnchanged, AssignCommit, RevokeCommit, CloseDue

LEMMA NextNoLateAnswer ==
  ASSUME InductiveInv, [Next]_vars
  PROVE  NoLateAnswerScored'
  <1> SUFFICES ASSUME NEW x \in Attempt, attempt'[x].status \in Finished,
                      NEW q \in Questions,
                      attempt'[x].scored[q].seq # 0, attempt'[x].expires # Null
               PROVE  attempt'[x].scored[q].at <= attempt'[x].expires + Grace
    BY DEF NoLateAnswerScored
  <1>1. CASE attempt[x].status \in Finished
    BY <1>1, FinishedStays, ExpiresStays, FinishedNotOpen DEF InductiveInv, NoLateAnswerScored
  <1>2. CASE attempt[x].status \notin Finished
    <2>1. PICK r \in Requests : /\ handler[r].op = "finalize" /\ handler[r].x = x
                                /\ attempt'[x].scored = handler[r].answers
      BY <1>2, FinishesWith
    <2>2. attempt[x].status # "NONE" /\ InTime(x, handler[r].answers[q])
      BY <2>1 DEF InductiveInv, HeldInTime
    <2> QED BY <2>1, <2>2, ExpiresStays DEF InTime
  <1> QED BY <1>1, <1>2

-----------------------------------------------------------------------------
LEMMA InitInductive == Init => InductiveInv
  <1> SUFFICES ASSUME Init PROVE InductiveInv
    OBVIOUS
  <1>1. TypeOK
    BY InitTypeOK
  <1>2. ASSUME NEW a \in Assignments PROVE OneSitting(a)
    <2>1. /\ assignment[a] = NoAssignment
          /\ \A n \in 1..MaxAttempts : attempt[<<a, n>>] = NoAttempt
      BY DEF Init, Attempt
    <2>2. attempt[<<a, 1>>].status = "NONE"
      BY <2>1 DEF NoAttempt
    <2>3. \A n \in 2..MaxAttempts : attempt[<<a, n>>].status = "NONE"
      BY <2>1 DEF NoAttempt
    <2> QED BY <2>1, <2>2, <2>3 DEF OneSitting, NoAssignment
  <1>3. ASSUME NEW s \in Ticks PROVE TickKnows(s)
    BY DEF Init, TickKnows, NoRequest
  <1>4. ASSUME NEW x \in Attempt PROVE AnnounceOnce(x)
    BY DEF Init, AnnounceOnce, Announcer, NoRequest
  <1>5. ASSUME NEW x \in Attempt PROVE StoredInTime(x)
    BY DEF Init, StoredInTime, InTime, NoAnswer
  <1>6. ASSUME NEW r \in Requests PROVE HeldInTime(r)
    BY DEF Init, HeldInTime, NoRequest
  <1>7. NoLateAnswerScored
    BY FinishedNotOpen DEF Init, NoLateAnswerScored, NoAttempt
  <1> QED BY <1>1, <1>2, <1>3, <1>4, <1>5, <1>6, <1>7 DEF InductiveInv

(* The inductive invariant holds in every reachable state. *)
THEOREM InductiveInvariant == Spec => []InductiveInv
  <1>1. InductiveInv /\ TypeOK' /\ [Next]_vars => InductiveInv'
    BY NextSitting, NextTickKnows, NextAnnounceOnce, NextStoredInTime, NextHeldInTime,
       NextNoLateAnswer DEF InductiveInv
  <1> QED BY <1>1, InitInductive, TypeCorrect, PTL DEF Spec

LEMMA SafetyFromInductive ==
  ASSUME InductiveInv
  PROVE  /\ CountMatchesAttempts /\ AssignmentReflectsAttempt
         /\ OpenAttemptVisible /\ AnnouncedAtMostOnce
  <1>0. /\ \A a \in Assignments : OneSitting(a)
        /\ \A x \in Attempt : AnnounceOnce(x) /\ x = <<x[1], x[2]>>
        /\ \A x \in Attempt : x[1] \in Assignments /\ x[2] \in 1..MaxAttempts
    BY DEF InductiveInv, Attempt
  <1>1. ASSUME NEW a \in Assignments, NEW n \in 1..MaxAttempts, n # 1
        PROVE  attempt[<<a, n>>].status = "NONE"
    <2>1. n \in 2..MaxAttempts
      BY <1>1
    <2> QED BY <1>0, <2>1 DEF OneSitting
  <1>2. CountMatchesAttempts
    <2> SUFFICES ASSUME NEW a \in Assignments
                 PROVE  /\ assignment[a].count <= MaxAttempts
                        /\ \A n \in 1..MaxAttempts :
                              attempt[<<a, n>>].status # "NONE"
                                <=> n <= assignment[a].count
      BY DEF CountMatchesAttempts
    <2>1. assignment[a].count = IF attempt[<<a, 1>>].status = "NONE" THEN 0 ELSE 1
      BY <1>0 DEF OneSitting
    <2> QED BY <1>1, <2>1
  <1>3. AssignmentReflectsAttempt
    <2> DEFINE has(a, S) == \E n \in 1..MaxAttempts : attempt[<<a, n>>].status \in S
    <2>1. ASSUME NEW a \in Assignments, NEW S, "NONE" \notin S
          PROVE  has(a, S) <=> attempt[<<a, 1>>].status \in S
      <3>1. 1 \in 1..MaxAttempts
        OBVIOUS
      <3>2. ASSUME NEW n \in 1..MaxAttempts, attempt[<<a, n>>].status \in S
            PROVE  n = 1
        BY <1>1, <2>1, <3>2
      <3> QED BY <3>1, <3>2
    <2>2. ASSUME NEW a \in Assignments
          PROVE  /\ assignment[a].status = "IN_PROGRESS" => has(a, {"IN_PROGRESS"})
                 /\ assignment[a].status = "SUBMITTED" => has(a, {"NEEDS_REVIEW"})
                 /\ assignment[a].status = "COMPLETED" => has(a, Finished)
                 /\ assignment[a].status \in {"NONE", "AVAILABLE", "CANCELLED"}
                      => ~has(a, Finished \cup {"IN_PROGRESS"})
      <3>1. OneSitting(a)
        BY <1>0
      <3> HIDE DEF has
      <3> QED BY <2>1, <3>1 DEF OneSitting, Finished
    <2> QED BY <2>2 DEF AssignmentReflectsAttempt
  <1>4. OpenAttemptVisible
    <2> SUFFICES ASSUME NEW x \in Attempt, Open(x)
                 PROVE  \/ assignment[x[1]].status = "IN_PROGRESS"
                        \/ assignment[x[1]].status = "EXPIRED" /\ Overdue(x[1])
      BY DEF OpenAttemptVisible
    <2>1. x = <<x[1], 1>> /\ attempt[<<x[1], 1>>].status = "IN_PROGRESS"
      BY <1>0, <1>1 DEF Open
    <2> QED BY <1>0, <2>1 DEF OneSitting
  <1>5. AnnouncedAtMostOnce
    BY <1>0 DEF AnnouncedAtMostOnce, AnnounceOnce
  <1> QED BY <1>2, <1>3, <1>4, <1>5

(* attemptCount counts the attempts, within maxAttempts. *)
THEOREM CountsCorrect == Spec => []CountMatchesAttempts
  BY SafetyFromInductive, InductiveInvariant, PTL

(* The status of an assignment agrees with its attempts. *)
THEOREM AssignmentsAgree == Spec => []AssignmentReflectsAttempt
  BY SafetyFromInductive, InductiveInvariant, PTL

(* Started work stays visible, whatever managers and ticks do meanwhile. *)
THEOREM StartedWorkVisible == Spec => []OpenAttemptVisible
  BY SafetyFromInductive, InductiveInvariant, PTL

(* At most one result notification is sent per attempt. *)
THEOREM NotifiedOnce == Spec => []AnnouncedAtMostOnce
  BY SafetyFromInductive, InductiveInvariant, PTL

(* No answer that came after the time limit and its grace period is scored, *)
(* whichever request finalizes the attempt, and when.                       *)
THEOREM LateAnswersLost == Spec => []NoLateAnswerScored
  <1>1. InductiveInv => NoLateAnswerScored
    BY DEF InductiveInv
  <1> QED BY <1>1, InductiveInvariant, PTL

(* An attempt is scored once, for good. *)
THEOREM ScoresFinal == Spec => ScoredExactlyOnce
  <1>1. InductiveInv /\ [Next]_vars =>
          [\A x \in Attempt : attempt[x].status \in Finished =>
              /\ attempt'[x].status \in Finished
              /\ attempt'[x].scored = attempt[x].scored]_vars
    BY FinishedStays
  <1> QED BY <1>1, InductiveInvariant, PTL DEF Spec, ScoredExactlyOnce

(* A revoked assignment is never started. *)
THEOREM RevocationHolds == Spec => RevokedNeverStarts
  <1>1. ASSUME InductiveInv, TypeOK', [Next]_vars,
               NEW a \in Assignments, a \notin active
        PROVE  assignment'[a].count <= assignment[a].count
    <2>0. /\ TypeOK /\ OneSitting(a) /\ assignment \in [Assignments -> AssignmentRow]
          /\ assignment[a].count \in Nat
      BY <1>1 DEF InductiveInv, TypeOK, AssignmentRow
    <2>1. ASSUME NEW b, NEW status,
                 assignment' = [assignment EXCEPT ![b].status = status]
          PROVE  assignment'[a].count = assignment[a].count
      BY <2>0, <2>1 DEF AssignmentRow
    <2>2. ASSUME NEW r \in Requests, StartCommit(r)
          PROVE  assignment'[a] = assignment[a]
      <3>1. PICK b \in Assignments :
              /\ assignment[b].status = "AVAILABLE"
              /\ assignment' = [assignment EXCEPT ![b] = Started(@)]
        BY <2>2 DEF StartCommit, StartableFor, Startable
      <3>2. b # a
        BY <1>1, <2>0, <3>1 DEF OneSitting
      <3> QED BY <2>0, <3>1, <3>2
    <2>3. ASSUME NEW r \in Requests, FinalizeCommit(r)
          PROVE  assignment'[a].count = assignment[a].count
      BY <2>1, <2>3 DEF FinalizeCommit
    <2>4. ASSUME NEW m \in Admins, AssignCommit(m)
          PROVE  assignment'[a].count <= assignment[a].count
      <3>1. PICK b \in Assignments :
              assignment' = [assignment EXCEPT ![b] =
                  [status |-> "AVAILABLE", test |-> admin[m].test,
                   due |-> admin[m].due, count |-> 0]]
        BY <2>4 DEF AssignCommit
      <3>2. b = a => assignment'[a].count = 0
        BY <2>0, <3>1
      <3>3. b # a => assignment'[a] = assignment[a]
        BY <2>0, <3>1
      <3> QED BY <2>0, <3>2, <3>3
    <2>5. ASSUME NEW m \in Admins, RevokeCommit(m)
          PROVE  assignment'[a].count = assignment[a].count
      <3>1. \/ assignment' = assignment
            \/ assignment' = [assignment EXCEPT ![admin[m].a].status = "CANCELLED"]
        BY <2>5 DEF RevokeCommit
      <3> QED BY <2>1, <3>1
    <2>6. ASSUME NEW s \in Ticks, CloseDue(s)
          PROVE  assignment'[a].count = assignment[a].count
      BY <2>1, <2>6 DEF CloseDue
    <2>7. ASSUME NEW x \in Attempt, ReviewPublishes(x) \/ ReviewLeavesPending(x)
          PROVE  assignment'[a].count = assignment[a].count
      BY <2>1, <2>7 DEF ReviewPublishes, ReviewLeavesPending
    <2>8. CASE RowsUnchanged
      BY <2>8, <2>0 DEF RowsUnchanged
    <2> QED BY <1>1, <2>0, <2>2, <2>3, <2>4, <2>5, <2>6, <2>7, <2>8, StepKinds
  <1>2. InductiveInv /\ TypeOK' /\ [Next]_vars =>
          [\A a \in Assignments : a \notin active =>
              assignment'[a].count <= assignment[a].count]_vars
    BY <1>1
  <1> QED BY <1>2, InductiveInvariant, TypeCorrect, PTL
          DEF Spec, RevokedNeverStarts

-----------------------------------------------------------------------------
(* The handlers implement the contract of an attempt.                      *)
Blank == \A x \in Attempt : attempt[x].status = "NONE" => attempt[x].scored = Null

LEMMA SameAssignment ==
  ASSUME NEW a \in Assignments, attempt[<<a, 1>>].status = "NONE",
         \A n \in 2..MaxAttempts : attempt[<<a, n>>].status = "NONE"
  PROVE  \A y \in Attempt : y[1] = a => attempt[y].status = "NONE"
  <1> SUFFICES ASSUME NEW n \in 1..MaxAttempts PROVE attempt[<<a, n>>].status = "NONE"
    BY DEF Attempt
  <1>1. n = 1 \/ n \in 2..MaxAttempts
    OBVIOUS
  <1> QED BY <1>1

LEMMA NextBlank ==
  ASSUME InductiveInv, Blank, [Next]_vars
  PROVE  Blank'
  <1>0. TypeOK /\ attempt \in [Attempt -> AttemptRow]
    BY DEF InductiveInv, TypeOK
  <1>1. ASSUME NEW r \in Requests, StartCommit(r) PROVE Blank'
    <2>1. PICK y \in Attempt :
            attempt' = [attempt EXCEPT ![y] = NewAttempt(Duration[handler[r].test])]
      BY <1>0, <1>1, StartAttempt
    <2> QED BY <1>0, <2>1 DEF Blank, NewAttempt
  <1>2. ASSUME NEW r \in Requests, FinalizeCommit(r) PROVE Blank'
    <2>1. handler[r].x \in Attempt /\ handler[r].answers \in Answers
      BY <1>2, HandlerShapes DEF FinalizeCommit, InductiveInv, TypeOK
    <2>2. Closed(attempt[handler[r].x], handler[r].answers).status # "NONE"
      BY <1>0, <2>1, ClosedRow, FinishedNotOpen
    <2> QED BY <1>0, <1>2, <2>1, <2>2 DEF Blank, FinalizeCommit
  <1>3. ASSUME NEW y \in Attempt, ReviewPublishes(y) \/ ReviewLeavesPending(y)
        PROVE  Blank'
    <2>1. attempt[y] \in AttemptRow
      BY <1>0
    <2>2. \A status \in Finished : [attempt[y] EXCEPT !.status = status].status # "NONE"
      BY <2>1, FinishedNotOpen DEF AttemptRow
    <2> QED BY <1>0, <1>3, <2>2
            DEF Blank, ReviewPublishes, ReviewLeavesPending, Finished
  <1>4. CASE attempt' = attempt
    BY <1>4 DEF Blank
  <1> QED BY <1>0, <1>1, <1>2, <1>3, <1>4, StepKinds
          DEF RowsUnchanged, AssignCommit, RevokeCommit, CloseDue

LEMMA UnstartedBlank == Spec => []Blank
  <1>1. Init => Blank
    BY DEF Init, Blank, NoAttempt
  <1> QED BY <1>1, NextBlank, InductiveInvariant, PTL DEF Spec

LEMMA Phases ==
  /\ Phase("NONE") = "unstarted" /\ Phase("IN_PROGRESS") = "open"
  /\ \A status \in Finished : Phase(status) = "sealed"
  BY DEF Phase, Finished

(* A step that leaves phase, scored answers and announcements as they are  *)
(* is no step of the contract.                                             *)
LEMMA ContractFrame ==
  ASSUME \A y \in Attempt : /\ attempt'[y].status = attempt[y].status
                            /\ attempt'[y].scored = attempt[y].scored,
         announced' = announced
  PROVE  UNCHANGED Contract!vars
  BY DEF Contract!vars

LEMMA ContractNext ==
  ASSUME InductiveInv, Blank, [Next]_vars
  PROVE  [Contract!Next]_(Contract!vars)
  <1>0. TypeOK /\ attempt \in [Attempt -> AttemptRow] /\ announced \in [Attempt -> Nat]
    BY DEF InductiveInv, TypeOK
  <1>1. ASSUME NEW r \in Requests, StartCommit(r)
        PROVE  \E x \in Attempt : Contract!Begin(x)
    <2>1. PICK a \in Assignments :
            /\ assignment[a].status = "AVAILABLE"
            /\ attempt' = [attempt EXCEPT ![<<a, assignment[a].count + 1>>] =
                              NewAttempt(Duration[handler[r].test])]
      BY <1>1 DEF StartCommit, StartableFor, Startable
    <2>2. /\ assignment[a].count = 0 /\ attempt[<<a, 1>>].status = "NONE"
          /\ \A n \in 2..MaxAttempts : attempt[<<a, n>>].status = "NONE"
      BY <2>1 DEF InductiveInv, OneSitting
    <2>3. PICK x \in Attempt : x = <<a, 1>>
      BY Pairs
    <2>4. \A y \in Attempt : y[1] = a => attempt[y].status = "NONE"
      BY <2>2, SameAssignment
    <2>5. /\ attempt'[x].status = "IN_PROGRESS" /\ attempt'[x].scored = Null
          /\ \A y \in Attempt : y # x => attempt'[y] = attempt[y]
      BY <1>0, <2>1, <2>2, <2>3 DEF NewAttempt
    <2>6. announced' = announced /\ attempt[x].scored = Null
      BY <1>1, <2>2, <2>3 DEF StartCommit, Blank
    <2>7. \A y \in Attempt : y[1] = x[1] => Phase(attempt[y].status) = "unstarted"
      BY <2>3, <2>4, Phases
    <2>8. [y \in Attempt |-> Phase(attempt[y].status)]' =
             [[y \in Attempt |-> Phase(attempt[y].status)] EXCEPT ![x] = "open"]
      BY <2>5, Phases
    <2>9. [y \in Attempt |-> attempt[y].scored]' = [y \in Attempt |-> attempt[y].scored]
      BY <2>5, <2>6
    <2> QED BY <2>6, <2>7, <2>8, <2>9 DEF Contract!Begin
  <1>2. ASSUME NEW r \in Requests, FinalizeCommit(r)
        PROVE  \E x \in Attempt : \E answers \in Answers : Contract!Seal(x, answers)
    <2>1. PICK x \in Attempt, answers \in Answers :
            x = handler[r].x /\ answers = handler[r].answers
      BY <1>2, HandlerShapes DEF FinalizeCommit, InductiveInv, TypeOK
    <2>2. /\ attempt[x].status = "IN_PROGRESS" /\ announced' = announced
          /\ attempt' = [attempt EXCEPT ![x] = Closed(@, answers)]
      BY <1>2, <2>1 DEF FinalizeCommit, Claimable
    <2>3. /\ attempt'[x].status \in Finished /\ attempt'[x].scored = answers
          /\ \A y \in Attempt : y # x => attempt'[y] = attempt[y]
      BY <1>0, <2>2, ClosedRow
    <2>4. Phase(attempt[x].status) = "open"
      BY <2>2, Phases
    <2>5. [y \in Attempt |-> Phase(attempt[y].status)]' =
             [[y \in Attempt |-> Phase(attempt[y].status)] EXCEPT ![x] = "sealed"]
      BY <2>3, Phases
    <2>6. [y \in Attempt |-> attempt[y].scored]' =
             [[y \in Attempt |-> attempt[y].scored] EXCEPT ![x] = answers]
      BY <2>3
    <2> QED BY <2>2, <2>4, <2>5, <2>6 DEF Contract!Seal
  <1>3. ASSUME NEW r \in Requests, Announce(r)
        PROVE  \E x \in Attempt : Contract!Tell(x)
    <2>1. PICK x \in Attempt : x = handler[r].x
      BY <1>3, HandlerShapes DEF Announce, InductiveInv, TypeOK
    <2>2. attempt[x].status \in Finished /\ announced[x] = 0
      BY <1>3, <2>1 DEF Announce, InductiveInv, AnnounceOnce, Announcer
    <2>3. /\ announced' = [announced EXCEPT ![x] = @ + 1] /\ attempt' = attempt
      BY <1>3, <2>1 DEF Announce
    <2>4. announced'[x] = 1 /\ \A y \in Attempt : y # x => announced'[y] = announced[y]
      BY <1>0, <2>2, <2>3
    <2>5. Phase(attempt[x].status) = "sealed"
      BY <2>2, Phases
    <2>6. {y \in Attempt : announced[y] > 0}' = {y \in Attempt : announced[y] > 0} \cup {x}
      BY <2>4
    <2> QED BY <2>2, <2>3, <2>5, <2>6 DEF Contract!Tell
  <1>4. ASSUME NEW x \in Attempt, ReviewPublishes(x) \/ ReviewLeavesPending(x)
        PROVE  UNCHANGED Contract!vars
    <2>1. /\ attempt[x].status \in Finished /\ announced' = announced
          /\ \E status \in Finished : attempt' = [attempt EXCEPT ![x].status = status]
      BY <1>4 DEF ReviewPublishes, ReviewLeavesPending, UnderReview, Finished
    <2>2. /\ attempt'[x].status \in Finished /\ attempt'[x].scored = attempt[x].scored
          /\ \A y \in Attempt : y # x => attempt'[y] = attempt[y]
      BY <1>0, <2>1 DEF AttemptRow
    <2>3. \A y \in Attempt :
            Phase(attempt'[y].status) = Phase(attempt[y].status)
      BY <2>1, <2>2, Phases DEF Finished
    <2> QED BY <2>1, <2>2, <2>3 DEF Contract!vars
  <1>5. CASE AnnouncersKept /\ attempt' = attempt
    BY <1>5, ContractFrame DEF AnnouncersKept
  <1> QED BY <1>0, <1>1, <1>2, <1>3, <1>4, <1>5, StepKinds, AnnounceKinds
          DEF RowsUnchanged, AssignCommit, RevokeCommit, CloseDue, Contract!Next

(* The handlers, whatever their interleaving, implement the contract: an   *)
(* assignment is sat once, sealed in one step, announced once.             *)
THEOREM ImplementsContract == Spec => ContractSpec
  <1>1. Init => Contract!Init
    BY Phases DEF Init, Contract!Init, NoAttempt
  <1>2. InductiveInv /\ Blank /\ [Next]_vars => [Contract!Next]_(Contract!vars)
    BY ContractNext
  <1> QED BY <1>1, <1>2, InductiveInvariant, UnstartedBlank, PTL
          DEF Spec, ContractSpec, Contract!Spec
=============================================================================
