------------------------------ MODULE Attempts ------------------------------
(***************************************************************************)
(* One employee's assessment attempts: assignment, start, autosave,        *)
(* submission, lazy finalization after the time limit, revocation by a     *)
(* manager and the scheduler's closing of overdue assignments.             *)
(*                                                                         *)
(* Every HTTP handler is a process: what it reads before its transaction   *)
(* is kept in its local state and may be stale when the transaction runs.  *)
(* A Prisma transaction is one step; START runs SERIALIZABLE, and every    *)
(* other one writes rows it does not re-read, so one step is what          *)
(* PostgreSQL makes of it.  The handlers of different employees share no   *)
(* row, hence one employee.                                                *)
(***************************************************************************)
EXTENDS Integers

CONSTANTS
    Tests,            \* assessment definitions
    MaxAssignments,   \* bound: assignments created, numbered by creation
    MaxAttempts,      \* AssessmentAssignment.maxAttempts
    Questions,        \* the questions of a paper
    ReviewQuestions,  \* those whose typed answer awaits a human reviewer
    Duration,         \* time limit of a test, 0 when it has none
    Grace,            \* graceMilliseconds
    DueTimes,         \* the due dates an assignment may be given
    MaxTime,          \* bound: the clock
    MaxEdits,         \* bound: answers the employee's client sends
    Requests,         \* concurrent handlers of the employee's requests
    Admins,           \* concurrent handlers of managers' requests
    Ticks,            \* concurrent scheduler ticks (one per API process)
    Null              \* SQL NULL

ASSUME CountsAssumption ==
    /\ MaxAssignments \in Nat /\ MaxAttempts \in Nat \ {0}
    /\ MaxTime \in Nat /\ MaxEdits \in Nat /\ Grace \in Nat
ASSUME DataAssumption ==
    /\ ReviewQuestions \subseteq Questions
    /\ Duration \in [Tests -> Nat]
    /\ DueTimes \subseteq Nat \cup {Null}
    /\ Null \notin Nat

Assignments == 1..MaxAssignments
Attempt == Assignments \X (1..MaxAttempts)

(* An answer: the client's sequence number, which also tells the answers   *)
(* apart, and the time its request arrived; sequence 0 is "no response".   *)
Answer == [seq : 0..MaxEdits, at : 0..MaxTime]
NoAnswer == [seq |-> 0, at |-> 0]
Answers == [Questions -> Answer]

AssignmentStatus == {"NONE", "AVAILABLE", "IN_PROGRESS", "SUBMITTED",
                     "COMPLETED", "EXPIRED", "CANCELLED"}
Finished == {"NEEDS_REVIEW", "PUBLISHED"}
AttemptStatus == {"NONE", "IN_PROGRESS"} \cup Finished

AssignmentRow == [status : AssignmentStatus, test : Tests \cup {Null},
                  due : Nat \cup {Null}, count : Nat]
AttemptRow == [status : AttemptStatus, expires : Nat \cup {Null},
               scored : Answers \cup {Null}]

NoAssignment == [status |-> "NONE", test |-> Null, due |-> Null, count |-> 0]
NoAttempt == [status |-> "NONE", expires |-> Null, scored |-> Null]

(* What a handler holds between its steps. *)
NoRequest == [op |-> "idle"]
RequestState ==
    {NoRequest} \cup [op : {"start"}, test : Tests]
           \cup [op : {"save"}, x : Attempt, q : Questions, answer : Answer]
           \cup [op : {"finalize"}, x : Attempt, answers : Answers]
           \cup [op : {"announce"}, x : Attempt]
AdminState ==
    {NoRequest} \cup [op : {"assign"}, test : Tests, due : Nat \cup {Null}]
           \cup [op : {"revoke"}, a : Assignments]
TickState ==
    {NoRequest} \cup [op : {"scan"}, due : SUBSET Assignments]
           \cup [op : {"close"}, due : SUBSET Assignments, a : Assignments,
                 submitted : BOOLEAN]

VARIABLES
    now,        \* the server clock
    archived,   \* tests with deletedAt set
    assignment, \* AssessmentAssignment rows
    active,     \* campaigns whose settings.status is 'active'
    attempt,    \* AssessmentAttempt rows, <<assignment, attemptNumber>>
    response,   \* AttemptResponse rows
    edits,      \* answers the client has sent
    announced,  \* "Result published" notifications its finalization sent
    handler, admin, tick

rows == <<assignment, active, attempt, response, announced>>
vars == <<now, archived, assignment, active, attempt, response, edits,
          announced, handler, admin, tick>>

-----------------------------------------------------------------------------
Init ==
    /\ now = 0
    /\ archived = {}
    /\ assignment = [a \in Assignments |-> NoAssignment]
    /\ active = {}
    /\ attempt = [x \in Attempt |-> NoAttempt]
    /\ response = [x \in Attempt |-> [q \in Questions |-> NoAnswer]]
    /\ edits = 0
    /\ announced = [x \in Attempt |-> 0]
    /\ handler = [r \in Requests |-> NoRequest]
    /\ admin = [m \in Admins |-> NoRequest]
    /\ tick = [s \in Ticks |-> NoRequest]

Open(x) == attempt[x].status = "IN_PROGRESS"
(* Mutation: the grace period is added twice. *)
BugTimeIsOverLater(x) ==
    attempt[x].expires # Null /\ now > attempt[x].expires + 2 * Grace
TimeIsOver(x) == attempt[x].expires # Null /\ now > attempt[x].expires + Grace
Overdue(a) == assignment[a].due # Null /\ assignment[a].due < now
Submitted(a) == \E x \in Attempt : x[1] = a /\ attempt[x].status \in Finished
PendingReview(answers) == \E q \in ReviewQuestions : answers[q].seq # 0

-----------------------------------------------------------------------------
(* Managers: assign, revoke, archive.                                      *)

(* POST /tests/:id/assign reads the test before its transaction ...        *)
AssignRead(m, t, due) ==
    /\ admin[m] = NoRequest
    /\ t \notin archived
    /\ admin' = [admin EXCEPT ![m] = [op |-> "assign", test |-> t, due |-> due]]
    /\ UNCHANGED <<now, archived, edits, handler, tick>> /\ UNCHANGED rows

(* ... which creates a campaign with its assignments; a test may be        *)
(* assigned to the same employee any number of times.                      *)
AssignCommit(m) ==
    /\ admin[m].op = "assign"
    /\ \E a \in Assignments :
          /\ assignment[a].status = "NONE"
          /\ \A b \in Assignments : b < a => assignment[b].status # "NONE"
          /\ assignment' = [assignment EXCEPT ![a] =
                [status |-> "AVAILABLE", test |-> admin[m].test,
                 due |-> admin[m].due, count |-> 0]]
          /\ active' = active \cup {a}
    /\ admin' = [admin EXCEPT ![m] = NoRequest]
    /\ UNCHANGED <<now, archived, attempt, response, edits, announced,
                   handler, tick>>

(* PATCH /tests/:id/assignments/:assignmentId/revoke finds an active       *)
(* campaign ...                                                            *)
RevokeRead(m, a) ==
    /\ admin[m] = NoRequest
    /\ a \in active
    /\ admin' = [admin EXCEPT ![m] = [op |-> "revoke", a |-> a]]
    /\ UNCHANGED <<now, archived, edits, handler, tick>> /\ UNCHANGED rows

(* Mutations: only PENDING assignments, or started ones too, are cancelled. *)
BugRevocablePending(a) == assignment[a].status = "PENDING"
BugRevocableStarted(a) == assignment[a].status \in {"AVAILABLE", "IN_PROGRESS"}
Revocable(a) == assignment[a].status = "AVAILABLE"

(* ... and cancels, in one statement, the assignments nobody has started.  *)
RevokeCommit(m) ==
    /\ admin[m].op = "revoke"
    /\ LET a == admin[m].a IN
          /\ assignment' = IF Revocable(a)
                           THEN [assignment EXCEPT ![a].status = "CANCELLED"]
                           ELSE assignment
          /\ active' = active \ {a}
    /\ admin' = [admin EXCEPT ![m] = NoRequest]
    /\ UNCHANGED <<now, archived, attempt, response, edits, announced,
                   handler, tick>>

(* POST /tests/:id/archive *)
Archive(t) ==
    /\ t \notin archived
    /\ archived' = archived \cup {t}
    /\ UNCHANGED <<now, edits, handler, admin, tick>> /\ UNCHANGED rows

-----------------------------------------------------------------------------
(* The employee's requests.                                                *)

Go(r, state) ==
    /\ handler' = [handler EXCEPT ![r] = state]
    /\ UNCHANGED <<now, archived, admin, tick>>

(* POST /attempts/start looks for an attempt of this test in progress,     *)
(* outside the transaction; it goes on only when there is none (and        *)
(* otherwise returns it, or finalizes it: SeeTimedOut).                    *)
StartRead(r, t) ==
    /\ handler[r] = NoRequest
    /\ \A x \in Attempt : Open(x) => assignment[x[1]].test # t
    /\ Go(r, [op |-> "start", test |-> t])
    /\ UNCHANGED edits /\ UNCHANGED rows

Startable(a, t) ==
    /\ assignment[a].status = "AVAILABLE"
    /\ assignment[a].test = t
    /\ assignment[a].due # Null => assignment[a].due > now
    /\ t \notin archived

StartableFor(t) == {a \in Assignments : Startable(a, t)}

NewAttempt(limit) ==
    [status |-> "IN_PROGRESS",
     expires |-> IF limit > 0 THEN now + limit ELSE Null,
     scored |-> Null]

(* Mutation: attemptCount is not incremented. *)
Started(row) == [row EXCEPT !.status = "IN_PROGRESS", !.count = @ + 1]

(* The SERIALIZABLE transaction: the newest startable assignment, the      *)
(* attempt limit (no grant is ever created), paper, attempt, counter.      *)
StartCommit(r) ==
    /\ handler[r].op = "start"
    /\ \E a \in StartableFor(handler[r].test) :
          /\ \A b \in StartableFor(handler[r].test) : b <= a
          /\ assignment[a].count < MaxAttempts
          /\ LET n == assignment[a].count + 1
             IN attempt' = [attempt EXCEPT ![<<a, n>>] =
                                NewAttempt(Duration[handler[r].test])]
          /\ assignment' = [assignment EXCEPT ![a] = Started(@)]
    /\ Go(r, NoRequest)
    /\ UNCHANGED <<active, response, edits, announced>>

(* 403 "not been assigned", 422 "used all attempts".                       *)
StartRefused(r) ==
    /\ handler[r].op = "start"
    /\ \A a \in StartableFor(handler[r].test) :
          (\A b \in StartableFor(handler[r].test) : b <= a)
              => assignment[a].count >= MaxAttempts
    /\ Go(r, NoRequest)
    /\ UNCHANGED edits /\ UNCHANGED rows

(* PATCH /attempts/:id/answers reads the attempt, in progress and in time. *)
SaveRead(r, x, q) ==
    /\ handler[r] = NoRequest
    /\ edits < MaxEdits
    /\ Open(x) /\ ~TimeIsOver(x)
    /\ edits' = edits + 1
    /\ Go(r, [op |-> "save", x |-> x, q |-> q,
              answer |-> [seq |-> edits + 1, at |-> now]])
    /\ UNCHANGED rows

(* The upsert has no condition: neither the attempt's status nor the       *)
(* stored sequence is looked at again.                                     *)
SaveCommit(r) ==
    /\ handler[r].op = "save"
    /\ response' = [response EXCEPT ![handler[r].x][handler[r].q] =
                        handler[r].answer]
    /\ Go(r, NoRequest)
    /\ UNCHANGED <<assignment, active, attempt, edits, announced>>

(* POST /attempts/:id/submit reads the attempt with its responses.         *)
SubmitRead(r, x) ==
    /\ handler[r] = NoRequest
    /\ Open(x)
    /\ Go(r, [op |-> "finalize", x |-> x, answers |-> response[x]])
    /\ UNCHANGED edits /\ UNCHANGED rows

(* Mutation: an attempt is finalized only while its assignment is open.    *)
BugSeeTimedOutWhileAssigned(r, x) ==
    /\ handler[r] = NoRequest
    /\ Open(x) /\ TimeIsOver(x)
    /\ assignment[x[1]].status = "IN_PROGRESS"
    /\ Go(r, [op |-> "finalize", x |-> x, answers |-> response[x]])
    /\ UNCHANGED edits /\ UNCHANGED rows

(* start, resume and answer-save finalize an attempt they find timed out.  *)
SeeTimedOut(r, x) ==
    /\ handler[r] = NoRequest
    /\ Open(x) /\ TimeIsOver(x)
    /\ Go(r, [op |-> "finalize", x |-> x, answers |-> response[x]])
    /\ UNCHANGED edits /\ UNCHANGED rows

(* finalizeAttempt: claim the attempt, store the score of the answers read *)
(* before, close the assignment.                                           *)
(* Mutation: the update is not conditioned on the status. *)
BugClaimUnconditional(x) == attempt[x].status # "NONE"
Claimable(x) == attempt[x].status = "IN_PROGRESS"

(* Mutation: a status no reader of the table expects. *)
Outcome(answers) == IF PendingReview(answers) THEN "NEEDS_REVIEW" ELSE "PUBLISHED"

Closed(row, answers) ==
    [row EXCEPT !.status = Outcome(answers), !.scored = answers]

FinalizeCommit(r) ==
    /\ handler[r].op = "finalize"
    /\ LET x == handler[r].x
           outcome == Outcome(handler[r].answers)
       IN /\ Claimable(x)
          /\ attempt' = [attempt EXCEPT ![x] = Closed(@, handler[r].answers)]
          /\ assignment' = [assignment EXCEPT ![x[1]].status =
                IF outcome = "NEEDS_REVIEW" THEN "SUBMITTED" ELSE "COMPLETED"]
          /\ Go(r, [op |-> "announce", x |-> x])
    /\ UNCHANGED <<active, response, edits, announced>>

(* 409 "already submitted by another request".                             *)
FinalizeLost(r) ==
    /\ handler[r].op = "finalize"
    /\ ~Claimable(handler[r].x)
    /\ Go(r, NoRequest)
    /\ UNCHANGED edits /\ UNCHANGED rows

(* After the commit: rewards and certificate (module Rewards), then the    *)
(* notification.                                                           *)
Announce(r) ==
    /\ handler[r].op = "announce"
    /\ announced' = [announced EXCEPT ![handler[r].x] = @ + 1]
    /\ Go(r, NoRequest)
    /\ UNCHANGED <<assignment, active, attempt, response, edits>>

(* The process dies, the connection is lost, or the database refuses the   *)
(* transaction (a serialization failure for the third time): the handler   *)
(* ends where it stands.                                                   *)
Abandon(r) ==
    /\ handler[r] # NoRequest
    /\ Go(r, NoRequest)
    /\ UNCHANGED edits /\ UNCHANGED rows

-----------------------------------------------------------------------------
(* Manual reviews (module Reviews) of an attempt with a typed answer, seen *)
(* from here: a review that finds no other question pending publishes the  *)
(* attempt, any other one writes NEEDS_REVIEW.  The reviewer read the      *)
(* attempt earlier, so either may be written over either.                  *)
UnderReview(x) ==
    /\ attempt[x].status \in Finished
    /\ PendingReview(attempt[x].scored)

ReviewPublishes(x) ==
    /\ UnderReview(x)
    /\ attempt' = [attempt EXCEPT ![x].status = "PUBLISHED"]
    /\ assignment' = [assignment EXCEPT ![x[1]].status = "COMPLETED"]
    /\ UNCHANGED <<now, archived, active, response, edits, announced,
                   handler, admin, tick>>

ReviewLeavesPending(x) ==
    /\ UnderReview(x)
    /\ attempt' = [attempt EXCEPT ![x].status = "NEEDS_REVIEW"]
    /\ UNCHANGED <<now, archived, assignment, active, response, edits,
                   announced, handler, admin, tick>>

(* Mutation: assignments nobody started are left open.                     *)
BugClosableStarted(a) == assignment[a].status = "IN_PROGRESS"
Closable(a) == assignment[a].status \in {"AVAILABLE", "IN_PROGRESS"}

(* closeDueAssignments: the overdue assignments, read once ...             *)
ScanDue(s) ==
    /\ tick[s] = NoRequest
    /\ LET due == {a \in Assignments : Closable(a) /\ Overdue(a)}
       IN /\ due # {}
          /\ tick' = [tick EXCEPT ![s] = [op |-> "scan", due |-> due]]
    /\ UNCHANGED <<now, archived, edits, handler, admin>> /\ UNCHANGED rows

(* ... for each of them whether a submitted attempt exists ...             *)
LookForSubmitted(s, a) ==
    /\ tick[s].op = "scan"
    /\ a \in tick[s].due
    /\ tick' = [tick EXCEPT ![s] = [op |-> "close", due |-> tick[s].due \ {a},
                                    a |-> a, submitted |-> Submitted(a)]]
    /\ UNCHANGED <<now, archived, edits, handler, admin>> /\ UNCHANGED rows

(* ... and the update, whatever the row says by then.                      *)
CloseDue(s) ==
    /\ tick[s].op = "close"
    /\ assignment' = [assignment EXCEPT ![tick[s].a].status =
                        IF tick[s].submitted THEN "COMPLETED" ELSE "EXPIRED"]
    /\ tick' = [tick EXCEPT ![s] = IF tick[s].due = {} THEN NoRequest
                                   ELSE [op |-> "scan", due |-> tick[s].due]]
    /\ UNCHANGED <<now, archived, active, attempt, response, edits, announced,
                   handler, admin>>

PassTime ==
    /\ now < MaxTime
    /\ now' = now + 1
    /\ UNCHANGED <<archived, edits, handler, admin, tick>> /\ UNCHANGED rows

-----------------------------------------------------------------------------
RequestStep(r) ==
    \/ \E t \in Tests : StartRead(r, t)
    \/ StartCommit(r) \/ StartRefused(r)
    \/ \E x \in Attempt, q \in Questions : SaveRead(r, x, q)
    \/ SaveCommit(r)
    \/ \E x \in Attempt : SubmitRead(r, x) \/ SeeTimedOut(r, x)
    \/ FinalizeCommit(r) \/ FinalizeLost(r)
    \/ Announce(r) \/ Abandon(r)

AdminStep(m) ==
    \/ \E t \in Tests, due \in DueTimes : AssignRead(m, t, due)
    \/ AssignCommit(m)
    \/ \E a \in Assignments : RevokeRead(m, a)
    \/ RevokeCommit(m)

TickStep(s) ==
    \/ ScanDue(s) \/ CloseDue(s)
    \/ \E a \in Assignments : LookForSubmitted(s, a)

Next ==
    \/ \E r \in Requests : RequestStep(r)
    \/ \E m \in Admins : AdminStep(m)
    \/ \E s \in Ticks : TickStep(s)
    \/ \E t \in Tests : Archive(t)
    \/ \E x \in Attempt : ReviewPublishes(x) \/ ReviewLeavesPending(x)
    \/ PassTime

Spec == Init /\ [][Next]_vars

(* The employee's requests and the scheduler's ticks do not starve.  The   *)
(* event loop runs every handler's continuation; a finalization is retried *)
(* by every later request that sees the attempt, and the database does not *)
(* refuse all of them; the interval timer fires again after every tick;    *)
(* and the employee comes back to an attempt that ran out of time.         *)
Fairness ==
    /\ \A r \in Requests :
          /\ WF_vars(StartCommit(r) \/ StartRefused(r))
          /\ WF_vars(SaveCommit(r))
          /\ SF_vars(FinalizeCommit(r))
          /\ WF_vars(FinalizeLost(r))
          /\ WF_vars(Announce(r))
          /\ \A x \in Attempt : SF_vars(SeeTimedOut(r, x))
    /\ \A s \in Ticks :
          /\ WF_vars(ScanDue(s))
          /\ WF_vars(\E a \in Assignments : LookForSubmitted(s, a))
          /\ WF_vars(CloseDue(s))

FairSpec == Spec /\ Fairness

-----------------------------------------------------------------------------
TypeOK ==
    /\ now \in 0..MaxTime
    /\ archived \subseteq Tests
    /\ assignment \in [Assignments -> AssignmentRow]
    /\ active \subseteq Assignments
    /\ attempt \in [Attempt -> AttemptRow]
    /\ response \in [Attempt -> Answers]
    /\ edits \in 0..MaxEdits
    /\ announced \in [Attempt -> Nat]
    /\ handler \in [Requests -> RequestState]
    /\ admin \in [Admins -> AdminState]
    /\ tick \in [Ticks -> TickState]

(* attemptCount is the number of attempts of the assignment, numbered from *)
(* 1 without a gap, and never above maxAttempts, whoever starts, revokes   *)
(* and closes at the same time.                                            *)
CountMatchesAttempts ==
    \A a \in Assignments :
        /\ assignment[a].count <= MaxAttempts
        /\ \A n \in 1..MaxAttempts :
              attempt[<<a, n>>].status # "NONE" <=> n <= assignment[a].count

(* What an assignment row says and what its attempts say agree, except     *)
(* for EXPIRED, which the scheduler may write over anything: an            *)
(* IN_PROGRESS assignment has an open attempt, SUBMITTED one that awaits   *)
(* review, COMPLETED a finished one, and an assignment that is still       *)
(* available, or was withdrawn, has none.                                  *)
AssignmentReflectsAttempt ==
    \A a \in Assignments :
        LET status == assignment[a].status
            has(S) == \E n \in 1..MaxAttempts : attempt[<<a, n>>].status \in S
        IN  /\ status = "IN_PROGRESS" => has({"IN_PROGRESS"})
            /\ status = "SUBMITTED" => has({"NEEDS_REVIEW"})
            /\ status = "COMPLETED" => has(Finished)
            /\ status \in {"NONE", "AVAILABLE", "CANCELLED"}
                  => ~has(Finished \cup {"IN_PROGRESS"})

(* Work in progress is never hidden by its assignment: while an attempt is *)
(* open, the assignment is IN_PROGRESS, or EXPIRED after the due date, but *)
(* not CANCELLED, SUBMITTED or COMPLETED ("revocation that leaves started  *)
(* work intact").                                                          *)
OpenAttemptVisible ==
    \A x \in Attempt : Open(x) =>
        \/ assignment[x[1]].status = "IN_PROGRESS"
        \/ assignment[x[1]].status = "EXPIRED" /\ Overdue(x[1])

(* Of several requests that finalize the same attempt, one scores it: a    *)
(* finished attempt never reopens and its scored answers never change.     *)
ScoredExactlyOnce ==
    [][\A x \in Attempt : attempt[x].status \in Finished =>
          /\ attempt'[x].status \in Finished
          /\ attempt'[x].scored = attempt[x].scored]_vars

(* The employee is told of a submission at most once per attempt, and only *)
(* of a finished attempt (a review that publishes it tells the employee    *)
(* once more, module Reviews).                                             *)
AnnouncedAtMostOnce ==
    \A x \in Attempt :
        /\ announced[x] <= 1
        /\ announced[x] = 1 => attempt[x].status \in Finished

(* An answer that reached the server after the time limit and its grace    *)
(* period is never scored, however late its attempt is finalized.          *)
NoLateAnswerScored ==
    \A x \in Attempt : attempt[x].status \in Finished =>
        \A q \in Questions :
            /\ attempt[x].scored[q].seq # 0
            /\ attempt[x].expires # Null
            => attempt[x].scored[q].at <= attempt[x].expires + Grace

(* A revoked assignment is never started afterwards, even by a start       *)
(* request that found it available before the revocation.                  *)
RevokedNeverStarts ==
    [][\A a \in Assignments : a \notin active =>
          assignment'[a].count <= assignment[a].count]_vars

(* An attempt that ran out of time is finalized once a request sees it,    *)
(* although handlers may die at any point ("still gets finalized the next  *)
(* time the server sees it, instead of staying IN_PROGRESS forever").      *)
TimedOutAttemptCloses ==
    \A x \in Attempt : (Open(x) /\ TimeIsOver(x)) ~> ~Open(x)

(* An assignment past its due date is closed by a later tick.              *)
OverdueAssignmentCloses ==
    \A a \in Assignments :
        (assignment[a].status \in {"AVAILABLE", "IN_PROGRESS"} /\ Overdue(a))
            ~> assignment[a].status \notin {"AVAILABLE", "IN_PROGRESS"}
-----------------------------------------------------------------------------
(* The handlers, the race between them and the scheduler included, keep    *)
(* the contract of an attempt: one per assignment, sealed once, announced  *)
(* once.                                                                   *)
Phase(status) == CASE status = "NONE" -> "unstarted"
                   [] status = "IN_PROGRESS" -> "open"
                   [] status \in Finished -> "sealed"

Contract == INSTANCE AttemptContract WITH
    Papers <- Attempt,
    Sheets <- Answers,
    phase <- [x \in Attempt |-> Phase(attempt[x].status)],
    sheet <- [x \in Attempt |-> attempt[x].scored],
    told <- {x \in Attempt : announced[x] > 0}

ContractSpec == Contract!Spec
-----------------------------------------------------------------------------
(* The inductive invariant.  No handler ever makes an assignment available *)
(* again, so its only attempt is number 1; that is what keeps its row and  *)
(* its attempt in step under every interleaving.                           *)
OneSitting(a) ==
    LET row == assignment[a]
        sat == attempt[<<a, 1>>].status
    IN  /\ row.count = IF sat = "NONE" THEN 0 ELSE 1
        /\ \A n \in 2..MaxAttempts : attempt[<<a, n>>].status = "NONE"
        /\ row.status = "NONE" => row.due = Null
        /\ row.status = "AVAILABLE" => a \in active
        /\ row.status \in {"NONE", "AVAILABLE", "CANCELLED"} => sat = "NONE"
        /\ row.status = "IN_PROGRESS" => sat = "IN_PROGRESS"
        /\ row.status = "SUBMITTED" => sat = "NEEDS_REVIEW"
        /\ row.status = "COMPLETED" => sat \in Finished
        /\ sat = "IN_PROGRESS" =>
              \/ row.status = "IN_PROGRESS"
              \/ row.status = "EXPIRED" /\ Overdue(a)

(* What a tick remembers is still true: due dates do not move, a finished  *)
(* attempt stays finished.                                                 *)
TickKnows(s) ==
    /\ tick[s].op = "scan" => \A a \in tick[s].due : Overdue(a)
    /\ tick[s].op = "close" =>
          /\ Overdue(tick[s].a) /\ \A a \in tick[s].due : Overdue(a)
          /\ tick[s].submitted => Submitted(tick[s].a)

(* A handler about to announce is the only one that may, and is the first. *)
Announcer(r, x) == handler[r].op = "announce" /\ handler[r].x = x

AnnounceOnce(x) ==
    /\ announced[x] \in {0, 1}
    /\ announced[x] = 1 => attempt[x].status \in Finished
    /\ \A r \in Requests : Announcer(r, x) =>
          /\ attempt[x].status \in Finished
          /\ announced[x] = 0
          /\ \A other \in Requests : Announcer(other, x) => other = r

(* The time limit of an attempt is fixed when it starts, and a save looks  *)
(* at it before it reads the clock: every answer stored, under way or read *)
(* to be scored came in time.                                              *)
InTime(x, answer) ==
    answer.seq # 0 /\ attempt[x].expires # Null =>
        answer.at <= attempt[x].expires + Grace

StoredInTime(x) ==
    /\ \A q \in Questions : InTime(x, response[x][q])
    /\ attempt[x].status = "NONE" => \A q \in Questions : response[x][q].seq = 0

HeldInTime(r) ==
    /\ handler[r].op = "save" =>
          /\ attempt[handler[r].x].status # "NONE"
          /\ InTime(handler[r].x, handler[r].answer)
    /\ handler[r].op = "finalize" =>
          /\ attempt[handler[r].x].status # "NONE"
          /\ \A q \in Questions : InTime(handler[r].x, handler[r].answers[q])

InductiveInv ==
    /\ TypeOK
    /\ \A a \in Assignments : OneSitting(a)
    /\ \A s \in Ticks : TickKnows(s)
    /\ \A x \in Attempt : AnnounceOnce(x)
    /\ \A x \in Attempt : StoredInTime(x)
    /\ \A r \in Requests : HeldInTime(r)
    /\ NoLateAnswerScored
=============================================================================
