---------------------------- MODULE Recruitment ----------------------------
(***************************************************************************)
(* Recruitment drives: the candidates who register by a drive's link and   *)
(* sit its test, the recruiters who decide on them and close drives, and   *)
(* the scheduler's tick on the candidates' assignments.                    *)
(*                                                                         *)
(* An application is a candidate and a drive.  A request reads, then       *)
(* writes in a READ COMMITTED transaction: only the unique constraints on  *)
(* profiles, applications, attempt numbers and review rounds look again.   *)
(***************************************************************************)
EXTENDS Integers

CONSTANTS
    Candidates, Drives,
    Decisions,         \* what a recruiter may decide: shortlisted, on hold, rejected
    OpensAt, ClosesAt, \* the window of each drive, Null when it has no limit
    Typed,             \* of each drive, the versions of the answers with text
                       \* that a reviewer must mark
    Requests, Ticks,   \* concurrent handlers, and scheduler ticks
    MaxTime,           \* bound: of the clock
    MaxSaves,          \* bound: of the versions of an application's answers
    MaxDecisions,      \* bound: decisions of the recruiters
    Null

Times == 0..MaxTime

ASSUME RecruitmentAssumption ==
    /\ OpensAt \in [Drives -> Times \cup {Null}]
    /\ ClosesAt \in [Drives -> Times \cup {Null}]
    /\ Typed \in [Drives -> SUBSET (0..MaxSaves)]
    /\ MaxTime \in Nat /\ MaxSaves \in Nat /\ MaxDecisions \in Nat
    /\ Null \notin Times /\ Null \notin 0..MaxSaves
    /\ "NONE" \notin Decisions

Application == Candidates \X Drives

ApplicationStatus == {"NONE", "APPLIED", "ASSESSING", "UNDER_REVIEW"} \cup Decisions
AssignmentStatus ==
    {"NONE", "AVAILABLE", "IN_PROGRESS", "SUBMITTED", "COMPLETED", "EXPIRED"}
Finished == {"NEEDS_REVIEW", "PUBLISHED"}
AttemptStatus == {"NONE", "IN_PROGRESS"} \cup Finished

Records == {"profile", "application", "assignment"}
Idle == [op |-> "idle"]
HandlerState ==
    {Idle} \cup [op : {"candidate", "application", "assignment", "save"}, a : Application]
           \cup [op : {"insert"}, a : Application, missing : SUBSET Records]
           \cup [op : {"start"}, a : Application, number : Nat]
           \cup [op : {"submit"}, a : Application, answers : 0..MaxSaves]
TickState ==
    {Idle} \cup [op : {"look"}, a : Application]
           \cup [op : {"close"}, a : Application, status : {"COMPLETED", "EXPIRED"}]

VARIABLES
    time,
    drive,      \* RecruitmentDrive.status; "NONE" before it is created
    profiles,   \* candidates with a CandidateProfile
    application,\* CandidateApplication.status
    completed,  \* applications with a completedAt
    assigned,   \* the number of AssessmentAssignment rows of each application
    assignment, \* and their status
    count,      \* attemptCount, the number of the last attempt
    attempt,    \* AssessmentAttempt.status
    saved,      \* the version of the stored answers
    scored,     \* the version the result was computed from
    reviews,    \* applications with a ManualReview row
    decision,   \* the last CandidateDecisionHistory row
    decisions,  \* and how many there are
    handler, tick

world == <<time, drive>>
registration == <<profiles, application, completed, assigned>>
paper == <<assignment, count, attempt, saved, scored, reviews>>
verdict == <<decision, decisions>>
vars == <<world, registration, paper, verdict, handler, tick>>

Init ==
    /\ time = 0
    /\ drive = [d \in Drives |-> "NONE"]
    /\ profiles = {} /\ completed = {}
    /\ application = [a \in Application |-> "NONE"]
    /\ assigned = [a \in Application |-> 0]
    /\ assignment = [a \in Application |-> "NONE"]
    /\ count = [a \in Application |-> 0]
    /\ attempt = [a \in Application |-> "NONE"]
    /\ saved = [a \in Application |-> 0]
    /\ scored = [a \in Application |-> Null] /\ reviews = {}
    /\ decision = [a \in Application |-> Null] /\ decisions = 0
    /\ handler = [r \in Requests |-> Idle]
    /\ tick = [k \in Ticks |-> Idle]

DriveIsOpen(d) ==
    /\ drive[d] = "OPEN"
    /\ OpensAt[d] # Null => time >= OpensAt[d]
    /\ ClosesAt[d] # Null => time <= ClosesAt[d]

Goes(r, state) == handler' = [handler EXCEPT ![r] = state]
At(r, op) == handler[r].op = op

-----------------------------------------------------------------------------
(* POST /:token/register reads the drive; its transaction then looks for   *)
(* the candidate by the hash of the address ...                            *)
Register(r, a) ==
    /\ handler[r] = Idle
    /\ DriveIsOpen(a[2])
    /\ Goes(r, [op |-> "candidate", a |-> a])
    /\ UNCHANGED <<world, registration, paper, verdict, tick>>

FindCandidate(r) ==
    /\ At(r, "candidate")
    /\ LET a == handler[r].a
       IN Goes(r, IF a[1] \in profiles THEN [op |-> "application", a |-> a]
                  ELSE [op |-> "insert", a |-> a, missing |-> Records])
    /\ UNCHANGED <<world, registration, paper, verdict, tick>>

(* ... for the application, which must not be completed ...                *)
FindApplication(r) ==
    /\ At(r, "application")
    /\ LET a == handler[r].a
       IN Goes(r, IF a \in completed THEN Idle
                  ELSE IF application[a] # "NONE" THEN [op |-> "assignment", a |-> a]
                  ELSE [op |-> "insert", a |-> a, missing |-> {"application", "assignment"}])
    /\ UNCHANGED <<world, registration, paper, verdict, tick>>

(* ... and for its assignment.                                             *)
FindAssignment(r) ==
    /\ At(r, "assignment")
    /\ LET a == handler[r].a
       IN Goes(r, IF assigned[a] # 0 THEN Idle
                  ELSE [op |-> "insert", a |-> a, missing |-> {"assignment"}])
    /\ UNCHANGED <<world, registration, paper, verdict, tick>>

(* Mutation: no unique constraint on candidateId, driveId. *)
BugConflict(r) == "profile" \in handler[r].missing /\ handler[r].a[1] \in profiles
Conflict(r) ==
    \/ "profile" \in handler[r].missing /\ handler[r].a[1] \in profiles
    \/ "application" \in handler[r].missing /\ application[handler[r].a] # "NONE"

(* The transaction commits what was missing ...                            *)
RegisterCommit(r) ==
    /\ At(r, "insert") /\ ~Conflict(r)
    /\ LET a == handler[r].a
           missing == handler[r].missing
       IN /\ profiles' = profiles \cup {a[1]}
          /\ application' = IF "application" \in missing
                            THEN [application EXCEPT ![a] = "APPLIED"] ELSE application
          /\ assigned' = [assigned EXCEPT ![a] = @ + 1]
          /\ assignment' = [assignment EXCEPT ![a] = "AVAILABLE"]
    /\ Goes(r, Idle)
    /\ UNCHANGED <<world, completed, count, attempt, saved, scored,
                   reviews, verdict, tick>>

(* ... or another registration inserted the same row first.                *)
RegisterConflict(r) ==
    /\ At(r, "insert") /\ Conflict(r)
    /\ Goes(r, Idle)
    /\ UNCHANGED <<world, registration, paper, verdict, tick>>

-----------------------------------------------------------------------------
Startable(a) == assignment[a] = "AVAILABLE"

(* POST /attempts/start.  Of its reads the last one decides: an attempt    *)
(* that exists has an assignment that is not available.                    *)
Start(r, a) ==
    /\ handler[r] = Idle
    /\ application[a] # "NONE" /\ a \notin completed
    /\ DriveIsOpen(a[2])
    /\ attempt[a] # "IN_PROGRESS" /\ Startable(a)
    /\ Goes(r, [op |-> "start", a |-> a, number |-> count[a] + 1])
    /\ UNCHANGED <<world, registration, paper, verdict, tick>>

(* Mutation: no unique constraint on assignmentId, attemptNumber. *)
BugNumberTaken(r) == FALSE
NumberTaken(r) == handler[r].number <= count[handler[r].a]

StartCommit(r) ==
    /\ At(r, "start") /\ ~NumberTaken(r)
    /\ LET a == handler[r].a
       IN /\ count' = [count EXCEPT ![a] = @ + 1]
          /\ attempt' = [attempt EXCEPT ![a] = "IN_PROGRESS"]
          /\ assignment' = [assignment EXCEPT ![a] = "IN_PROGRESS"]
          /\ application' = [application EXCEPT ![a] = "ASSESSING"]
    /\ Goes(r, Idle)
    /\ UNCHANGED <<world, profiles, completed, assigned, saved, scored,
                   reviews, verdict, tick>>

StartConflict(r) ==
    /\ At(r, "start") /\ NumberTaken(r)
    /\ Goes(r, Idle)
    /\ UNCHANGED <<world, registration, paper, verdict, tick>>

(* PATCH /attempts/:id/answers checks the attempt, then stores the answer. *)
Save(r, a) ==
    /\ handler[r] = Idle
    /\ attempt[a] = "IN_PROGRESS"
    /\ Goes(r, [op |-> "save", a |-> a])
    /\ UNCHANGED <<world, registration, paper, verdict, tick>>

SaveCommit(r) ==
    /\ At(r, "save")
    /\ saved[handler[r].a] < MaxSaves
    /\ saved' = [saved EXCEPT ![handler[r].a] = @ + 1]
    /\ Goes(r, Idle)
    /\ UNCHANGED <<world, registration, assignment, count, attempt, scored,
                   reviews, verdict, tick>>

(* POST /attempts/:id/submit reads the attempt and scores its answers ...  *)
Submit(r, a) ==
    /\ handler[r] = Idle
    /\ attempt[a] = "IN_PROGRESS"
    /\ Goes(r, [op |-> "submit", a |-> a, answers |-> saved[a]])
    /\ UNCHANGED <<world, registration, paper, verdict, tick>>

(* Whether the answers a submission read are to be reviewed.               *)
Pending(r) == handler[r].answers \in Typed[handler[r].a[2]]

(* Mutation: no unique constraint on attemptQuestionId, reviewRound. *)
BugReviewTaken(r) == FALSE
ReviewTaken(r) == Pending(r) /\ handler[r].a \in reviews

(* Mutation: the application is left open. *)
Completes(a) == {a}

(* Mutation: an attempt with nothing to review stays unpublished. *)
AttemptAfter(r) == IF Pending(r) THEN "NEEDS_REVIEW" ELSE "PUBLISHED"

(* ... and writes the result, whatever has become of the attempt.          *)
SubmitCommit(r) ==
    /\ At(r, "submit") /\ ~ReviewTaken(r)
    /\ LET a == handler[r].a
       IN /\ attempt' = [attempt EXCEPT ![a] = AttemptAfter(r)]
          /\ scored' = [scored EXCEPT ![a] = handler[r].answers]
          /\ assignment' = [assignment EXCEPT ![a] = IF Pending(r) THEN "SUBMITTED" ELSE "COMPLETED"]
          /\ application' = [application EXCEPT ![a] = "UNDER_REVIEW"]
          /\ completed' = completed \cup Completes(a)
          /\ reviews' = IF Pending(r) THEN reviews \cup {a} ELSE reviews
    /\ Goes(r, Idle)
    /\ UNCHANGED <<world, profiles, assigned, count, saved, verdict, tick>>

(* A submission that would add the same reviews again is rolled back.      *)
SubmitConflict(r) ==
    /\ At(r, "submit") /\ ReviewTaken(r)
    /\ Goes(r, Idle)
    /\ UNCHANGED <<world, registration, paper, verdict, tick>>

(* The request dies before its transaction commits.                        *)
Abandon(r) ==
    /\ handler[r] # Idle
    /\ Goes(r, Idle)
    /\ UNCHANGED <<world, registration, paper, verdict, tick>>

-----------------------------------------------------------------------------
(* POST /drives, with a published test.                                    *)
CreateDrive(d) ==
    /\ drive[d] = "NONE"
    /\ drive' = [drive EXCEPT ![d] = "OPEN"]
    /\ UNCHANGED <<time, registration, paper, verdict, handler, tick>>

(* PATCH /drives/:id/close.                                                *)
CloseDrive(d) ==
    /\ drive[d] # "NONE"
    /\ drive' = [drive EXCEPT ![d] = "CLOSED"]
    /\ UNCHANGED <<time, registration, paper, verdict, handler, tick>>

(* PATCH /drives/:id/candidates/:candidateId, at any time.                 *)
Decide(a, d) ==
    /\ application[a] # "NONE" /\ decisions < MaxDecisions
    /\ application' = [application EXCEPT ![a] = d]
    /\ decision' = [decision EXCEPT ![a] = d] /\ decisions' = decisions + 1
    /\ UNCHANGED <<world, profiles, completed, assigned, paper, handler, tick>>

(* The last review of a submitted attempt (module Reviews): the request    *)
(* names the attempt; the reviewers' list shows those of employees only.   *)
ReviewPublishes(a) ==
    /\ attempt[a] = "NEEDS_REVIEW"
    /\ attempt' = [attempt EXCEPT ![a] = "PUBLISHED"]
    /\ assignment' = [assignment EXCEPT ![a] = "COMPLETED"]
    /\ UNCHANGED <<world, registration, count, saved, scored, reviews,
                   verdict, handler, tick>>

(* closeDueAssignments, of one of the assignments a tick finds overdue: it *)
(* is found, its attempt looked for, and its status written.               *)
FindDue(k, a) ==
    /\ tick[k] = Idle
    /\ assignment[a] \in {"AVAILABLE", "IN_PROGRESS"}
    /\ ClosesAt[a[2]] # Null /\ ClosesAt[a[2]] < time
    /\ tick' = [tick EXCEPT ![k] = [op |-> "look", a |-> a]]
    /\ UNCHANGED <<world, registration, paper, verdict, handler>>

LookForSubmitted(k) ==
    /\ tick[k].op = "look"
    /\ LET a == tick[k].a
       IN tick' = [tick EXCEPT ![k] = [op |-> "close", a |-> a, status |->
                      IF attempt[a] \in Finished THEN "COMPLETED" ELSE "EXPIRED"]]
    /\ UNCHANGED <<world, registration, paper, verdict, handler>>

CloseDue(k) ==
    /\ tick[k].op = "close"
    /\ assignment' = [assignment EXCEPT ![tick[k].a] = tick[k].status]
    /\ tick' = [tick EXCEPT ![k] = Idle]
    /\ UNCHANGED <<world, registration, count, attempt, saved, scored, reviews,
                   verdict, handler>>

PassTime ==
    /\ time < MaxTime
    /\ time' = time + 1
    /\ UNCHANGED <<drive, registration, paper, verdict, handler, tick>>

RequestStep(r) ==
    \/ \E a \in Application : Register(r, a) \/ Start(r, a) \/ Save(r, a) \/ Submit(r, a)
    \/ FindCandidate(r) \/ FindApplication(r) \/ FindAssignment(r)
    \/ RegisterCommit(r) \/ RegisterConflict(r)
    \/ StartCommit(r) \/ StartConflict(r)
    \/ SaveCommit(r) \/ SubmitCommit(r) \/ SubmitConflict(r)
    \/ Abandon(r)

RecruiterStep ==
    \/ \E d \in Drives : CreateDrive(d) \/ CloseDrive(d)
    \/ \E a \in Application : ReviewPublishes(a) \/ \E d \in Decisions : Decide(a, d)

TickStep(k) ==
    \/ \E a \in Application : FindDue(k, a)
    \/ LookForSubmitted(k) \/ CloseDue(k)

Next ==
    \/ \E r \in Requests : RequestStep(r)
    \/ \E k \in Ticks : TickStep(k)
    \/ RecruiterStep \/ PassTime

Spec == Init /\ [][Next]_vars

-----------------------------------------------------------------------------
(* The type invariant. *)
TypeOK ==
    /\ time \in Times
    /\ drive \in [Drives -> {"NONE", "OPEN", "CLOSED"}]
    /\ profiles \subseteq Candidates /\ completed \subseteq Application
    /\ application \in [Application -> ApplicationStatus]
    /\ assigned \in [Application -> Nat]
    /\ assignment \in [Application -> AssignmentStatus]
    /\ count \in [Application -> Nat]
    /\ attempt \in [Application -> AttemptStatus]
    /\ saved \in [Application -> 0..MaxSaves]
    /\ scored \in [Application -> 0..MaxSaves \cup {Null}]
    /\ reviews \subseteq Application
    /\ decision \in [Application -> Decisions \cup {Null}]
    /\ decisions \in 0..MaxDecisions
    /\ handler \in [Requests -> HandlerState]
    /\ tick \in [Ticks -> TickState]

(* However many registrations of a candidate overlap, an application has   *)
(* exactly one assignment, although nothing makes assignments unique.      *)
OneAssignmentEach ==
    \A a \in Application : assigned[a] = IF application[a] = "NONE" THEN 0 ELSE 1

(* However many starts overlap, an application has at most one attempt,    *)
(* and it is completed exactly when that attempt was submitted: nobody     *)
(* sits a test twice by registering again.                                 *)
OneSitting ==
    \A a \in Application :
        /\ count[a] = IF attempt[a] = "NONE" THEN 0 ELSE 1
        /\ a \in completed <=> attempt[a] \in Finished

(* A result that was reviewed is never sent back to review, although a     *)
(* submission that overlapped the first one looks only at what it read.    *)
ReviewedStaysPublished ==
    [][\A a \in reviews : attempt[a] = "PUBLISHED" => attempt'[a] = "PUBLISHED"]_vars

(* Once an application is completed and no submission is under way, only a *)
(* recruiter's decision changes its status: registering or starting again  *)
(* does not undo the decision.                                             *)
DecisionStands ==
    [][\A a \in completed :
          (\A r \in Requests : At(r, "submit") => handler[r].a # a) =>
              application'[a] = application[a] \/ decisions' > decisions]_vars

(* The requests of candidates, recruiters and ticks, in any overlap, keep  *)
(* the contract of the drives: admitted once and only who asked in the     *)
(* window, one sitting, a result of stored answers, reviewed once and for  *)
(* good; expired only after the window.                                    *)
Asked(h) ==
    CASE h.op = "start" -> <<"start", h.a>>
      [] h.op = "save" -> <<"save", h.a>>
      [] h.op = "submit" -> <<"submit", h.a, h.answers>>
      [] OTHER -> <<"register", h.a>>

Asks == {Asked(handler[r]) : r \in {q \in Requests : handler[q] # Idle}}

Contract == INSTANCE RecruitmentContract WITH
    asks <- Asks,
    status <- application,
    place <- assignment,
    sheet <- attempt,
    marked <- reviews

RecruitmentContractSpec == Contract!Spec

-----------------------------------------------------------------------------
(* What the documents say, and the code does not keep.                     *)

(* DATA_MODEL.md on CandidateDecisionHistory: "current state derives from  *)
(* latest valid decision".  A start or a submission overwrites it.         *)
StateIsLatestDecision ==
    \A a \in Application : decision[a] # Null => application[a] = decision[a]

(* DATA_MODEL.md on RecruitmentDrive: "closed drives stop new              *)
(* applications".  A registration that read the drive before is admitted.  *)
ClosedDrivesAdmitNobody ==
    [][\A a \in Application : drive[a[2]] = "CLOSED" /\ application[a] = "NONE"
          => application'[a] = "NONE"]_vars

-----------------------------------------------------------------------------
(* The inductive invariant: an application is inserted together with its   *)
(* assignment, so a registration that finds one finds the other; and an    *)
(* available assignment has no attempt, so every start is about to create  *)
(* attempt number 1.                                                       *)
Rows ==
    \A a \in Application :
        /\ application[a] # "NONE" => a[1] \in profiles
        /\ application[a] = "NONE" => attempt[a] = "NONE" /\ assignment[a] = "NONE"
        /\ assignment[a] = "AVAILABLE" => attempt[a] = "NONE"

Knows(h) ==
    /\ h.op = "insert" => {"application", "assignment"} \subseteq h.missing
    /\ h.op = "assignment" => application[h.a] # "NONE"
    /\ h.op = "start" => h.number = 1 /\ application[h.a] # "NONE"
    /\ h.op \in {"save", "submit"} => attempt[h.a] # "NONE"

SittingInv ==
    /\ TypeOK /\ OneAssignmentEach /\ OneSitting /\ Rows
    /\ \A r \in Requests : Knows(handler[r])
    /\ \A k \in Ticks : tick[k] # Idle => application[tick[k].a] # "NONE"

(* What is done later rests on what was read: answers that were stored, an *)
(* assignment that was overdue and, to complete it, an attempt handed in;  *)
(* and what waits for a reviewer was given to one.                         *)
Overdue(a) == ClosesAt[a[2]] # Null /\ ClosesAt[a[2]] < time

Backed ==
    /\ \A a \in Application : attempt[a] = "NEEDS_REVIEW" => a \in reviews
    /\ \A r \in Requests : At(r, "submit") => handler[r].answers <= saved[handler[r].a]
    /\ \A k \in Ticks : tick[k] # Idle =>
          /\ Overdue(tick[k].a)
          /\ tick[k].op = "close" /\ tick[k].status = "COMPLETED" =>
                attempt[tick[k].a] \in Finished

RecruitmentInv == SittingInv /\ Backed
=============================================================================
