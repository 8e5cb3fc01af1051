------------------------- MODULE RecruitmentProofs -------------------------
(***************************************************************************)
(* Proofs about Recruitment, for any number of candidates, drives,         *)
(* concurrent requests and ticks.                                          *)
(***************************************************************************)
EXTENDS Recruitment, TLAPS

USE RecruitmentAssumption

(* The rows the requests read and write, without the requests.             *)
RowsOK ==
    /\ time \in Times
    /\ drive \in [Drives -> {"NONE", "OPEN", "CLOSED"}]
    /\ profiles \subseteq Candidates /\ completed \subseteq Application
    /\ application \in [Application -> ApplicationStatus]
    /\ assigned \in [Application -> Nat]
    /\ assignment \in [Application -> AssignmentStatus]
    /\ count \in [Application -> Nat]
    /\ attempt \in [Application -> AttemptStatus]
    /\ saved \in [Application -> 0..MaxSaves]
    /\ scored \in [Application -> 0..MaxSaves \cup {Null}]
    /\ reviews \subseteq Application
    /\ decision \in [Application -> Decisions \cup {Null}]
    /\ decisions \in 0..MaxDecisions

RowFacts == RowsOK /\ OneAssignmentEach /\ OneSitting /\ Rows

HandlersOK ==
    /\ handler \in [Requests -> HandlerState]
    /\ \A r \in Requests : Knows(handler[r])

TicksOK ==
    /\ tick \in [Ticks -> TickState]
    /\ \A k \in Ticks : tick[k] # Idle => application[tick[k].a] # "NONE"

(* What exists stays: applications and attempts are never deleted.         *)
Grows ==
    /\ \A a \in Application : application[a] # "NONE" => application'[a] # "NONE"
    /\ \A a \in Application : attempt[a] # "NONE" => attempt'[a] # "NONE"

LEMMA InvParts == SittingInv <=> RowFacts /\ HandlersOK /\ TicksOK
  BY DEF SittingInv, TypeOK, RowFacts, RowsOK, HandlersOK, TicksOK

LEMMA InvPartsAfter == RowFacts' /\ HandlersOK' /\ TicksOK' => SittingInv'
  BY DEF SittingInv, TypeOK, RowFacts, RowsOK, HandlersOK, TicksOK

LEMMA Pairs ==
  ASSUME NEW a \in Application
  PROVE  a[1] \in Candidates /\ a[2] \in Drives
  BY DEF Application

LEMMA HandlerShape ==
  ASSUME NEW h \in HandlerState
  PROVE  /\ h.op # "idle" => h.a \in Application
         /\ h.op = "insert" => h.missing \subseteq Records
         /\ h.op = "start" => h.number \in Nat
         /\ h.op = "submit" => h.answers \in 0..MaxSaves
         /\ h.op = "idle" => h = Idle
  BY DEF HandlerState, Idle

LEMMA TickShape ==
  ASSUME NEW t \in TickState
  PROVE  /\ t.op \in {"look", "close"} => t.a \in Application /\ t # Idle
         /\ t # Idle => t.a \in Application
         /\ t.op = "close" => t.status \in {"COMPLETED", "EXPIRED"}
  BY DEF TickState, Idle

LEMMA HandlersKeep ==
  ASSUME HandlersOK, Grows, NEW r \in Requests, NEW s \in HandlerState,
         handler' = [handler EXCEPT ![r] = s], Knows(s)'
  PROVE  HandlersOK'
  <1>1. handler' \in [Requests -> HandlerState]
    BY DEF HandlersOK
  <1>2. ASSUME NEW q \in Requests PROVE Knows(handler[q])'
    <2>1. CASE q = r
      <3>1. handler'[q] = s
        BY <2>1 DEF HandlersOK
      <3> QED BY <3>1 DEF Knows
    <2>2. CASE q # r
      <3>1. handler'[q] = handler[q] /\ handler[q] \in HandlerState
        BY <2>2 DEF HandlersOK
      <3>2. handler[q].op # "idle" => handler[q].a \in Application
        BY <3>1, HandlerShape
      <3> QED BY <3>1, <3>2 DEF HandlersOK, Knows, Grows
    <2> QED BY <2>1, <2>2
  <1> QED BY <1>1, <1>2 DEF HandlersOK

LEMMA HandlersStay ==
  ASSUME HandlersOK, Grows, handler' = handler
  PROVE  HandlersOK'
  <1>1. ASSUME NEW q \in Requests PROVE Knows(handler[q])'
    <2>1. handler[q].op # "idle" => handler[q].a \in Application
      BY HandlerShape DEF HandlersOK
    <2> QED BY <2>1 DEF HandlersOK, Knows, Grows
  <1> QED BY <1>1 DEF HandlersOK

LEMMA TicksStay ==
  ASSUME TicksOK, Grows, tick' = tick
  PROVE  TicksOK'
  <1>1. ASSUME NEW k \in Ticks, tick[k] # Idle PROVE application'[tick[k].a] # "NONE"
    <2>1. tick[k].a \in Application
      BY <1>1, TickShape DEF TicksOK
    <2> QED BY <1>1, <2>1 DEF TicksOK, Grows
  <1> QED BY <1>1 DEF TicksOK

LEMMA RowsStay ==
  ASSUME RowFacts, UNCHANGED <<world, registration, paper, verdict>>
  PROVE  RowFacts' /\ Grows
  BY DEF RowFacts, RowsOK, OneAssignmentEach, OneSitting, Rows, Grows,
         world, registration, paper, verdict

LEMMA InitInv == Init => SittingInv
  <1> SUFFICES ASSUME Init PROVE SittingInv
    OBVIOUS
  <1>1. RowFacts
    <2>1. RowsOK
      BY DEF Init, RowsOK, Times, ApplicationStatus, AssignmentStatus, AttemptStatus
    <2>2. OneAssignmentEach /\ OneSitting /\ Rows
      BY DEF Init, OneAssignmentEach, OneSitting, Rows, Finished
    <2> QED BY <2>1, <2>2 DEF RowFacts
  <1>2. HandlersOK
    BY DEF Init, HandlersOK, HandlerState, Knows, Idle
  <1>3. TicksOK
    BY DEF Init, TicksOK, TickState
  <1> QED BY <1>1, <1>2, <1>3, InvParts

(* A request that reads goes on with what it found; nothing else changes.  *)
LEMMA ReadingKeeps ==
  ASSUME SittingInv, NEW r \in Requests, NEW s \in HandlerState,
         handler' = [handler EXCEPT ![r] = s], Knows(s),
         UNCHANGED <<world, registration, paper, verdict, tick>>
  PROVE  SittingInv'
  <1>1. RowFacts' /\ Grows
    BY InvParts, RowsStay
  <1>2. Knows(s)'
    BY DEF Knows, registration, paper
  <1>3. HandlersOK' /\ TicksOK'
    BY <1>1, <1>2, InvParts, HandlersKeep, TicksStay
  <1> QED BY <1>1, <1>3, InvPartsAfter

LEMMA IdleKnows == Idle \in HandlerState /\ Knows(Idle)
  BY DEF HandlerState, Idle, Knows

LEMMA RegisterKeeps ==
  ASSUME SittingInv, NEW r \in Requests, NEW a \in Application, Register(r, a)
  PROVE  SittingInv'
  <1>1. PICK s : s = [op |-> "candidate", a |-> a]
    OBVIOUS
  <1>2. s \in HandlerState /\ Knows(s)
    BY <1>1 DEF HandlerState, Knows
  <1> QED BY <1>1, <1>2, ReadingKeeps DEF Register, Goes

LEMMA FindCandidateKeeps ==
  ASSUME SittingInv, NEW r \in Requests, FindCandidate(r)
  PROVE  SittingInv'
  <1>1. PICK a \in Application : a = handler[r].a
    BY HandlerShape DEF FindCandidate, At, SittingInv, TypeOK
  <1>2. PICK s : s = IF a[1] \in profiles THEN [op |-> "application", a |-> a]
                     ELSE [op |-> "insert", a |-> a, missing |-> Records]
    OBVIOUS
  <1>3. s \in HandlerState /\ Knows(s)
    BY <1>2 DEF HandlerState, Knows, Records
  <1> QED BY <1>1, <1>2, <1>3, ReadingKeeps DEF FindCandidate, Goes

LEMMA FindApplicationKeeps ==
  ASSUME SittingInv, NEW r \in Requests, FindApplication(r)
  PROVE  SittingInv'
  <1>1. PICK a \in Application : a = handler[r].a
    BY HandlerShape DEF FindApplication, At, SittingInv, TypeOK
  <1>2. PICK s : s = IF a \in completed THEN Idle
                     ELSE IF application[a] # "NONE" THEN [op |-> "assignment", a |-> a]
                     ELSE [op |-> "insert", a |-> a, missing |-> {"application", "assignment"}]
    OBVIOUS
  <1>3. s \in HandlerState /\ Knows(s)
    BY <1>2 DEF HandlerState, Knows, Records, Idle
  <1> QED BY <1>1, <1>2, <1>3, ReadingKeeps DEF FindApplication, Goes

(* An application that exists has its assignment: nothing is inserted.     *)
LEMMA FindAssignmentKeeps ==
  ASSUME SittingInv, NEW r \in Requests, FindAssignment(r)
  PROVE  SittingInv'
  <1>1. PICK a \in Application : a = handler[r].a
    BY HandlerShape DEF FindAssignment, At, SittingInv, TypeOK
  <1>2. assigned[a] # 0
    BY <1>1 DEF FindAssignment, At, SittingInv, Knows, OneAssignmentEach
  <1> QED BY <1>1, <1>2, IdleKnows, ReadingKeeps DEF FindAssignment, Goes

LEMMA StartKeeps ==
  ASSUME SittingInv, NEW r \in Requests, NEW a \in Application, Start(r, a)
  PROVE  SittingInv'
  <1>1. PICK s : s = [op |-> "start", a |-> a, number |-> count[a] + 1]
    OBVIOUS
  <1>2. attempt[a] = "NONE" /\ count[a] = 0 /\ application[a] # "NONE"
    BY DEF Start, Startable, SittingInv, Rows, OneSitting
  <1>3. s \in HandlerState /\ Knows(s)
    BY <1>1, <1>2 DEF HandlerState, Knows
  <1> QED BY <1>1, <1>3, ReadingKeeps DEF Start, Goes

LEMMA SaveKeeps ==
  ASSUME SittingInv, NEW r \in Requests, NEW a \in Application, Save(r, a)
  PROVE  SittingInv'
  <1>1. PICK s : s = [op |-> "save", a |-> a]
    OBVIOUS
  <1>2. s \in HandlerState /\ Knows(s)
    BY <1>1 DEF HandlerState, Knows, Save
  <1> QED BY <1>1, <1>2, ReadingKeeps DEF Save, Goes

LEMMA SubmitKeeps ==
  ASSUME SittingInv, NEW r \in Requests, NEW a \in Application, Submit(r, a)
  PROVE  SittingInv'
  <1>1. PICK s : s = [op |-> "submit", a |-> a, answers |-> saved[a]]
    OBVIOUS
  <1>2. saved[a] \in 0..MaxSaves
    BY DEF SittingInv, TypeOK
  <1>3. s \in HandlerState /\ Knows(s)
    BY <1>1, <1>2 DEF HandlerState, Knows, Submit
  <1> QED BY <1>1, <1>3, ReadingKeeps DEF Submit, Goes

LEMMA GivingUpKeeps ==
  ASSUME SittingInv, NEW r \in Requests,
         RegisterConflict(r) \/ StartConflict(r) \/ SubmitConflict(r) \/ Abandon(r)
  PROVE  SittingInv'
  BY IdleKnows, ReadingKeeps
     DEF RegisterConflict, StartConflict, SubmitConflict, Abandon, Goes

-----------------------------------------------------------------------------
(* A request that commits or gives up becomes idle, and what the commit    *)
(* did to the rows is all there is to show.                                *)
LEMMA CommitKeeps ==
  ASSUME SittingInv, NEW r \in Requests, handler' = [handler EXCEPT ![r] = Idle],
         RowFacts', Grows, tick' = tick
  PROVE  SittingInv'
  <1>1. Knows(Idle)'
    BY DEF Knows, Idle
  <1> QED BY <1>1, InvParts, IdleKnows, HandlersKeep, TicksStay, InvPartsAfter

LEMMA RecruiterKeeps ==
  ASSUME SittingInv, handler' = handler, RowFacts', Grows, tick' = tick
  PROVE  SittingInv'
  BY InvParts, HandlersStay, TicksStay, InvPartsAfter

(* A commit that inserts the assignment inserts the application too, and   *)
(* the unique constraint tells it when the application is there already.   *)
LEMMA RegisterCommitKeeps ==
  ASSUME SittingInv, NEW r \in Requests, RegisterCommit(r)
  PROVE  SittingInv'
  <1>1. RowFacts /\ handler[r] \in HandlerState
    BY InvParts DEF SittingInv, TypeOK
  <1>2. PICK a \in Application : a = handler[r].a
    BY <1>1, HandlerShape DEF RegisterCommit, At
  <1>3. /\ "application" \in handler[r].missing
        /\ application[a] = "NONE" /\ assigned[a] = 0
        /\ a[1] \in Candidates
    BY <1>1, <1>2, Pairs
       DEF RegisterCommit, At, Conflict, SittingInv, Knows, OneAssignmentEach
  <1>4. /\ profiles' = profiles \cup {a[1]}
        /\ application' = [application EXCEPT ![a] = "APPLIED"]
        /\ assigned' = [assigned EXCEPT ![a] = @ + 1]
        /\ assignment' = [assignment EXCEPT ![a] = "AVAILABLE"]
        /\ handler' = [handler EXCEPT ![r] = Idle]
        /\ UNCHANGED <<time, drive, completed, count, attempt, saved, scored,
                       reviews, decision, decisions, tick>>
    BY <1>2, <1>3 DEF RegisterCommit, Goes, world, verdict
  <1>5. RowsOK'
    BY <1>1, <1>3, <1>4 DEF RowFacts, RowsOK, ApplicationStatus, AssignmentStatus
  <1>6. OneAssignmentEach' /\ OneSitting'
    BY <1>1, <1>3, <1>4 DEF RowFacts, RowsOK, OneAssignmentEach, OneSitting
  <1>7. Rows' /\ Grows
    BY <1>1, <1>3, <1>4 DEF RowFacts, RowsOK, Rows, Grows
  <1> QED BY <1>4, <1>5, <1>6, <1>7, CommitKeeps DEF RowFacts

(* Every start under way wants attempt number 1, so only one commits.      *)
LEMMA StartCommitFirst ==
  ASSUME SittingInv, NEW r \in Requests, StartCommit(r)
  PROVE  \E a \in Application :
            /\ application[a] # "NONE" /\ attempt[a] = "NONE" /\ count[a] = 0
            /\ count' = [count EXCEPT ![a] = @ + 1]
            /\ attempt' = [attempt EXCEPT ![a] = "IN_PROGRESS"]
            /\ assignment' = [assignment EXCEPT ![a] = "IN_PROGRESS"]
            /\ application' = [application EXCEPT ![a] = "ASSESSING"]
            /\ handler' = [handler EXCEPT ![r] = Idle]
            /\ UNCHANGED <<time, drive, profiles, completed, assigned, saved, scored,
                           reviews, decision, decisions, tick>>
  <1>1. handler[r] \in HandlerState
    BY DEF SittingInv, TypeOK
  <1>2. PICK a \in Application : a = handler[r].a
    BY <1>1, HandlerShape DEF StartCommit, At
  <1>3. application[a] # "NONE" /\ handler[r].number = 1
    BY <1>2 DEF StartCommit, At, SittingInv, Knows
  <1>4. count[a] \in Nat /\ ~(1 <= count[a])
    BY <1>2, <1>3 DEF StartCommit, NumberTaken, SittingInv, TypeOK
  <1>5. count[a] = 0 /\ attempt[a] = "NONE"
    BY <1>4 DEF SittingInv, OneSitting
  <1> WITNESS a \in Application
  <1> QED BY <1>2, <1>3, <1>5 DEF StartCommit, Goes, world, verdict

LEMMA StartCommitKeeps ==
  ASSUME SittingInv, NEW r \in Requests, StartCommit(r)
  PROVE  SittingInv'
  <1>1. RowFacts
    BY InvParts
  <1>2. PICK a \in Application :
            /\ application[a] # "NONE" /\ attempt[a] = "NONE" /\ count[a] = 0
            /\ count' = [count EXCEPT ![a] = @ + 1]
            /\ attempt' = [attempt EXCEPT ![a] = "IN_PROGRESS"]
            /\ assignment' = [assignment EXCEPT ![a] = "IN_PROGRESS"]
            /\ application' = [application EXCEPT ![a] = "ASSESSING"]
            /\ handler' = [handler EXCEPT ![r] = Idle]
            /\ UNCHANGED <<time, drive, profiles, completed, assigned, saved, scored,
                           reviews, decision, decisions, tick>>
    BY StartCommitFirst
  <1>3. RowsOK'
    BY <1>1, <1>2 DEF RowFacts, RowsOK, ApplicationStatus, AssignmentStatus, AttemptStatus
  <1>4. OneAssignmentEach'
    BY <1>1, <1>2 DEF RowFacts, RowsOK, OneAssignmentEach
  <1>5. OneSitting'
    BY <1>1, <1>2 DEF RowFacts, RowsOK, OneSitting, Finished
  <1>6. Rows' /\ Grows
    BY <1>1, <1>2 DEF RowFacts, RowsOK, Rows, Grows
  <1> QED BY <1>2, <1>3, <1>4, <1>5, <1>6, CommitKeeps DEF RowFacts

LEMMA SaveCommitKeeps ==
  ASSUME SittingInv, NEW r \in Requests, SaveCommit(r)
  PROVE  SittingInv'
  <1>1. RowFacts /\ handler[r] \in HandlerState
    BY InvParts DEF SittingInv, TypeOK
  <1>2. /\ saved' = [saved EXCEPT ![handler[r].a] = @ + 1]
        /\ saved[handler[r].a] < MaxSaves /\ handler[r].a \in Application
        /\ handler' = [handler EXCEPT ![r] = Idle]
        /\ UNCHANGED <<time, drive, profiles, application, completed, assigned,
                       assignment, count, attempt, scored, reviews, decision,
                       decisions, tick>>
    BY <1>1, HandlerShape DEF SaveCommit, At, Goes, world, registration, verdict
  <1>3. RowsOK'
    BY <1>1, <1>2 DEF RowFacts, RowsOK
  <1>4. OneAssignmentEach' /\ OneSitting' /\ Rows' /\ Grows
    BY <1>1, <1>2 DEF RowFacts, OneAssignmentEach, OneSitting, Rows, Grows
  <1> QED BY <1>2, <1>3, <1>4, CommitKeeps DEF RowFacts

LEMMA SubmitCommitKeeps ==
  ASSUME SittingInv, NEW r \in Requests, SubmitCommit(r)
  PROVE  SittingInv'
  <1>1. RowFacts /\ handler[r] \in HandlerState
    BY InvParts DEF SittingInv, TypeOK
  <1>2. PICK a \in Application, v \in 0..MaxSaves :
            a = handler[r].a /\ v = handler[r].answers
    BY <1>1, HandlerShape DEF SubmitCommit, At
  <1>3. attempt[a] # "NONE" /\ application[a] # "NONE" /\ count[a] = 1
    BY <1>2 DEF SubmitCommit, At, SittingInv, Knows, OneSitting, Rows
  <1>4. PICK after \in Finished, closed \in {"SUBMITTED", "COMPLETED"} :
            after = AttemptAfter(r)
            /\ closed = IF Pending(r) THEN "SUBMITTED" ELSE "COMPLETED"
    BY DEF AttemptAfter, Finished
  <1>5. /\ attempt' = [attempt EXCEPT ![a] = after]
        /\ scored' = [scored EXCEPT ![a] = v]
        /\ assignment' = [assignment EXCEPT ![a] = closed]
        /\ application' = [application EXCEPT ![a] = "UNDER_REVIEW"]
        /\ completed' = completed \cup {a}
        /\ reviews' = reviews \/ reviews' = reviews \cup {a}
        /\ handler' = [handler EXCEPT ![r] = Idle]
        /\ UNCHANGED <<time, drive, profiles, assigned, count, saved,
                       decision, decisions, tick>>
    BY <1>2, <1>4 DEF SubmitCommit, Completes, Goes, world, verdict
  <1>6. RowsOK'
    BY <1>1, <1>5
       DEF RowFacts, RowsOK, Finished, ApplicationStatus, AssignmentStatus, AttemptStatus
  <1>7. OneAssignmentEach'
    BY <1>1, <1>3, <1>5 DEF RowFacts, RowsOK, OneAssignmentEach
  <1>8. OneSitting'
    BY <1>1, <1>3, <1>5 DEF RowFacts, RowsOK, OneSitting, Finished
  <1>9. Rows' /\ Grows
    BY <1>1, <1>3, <1>5 DEF RowFacts, RowsOK, Rows, Grows, Finished
  <1> QED BY <1>5, <1>6, <1>7, <1>8, <1>9, CommitKeeps DEF RowFacts

-----------------------------------------------------------------------------
LEMMA DriveKeeps ==
  ASSUME SittingInv, NEW d \in Drives, CreateDrive(d) \/ CloseDrive(d)
  PROVE  SittingInv'
  <1>1. /\ drive' \in [Drives -> {"NONE", "OPEN", "CLOSED"}]
        /\ UNCHANGED <<time, profiles, application, completed, assigned,
                       assignment, count, attempt, saved, scored, reviews,
                       decision, decisions, handler, tick>>
    BY DEF CreateDrive, CloseDrive, SittingInv, TypeOK, registration, paper, verdict
  <1>2. RowFacts' /\ Grows
    BY <1>1, InvParts DEF RowFacts, RowsOK, OneAssignmentEach, OneSitting, Rows, Grows
  <1> QED BY <1>1, <1>2, RecruiterKeeps

LEMMA DecideKeeps ==
  ASSUME SittingInv, NEW a \in Application, NEW d \in Decisions, Decide(a, d)
  PROVE  SittingInv'
  <1>1. /\ application[a] # "NONE" /\ decisions < MaxDecisions
        /\ application' = [application EXCEPT ![a] = d]
        /\ decision' = [decision EXCEPT ![a] = d] /\ decisions' = decisions + 1
        /\ UNCHANGED <<time, drive, profiles, completed, assigned, assignment,
                       count, attempt, saved, scored, reviews, handler, tick>>
    BY DEF Decide, world, paper
  <1>2. RowsOK'
    BY <1>1, InvParts DEF RowFacts, RowsOK, ApplicationStatus
  <1>3. d # "NONE"
    OBVIOUS
  <1>4. OneAssignmentEach' /\ OneSitting' /\ Rows' /\ Grows
    BY <1>1, <1>3, InvParts
       DEF RowFacts, RowsOK, OneAssignmentEach, OneSitting, Rows, Grows
  <1> QED BY <1>1, <1>2, <1>4, RecruiterKeeps DEF RowFacts

LEMMA ReviewPublishesKeeps ==
  ASSUME SittingInv, NEW a \in Application, ReviewPublishes(a)
  PROVE  SittingInv'
  <1>1. /\ attempt[a] = "NEEDS_REVIEW"
        /\ attempt' = [attempt EXCEPT ![a] = "PUBLISHED"]
        /\ assignment' = [assignment EXCEPT ![a] = "COMPLETED"]
        /\ UNCHANGED <<time, drive, profiles, application, completed, assigned,
                       count, saved, scored, reviews, decision, decisions,
                       handler, tick>>
    BY DEF ReviewPublishes, world, registration, verdict
  <1>2. RowsOK'
    BY <1>1, InvParts DEF RowFacts, RowsOK, Finished, AssignmentStatus, AttemptStatus
  <1>3. OneAssignmentEach' /\ OneSitting'
    BY <1>1, InvParts DEF RowFacts, RowsOK, OneAssignmentEach, OneSitting, Finished
  <1>4. Rows' /\ Grows
    BY <1>1, InvParts DEF RowFacts, RowsOK, Rows, Grows
  <1> QED BY <1>1, <1>2, <1>3, <1>4, RecruiterKeeps DEF RowFacts

LEMMA PassTimeKeeps ==
  ASSUME SittingInv, PassTime
  PROVE  SittingInv'
  <1>1. /\ time' \in Times
        /\ UNCHANGED <<drive, profiles, application, completed, assigned,
                       assignment, count, attempt, saved, scored, reviews,
                       decision, decisions, handler, tick>>
    BY DEF PassTime, SittingInv, TypeOK, Times, registration, paper, verdict
  <1>2. RowFacts' /\ Grows
    BY <1>1, InvParts DEF RowFacts, RowsOK, OneAssignmentEach, OneSitting, Rows, Grows
  <1> QED BY <1>1, <1>2, RecruiterKeeps

(* A tick may write COMPLETED or EXPIRED over anything, but never          *)
(* AVAILABLE, so it lets nobody start again.                               *)
LEMMA TickKeeps ==
  ASSUME SittingInv, NEW k \in Ticks, TickStep(k)
  PROVE  SittingInv'
  <1>0. /\ RowFacts /\ HandlersOK /\ TicksOK
        /\ tick \in [Ticks -> TickState] /\ tick[k] \in TickState
    BY InvParts DEF TicksOK
  <1>1. PICK s \in TickState :
            /\ tick' = [tick EXCEPT ![k] = s]
            /\ s # Idle => application[s.a] # "NONE" /\ s.a \in Application
    <2>1. ASSUME NEW a \in Application, FindDue(k, a)
          PROVE  \E s \in TickState :
                    /\ tick' = [tick EXCEPT ![k] = s]
                    /\ s # Idle => application[s.a] # "NONE" /\ s.a \in Application
      <3>1. [op |-> "look", a |-> a] \in TickState
        BY DEF TickState
      <3>2. application[a] # "NONE"
        BY <2>1, <1>0 DEF FindDue, RowFacts, Rows
      <3>3. tick' = [tick EXCEPT ![k] = [op |-> "look", a |-> a]]
        BY <2>1 DEF FindDue
      <3> QED BY <3>1, <3>2, <3>3
    <2>2. ASSUME LookForSubmitted(k)
          PROVE  \E s \in TickState :
                    /\ tick' = [tick EXCEPT ![k] = s]
                    /\ s # Idle => application[s.a] # "NONE" /\ s.a \in Application
      <3>1. PICK a \in Application : a = tick[k].a
        BY <2>2, <1>0, TickShape DEF LookForSubmitted
      <3>2. application[a] # "NONE"
        BY <2>2, <3>1, <1>0, TickShape DEF LookForSubmitted, TicksOK
      <3>3. PICK st \in {"COMPLETED", "EXPIRED"} :
              st = IF attempt[a] \in Finished THEN "COMPLETED" ELSE "EXPIRED"
        OBVIOUS
      <3>4. [op |-> "close", a |-> a, status |-> st] \in TickState
        BY DEF TickState
      <3>5. tick' = [tick EXCEPT ![k] = [op |-> "close", a |-> a, status |-> st]]
        BY <2>2, <3>1, <3>3 DEF LookForSubmitted
      <3> QED BY <3>2, <3>4, <3>5
    <2>3. ASSUME CloseDue(k)
          PROVE  \E s \in TickState :
                    /\ tick' = [tick EXCEPT ![k] = s]
                    /\ s # Idle => application[s.a] # "NONE" /\ s.a \in Application
      <3>1. Idle \in TickState
        BY DEF TickState
      <3> QED BY <2>3, <3>1 DEF CloseDue
    <2> QED BY <2>1, <2>2, <2>3 DEF TickStep
  <1>2. /\ handler' = handler
        /\ UNCHANGED <<time, drive, profiles, application, completed, assigned,
                       count, attempt, saved, scored, reviews, decision, decisions>>
    BY DEF TickStep, FindDue, LookForSubmitted, CloseDue, world, registration,
           paper, verdict
  <1>3. \/ assignment' = assignment
        \/ \E a \in Application, st \in {"COMPLETED", "EXPIRED"} :
              /\ application[a] # "NONE"
              /\ assignment' = [assignment EXCEPT ![a] = st]
    <2>1. ASSUME CloseDue(k)
          PROVE  \E a \in Application, st \in {"COMPLETED", "EXPIRED"} :
                    /\ application[a] # "NONE"
                    /\ assignment' = [assignment EXCEPT ![a] = st]
      <3>1. /\ tick[k].a \in Application /\ tick[k].status \in {"COMPLETED", "EXPIRED"}
            /\ application[tick[k].a] # "NONE"
        BY <2>1, <1>0, TickShape DEF CloseDue, TicksOK
      <3> QED BY <2>1, <3>1 DEF CloseDue
    <2>2. ~CloseDue(k) => assignment' = assignment
      BY DEF TickStep, FindDue, LookForSubmitted, paper
    <2> QED BY <2>1, <2>2
  <1>4. RowsOK' /\ Rows'
    <2>1. CASE assignment' = assignment
      BY <1>0, <1>2, <2>1 DEF RowFacts, RowsOK, Rows
    <2>2. ASSUME NEW a \in Application, NEW st \in {"COMPLETED", "EXPIRED"},
                 application[a] # "NONE", assignment' = [assignment EXCEPT ![a] = st]
          PROVE  RowsOK' /\ Rows'
      BY <1>0, <1>2, <2>2 DEF RowFacts, RowsOK, Rows, AssignmentStatus
    <2> QED BY <1>3, <2>1, <2>2
  <1>5. RowFacts' /\ Grows
    BY <1>0, <1>2, <1>4 DEF RowFacts, OneAssignmentEach, OneSitting, Grows
  <1>6. HandlersOK'
    BY <1>0, <1>2, <1>5, HandlersStay
  <1>7. TicksOK'
    <2>1. tick' \in [Ticks -> TickState]
      BY <1>0, <1>1
    <2>2. ASSUME NEW j \in Ticks, tick'[j] # Idle PROVE application'[tick'[j].a] # "NONE"
      <3>1. tick'[j] = s \/ tick'[j] = tick[j]
        BY <1>0, <1>1
      <3> QED BY <1>0, <1>1, <1>2, <2>2, <3>1 DEF TicksOK
    <2> QED BY <2>1, <2>2 DEF TicksOK
  <1> QED BY <1>5, <1>6, <1>7, InvPartsAfter

LEMMA StutterKeeps == SittingInv /\ UNCHANGED vars => SittingInv'
  <1> SUFFICES ASSUME SittingInv, UNCHANGED vars PROVE SittingInv'
    OBVIOUS
  <1>1. RowFacts' /\ Grows
    BY InvParts, RowsStay DEF vars
  <1> QED BY <1>1, RecruiterKeeps DEF vars

LEMMA RequestKeeps ==
  ASSUME SittingInv, NEW r \in Requests, RequestStep(r)
  PROVE  SittingInv'
  BY RegisterKeeps, FindCandidateKeeps, FindApplicationKeeps, FindAssignmentKeeps,
     RegisterCommitKeeps, StartKeeps, StartCommitKeeps, SaveKeeps, SaveCommitKeeps,
     SubmitKeeps, SubmitCommitKeeps, GivingUpKeeps
     DEF RequestStep

LEMMA SittingKept == SittingInv /\ [Next]_vars => SittingInv'
  <1>1. RecruiterStep /\ SittingInv => SittingInv'
    BY DriveKeeps, DecideKeeps, ReviewPublishesKeeps DEF RecruiterStep
  <1> QED BY <1>1, RequestKeeps, TickKeeps, PassTimeKeeps, StutterKeeps DEF Next

-----------------------------------------------------------------------------
(* The requests whose commits touch an attempt or an application.          *)
LEMMA QuietSteps ==
  ASSUME [Next]_vars
  PROVE  \/ attempt' = attempt /\ application' = application
         \/ \E r \in Requests : RegisterCommit(r) \/ StartCommit(r) \/ SubmitCommit(r)
         \/ \E a \in Application : ReviewPublishes(a) \/ \E d \in Decisions : Decide(a, d)
  BY DEF Next, RequestStep, RecruiterStep, TickStep, Register, FindCandidate,
         FindApplication, FindAssignment, RegisterConflict, Start, StartConflict,
         Save, SaveCommit, Submit, SubmitConflict, Abandon, CreateDrive, CloseDrive,
         FindDue, LookForSubmitted, CloseDue, PassTime, vars, registration, paper

(* What is never undone: time, stored answers, reviews, and the handing in *)
(* of an attempt.                                                          *)
Lasting ==
    /\ time <= time' /\ reviews \subseteq reviews'
    /\ \A a \in Application :
          /\ saved[a] <= saved'[a]
          /\ attempt[a] \in Finished => attempt'[a] \in Finished

LEMMA NextLasting == ASSUME SittingInv, [Next]_vars PROVE Lasting
  <1>0. /\ time \in Nat /\ saved \in [Application -> 0..MaxSaves]
        /\ attempt \in [Application -> AttemptStatus]
    BY DEF SittingInv, TypeOK, Times
  <1>1. time' = time \/ PassTime
    BY DEF Next, RequestStep, RecruiterStep, TickStep, Register, FindCandidate,
       FindApplication, FindAssignment, RegisterCommit, RegisterConflict, Start,
       StartCommit, StartConflict, Save, SaveCommit, Submit, SubmitCommit,
       SubmitConflict, Abandon, CreateDrive, CloseDrive, ReviewPublishes, Decide,
       FindDue, LookForSubmitted, CloseDue, vars, world
  <1>2. reviews \subseteq reviews'
    BY DEF Next, RequestStep, RecruiterStep, TickStep, Register, FindCandidate,
       FindApplication, FindAssignment, RegisterCommit, RegisterConflict, Start,
       StartCommit, StartConflict, Save, SaveCommit, Submit, SubmitCommit,
       SubmitConflict, Abandon, CreateDrive, CloseDrive, ReviewPublishes, Decide,
       FindDue, LookForSubmitted, CloseDue, PassTime, vars, paper
  <1>3. saved' = saved \/ \E r \in Requests : SaveCommit(r)
    BY DEF Next, RequestStep, RecruiterStep, TickStep, Register, FindCandidate,
       FindApplication, FindAssignment, RegisterCommit, RegisterConflict, Start,
       StartCommit, StartConflict, Save, Submit, SubmitCommit,
       SubmitConflict, Abandon, CreateDrive, CloseDrive, ReviewPublishes, Decide,
       FindDue, LookForSubmitted, CloseDue, PassTime, vars, paper
  <1>4. ASSUME NEW a \in Application PROVE saved[a] <= saved'[a]
    BY <1>0, <1>3 DEF SaveCommit
  <1>5. ASSUME NEW a \in Application, attempt[a] \in Finished
        PROVE  attempt'[a] \in Finished
    <2>1. ASSUME NEW r \in Requests, RegisterCommit(r) PROVE attempt'[a] \in Finished
      BY <1>5, <2>1 DEF RegisterCommit
    <2>2. ASSUME NEW r \in Requests, StartCommit(r) PROVE attempt'[a] \in Finished
      BY <1>0, <1>5, <2>2, StartCommitFirst DEF Finished
    <2>3. ASSUME NEW r \in Requests, SubmitCommit(r) PROVE attempt'[a] \in Finished
      BY <1>0, <1>5, <2>3 DEF SubmitCommit, AttemptAfter, Finished
    <2>4. ASSUME NEW b \in Application, ReviewPublishes(b) PROVE attempt'[a] \in Finished
      BY <1>0, <1>5, <2>4 DEF ReviewPublishes, Finished
    <2>5. ASSUME NEW b \in Application, NEW d \in Decisions, Decide(b, d)
          PROVE  attempt'[a] \in Finished
      BY <1>5, <2>5 DEF Decide, paper
    <2> QED BY <1>5, <2>1, <2>2, <2>3, <2>4, <2>5, QuietSteps
  <1>6. time <= time'
    BY <1>0, <1>1 DEF PassTime
  <1> QED BY <1>2, <1>4, <1>5, <1>6 DEF Lasting

LEMMA InitBacked == Init => Backed
  BY DEF Init, Backed, At, Idle

LEMMA ReviewsBacked ==
  ASSUME SittingInv, Backed, [Next]_vars,
         NEW a \in Application, attempt'[a] = "NEEDS_REVIEW"
  PROVE  a \in reviews'
  <1>0. attempt \in [Application -> AttemptStatus] /\ (attempt[a] = "NEEDS_REVIEW" => a \in reviews)
    BY DEF SittingInv, TypeOK, Backed
  <1>1. reviews \subseteq reviews'
    BY NextLasting DEF Lasting
  <1>2. ASSUME NEW r \in Requests, RegisterCommit(r) PROVE a \in reviews'
    BY <1>0, <1>1, <1>2 DEF RegisterCommit
  <1>3. ASSUME NEW r \in Requests, StartCommit(r) PROVE a \in reviews'
    BY <1>0, <1>1, <1>3, StartCommitFirst
  <1>4. ASSUME NEW r \in Requests, SubmitCommit(r) PROVE a \in reviews'
    BY <1>0, <1>1, <1>4 DEF SubmitCommit, AttemptAfter
  <1>5. ASSUME NEW b \in Application, ReviewPublishes(b) PROVE a \in reviews'
    BY <1>0, <1>1, <1>5 DEF ReviewPublishes
  <1>6. ASSUME NEW b \in Application, NEW d \in Decisions, Decide(b, d) PROVE a \in reviews'
    BY <1>0, <1>1, <1>6 DEF Decide, paper
  <1> QED BY <1>0, <1>1, <1>2, <1>3, <1>4, <1>5, <1>6, QuietSteps

(* What is sent was stored when it was read.                               *)
LEMMA SendersBacked ==
  ASSUME SittingInv, Backed, [Next]_vars,
         NEW q \in Requests, At(q, "submit")'
  PROVE  (handler[q].answers <= saved[handler[q].a])'
  <1>0. /\ handler \in [Requests -> HandlerState] /\ saved \in [Application -> 0..MaxSaves]
        /\ \A a \in Application : saved[a] <= saved'[a]
        /\ saved' \in [Application -> 0..MaxSaves]
    BY NextLasting, SittingKept DEF Lasting, SittingInv, TypeOK
  <1>1. \/ handler'[q] = handler[q]
        \/ \E a \in Application : Submit(q, a)
    <2>1. handler' = handler \/ \E r \in Requests : RequestStep(r)
      BY DEF Next, RecruiterStep, TickStep, CreateDrive, CloseDrive, ReviewPublishes,
         Decide, FindDue, LookForSubmitted, CloseDue, PassTime, vars
    <2>2. ASSUME NEW r \in Requests, RequestStep(r), q # r PROVE handler'[q] = handler[q]
      BY <1>0, <2>2 DEF RequestStep, Register, FindCandidate, FindApplication,
         FindAssignment, RegisterCommit, RegisterConflict, Start, StartCommit,
         StartConflict, Save, SaveCommit, Submit, SubmitCommit, SubmitConflict,
         Abandon, Goes
    <2>3. ASSUME RequestStep(q) PROVE \E a \in Application : Submit(q, a)
      <3>1. \/ FindCandidate(q) \/ FindApplication(q) \/ FindAssignment(q)
            => handler'[q].op # "submit"
        BY <1>0 DEF FindCandidate, FindApplication, FindAssignment, Goes, Idle
      <3>2. \/ RegisterCommit(q) \/ RegisterConflict(q) \/ StartCommit(q)
            \/ StartConflict(q) \/ SaveCommit(q) \/ SubmitCommit(q)
            \/ SubmitConflict(q) \/ Abandon(q)
            => handler'[q].op # "submit"
        BY <1>0 DEF RegisterCommit, RegisterConflict, StartCommit, StartConflict,
           SaveCommit, SubmitCommit, SubmitConflict, Abandon, Goes, Idle
      <3>3. ASSUME NEW a \in Application, Register(q, a) \/ Start(q, a) \/ Save(q, a)
            PROVE  handler'[q].op # "submit"
        BY <1>0, <3>3 DEF Register, Start, Save, Goes
      <3> QED BY <2>3, <3>1, <3>2, <3>3 DEF RequestStep, At
    <2> QED BY <2>1, <2>2, <2>3
  <1>2. CASE handler'[q] = handler[q]
    <2>1. handler[q].a \in Application /\ handler[q].answers \in 0..MaxSaves
      BY <1>0, <1>2, HandlerShape DEF At
    <2>2. handler[q].answers <= saved[handler[q].a]
      BY <1>2 DEF Backed, At
    <2>3. saved[handler[q].a] \in Nat /\ saved'[handler[q].a] \in Nat
      BY <1>0, <2>1
    <2> QED BY <1>0, <1>2, <2>1, <2>2, <2>3
  <1>3. ASSUME NEW a \in Application, Submit(q, a)
        PROVE  (handler[q].answers <= saved[handler[q].a])'
    <2>1. handler'[q] = [op |-> "submit", a |-> a, answers |-> saved[a]]
      BY <1>0, <1>3 DEF Submit, Goes
    <2> QED BY <1>0, <1>3, <2>1 DEF Submit, paper
  <1> QED BY <1>1, <1>2, <1>3

(* What a tick found overdue stays so, and what it found handed in too.    *)
LEMMA TicksBacked ==
  ASSUME SittingInv, Backed, [Next]_vars, NEW j \in Ticks, tick'[j] # Idle
  PROVE  (/\ Overdue(tick[j].a)
          /\ tick[j].op = "close" /\ tick[j].status = "COMPLETED" =>
                attempt[tick[j].a] \in Finished)'
  <1>0. /\ tick \in [Ticks -> TickState] /\ time \in Nat /\ time' \in Nat
        /\ ClosesAt \in [Drives -> Times \cup {Null}]
        /\ Lasting
    BY NextLasting, SittingKept DEF SittingInv, TypeOK, Times
  <1>1. \/ tick'[j] = tick[j]
        \/ LookForSubmitted(j)
        \/ \E a \in Application : FindDue(j, a)
    BY <1>0 DEF Next, RequestStep, RecruiterStep, TickStep, Register, FindCandidate,
       FindApplication, FindAssignment, RegisterCommit, RegisterConflict, Start,
       StartCommit, StartConflict, Save, SaveCommit, Submit, SubmitCommit,
       SubmitConflict, Abandon, CreateDrive, CloseDrive, ReviewPublishes, Decide,
       FindDue, LookForSubmitted, CloseDue, PassTime, vars
  <1>2. ASSUME NEW a \in Application, Overdue(a) PROVE Overdue(a)'
    <2>1. ClosesAt[a[2]] \in Nat
      BY <1>0, <1>2, Pairs DEF Overdue, Times
    <2> QED BY <1>0, <1>2, <2>1 DEF Overdue, Lasting
  <1>3. CASE tick'[j] = tick[j]
    <2>1. tick[j].a \in Application
      BY <1>0, <1>3, TickShape
    <2>2. Overdue(tick[j].a)'
      BY <1>2, <1>3, <2>1 DEF Backed
    <2> QED BY <1>0, <1>3, <2>1, <2>2 DEF Backed, Lasting, Overdue
  <1>4. CASE LookForSubmitted(j)
    <2>1. PICK a \in Application : a = tick[j].a /\ Overdue(a)
      BY <1>0, <1>4, TickShape DEF LookForSubmitted, Backed
    <2>2. PICK st : st = IF attempt[a] \in Finished THEN "COMPLETED" ELSE "EXPIRED"
      OBVIOUS
    <2>3. tick'[j] = [op |-> "close", a |-> a, status |-> st]
      BY <1>0, <1>4, <2>1, <2>2 DEF LookForSubmitted
    <2>4. Overdue(a)'
      BY <1>2, <2>1
    <2> QED BY <1>0, <2>2, <2>3, <2>4 DEF Lasting, Overdue
  <1>5. ASSUME NEW a \in Application, FindDue(j, a)
        PROVE  (/\ Overdue(tick[j].a)
                /\ tick[j].op = "close" /\ tick[j].status = "COMPLETED" =>
                      attempt[tick[j].a] \in Finished)'
    <2>1. tick'[j] = [op |-> "look", a |-> a]
      BY <1>0, <1>5 DEF FindDue
    <2>2. Overdue(a)'
      BY <1>2, <1>5 DEF FindDue, Overdue
    <2> QED BY <2>1, <2>2 DEF Overdue
  <1> QED BY <1>1, <1>3, <1>4, <1>5

(* What every row, request and tick relies on, in every reachable state.   *)
THEOREM RecruitmentInvariant == Spec => []RecruitmentInv
  <1>1. SittingInv /\ Backed /\ [Next]_vars => Backed'
    BY ReviewsBacked, SendersBacked, TicksBacked DEF Backed
  <1>2. Init => RecruitmentInv
    BY InitInv, InitBacked DEF RecruitmentInv
  <1>3. RecruitmentInv /\ [Next]_vars => RecruitmentInv'
    BY <1>1, SittingKept DEF RecruitmentInv
  <1> QED BY <1>2, <1>3, PTL DEF Spec

(* Every reachable state has its type. *)
THEOREM TypeCorrect == Spec => []TypeOK
  <1>1. RecruitmentInv => TypeOK
    BY DEF RecruitmentInv, SittingInv
  <1> QED BY <1>1, RecruitmentInvariant, PTL

(* However many registrations overlap, an application has one assignment.  *)
THEOREM AssignedOnce == Spec => []OneAssignmentEach
  <1>1. RecruitmentInv => OneAssignmentEach
    BY DEF RecruitmentInv, SittingInv
  <1> QED BY <1>1, RecruitmentInvariant, PTL

(* However many starts overlap, nobody has two attempts, and a submitted   *)
(* attempt completes its application.                                      *)
THEOREM SittingOnce == Spec => []OneSitting
  <1>1. RecruitmentInv => OneSitting
    BY DEF RecruitmentInv, SittingInv
  <1> QED BY <1>1, RecruitmentInvariant, PTL

(* A result that went through review and was published stays published:    *)
(* the unique review rows roll a late submission back.                     *)
THEOREM ReviewedForGood == Spec => ReviewedStaysPublished
  <1>1. RecruitmentInv /\ [Next]_vars =>
          \A a \in reviews : attempt[a] = "PUBLISHED" => attempt'[a] = "PUBLISHED"
    <2> SUFFICES ASSUME RecruitmentInv, [Next]_vars, NEW a \in reviews,
                        attempt[a] = "PUBLISHED"
                 PROVE  attempt'[a] = "PUBLISHED"
      OBVIOUS
    <2>0. a \in Application /\ attempt \in [Application -> AttemptStatus]
      BY DEF RecruitmentInv, SittingInv, TypeOK
    <2>1. ASSUME NEW r \in Requests, RegisterCommit(r) PROVE attempt'[a] = "PUBLISHED"
      BY <2>1 DEF RegisterCommit
    <2>2. ASSUME NEW r \in Requests, StartCommit(r) PROVE attempt'[a] = "PUBLISHED"
      BY <2>0, <2>2, StartCommitFirst DEF RecruitmentInv
    <2>3. ASSUME NEW r \in Requests, SubmitCommit(r) PROVE attempt'[a] = "PUBLISHED"
      BY <2>0, <2>3 DEF SubmitCommit, ReviewTaken, AttemptAfter
    <2>4. ASSUME NEW b \in Application, ReviewPublishes(b) PROVE attempt'[a] = "PUBLISHED"
      BY <2>0, <2>4 DEF ReviewPublishes
    <2>5. ASSUME NEW b \in Application, NEW d \in Decisions, Decide(b, d)
          PROVE  attempt'[a] = "PUBLISHED"
      BY <2>5 DEF Decide, paper
    <2> QED BY <2>1, <2>2, <2>3, <2>4, <2>5, QuietSteps
  <1> QED BY <1>1, RecruitmentInvariant, PTL DEF Spec, ReviewedStaysPublished

(* Once the test is submitted only a decision changes an application.      *)
THEOREM DecisionsStand == Spec => DecisionStands
  <1>1. RecruitmentInv /\ [Next]_vars =>
          \A a \in completed :
             (\A r \in Requests : At(r, "submit") => handler[r].a # a) =>
                 application'[a] = application[a] \/ decisions' > decisions
    <2> SUFFICES ASSUME RecruitmentInv, [Next]_vars, NEW a \in completed,
                        \A r \in Requests : At(r, "submit") => handler[r].a # a
                 PROVE  application'[a] = application[a] \/ decisions' > decisions
      OBVIOUS
    <2>0. /\ a \in Application /\ application \in [Application -> ApplicationStatus]
          /\ decisions \in Nat /\ attempt[a] # "NONE" /\ application[a] # "NONE"
      BY DEF RecruitmentInv, SittingInv, TypeOK, OneSitting, Rows, Finished
    <2>1. ASSUME NEW r \in Requests, RegisterCommit(r) PROVE application'[a] = application[a]
      BY <2>0, <2>1 DEF RegisterCommit, Conflict
    <2>2. ASSUME NEW r \in Requests, StartCommit(r) PROVE application'[a] = application[a]
      BY <2>0, <2>2, StartCommitFirst DEF RecruitmentInv
    <2>3. ASSUME NEW r \in Requests, SubmitCommit(r) PROVE application'[a] = application[a]
      BY <2>0, <2>3 DEF SubmitCommit
    <2>4. ASSUME NEW b \in Application, ReviewPublishes(b)
          PROVE  application'[a] = application[a]
      BY <2>4 DEF ReviewPublishes, registration
    <2>5. ASSUME NEW b \in Application, NEW d \in Decisions, Decide(b, d)
          PROVE  decisions' > decisions
      BY <2>0, <2>5 DEF Decide
    <2> QED BY <2>1, <2>2, <2>3, <2>4, <2>5, QuietSteps
  <1> QED BY <1>1, RecruitmentInvariant, PTL DEF Spec, DecisionStands
-----------------------------------------------------------------------------
(* The contract.  Every step is one of its steps, or changes nothing that  *)
(* it speaks of.                                                           *)
ContractStep == Contract!Next \/ UNCHANGED Contract!vars

(* What the requests but one ask for.                                      *)
Others(r) == {Asked(handler[q]) : q \in {p \in Requests \ {r} : handler[p] # Idle}}

LEMMA AsksOf ==
  ASSUME NEW r \in Requests
  PROVE  Asks = Others(r) \cup (IF handler[r] = Idle THEN {} ELSE {Asked(handler[r])})
  BY DEF Asks, Others

LEMMA AsksAfter ==
  ASSUME handler \in [Requests -> HandlerState], NEW r \in Requests, NEW s,
         handler' = [handler EXCEPT ![r] = s]
  PROVE  Asks' = Others(r) \cup (IF s = Idle THEN {} ELSE {Asked(s)})
  <1>1. \A q \in Requests \ {r} : handler'[q] = handler[q]
    OBVIOUS
  <1>2. handler'[r] = s
    OBVIOUS
  <1>3. Others(r)' = Others(r)
    BY <1>1 DEF Others
  <1>4. Asks' = Others(r)' \cup (IF handler'[r] = Idle THEN {} ELSE {Asked(handler'[r])})
    BY DEF Asks, Others
  <1> QED BY <1>2, <1>3, <1>4

(* A request that begins asks, one that goes on still asks the same, and   *)
(* one that ends is answered.                                              *)
LEMMA Asking ==
  ASSUME handler \in [Requests -> HandlerState], NEW r \in Requests, NEW s,
         handler' = [handler EXCEPT ![r] = s]
  PROVE  /\ handler[r] = Idle /\ s # Idle => Asks' = Asks \cup {Asked(s)}
         /\ handler[r] # Idle /\ s # Idle /\ Asked(s) = Asked(handler[r]) => Asks' = Asks
         /\ handler[r] # Idle /\ s = Idle => Contract!Answer(Asked(handler[r]))
  <1>1. Asks = Others(r) \cup (IF handler[r] = Idle THEN {} ELSE {Asked(handler[r])})
    BY AsksOf
  <1>2. Asks' = Others(r) \cup (IF s = Idle THEN {} ELSE {Asked(s)})
    BY AsksAfter
  <1>3. handler[r] # Idle /\ s = Idle => Contract!Answer(Asked(handler[r]))
    BY <1>1, <1>2 DEF Contract!Answer
  <1> QED BY <1>1, <1>2, <1>3

LEMMA RestRows ==
  ASSUME UNCHANGED <<world, registration, paper>>
  PROVE  UNCHANGED <<time, drive, application, assignment, attempt, saved, scored, reviews>>
  BY DEF world, registration, paper

LEMMA SameAsks ==
  ASSUME UNCHANGED <<world, registration, paper>>, Asks' = Asks
  PROVE  ContractStep
  BY RestRows DEF ContractStep, Contract!vars, Contract!result

LEMMA EndsAsking ==
  ASSUME handler \in [Requests -> HandlerState], NEW r \in Requests,
         handler[r] # Idle, handler' = [handler EXCEPT ![r] = Idle],
         UNCHANGED <<world, registration, paper>>
  PROVE  ContractStep
  <1>1. Contract!Answer(Asked(handler[r]))
    BY Asking
  <1>2. CASE Asks' = Asks
    BY <1>2, SameAsks
  <1>3. CASE Asks' = Asks \ {Asked(handler[r])}
    BY <1>1, <1>3, RestRows
       DEF ContractStep, Contract!Next, Contract!Refuse, Contract!Answer, Contract!result
  <1> QED BY <1>1, <1>2, <1>3 DEF Contract!Answer

LEMMA BeginsAsking ==
  ASSUME NEW a \in Application, Contract!Ask(a)
  PROVE  ContractStep
  BY DEF ContractStep, Contract!Next, Contract!Application, Application

LEMMA GoesOn ==
  ASSUME handler \in [Requests -> HandlerState], NEW r \in Requests, NEW s,
         handler[r] # Idle, s # Idle, Asked(s) = Asked(handler[r]),
         handler' = [handler EXCEPT ![r] = s],
         UNCHANGED <<world, registration, paper>>
  PROVE  ContractStep
  BY Asking, SameAsks

LEMMA WindowOpen ==
  ASSUME NEW d \in Drives, DriveIsOpen(d), time \in Nat
  PROVE  Contract!Window(d)
  BY DEF DriveIsOpen, Contract!Window

LEMMA RegisterAsks ==
  ASSUME RecruitmentInv, NEW r \in Requests, NEW a \in Application, Register(r, a)
  PROVE  ContractStep
  <1>1. handler \in [Requests -> HandlerState] /\ time \in Nat
    BY DEF RecruitmentInv, SittingInv, TypeOK, Times
  <1>2. PICK s : s = [op |-> "candidate", a |-> a]
    OBVIOUS
  <1>3. s # Idle /\ Asked(s) = <<"register", a>>
    BY <1>2 DEF Idle, Asked
  <1>4. Asks' = Asks \cup {<<"register", a>>}
    BY <1>1, <1>2, <1>3, Asking DEF Register, Goes
  <1>5. Contract!Window(a[2])
    BY <1>1, Pairs, WindowOpen DEF Register
  <1>6. UNCHANGED <<time, drive, application, assignment, attempt, saved, scored, reviews>>
    BY RestRows DEF Register
  <1> QED BY <1>4, <1>5, <1>6, BeginsAsking DEF Contract!Ask, Contract!result

LEMMA StartAsks ==
  ASSUME RecruitmentInv, NEW r \in Requests, NEW a \in Application, Start(r, a)
  PROVE  ContractStep
  <1>1. handler \in [Requests -> HandlerState] /\ time \in Nat
    BY DEF RecruitmentInv, SittingInv, TypeOK, Times
  <1>2. PICK s : s = [op |-> "start", a |-> a, number |-> count[a] + 1]
    OBVIOUS
  <1>3. s # Idle /\ Asked(s) = <<"start", a>>
    BY <1>2 DEF Idle, Asked
  <1>4. Asks' = Asks \cup {<<"start", a>>}
    BY <1>1, <1>2, <1>3, Asking DEF Start, Goes
  <1>5. Contract!Window(a[2]) /\ assignment[a] = "AVAILABLE" /\ attempt[a] = "NONE"
    BY <1>1, Pairs, WindowOpen DEF Start, Startable, RecruitmentInv, SittingInv, Rows
  <1>6. UNCHANGED <<time, drive, application, assignment, attempt, saved, scored, reviews>>
    BY RestRows DEF Start
  <1> QED BY <1>4, <1>5, <1>6, BeginsAsking DEF Contract!Ask, Contract!result

LEMMA SaveAsks ==
  ASSUME RecruitmentInv, NEW r \in Requests, NEW a \in Application, Save(r, a)
  PROVE  ContractStep
  <1>1. handler \in [Requests -> HandlerState]
    BY DEF RecruitmentInv, SittingInv, TypeOK
  <1>2. PICK s : s = [op |-> "save", a |-> a]
    OBVIOUS
  <1>3. s # Idle /\ Asked(s) = <<"save", a>>
    BY <1>2 DEF Idle, Asked
  <1>4. Asks' = Asks \cup {<<"save", a>>}
    BY <1>1, <1>2, <1>3, Asking DEF Save, Goes
  <1>5. UNCHANGED <<time, drive, application, assignment, attempt, saved, scored, reviews>>
    BY RestRows DEF Save
  <1> QED BY <1>4, <1>5, BeginsAsking DEF Save, Contract!Ask, Contract!result

LEMMA SubmitAsks ==
  ASSUME RecruitmentInv, NEW r \in Requests, NEW a \in Application, Submit(r, a)
  PROVE  ContractStep
  <1>1. handler \in [Requests -> HandlerState]
    BY DEF RecruitmentInv, SittingInv, TypeOK
  <1>2. PICK s : s = [op |-> "submit", a |-> a, answers |-> saved[a]]
    OBVIOUS
  <1>3. s # Idle /\ Asked(s) = <<"submit", a, saved[a]>>
    BY <1>2 DEF Idle, Asked
  <1>4. Asks' = Asks \cup {<<"submit", a, saved[a]>>}
    BY <1>1, <1>2, <1>3, Asking DEF Submit, Goes
  <1>5. UNCHANGED <<time, drive, application, assignment, attempt, saved, scored, reviews>>
    BY RestRows DEF Submit
  <1> QED BY <1>4, <1>5, BeginsAsking DEF Submit, Contract!Ask, Contract!result

(* The look-ups of a registration go on asking, or end with an answer.     *)
LEMMA LookUps ==
  ASSUME RecruitmentInv, NEW r \in Requests,
         FindCandidate(r) \/ FindApplication(r) \/ FindAssignment(r)
  PROVE  ContractStep
  <1>1. handler \in [Requests -> HandlerState]
    BY DEF RecruitmentInv, SittingInv, TypeOK
  <1>2. handler[r] # Idle /\ Asked(handler[r]) = <<"register", handler[r].a>>
    BY DEF FindCandidate, FindApplication, FindAssignment, At, Idle, Asked
  <1>3. UNCHANGED <<world, registration, paper>>
    BY DEF FindCandidate, FindApplication, FindAssignment
  <1>4. PICK a : a = handler[r].a
    OBVIOUS
  <1>5. CASE handler' = [handler EXCEPT ![r] = Idle]
    BY <1>1, <1>2, <1>3, <1>5, EndsAsking
  <1>6. ASSUME NEW s, handler' = [handler EXCEPT ![r] = s],
               s # Idle, Asked(s) = <<"register", a>>
        PROVE  ContractStep
    BY <1>1, <1>2, <1>3, <1>4, <1>6, GoesOn
  <1>7. ASSUME NEW op \in {"application", "assignment"},
               handler' = [handler EXCEPT ![r] = [op |-> op, a |-> a]]
        PROVE  ContractStep
    <2>1. PICK s : s = [op |-> op, a |-> a]
      OBVIOUS
    <2>2. s # Idle /\ Asked(s) = <<"register", a>>
      BY <2>1 DEF Idle, Asked
    <2> QED BY <1>6, <1>7, <2>1, <2>2
  <1>8. ASSUME NEW m, handler' = [handler EXCEPT ![r] = [op |-> "insert", a |-> a, missing |-> m]]
        PROVE  ContractStep
    <2>1. PICK s : s = [op |-> "insert", a |-> a, missing |-> m]
      OBVIOUS
    <2>2. s # Idle /\ Asked(s) = <<"register", a>>
      BY <2>1 DEF Idle, Asked
    <2> QED BY <1>6, <1>8, <2>1, <2>2
  <1> QED BY <1>4, <1>5, <1>7, <1>8
       DEF FindCandidate, FindApplication, FindAssignment, Goes

LEMMA GiveUps ==
  ASSUME RecruitmentInv, NEW r \in Requests,
         RegisterConflict(r) \/ StartConflict(r) \/ SubmitConflict(r) \/ Abandon(r)
  PROVE  ContractStep
  <1>1. handler \in [Requests -> HandlerState] /\ handler[r] # Idle
    BY DEF RecruitmentInv, SittingInv, TypeOK, RegisterConflict, StartConflict,
           SubmitConflict, Abandon, At, Idle
  <1>2. /\ handler' = [handler EXCEPT ![r] = Idle]
        /\ UNCHANGED <<world, registration, paper>>
    BY DEF RegisterConflict, StartConflict, SubmitConflict, Abandon, Goes
  <1> QED BY <1>1, <1>2, EndsAsking

LEMMA CommitIsAdmit ==
  ASSUME RecruitmentInv, NEW r \in Requests, RegisterCommit(r)
  PROVE  ContractStep
  <1>1. handler \in [Requests -> HandlerState] /\ handler[r] \in HandlerState
    BY DEF RecruitmentInv, SittingInv, TypeOK
  <1>2. PICK a \in Application : a = handler[r].a
    BY <1>1, HandlerShape DEF RegisterCommit, At
  <1>3. "application" \in handler[r].missing /\ application[a] = "NONE"
    BY <1>2 DEF RegisterCommit, At, Conflict, RecruitmentInv, SittingInv, Knows
  <1>4. handler[r] # Idle /\ Asked(handler[r]) = <<"register", a>>
    BY <1>2 DEF RegisterCommit, At, Idle, Asked
  <1>5. /\ application' = [application EXCEPT ![a] = "APPLIED"]
        /\ assignment' = [assignment EXCEPT ![a] = "AVAILABLE"]
        /\ handler' = [handler EXCEPT ![r] = Idle]
        /\ UNCHANGED <<time, drive, attempt, saved, scored, reviews>>
    BY <1>2, <1>3 DEF RegisterCommit, Goes, world
  <1>6. Contract!Answer(<<"register", a>>)
    BY <1>1, <1>4, <1>5, Asking
  <1>7. Contract!Admit(a)
    BY <1>3, <1>5, <1>6 DEF Contract!Admit
  <1> QED BY <1>7 DEF ContractStep, Contract!Next, Contract!Application, Application

LEMMA CommitIsBegin ==
  ASSUME RecruitmentInv, NEW r \in Requests, StartCommit(r)
  PROVE  ContractStep
  <1>1. handler \in [Requests -> HandlerState] /\ handler[r] \in HandlerState
    BY DEF RecruitmentInv, SittingInv, TypeOK
  <1>2. PICK a \in Application : a = handler[r].a
    BY <1>1, HandlerShape DEF StartCommit, At
  <1>3. handler[r] # Idle /\ Asked(handler[r]) = <<"start", a>>
    BY <1>2 DEF StartCommit, At, Idle, Asked
  <1>4. handler[r].number = 1 /\ count[a] \in Nat
    BY <1>2 DEF StartCommit, At, RecruitmentInv, SittingInv, Knows, TypeOK
  <1>5. attempt[a] = "NONE"
    BY <1>2, <1>4 DEF StartCommit, NumberTaken, RecruitmentInv, SittingInv, OneSitting
  <1>6. /\ attempt' = [attempt EXCEPT ![a] = "IN_PROGRESS"]
        /\ assignment' = [assignment EXCEPT ![a] = "IN_PROGRESS"]
        /\ application' = [application EXCEPT ![a] = "ASSESSING"]
        /\ handler' = [handler EXCEPT ![r] = Idle]
        /\ UNCHANGED <<time, drive, saved, scored, reviews>>
    BY <1>2 DEF StartCommit, Goes, world
  <1>7. Contract!Answer(<<"start", a>>)
    BY <1>1, <1>3, <1>6, Asking
  <1>8. Contract!Begin(a)
    BY <1>5, <1>6, <1>7 DEF Contract!Begin
  <1> QED BY <1>8 DEF ContractStep, Contract!Next, Contract!Application, Application

LEMMA CommitIsWrite ==
  ASSUME RecruitmentInv, NEW r \in Requests, SaveCommit(r)
  PROVE  ContractStep
  <1>1. handler \in [Requests -> HandlerState] /\ handler[r] \in HandlerState
    BY DEF RecruitmentInv, SittingInv, TypeOK
  <1>2. PICK a \in Application : a = handler[r].a
    BY <1>1, HandlerShape DEF SaveCommit, At
  <1>3. handler[r] # Idle /\ Asked(handler[r]) = <<"save", a>>
    BY <1>2 DEF SaveCommit, At, Idle, Asked
  <1>4. /\ saved' = [saved EXCEPT ![a] = @ + 1]
        /\ handler' = [handler EXCEPT ![r] = Idle]
        /\ UNCHANGED <<time, drive, application, assignment, attempt, scored, reviews>>
    BY <1>2 DEF SaveCommit, Goes, world, registration
  <1>5. Contract!Answer(<<"save", a>>)
    BY <1>1, <1>3, <1>4, Asking
  <1>6. Contract!Write(a)
    BY <1>4, <1>5 DEF Contract!Write
  <1> QED BY <1>6 DEF ContractStep, Contract!Next, Contract!Application, Application

(* The unique review rows are why answers go to a reviewer once.           *)
LEMMA CommitIsHandIn ==
  ASSUME RecruitmentInv, NEW r \in Requests, SubmitCommit(r)
  PROVE  ContractStep
  <1>1. handler \in [Requests -> HandlerState] /\ handler[r] \in HandlerState
    BY DEF RecruitmentInv, SittingInv, TypeOK
  <1>2. PICK a \in Application, n \in 0..MaxSaves :
            a = handler[r].a /\ n = handler[r].answers
    BY <1>1, HandlerShape DEF SubmitCommit, At
  <1>3. handler[r] # Idle /\ Asked(handler[r]) = <<"submit", a, n>>
    BY <1>2 DEF SubmitCommit, At, Idle, Asked
  <1>4. attempt[a] # "NONE"
    BY <1>2 DEF SubmitCommit, At, RecruitmentInv, SittingInv, Knows
  <1>5. saved[a] \in Nat /\ n \in 0..saved[a]
    BY <1>2 DEF SubmitCommit, RecruitmentInv, SittingInv, TypeOK, Backed
  <1>6. Pending(r) <=> n \in Typed[a[2]]
    BY <1>2 DEF Pending
  <1>7. /\ attempt' = [attempt EXCEPT ![a] = AttemptAfter(r)]
        /\ scored' = [scored EXCEPT ![a] = n]
        /\ assignment' = [assignment EXCEPT ![a] =
                              IF Pending(r) THEN "SUBMITTED" ELSE "COMPLETED"]
        /\ application' = [application EXCEPT ![a] = "UNDER_REVIEW"]
        /\ reviews' = IF Pending(r) THEN reviews \cup {a} ELSE reviews
        /\ handler' = [handler EXCEPT ![r] = Idle]
        /\ UNCHANGED <<time, drive, saved>>
    BY <1>2 DEF SubmitCommit, Goes, world
  <1>8. Pending(r) => a \notin reviews
    BY <1>2 DEF SubmitCommit, ReviewTaken
  <1>9. Contract!Answer(<<"submit", a, n>>)
    BY <1>1, <1>3, <1>7, Asking
  <1>10. Contract!HandIn(a, n)
    <2>1. CASE Pending(r)
      BY <1>4, <1>6, <1>7, <1>8, <1>9, <2>1 DEF Contract!HandIn, AttemptAfter
    <2>2. CASE ~Pending(r)
      BY <1>4, <1>6, <1>7, <1>9, <2>2 DEF Contract!HandIn, AttemptAfter
    <2> QED BY <2>1, <2>2
  <1> QED BY <1>5, <1>10 DEF ContractStep, Contract!Next, Contract!Application, Application

LEMMA RequestContract ==
  ASSUME RecruitmentInv, NEW r \in Requests, RequestStep(r)
  PROVE  ContractStep
  BY RegisterAsks, StartAsks, SaveAsks, SubmitAsks, LookUps, GiveUps,
     CommitIsAdmit, CommitIsBegin, CommitIsWrite, CommitIsHandIn DEF RequestStep

LEMMA RecruiterContract == ASSUME RecruitmentInv, RecruiterStep PROVE ContractStep
  <1>0. Contract!Application = Application
    BY DEF Contract!Application, Application
  <1>1. handler' = handler => Asks' = Asks
    BY DEF Asks
  <1>2. ASSUME NEW d \in Drives, CreateDrive(d) \/ CloseDrive(d) PROVE Contract!Turn(d)
    BY <1>1, <1>2 DEF CreateDrive, CloseDrive, registration, paper, Contract!Turn, Contract!result
  <1>3. ASSUME NEW a \in Application, ReviewPublishes(a) PROVE Contract!Publish(a)
    BY <1>1, <1>3 DEF ReviewPublishes, RecruitmentInv, Backed, world, registration, Contract!Publish
  <1>4. ASSUME NEW a \in Application, NEW d \in Decisions, Decide(a, d) PROVE Contract!Decide(a)
    BY <1>1, <1>4 DEF Decide, world, paper, Contract!Decide, Contract!result
  <1> QED BY <1>0, <1>2, <1>3, <1>4 DEF RecruiterStep, ContractStep, Contract!Next

LEMMA TickContract ==
  ASSUME RecruitmentInv, NEW k \in Ticks, TickStep(k)
  PROVE  ContractStep
  <1>1. handler' = handler /\ Asks' = Asks
    BY DEF TickStep, FindDue, LookForSubmitted, CloseDue, Asks
  <1>2. CASE CloseDue(k)
    <2>1. tick[k] \in TickState /\ tick[k] # Idle
      BY <1>2, TickShape DEF CloseDue, RecruitmentInv, SittingInv, TypeOK, Idle
    <2>2. PICK a \in Application, st \in {"COMPLETED", "EXPIRED"} :
              a = tick[k].a /\ st = tick[k].status
      BY <1>2, <2>1, TickShape DEF CloseDue
    <2>3. /\ application[a] # "NONE" /\ Overdue(a)
          /\ st = "COMPLETED" => attempt[a] \in Finished
      BY <1>2, <2>1, <2>2 DEF CloseDue, RecruitmentInv, SittingInv, Backed
    <2>4. /\ assignment' = [assignment EXCEPT ![a] = st]
          /\ UNCHANGED <<time, drive, application, attempt, saved, scored, reviews>>
      BY <1>2, <2>2 DEF CloseDue, world, registration
    <2>5. Contract!Expire(a)
      BY <1>1, <2>3, <2>4 DEF Contract!Expire, Overdue, Finished
    <2> QED BY <2>5 DEF ContractStep, Contract!Next, Contract!Application, Application
  <1>3. CASE ~CloseDue(k)
    BY <1>1, <1>3, SameAsks DEF TickStep, FindDue, LookForSubmitted
  <1> QED BY <1>2, <1>3

LEMMA RecruitmentContractNext == ASSUME RecruitmentInv, [Next]_vars PROVE ContractStep
  <1>1. CASE PassTime
    <2>1. time \in Nat /\ time' = time + 1
      BY <1>1 DEF PassTime, RecruitmentInv, SittingInv, TypeOK, Times
    <2>2. Contract!Pass
      BY <1>1, <2>1 DEF PassTime, registration, paper, Asks, Contract!Pass, Contract!result
    <2> QED BY <2>2 DEF ContractStep, Contract!Next
  <1>2. CASE UNCHANGED vars
    BY <1>2, SameAsks DEF vars, Asks
  <1> QED BY <1>1, <1>2, RequestContract, RecruiterContract, TickContract DEF Next

(* Whatever requests, recruiters and ticks overlap or die, the candidates  *)
(* have what the drive promises: admitted once, and only who asked in its  *)
(* window; one sitting; a result of answers that were stored when they     *)
(* were sent; answers reviewed once, and published for good.               *)
THEOREM ImplementsRecruitmentContract == Spec => RecruitmentContractSpec
  <1>1. Init => Contract!Init
    BY DEF Init, Contract!Init, Contract!Application, Application, Asks
  <1>2. RecruitmentInv /\ [Next]_vars => [Contract!Next]_(Contract!vars)
    BY RecruitmentContractNext DEF ContractStep
  <1> QED BY <1>1, <1>2, RecruitmentInvariant, PTL
        DEF Spec, RecruitmentContractSpec, Contract!Spec
=============================================================================
