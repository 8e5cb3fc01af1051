------------------------------- MODULE Player -------------------------------
(***************************************************************************)
(* The test player, a page of the browser, against the server's attempt:   *)
(* answers typed, saved after a pause and stored in the order their        *)
(* requests arrive; a submission by the employee, by the clock or by       *)
(* leaving the tab too often; requests and responses that are lost; a page *)
(* that is closed and opened again, with the answers the server has or     *)
(* with those that the browser's history keeps of a start.                 *)
(*                                                                         *)
(* An answer is the number of times its question was answered so far, 0    *)
(* when it was not.                                                        *)
(***************************************************************************)
EXTENDS Naturals, FiniteSets

CONSTANTS
    Fields,
    SwitchLimit,   \* leaving the tab more often than this submits the test
    MaxAnswers,    \* bound: answers typed to a question
    MaxLosses,     \* bound: lost messages, and times the page is left
    MaxSwitches    \* bound: times the tab is left

ASSUME PlayerAssumption ==
    {SwitchLimit, MaxAnswers, MaxLosses, MaxSwitches} \subseteq Nat

Save == [question : Fields, answer : 1..MaxAnswers]
Nothing == [q \in Fields |-> 0]

VARIABLES
    open,       \* the page shows the attempt
    shown,      \* answers: what the page shows
    kept,       \* location.state: the answers of each start, in the history
                \* of the browser
    typed,      \* how often each question was answered
    timer,      \* saveTimers: the answer to save when the pause is over, or 0
    submitting, summary, switches,
    saves,      \* PATCH /answers on their way
    submits,    \* POST /submit on their way
    replies,    \* their responses on the way back, told by success
    clock,      \* "running", "zero" on the page, "over" for the server too
    sealed,     \* the server's attempt is no longer in progress
    stored,     \* AttemptResponse
    scored,     \* the stored answers the result was computed from
    losses,
    excused,    \* history: questions with an answer lost, overtaken, or typed
                \* or still unsaved when the attempt was being submitted
    stale,      \* history: questions shown with an older answer since the
                \* page was opened again
    unaware     \* history: sealed without an answer to this page

playerPage == <<open, shown, kept, typed, timer, submitting, summary, switches>>
network == <<saves, submits, replies>>
attemptRow == <<sealed, stored, scored>>
past == <<losses, excused, stale, unaware>>
playerVars == <<playerPage, network, clock, attemptRow, past>>

PlayerInit ==
    /\ open = TRUE /\ shown = Nothing /\ kept = {Nothing}
    /\ typed = Nothing /\ timer = Nothing
    /\ submitting = FALSE /\ summary = FALSE /\ switches = 0
    /\ saves = {} /\ submits = 0 /\ replies = [ok \in BOOLEAN |-> 0]
    /\ clock = "running" /\ sealed = FALSE /\ stored = Nothing /\ scored = Nothing
    /\ losses = 0 /\ excused = {} /\ stale = {} /\ unaware = FALSE

-----------------------------------------------------------------------------
Unsaved == {q \in Fields : timer[q] # 0 \/ \E s \in saves : s.question = q}

\* saveAnswer: show it, and start the pause of its question again.
BugRestart(q, a) == [timer EXCEPT ![q] = IF @ = 0 THEN a ELSE @]
Restart(q, a) == [timer EXCEPT ![q] = a]
Type(q) ==
    /\ open /\ ~summary /\ typed[q] < MaxAnswers
    /\ typed' = [typed EXCEPT ![q] = @ + 1]
    /\ shown' = [shown EXCEPT ![q] = typed'[q]]
    /\ timer' = Restart(q, typed'[q])
    /\ stale' = stale \ {q}
    /\ excused' = IF sealed \/ submits > 0 THEN excused \cup {q} ELSE excused
    /\ UNCHANGED <<open, kept, submitting, summary, switches, network, clock, attemptRow,
                   losses, unaware>>

\* The pause is over: send the answer. Nothing waits for an earlier save.
SendSave(q) ==
    /\ timer[q] # 0
    /\ timer' = [timer EXCEPT ![q] = 0]
    /\ saves' = saves \cup {[question |-> q, answer |-> timer[q]]}
    /\ excused' = IF \E s \in saves : s.question = q THEN excused \cup {q} ELSE excused
    /\ UNCHANGED <<open, shown, kept, typed, submitting, summary, switches, submits,
                   replies, clock, attemptRow, losses, stale, unaware>>

\* doSubmit. Nothing is saved first.
Submit ==
    /\ submitting' = TRUE /\ submits' = submits + 1
    /\ excused' = excused \cup Unsaved
    /\ UNCHANGED <<open, shown, kept, typed, timer, summary, saves, replies, clock,
                   attemptRow, losses, stale, unaware>>

Click == open /\ ~summary /\ ~submitting /\ Submit /\ UNCHANGED switches

\* The countdown: at zero it submits, and again whenever a submission fails.
TimeIsUp == open /\ clock # "running" /\ ~summary /\ ~submitting
TickSubmit == TimeIsUp /\ Submit /\ UNCHANGED switches

\* Leaving the tab is counted; past the limit it submits, even if a
\* submission is under way.
SwitchTab ==
    /\ open /\ ~summary /\ switches < MaxSwitches
    /\ switches' = switches + 1
    /\ IF switches' > SwitchLimit THEN Submit
       ELSE UNCHANGED <<open, shown, kept, typed, timer, submitting, summary, network,
                        clock, attemptRow, past>>

\* What doSubmit does with a response, or with an error.
BugDone(ok) == summary' = (summary \/ ok) /\ submitting' = (submitting /\ ~ok)
Done(ok) == /\ summary' = (summary \/ ok)
            /\ submitting' = FALSE
Reply(ok) ==
    /\ open /\ replies[ok] > 0
    /\ replies' = [replies EXCEPT ![ok] = @ - 1]
    /\ Done(ok)
    /\ UNCHANGED <<open, shown, kept, typed, timer, switches, saves, submits, clock,
                   attemptRow, past>>

\* The page is gone, with the responses it waits for.
Gone ==
    /\ open /\ losses < MaxLosses
    /\ open' = FALSE /\ timer' = Nothing /\ submitting' = FALSE /\ summary' = FALSE
    /\ switches' = 0 /\ replies' = [ok \in BOOLEAN |-> 0]
    /\ losses' = losses + 1
    /\ unaware' = (unaware \/ submits > 0 \/ sealed)
    /\ UNCHANGED <<shown, kept, typed, submits, clock, attemptRow, stale>>

\* The browser or its tab is closed or reloaded: what is in a pause is lost.
Close ==
    /\ Gone /\ excused' = excused \cup {q \in Fields : timer[q] # 0}
    /\ UNCHANGED saves

\* Another page of the application is opened: nothing clears the pauses, and
\* their answers are still sent.
Leave ==
    /\ Gone
    /\ LET late == {q \in Fields : timer[q] # 0} IN
          /\ saves' = saves \cup {[question |-> q, answer |-> timer[q]] : q \in late}
          /\ excused' = excused \cup {q \in late : \E s \in saves : s.question = q}

Seal == sealed' = TRUE /\ scored' = stored /\ UNCHANGED stored

\* The page is opened again with the stored answers, unless the time is over:
\* that ends the attempt.
Reopen(states) ==
    /\ ~open /\ ~sealed
    /\ IF clock = "over"
       THEN /\ Seal /\ unaware' = TRUE /\ excused' = excused \cup Unsaved
            /\ UNCHANGED <<open, shown, kept, stale>>
       ELSE /\ open' = TRUE /\ shown' = stored /\ kept' = states /\ stale' = Unsaved
            /\ UNCHANGED <<attemptRow, unaware, excused>>
    /\ UNCHANGED <<typed, timer, submitting, summary, switches, network, clock, losses>>

\* By its address: GET /attempts/:id.
Resume == Reopen(kept)

\* From My Tests: POST /attempts/start finds the attempt in progress, and its
\* answer goes with the page into the history.
StartAgain == Reopen(kept \cup {stored})

\* From the history, by a reload for instance: the page has the answers of a
\* start and asks the server nothing, whatever became of the attempt.
FromHistory(answers) ==
    /\ ~open /\ open' = TRUE /\ shown' = answers
    /\ stale' = Unsaved \cup {q \in Fields : answers[q] # stored[q]}
    /\ UNCHANGED <<kept, typed, timer, submitting, summary, switches, network, clock,
                   attemptRow, losses, excused, unaware>>

-----------------------------------------------------------------------------
\* PATCH /attempts/:id/answers: whatever arrives last stays.
Accepts == ~sealed /\ clock # "over"
ReceiveSave(s) ==
    /\ s \in saves /\ saves' = saves \ {s}
    /\ IF Accepts THEN stored' = [stored EXCEPT ![s.question] = s.answer]
                       /\ UNCHANGED <<sealed, scored, excused, unaware>>
       ELSE IF sealed THEN UNCHANGED <<attemptRow, excused, unaware>>
       ELSE Seal /\ excused' = excused \cup Unsaved /\ unaware' = TRUE
    /\ UNCHANGED <<playerPage, submits, replies, clock, losses, stale>>

\* POST /attempts/:id/submit: refused unless the attempt is in progress.
ReceiveSubmit ==
    /\ submits > 0 /\ submits' = submits - 1
    /\ replies' = [replies EXCEPT ![~sealed] = IF open THEN @ + 1 ELSE @]
    /\ IF sealed THEN UNCHANGED attemptRow ELSE Seal
    /\ UNCHANGED <<playerPage, saves, clock, past>>

\* Another request finds the time over, or the scheduler closes the assignment.
SealElsewhere ==
    /\ clock = "over" /\ ~sealed /\ Seal
    /\ unaware' = TRUE /\ excused' = excused \cup Unsaved
    /\ UNCHANGED <<playerPage, network, clock, losses, stale>>

LoseSave(s) ==
    /\ s \in saves /\ losses < MaxLosses /\ saves' = saves \ {s}
    /\ losses' = losses + 1 /\ excused' = excused \cup {s.question}
    /\ UNCHANGED <<playerPage, submits, replies, clock, attemptRow, stale, unaware>>

\* A submission or its response is lost: the page sees an error.
LoseSubmit ==
    /\ losses < MaxLosses /\ losses' = losses + 1
    /\ \/ submits > 0 /\ submits' = submits - 1 /\ UNCHANGED <<replies, unaware>>
       \/ replies[TRUE] > 0 /\ replies' = [replies EXCEPT ![TRUE] = @ - 1]
                            /\ unaware' = TRUE /\ UNCHANGED submits
    /\ IF open THEN Done(FALSE) ELSE UNCHANGED <<summary, submitting>>
    /\ UNCHANGED <<open, shown, kept, typed, timer, switches, saves, clock, attemptRow,
                   excused, stale>>

TimePasses ==
    /\ clock # "over" /\ clock' = IF clock = "running" THEN "zero" ELSE "over"
    /\ UNCHANGED <<playerPage, network, attemptRow, past>>

-----------------------------------------------------------------------------
Server == ReceiveSubmit \/ \E s \in saves : ReceiveSave(s)
Replies == \E ok \in BOOLEAN : Reply(ok)

PlayerNext ==
    \/ \E q \in Fields : Type(q) \/ SendSave(q)
    \/ Click \/ TickSubmit \/ SwitchTab \/ Replies
    \/ Close \/ Leave \/ Resume \/ StartAgain \/ \E answers \in kept : FromHistory(answers)
    \/ Server \/ SealElsewhere \/ LoseSubmit \/ TimePasses
    \/ \E s \in saves : LoseSave(s)

PlayerSpec == PlayerInit /\ [][PlayerNext]_playerVars

\* The countdown ticks, the server answers, the page runs its callbacks.
PlayerFairness ==
    /\ WF_playerVars(TickSubmit) /\ WF_playerVars(ReceiveSubmit)
    /\ \A ok \in BOOLEAN : WF_playerVars(Reply(ok))

-----------------------------------------------------------------------------
PlayerTypeOK ==
    /\ {open, submitting, summary, sealed, unaware} \subseteq BOOLEAN
    /\ {shown, typed, timer, stored, scored} \subseteq [Fields -> 0..MaxAnswers]
    /\ kept \subseteq [Fields -> 0..MaxAnswers]
    /\ switches \in 0..MaxSwitches /\ losses \in 0..MaxLosses
    /\ saves \subseteq Save /\ submits \in Nat /\ replies \in [BOOLEAN -> Nat]
    /\ clock \in {"running", "zero", "over"}
    /\ excused \subseteq Fields /\ stale \subseteq Fields

\* Once the saves of a question are over the server has the last answer given
\* to it, and scores that one, although the page was closed in between and came
\* back with older answers; and an open page shows it, unless it was opened
\* again with an older one.  Excepted are questions with a lost message or
\* pause, with two saves under way together, or submitted before they were saved.
AnswersAgree ==
    \A q \in Fields \ excused :
        /\ ~sealed /\ q \notin Unsaved => stored[q] = typed[q]
        /\ sealed => scored[q] = typed[q]
        /\ open /\ q \notin stale => shown[q] = typed[q]

\* When the countdown of an open player is at zero, the employee is shown the
\* result, or the page is closed, or the attempt was submitted without the
\* page being told: no submission that fails is the last one.
PlayerSettles ==
    clock # "running" /\ open ~> summary \/ ~open \/ unaware

\* Player.jsx: "autosave on every answer change (TST-08 - closing the browser
\* and coming back resumes with answers intact)": a player that is opened again
\* shows the answers that are stored.
ResumesIntact == [][~open /\ open' => shown' = stored]_playerVars

\* Where the last answer given is, on its way: in the pause, in a save, stored,
\* scored. Nothing is on its way when the attempt is being submitted.
Followed(q) ==
    /\ \A r, s \in saves : r.question = q /\ s.question = q => r = s
    /\ timer[q] # 0 => timer[q] = typed[q]
    /\ timer[q] = 0 => \A s \in saves : s.question = q => s.answer = typed[q]
    /\ ~sealed /\ q \notin Unsaved => stored[q] = typed[q]
    /\ sealed => scored[q] = typed[q]
    /\ open /\ q \notin stale => shown[q] = typed[q]
    /\ submits > 0 \/ sealed => q \notin Unsaved

\* A player is what it should be; nothing is stored after the scoring, and the
\* last answer given is what is stored, scored and shown.
PlayerInv ==
    /\ PlayerTypeOK /\ AnswersAgree
    /\ sealed => scored = stored
    /\ \A q \in Fields \ excused : Followed(q)
=============================================================================
