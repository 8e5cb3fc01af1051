# Zorfly: a verification project in TLA+

Zorfly is a workforce-assessment service: a modular monolith (Express 5, Prisma,
PostgreSQL) with a React client, in which companies author tests, assign them to
employees, score and review attempts, reward learners and run recruitment
drives. This directory holds TLA+ models of its server-side logic and of the
parts of the client that decide something, TLC configurations that check them on
small instances, and TLAPS proofs.

The models are about what tests reach badly: handlers of concurrent requests
that act on rows they read earlier, scheduler ticks that overlap, processes that
die between a commit and what follows it, messages that are lost or arrive out
of order, and sequences of legal calls that leave the system somewhere nobody
wanted it.

## 1. Inventory

State lives in PostgreSQL; the processes share nothing else. An HTTP handler is
a sequence of reads, decisions and transactions. Unless it says otherwise a
transaction runs READ COMMITTED, so whatever a handler read before it may be
stale when it writes. Only `POST /attempts/start` runs SERIALIZABLE.

| Component (under `src/`) | State it keeps | Operations | Hard part | Correct when |
|---|---|---|---|---|
| Attempts (`backend/api/src/modules/assessment/attempts.router.ts`) | assignments, attempts, responses | start, resume, autosave, submit, lazy finalization | double submit, autosave racing submit, time limit, crash after the claim | an attempt is scored once, from answers in time; its assignment agrees with it |
| Assignment management (`assessment/tests.router.ts`) | campaigns, assignments | assign, revoke, close, archive | revoke racing start | started work survives, revoked work is never started |
| Scheduler (`assessment/scheduler.ts`, `server.ts`) | schedules, cycles, campaigns | tick, create, toggle, blackout, delete, close overdue | ticks overlap (no guard, one per process), one failing schedule aborts a tick | one cycle per schedule and period; every due schedule runs |
| Manual review (`assessment/reviews.router.ts`) | attempt summary and score, review rows | list, score a question | whole-summary read-modify-write by several reviewers | every review counts; a fully reviewed attempt is published, for good |
| Scoring (`assessment/scoring.ts`, `question.validation.ts`) | none | validate and score nine question types | order of claims, penalties, rounding | a perfect answer earns the marks, no answer more |
| Rewards, badges, certificates (`engagement/*`) | points ledger, reward transactions, badge awards, certificates | evaluate an attempt, award, issue | stale balance, dedupe by unique keys, crash between awards | a rule pays once per attempt; one certificate per test |
| Test authoring (`assessment/tests.router.ts`) | definitions, versions | create, edit, publish, delete | edit or delete racing publish | a published test keeps its paper |
| Question bank (`assessment/questions.router.ts`) | questions, versions | create, edit, publish, delete | edit racing edit, delete of a used question | the newest version is the current one |
| AI generation (`modules/ai/*`, `packages/ai-core`) | prompt executions, usage, drafts | generate, retry, fall back, accept | provider failover, timeouts, idempotency, death between two steps | one generation per idempotency key; a draft gives one question |
| Authentication (`modules/auth/*`) | users, sessions, reset tokens, audit chain | login, refresh, logout, reset, recordAudit | concurrent refresh, token reuse, concurrent audit appends | a link is used once, an ended session stays ended; the audit chain leads back to its start |
| Organization (`modules/organization/*`) | org units, memberships, employees | CRUD, import, move, terminate | checks older than the write they guard | nobody is in a unit or a role that is gone |
| Learning (`modules/learning/*`) | materials, paths, enrolments, step progress | assign, complete a step, view | concurrent completions | progress matches the completed steps |
| Recruitment (`modules/recruitment/*`) | drives, candidates, attempts, decisions | register, start, answer, submit, decide, close | submit overwrites a decision, close racing registration | a decision stays, a candidate sits once |
| Billing (`modules/billing/*`) | subscriptions, invoices, coupons | subscribe, cancel, redeem | coupon limit under concurrency | a coupon is used at most its limit |
| Web client (`frontend/web/src`) | answers shown, timers, access tokens, the form of a question | player, API client, question editors | saves that overlap, submissions that fail, refresh during calls | nothing shown as answered is lost; every call ends |
| Notifications (`modules/communications/*`) | notifications, read marks | list, mark read | idempotence | read stays read |
| Reports, leaderboard (`modules/reports/*`, `engagement/leaderboard.router.ts`) | none (reads) | aggregate, export | none | none |
| Access control (`domain/access-control.ts`) | none (tables) | permission lookup | none | none |
| Worker, packages, schema | none of their own | job consumer stub, configuration, DDL | none | none |

How they interact: `attempts.finalizeAttempt` scores, then calls rewards and
certificates after its commit and notifies; reviews write the attempt and its
assignment; the scheduler and the managers write assignments the attempts
handlers read; recruitment has candidates sit the same attempts; authoring draws
on the question bank, and generation adds questions to it; the employee limit is
that of the billed plan; every handler appends to the audit chain of `auth`. The
client's player talks to the attempts handlers, its API client to `auth`.

## 2. Plan

The most important behaviour first: an assessment from assignment to result.

| Order | Module | Models | Abstract specification | Theorems | State |
|---|---|---|---|---|---|
| 1 | `Attempts` | assign, revoke, start, save, submit, finalize, close overdue | `AttemptContract` | inductive invariant, every safety property, refinement | done |
| 2 | `Reviews` | reviewers of one attempt | | inductive invariant, publication, agreement of the records | done |
| 3 | `Rewards` | points, badges, certificates after finalizations | `RewardContract` | inductive invariant, one payment, nothing owed in the end, refinement | done |
| 4 | `Scheduler` | ticks, cycles, schedule management | `CycleContract` | inductive invariant, one cycle a day, one notice, refinement | done |
| 5 | `Recruitment` | drives, candidates, their attempts, decisions | `RecruitmentContract` | inductive invariant, one sitting, decisions and reviews that stay, refinement | done |
| 6 | `Generation` | executions by key, failover, drafts | `GenerationContract` | inductive invariant, budgets, refinement | done |
| 7 | `QuestionBank`, `Authoring` | questions, tests, their versions | | inductive invariant, papers that stay | done |
| 8 | `Sessions`, `Player` | the client: refresh and calls, a test being taken | | inductive invariants, nobody thrown out | done |
| 9 | `Credentials`, `AuditTrail`, `Billing`, `Employees`, `OrgUnits`, `Learning` | the services around the assessment | | inductive invariants | done |
| 10 | `Scoring`, `Questions` | a question from its form to the score of an answer | | inductive invariant, marks within bounds | done |

Left for later: the pages of reports and the administration of AI
configurations; a composition of `Attempts` with `Reviews` in one state space, which
is out of TLC's reach for the bounds that make each interesting.

`Attempts` and `Reviews` meet at one row: finalization leaves an attempt
`NEEDS_REVIEW` (the initial state of `Reviews`), and `Attempts` keeps of the
reviews what they write (`ReviewPublishes`, `ReviewLeavesPending`). `Rewards`
starts at the commit of a finalization, which `Attempts` shows to happen once
per attempt. `Player` keeps of `Attempts` one attempt with its stored answers.
`Scoring` gives the marks that `Reviews` adds up and `Attempts` names by the answers they
come from.

## 3. Modules

All of them follow one pattern. A process of the model is a handler of a
request, a tick, or a page of the browser. Its first action (`...Read`, `Check...`,
`Find...`, `Scan`) makes the reads that precede a transaction and keeps the result in
the handler's local record; the last (`...Commit`, `...Member`, `Record...`) is the
transaction, with the guards it makes at that point and no others. Unique
constraints are checked by the commit; a violation is an action of its own
(`...Conflict`, `...Fails`, `AbortTick`). `Abandon`, `Fail`, `Dies` are the process dying, the
connection failing, or an error the handler does not catch. Variables marked
"history" record what happened (that two requests overlapped, say) and guard no
action.

`XInv` of a module is its inductive invariant: a conjunction of named parts, its
type invariant among them.

### Attempts, AttemptContract, AttemptsClaims

One employee, the tests of a company, and `Assignments` numbered by creation.

| Variable | In the code |
|---|---|
| `assignment`, `active` | `AssessmentAssignment` rows; campaigns that are active |
| `attempt`, `response` | `AssessmentAttempt` and `AttemptResponse` rows |
| `announced` | notifications of a result |
| `handler`, `admin`, `tick` | requests of the employee, of managers, and ticks |

`StartRead`/`StartCommit` are `POST /attempts/start` (one serializable
transaction after a look-up outside it), `SaveRead`/`SaveCommit` the autosave,
`SubmitRead` and `SeeTimedOut` the two ways into `finalizeAttempt`, whose
claim-and-score transaction is `FinalizeCommit`, and `FinalizeLost` the loser of
that claim. `AssignRead`/`AssignCommit`, `RevokeRead`/`RevokeCommit` and `Archive`
are the managers'; `ScanDue`, `LookForSubmitted`, `CloseDue` are
`closeDueAssignments`, row by row. An answer is its client sequence number and
its time of arrival; a score is abstracted to the answers it was computed from.

`AttemptContract` is the promise to the employee: an assignment is sat at most
once, sealed in one step, announced at most once afterwards. `ContractSpec` is
`AttemptContract!Spec` under the mapping of the rows. `AttemptsClaims` states what
documents and comments say and the handlers do not keep.

### Scoring, Questions

`Scoring` translates the functions of `scoring.ts`: one operator per question type,
marks in hundredths, an answer as the sequence of its claims (options, words, clicks,
moments, items in order, pairs). `Clicks` and `Matches` are the two loops whose order
matters: each click takes the first zone not found yet, each mistake of a video
the nearest moment nobody took. `Questions` is the life of one question: its form
(`QuestionEditor.jsx`, one action per button and field), the validator (`Valid`),
`SaveQuestion`, what the employee is shown of it (`Sanitized`), and the answer as it
is given (`AnswerInput.jsx`). Texts are filled or not; zones are intervals; marks of single
zones and mistakes, which no form sets, are left out. `multiple_error_detection` is scored
and edited as `hotspot` is.

### Reviews

One submitted attempt, its `question`, `work` (`ManualReview`) rows and its
JSON `summary`. `ReviewRead` reads and computes the new summary, `ReviewCommit`
writes it whole, `Tell` notifies. `overlapped` is a history variable: it says that
two requests have been between read and commit at once.

### Rewards, RewardContract

The handlers of several attempts of one employee after `finalizeAttempt`'s
commit: `evaluateRewards` query by query, badge by badge, award then points, and
`issueCertificateIfPassed`, each statement an action because there is no
transaction around them. A ledger row holds the set of rows its balance adds up, so
that a balance computed from a stale sum can be told from a right one. `failed` records the
attempts whose handler did not reach its end.

`RewardContract` promises the employee one grant of each badge, one credit for each
thing that earned it, and one certificate of a test, from an attempt that passed; it knows no handlers.
Its `finished`, `holder`, `account` and `diploma` are the attempts submitted and the award,
ledger and certificate rows. A balance may miss credits in flight, which the promise
allows (`Credit` takes any set of earlier ones), but what a row says is never rewritten.

### Scheduler, CycleContract

Overlapping `runSchedulerTick`s (`Ticks`: intervals of one process that run into
each other, or several processes) and the schedule requests. A tick reads the
schedules once (`Scan`), opens due cycles one transaction each (`OpenCycle`,
`Commit`), and closes overdue assignments (`FindDue`, `CloseAssignment`).
`OpenCycle` takes the unique keys, so another insert of the same cycle waits
(`Locked`) and then aborts its tick (`AbortTick`): nothing inside the loop catches
an error. Notices are sent inside the transaction, before its commit, and are
counted up to 2. One employee stands for the audience; its disappearance is
`ChangeAudience`. `SetBlackoutDates` is one step with two outcomes: two requests
that overlap may leave both sets of dates. `LateReads` says whether time may pass
between a tick taking its clock and reading the schedules.

`CycleContract` has no ticks: a cycle is told and opened on a day its schedule asks for, not before
its hour, unless the schedule was deleted or the day blacked out earlier, and closed after its
deadline. `pending` are the cycles of the transactions in flight (`InFlight`), `stage` the
`assignments`, `told` the `notices`, `Planned` the recurrence. When transactions may fail (`Lossy`, that is `Failures`) a cycle
can be given up and told again; otherwise each is told once.

### Recruitment, RecruitmentContract

A candidate and a drive make an application. Registration is the chain of look-ups
of its transaction (`FindCandidate`, `FindApplication`, `FindAssignment`),
`RegisterCommit` the inserts of what was missing. `Start`/`StartCommit`,
`Save`/`SaveCommit`, `Submit`/`SubmitCommit` are the candidate's attempt: unlike an
employee's submission, the transaction claims nothing, and only the unique review
rows (`ReviewTaken`) stop a second one. `Decide`, `CreateDrive`, `CloseDrive` are the
recruiter's; `FindDue`, `LookForSubmitted`, `CloseDue` the tick's. Encryption, the
candidate's token and the lists (which only read) are left out. `ReviewPublishes` stands for
`Reviews`; the reviewers' list (`GET /reviews`) shows attempts of mode `OFFICIAL`
only, so a candidate's attempt is reviewed only by a request that names it.

`RecruitmentContract` has no look-ups and no unique keys. What handlers in flight will do is the set
`asks` (`Asks`): to be admitted, to begin, to save, to hand in a version of the answers. Who asks within the
window is admitted and begins once; a result is that of answers stored when it was handed in; typed
answers wait for a reviewer, once, and what he publishes stays; a place expires after the window only. `status`,
`place`, `sheet` and `marked` are the application, the assignment, the attempt and the review rows.
It also says what the code does not exclude: a second submission of choice
answers replaces the first result (`HandIn` asks only that the test was begun), and an expiry may hit a
place whose test is under way.

### QuestionBank, Authoring, Generation, GenerationContract

`QuestionBank`: an edit finds the question and its current version, then, in a second query, the
newest number (`FindToEdit`, `FindVersion`: one `findFirst` with an `include`), and inserts the next one later; the
unique number stops the second of two edits that read it. `straddled` records the questions for which an edit came between the
two queries of another. `Authoring` extends it with tests: `paper` holds the
links to questions, with the version and the marks each had when it was linked;
the transaction that writes a draft looks at nothing again. `remade` records the tests
whose publication a request on the draft overlapped. `Generation` is
`AiExecutionService.generate` and what is made of its output; providers are reduced
to their outcomes, and a valid output is taken to hold `Items` questions. `RecordCost` is one charge where the
code inserts the token usage and two cost rows one after the other (`ai.service.ts:200-211,270-291`): a server
that dies between them leaves part of a charge, which the model has as none or all of it.

`GenerationContract` has no handlers, providers or deaths: a key has one generation, which has one
server (`task`), is charged once, after its output is stored, and overdraws a budget only if another was
charged beside it (`late`); drafts come of a stored output, questions of drafts that were open when
they were asked for (`taking`), and a test of questions no other test took. `asked`, `returning` and
`taking` are what the handlers in flight are about to do; `stage`, `config` and `spent` are
the rows of executions and costs.

### Sessions, Credentials, AuditTrail

`Sessions` are the tabs of a browser (`client.js`: one refresh at a time, calls that wait for
it) and the session rows: `rotateSession` writes by the id it read. `Credentials`
names a password by its version, and records for each session the version that was
proved when it opened. `AuditTrail` is `recordAudit`: the newest event that is visible, the
id of the sequence, and a row that others see later; ids are handed out in another
order than rows become visible.

### Billing, Employees, OrgUnits, Learning

Checks before a transaction and writes in it. `Employees` extends `Billing`, because the
employee limit is that of the newest live subscription. Their history variables (`crowd`,
`crossed`, `mixed`, `loose`, `lapped`) name what overlapped, so that the
invariants can say exactly what goes wrong and for whom. A step of a path with a test is complete while
some attempt of the employee is passed now: `PassTest` is such an attempt, and `TakePassBack` a review that overlapped
another and writes a verdict computed from the older summary (`Reviews` shows how), recorded in `retracted`. The steps are
looked up one query after the other (`ReadItems`, `QueryTest`), with passes coming and going between them. In `OrgUnits` the first free
suffix of a code is searched among all units, deleted ones included, as `uniqueCode` does.

### Player

`Player.jsx` against the server's attempt: answers, the pause before a save
(`timer`), saves and submissions on their way, the countdown, leaving the tab. An answer
is the number of times its question was answered, `typed` the last one given.

The page is left in two ways. `Close` is the browser's: answers in a pause are lost. `Leave` opens another page of
the application: nothing clears the pauses, and their answers are still sent. It comes back in three. `Resume`
asks the server (`GET /attempts/:id`), and so does `StartAgain` (`POST /attempts/start`), whose answer goes
into the browser's history as `location.state`; `FromHistory` is a reload, a restored tab or Back to such an entry:
the page takes its attempt and its answers from there and asks nobody (`Player.jsx:18,20,37`). `kept` are the answers
of those states. A page that comes back with older answers marks their questions `stale` until they are
answered again. It may also come back to an attempt that is over, and becomes a player again whose submissions
are refused (422), when the clock is at zero one after the other; `PlayerSettles` excepts it as `unaware`.

`excused` are the questions whose last answer may be missing: a message or a pause
was lost, two saves overlapped, or the test was submitted while one was waiting. A stale question is
not excused: the server still has, and scores, the last answer given. One answer counts as a whole: when an
answer of several parts is completed on a page that shows an older one, it replaces the newer parts too, and
is the last one given. One page of the attempt is open at a time.

### The modules for TLC

`MCAttempts`, `MCRewards`, `MCScheduler`, `MCRecruitment` give constants their values.
`MCEmployee`, `MCReviews`, `MCClient` and `MCServices` check several modules that share no state
in one run: `running`, fixed by the initial state, is the one that moves, and the others stay as
they start. In `MCReviews` the scheduler's transactions fail and administrators act; `MCScheduler`
has the instances without either. `MCClient` holds a second instance of `Attempts`, `Twice`, with two
assignments of one test without time limit and two requests; `AttemptsProofs`, instantiated the same
way, proves its invariant. In `MCServices` the questions move alone with three versions (`bank`) and
under the tests with two (`FewVersions`). `Handlers` are the request handlers the services' modules share.

## 4. Runs

| Run | Kind | Asks |
|---|---|---|
| `employee_overlap` | pass | rows consistent; scored and announced once, from answers in time; the refinement of `AttemptContract`. Nobody is thrown out of a live session undisturbed, and none that ended comes back; a reset link sets one password |
| `attempts_retake` | violation | attempts that are left can be started |
| `reviews_overlap` | pass | nothing published unreviewed; without overlap, records agree and publication follows. A question keeps its key consistent, is accepted only if it can be solved, and a score stays within its marks. Overlapping ticks open one cycle a day, none after deletion, none on a blackout date |
| `reviews_final` | violation | with every question reviewed the result is final |
| `rewards_overlap` | pass | a badge pays once; certificates; nothing is lost to overlap alone; the refinement of `RewardContract` |
| `rewards_certified` | violation | a pass is certified |
| `scheduler_live` | pass | due cycles are opened, overdue assignments closed; the refinement of `CycleContract`: notices sent once, for cycles that are due |
| `scheduler_starved` | violation | a tick does all of its work |
| `recruitment_overlap` | pass | one assignment, one attempt; decisions are not undone; the refinement of `RecruitmentContract`: nor are reviews |
| `client_live` | pass | timed-out attempts and overdue assignments close; the player and the API client come to an end; the last answer given is stored and scored, however the page comes back; two assignments of one test agree with their attempts |
| `player_resumes` | violation | a player that is opened again shows the stored answers |
| `services_overlap` | pass | audit chain, billing, staff, units, learning, tests and generations, one at a time; the refinement of `GenerationContract` |

What the violations show:

- `attempts_retake`: no handler makes a finished assignment available again, so
  `maxAttempts` above 1 cannot be used although the client offers "Retake".
- `reviews_final`: two reviewers of different questions overwrite each other's
  summaries. Both questions are `SCORED`, one is still pending in the summary, and
  no request can review it again.
- `rewards_certified`: the certificate is decided from the provisional verdict; an
  attempt that passes by manual review never gets one.
- `scheduler_starved`: an audience that no longer exists throws in the
  middle of the tick, which then skips the later schedules, of all tenants, and the
  closing of assignments, every minute while that schedule is due.
- `player_resumes`: a player opened from the browser's history shows the answers of the start it was opened
  with, although later ones are stored: the state that `MyTests.jsx:40` sets is still there and keeps the page from asking
  (`Player.jsx:37`). The comment at `Player.jsx:9-11` says that it resumes with answers intact.

Claims kept as definitions, each refuted by its model when it is added to a
configuration, and not run: `SubmittedAnswerFrozen`, `LowerSequenceNeverOverwrites`,
`ScoredFromSavedAnswers`, `CompletedStaysCompleted` (`AttemptsClaims`);
`PublishedStaysPublished`, `CompletedReviewImmutable` (`Reviews`);
`BalanceIsRunningTotal` (`Rewards`); `OpenedNotDue` (`Scheduler`, with
`LateReads`); `StateIsLatestDecision`, `ClosedDrivesAdmitNobody` (`Recruitment`);
`EveryMomentCounts` (`Questions`: mistakes are matched to
moments greedily, so an answer whose moments all lie within tolerance of different
mistakes can still miss one).

Disagreements met on the way, which the models reproduce:

- A refresh token that was used a moment ago still rotates its session, because
  `rotateSession` writes by the id it read; `MIGRATION_STRATEGY.md:131-133` calls
  replay rejected.
- No trigger keeps a published version immutable (`DATA_MODEL.md:107`,
  `MIGRATION_STRATEGY.md:119-123` describe them, no `.sql` has them). Two requests on one
  draft let a test be published with a paper that changes afterwards; `remade` says
  when.
- The hash chain of a tenant (`MIGRATION_STRATEGY.md:139`) forks when two appends overlap.
- Tests are built from questions without looking whether these are reviewed
  (`tests.router.ts:208`), although `questions.router.ts:253-258` publishes them for it.
- An edit of a question that comes between the two queries of another leaves its version published though not
  current: the other supersedes the version that was current before (`questions.router.ts:646-658`).
- A path's stored progress is not counted again when a pass is taken back, and is ahead until another step is completed.
- Two requests that accept one draft both succeed in making a question unless the
  second reads after the first commits (`ai.repository.ts:574-576`).
- A generation whose process dies stays `RUNNING` and answers 409 for good; one whose last
  write fails after its success was recorded ends `FAILED`.
- A team is renamed without the look-up of duplicates that creating one makes.
- A badge for zero tests arrives with the first attempt, not at once.
- `QuestionEditor.jsx:640` says items are shown shuffled; they are shown in the
  stored, that is the correct, order.

### Bounds

- Two concurrent requests of a kind: every conflict here is between two (a claim, a
  unique key, a lost update).
- `Attempts`: one assignment with a time limit of 1, a grace period of 1 and a
  clock of 3 reaches answers in time, in the grace period and late, and due
  dates before and after the limit; 2 edits reach saves in the wrong order. Two
  assignments of one test against a manager are the instance `Twice` of `MCClient`.
- `Reviews`: three questions so that one commit can hide another's while a third is
  open; 2 marks so that two scores of one question differ.
- `Questions`: three items, words and claims and two places, so that clicks can take each
  other's zone and moments each other's mistake; penalties of 0 and 30 hundredths and a tolerance
  of 0 and 1.
- `Rewards`: three attempts of two tests, a badge counted and a badge scored, a badge
  that pays; one toggle, one failure (`MaxFailures`).
- `Scheduler`: two days, so that a cycle can be the last or the one before; one
  schedule against the administrators (`reviews_overlap`), two against each other (`scheduler_live`,
  where windows run past midnight).
- `Recruitment`: one candidate and two drives, so that registrations race for the
  profile and for the application; one drive has a window and choice questions, the
  other typed answers; one saved answer and one decision, so that each may fall before, between
  and after the submissions. The three decisions are alike (symmetric model values). Three times: before, in and after the window.
- `Player`: one field, two answers, one tab switch allowed and two made; two losses, so that the page can be left and a
  message lost, or the page left twice.
- `Sessions`: two calls of one tab and two refreshes beside each other; two session rows and a tab
  that logs in while another refreshes in `employee_overlap`. `MaxCuts` bounds the messages that are
  lost and the reloads of a tab by its user; how often an access token runs out is not bounded.
- The services: two handlers, and of everything the two that can conflict (links,
  people, teams, subscriptions, lessons, keys, AI configurations), three versions of a question so that an edit can follow
  one that came between the queries of another, pools of one question, which the bank may have or not; one where a second adds nothing new (department, name, learning test
  and assignment of its path, paper).

`MaxSaves`, `MaxDecisions`, `MaxEdits`, `MaxTime`, `MaxDay`, `MaxToggles`,
`MaxFailures`, `MaxAssignments`, `MaxAnswers`, `MaxLosses`, `MaxSwitches`, `MaxCuts`,
`MaxPasswords`, `MaxEvents`, `MaxSubs`, `MaxVersions`, `MaxItems`, `MaxWords`, `Places` and
`MaxClaims` are bounds of the models; the code has no such limits, or larger ones. Deadlock is not
checked: the bounded clocks and counters make every model stop, and a server without
requests rests.

### Fairness

Safety runs use none. In `client_live` a handler that has begun goes on (the
event loop runs its continuation), the employee's client returns to an open
attempt again and again (strong fairness of `SeeTimedOut`: the pages list the
attempts, and every list finalizes what it sees timed out), its finalization is not lost to a
crash every time, and the interval timer fires; the player's timers and countdown fire and its
requests are answered or fail; a refresh of the API client is answered or fails. Fairness is
asked of the part that is `running` alone, because the others rest. In `reviews_overlap` reviewers
come back to what their list shows, and not every request of a reviewer dies. In
`scheduler_live` `setInterval` keeps starting ticks and a tick goes on (`TickFairness`); nothing fails
there because nothing in the code retries within a tick, and schedules stay as they were created
(`Undisturbed`). Failures and administrators are in `reviews_overlap`.

## 5. Proofs

`*Proofs` modules hold the theorems, for every value of the constants that
satisfies the module's named assumptions: those are bounds in `Nat`, subsets where
the code has subsets, and `Null` outside the data. Sets of employees, tests or requests may be
infinite unless a proof counts them.

| Module | Theorems | Along |
|---|---|---|
| `AttemptsProofs` | types, `InductiveInv`, `NoLateAnswerScored`, `ScoredExactlyOnce`, `RevokedNeverStarts`, `ContractSpec` | an assignment never becomes available again, so its only attempt is number 1, and what a tick remembers stays true; a handler that announces is alone. Late answers: what a save carries arrived after the attempt started (`HeldInTime`), so a score of a stored answer (`StoredInTime`) is one of an answer in time |
| `ClientProofs` | `PlayerInv`, `SessionsInv`, `EndedStaysEnded`, `NeverThrownOut`, `AttemptsInv` | the last answer given to a question is in its pause, in its one save, stored or scored, and shown unless the page came back with an older one, or the question is excused (`Followed`); a call holds the token of its page or waits for the refresh that replaces it, and while nothing cuts in (`Calm`) the refresh holds the newest token; `AttemptsInv` is `InductiveInv` of `Twice`, by an instance of `AttemptsProofs` |
| `ReviewsProofs` | `ReviewInv`, and its parts on agreement, publication and assignments; `QuestionsInv` | whatever a summary, stored or in flight, calls reviewed is scored, except the question its owner is about to score; without overlap the one writer has read what is stored (`WriterUpToDate`); a question: the typed content, ids that differ and are placed, a key that names its items and the acceptance of what is stored (`Core`) are inductive, by one lemma per editor and answer action; from `Core`, by lemmas on rounding, cardinalities and the two recursive walks (`Clicks`, `Matches`: complete induction on a set of places), `Solvable`, `WithinMarks`, `ClaimsSettled` and `MoreIsNoLess` |
| `RewardsProofs` | `RewardInv`, `EveryAwardPaid`, `CountBadgeAwarded`, `PassCertified`, `CertificateKept`, single payment, `RewardContractSpec` | a handler inserts a badge's points only after its own award of that badge; an award without its payment, or a count without its badge, is owed by a handler that has not finished, and the last of several to count sees them all; a handler that is to pay holds an award not paid yet and reads a balance of credits that exist (`PayingOnce`), so each insert is a credit of the contract |
| `SchedulerProofs` | `SchedulerInv`, `ToldOnce`, one cycle a day, deletions and blackouts, `CycleContractSpec` | two transactions never hold the same schedule's new cycle, and what a tick is to open was neither deleted nor blacked out before the tick's day; nobody is told by two transactions when none of them fails; what a tick is to open or to close is due by its own clock, and clocks only advance (`Timely`) |
| `RecruitmentProofs` | `RecruitmentInv`, one assignment, one sitting, `ReviewedStaysPublished`, `DecisionStands`, `RecruitmentContractSpec` | a registration inserts application and assignment together, so the application's unique key protects both; an available assignment has no attempt, so every start in flight wants attempt number 1; an attempt that waits for review has its review row, a submission carries answers that were stored, and a tick closes what is overdue, as completed only what was handed in (`Backed`) |
| `CompanyProofs` | `CredentialsInv`, `AuditInv`, `UnitsInv`, `BillingInv`, `StaffInv`, `StaffKept` | an append points at an event that was visible to it, hence older; what a handler checked still holds unless its history variable says who overlapped; a coupon's uses are counted by the subscriptions that redeemed it and the requests that still may; the first free code exists because the codes taken are finitely many |
| `ContentProofs` | `LearningInv`, `BankAndTestsInv`, `PublishedKeepsPaper`, `GenerationInv`, `BudgetHolds`, `GenerationContractSpec` | what a learner's or an author's request holds agrees with the rows unless they changed in between; the versions of a question are numbered without gaps; the handler that created an execution is the only one that works on it and agrees with its row (`OneWorker`); one beside which no cost was recorded knows that its budget had room (`BudgetKnown`); a test is behind the questions its requests have taken (cardinalities) |

None of the safety properties is inductive by itself: each speaks of rows, and what
the next commit does to the rows depends on what its handler remembers. The
inductive invariants add exactly that (`TickKnows`, `AnnounceOnce`, `Knows`,
`CommitHolds`, `Scheduled`, `WriterUpToDate`, `AppendKnows`, `StaffKnows`, `LimitSeen`,
`LearnerKnows`, `BankKnows`, `AuthorKnows`, `PayingOnce`, `Timely`,
`Backed`, `OneWorker`, `BudgetKnown`), and every one that a theorem names is also an
invariant of a run.

Only model-checked: every liveness property (`PublishedInTheEnd`, `OverdueClosed`,
`DueOpened`, `TimedOutAttemptCloses`, `OverdueAssignmentCloses`, `PlayerSettles`,
`CallsSettle`), since fairness and ENABLED are out of the prover's reach. Every other
property of a passing run is stated by a theorem.

Five refinements are proved, each from the inductive invariant, one lemma per action: a step of
the module is one step of the contract or changes nothing the contract sees.
`CycleContractSpec` is proved with failing transactions and edits of schedules, which its
run leaves out. Some theorems have no run because a contract that is checked says the same:
`CertificateKept` (`RewardContract`), `ToldOnce` without failures (`CycleContract`),
`ReviewedStaysPublished` (`RecruitmentContract`) and `BudgetHolds` (`GenerationContract`).

## 6. Not modelled

Reports, leaderboard, access control and health checks keep no state; notifications
flip one flag; the worker consumes no jobs; packages other than `ai-core` configure. The
client's pages show what the server answers; of them only the player, the question form and
the API client decide something the models tell apart. The weighting of a whole attempt
by categories, the subscription's cap on the number of tests, the lists and previews, and
the contents of prompts are left out. HTTP, validation of bodies, wording and layout are left out
everywhere, and PostgreSQL is modelled by its guarantees: atomic transactions, unique
constraints, row locks until commit, and READ COMMITTED reads.
