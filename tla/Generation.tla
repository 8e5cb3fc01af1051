----------------------------- MODULE Generation -----------------------------
(***************************************************************************)
(* Requests to the AI, from the client's key to the questions made of what *)
(* comes back.  A request is retried by the client with the same key, and  *)
(* by the gateway with other attempts and other providers; its server can  *)
(* die, or lose the database, between any two of its steps.                *)
(***************************************************************************)
EXTENDS Handlers, Sequences, FiniteSetsExt

CONSTANTS
    Keys,      \* idempotency keys, of one tenant and purpose
    TestKeys,  \* those of POST /tests/generate
    Configs,   \* model configurations: the primary one is 1, its fallbacks follow
    Attempts,  \* attemptsPerProvider
    Budget,    \* of each configuration; an execution costs 1
    Items      \* questions in the output of an execution: 1, 2, ...

ASSUME GenerationAssumption ==
    /\ IsFiniteSet(Handlers) /\ TestKeys \subseteq Keys
    /\ Configs \subseteq Nat \ {0} /\ Configs # {}
    /\ Attempts \in Nat \ {0} /\ Budget \in Nat /\ Items \in Nat \ {0}

VARIABLES
    execution,   \* AIPromptExecution: status, and the configuration it counts for
    cost,        \* AICostTracking: the sum of a configuration
    draft,       \* QuestionGenerationHistory: "none", "open" or "accepted"
    generating,  \* the handlers
    stale,       \* history: handlers that planned before another one's cost was
                 \* recorded
    started,       \* history: generations asked of the gateway, by key
    saved,       \* history: questions made of a draft
    tests,       \* history: tests made of an execution
    answered,    \* history: keys whose drafts were returned
    raced        \* history: drafts that two requests accepted together

generationVars ==
    <<execution, cost, draft, generating, stale, started, saved, tests, answered, raced>>

Draft == 1..Items
NoConfig == 0
Statuses == {"none", "running", "succeeded", "failed", "blocked"}
GenerationState ==
    {Idle} \cup [op : {"planned"}, key : Keys, eligible : SUBSET Configs]
           \cup [op : {"calling"}, key : Keys, left : SUBSET Configs, attempt : 1..Attempts]
           \cup [op : {"blocked", "accepted", "stored", "failing", "drafting"}, key : Keys]
           \cup [op : {"saving", "linked"}, key : Keys, item : Draft]
           \cup [op : {"linking"}, key : Keys, item : 1..(Items + 1)]

GenerationInit ==
    /\ execution = [k \in Keys |-> [st |-> "none", config |-> NoConfig]]
    /\ cost = [c \in Configs |-> 0]
    /\ draft = [k \in Keys |-> [i \in Draft |-> "none"]]
    /\ generating = [h \in Handlers |-> Idle]
    /\ started = [k \in Keys |-> 0] /\ tests = [k \in Keys |-> 0]
    /\ saved = [k \in Keys |-> [i \in Draft |-> 0]]
    /\ answered = {} /\ raced = {} /\ stale = {}

Doing(h) == generating[h].op
KeyOf(h) == generating[h].key
Moves(h, s) == generating' = [generating EXCEPT ![h] = s]
SetStatus(k, st) == execution' = [execution EXCEPT ![k].st = st]
drafts == <<draft, saved, tests, answered, raced>>

-----------------------------------------------------------------------------
\* eligibleConfigurations: those that have not spent their budget.
BugWithinBudget(c) == cost[c] <= Budget
WithinBudget(c) == cost[c] < Budget
Plan(h, k) ==
    /\ generating[h] = Idle
    /\ Moves(h, [op |-> "planned", key |-> k, eligible |-> {c \in Configs : WithinBudget(c)}])
    /\ stale' = stale \ {h}
    /\ UNCHANGED <<execution, cost, started, drafts>>

\* createExecution: the key is unique. It counts for the first eligible
\* configuration, or for the primary one, and is then blocked.
NewKey(k) == execution[k].st = "none"
Create(h) == LET k == KeyOf(h) E == generating[h].eligible IN
    /\ Doing(h) = "planned" /\ NewKey(k)
    /\ execution' = [execution EXCEPT ![k] =
            [st |-> "running", config |-> Min(IF E = {} THEN Configs ELSE E)]]
    /\ Moves(h, IF E = {} THEN [op |-> "blocked", key |-> k]
                ELSE [op |-> "calling", key |-> k, left |-> E, attempt |-> 1])
    /\ started' = IF E = {} THEN started ELSE [started EXCEPT ![k] = @ + 1]
    /\ UNCHANGED <<cost, stale, drafts>>

Block(h) ==
    /\ Doing(h) = "blocked" /\ SetStatus(KeyOf(h), "blocked")
    /\ Moves(h, Idle) /\ UNCHANGED <<cost, stale, started, drafts>>

\* The key was used: the output of an execution that succeeded is returned
\* again, anything else is an error.
Reusable(k) == execution[k].st = "succeeded"
Reuse(h) == LET k == KeyOf(h) IN
    /\ Doing(h) = "planned" /\ ~NewKey(k)
    /\ Moves(h, IF generating[h].eligible # {} /\ Reusable(k)
                THEN [op |-> "drafting", key |-> k] ELSE Idle)
    /\ UNCHANGED <<execution, cost, stale, started, drafts>>

\* AiGateway.generate: an error of a provider that may pass is tried again, any
\* other one leads to the next provider.
MayRetry(h) == generating[h].attempt < Attempts
CallProvider(h, outcome) ==
    LET g == generating[h] rest == g.left \ {Min(g.left)} IN
    /\ g.op = "calling"
    /\ Moves(h, CASE outcome = "output" -> [op |-> "accepted", key |-> g.key]
                  [] outcome = "retryable" /\ MayRetry(h) -> [g EXCEPT !.attempt = @ + 1]
                  [] OTHER -> IF rest = {} THEN [op |-> "failing", key |-> g.key]
                              ELSE [op |-> "calling", key |-> g.key, left |-> rest, attempt |-> 1])
    /\ UNCHANGED <<execution, cost, stale, started, drafts>>

StoreOutput(h) ==
    /\ Doing(h) = "accepted" /\ SetStatus(KeyOf(h), "succeeded")
    /\ Moves(h, [op |-> "stored", key |-> KeyOf(h)])
    /\ UNCHANGED <<cost, stale, started, drafts>>

\* recordTokenUsage and recordCost, for the configuration of the execution.
RecordCost(h) == LET k == KeyOf(h) IN
    /\ Doing(h) = "stored"
    /\ cost' = [cost EXCEPT ![execution[k].config] = @ + 1]
    /\ stale' = {g \in Handlers : generating[g] # Idle /\ g # h} \cup stale
    /\ Moves(h, [op |-> "drafting", key |-> k])
    /\ UNCHANGED <<execution, started, drafts>>

\* A write fails: the execution is marked failed, whatever it was.
WriteFails(h) ==
    /\ Doing(h) \in {"accepted", "stored"}
    /\ Moves(h, [op |-> "failing", key |-> KeyOf(h)])
    /\ UNCHANGED <<execution, cost, stale, started, drafts>>

MarkFailed(h) ==
    /\ Doing(h) = "failing" /\ SetStatus(KeyOf(h), "failed")
    /\ Moves(h, Idle) /\ UNCHANGED <<cost, stale, started, drafts>>

\* The server dies, or answers with an error: what it wrote stays.
Dies(h) ==
    /\ generating[h] # Idle
    /\ Moves(h, Idle) /\ UNCHANGED <<execution, cost, stale, started, drafts>>

-----------------------------------------------------------------------------
\* upsertGenerationDrafts: the rows that are not there are created; a request
\* that meets another one's rows on the way fails (Dies).
Upserted(k) == [i \in Draft |-> IF draft[k][i] = "none" THEN "open" ELSE draft[k][i]]
MakeDrafts(h) == LET k == KeyOf(h) IN
    /\ Doing(h) = "drafting"
    /\ draft' = [draft EXCEPT ![k] = Upserted(k)]
    /\ IF k \in TestKeys
       THEN Moves(h, [op |-> "linking", key |-> k, item |-> 1]) /\ UNCHANGED answered
       ELSE Moves(h, Idle) /\ answered' = answered \cup {k}
    /\ UNCHANGED <<execution, cost, stale, started, saved, tests, raced>>

\* linkGenerationDecision, in the transaction that creates the question: the
\* draft must be open. A test takes the drafts in turn.
Undecided(k, i) == draft[k][i] = "open"
FindDraft(h, k, i) ==
    /\ generating[h] = Idle /\ k \in answered /\ Undecided(k, i)
    /\ Moves(h, [op |-> "saving", key |-> k, item |-> i])
    /\ UNCHANGED <<execution, cost, stale, started, drafts>>

TakeDraft(h) == LET g == generating[h] IN
    /\ g.op = "linking" /\ g.item <= Items /\ Undecided(g.key, g.item)
    /\ Moves(h, [g EXCEPT !.op = "linked"])
    /\ UNCHANGED <<execution, cost, stale, started, drafts>>

Accepting(h, k, i) ==
    Doing(h) \in {"saving", "linked"} /\ KeyOf(h) = k /\ generating[h].item = i
Accept(h) == LET g == generating[h] k == g.key i == g.item IN
    /\ Accepting(h, k, i)
    /\ draft' = [draft EXCEPT ![k][i] = "accepted"]
    /\ saved' = [saved EXCEPT ![k][i] = @ + 1]
    /\ raced' = IF \E f \in Handlers \ {h} : Accepting(f, k, i)
                THEN raced \cup {<<k, i>>} ELSE raced
    /\ Moves(h, IF g.op = "saving" THEN Idle
                ELSE [op |-> "linking", key |-> k, item |-> i + 1])
    /\ UNCHANGED <<execution, cost, stale, started, tests, answered>>

\* createDraftTest, with the questions of all the drafts.
BugAllTaken(g) == g.item >= Items
AllTaken(g) == g.item = Items + 1
MakeTest(h) == LET g == generating[h] IN
    /\ g.op = "linking" /\ AllTaken(g)
    /\ tests' = [tests EXCEPT ![g.key] = @ + 1]
    /\ Moves(h, Idle)
    /\ UNCHANGED <<execution, cost, stale, started, draft, saved, answered, raced>>

GenerationNext == \E h \in Handlers :
    \/ \E k \in Keys : Plan(h, k) \/ \E i \in Draft : FindDraft(h, k, i)
    \/ Create(h) \/ Block(h) \/ Reuse(h)
    \/ \E outcome \in {"output", "retryable", "final"} : CallProvider(h, outcome)
    \/ StoreOutput(h) \/ RecordCost(h) \/ WriteFails(h) \/ MarkFailed(h) \/ Dies(h)
    \/ MakeDrafts(h) \/ TakeDraft(h) \/ Accept(h) \/ MakeTest(h)

GenerationSpec == GenerationInit /\ [][GenerationNext]_generationVars

-----------------------------------------------------------------------------
GenerationTypeOK ==
    /\ execution \in [Keys -> [st : Statuses, config : Configs \cup {NoConfig}]]
    /\ cost \in [Configs -> Nat]
    /\ draft \in [Keys -> [Draft -> {"none", "open", "accepted"}]]
    /\ generating \in [Handlers -> GenerationState]
    /\ started \in [Keys -> Nat] /\ tests \in [Keys -> Nat]
    /\ saved \in [Keys -> [Draft -> Nat]]
    /\ stale \subseteq Handlers /\ answered \subseteq Keys /\ raced \subseteq Keys \X Draft

\* However often the client repeats a request, and wherever servers die, its
\* key asks the providers for one generation; a failed one needs a new key.
OneGeneration == \A k \in Keys : started[k] <= 1

\* An execution takes its configuration past the budget only if the cost of
\* another one was recorded after its own check.
BudgetHolds ==
    [][\A h \in Handlers :
        generating[h].op = "stored" /\ h \notin stale /\ cost' # cost /\ generating'[h] # generating[h]
            => \A c \in Configs : cost'[c] # cost[c] => cost'[c] <= Budget]_generationVars

\* A draft gives one question, unless two requests that save it read it before
\* either was done; and a test is made only of a full set of questions, so that
\* a key which is repeated, after a server died halfway too, makes no second one.
DraftUsedOnce ==
    \A k \in Keys, i \in Draft :
        /\ <<k, i>> \notin raced => saved[k][i] <= 1
        /\ tests[k] <= saved[k][i]

\* "existing rows are left untouched, and any missing are backfilled": every
\* draft that was returned is recorded, and one that was saved stays so when
\* the request that generated it is repeated.
DraftsStay ==
    /\ \A k \in answered : \A i \in Draft : draft[k][i] # "none"
    /\ \A k \in Keys, i \in Draft : saved[k][i] > 0 => draft[k][i] = "accepted"

\* The handler that created the execution of a key is the only one that works on
\* it, and what it still has to do agrees with the row.
Working == {"blocked", "calling", "accepted", "stored", "failing"}
Works(h, k) == Doing(h) \in Working /\ KeyOf(h) = k
StatusAt(op) == CASE op = "stored" -> {"succeeded"}
                  [] op = "failing" -> {"running", "succeeded"}
                  [] OTHER -> {"running"}
OneWorker ==
    /\ \A k \in Keys : execution[k].st # "none" => execution[k].config \in Configs
    /\ \A h \in Handlers : Doing(h) \in Working => execution[KeyOf(h)].st \in StatusAt(Doing(h))
    /\ \A g, h \in Handlers : Doing(g) \in Working /\ Works(h, KeyOf(g)) => g = h

\* What a handler beside which no cost was recorded knows of the budgets.
BudgetKnown ==
    \A h \in Handlers \ stale :
        /\ Doing(h) = "planned" => generating[h].eligible = {c \in Configs : cost[c] < Budget}
        /\ Doing(h) \in {"calling", "accepted", "stored"} =>
              cost[execution[KeyOf(h)].config] < Budget

\* What every step preserves: one generation for a key, drafts that stay, and a
\* draft that gives one question; an open draft has given none, one that is
\* being saved is open, and a test is behind the questions it takes.
GenerationInv ==
    /\ GenerationTypeOK /\ OneGeneration /\ DraftUsedOnce /\ DraftsStay
    /\ OneWorker /\ BudgetKnown
    /\ \A k \in Keys : execution[k].st = "none" => started[k] = 0
    /\ \A h \in Handlers : Doing(h) \in {"linking", "linked"} => KeyOf(h) \in TestKeys
    /\ \A k \in Keys, i \in Draft :
          /\ <<k, i>> \notin raced =>
                /\ draft[k][i] # "accepted" => saved[k][i] = 0
                /\ \A h \in Handlers : Accepting(h, k, i) => draft[k][i] = "open"

-----------------------------------------------------------------------------
\* The promise of GenerationContract: what the handlers that plan, work, return
\* drafts and save them are about to do, and the rows.
Seen(h) == IF h \in stale THEN "late" ELSE "fresh"
TaskAt(op) == CASE op = "blocked" -> "blocking"
                [] op = "stored" -> "charging"
                [] op = "failing" -> "failing"
                [] OTHER -> "generating"
Stage == [k \in Keys |-> execution[k].st]
Chosen == [k \in Keys |-> execution[k].config]
TaskOf(k) == LET W == {h \in Handlers : Works(h, k)} IN
    IF W = {} THEN "none" ELSE TaskAt(Doing(CHOOSE h \in W : TRUE))
Task == [k \in Keys |-> TaskOf(k)]
LateKeys == {k \in Keys : \E h \in stale : Works(h, k)}
Asked == {<<Seen(h), KeyOf(h)>> : h \in {g \in Handlers : Doing(g) = "planned"}}
Returning == {KeyOf(h) : h \in {g \in Handlers : Doing(g) = "drafting"}}
Taking == {<<KeyOf(h), generating[h].item>> :
               h \in {g \in Handlers : Doing(g) \in {"saving", "linked"}}}

Contract == INSTANCE GenerationContract WITH
    asked <- Asked, stage <- Stage, task <- Task, late <- LateKeys, config <- Chosen,
    spent <- cost, returning <- Returning, taking <- Taking
\* Whatever is repeated, fails or dies, and however requests overlap: a key has
\* one generation and one charge, within the budget unless another was charged
\* beside it; drafts come of a stored output, and questions and tests of drafts.
GenerationContractSpec == Contract!Spec
=============================================================================
