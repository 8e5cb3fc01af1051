----------------------------- MODULE Authoring -----------------------------
(***************************************************************************)
(* Tests, from their drafts to their archive.  A test is read, and its     *)
(* questions are looked up, before the transaction that writes its paper;  *)
(* the transaction finds the test by its id, in whatever state it is.      *)
(***************************************************************************)
EXTENDS QuestionBank, FiniteSetsExt

CONSTANTS
    Papers,     \* tests
    Pools       \* sizes of a random paper; 0: there is none

ASSUME AuthoringAssumption == Pools \subseteq Nat /\ 0 \in Pools

VARIABLES
    test,       \* AssessmentDefinition and its version: status, deletedAt, the
                \* configured mode, totalMarks
    paper,      \* the questions linked, with the version and the marks of each
    pool,       \* QuestionPoolRule: questions to draw at random; NoPool: there is none
    authoring,  \* the handlers
    remade      \* history: tests with a request on the draft that overlapped
                \* their publication, or their end

authoringVars == <<test, paper, pool, authoring, remade>>

NoPool == 0
Modes == {"fixed", "random"}
TestStatus == {"none", "draft", "published", "closed", "archived"}
Link == [id : Questions, number : Numbers, marks : Marks]
AuthoringState ==
    {Idle} \cup [op : {"create", "edit", "publish"}, test : Papers,
                 links : SUBSET Link, mode : Modes, pool : Pools]
           \cup [op : {"close", "archive", "delete"}, test : Papers]

AuthoringInit ==
    /\ test = [t \in Papers |-> [st |-> "none", gone |-> FALSE, mode |-> "fixed", total |-> 0]]
    /\ paper = [t \in Papers |-> {}] /\ pool = [t \in Papers |-> NoPool]
    /\ authoring = [h \in Handlers |-> Idle] /\ remade = {}

Authors(h, s) == authoring' = [authoring EXCEPT ![h] = s]

-----------------------------------------------------------------------------
\* resolveQuestions: all of them must be usable, and the current versions count.
Usable(q) == Exists(q) /\ question[q].st # "archived"
Resolved(S) ==
    {[id |-> q, number |-> question[q].current,
      marks |-> version[q][question[q].current].marks] : q \in S}

BugEditable(t) == test[t].st \in {"draft", "published"}
Editable(t) == test[t].st = "draft" /\ ~test[t].gone

\* What POST and PUT look up: a fixed paper of the questions in S, or a pool.
Compose(h, op, t, S, n) ==
    /\ authoring[h] = Idle
    /\ IF op = "create" THEN test[t].st = "none" ELSE Editable(t)
    /\ (n # NoPool => S = {}) /\ \A q \in S : Usable(q)
    /\ Authors(h, [op |-> op, test |-> t, links |-> Resolved(S),
                   mode |-> IF n = NoPool THEN "fixed" ELSE "random", pool |-> n])
    /\ UNCHANGED <<test, paper, pool, remade>>

\* writeDraftContent: the paper and the pool are replaced.
WritePaper(r) ==
    /\ paper' = [paper EXCEPT ![r.test] = r.links]
    /\ pool' = [pool EXCEPT ![r.test] = r.pool]

\* A new test, whichever name the model has left for it.
CreateTest(h, t) == LET r == [authoring[h] EXCEPT !.test = t] IN
    /\ authoring[h].op = "create" /\ test[t].st = "none"
    /\ test' = [test EXCEPT ![t].st = "draft", ![t].mode = r.mode]
    /\ WritePaper(r)
    /\ Authors(h, Idle)
    /\ UNCHANGED remade

Publishing(t) == \E h \in Handlers : authoring[h].op = "publish" /\ authoring[h].test = t
EditTest(h) == LET r == authoring[h] IN
    /\ r.op = "edit"
    /\ WritePaper(r) /\ test' = [test EXCEPT ![r.test].mode = r.mode]
    /\ remade' = IF Editable(r.test) /\ ~Publishing(r.test) THEN remade ELSE remade \cup {r.test}
    /\ Authors(h, Idle)

-----------------------------------------------------------------------------
\* Publishing a draft. A fixed paper is made again of the newest versions of
\* its questions; of a pool, there must be enough questions in the bank.
FindFixed(h, t) == LET S == {l.id : l \in paper[t]} IN
    /\ authoring[h] = Idle /\ Editable(t) /\ test[t].mode = "fixed"
    /\ S # {} /\ \A q \in S : Usable(q)
    /\ Authors(h, [op |-> "publish", test |-> t,
                   links |-> Resolved(S), mode |-> "fixed", pool |-> NoPool])
    /\ UNCHANGED <<test, paper, pool, remade>>

Available == {q \in Questions : question[q].st = "published" /\ ~question[q].gone}
FindPool(h, t) ==
    /\ authoring[h] = Idle /\ Editable(t) /\ test[t].mode = "random"
    /\ pool[t] # NoPool /\ Cardinality(Available) >= pool[t]
    /\ Authors(h, [op |-> "publish", test |-> t,
                   links |-> {}, mode |-> "random", pool |-> pool[t]])
    /\ UNCHANGED <<test, paper, pool, remade>>

Worth(L) == MapThenSumSet(LAMBDA l : l.marks, L)
Totals == {0} \cup {Worth(L) : L \in SUBSET Link}
Published(t, L) == [test[t] EXCEPT !.st = "published", !.total = Worth(L)]
PublishTest(h) == LET r == authoring[h] t == r.test IN
    /\ r.op = "publish"
    /\ IF r.mode = "fixed"
       THEN WritePaper(r) /\ test' = [test EXCEPT ![t] = Published(t, r.links)]
       ELSE test' = [test EXCEPT ![t].st = "published"] /\ UNCHANGED <<paper, pool>>
    /\ remade' = IF Editable(t) THEN remade ELSE remade \cup {t}
    /\ Authors(h, Idle)

\* Close, archive, and the deletion of a draft.
MayEnd(op, t) ==
    /\ ~test[t].gone
    /\ CASE op = "close" -> test[t].st = "published"
         [] op = "archive" -> test[t].st \notin {"none", "archived"}
         [] op = "delete" -> test[t].st = "draft"
FindToEnd(h, op, t) ==
    /\ authoring[h] = Idle /\ MayEnd(op, t)
    /\ Authors(h, [op |-> op, test |-> t]) /\ UNCHANGED <<test, paper, pool, remade>>

EndTest(h) == LET t == authoring[h].test op == authoring[h].op IN
    /\ op \in {"close", "archive", "delete"}
    /\ test' = [test EXCEPT ![t].st = IF op = "close" THEN "closed" ELSE "archived",
                            ![t].gone = @ \/ op # "close"]
    /\ remade' = IF MayEnd(op, t) THEN remade ELSE remade \cup {t}
    /\ Authors(h, Idle) /\ UNCHANGED <<paper, pool>>

AuthoringStep == \E h \in Handlers :
    \/ \E t \in Papers :
        \/ \E op \in {"create", "edit"}, S \in SUBSET Questions, n \in Pools : Compose(h, op, t, S, n)
        \/ CreateTest(h, t) \/ FindFixed(h, t) \/ FindPool(h, t)
        \/ \E op \in {"close", "archive", "delete"} : FindToEnd(h, op, t)
    \/ EditTest(h) \/ PublishTest(h) \/ EndTest(h)

\* The tests and the bank they draw on; a handler serves one request.
BankAndTestsInit == BankInit /\ AuthoringInit
BankAndTestsNext ==
    /\ \/ AuthoringStep /\ UNCHANGED bankVars
       \/ BankNext /\ UNCHANGED authoringVars
    /\ \A h \in Handlers : authoring'[h] = Idle \/ editing'[h] = Idle

BankAndTestsSpec == BankAndTestsInit /\ [][BankAndTestsNext]_<<bankVars, authoringVars>>

-----------------------------------------------------------------------------
AuthoringTypeOK ==
    /\ test \in [Papers -> [st : TestStatus, gone : BOOLEAN,
                            mode : Modes, total : Totals]]
    /\ paper \in [Papers -> SUBSET Link] /\ pool \in [Papers -> Pools]
    /\ authoring \in [Handlers -> AuthoringState]
    /\ remade \subseteq Papers

\* The total of a fixed test that is out of its draft is what its questions are
\* worth, as long as no request on its draft overlapped its publication: what
\* the bank or other tests do meanwhile changes neither.
TotalMarksMatch ==
    \A t \in Papers \ remade :
        test[t].st \in {"published", "closed"} /\ test[t].mode = "fixed"
            => paper[t] # {} /\ test[t].total = Worth(paper[t])

\* A test that was published keeps its paper, whatever happens to the questions
\* in the bank, unless another request on its draft was under way when it was
\* published.
PublishedKeepsPaper ==
    [][\A t \in Papers :
        test[t].st \in {"published", "closed"} /\ t \notin remade'
            => paper'[t] = paper[t] /\ pool'[t] = pool[t]]_<<bankVars, authoringVars>>

\* What the bank and the tests keep together, whatever edits and publications
\* overlap.
BankAndTestsInv == BankInv /\ AuthoringTypeOK /\ TotalMarksMatch
=============================================================================
