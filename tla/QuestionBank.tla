---------------------------- MODULE QuestionBank ----------------------------
(***************************************************************************)
(* The questions of a company and their versions.  An edit finds its       *)
(* question, then the number of the last version, in two queries, and      *)
(* writes in a transaction that looks at nothing again.                    *)
(***************************************************************************)
EXTENDS Handlers, Sequences

CONSTANTS
    Questions,
    Marks,       \* defaultMarks of a question
    MaxVersions  \* bound: versions of a question

ASSUME QuestionBankAssumption == Marks \subseteq Nat /\ MaxVersions \in Nat \ {0}

VARIABLES
    question,  \* Question: status, deletedAt, currentVersionId (a number; 0: none)
    version,   \* QuestionVersion: those of a question, in the order of their numbers
    editing,   \* the handlers
    straddled  \* history: questions with an edit between the two queries of
               \* another that was stored

bankVars == <<question, version, editing, straddled>>

QuestionStatus == {"none", "review", "published", "archived"}
Numbers == 1..MaxVersions
Version == [st : {"published", "superseded"}, marks : Marks]
EditState ==
    {Idle} \cup [op : {"look"}, id : Questions, current : Numbers, marks : Marks]
           \cup [op : {"edit"}, id : Questions, current : Numbers, last : Numbers, marks : Marks]
           \cup [op : {"delete", "publish"}, id : Questions]

BankInit ==
    /\ question = [q \in Questions |-> [st |-> "none", gone |-> FALSE, current |-> 0]]
    /\ version = [q \in Questions |-> <<>>]
    /\ editing = [h \in Handlers |-> Idle] /\ straddled = {}

Edits(h, s) == editing' = [editing EXCEPT ![h] = s]

\* createQuestion: by hand, from a file, or from an AI draft; only the last
\* waits for a review.
CreateQuestion(q, m, st) ==
    /\ question[q].st = "none"
    /\ question' = [question EXCEPT ![q] = [st |-> st, gone |-> FALSE, current |-> 1]]
    /\ version' = [version EXCEPT ![q] = <<[st |-> "published", marks |-> m]>>]
    /\ UNCHANGED <<editing, straddled>>

Exists(q) == question[q].st # "none" /\ ~question[q].gone

\* findFirst with an include: the question, and then its newest version.
FindToEdit(h, q, m) ==
    /\ editing[h] = Idle /\ Exists(q)
    /\ Edits(h, [op |-> "look", id |-> q, current |-> question[q].current, marks |-> m])
    /\ UNCHANGED <<question, version, straddled>>

FindVersion(h) == LET r == editing[h] IN
    /\ r.op = "look"
    /\ Edits(h, [op |-> "edit", id |-> r.id, current |-> r.current,
                 last |-> Len(version[r.id]), marks |-> r.marks])
    /\ UNCHANGED <<question, version, straddled>>

FindQuestion(h, q, op) ==
    /\ editing[h] = Idle /\ Exists(q)
    /\ op = "publish" => question[q].st = "review"
    /\ Edits(h, [op |-> op, id |-> q]) /\ UNCHANGED <<question, version, straddled>>

\* PUT: the version it found current is superseded, and one with the next number
\* stored. The number is unique: when another edit took it, nothing is written.
Superseded(r) == [version[r.id] EXCEPT ![r.current].st = "superseded"]
BugNumberFree(r) == TRUE
NumberFree(r) == Len(version[r.id]) = r.last
EditQuestion(h) == LET r == editing[h] IN
    /\ r.op = "edit" /\ NumberFree(r) /\ r.last < MaxVersions
    /\ version' = [version EXCEPT ![r.id] =
            Append(Superseded(r), [st |-> "published", marks |-> r.marks])]
    /\ question' = [question EXCEPT ![r.id].st = "published", ![r.id].current = Len(version'[r.id])]
    /\ straddled' = IF r.current = r.last THEN straddled ELSE straddled \cup {r.id}
    /\ Edits(h, Idle)

EditFails(h) ==
    /\ editing[h].op = "edit" /\ ~NumberFree(editing[h])
    /\ Edits(h, Idle) /\ UNCHANGED <<question, version, straddled>>

DeleteQuestion(h) == LET q == editing[h].id IN
    /\ editing[h].op = "delete"
    /\ question' = [question EXCEPT ![q].st = "archived", ![q].gone = TRUE]
    /\ Edits(h, Idle) /\ UNCHANGED <<version, straddled>>

PublishQuestion(h) ==
    /\ editing[h].op = "publish"
    /\ question' = [question EXCEPT ![editing[h].id].st = "published"]
    /\ Edits(h, Idle) /\ UNCHANGED <<version, straddled>>

BankNext ==
    \/ \E q \in Questions, m \in Marks, st \in {"published", "review"} : CreateQuestion(q, m, st)
    \/ \E h \in Handlers :
        \/ \E q \in Questions :
            \/ \E m \in Marks : FindToEdit(h, q, m)
            \/ \E op \in {"delete", "publish"} : FindQuestion(h, q, op)
        \/ FindVersion(h) \/ EditQuestion(h) \/ EditFails(h)
        \/ DeleteQuestion(h) \/ PublishQuestion(h)

BankSpec == BankInit /\ [][BankNext]_bankVars

-----------------------------------------------------------------------------
BankTypeOK ==
    /\ question \in [Questions -> [st : QuestionStatus, gone : BOOLEAN, current : 0..MaxVersions]]
    /\ version \in [Questions -> Seq(Version)]
    /\ editing \in [Handlers -> EditState]
    /\ straddled \subseteq Questions

\* The current version of a question is its newest, whichever edits overlapped:
\* an edit that finds its number taken writes nothing. It is the only one that
\* is not superseded, unless another edit came between the two queries of one.
CurrentIsNewest ==
    \A q \in Questions : LET last == Len(version[q]) IN
        /\ question[q].current = last
        /\ last > 0 => version[q][last].st = "published"
        /\ q \notin straddled => \A n \in 1..last : n # last => version[q][n].st = "superseded"

\* What every step preserves: the newest version is current, a question that is
\* there has one, and an edit found versions that are there.
BankInv ==
    /\ BankTypeOK /\ CurrentIsNewest
    /\ \A q \in Questions : question[q].st = "none" <=> version[q] = <<>>
    /\ \A h \in Handlers : LET r == editing[h] IN
          /\ r.op \in {"look", "edit"} => r.current \in 1..Len(version[r.id])
          /\ r.op = "edit" => r.last \in 1..Len(version[r.id])
          /\ r.op \in {"delete", "publish"} => question[r.id].st # "none"
=============================================================================
