------------------------------ MODULE Learning ------------------------------
(***************************************************************************)
(* One learning path and one employee it is assigned to.  A material step  *)
(* is completed by the employee; a test or practice step when an attempt   *)
(* is passed, for as long as its verdict stands.  The completion is one    *)
(* transaction; the progress of the assignment is read, query by query,    *)
(* counted and stored after it.                                            *)
(***************************************************************************)
EXTENDS Handlers

CONSTANTS
    Materials,      \* the steps with material
    Tests,          \* the steps with a test or practice
    MaxAssignments  \* bound: times the path is assigned

ASSUME LearningAssumption ==
    MaxAssignments \in Nat /\ IsFiniteSet(Materials) /\ IsFiniteSet(Tests)

VARIABLES
    path,      \* LearningPath: "none", "live" or "archived"
    assigned,  \* LearningPathAssignment: how many, the newest last
    done,      \* LearningItemProgress: material steps completed, by assignment
    stored,    \* completionPercent: the steps counted, by assignment
    passed,    \* the other steps with an attempt of the employee that is passed
    learning,  \* the handlers
    lapped,    \* history: assignments with completions that overlapped
    retracted  \* history: steps with a pass that was taken back

learningVars == <<path, assigned, done, stored, passed, learning, lapped, retracted>>

Assignments == 1..MaxAssignments
Counts == 0..(Cardinality(Materials) + Cardinality(Tests))
LearningState ==
    {Idle} \cup [op : {"assign", "archive"}]
           \cup [op : {"found", "recorded"}, to : Assignments, step : Materials]
           \cup [op : {"read"}, to : Assignments, step : Materials,
                 done : SUBSET Materials, left : SUBSET Tests, passed : SUBSET Tests]

LearningInit ==
    /\ path = "none" /\ assigned = 0 /\ passed = {}
    /\ done = [a \in Assignments |-> {}] /\ stored = [a \in Assignments |-> 0]
    /\ learning = [h \in Handlers |-> Idle] /\ lapped = {} /\ retracted = {}

Learns(h, s) == learning' = [learning EXCEPT ![h] = s]
At(a) == {h \in Handlers : learning[h].op \in {"recorded", "read"} /\ learning[h].to = a}

-----------------------------------------------------------------------------
\* createPath: the path, its published version and its steps, in one transaction.
CreatePath ==
    /\ path = "none" /\ path' = "live"
    /\ UNCHANGED <<assigned, done, stored, passed, learning, lapped, retracted>>

\* Assigning and deleting look the path up first.
FindPath(h, op) ==
    /\ learning[h] = Idle /\ path = "live"
    /\ Learns(h, [op |-> op])
    /\ UNCHANGED <<path, assigned, done, stored, passed, lapped, retracted>>

\* A row for each member of the audience. It is unique only together with the
\* time, so skipDuplicates skips nobody.
Assign(h) ==
    /\ learning[h].op = "assign" /\ assigned < MaxAssignments
    /\ assigned' = assigned + 1
    /\ Learns(h, Idle)
    /\ UNCHANGED <<path, done, stored, passed, lapped, retracted>>

Archive(h) ==
    /\ learning[h].op = "archive" /\ path' = "archived"
    /\ Learns(h, Idle)
    /\ UNCHANGED <<assigned, done, stored, passed, lapped, retracted>>

-----------------------------------------------------------------------------
\* findFirst, in no order: any assignment of the path.
FindAssignment(h, a, i) ==
    /\ learning[h] = Idle /\ path = "live" /\ a <= assigned
    /\ Learns(h, [op |-> "found", to |-> a, step |-> i])
    /\ UNCHANGED <<path, assigned, done, stored, passed, lapped, retracted>>

RecordStep(h) == LET r == learning[h] IN
    /\ r.op = "found"
    /\ done' = [done EXCEPT ![r.to] = @ \cup {r.step}]
    /\ lapped' = IF At(r.to) = {} THEN lapped ELSE lapped \cup {r.to}
    /\ Learns(h, [r EXCEPT !.op = "recorded"])
    /\ UNCHANGED <<path, assigned, stored, passed, retracted>>

\* The completed items are read first; then one query for each step that is
\* not among them, in any order.
Completed(a) == done[a]
ReadItems(h) == LET r == learning[h] IN
    /\ r.op = "recorded"
    /\ Learns(h, [op |-> "read", to |-> r.to, step |-> r.step,
                  done |-> Completed(r.to), left |-> Tests, passed |-> {}])
    /\ UNCHANGED <<path, assigned, done, stored, passed, lapped, retracted>>

\* isStepComplete: is some attempt passed now?
QueryTest(h, i) == LET r == learning[h] IN
    /\ r.op = "read" /\ i \in r.left
    /\ Learns(h, [r EXCEPT !.left = @ \ {i}, !.passed = @ \cup ({i} \cap passed)])
    /\ UNCHANGED <<path, assigned, done, stored, passed, lapped, retracted>>

\* The step just recorded is among those read.
BugCount(r) == Cardinality(r.done \ {r.step}) + Cardinality(r.passed)
Count(r) == Cardinality(r.done) + Cardinality(r.passed)
StoreProgress(h) == LET r == learning[h] IN
    /\ r.op = "read" /\ r.left = {}
    /\ stored' = [stored EXCEPT ![r.to] = Count(r)]
    /\ Learns(h, Idle)
    /\ UNCHANGED <<path, assigned, done, passed, lapped, retracted>>

\* The connection to the database is lost after the transaction.
CompleteFails(h) ==
    /\ learning[h].op \in {"recorded", "read"}
    /\ lapped' = lapped \cup {learning[h].to}
    /\ Learns(h, Idle)
    /\ UNCHANGED <<path, assigned, done, stored, passed, retracted>>

\* An attempt of the employee passes, when it is finalized or reviewed:
\* nothing of the path is touched.
PassTest(i) ==
    /\ i \in Tests \ passed /\ passed' = passed \cup {i}
    /\ UNCHANGED <<path, assigned, done, stored, learning, lapped, retracted>>

\* A review that overlapped another writes the verdict of the older summary
\* over the pass, and there is no other attempt that passed.
TakePassBack(i) ==
    /\ i \in passed /\ passed' = passed \ {i}
    /\ retracted' = retracted \cup {i}
    /\ UNCHANGED <<path, assigned, done, stored, learning, lapped>>

LearningNext ==
    \/ CreatePath
    \/ \E i \in Tests : PassTest(i) \/ TakePassBack(i)
    \/ \E h \in Handlers :
        \/ \E op \in {"assign", "archive"} : FindPath(h, op)
        \/ Assign(h) \/ Archive(h)
        \/ \E a \in Assignments, i \in Materials : FindAssignment(h, a, i)
        \/ RecordStep(h) \/ ReadItems(h) \/ StoreProgress(h) \/ CompleteFails(h)
        \/ \E i \in Tests : QueryTest(h, i)

LearningSpec == LearningInit /\ [][LearningNext]_learningVars

-----------------------------------------------------------------------------
LearningTypeOK ==
    /\ path \in {"none", "live", "archived"} /\ assigned \in 0..MaxAssignments
    /\ done \in [Assignments -> SUBSET Materials] /\ stored \in [Assignments -> Counts]
    /\ passed \subseteq Tests /\ retracted \subseteq Tests
    /\ learning \in [Handlers -> LearningState]
    /\ lapped \subseteq Assignments

\* The progress stored for an assignment is never ahead of what the employee
\* completed, whichever completion was counted last, but for the tests whose
\* pass was taken back.
StoredNotAhead ==
    \A a \in Assignments :
        stored[a] <= Cardinality(done[a]) + Cardinality(passed \cup retracted)

\* Once no completion is under way the progress stored has every material step
\* that was completed, unless two completions overlapped or one failed halfway.
StoredKeepsUp ==
    \A a \in Assignments \ lapped : At(a) = {} => stored[a] >= Cardinality(done[a])

\* What every step preserves: what a completion read was done, and passed once,
\* and is all that was done unless another one overlaps it.
LearningInv ==
    /\ LearningTypeOK /\ StoredNotAhead /\ StoredKeepsUp
    /\ \A h \in Handlers : LET r == learning[h] IN
          r.op = "read" => r.done \subseteq done[r.to]
                           /\ r.passed \subseteq passed \cup retracted
    /\ \A a \in Assignments \ lapped : \A h \in At(a) : LET r == learning[h] IN
          At(a) = {h} /\ (r.op = "read" => r.done = done[a])
=============================================================================
