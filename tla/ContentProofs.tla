--------------------------- MODULE ContentProofs ---------------------------
(***************************************************************************)
(* Proofs about learning paths (Learning), tests and the bank they draw on *)
(* (Authoring), and what the AI generates (Generation), for any number of  *)
(* concurrent requests, steps, questions, versions, keys and drafts.       *)
(***************************************************************************)
EXTENDS Learning, Authoring, Generation, FiniteSetTheorems, TLAPS

-----------------------------------------------------------------------------
(* Learning.  What is done and passed is counted in finite sets.           *)
LEMMA DoneFinite ==
  /\ \A S \in SUBSET Materials : IsFiniteSet(S) /\ Cardinality(S) \in Nat
        /\ Cardinality(S) <= Cardinality(Materials)
  /\ \A S \in SUBSET Tests : IsFiniteSet(S) /\ Cardinality(S) \in Nat
        /\ Cardinality(S) <= Cardinality(Tests)
  /\ Cardinality(Materials) \in Nat /\ Cardinality(Tests) \in Nat
  BY LearningAssumption, FS_Subset, FS_CardinalityType DEF LearningAssumption

LEMMA MoreCounts ==
  /\ \A S \in SUBSET Materials : \A T \in SUBSET S : Cardinality(T) <= Cardinality(S)
  /\ \A S \in SUBSET Tests : \A T \in SUBSET S : Cardinality(T) <= Cardinality(S)
  BY LearningAssumption, FS_Subset DEF LearningAssumption

LEMMA CountsAreNat == \A c \in Counts : c \in Nat
  BY DoneFinite DEF Counts

(* What one handler knows of its assignment.                               *)
LearnerKnows(s) ==
  s.op = "read" => s.done \subseteq done[s.to] /\ s.passed \subseteq passed \cup retracted
Alone(h) == LET r == learning[h] IN
  r.op \in {"recorded", "read"} /\ r.to \notin lapped =>
      At(r.to) = {h} /\ (r.op = "read" => r.done = done[r.to])
LearningHolds ==
  /\ LearningTypeOK /\ StoredNotAhead /\ StoredKeepsUp
  /\ \A h \in Handlers : LearnerKnows(learning[h]) /\ Alone(h)

LEMMA LearningShape ==
  ASSUME NEW s \in LearningState
  PROVE  /\ s.op \in {"found", "recorded"} => s = [op |-> s.op, to |-> s.to, step |-> s.step]
         /\ s.op \in {"found", "recorded", "read"} =>
                s.to \in Assignments /\ s.step \in Materials
         /\ s.op = "read" =>
                /\ s.done \in SUBSET Materials
                /\ s.left \in SUBSET Tests /\ s.passed \in SUBSET Tests
                /\ s = [op |-> "read", to |-> s.to, step |-> s.step, done |-> s.done,
                        left |-> s.left, passed |-> s.passed]
         /\ s = Idle <=> s.op = "idle"
  BY DEF LearningState, Idle

LEMMA LearningParts == LearningTypeOK => (LearningInv <=> LearningHolds)
  <1> SUFFICES ASSUME LearningTypeOK PROVE LearningInv <=> LearningHolds
    OBVIOUS
  <1>1. \A h \in Handlers : learning[h] \in LearningState
    BY DEF LearningTypeOK
  <1>2. \A a \in Assignments, h \in Handlers : h \in At(a) <=>
            learning[h].op \in {"recorded", "read"} /\ learning[h].to = a
    BY DEF At
  <1>3. \A h \in Handlers : learning[h].op \in {"recorded", "read"}
            => learning[h].to \in Assignments
    BY <1>1, LearningShape
  <1>4. (\A h \in Handlers : Alone(h)) <=>
          \A a \in Assignments \ lapped : \A h \in At(a) : LET r == learning[h] IN
            At(a) = {h} /\ (r.op = "read" => r.done = done[a])
    <2>1. \A h \in Handlers : learning[h].op \in {"recorded", "read"}
              => h \in At(learning[h].to)
      BY <1>2, <1>3
    <2>2. \A a \in Assignments : At(a) \subseteq Handlers
      BY DEF At
    <2> QED BY <1>2, <1>3, <2>1, <2>2 DEF Alone
  <1>5. (\A h \in Handlers : LearnerKnows(learning[h])) <=>
          \A h \in Handlers : LET r == learning[h] IN
            r.op = "read" => r.done \subseteq done[r.to]
                             /\ r.passed \subseteq passed \cup retracted
    BY DEF LearnerKnows
  <1> QED BY <1>4, <1>5 DEF LearningInv, LearningHolds

LEMMA LearningPartsAfter == LearningHolds' => LearningInv'
  <1>1. LearningHolds => LearningInv
    BY LearningParts DEF LearningHolds
  <1> QED BY <1>1, PTL

LEMMA LearningStart == LearningInit => LearningInv
  <1> SUFFICES ASSUME LearningInit PROVE LearningHolds
    BY LearningParts DEF LearningHolds
  <1>1. 0 \in Counts /\ Idle \in LearningState /\ Idle.op = "idle"
    BY DoneFinite DEF Counts, LearningState, Idle
  <1>2. LearningTypeOK
    <2>1. assigned \in 0..MaxAssignments
      BY LearningAssumption DEF LearningInit, LearningAssumption
    <2> QED BY <1>1, <2>1 DEF LearningInit, LearningTypeOK
  <1>3. \A h \in Handlers : learning[h] = Idle
    BY DEF LearningInit
  <1>4. StoredNotAhead /\ StoredKeepsUp
    <2>1. \A a \in Assignments : stored[a] = 0 /\ done[a] = {} /\ passed \cup retracted = {}
      BY DEF LearningInit
    <2> QED BY <2>1, FS_EmptySet DEF StoredNotAhead, StoredKeepsUp
  <1> QED BY <1>1, <1>2, <1>3, <1>4 DEF LearningHolds, LearnerKnows, Alone

(* A step of one handler, from what it holds to s.                         *)
Learned(h, s) == \A g \in Handlers : learning'[g] = IF g = h THEN s ELSE learning[g]

LEMMA LearnsGives ==
  ASSUME LearningTypeOK, NEW h \in Handlers, NEW s \in LearningState, Learns(h, s)
  PROVE  Learned(h, s) /\ learning' \in [Handlers -> LearningState]
  BY DEF LearningTypeOK, Learns, Learned

(* Steps of a handler that is not counting, and then is not either, leave  *)
(* the others as they are.                                                 *)
LEMMA QuietKeeps ==
  ASSUME LearningHolds, NEW h \in Handlers, NEW s \in LearningState,
         s.op \in {"idle", "assign", "archive", "found"},
         learning[h].op \in {"idle", "assign", "archive", "found"},
         Learns(h, s), LearningTypeOK', UNCHANGED <<done, stored, passed, lapped, retracted>>
  PROVE  LearningHolds'
  <1>1. Learned(h, s)
    BY LearnsGives DEF LearningHolds
  <1>2. \A a \in Assignments : At(a)' = At(a)
    BY <1>1 DEF Learned, At
  <1>3. StoredNotAhead' /\ StoredKeepsUp'
    BY <1>2 DEF LearningHolds, StoredNotAhead, StoredKeepsUp
  <1>4. \A g \in Handlers : LearnerKnows(learning[g])'
    BY <1>1 DEF Learned, LearningHolds, LearnerKnows
  <1>5. \A g \in Handlers : learning[g] \in LearningState
    BY DEF LearningHolds, LearningTypeOK
  <1>6. \A g \in Handlers : Alone(g)'
    BY <1>1, <1>2, <1>5, LearningShape DEF Learned, LearningHolds, Alone
  <1> QED BY <1>3, <1>4, <1>6 DEF LearningHolds

LEMMA AskedState ==
  /\ Idle \in LearningState /\ Idle.op = "idle"
  /\ \A op \in {"assign", "archive"} : [op |-> op] \in LearningState
  /\ \A a \in Assignments, i \in Materials :
        [op |-> "found", to |-> a, step |-> i] \in LearningState
  BY DEF LearningState, Idle

LEMMA QuietSteps ==
  ASSUME LearningHolds, NEW h \in Handlers,
         \/ \E op \in {"assign", "archive"} : FindPath(h, op)
         \/ Assign(h) \/ Archive(h)
         \/ \E a \in Assignments, i \in Materials : FindAssignment(h, a, i)
  PROVE  LearningHolds'
  <1>1. CASE \E op \in {"assign", "archive"} : FindPath(h, op)
    <2> PICK op \in {"assign", "archive"} : FindPath(h, op)
      BY <1>1
    <2> DEFINE s == [op |-> op]
    <2>1. s \in LearningState /\ s.op = op
      BY AskedState
    <2>2. learning[h].op = "idle" /\ Learns(h, s) /\ UNCHANGED <<done, stored, passed, lapped, retracted>>
      BY AskedState DEF FindPath
    <2>3. LearningTypeOK'
      BY <2>1, <2>2, LearnsGives DEF LearningHolds, LearningTypeOK, FindPath
    <2> HIDE DEF s
    <2> QED BY <2>1, <2>2, <2>3, QuietKeeps
  <1>2. CASE Assign(h) \/ Archive(h)
    <2>1. learning[h].op \in {"assign", "archive"} /\ Learns(h, Idle)
          /\ UNCHANGED <<done, stored, passed, lapped, retracted>>
      BY <1>2 DEF Assign, Archive
    <2>2. path' \in {"none", "live", "archived"} /\ assigned' \in 0..MaxAssignments
      BY <1>2, LearningAssumption
      DEF LearningAssumption, Assign, Archive, LearningHolds, LearningTypeOK
    <2>3. LearningTypeOK'
      BY <2>1, <2>2, AskedState, LearnsGives DEF LearningHolds, LearningTypeOK
    <2> QED BY <2>1, <2>3, AskedState, QuietKeeps
  <1>3. CASE \E a \in Assignments, i \in Materials : FindAssignment(h, a, i)
    <2> PICK a \in Assignments, i \in Materials : FindAssignment(h, a, i)
      BY <1>3
    <2> DEFINE s == [op |-> "found", to |-> a, step |-> i]
    <2>1. s \in LearningState /\ s.op = "found"
      BY AskedState
    <2>2. learning[h].op = "idle" /\ Learns(h, s) /\ UNCHANGED <<done, stored, passed, lapped, retracted>>
      BY AskedState DEF FindAssignment
    <2>3. LearningTypeOK'
      BY <2>1, <2>2, LearnsGives DEF LearningHolds, LearningTypeOK, FindAssignment
    <2> HIDE DEF s
    <2> QED BY <2>1, <2>2, <2>3, QuietKeeps
  <1> QED BY <1>1, <1>2, <1>3

LEMMA RecordStepKeeps ==
  ASSUME LearningHolds, NEW h \in Handlers, RecordStep(h)
  PROVE  LearningHolds'
  <1> USE DEF LearningHolds
  <1>1. PICK a \in Assignments, i \in Materials :
            learning[h] = [op |-> "found", to |-> a, step |-> i]
    BY LearningShape DEF RecordStep, LearningTypeOK
  <1>2. PICK s \in LearningState : s = [op |-> "recorded", to |-> a, step |-> i]
    BY DEF LearningState
  <1>3. Learned(h, s) /\ learning' \in [Handlers -> LearningState]
    BY <1>1, <1>2, LearnsGives DEF RecordStep
  <1>4. \A b \in Assignments : done'[b] = IF b = a THEN done[a] \cup {i} ELSE done[b]
    BY <1>1 DEF RecordStep, LearningTypeOK
  <1>5. LearningTypeOK'
    BY <1>1, <1>3 DEF RecordStep, LearningTypeOK
  <1>6. \A b \in Assignments : done'[b] \in SUBSET Materials /\ done[b] \in SUBSET Materials
                               /\ Cardinality(done[b]) <= Cardinality(done'[b])
    BY <1>4, <1>5, MoreCounts DEF LearningTypeOK
  <1>7. stored' = stored /\ passed' = passed /\ retracted' = retracted /\ lapped \subseteq lapped'
    BY DEF RecordStep
  <1>8. /\ \A b \in Assignments : At(b)' = IF b = a THEN At(a) \cup {h} ELSE At(b)
        /\ h \notin At(a)
    BY <1>1, <1>2, <1>3 DEF At, Learned
  <1>9. Cardinality(passed \cup retracted) \in Nat
        /\ \A b \in Assignments : Cardinality(done[b]) \in Nat /\ Cardinality(done'[b]) \in Nat
                                  /\ stored[b] \in Nat
    <2>1. passed \cup retracted \in SUBSET Tests
      BY DEF LearningTypeOK
    <2>2. \A b \in Assignments : stored[b] \in Nat
      BY CountsAreNat DEF LearningTypeOK
    <2> QED BY <1>6, <2>1, <2>2, DoneFinite
  <1>10. StoredNotAhead'
    <2>1. PICK k \in Nat : k = Cardinality(passed \cup retracted)
                            /\ k = Cardinality((passed \cup retracted)')
      BY <1>7, <1>9
    <2>2. \A b \in Assignments : stored[b] <= Cardinality(done[b]) + k
      BY <2>1 DEF StoredNotAhead
    <2>3. \A b \in Assignments : stored'[b] <= Cardinality(done'[b]) + k
      BY <1>6, <1>7, <1>9, <2>2
    <2> QED BY <2>1, <2>3 DEF StoredNotAhead
  <1>11. StoredKeepsUp'
    BY <1>4, <1>7, <1>8 DEF StoredKeepsUp
  <1>12. \A g \in Handlers : LearnerKnows(learning[g])'
    <2> TAKE g \in Handlers
    <2>1. CASE g = h
      BY <1>2, <1>3, <2>1 DEF Learned, LearnerKnows
    <2>2. CASE g # h
      <3>1. learning'[g] = learning[g] /\ learning[g] \in LearningState /\ LearnerKnows(learning[g])
        BY <1>3, <2>2 DEF Learned, LearningTypeOK
      <3>2. learning[g].op = "read" => learning[g].done \subseteq done'[learning[g].to]
        BY <1>4, <3>1, LearningShape DEF LearnerKnows
      <3> QED BY <1>7, <3>1, <3>2 DEF LearnerKnows
    <2> QED BY <2>1, <2>2
  <1>13. \A g \in Handlers : Alone(g)'
    <2> TAKE g \in Handlers
    <2>1. CASE g = h
      <3>1. a \notin lapped' => At(a) = {}
        BY <1>1 DEF RecordStep
      <3> QED BY <1>2, <1>3, <1>8, <2>1, <3>1 DEF Learned, Alone
    <2>2. CASE g # h
      <3>1. learning'[g] = learning[g] /\ learning[g] \in LearningState /\ Alone(g)
        BY <1>3, <2>2 DEF Learned, LearningTypeOK
      <3>2. g \in At(a) => a \in lapped'
        BY <1>1 DEF RecordStep, LearningTypeOK
      <3> QED BY <1>4, <1>7, <1>8, <3>1, <3>2, LearningShape DEF Alone, At
    <2> QED BY <2>1, <2>2
  <1> QED BY <1>5, <1>10, <1>11, <1>12, <1>13

(* Reading changes nothing but what the handler holds.                     *)
LEMMA HoldingKeeps ==
  ASSUME LearningHolds, NEW h \in Handlers, NEW s \in LearningState, NEW a \in Assignments,
         learning[h].op \in {"recorded", "read"}, learning[h].to = a,
         s.op = "read", s.to = a, Learns(h, s),
         UNCHANGED <<path, assigned, done, stored, passed, lapped, retracted>>,
         LearnerKnows(s), a \notin lapped => s.done = done[a]
  PROVE  LearningHolds'
  <1> USE DEF LearningHolds
  <1>1. Learned(h, s) /\ learning' \in [Handlers -> LearningState]
    BY LearnsGives
  <1>2. \A b \in Assignments : At(b)' = At(b)
    BY <1>1 DEF Learned, At
  <1>3. LearningTypeOK' /\ StoredNotAhead' /\ StoredKeepsUp'
    BY <1>1, <1>2 DEF LearningTypeOK, StoredNotAhead, StoredKeepsUp
  <1>4. \A g \in Handlers : LearnerKnows(learning[g])'
    BY <1>1 DEF Learned, LearnerKnows
  <1>5. \A g \in Handlers : learning[g] \in LearningState
    BY DEF LearningTypeOK
  <1>6. \A g \in Handlers : Alone(g)'
    <2> TAKE g \in Handlers
    <2>1. CASE g = h
      <3>1. a \notin lapped => At(a) = {h}
        BY DEF Alone
      <3>2. learning'[g] = s /\ lapped' = lapped /\ done' = done /\ At(a)' = At(a)
        BY <1>1, <1>2, <2>1 DEF Learned
      <3> QED BY <2>1, <3>1, <3>2 DEF Alone
    <2>2. CASE g # h
      <3>1. learning'[g] = learning[g] /\ learning[g] \in LearningState /\ Alone(g)
        BY <1>1, <1>5, <2>2 DEF Learned
      <3> QED BY <1>2, <3>1, LearningShape DEF Alone
    <2> QED BY <2>1, <2>2
  <1> QED BY <1>3, <1>4, <1>6

LEMMA ReadItemsKeeps ==
  ASSUME LearningHolds, NEW h \in Handlers, ReadItems(h)
  PROVE  LearningHolds'
  <1> USE DEF LearningHolds
  <1>1. PICK a \in Assignments, i \in Materials :
            learning[h] = [op |-> "recorded", to |-> a, step |-> i]
    BY LearningShape DEF ReadItems, LearningTypeOK
  <1>2. done[a] \in SUBSET Materials
    BY DEF LearningTypeOK
  <1>3. PICK s \in LearningState : s = [op |-> "read", to |-> a, step |-> i,
                                       done |-> done[a], left |-> Tests, passed |-> {}]
    BY <1>2 DEF LearningState
  <1>4. Learns(h, s) /\ LearnerKnows(s)
    BY <1>1, <1>3 DEF ReadItems, Completed, LearnerKnows
  <1> QED BY <1>1, <1>3, <1>4, HoldingKeeps DEF ReadItems

LEMMA QueryTestKeeps ==
  ASSUME LearningHolds, NEW h \in Handlers, NEW i \in Tests, QueryTest(h, i)
  PROVE  LearningHolds'
  <1> USE DEF LearningHolds
  <1> DEFINE r == learning[h]
  <1>1. r \in LearningState /\ r.op = "read" /\ LearnerKnows(r) /\ Alone(h)
    BY DEF QueryTest, LearningTypeOK
  <1>2. PICK s : s = [r EXCEPT !.left = @ \ {i}, !.passed = @ \cup ({i} \cap passed)]
    OBVIOUS
  <1>3. Learns(h, s) /\ UNCHANGED <<path, assigned, done, stored, passed, lapped, retracted>>
    BY <1>2 DEF QueryTest
  <1>4. r \in [op : {"read"}, to : Assignments, step : Materials,
               done : SUBSET Materials, left : SUBSET Tests, passed : SUBSET Tests]
    BY <1>1, LearningShape
  <1>5. /\ s \in LearningState /\ s.op = "read" /\ s.to = r.to /\ s.done = r.done
        /\ s.passed = r.passed \cup ({i} \cap passed)
    BY <1>2, <1>4 DEF LearningState
  <1>6. LearnerKnows(s)
    BY <1>1, <1>5 DEF LearnerKnows
  <1>7. r.to \in Assignments /\ (r.to \notin lapped => s.done = done[r.to])
    BY <1>1, <1>4, <1>5 DEF Alone
  <1> QED BY <1>1, <1>3, <1>5, <1>6, <1>7, HoldingKeeps

(* What is counted: no less than the steps done that were read, no more    *)
(* than those done and those ever passed.                                  *)
LEMMA CountBounds ==
  ASSUME LearningTypeOK, NEW r \in LearningState, r.op = "read", LearnerKnows(r)
  PROVE  /\ Count(r) \in Counts /\ Count(r) >= Cardinality(r.done)
         /\ Count(r) <= Cardinality(done[r.to]) + Cardinality(passed \cup retracted)
  <1>1. /\ r.done \in SUBSET Materials /\ r.passed \in SUBSET Tests
        /\ done[r.to] \in SUBSET Materials /\ passed \cup retracted \in SUBSET Tests
        /\ r.done \in SUBSET done[r.to] /\ r.passed \in SUBSET (passed \cup retracted)
    BY LearningShape DEF LearnerKnows, LearningTypeOK
  <1>2. PICK n, m, k, l : /\ n = Cardinality(r.done) /\ m = Cardinality(r.passed)
                          /\ k = Cardinality(done[r.to])
                          /\ l = Cardinality(passed \cup retracted)
    OBVIOUS
  <1>3. /\ n \in Nat /\ m \in Nat /\ k \in Nat /\ l \in Nat /\ n <= k /\ m <= l
        /\ n <= Cardinality(Materials) /\ m <= Cardinality(Tests)
        /\ Cardinality(Materials) \in Nat /\ Cardinality(Tests) \in Nat
    BY <1>1, <1>2, DoneFinite, MoreCounts
  <1> QED BY <1>2, <1>3 DEF Count, Counts

(* Steps of a handler that leaves: its count is stored, or it fails.       *)
LEMMA LeavingKeeps ==
  ASSUME LearningHolds, NEW h \in Handlers, StoreProgress(h) \/ CompleteFails(h)
  PROVE  LearningHolds'
  <1> USE DEF LearningHolds
  <1> DEFINE r == learning[h]
  <1>1. /\ r \in LearningState /\ r.op \in {"recorded", "read"}
        /\ LearnerKnows(r) /\ Alone(h) /\ Learns(h, Idle)
    BY DEF StoreProgress, CompleteFails, LearningTypeOK
  <1>2. PICK a \in Assignments : r.to = a
    BY <1>1, LearningShape
  <1>3. Learned(h, Idle) /\ learning' \in [Handlers -> LearningState]
    BY <1>1, AskedState, LearnsGives
  <1>4. \A b \in Assignments : At(b)' = IF b = a THEN At(a) \ {h} ELSE At(b)
    BY <1>1, <1>2, <1>3, AskedState DEF At, Learned
  <1>5. done' = done /\ passed' = passed /\ retracted' = retracted /\ path' = path
        /\ assigned' = assigned /\ lapped \subseteq lapped'
    BY DEF StoreProgress, CompleteFails
  <1>6. r.op = "read" => Count(r) \in Counts
    BY <1>1, CountBounds
  <1>7. /\ \A b \in Assignments : b # a => stored'[b] = stored[b]
        /\ \/ stored'[a] = Count(r) /\ r.op = "read" /\ lapped' = lapped
           \/ stored'[a] = stored[a] /\ lapped' = lapped \cup {a}
        /\ stored' \in [Assignments -> Counts]
    BY <1>1, <1>2, <1>6 DEF StoreProgress, CompleteFails, LearningTypeOK
  <1>8. LearningTypeOK'
    BY <1>2, <1>3, <1>5, <1>7 DEF LearningTypeOK
  <1>9. StoredNotAhead'
    <2>1. \A b \in Assignments :
            b # a => stored'[b] <= Cardinality(done'[b]) + Cardinality((passed \cup retracted)')
      BY <1>5, <1>7 DEF StoredNotAhead
    <2>2. stored'[a] <= Cardinality(done'[a]) + Cardinality((passed \cup retracted)')
      BY <1>1, <1>2, <1>5, <1>7, CountBounds DEF StoredNotAhead
    <2> QED BY <2>1, <2>2 DEF StoredNotAhead
  <1>10. StoredKeepsUp'
    <2>1. \A b \in Assignments \ lapped' : b # a => (At(b)' = {} => stored'[b] >= Cardinality(done'[b]))
      BY <1>4, <1>5, <1>7 DEF StoredKeepsUp
    <2>2. a \notin lapped' => stored'[a] >= Cardinality(done'[a])
      BY <1>1, <1>2, <1>5, <1>7, CountBounds DEF Alone
    <2> QED BY <2>1, <2>2 DEF StoredKeepsUp
  <1>11. \A g \in Handlers : LearnerKnows(learning[g])'
    BY <1>3, <1>5, AskedState DEF Learned, LearnerKnows
  <1>12. \A g \in Handlers : Alone(g)'
    <2> TAKE g \in Handlers
    <2>1. CASE g = h
      BY <1>3, <2>1, AskedState DEF Learned, Alone
    <2>2. CASE g # h
      <3>1. learning'[g] = learning[g] /\ learning[g] \in LearningState /\ Alone(g)
        BY <1>3, <2>2 DEF Learned, LearningTypeOK
      <3>2. learning[g].op \in {"recorded", "read"} /\ learning[g].to = a => a \in lapped
        <4>1. h \in At(a)
          BY <1>1, <1>2 DEF At
        <4> QED BY <2>2, <3>1, <4>1 DEF Alone
      <3>3. learning[g].op \in {"recorded", "read"} /\ learning[g].to # a
              => At(learning[g].to)' = At(learning[g].to)
        BY <1>4, <3>1, LearningShape
      <3> QED BY <1>5, <3>1, <3>2, <3>3 DEF Alone
    <2> QED BY <2>1, <2>2
  <1> QED BY <1>8, <1>9, <1>10, <1>11, <1>12

(* A pass that is taken back is still among those that were given once.    *)
LEMMA VerdictKeeps ==
  ASSUME LearningHolds, NEW i \in Tests, PassTest(i) \/ TakePassBack(i)
  PROVE  LearningHolds'
  <1> USE DEF LearningHolds
  <1>1. /\ passed \cup retracted \in SUBSET (passed \cup retracted)'
        /\ passed' \in SUBSET Tests /\ retracted' \in SUBSET Tests
        /\ UNCHANGED <<path, assigned, done, stored, learning, lapped>>
    BY DEF PassTest, TakePassBack, LearningTypeOK
  <1>2. PICK n, m : /\ n = Cardinality(passed \cup retracted)
                    /\ m = Cardinality((passed \cup retracted)')
    OBVIOUS
  <1>3. n \in Nat /\ m \in Nat /\ n <= m
    <2>1. (passed \cup retracted)' \in SUBSET Tests /\ passed \cup retracted \in SUBSET Tests
      BY <1>1
    <2> QED BY <1>1, <1>2, <2>1, DoneFinite, MoreCounts
  <1>4. LearningTypeOK'
    BY <1>1 DEF LearningTypeOK
  <1>5. \A a \in Assignments : Cardinality(done[a]) \in Nat /\ stored[a] \in Nat
    BY DoneFinite, CountsAreNat DEF LearningTypeOK
  <1>6. StoredNotAhead' /\ StoredKeepsUp'
    BY <1>1, <1>2, <1>3, <1>5 DEF StoredNotAhead, StoredKeepsUp, At
  <1>7. \A g \in Handlers : LearnerKnows(learning[g])' /\ Alone(g)'
    BY <1>1 DEF LearnerKnows, Alone, At
  <1> QED BY <1>4, <1>6, <1>7

LEMMA LearningStill ==
  ASSUME LearningHolds, path' \in {"none", "live", "archived"},
         UNCHANGED <<assigned, done, stored, passed, learning, lapped, retracted>>
  PROVE  LearningHolds'
  BY DEF LearningHolds, LearningTypeOK, StoredNotAhead, StoredKeepsUp, At, LearnerKnows, Alone

(* The progress stored for an assignment is not ahead of what the employee *)
(* completed, but for tests whose pass a review took back, nor, where      *)
(* completions did not overlap, behind it.                                 *)
THEOREM LearningInvariant == LearningSpec => []LearningInv
  <1>1. LearningInv /\ [LearningNext]_learningVars => LearningInv'
    <2> SUFFICES ASSUME LearningInv, [LearningNext]_learningVars PROVE LearningHolds'
      BY LearningPartsAfter
    <2>0. LearningHolds
      BY LearningParts DEF LearningInv
    <2>1. CASE UNCHANGED learningVars
      BY <2>0, <2>1, LearningStill DEF learningVars, LearningHolds, LearningTypeOK
    <2>2. CASE CreatePath
      BY <2>0, <2>2, LearningStill DEF CreatePath
    <2>3. ASSUME NEW i \in Tests, PassTest(i) \/ TakePassBack(i) PROVE LearningHolds'
      BY <2>0, <2>3, VerdictKeeps
    <2>4. ASSUME NEW h \in Handlers, NEW i \in Tests, QueryTest(h, i)
          PROVE LearningHolds'
      BY <2>0, <2>4, QueryTestKeeps
    <2>5. ASSUME NEW h \in Handlers,
                 \/ \E op \in {"assign", "archive"} : FindPath(h, op)
                 \/ Assign(h) \/ Archive(h)
                 \/ \E a \in Assignments, i \in Materials : FindAssignment(h, a, i)
          PROVE LearningHolds'
      BY <2>0, <2>5, QuietSteps
    <2>6. ASSUME NEW h \in Handlers,
                 RecordStep(h) \/ ReadItems(h) \/ StoreProgress(h) \/ CompleteFails(h)
          PROVE LearningHolds'
      BY <2>0, <2>6, RecordStepKeeps, ReadItemsKeeps, LeavingKeeps
    <2> QED BY <2>1, <2>2, <2>3, <2>4, <2>5, <2>6 DEF LearningNext
  <1> QED BY <1>1, LearningStart, PTL DEF LearningSpec

-----------------------------------------------------------------------------
(* The question bank.  What an edit or another request knows.              *)
BankKnows(s) ==
  /\ s.op \in {"look", "edit"} => s.current \in 1..Len(version[s.id])
  /\ s.op = "edit" => s.last \in 1..Len(version[s.id])
  /\ s.op \in {"delete", "publish"} => question[s.id].st # "none"
BankRest ==
  /\ CurrentIsNewest
  /\ \A q \in Questions : question[q].st = "none" <=> version[q] = <<>>

LEMMA BankParts ==
  BankInv <=> BankTypeOK /\ BankRest /\ \A h \in Handlers : BankKnows(editing[h])
  BY DEF BankInv, BankRest, BankKnows

LEMMA BankPartsAfter ==
  BankTypeOK' /\ BankRest' /\ (\A h \in Handlers : BankKnows(editing[h])') => BankInv'
  BY DEF BankInv, BankRest, BankKnows

LEMMA BankShape ==
  ASSUME NEW s \in EditState
  PROVE  /\ s.op \in {"look", "edit"} =>
                s.id \in Questions /\ s.current \in Numbers /\ s.marks \in Marks
         /\ s.op = "edit" => s.last \in Numbers
         /\ s.op \in {"delete", "publish"} => s.id \in Questions
         /\ s.op \in {"idle", "look", "edit", "delete", "publish"}
         /\ s = Idle <=> s.op = "idle"
  BY DEF EditState, Idle

LEMMA BankStates ==
  /\ Idle \in EditState /\ Idle.op = "idle"
  /\ \A q \in Questions, c \in Numbers, m \in Marks :
        [op |-> "look", id |-> q, current |-> c, marks |-> m] \in EditState
  /\ \A q \in Questions, c \in Numbers, n \in Numbers, m \in Marks :
        [op |-> "edit", id |-> q, current |-> c, last |-> n, marks |-> m] \in EditState
  /\ \A q \in Questions, op \in {"delete", "publish"} : [op |-> op, id |-> q] \in EditState
  BY DEF EditState, Idle

LEMMA BankStart == BankInit => BankInv
  <1> SUFFICES ASSUME BankInit PROVE BankInv
    OBVIOUS
  <1>1. BankTypeOK
    BY BankStates, QuestionBankAssumption
    DEF BankInit, BankTypeOK, QuestionStatus, QuestionBankAssumption
  <1>2. BankRest /\ \A h \in Handlers : BankKnows(editing[h])
    BY BankStates DEF BankInit, BankRest, CurrentIsNewest, BankKnows
  <1> QED BY <1>1, <1>2, BankParts

(* Looking up a question changes only what the handler holds.              *)
LEMMA FindKeeps ==
  ASSUME BankInv, NEW h \in Handlers, NEW s \in EditState, Edits(h, s), BankKnows(s),
         UNCHANGED <<question, version, straddled>>
  PROVE  BankInv'
  <1>1. BankTypeOK' /\ BankRest'
    BY DEF BankInv, BankTypeOK, BankRest, CurrentIsNewest, Edits
  <1>2. \A g \in Handlers : BankKnows(editing[g])'
    BY BankParts DEF BankTypeOK, Edits, BankKnows
  <1> QED BY <1>1, <1>2, BankPartsAfter

(* A question that is there has a version, and its last is current.        *)
LEMMA NewestVersion ==
  ASSUME BankInv, NEW q \in Questions, question[q].st # "none"
  PROVE  /\ Len(version[q]) \in Numbers /\ question[q].current = Len(version[q])
         /\ version[q][question[q].current] \in Version
  <1>1. version[q] \in Seq(Version) /\ version[q] # <<>> /\ question[q].current \in 0..MaxVersions
        /\ question[q].current = Len(version[q])
    BY DEF BankInv, BankTypeOK, CurrentIsNewest
  <1>2. Len(version[q]) \in Nat \ {0}
    BY <1>1
  <1> QED BY <1>1, <1>2, QuestionBankAssumption DEF Numbers, QuestionBankAssumption

LEMMA LookUps ==
  ASSUME BankInv, NEW h \in Handlers, NEW q \in Questions,
         \/ \E m \in Marks : FindToEdit(h, q, m)
         \/ \E op \in {"delete", "publish"} : FindQuestion(h, q, op)
  PROVE  BankInv'
  <1>1. CASE \E m \in Marks : FindToEdit(h, q, m)
    <2> PICK m \in Marks : FindToEdit(h, q, m)
      BY <1>1
    <2>1. Len(version[q]) \in Numbers /\ Len(version[q]) \in 1..Len(version[q])
      BY NewestVersion DEF FindToEdit, Exists, Numbers
    <2>2. PICK s \in EditState :
              s = [op |-> "look", id |-> q, current |-> question[q].current, marks |-> m]
      BY <2>1, BankStates, NewestVersion DEF FindToEdit, Exists
    <2>3. BankKnows(s)
      BY <2>1, <2>2, NewestVersion DEF BankKnows, FindToEdit, Exists
    <2> QED BY <2>2, <2>3, FindKeeps DEF FindToEdit
  <1>2. CASE \E op \in {"delete", "publish"} : FindQuestion(h, q, op)
    <2> PICK op \in {"delete", "publish"} : FindQuestion(h, q, op)
      BY <1>2
    <2>1. PICK s \in EditState : s = [op |-> op, id |-> q]
      BY BankStates
    <2>2. BankKnows(s)
      BY <2>1 DEF FindQuestion, Exists, BankKnows
    <2> QED BY <2>1, <2>2, FindKeeps DEF FindQuestion
  <1> QED BY <1>1, <1>2

LEMMA FindVersionKeeps ==
  ASSUME BankInv, NEW h \in Handlers, FindVersion(h)
  PROVE  BankInv'
  <1> DEFINE r == editing[h]
  <1>1. r \in EditState /\ r.op = "look" /\ BankKnows(r)
    BY BankParts DEF FindVersion, BankTypeOK
  <1>2. r.id \in Questions /\ r.current \in Numbers /\ r.marks \in Marks
        /\ r.current \in 1..Len(version[r.id])
    BY <1>1, BankShape DEF BankKnows
  <1>3. version[r.id] \in Seq(Version) /\ Len(version[r.id]) \in 0..MaxVersions
    BY <1>2, QuestionBankAssumption
    DEF BankInv, BankTypeOK, CurrentIsNewest, QuestionBankAssumption
  <1>4. Len(version[r.id]) \in 1..Len(version[r.id]) /\ Len(version[r.id]) \in Numbers
    BY <1>2, <1>3, QuestionBankAssumption DEF Numbers, QuestionBankAssumption
  <1>5. PICK s \in EditState : s = [op |-> "edit", id |-> r.id, current |-> r.current,
                                    last |-> Len(version[r.id]), marks |-> r.marks]
    BY <1>2, <1>4, BankStates
  <1>6. BankKnows(s)
    BY <1>2, <1>4, <1>5 DEF BankKnows
  <1> QED BY <1>5, <1>6, FindKeeps DEF FindVersion

LEMMA CreateKeeps ==
  ASSUME BankInv, NEW q \in Questions, NEW m \in Marks, NEW st \in {"published", "review"},
         CreateQuestion(q, m, st)
  PROVE  BankInv'
  <1> DEFINE x == [st |-> st, gone |-> FALSE, current |-> 1]
             v == [st |-> "published", marks |-> m]
  <1>1. /\ x \in [st : QuestionStatus, gone : BOOLEAN, current : 0..MaxVersions]
        /\ v \in Version /\ v.st = "published"
        /\ x.st # "none" /\ x.current = 1
    BY QuestionBankAssumption DEF QuestionBankAssumption, QuestionStatus, Version
  <1>2. /\ question' = [question EXCEPT ![q] = x] /\ version' = [version EXCEPT ![q] = <<v>>]
        /\ editing' = editing /\ straddled' = straddled
    BY DEF CreateQuestion
  <1> HIDE DEF x, v
  <1>3. BankTypeOK'
    BY <1>1, <1>2 DEF BankInv, BankTypeOK
  <1>4. \A p \in Questions : /\ question'[p] = IF p = q THEN x ELSE question[p]
                             /\ version'[p] = IF p = q THEN <<v>> ELSE version[p]
    BY <1>2 DEF BankInv, BankTypeOK
  <1>5. <<v>> # <<>> /\ Len(<<v>>) = 1 /\ \A n \in 1..1 : <<v>>[n] = v
    OBVIOUS
  <1>6. CurrentIsNewest'
    <2> SUFFICES ASSUME NEW p \in Questions
                 PROVE  /\ question'[p].current = Len(version'[p])
                        /\ Len(version'[p]) > 0 =>
                              version'[p][Len(version'[p])].st = "published"
                        /\ p \notin straddled' => \A n \in 1..Len(version'[p]) :
                              n # Len(version'[p]) => version'[p][n].st = "superseded"
      BY DEF CurrentIsNewest
    <2>1. CASE p = q
      <3>1. question'[p] = x /\ version'[p] = <<v>>
        BY <1>4, <2>1
      <3>2. <<v>>[1].st = "published" /\ \A n \in 1..1 : n = 1
        BY <1>1, <1>5
      <3> QED BY <1>1, <1>5, <3>1, <3>2
    <2>2. CASE p # q
      BY <1>2, <1>4, <2>2 DEF BankInv, CurrentIsNewest
    <2> QED BY <2>1, <2>2
  <1>7. BankRest'
    BY <1>1, <1>4, <1>5, <1>6 DEF BankInv, BankRest
  <1>8. \A g \in Handlers : BankKnows(editing[g])'
    <2> TAKE g \in Handlers
    <2>1. editing[g] \in EditState /\ BankKnows(editing[g])
      BY BankParts DEF BankTypeOK
    <2>2. question[q].st = "none" /\ version[q] = <<>> /\ Len(version[q]) = 0
      BY DEF CreateQuestion, BankInv
    <2>3. editing[g].op \in {"look", "edit", "delete", "publish"}
              => editing[g].id \in Questions \ {q}
      BY <2>1, <2>2, BankShape DEF BankKnows
    <2> QED BY <1>2, <1>4, <2>1, <2>3 DEF BankKnows
  <1> QED BY <1>3, <1>7, <1>8, BankPartsAfter

Row == [st : QuestionStatus, gone : BOOLEAN, current : 0..MaxVersions]

EditedRow(y, st, c) == [y EXCEPT !.st = st, !.current = c]
EndedRow(y, st) == [y EXCEPT !.st = st, !.gone = TRUE]
MarkedRow(y, st) == [y EXCEPT !.st = st]

LEMMA RowEdited ==
  ASSUME NEW y \in Row, NEW st \in QuestionStatus, NEW c \in 0..MaxVersions
  PROVE  EditedRow(y, st, c) \in Row /\ EditedRow(y, st, c).st = st /\ EditedRow(y, st, c).current = c
  <1>1. EditedRow(y, st, c) \in Row
    BY DEF Row, EditedRow
  <1>2. EditedRow(y, st, c).st = st
    BY DEF Row, EditedRow
  <1>3. EditedRow(y, st, c).current = c
    BY DEF Row, EditedRow
  <1> QED BY <1>1, <1>2, <1>3

LEMMA RowEnded ==
  ASSUME NEW y \in Row, NEW st \in QuestionStatus
  PROVE  EndedRow(y, st) \in Row /\ EndedRow(y, st).st = st /\ EndedRow(y, st).current = y.current
  <1>1. EndedRow(y, st) \in Row
    BY DEF Row, EndedRow
  <1>2. EndedRow(y, st).st = st
    BY DEF Row, EndedRow
  <1>3. EndedRow(y, st).current = y.current
    BY DEF Row, EndedRow
  <1> QED BY <1>1, <1>2, <1>3

LEMMA RowMarked ==
  ASSUME NEW y \in Row, NEW st \in QuestionStatus
  PROVE  MarkedRow(y, st) \in Row /\ MarkedRow(y, st).st = st /\ MarkedRow(y, st).current = y.current
  BY DEF Row, MarkedRow

LEMMA Appended ==
  ASSUME NEW S, NEW z \in Seq(S), NEW x \in S
  PROVE  /\ Append(z, x) \in Seq(S) /\ Len(Append(z, x)) = Len(z) + 1
         /\ Append(z, x)[Len(z) + 1] = x
         /\ \A n \in 1..Len(z) : Append(z, x)[n] = z[n]
  OBVIOUS

LEMMA EditQuestionKeeps ==
  ASSUME BankInv, NEW h \in Handlers, EditQuestion(h)
  PROVE  BankInv'
  <1> DEFINE r == editing[h]
             q == r.id
             l == Len(version[q])
             e == [st |-> "published", marks |-> r.marks]
  <1>1. /\ r \in EditState /\ r.op = "edit" /\ BankKnows(r) /\ l = r.last /\ l < MaxVersions
    BY BankParts DEF EditQuestion, NumberFree, BankTypeOK
  <1>2. q \in Questions /\ r.last \in Numbers /\ r.marks \in Marks /\ r.current \in 1..l
    BY <1>1, BankShape DEF BankKnows
  <1>3. e \in Version /\ e.st = "published"
    BY <1>2 DEF Version
  <1>4. version[q] \in Seq(Version) /\ l \in Nat \ {0} /\ l + 1 \in 0..MaxVersions
    BY <1>1, <1>2, QuestionBankAssumption
    DEF BankInv, BankTypeOK, Numbers, QuestionBankAssumption
  <1>5. \A y \in Version : [y EXCEPT !.st = "superseded"] \in Version
                           /\ [y EXCEPT !.st = "superseded"].st = "superseded"
    BY DEF Version
  <1>6. /\ Superseded(r) \in Seq(Version) /\ Len(Superseded(r)) = l
        /\ \A n \in 1..l :
              Superseded(r)[n].st = IF n = r.current THEN "superseded" ELSE version[q][n].st
    <2>1. PICK y \in Version : y = [version[q][r.current] EXCEPT !.st = "superseded"]
                               /\ y.st = "superseded"
      <3>1. version[q][r.current] \in Version
        BY <1>2, <1>4
      <3> QED BY <1>5, <3>1
    <2>2. Superseded(r) = [version[q] EXCEPT ![r.current] = y]
      BY <2>1 DEF Superseded
    <2> QED BY <1>2, <1>4, <2>1, <2>2
  <1>7. PICK w \in Seq(Version) : /\ w = Append(Superseded(r), e)
                                  /\ Len(w) = l + 1 /\ w[l + 1] = e
                                  /\ \A n \in 1..l : w[n] = Superseded(r)[n]
    <2>1. PICK z \in Seq(Version) : z = Superseded(r)
      BY <1>6
    <2>2. /\ Append(z, e) \in Seq(Version) /\ Len(Append(z, e)) = Len(z) + 1
          /\ Append(z, e)[Len(z) + 1] = e
          /\ \A n \in 1..Len(z) : Append(z, e)[n] = z[n]
      <3> HIDE DEF e
      <3> QED BY <1>3, Appended
    <2> QED BY <1>6, <2>1, <2>2
  <1>16. straddled' = IF r.current = l THEN straddled ELSE straddled \cup {q}
    BY <1>1 DEF EditQuestion
  <1>8. /\ Len(w) = l + 1 /\ w[l + 1].st = "published"
        /\ q \notin straddled' => \A n \in 1..(l + 1) : n # l + 1 => w[n].st = "superseded"
    <2>1. \A n \in 1..(l + 1) : n \in 1..l \/ n = l + 1
      BY <1>4
    <2>2. \A n \in 1..l :
            w[n].st = IF n = r.current THEN "superseded" ELSE version[q][n].st
      BY <1>6, <1>7
    <2>3. q \notin straddled => \A n \in 1..l : n # l => version[q][n].st = "superseded"
      BY <1>2 DEF BankInv, CurrentIsNewest
    <2>4. q \notin straddled' => q \notin straddled /\ r.current = l
      BY <1>16
    <2> HIDE DEF l, e, q, r
    <2>5. ASSUME q \notin straddled', NEW n \in 1..(l + 1), n # l + 1
          PROVE  w[n].st = "superseded"
      BY <2>1, <2>2, <2>3, <2>4, <2>5
    <2> QED BY <1>3, <1>7, <2>5
  <1>9. \A p \in Questions : version'[p] = IF p = q THEN w ELSE version[p]
    BY <1>7 DEF EditQuestion, BankInv, BankTypeOK
  <1>10. /\ question' \in [Questions -> [st : QuestionStatus, gone : BOOLEAN, current : 0..MaxVersions]]
         /\ question'[q].current = l + 1 /\ question'[q].st = "published"
         /\ \A p \in Questions : p # q => question'[p] = question[p]
    <2>1. question' = [question EXCEPT ![q].st = "published", ![q].current = Len(version'[q])]
      BY DEF EditQuestion
    <2>2. Len(version'[q]) = l + 1 /\ version'[q] = w
      BY <1>2, <1>8, <1>9
    <2>3. PICK c \in 0..MaxVersions : c = l + 1
      BY <1>4
    <2>4. question' = [question EXCEPT ![q] = EditedRow(question[q], "published", c)]
      BY <2>1, <2>2, <2>3 DEF EditedRow
    <2>5. "published" \in QuestionStatus /\ "published" # "none" /\ question[q] \in Row
      BY <1>2 DEF QuestionStatus, BankInv, BankTypeOK, Row
    <2>6. PICK x \in Row : /\ x = EditedRow(question[q], "published", c)
                           /\ x.st = "published" /\ x.current = c
      BY <2>3, <2>5, RowEdited
    <2> QED BY <1>2, <2>3, <2>4, <2>6 DEF BankInv, BankTypeOK, Row
  <1>11. editing' = [editing EXCEPT ![h] = Idle]
    BY DEF EditQuestion, Edits
  <1>12. BankTypeOK'
    <2>1. version' \in [Questions -> Seq(Version)]
      <3>1. version' = [version EXCEPT ![q] = w]
        BY <1>7 DEF EditQuestion
      <3> QED BY <3>1 DEF BankInv, BankTypeOK
    <2>2. straddled' \subseteq Questions
      BY <1>2, <1>16 DEF BankInv, BankTypeOK
    <2> QED BY <1>10, <1>11, <2>1, <2>2, BankStates DEF BankInv, BankTypeOK
  <1>13. CurrentIsNewest'
    <2> SUFFICES ASSUME NEW p \in Questions
                 PROVE  /\ question'[p].current = Len(version'[p])
                        /\ Len(version'[p]) > 0 =>
                              version'[p][Len(version'[p])].st = "published"
                        /\ p \notin straddled' => \A n \in 1..Len(version'[p]) :
                              n # Len(version'[p]) => version'[p][n].st = "superseded"
      BY DEF CurrentIsNewest
    <2>1. CASE p = q
      BY <1>8, <1>9, <1>10, <2>1
    <2>2. CASE p # q
      BY <1>9, <1>10, <1>16, <2>2 DEF BankInv, CurrentIsNewest
    <2> QED BY <2>1, <2>2
  <1>14. \A p \in Questions : question'[p].st = "none" <=> version'[p] = <<>>
    <2> TAKE p \in Questions
    <2>1. CASE p = q
      <3>1. w # <<>>
        BY <1>4, <1>8
      <3> QED BY <1>9, <1>10, <2>1, <3>1
    <2>2. CASE p # q
      BY <1>9, <1>10, <2>2 DEF BankInv
    <2> QED BY <2>1, <2>2
  <1>15. \A g \in Handlers : BankKnows(editing[g])'
    <2> TAKE g \in Handlers
    <2>1. CASE g = h
      BY <1>11, <2>1, BankStates DEF BankInv, BankTypeOK, BankKnows
    <2>2. CASE g # h
      <3>1. editing'[g] = editing[g] /\ editing[g] \in EditState /\ BankKnows(editing[g])
        BY <1>11, <2>2, BankParts DEF BankTypeOK
      <3>2. /\ editing[g].op \in {"look", "edit"} =>
                  editing[g].current \in 1..Len(version'[editing[g].id])
            /\ editing[g].op = "edit" => editing[g].last \in 1..Len(version'[editing[g].id])
        BY <1>4, <1>8, <1>9, <3>1, BankShape DEF BankKnows
      <3>3. editing[g].op \in {"delete", "publish"} => question'[editing[g].id].st # "none"
        BY <1>10, <3>1, BankShape DEF BankKnows
      <3> QED BY <3>1, <3>2, <3>3 DEF BankKnows
    <2> QED BY <2>1, <2>2
  <1> QED BY <1>12, <1>13, <1>14, <1>15, BankPartsAfter DEF BankRest

(* A deletion and a publication change a question that has a version.      *)
LEMMA StatusKeeps ==
  ASSUME BankInv, NEW h \in Handlers, DeleteQuestion(h) \/ PublishQuestion(h)
  PROVE  BankInv'
  <1> DEFINE q == editing[h].id
  <1>1. editing[h] \in EditState /\ editing[h].op \in {"delete", "publish"} /\ BankKnows(editing[h])
    BY BankParts DEF DeleteQuestion, PublishQuestion, BankTypeOK
  <1>2. q \in Questions /\ question[q].st # "none"
    BY <1>1, BankShape DEF BankKnows
  <1>3. /\ question' \in [Questions -> [st : QuestionStatus, gone : BOOLEAN, current : 0..MaxVersions]]
        /\ \A p \in Questions : /\ question'[p].current = question[p].current
                                /\ question'[p].st = "none" <=> question[p].st = "none"
        /\ version' = version /\ straddled' = straddled
        /\ editing' = [editing EXCEPT ![h] = Idle]
    <2>1. PICK x \in Row : /\ question' = [question EXCEPT ![q] = x]
                           /\ x.st # "none" /\ x.current = question[q].current
      <3>1. question[q] \in Row
        BY <1>2 DEF BankInv, BankTypeOK, Row
      <3>2. "archived" \in QuestionStatus /\ "published" \in QuestionStatus
            /\ "archived" # "none" /\ "published" # "none"
        BY DEF QuestionStatus
      <3>3. CASE DeleteQuestion(h)
        <4>1. question' = [question EXCEPT ![q] = EndedRow(question[q], "archived")]
          BY <3>3 DEF DeleteQuestion, EndedRow
        <4>2. PICK x \in Row : /\ x = EndedRow(question[q], "archived")
                               /\ x.st = "archived" /\ x.current = question[q].current
          BY <3>1, <3>2, RowEnded
        <4>3. question' = [question EXCEPT ![q] = x] /\ x.st # "none"
          BY <3>2, <4>1, <4>2
        <4> QED BY <4>2, <4>3, Zenon
      <3>4. CASE PublishQuestion(h)
        <4>1. question' = [question EXCEPT ![q] = MarkedRow(question[q], "published")]
          BY <3>4 DEF PublishQuestion, MarkedRow
        <4>2. PICK x \in Row : /\ x = MarkedRow(question[q], "published")
                               /\ x.st = "published" /\ x.current = question[q].current
          BY <3>1, <3>2, RowMarked
        <4>3. question' = [question EXCEPT ![q] = x] /\ x.st # "none"
          BY <3>2, <4>1, <4>2
        <4> QED BY <4>2, <4>3, Zenon
      <3> QED BY <3>3, <3>4
    <2>2. version' = version /\ straddled' = straddled /\ editing' = [editing EXCEPT ![h] = Idle]
      BY DEF DeleteQuestion, PublishQuestion, Edits
    <2>3. question \in [Questions -> Row]
      BY DEF BankInv, BankTypeOK, Row
    <2>4. question' \in [Questions -> Row]
      BY <2>1, <2>3
    <2>5. \A p \in Questions : question'[p] = IF p = q THEN x ELSE question[p]
      BY <2>1, <2>3
    <2> QED BY <1>2, <2>1, <2>2, <2>4, <2>5 DEF Row
  <1>4. BankTypeOK'
    BY <1>3, BankStates DEF BankInv, BankTypeOK
  <1>6. BankRest'
    BY <1>3 DEF BankInv, BankRest, CurrentIsNewest
  <1>5. \A g \in Handlers : BankKnows(editing[g])'
    <2> TAKE g \in Handlers
    <2>1. editing[g] \in EditState /\ BankKnows(editing[g]) /\ editing'[g] \in {editing[g], Idle}
      BY <1>3, BankParts DEF BankTypeOK
    <2> QED BY <1>3, <2>1, BankShape, BankStates DEF BankKnows
  <1> QED BY <1>4, <1>5, <1>6, BankPartsAfter

LEMMA BankStep ==
  ASSUME BankInv, [BankNext]_bankVars
  PROVE  BankInv'
  <1>1. CASE UNCHANGED bankVars
    BY <1>1 DEF bankVars, BankInv, BankTypeOK, CurrentIsNewest
  <1>2. ASSUME NEW q \in Questions, NEW m \in Marks, NEW st \in {"published", "review"},
               CreateQuestion(q, m, st)
        PROVE  BankInv'
    BY <1>2, CreateKeeps
  <1>3. ASSUME NEW h \in Handlers, NEW q \in Questions,
               \/ \E m \in Marks : FindToEdit(h, q, m)
               \/ \E op \in {"delete", "publish"} : FindQuestion(h, q, op)
        PROVE  BankInv'
    BY <1>3, LookUps
  <1>6. ASSUME NEW h \in Handlers, FindVersion(h) PROVE BankInv'
    BY <1>6, FindVersionKeeps
  <1>4. ASSUME NEW h \in Handlers, EditFails(h) PROVE BankInv'
    <2>1. Idle \in EditState /\ BankKnows(Idle)
      BY BankStates DEF BankKnows
    <2> QED BY <1>4, <2>1, FindKeeps DEF EditFails
  <1>5. ASSUME NEW h \in Handlers, EditQuestion(h) \/ DeleteQuestion(h) \/ PublishQuestion(h)
        PROVE  BankInv'
    BY <1>5, EditQuestionKeeps, StatusKeeps
  <1> QED BY <1>1, <1>2, <1>3, <1>4, <1>5, <1>6 DEF BankNext

-----------------------------------------------------------------------------
(* Tests.  What a publication under way knows of its draft.                *)
AuthorKnows(s) ==
  /\ s.op \in {"edit", "publish", "close", "archive", "delete"} => test[s.test].st # "none"
  /\ s.op = "publish" =>
        /\ s.mode = "fixed" => s.links # {}
        /\ s.test \notin remade => s.mode = test[s.test].mode
TestsHold ==
  AuthoringTypeOK /\ TotalMarksMatch /\ \A h \in Handlers : AuthorKnows(authoring[h])

Sheet == [st : TestStatus, gone : BOOLEAN, mode : Modes, total : Totals]

LEMMA AuthoringShape ==
  ASSUME NEW s \in AuthoringState
  PROVE  /\ s.op \in {"create", "edit", "publish"} =>
                /\ s.test \in Papers /\ s.links \in SUBSET Link
                /\ s.mode \in Modes /\ s.pool \in Pools
         /\ s.op \in {"close", "archive", "delete"} => s.test \in Papers
         /\ s = Idle <=> s.op = "idle"
  BY DEF AuthoringState, Idle

LEMMA AuthoringStates ==
  /\ Idle \in AuthoringState /\ Idle.op = "idle"
  /\ \A op \in {"create", "edit", "publish"}, t \in Papers, L \in SUBSET Link,
       m \in Modes, n \in Pools :
        [op |-> op, test |-> t, links |-> L, mode |-> m, pool |-> n] \in AuthoringState
  /\ \A op \in {"close", "archive", "delete"}, t \in Papers :
        [op |-> op, test |-> t] \in AuthoringState
  BY DEF AuthoringState, Idle

(* The questions of a paper are resolved to versions that are there.       *)
LEMMA ResolvedAreLinks ==
  ASSUME BankInv, NEW S \in SUBSET Questions, \A q \in S : Usable(q)
  PROVE  Resolved(S) \in SUBSET Link /\ (S # {} => Resolved(S) # {})
  <1> SUFFICES ASSUME NEW q \in S
               PROVE  [id |-> q, number |-> question[q].current,
                       marks |-> version[q][question[q].current].marks] \in Link
    BY DEF Resolved
  <1>1. /\ Len(version[q]) \in Numbers /\ question[q].current = Len(version[q])
        /\ version[q][question[q].current] \in Version
    BY NewestVersion DEF Usable, Exists
  <1> QED BY <1>1 DEF Link, Version

LEMMA TestsStart == AuthoringInit => TestsHold
  <1> SUFFICES ASSUME AuthoringInit PROVE TestsHold
    OBVIOUS
  <1>1. [st |-> "none", gone |-> FALSE, mode |-> "fixed", total |-> 0] \in Sheet
    BY DEF Sheet, TestStatus, Modes, Totals
  <1>2. AuthoringTypeOK
    <2>1. test \in [Papers -> Sheet]
      BY <1>1 DEF AuthoringInit
    <2>2. pool \in [Papers -> Pools]
      BY AuthoringAssumption DEF AuthoringInit, NoPool, AuthoringAssumption
    <2> QED BY <2>1, <2>2, AuthoringStates DEF AuthoringInit, AuthoringTypeOK, Sheet
  <1>3. \A t \in Papers : test[t].st = "none"
    BY DEF AuthoringInit
  <1>4. \A h \in Handlers : authoring[h].op = "idle"
    BY AuthoringStates DEF AuthoringInit
  <1> QED BY <1>2, <1>3, <1>4 DEF TestsHold, TotalMarksMatch, AuthorKnows

(* Looking a test up changes only what the handler holds.                  *)
LEMMA HeldKeeps ==
  ASSUME TestsHold, NEW h \in Handlers, NEW s \in AuthoringState, Authors(h, s), AuthorKnows(s),
         UNCHANGED <<test, paper, pool, remade>>
  PROVE  TestsHold'
  <1>1. AuthoringTypeOK' /\ TotalMarksMatch'
    BY DEF TestsHold, AuthoringTypeOK, TotalMarksMatch, Authors
  <1>2. \A g \in Handlers : AuthorKnows(authoring[g])'
    BY DEF TestsHold, AuthoringTypeOK, Authors, AuthorKnows
  <1> QED BY <1>1, <1>2 DEF TestsHold

LEMMA ComposeKeeps ==
  ASSUME BankInv, TestsHold, NEW h \in Handlers, NEW op \in {"create", "edit"},
         NEW t \in Papers, NEW S \in SUBSET Questions, NEW n \in Pools, Compose(h, op, t, S, n)
  PROVE  TestsHold'
  <1>1. PICK m \in Modes : m = IF n = NoPool THEN "fixed" ELSE "random"
    BY DEF Modes
  <1>2. PICK L \in SUBSET Link : L = Resolved(S)
    BY ResolvedAreLinks DEF Compose
  <1>3. PICK s \in AuthoringState :
            s = [op |-> op, test |-> t, links |-> L, mode |-> m, pool |-> n]
    BY AuthoringStates
  <1>4. Authors(h, s) /\ UNCHANGED <<test, paper, pool, remade>> /\ AuthorKnows(s)
    BY <1>1, <1>2, <1>3 DEF Compose, Editable, AuthorKnows
  <1> QED BY <1>4, HeldKeeps

LEMMA FindFixedKeeps ==
  ASSUME BankInv, TestsHold, NEW h \in Handlers, NEW t \in Papers, FindFixed(h, t)
  PROVE  TestsHold'
  <1>1. PICK S : S = {l.id : l \in paper[t]} /\ S # {} /\ \A q \in S : Usable(q)
    BY DEF FindFixed
  <1>2. S \in SUBSET Questions
    BY <1>1 DEF TestsHold, AuthoringTypeOK, Link
  <1>3. PICK L \in SUBSET Link : L = Resolved(S) /\ L # {}
    BY <1>1, <1>2, ResolvedAreLinks
  <1>4. NoPool \in Pools /\ "fixed" \in Modes
    BY AuthoringAssumption DEF NoPool, AuthoringAssumption, Modes
  <1>5. PICK s \in AuthoringState :
            s = [op |-> "publish", test |-> t, links |-> L, mode |-> "fixed", pool |-> NoPool]
    BY <1>4, AuthoringStates
  <1>6. Authors(h, s) /\ UNCHANGED <<test, paper, pool, remade>>
        /\ test[t].st = "draft" /\ test[t].mode = "fixed"
    BY <1>1, <1>3, <1>5 DEF FindFixed, Editable
  <1> QED BY <1>3, <1>5, <1>6, HeldKeeps DEF AuthorKnows

LEMMA FindPoolKeeps ==
  ASSUME TestsHold, NEW h \in Handlers, NEW t \in Papers, FindPool(h, t)
  PROVE  TestsHold'
  <1>1. pool[t] \in Pools /\ "random" \in Modes /\ {} \in SUBSET Link
    BY DEF TestsHold, AuthoringTypeOK, Modes
  <1>2. PICK s \in AuthoringState :
            s = [op |-> "publish", test |-> t, links |-> {}, mode |-> "random", pool |-> pool[t]]
    BY <1>1, AuthoringStates
  <1>3. Authors(h, s) /\ UNCHANGED <<test, paper, pool, remade>>
        /\ test[t].st = "draft" /\ test[t].mode = "random"
    BY <1>2 DEF FindPool, Editable
  <1> QED BY <1>2, <1>3, HeldKeeps DEF AuthorKnows

LEMMA FindToEndKeeps ==
  ASSUME TestsHold, NEW h \in Handlers, NEW op \in {"close", "archive", "delete"},
         NEW t \in Papers, FindToEnd(h, op, t)
  PROVE  TestsHold'
  <1>1. PICK s \in AuthoringState : s = [op |-> op, test |-> t]
    BY AuthoringStates
  <1>2. AuthorKnows(s)
    BY <1>1 DEF FindToEnd, MayEnd, AuthorKnows
  <1> QED BY <1>1, <1>2, HeldKeeps DEF FindToEnd

(* A transaction writes the row of one test, its paper and its pool.       *)
LEMMA WriteKeeps ==
  ASSUME TestsHold, NEW h \in Handlers, NEW t \in Papers, NEW x \in Sheet,
         NEW L \in SUBSET Link, NEW n \in Pools,
         test' = [test EXCEPT ![t] = x], paper' = [paper EXCEPT ![t] = L],
         pool' = [pool EXCEPT ![t] = n], Authors(h, Idle),
         remade \subseteq remade', remade' \subseteq Papers, x.st # "none",
         t \notin remade' /\ x.st \in {"published", "closed"} /\ x.mode = "fixed"
             => L # {} /\ x.total = Worth(L),
         \/ test[t].st = "none" \/ x.mode = test[t].mode
         \/ Publishing(t) => t \in remade'
  PROVE  TestsHold'
  <1> USE DEF TestsHold
  <1>1. /\ test \in [Papers -> Sheet] /\ paper \in [Papers -> SUBSET Link]
        /\ pool \in [Papers -> Pools]
    BY DEF AuthoringTypeOK, Sheet
  <1>2. \A p \in Papers : /\ test'[p] = IF p = t THEN x ELSE test[p]
                          /\ paper'[p] = IF p = t THEN L ELSE paper[p]
    BY <1>1
  <1>3. authoring' = [authoring EXCEPT ![h] = Idle] /\ authoring \in [Handlers -> AuthoringState]
    BY DEF Authors, AuthoringTypeOK
  <1>4. AuthoringTypeOK'
    <2>1. test' \in [Papers -> Sheet] /\ paper' \in [Papers -> SUBSET Link]
          /\ pool' \in [Papers -> Pools]
      BY <1>1
    <2> QED BY <1>3, <2>1, AuthoringStates DEF AuthoringTypeOK, Sheet
  <1>5. TotalMarksMatch'
    <2> SUFFICES ASSUME NEW p \in Papers \ remade',
                        test'[p].st \in {"published", "closed"}, test'[p].mode = "fixed"
                 PROVE  paper'[p] # {} /\ test'[p].total = Worth(paper'[p])
      BY DEF TotalMarksMatch
    <2>1. CASE p = t
      BY <1>2, <2>1
    <2>2. CASE p # t
      BY <1>2, <2>2 DEF TotalMarksMatch
    <2> QED BY <2>1, <2>2
  <1>6. \A g \in Handlers : AuthorKnows(authoring[g])'
    <2> TAKE g \in Handlers
    <2>1. CASE g = h
      BY <1>3, <2>1, AuthoringStates DEF AuthorKnows
    <2>2. CASE g # h
      <3>1. authoring'[g] = authoring[g] /\ authoring[g] \in AuthoringState
            /\ AuthorKnows(authoring[g])
        BY <1>3, <2>2
      <3>2. authoring[g].op \in {"edit", "publish", "close", "archive", "delete"}
              => authoring[g].test \in Papers
        BY <3>1, AuthoringShape
      <3>3. authoring[g].op = "publish" /\ authoring[g].test = t => Publishing(t)
        BY DEF Publishing
      <3>4. authoring[g].op = "publish" /\ authoring[g].test = t /\ t \notin remade'
              => x.mode = test[t].mode
        BY <3>1, <3>3 DEF AuthorKnows
      <3> QED BY <1>2, <3>1, <3>2, <3>4 DEF AuthorKnows
    <2> QED BY <2>1, <2>2
  <1> QED BY <1>4, <1>5, <1>6

DraftSheet(y, m) == [y EXCEPT !.st = "draft", !.mode = m]
ModeSheet(y, m) == [y EXCEPT !.mode = m]
PooledSheet(y) == [y EXCEPT !.st = "published"]
TotalSheet(y, n) == [y EXCEPT !.st = "published", !.total = n]
EndedSheet(y, st, b) == [y EXCEPT !.st = st, !.gone = @ \/ b]

LEMMA SheetDrafted ==
  ASSUME NEW y \in Sheet, NEW m \in Modes
  PROVE  /\ DraftSheet(y, m) \in Sheet /\ DraftSheet(y, m).st = "draft"
         /\ ModeSheet(y, m) \in Sheet /\ ModeSheet(y, m).st = y.st
  <1>1. DraftSheet(y, m) \in Sheet
    BY DEF Sheet, DraftSheet, TestStatus
  <1>2. DraftSheet(y, m).st = "draft"
    BY DEF Sheet, DraftSheet
  <1>3. ModeSheet(y, m) \in Sheet /\ ModeSheet(y, m).st = y.st
    BY DEF Sheet, ModeSheet
  <1> QED BY <1>1, <1>2, <1>3

LEMMA SheetPooled ==
  ASSUME NEW y \in Sheet
  PROVE  PooledSheet(y) \in Sheet /\ PooledSheet(y).st = "published" /\ PooledSheet(y).mode = y.mode
  <1>1. PooledSheet(y) \in Sheet
    BY DEF Sheet, PooledSheet, TestStatus
  <1> QED BY <1>1 DEF Sheet, PooledSheet

LEMMA SheetPublished ==
  ASSUME NEW y \in Sheet, NEW n \in Totals
  PROVE  /\ TotalSheet(y, n) \in Sheet /\ TotalSheet(y, n).st = "published"
         /\ TotalSheet(y, n).mode = y.mode /\ TotalSheet(y, n).total = n
  <1>1. TotalSheet(y, n) \in Sheet
    BY DEF Sheet, TotalSheet, TestStatus
  <1>2. TotalSheet(y, n).st = "published"
    BY DEF Sheet, TotalSheet
  <1>3. TotalSheet(y, n).mode = y.mode
    BY DEF Sheet, TotalSheet
  <1>4. TotalSheet(y, n).total = n
    BY DEF Sheet, TotalSheet
  <1> QED BY <1>1, <1>2, <1>3, <1>4

LEMMA SheetEnded ==
  ASSUME NEW y \in Sheet, NEW st \in TestStatus, NEW b \in BOOLEAN
  PROVE  /\ EndedSheet(y, st, b) \in Sheet /\ EndedSheet(y, st, b).st = st
         /\ EndedSheet(y, st, b).mode = y.mode /\ EndedSheet(y, st, b).total = y.total
  <1>1. EndedSheet(y, st, b) \in Sheet
    <2>1. (y.gone \/ b) \in BOOLEAN
      BY DEF Sheet
    <2> QED BY <2>1 DEF Sheet, EndedSheet
  <1>2. EndedSheet(y, st, b).st = st
    BY DEF Sheet, EndedSheet
  <1>3. EndedSheet(y, st, b).mode = y.mode
    BY DEF Sheet, EndedSheet
  <1>4. EndedSheet(y, st, b).total = y.total
    BY DEF Sheet, EndedSheet
  <1> QED BY <1>1, <1>2, <1>3, <1>4

LEMMA CreateTestKeeps ==
  ASSUME TestsHold, NEW h \in Handlers, NEW t \in Papers, CreateTest(h, t)
  PROVE  TestsHold'
  <1> DEFINE r == authoring[h]
  <1>1. test[t] \in Sheet /\ r \in AuthoringState /\ r.op = "create"
    BY DEF TestsHold, AuthoringTypeOK, Sheet, CreateTest
  <1>2. r.links \in SUBSET Link /\ r.mode \in Modes /\ r.pool \in Pools
    BY <1>1, AuthoringShape
  <1>3. PICK c \in AuthoringState : c = r /\ c.op = "create"
    BY <1>1
  <1>4. /\ [c EXCEPT !.test = t].test = t /\ [c EXCEPT !.test = t].links = c.links
        /\ [c EXCEPT !.test = t].mode = c.mode /\ [c EXCEPT !.test = t].pool = c.pool
    BY <1>3 DEF AuthoringState, Idle
  <1>5. PICK x \in Sheet : x = DraftSheet(test[t], c.mode) /\ x.st = "draft"
    BY <1>1, <1>2, <1>3, SheetDrafted
  <1>6. /\ test' = [test EXCEPT ![t] = x] /\ paper' = [paper EXCEPT ![t] = c.links]
        /\ pool' = [pool EXCEPT ![t] = c.pool] /\ Authors(h, Idle)
        /\ remade' = remade /\ test[t].st = "none"
    BY <1>3, <1>4, <1>5 DEF CreateTest, WritePaper, DraftSheet
  <1>7. remade \subseteq remade' /\ remade' \subseteq Papers
    BY <1>6 DEF TestsHold, AuthoringTypeOK
  <1> QED BY <1>2, <1>3, <1>5, <1>6, <1>7, WriteKeeps

LEMMA EditTestKeeps ==
  ASSUME TestsHold, NEW h \in Handlers, EditTest(h)
  PROVE  TestsHold'
  <1>1. PICK r \in AuthoringState : r = authoring[h] /\ r.op = "edit"
    BY DEF TestsHold, AuthoringTypeOK, EditTest
  <1>2. PICK t \in Papers : t = r.test
    BY <1>1, AuthoringShape
  <1>3. r.links \in SUBSET Link /\ r.mode \in Modes /\ r.pool \in Pools /\ test[t] \in Sheet
    BY <1>1, AuthoringShape DEF TestsHold, AuthoringTypeOK, Sheet
  <1>4. PICK x \in Sheet : x = ModeSheet(test[t], r.mode) /\ x.st = test[t].st
    BY <1>3, SheetDrafted
  <1>5. /\ test' = [test EXCEPT ![t] = x] /\ paper' = [paper EXCEPT ![t] = r.links]
        /\ pool' = [pool EXCEPT ![t] = r.pool] /\ Authors(h, Idle)
        /\ remade' = IF Editable(t) /\ ~Publishing(t) THEN remade ELSE remade \cup {t}
    BY <1>1, <1>2, <1>4 DEF EditTest, WritePaper, ModeSheet
  <1>6. remade \subseteq remade' /\ remade' \subseteq Papers
        /\ (t \notin remade' => test[t].st = "draft" /\ ~Publishing(t))
    BY <1>5 DEF TestsHold, AuthoringTypeOK, Editable
  <1>7. x.st # "none"
    BY <1>1, <1>2, <1>4 DEF TestsHold, AuthorKnows
  <1> QED BY <1>3, <1>4, <1>5, <1>6, <1>7, WriteKeeps

LEMMA PublishTestKeeps ==
  ASSUME TestsHold, NEW h \in Handlers, PublishTest(h)
  PROVE  TestsHold'
  <1>1. PICK r \in AuthoringState : r = authoring[h] /\ r.op = "publish" /\ AuthorKnows(r)
    BY DEF TestsHold, AuthoringTypeOK, PublishTest
  <1>2. PICK t \in Papers : t = r.test
    BY <1>1, AuthoringShape
  <1>3. /\ r.links \in SUBSET Link /\ r.mode \in Modes /\ r.pool \in Pools
        /\ test[t] \in Sheet /\ paper[t] \in SUBSET Link /\ pool[t] \in Pools
    BY <1>1, AuthoringShape DEF TestsHold, AuthoringTypeOK, Sheet
  <1>4. /\ Authors(h, Idle) /\ remade \subseteq remade' /\ remade' \subseteq Papers
        /\ t \notin remade' => t \notin remade /\ test[t].st = "draft"
    BY <1>1, <1>2 DEF TestsHold, AuthoringTypeOK, PublishTest, Editable
  <1>5. CASE r.mode = "fixed"
    <2>1. PICK n \in Totals : n = Worth(r.links)
      BY <1>3 DEF Totals
    <2>2. PICK x \in Sheet : /\ x = TotalSheet(test[t], n) /\ x.st = "published"
                             /\ x.mode = test[t].mode /\ x.total = n
      BY <1>3, SheetPublished
    <2>3. /\ test' = [test EXCEPT ![t] = x] /\ paper' = [paper EXCEPT ![t] = r.links]
          /\ pool' = [pool EXCEPT ![t] = r.pool]
      BY <1>1, <1>2, <1>5, <2>1, <2>2 DEF PublishTest, WritePaper, Published, TotalSheet
    <2>4. r.links # {}
      BY <1>1, <1>5 DEF AuthorKnows
    <2>5. x.st # "none" /\ r.links # {} /\ x.total = Worth(r.links)
      BY <2>1, <2>2, <2>4
    <2> QED BY <1>3, <1>4, <2>2, <2>3, <2>5, WriteKeeps
  <1>6. CASE r.mode # "fixed"
    <2>1. PICK x \in Sheet : /\ x = PooledSheet(test[t]) /\ x.st = "published"
                             /\ x.mode = test[t].mode
      BY <1>3, SheetPooled
    <2>2. test' = [test EXCEPT ![t] = x]
      BY <1>1, <1>2, <1>6, <2>1 DEF PublishTest, PooledSheet
    <2>3. PICK L \in SUBSET Link, n \in Pools : L = paper[t] /\ n = pool[t]
      BY <1>3
    <2>4. paper' = [paper EXCEPT ![t] = L] /\ pool' = [pool EXCEPT ![t] = n]
      BY <1>1, <1>6, <2>3 DEF TestsHold, AuthoringTypeOK, PublishTest
    <2>5. (t \notin remade' => x.mode # "fixed") /\ x.st # "none"
      BY <1>1, <1>2, <1>4, <1>6, <2>1 DEF AuthorKnows
    <2> QED BY <1>3, <1>4, <2>1, <2>2, <2>4, <2>5, WriteKeeps
  <1> QED BY <1>5, <1>6

LEMMA EndTestKeeps ==
  ASSUME TestsHold, NEW h \in Handlers, EndTest(h)
  PROVE  TestsHold'
  <1>1. PICK r \in AuthoringState : r = authoring[h] /\ AuthorKnows(r)
                                    /\ r.op \in {"close", "archive", "delete"}
    BY DEF TestsHold, AuthoringTypeOK, EndTest
  <1>2. PICK t \in Papers : t = r.test
    BY <1>1, AuthoringShape
  <1>3. test[t] \in Sheet /\ paper[t] \in SUBSET Link /\ pool[t] \in Pools
    BY DEF TestsHold, AuthoringTypeOK, Sheet
  <1>4. PICK st \in TestStatus : st = IF r.op = "close" THEN "closed" ELSE "archived"
    BY DEF TestStatus
  <1>5. PICK b \in BOOLEAN : b = (r.op # "close")
    OBVIOUS
  <1>6. PICK x \in Sheet : /\ x = EndedSheet(test[t], st, b) /\ x.st = st
                           /\ x.mode = test[t].mode /\ x.total = test[t].total
    BY <1>3, SheetEnded
  <1>7. /\ test' = [test EXCEPT ![t] = x] /\ Authors(h, Idle)
        /\ remade' = IF MayEnd(r.op, t) THEN remade ELSE remade \cup {t}
    BY <1>1, <1>2, <1>4, <1>5, <1>6 DEF EndTest, EndedSheet
  <1>0. PICK L \in SUBSET Link, n \in Pools : L = paper[t] /\ n = pool[t]
    BY <1>3
  <1>8. paper' = [paper EXCEPT ![t] = L] /\ pool' = [pool EXCEPT ![t] = n]
    BY <1>0 DEF EndTest, TestsHold, AuthoringTypeOK
  <1>9. remade \subseteq remade' /\ remade' \subseteq Papers
    BY <1>7 DEF TestsHold, AuthoringTypeOK
  <1>10. st # "none" /\ (st \in {"published", "closed"} => r.op = "close")
    BY <1>4
  <1>11. t \notin remade' /\ x.st \in {"published", "closed"} /\ x.mode = "fixed"
            => L # {} /\ x.total = Worth(L)
    <2>1. t \notin remade' /\ r.op = "close" => test[t].st = "published" /\ t \notin remade
      BY <1>7 DEF MayEnd
    <2> QED BY <1>0, <1>6, <1>10, <2>1 DEF TestsHold, TotalMarksMatch
  <1>12. x.st # "none"
    BY <1>6, <1>10
  <1> QED BY <1>6, <1>7, <1>8, <1>9, <1>11, <1>12, WriteKeeps

LEMMA TestsStill ==
  ASSUME TestsHold, UNCHANGED authoringVars
  PROVE  TestsHold'
  BY DEF authoringVars, TestsHold, AuthoringTypeOK, TotalMarksMatch, AuthorKnows

LEMMA AuthoringKeeps ==
  ASSUME BankInv, TestsHold, AuthoringStep
  PROVE  TestsHold'
  <1>1. PICK h \in Handlers :
            \/ \E t \in Papers :
                \/ \E op \in {"create", "edit"}, S \in SUBSET Questions, n \in Pools :
                      Compose(h, op, t, S, n)
                \/ CreateTest(h, t) \/ FindFixed(h, t) \/ FindPool(h, t)
                \/ \E op \in {"close", "archive", "delete"} : FindToEnd(h, op, t)
            \/ EditTest(h) \/ PublishTest(h) \/ EndTest(h)
    BY DEF AuthoringStep
  <1>2. ASSUME NEW t \in Papers,
               \/ \E op \in {"create", "edit"}, S \in SUBSET Questions, n \in Pools :
                     Compose(h, op, t, S, n)
               \/ CreateTest(h, t) \/ FindFixed(h, t) \/ FindPool(h, t)
               \/ \E op \in {"close", "archive", "delete"} : FindToEnd(h, op, t)
        PROVE  TestsHold'
    BY <1>2, ComposeKeeps, CreateTestKeeps, FindFixedKeeps, FindPoolKeeps, FindToEndKeeps
  <1> QED BY <1>1, <1>2, EditTestKeeps, PublishTestKeeps, EndTestKeeps

\* What holds of the bank and the tests in every state.
TestsAndBank == BankInv /\ TestsHold

LEMMA TestsAlways == BankAndTestsSpec => []TestsAndBank
  <1>1. BankAndTestsInit => TestsAndBank
    BY BankStart, TestsStart DEF BankAndTestsInit, TestsAndBank
  <1>2. TestsAndBank /\ [BankAndTestsNext]_<<bankVars, authoringVars>> => TestsAndBank'
    <2> SUFFICES ASSUME TestsAndBank, [BankAndTestsNext]_<<bankVars, authoringVars>>
                 PROVE  BankInv' /\ TestsHold'
      BY DEF TestsAndBank
    <2>1. CASE AuthoringStep /\ UNCHANGED bankVars
      BY <2>1, BankStep, AuthoringKeeps DEF TestsAndBank
    <2>2. CASE [BankNext]_bankVars /\ UNCHANGED authoringVars
      BY <2>2, BankStep, TestsStill DEF TestsAndBank
    <2> QED BY <2>1, <2>2 DEF BankAndTestsNext
  <1> QED BY <1>1, <1>2, PTL DEF BankAndTestsSpec

(* Versions and papers, for any number of questions, versions and tests:   *)
(* the current version is the newest and, unless an edit came between the  *)
(* two queries of another, the only one published; and the total of a      *)
(* published test is what its questions are worth.                         *)
THEOREM TestsInvariant == BankAndTestsSpec => []BankAndTestsInv
  <1>1. TestsAndBank => BankAndTestsInv
    BY DEF TestsAndBank, TestsHold, BankAndTestsInv
  <1> QED BY <1>1, TestsAlways, PTL

(* A published test keeps its paper and its pool, whatever is done to the  *)
(* questions, unless a request on its draft overlapped its publication.    *)
THEOREM PublishedKept == BankAndTestsSpec => PublishedKeepsPaper
  <1> DEFINE Kept(t) == test[t].st \in {"published", "closed"} /\ t \notin remade'
                          => paper'[t] = paper[t] /\ pool'[t] = pool[t]
  <1>1. TestsAndBank /\ [BankAndTestsNext]_<<bankVars, authoringVars>>
          => \A t \in Papers : Kept(t)
    <2> SUFFICES ASSUME TestsAndBank, [BankAndTestsNext]_<<bankVars, authoringVars>>,
                        NEW t \in Papers
                 PROVE  Kept(t)
      OBVIOUS
    <2>1. paper \in [Papers -> SUBSET Link] /\ pool \in [Papers -> Pools]
      BY DEF TestsAndBank, TestsHold, AuthoringTypeOK
    <2>2. CASE paper' = paper /\ pool' = pool
      BY <2>2
    <2>3. ASSUME NEW h \in Handlers, NEW p \in Papers, CreateTest(h, p) PROVE Kept(t)
      BY <2>1, <2>3 DEF CreateTest, WritePaper
    <2>4. ASSUME NEW h \in Handlers, EditTest(h) PROVE Kept(t)
      BY <2>1, <2>4 DEF EditTest, WritePaper, Editable
    <2>5. ASSUME NEW h \in Handlers, PublishTest(h) PROVE Kept(t)
      BY <2>1, <2>5 DEF PublishTest, WritePaper, Editable
    <2>6. CASE AuthoringStep
      <3>1. PICK h \in Handlers :
              \/ \E p \in Papers :
                  \/ \E op \in {"create", "edit"}, S \in SUBSET Questions, n \in Pools :
                        Compose(h, op, p, S, n)
                  \/ CreateTest(h, p) \/ FindFixed(h, p) \/ FindPool(h, p)
                  \/ \E op \in {"close", "archive", "delete"} : FindToEnd(h, op, p)
              \/ EditTest(h) \/ PublishTest(h) \/ EndTest(h)
        BY <2>6, Zenon DEF AuthoringStep
      <3>2. \A op, p, S, n : Compose(h, op, p, S, n) => paper' = paper /\ pool' = pool
        BY DEF Compose
      <3>3. \A op, p : FindFixed(h, p) \/ FindPool(h, p) \/ FindToEnd(h, op, p) \/ EndTest(h)
                      => paper' = paper /\ pool' = pool
        BY DEF FindFixed, FindPool, FindToEnd, EndTest
      <3> HIDE DEF Kept
      <3> QED BY <2>2, <2>3, <2>4, <2>5, <3>1, <3>2, <3>3, Zenon
    <2>7. CASE UNCHANGED authoringVars
      BY <2>2, <2>7 DEF authoringVars
    <2> QED BY <2>6, <2>7 DEF BankAndTestsNext
  <1> QED BY <1>1, TestsAlways, PTL DEF BankAndTestsSpec, PublishedKeepsPaper

-----------------------------------------------------------------------------
(* Generation.  The least of a set of configurations is one of them.       *)
LEMMA LeastIsIn ==
  ASSUME NEW S \in SUBSET Nat, S # {}
  PROVE  Min(S) \in S
  <1> DEFINE Less == OpToRel(<, Nat)
  <1>1. IsWellFoundedOn(Less, Nat)
    BY NatLessThanWellFounded
  <1>2. PICK x \in S : \A y \in S : ~(<<y, x>> \in Less)
    BY <1>1, WFMin
  <1>3. \A y \in S : ~(y < x)
    BY <1>2 DEF OpToRel
  <1>4. \A y \in S : x <= y
    BY <1>3
  <1> QED BY <1>4 DEF Min

LEMMA GenerationFacts ==
  /\ IsFiniteSet(Handlers) /\ Configs \in SUBSET Nat /\ Configs # {}
  /\ Attempts \in Nat \ {0} /\ Budget \in Nat /\ Items \in Nat \ {0} /\ 1 \in 1..Attempts
  /\ 1 \in 1..(Items + 1) /\ Draft \subseteq 1..(Items + 1)
  /\ \A i \in Draft : i \in Nat /\ i <= Items /\ i + 1 \in 1..(Items + 1)
  /\ \A i \in 1..(Items + 1) : i \in Nat /\ (i <= Items => i \in Draft)
  BY GenerationAssumption DEF GenerationAssumption, Draft

LEMMA GenerationShape ==
  ASSUME NEW s \in GenerationState
  PROVE  /\ s = Idle <=> s.op = "idle"
         /\ s.op # "idle" => s.key \in Keys
         /\ s.op = "planned" => s.eligible \in SUBSET Configs
                                /\ s = [op |-> "planned", key |-> s.key, eligible |-> s.eligible]
         /\ s.op = "calling" => s.left \in SUBSET Configs /\ s.attempt \in 1..Attempts
                                /\ s = [op |-> "calling", key |-> s.key, left |-> s.left,
                                        attempt |-> s.attempt]
         /\ s.op \in {"saving", "linked"} => s.item \in Draft
         /\ s.op = "linking" => s.item \in 1..(Items + 1)
         /\ s.op \in {"saving", "linking", "linked"} =>
                s = [op |-> s.op, key |-> s.key, item |-> s.item]
  BY DEF GenerationState, Idle

LEMMA GenerationStates ==
  /\ Idle \in GenerationState /\ Idle.op = "idle"
  /\ \A k \in Keys :
        /\ \A E \in SUBSET Configs : [op |-> "planned", key |-> k, eligible |-> E] \in GenerationState
        /\ \A E \in SUBSET Configs, n \in 1..Attempts :
              [op |-> "calling", key |-> k, left |-> E, attempt |-> n] \in GenerationState
        /\ \A op \in {"blocked", "accepted", "stored", "failing", "drafting"} :
              [op |-> op, key |-> k] \in GenerationState
        /\ \A op \in {"saving", "linked"}, i \in Draft :
              [op |-> op, key |-> k, item |-> i] \in GenerationState
        /\ \A i \in 1..(Items + 1) : [op |-> "linking", key |-> k, item |-> i] \in GenerationState
  BY DEF GenerationState, Idle

(* A step of one handler, from what it holds to s.                         *)
Moved(h, s) == \A g \in Handlers : generating'[g] = IF g = h THEN s ELSE generating[g]

LEMMA MovesGives ==
  ASSUME GenerationTypeOK, NEW h \in Handlers, NEW s \in GenerationState, Moves(h, s)
  PROVE  Moved(h, s) /\ generating' \in [Handlers -> GenerationState]
  BY DEF GenerationTypeOK, Moves, Moved

(* The drafts: how far the requests that make a test of them are.  A test  *)
(* stays behind the questions, because each request that is past a draft   *)
(* has made a question of it.                                              *)
Past(k, i) == {h \in Handlers : /\ generating[h].op \in {"linking", "linked"}
                                /\ generating[h].key = k /\ i < generating[h].item}
DraftHolds(k, i) ==
  /\ saved[k][i] >= tests[k] + Cardinality(Past(k, i))
  /\ saved[k][i] > 0 => draft[k][i] = "accepted"
  /\ k \in answered => draft[k][i] # "none"
  /\ <<k, i>> \notin raced =>
        /\ saved[k][i] <= 1
        /\ draft[k][i] # "accepted" => saved[k][i] = 0
        /\ \A h \in Handlers : Accepting(h, k, i) => draft[k][i] = "open"
DraftsHold == \A k \in Keys, i \in Draft : DraftHolds(k, i)

(* The keys: one that is new has not been asked for.                       *)
KeysHold == \A k \in Keys : started[k] <= 1 /\ (execution[k].st = "none" => started[k] = 0)

LEMMA PastFinite == \A k, i : IsFiniteSet(Past(k, i)) /\ Cardinality(Past(k, i)) \in Nat
  BY GenerationFacts, FS_Subset, FS_CardinalityType DEF Past

LEMMA GenerationStart == GenerationInit => GenerationTypeOK /\ DraftsHold /\ KeysHold
  <1> SUFFICES ASSUME GenerationInit PROVE GenerationTypeOK /\ DraftsHold /\ KeysHold
    OBVIOUS
  <1>1. GenerationTypeOK
    <2>1. execution \in [Keys -> [st : Statuses, config : Configs \cup {NoConfig}]]
          /\ cost \in [Configs -> Nat]
      BY DEF GenerationInit, Statuses
    <2>2. draft \in [Keys -> [Draft -> {"none", "open", "accepted"}]]
          /\ saved \in [Keys -> [Draft -> Nat]]
      BY DEF GenerationInit
    <2>3. started \in [Keys -> Nat] /\ tests \in [Keys -> Nat]
          /\ generating \in [Handlers -> GenerationState]
      BY GenerationStates DEF GenerationInit
    <2> QED BY <2>1, <2>2, <2>3 DEF GenerationInit, GenerationTypeOK
  <1>2. \A h \in Handlers : generating[h].op = "idle"
    BY GenerationStates DEF GenerationInit
  <1>3. \A k, i : Past(k, i) = {}
    BY <1>2 DEF Past
  <1>4. DraftsHold
    <2> SUFFICES ASSUME NEW k \in Keys, NEW i \in Draft PROVE DraftHolds(k, i)
      BY DEF DraftsHold
    <2>1. saved[k][i] = 0 /\ tests[k] = 0 /\ draft[k][i] = "none" /\ answered = {}
      BY DEF GenerationInit
    <2>2. Cardinality(Past(k, i)) = 0
      BY <1>3, FS_EmptySet
    <2>3. \A h \in Handlers : ~Accepting(h, k, i)
      BY <1>2 DEF Accepting, Doing
    <2> QED BY <2>1, <2>2, <2>3 DEF DraftHolds
  <1> QED BY <1>1, <1>4 DEF GenerationInit, KeysHold

(* Most steps touch no draft; the requests that go on with one find it     *)
(* open, and are where they were among the drafts of a test.               *)
LEMMA QuietDrafts ==
  ASSUME GenerationTypeOK, DraftsHold, NEW h \in Handlers, NEW s \in GenerationState, Moved(h, s),
         UNCHANGED drafts,
         s.op \in {"saving", "linked"} => draft[s.key][s.item] = "open",
         s.op \in {"linking", "linked"} =>
             /\ generating[h].op \in {"linking", "linked"}
             /\ generating[h].key = s.key /\ generating[h].item = s.item
  PROVE  DraftsHold'
  <1> SUFFICES ASSUME NEW k \in Keys, NEW i \in Draft PROVE DraftHolds(k, i)'
    BY DEF DraftsHold
  <1>1. draft' = draft /\ saved' = saved /\ tests' = tests /\ answered' = answered /\ raced' = raced
    BY DEF drafts
  <1>2. DraftHolds(k, i) /\ saved[k][i] \in Nat /\ tests[k] \in Nat
    BY DEF DraftsHold, GenerationTypeOK
  <1>3. Past(k, i)' \in SUBSET Past(k, i)
    BY DEF Past, Moved
  <1>4. Cardinality(Past(k, i)') \in Nat /\ Cardinality(Past(k, i)) \in Nat
        /\ Cardinality(Past(k, i)') <= Cardinality(Past(k, i))
    BY <1>3, PastFinite, FS_Subset, FS_CardinalityType
  <1>5. saved[k][i] >= tests[k] + Cardinality(Past(k, i)')
    BY <1>2, <1>4 DEF DraftHolds
  <1>6. ASSUME NEW g \in Handlers, Accepting(g, k, i)', <<k, i>> \notin raced
        PROVE  draft[k][i] = "open"
    <2>1. CASE g = h
      BY <1>6, <2>1 DEF Accepting, Doing, KeyOf, Moved
    <2>2. CASE g # h
      BY <1>2, <1>6, <2>2 DEF DraftHolds, Accepting, Doing, KeyOf, Moved
    <2> QED BY <2>1, <2>2
  <1> QED BY <1>1, <1>2, <1>5, <1>6 DEF DraftHolds

(* The steps that write drafts.                                            *)
LEMMA MakeDraftsHold ==
  ASSUME GenerationTypeOK, DraftsHold, NEW h \in Handlers, MakeDrafts(h)
  PROVE  GenerationTypeOK' /\ DraftsHold'
  <1>1. PICK k \in Keys : generating[h] = [op |-> "drafting", key |-> k]
                          /\ KeyOf(h) = k /\ generating[h].op = "drafting"
    <2>1. generating[h] \in GenerationState /\ generating[h].op = "drafting"
      BY DEF MakeDrafts, Doing, GenerationTypeOK
    <2> QED BY <2>1 DEF GenerationState, KeyOf, Idle
  <1>2. PICK s \in GenerationState : /\ Moves(h, s)
                                     /\ s.op = "linking" => s.item = 1
                                     /\ s.op \in {"idle", "linking"}
    <2>1. CASE k \in TestKeys
      BY <1>1, <2>1, GenerationStates, GenerationFacts DEF MakeDrafts
    <2>2. CASE k \notin TestKeys
      BY <1>1, <2>2, GenerationStates DEF MakeDrafts
    <2> QED BY <2>1, <2>2
  <1>3. Moved(h, s) /\ generating' \in [Handlers -> GenerationState]
    BY <1>2, MovesGives
  <1>4. /\ draft' = [draft EXCEPT ![k] = Upserted(k)]
        /\ UNCHANGED <<execution, cost, stale, started, saved, tests, raced>>
        /\ answered' \in {answered, answered \cup {k}}
    BY <1>1 DEF MakeDrafts
  <1>5. /\ Upserted(k) \in [Draft -> {"none", "open", "accepted"}]
        /\ \A i \in Draft : Upserted(k)[i] = IF draft[k][i] = "none" THEN "open" ELSE draft[k][i]
    BY DEF Upserted, GenerationTypeOK
  <1>6. draft' \in [Keys -> [Draft -> {"none", "open", "accepted"}]]
        /\ \A p \in Keys : draft'[p] = IF p = k THEN Upserted(k) ELSE draft[p]
    BY <1>4, <1>5 DEF GenerationTypeOK
  <1>7. GenerationTypeOK'
    BY <1>3, <1>4, <1>6 DEF GenerationTypeOK
  <1>8. ASSUME NEW p \in Keys, NEW i \in Draft PROVE DraftHolds(p, i)'
    <2>1. DraftHolds(p, i) /\ saved[p][i] \in Nat /\ tests[p] \in Nat
          /\ draft[p][i] \in {"none", "open", "accepted"}
      BY DEF DraftsHold, GenerationTypeOK
    <2>2. Past(p, i)' = Past(p, i)
      <3>1. i \in Nat /\ ~(i < 1)
        BY DEF Draft
      <3> QED BY <1>1, <1>2, <1>3, <3>1 DEF Past, Moved
    <2>3. \A g \in Handlers : Accepting(g, p, i)' => Accepting(g, p, i)
      BY <1>2, <1>3 DEF Accepting, Doing, KeyOf, Moved
    <2>4. /\ draft'[p][i] \in {draft[p][i], "open"}
          /\ draft[p][i] # "none" => draft'[p][i] = draft[p][i]
          /\ p = k => draft'[p][i] # "none"
      BY <1>5, <1>6, <2>1
    <2>5. p \in answered' => draft'[p][i] # "none"
      BY <1>4, <2>1, <2>4 DEF DraftHolds
    <2>6. saved[p][i] > 0 => draft'[p][i] = "accepted"
      BY <2>1, <2>4 DEF DraftHolds
    <2>7. <<p, i>> \notin raced => /\ draft'[p][i] # "accepted" => saved[p][i] = 0
                                   /\ \A g \in Handlers : Accepting(g, p, i)' => draft'[p][i] = "open"
      BY <2>1, <2>3, <2>4 DEF DraftHolds
    <2> QED BY <1>4, <2>1, <2>2, <2>5, <2>6, <2>7 DEF DraftHolds
  <1> QED BY <1>7, <1>8 DEF DraftsHold

LEMMA AcceptHolds ==
  ASSUME GenerationTypeOK, DraftsHold, NEW h \in Handlers, Accept(h)
  PROVE  GenerationTypeOK' /\ DraftsHold'
  <1>1. PICK g \in GenerationState : g = generating[h] /\ g.op \in {"saving", "linked"}
    BY DEF Accept, Accepting, Doing, GenerationTypeOK
  <1>2. PICK k \in Keys, i \in Draft : k = g.key /\ i = g.item /\ g = [op |-> g.op, key |-> k, item |-> i]
    BY <1>1, GenerationShape
  <1>3. PICK s \in GenerationState :
            /\ Moves(h, s)
            /\ \/ s.op = "idle" /\ g.op = "saving"
               \/ s = [op |-> "linking", key |-> k, item |-> i + 1] /\ g.op = "linked"
    <2>1. CASE g.op = "saving"
      BY <1>1, <2>1, GenerationStates DEF Accept
    <2>2. CASE g.op = "linked"
      <3>1. PICK s \in GenerationState : s = [op |-> "linking", key |-> k, item |-> i + 1]
        BY GenerationFacts, GenerationStates
      <3> QED BY <1>1, <1>2, <2>2, <3>1 DEF Accept
    <2> QED BY <1>1, <2>1, <2>2
  <1>4. Moved(h, s) /\ generating' \in [Handlers -> GenerationState]
    BY <1>3, MovesGives
  <1>5. /\ draft' = [draft EXCEPT ![k][i] = "accepted"]
        /\ saved' = [saved EXCEPT ![k][i] = @ + 1]
        /\ raced' = IF \E f \in Handlers \ {h} : Accepting(f, k, i)
                    THEN raced \cup {<<k, i>>} ELSE raced
        /\ UNCHANGED <<execution, cost, stale, started, tests, answered>>
    BY <1>1, <1>2 DEF Accept
  <1>6. GenerationTypeOK'
    <2>1. draft' \in [Keys -> [Draft -> {"none", "open", "accepted"}]]
      BY <1>5 DEF GenerationTypeOK
    <2>2. saved' \in [Keys -> [Draft -> Nat]]
      BY <1>5 DEF GenerationTypeOK
    <2>3. raced' \subseteq Keys \X Draft
      BY <1>5 DEF GenerationTypeOK
    <2> QED BY <1>4, <1>5, <2>1, <2>2, <2>3 DEF GenerationTypeOK
  <1>7. /\ \A p \in Keys, j \in Draft : p # k \/ j # i =>
               draft'[p][j] = draft[p][j] /\ saved'[p][j] = saved[p][j]
        /\ draft'[k][i] = "accepted" /\ saved'[k][i] = saved[k][i] + 1
    BY <1>5 DEF GenerationTypeOK
  <1>8. ASSUME NEW p \in Keys, NEW j \in Draft PROVE DraftHolds(p, j)'
    <2>1. DraftHolds(p, j) /\ saved[p][j] \in Nat /\ tests[p] \in Nat
      BY DEF DraftsHold, GenerationTypeOK
    <2>2. \A f \in Handlers : Accepting(f, p, j)' => f # h /\ Accepting(f, p, j)
      BY <1>3, <1>4 DEF Accepting, Doing, KeyOf, Moved
    <2>3. CASE p # k \/ j # i
      <3>1. Past(p, j)' \in SUBSET Past(p, j)
        <4> SUFFICES ASSUME NEW f \in Handlers, f \in Past(p, j)' PROVE f \in Past(p, j)
          BY DEF Past
        <4>1. CASE f = h
          <5>1. s.op = "linking" /\ s.key = k /\ s.item = i + 1 /\ g.op = "linked"
                /\ p = k /\ j < i + 1
            BY <1>3, <1>4, <4>1 DEF Past, Moved
          <5>2. j \in Nat /\ i \in Nat /\ j # i /\ j < i
            BY <2>3, <5>1 DEF Draft
          <5> QED BY <1>1, <1>2, <4>1, <5>1, <5>2 DEF Past
        <4>2. CASE f # h
          BY <1>4, <4>2 DEF Past, Moved
        <4> QED BY <4>1, <4>2
      <3>2. Cardinality(Past(p, j)') \in Nat /\ Cardinality(Past(p, j)) \in Nat
            /\ Cardinality(Past(p, j)') <= Cardinality(Past(p, j))
        BY <3>1, PastFinite, FS_Subset, FS_CardinalityType
      <3>3. saved[p][j] >= tests[p] + Cardinality(Past(p, j)')
        BY <2>1, <3>2 DEF DraftHolds
      <3>4. <<p, j>> \notin raced' => <<p, j>> \notin raced
        BY <1>5
      <3> QED BY <1>5, <1>7, <2>1, <2>2, <2>3, <3>3, <3>4 DEF DraftHolds
    <2>4. CASE p = k /\ j = i
      <3>1. Past(p, j)' \in SUBSET (Past(p, j) \cup {h})
        BY <1>4 DEF Past, Moved
      <3>2. /\ IsFiniteSet(Past(p, j) \cup {h})
            /\ Cardinality(Past(p, j) \cup {h}) \in Nat
            /\ Cardinality(Past(p, j) \cup {h}) <= Cardinality(Past(p, j)) + 1
        <4> DEFINE P == Past(p, j)
        <4>1. IsFiniteSet(P) /\ Cardinality(P) \in Nat
          BY PastFinite
        <4> HIDE DEF P
        <4>2. /\ IsFiniteSet(P \cup {h})
              /\ Cardinality(P \cup {h}) = IF h \in P THEN Cardinality(P) ELSE Cardinality(P) + 1
          BY <4>1, FS_AddElement
        <4>3. IsFiniteSet(P \cup {h}) /\ Cardinality(P \cup {h}) \in Nat
              /\ Cardinality(P \cup {h}) <= Cardinality(P) + 1
          BY <4>1, <4>2
        <4> QED BY <4>3 DEF P
      <3>3. Cardinality(Past(p, j)') \in Nat
            /\ Cardinality(Past(p, j)') <= Cardinality(Past(p, j)) + 1
        BY <3>1, <3>2, PastFinite, FS_Subset, FS_CardinalityType
      <3>4. saved[p][j] + 1 >= tests[p] + Cardinality(Past(p, j)')
        BY <2>1, <3>3, PastFinite DEF DraftHolds
      <3>5. Accepting(h, k, i)
        BY <1>1, <1>2 DEF Accepting, Doing, KeyOf
      <3>6. <<p, j>> \notin raced' =>
              /\ saved[p][j] = 0
              /\ \A f \in Handlers : ~Accepting(f, p, j)'
        BY <1>5, <2>1, <2>2, <2>4, <3>5 DEF DraftHolds
      <3> QED BY <1>5, <1>7, <2>1, <2>4, <3>4, <3>6 DEF DraftHolds
    <2> QED BY <2>3, <2>4
  <1> QED BY <1>6, <1>8 DEF DraftsHold

LEMMA MakeTestHolds ==
  ASSUME GenerationTypeOK, DraftsHold, NEW h \in Handlers, MakeTest(h)
  PROVE  GenerationTypeOK' /\ DraftsHold'
  <1>1. PICK g \in GenerationState : g = generating[h] /\ g.op = "linking" /\ g.item = Items + 1
    BY DEF MakeTest, AllTaken, GenerationTypeOK
  <1>2. PICK k \in Keys : k = g.key
    BY <1>1, GenerationShape
  <1>3. Moved(h, Idle) /\ generating' \in [Handlers -> GenerationState]
    BY MovesGives, GenerationStates DEF MakeTest
  <1>4. tests' = [tests EXCEPT ![k] = @ + 1]
        /\ UNCHANGED <<execution, cost, stale, started, draft, saved, answered, raced>>
    BY <1>1, <1>2 DEF MakeTest
  <1>5. tests' \in [Keys -> Nat] /\ \A p \in Keys : tests'[p] = IF p = k THEN tests[k] + 1 ELSE tests[p]
    BY <1>4 DEF GenerationTypeOK
  <1>6. GenerationTypeOK'
    BY <1>3, <1>4, <1>5 DEF GenerationTypeOK
  <1>7. ASSUME NEW p \in Keys, NEW j \in Draft PROVE DraftHolds(p, j)'
    <2>1. DraftHolds(p, j) /\ saved[p][j] \in Nat /\ tests[p] \in Nat
      BY DEF DraftsHold, GenerationTypeOK
    <2>2. \A f \in Handlers : Accepting(f, p, j)' => Accepting(f, p, j)
      BY <1>3, GenerationStates DEF Accepting, Doing, KeyOf, Moved
    <2>3. Past(p, j)' = Past(p, j) \ {h}
      BY <1>3, GenerationStates DEF Past, Moved
    <2>4. p = k => h \in Past(p, j)
      <3>1. j \in Nat /\ j < Items + 1
        BY GenerationFacts
      <3> QED BY <1>1, <1>2, <3>1 DEF Past
    <2>5. Cardinality(Past(p, j)') =
            IF h \in Past(p, j) THEN Cardinality(Past(p, j)) - 1 ELSE Cardinality(Past(p, j))
      BY <2>3, PastFinite, FS_RemoveElement
    <2>6. Cardinality(Past(p, j)') \in Nat
      BY <2>3, PastFinite, FS_RemoveElement, FS_CardinalityType
    <2>7. saved[p][j] >= tests'[p] + Cardinality(Past(p, j)')
      BY <1>5, <2>1, <2>4, <2>5, <2>6, PastFinite DEF DraftHolds
    <2> QED BY <1>4, <2>1, <2>2, <2>7 DEF DraftHolds
  <1> QED BY <1>6, <1>7 DEF DraftsHold

(* The budgets: a request whose plan is not stale knows that there was room *)
(* for it in the configuration its execution counts for.                   *)
BudgetOf(s) ==
  /\ s.op = "planned" => s.eligible = {c \in Configs : cost[c] < Budget}
  /\ s.op \in {"calling", "accepted", "stored"} =>
        /\ execution[s.key].st # "none" /\ execution[s.key].config \in Configs
        /\ cost[execution[s.key].config] < Budget
BudgetsHold == \A h \in Handlers : h \notin stale => BudgetOf(generating[h])
GenerationHolds == GenerationTypeOK /\ DraftsHold /\ KeysHold /\ BudgetsHold

\* An execution keeps the configuration it counts for.
Kept(k) == execution[k].st # "none" =>
             execution'[k].st # "none" /\ execution'[k].config = execution[k].config

Execution == [st : Statuses, config : Configs \cup {NoConfig}]

LEMMA BudgetsKept ==
  ASSUME GenerationTypeOK, BudgetsHold, cost' = cost, \A k \in Keys : Kept(k),
         NEW h \in Handlers, NEW s \in GenerationState, Moved(h, s),
         \A g \in Handlers : g # h /\ g \notin stale' => g \notin stale,
         h \notin stale' => BudgetOf(s)'
  PROVE  BudgetsHold'
  <1> SUFFICES ASSUME NEW g \in Handlers, g \notin stale' PROVE BudgetOf(generating[g])'
    BY DEF BudgetsHold
  <1>1. CASE g = h
    BY <1>1 DEF Moved, BudgetOf
  <1>2. CASE g # h
    <2>1. generating'[g] = generating[g] /\ BudgetOf(generating[g]) /\ generating[g] \in GenerationState
      BY <1>2 DEF Moved, BudgetsHold, GenerationTypeOK
    <2>2. generating[g].op \in {"calling", "accepted", "stored"} => Kept(generating[g].key)
      BY <2>1, GenerationShape
    <2> QED BY <2>1, <2>2 DEF BudgetOf, Kept
  <1> QED BY <1>1, <1>2

(* A step that touches no draft and no cost.                               *)
LEMMA QuietKept ==
  ASSUME GenerationHolds, NEW h \in Handlers, NEW s \in GenerationState, Moves(h, s),
         UNCHANGED drafts, cost' = cost, stale' \subseteq stale, \A k \in Keys : Kept(k),
         execution' \in [Keys -> Execution], started' \in [Keys -> Nat], KeysHold',
         \A g \in Handlers : g # h /\ g \notin stale' => g \notin stale,
         h \notin stale' => BudgetOf(s)',
         s.op \in {"saving", "linked"} => draft[s.key][s.item] = "open",
         s.op \in {"linking", "linked"} =>
             /\ generating[h].op \in {"linking", "linked"}
             /\ generating[h].key = s.key /\ generating[h].item = s.item
  PROVE  GenerationHolds'
  <1>1. Moved(h, s) /\ generating' \in [Handlers -> GenerationState]
    BY MovesGives DEF GenerationHolds
  <1>2. GenerationTypeOK'
    BY <1>1 DEF GenerationHolds, GenerationTypeOK, drafts, Execution
  <1>3. DraftsHold'
    BY <1>1, QuietDrafts DEF GenerationHolds
  <1>4. BudgetsHold'
    BY <1>1, BudgetsKept DEF GenerationHolds
  <1> QED BY <1>2, <1>3, <1>4 DEF GenerationHolds

LEMMA StatusSet ==
  ASSUME GenerationHolds, NEW k \in Keys, NEW st \in Statuses \ {"none"},
         SetStatus(k, st), started' = started
  PROVE  /\ execution' \in [Keys -> Execution] /\ started' \in [Keys -> Nat]
         /\ KeysHold' /\ \A p \in Keys : Kept(p)
  <1> DEFINE x == [execution[k] EXCEPT !.st = st]
  <1>1. execution \in [Keys -> Execution] /\ execution' = [execution EXCEPT ![k] = x]
    BY DEF GenerationHolds, GenerationTypeOK, Execution, SetStatus
  <1>2. x \in Execution /\ x.st = st /\ x.config = execution[k].config
    BY <1>1 DEF Execution
  <1> HIDE DEF x
  <1>3. execution' \in [Keys -> Execution]
        /\ \A p \in Keys : execution'[p] = IF p = k THEN x ELSE execution[p]
    BY <1>1, <1>2
  <1>4. \A p \in Keys : Kept(p)
    BY <1>2, <1>3 DEF Kept
  <1>5. KeysHold'
    BY <1>2, <1>3 DEF GenerationHolds, KeysHold
  <1> QED BY <1>3, <1>4, <1>5 DEF GenerationHolds, GenerationTypeOK

LEMMA StatusKept ==
  ASSUME GenerationHolds, execution' = execution, started' = started
  PROVE  /\ execution' \in [Keys -> Execution] /\ started' \in [Keys -> Nat]
         /\ KeysHold' /\ \A p \in Keys : Kept(p)
  BY DEF GenerationHolds, GenerationTypeOK, KeysHold, Kept, Execution

LEMMA PlanHolds ==
  ASSUME GenerationHolds, NEW h \in Handlers, NEW k \in Keys, Plan(h, k)
  PROVE  GenerationHolds'
  <1>1. PICK E \in SUBSET Configs : E = {c \in Configs : cost[c] < Budget}
    OBVIOUS
  <1>2. PICK s \in GenerationState : s = [op |-> "planned", key |-> k, eligible |-> E]
    BY GenerationStates
  <1>3. Moves(h, s) /\ UNCHANGED drafts /\ cost' = cost /\ execution' = execution
        /\ started' = started /\ stale' = stale \ {h}
    BY <1>1, <1>2 DEF Plan, WithinBudget, drafts
  <1>4. BudgetOf(s)'
    BY <1>1, <1>2, <1>3 DEF BudgetOf
  <1> QED BY <1>2, <1>3, <1>4, StatusKept, QuietKept

LEMMA CreateHolds ==
  ASSUME GenerationHolds, NEW h \in Handlers, Create(h)
  PROVE  GenerationHolds'
  <1>1. PICK g \in GenerationState : g = generating[h] /\ g.op = "planned"
    BY DEF GenerationHolds, GenerationTypeOK, Create, Doing
  <1>2. PICK k \in Keys, E \in SUBSET Configs : k = g.key /\ E = g.eligible
    BY <1>1, GenerationShape
  <1>3. PICK D \in SUBSET Configs : D = (IF E = {} THEN Configs ELSE E) /\ D # {}
    BY GenerationFacts
  <1>4. PICK c \in D : c = Min(D)
    BY <1>3, GenerationFacts, LeastIsIn
  <1>5. PICK x \in Execution : x = [st |-> "running", config |-> c]
    BY DEF Execution, Statuses
  <1>6. /\ execution' = [execution EXCEPT ![k] = x] /\ execution[k].st = "none"
        /\ started' = IF E = {} THEN started ELSE [started EXCEPT ![k] = @ + 1]
        /\ cost' = cost /\ stale' = stale /\ UNCHANGED drafts
    BY <1>1, <1>2, <1>3, <1>4, <1>5 DEF Create, KeyOf, NewKey, drafts
  <1>7. execution \in [Keys -> Execution] /\ started \in [Keys -> Nat]
        /\ started[k] = 0
    BY <1>6 DEF GenerationHolds, GenerationTypeOK, KeysHold, Execution
  <1>8. /\ execution' \in [Keys -> Execution] /\ started' \in [Keys -> Nat]
        /\ \A p \in Keys : execution'[p] = IF p = k THEN x ELSE execution[p]
        /\ \A p \in Keys : p # k => started'[p] = started[p]
        /\ started'[k] <= 1
    BY <1>6, <1>7
  <1>9. KeysHold' /\ \A p \in Keys : Kept(p)
    BY <1>5, <1>6, <1>8 DEF GenerationHolds, KeysHold, Kept
  <1>10. CASE E = {}
    <2>1. PICK s \in GenerationState : s = [op |-> "blocked", key |-> k]
      BY GenerationStates
    <2>2. Moves(h, s) /\ BudgetOf(s)'
      BY <1>1, <1>2, <1>10, <2>1 DEF Create, KeyOf, BudgetOf
    <2> QED BY <1>6, <1>8, <1>9, <2>1, <2>2, QuietKept
  <1>11. CASE E # {}
    <2>1. PICK s \in GenerationState : s = [op |-> "calling", key |-> k, left |-> E, attempt |-> 1]
      BY GenerationStates, GenerationFacts
    <2>2. Moves(h, s)
      BY <1>1, <1>2, <1>11, <2>1 DEF Create, KeyOf
    <2>3. h \notin stale' => BudgetOf(s)'
      <3>1. h \notin stale => cost[c] < Budget
        BY <1>1, <1>2, <1>3, <1>11 DEF GenerationHolds, BudgetsHold, BudgetOf
      <3> QED BY <1>5, <1>6, <1>8, <2>1, <3>1 DEF BudgetOf
    <2> QED BY <1>6, <1>8, <1>9, <2>1, <2>2, <2>3, QuietKept
  <1> QED BY <1>10, <1>11

(* The steps of a request after its execution is created, but for its cost. *)
LEMMA RequestHolds ==
  ASSUME GenerationHolds, NEW h \in Handlers,
         Block(h) \/ Reuse(h) \/ StoreOutput(h) \/ WriteFails(h) \/ MarkFailed(h) \/ Dies(h)
  PROVE  GenerationHolds'
  <1>1. PICK g \in GenerationState : g = generating[h] /\ g.op # "idle"
    <2>1. generating[h] \in GenerationState /\ generating[h].op # "idle"
      BY GenerationShape DEF GenerationHolds, GenerationTypeOK, Doing,
         Block, Reuse, StoreOutput, WriteFails, MarkFailed, Dies
    <2> QED BY <2>1
  <1>2. PICK k \in Keys : k = g.key
    BY <1>1, GenerationShape
  <1>3. UNCHANGED drafts /\ cost' = cost /\ stale' = stale /\ started' = started
    BY DEF Block, Reuse, StoreOutput, WriteFails, MarkFailed, Dies, drafts
  <1>4. /\ execution' \in [Keys -> Execution] /\ started' \in [Keys -> Nat]
        /\ KeysHold' /\ \A p \in Keys : Kept(p)
    <2>1. CASE Reuse(h) \/ WriteFails(h) \/ Dies(h)
      BY <1>3, <2>1, StatusKept DEF Reuse, WriteFails, Dies
    <2>2. CASE Block(h) \/ StoreOutput(h) \/ MarkFailed(h)
      <3>1. PICK st \in Statuses \ {"none"} : SetStatus(k, st)
        BY <1>1, <1>2, <2>2 DEF Block, StoreOutput, MarkFailed, KeyOf, Statuses
      <3> QED BY <1>3, <3>1, StatusSet
    <2> QED BY <2>1, <2>2
  <1>5. PICK s \in GenerationState :
            /\ Moves(h, s) /\ s.op \in {"idle", "drafting", "stored", "failing"}
            /\ s.op = "stored" => s.key = k /\ g.op = "accepted"
    <2>1. CASE Block(h) \/ MarkFailed(h) \/ Dies(h)
      BY <2>1, GenerationStates DEF Block, MarkFailed, Dies
    <2>2. CASE Reuse(h)
      BY <1>1, <1>2, <2>2, GenerationStates DEF Reuse, KeyOf
    <2>3. CASE StoreOutput(h)
      BY <1>1, <1>2, <2>3, GenerationStates DEF StoreOutput, KeyOf, Doing
    <2>4. CASE WriteFails(h)
      BY <1>1, <1>2, <2>4, GenerationStates DEF WriteFails, KeyOf
    <2> QED BY <2>1, <2>2, <2>3, <2>4
  <1>6. h \notin stale' => BudgetOf(s)'
    <2>1. h \notin stale /\ s.op = "stored" => BudgetOf(g) /\ s.key = k /\ Kept(k)
      BY <1>1, <1>4, <1>5 DEF GenerationHolds, BudgetsHold
    <2> QED BY <1>2, <1>3, <1>5, <2>1 DEF BudgetOf, Kept
  <1> QED BY <1>3, <1>4, <1>5, <1>6, QuietKept

(* Where a call of a provider leads.                                       *)
LEMMA CallShape ==
  ASSUME GenerationTypeOK, NEW h \in Handlers, NEW outcome, CallProvider(h, outcome)
  PROVE  \E s \in GenerationState :
             /\ Moves(h, s) /\ s.key = KeyOf(h) /\ s.op \in {"accepted", "calling", "failing"}
  <1>1. PICK g \in GenerationState : g = generating[h] /\ g.op = "calling"
    BY DEF GenerationTypeOK, CallProvider
  <1>2. PICK k \in Keys, L \in SUBSET Configs, n \in 1..Attempts :
            /\ k = g.key /\ L = g.left /\ n = g.attempt
            /\ g = [op |-> "calling", key |-> k, left |-> L, attempt |-> n]
    <2>1. /\ g.key \in Keys /\ g.left \in SUBSET Configs /\ g.attempt \in 1..Attempts
          /\ g = [op |-> "calling", key |-> g.key, left |-> g.left, attempt |-> g.attempt]
      BY <1>1, GenerationShape
    <2> QED BY <2>1, Zenon
  <1>3. PICK s \in GenerationState :
            /\ Moves(h, s) /\ s.key = k /\ s.op \in {"accepted", "calling", "failing"}
    <2>1. CASE outcome = "output"
      BY <1>1, <1>2, <2>1, GenerationStates DEF CallProvider
    <2>2. CASE outcome # "output" /\ outcome = "retryable" /\ MayRetry(h)
      <3>1. n + 1 \in 1..Attempts
        BY <1>1, <1>2, <2>2, GenerationFacts DEF MayRetry
      <3>2. PICK s \in GenerationState : s = [op |-> "calling", key |-> k, left |-> L, attempt |-> n + 1]
        BY <3>1, GenerationStates
      <3>3. [g EXCEPT !.attempt = @ + 1] = s
        BY <1>2, <3>2
      <3>4. Moves(h, s)
        BY <1>1, <2>2, <3>3 DEF CallProvider
      <3> QED BY <3>2, <3>4
    <2>3. CASE outcome # "output" /\ ~(outcome = "retryable" /\ MayRetry(h))
      <3> DEFINE rest == L \ {Min(L)}
      <3>1. rest \in SUBSET Configs
        OBVIOUS
      <3>2. Moves(h, IF rest = {} THEN [op |-> "failing", key |-> k]
                     ELSE [op |-> "calling", key |-> k, left |-> rest, attempt |-> 1])
        BY <1>1, <1>2, <2>3 DEF CallProvider
      <3> HIDE DEF rest
      <3> QED BY <3>1, <3>2, GenerationStates, GenerationFacts
    <2> QED BY <2>1, <2>2, <2>3
  <1> QED BY <1>1, <1>2, <1>3 DEF KeyOf

LEMMA CallHolds ==
  ASSUME GenerationHolds, NEW h \in Handlers, NEW outcome, CallProvider(h, outcome)
  PROVE  GenerationHolds'
  <1>1. Doing(h) = "calling"
    BY DEF CallProvider, Doing
  <1>2. UNCHANGED drafts /\ cost' = cost /\ stale' = stale /\ started' = started
        /\ execution' = execution
    BY DEF CallProvider, drafts
  <1>3. PICK s \in GenerationState :
            /\ Moves(h, s) /\ s.key = KeyOf(h) /\ s.op \in {"accepted", "calling", "failing"}
    BY CallShape DEF GenerationHolds
  <1>4. h \notin stale' => BudgetOf(s)'
    BY <1>1, <1>2, <1>3 DEF GenerationHolds, BudgetsHold, BudgetOf, Doing, KeyOf
  <1> QED BY <1>2, <1>3, <1>4, StatusKept, QuietKept

LEMMA RecordCostHolds ==
  ASSUME GenerationHolds, NEW h \in Handlers, RecordCost(h)
  PROVE  GenerationHolds'
  <1>1. PICK g \in GenerationState : g = generating[h] /\ g.op = "stored"
    BY DEF GenerationHolds, GenerationTypeOK, RecordCost, Doing
  <1>2. PICK s \in GenerationState : s.op = "drafting" /\ Moves(h, s)
    BY <1>1, GenerationShape, GenerationStates DEF RecordCost, KeyOf
  <1>3. UNCHANGED drafts /\ execution' = execution /\ started' = started
        /\ stale' = {f \in Handlers : generating[f] # Idle /\ f # h} \cup stale
        /\ cost' = [cost EXCEPT ![execution[KeyOf(h)].config] = @ + 1]
    BY DEF RecordCost, drafts
  <1>4. Moved(h, s) /\ generating' \in [Handlers -> GenerationState]
    BY <1>2, MovesGives DEF GenerationHolds
  <1>5. cost' \in [Configs -> Nat]
    <2>1. PICK d : d = execution[KeyOf(h)].config
      OBVIOUS
    <2>2. cost' = [cost EXCEPT ![d] = @ + 1] /\ cost \in [Configs -> Nat]
      BY <1>3, <2>1 DEF GenerationHolds, GenerationTypeOK
    <2>3. CASE d \in Configs
      BY <2>2, <2>3
    <2>4. CASE d \notin Configs
      BY <2>2, <2>4
    <2> QED BY <2>3, <2>4
  <1>6. GenerationTypeOK'
    BY <1>3, <1>4, <1>5 DEF GenerationHolds, GenerationTypeOK, drafts
  <1>7. DraftsHold'
    BY <1>2, <1>3, <1>4, QuietDrafts DEF GenerationHolds
  <1>8. BudgetsHold'
    <2> SUFFICES ASSUME NEW f \in Handlers, f \notin stale' PROVE BudgetOf(generating[f])'
      BY DEF BudgetsHold
    <2>1. generating'[f] = s \/ generating'[f] = Idle
      BY <1>3, <1>4 DEF Moved
    <2> QED BY <1>2, <2>1, GenerationStates DEF BudgetOf
  <1>9. KeysHold'
    BY <1>3, StatusKept DEF GenerationHolds
  <1> QED BY <1>6, <1>7, <1>8, <1>9 DEF GenerationHolds

LEMMA FoundDraftHolds ==
  ASSUME GenerationHolds, NEW h \in Handlers,
         TakeDraft(h) \/ \E k \in Keys, i \in Draft : FindDraft(h, k, i)
  PROVE  GenerationHolds'
  <1>1. UNCHANGED drafts /\ cost' = cost /\ stale' = stale /\ started' = started
        /\ execution' = execution
    BY DEF TakeDraft, FindDraft, drafts
  <1>2. CASE TakeDraft(h)
    <2>1. PICK g \in GenerationState : g = generating[h] /\ g.op = "linking" /\ g.item <= Items
      BY <1>2 DEF GenerationHolds, GenerationTypeOK, TakeDraft
    <2>2. PICK k \in Keys, i \in Draft : g = [op |-> "linking", key |-> k, item |-> i]
      <3>1. /\ g.key \in Keys /\ g.item \in Draft
            /\ g = [op |-> "linking", key |-> g.key, item |-> g.item]
        BY <2>1, GenerationShape, GenerationFacts
      <3> QED BY <3>1, Zenon
    <2>3. PICK s \in GenerationState : s = [op |-> "linked", key |-> k, item |-> i]
      BY GenerationStates
    <2>4. [g EXCEPT !.op = "linked"] = s
      BY <2>2, <2>3
    <2>5. Moves(h, s) /\ draft[k][i] = "open"
      BY <1>2, <2>1, <2>2, <2>4 DEF TakeDraft, Undecided
    <2>6. BudgetOf(s)'
      BY <2>3 DEF BudgetOf
    <2>7. /\ s.op = "linked" /\ draft[s.key][s.item] = "open"
          /\ generating[h].op = "linking" /\ generating[h].key = s.key /\ generating[h].item = s.item
      BY <2>1, <2>2, <2>3, <2>5
    <2> QED BY <1>1, <2>5, <2>6, <2>7, StatusKept, QuietKept
  <1>3. CASE \E k \in Keys, i \in Draft : FindDraft(h, k, i)
    <2>1. PICK k \in Keys, i \in Draft : FindDraft(h, k, i)
      BY <1>3
    <2>2. PICK s \in GenerationState : s = [op |-> "saving", key |-> k, item |-> i]
      BY GenerationStates
    <2>3. Moves(h, s) /\ draft[k][i] = "open" /\ BudgetOf(s)'
      BY <2>1, <2>2 DEF FindDraft, Undecided, BudgetOf
    <2> QED BY <1>1, <2>2, <2>3, StatusKept, QuietKept
  <1> QED BY <1>2, <1>3

LEMMA DraftStepHolds ==
  ASSUME GenerationHolds, NEW h \in Handlers, MakeDrafts(h) \/ Accept(h) \/ MakeTest(h)
  PROVE  GenerationHolds'
  <1>1. GenerationTypeOK' /\ DraftsHold'
    BY MakeDraftsHold, AcceptHolds, MakeTestHolds DEF GenerationHolds
  <1>2. UNCHANGED <<execution, cost, stale, started>>
    BY DEF MakeDrafts, Accept, MakeTest
  <1>3. KeysHold'
    BY <1>2, StatusKept DEF GenerationHolds
  <1>4. \A g \in Handlers : \/ generating'[g] = generating[g]
                            \/ generating'[g].op \in {"idle", "linking"}
    <2>1. PICK s : Moves(h, s) /\ s.op \in {"idle", "linking"}
      <3>1. CASE MakeDrafts(h)
        BY <3>1, GenerationStates DEF MakeDrafts
      <3>2. CASE Accept(h)
        BY <3>2, GenerationStates DEF Accept
      <3>3. CASE MakeTest(h)
        BY <3>3, GenerationStates DEF MakeTest
      <3> QED BY <3>1, <3>2, <3>3
    <2> QED BY <2>1 DEF GenerationHolds, GenerationTypeOK, Moves
  <1>5. BudgetsHold'
    BY <1>2, <1>4 DEF GenerationHolds, BudgetsHold, BudgetOf
  <1> QED BY <1>1, <1>3, <1>5 DEF GenerationHolds

LEMMA GenerationStep ==
  ASSUME GenerationHolds, [GenerationNext]_generationVars
  PROVE  GenerationHolds'
  <1>1. CASE UNCHANGED generationVars
    <2>1. UNCHANGED <<execution, cost, draft, generating, stale, started, saved, tests, answered, raced>>
      BY <1>1 DEF generationVars
    <2>2. GenerationTypeOK'
      BY <2>1 DEF GenerationHolds, GenerationTypeOK
    <2>3. DraftsHold'
      <3> SUFFICES ASSUME NEW k \in Keys, NEW i \in Draft PROVE DraftHolds(k, i)'
        BY DEF DraftsHold
      <3>1. DraftHolds(k, i)
        BY DEF GenerationHolds, DraftsHold
      <3>2. Past(k, i)' = Past(k, i) /\ \A h \in Handlers : Accepting(h, k, i)' <=> Accepting(h, k, i)
        BY <2>1 DEF Past, Accepting, Doing, KeyOf
      <3> QED BY <2>1, <3>1, <3>2 DEF DraftHolds
    <2>4. KeysHold' /\ BudgetsHold'
      BY <2>1 DEF GenerationHolds, KeysHold, BudgetsHold, BudgetOf
    <2> QED BY <2>2, <2>3, <2>4 DEF GenerationHolds
  <1>2. ASSUME NEW h \in Handlers, NEW k \in Keys,
               Plan(h, k) \/ \E i \in Draft : FindDraft(h, k, i)
        PROVE  GenerationHolds'
    BY <1>2, PlanHolds, FoundDraftHolds
  <1>3. ASSUME NEW h \in Handlers, NEW outcome \in {"output", "retryable", "final"},
               CallProvider(h, outcome)
        PROVE  GenerationHolds'
    BY <1>3, CallHolds
  <1>4. ASSUME NEW h \in Handlers, Create(h) \/ RecordCost(h) \/ TakeDraft(h)
        PROVE  GenerationHolds'
    BY <1>4, CreateHolds, RecordCostHolds, FoundDraftHolds
  <1>5. ASSUME NEW h \in Handlers,
               \/ Block(h) \/ Reuse(h) \/ StoreOutput(h) \/ WriteFails(h) \/ MarkFailed(h) \/ Dies(h)
               \/ MakeDrafts(h) \/ Accept(h) \/ MakeTest(h)
        PROVE  GenerationHolds'
    BY <1>5, RequestHolds, DraftStepHolds
  <1> QED BY <1>1, <1>2, <1>3, <1>4, <1>5 DEF GenerationNext

(* Where the steps that write drafts lead.                                 *)
LEMMA DraftShape ==
  ASSUME GenerationTypeOK, NEW h \in Handlers,
         MakeDrafts(h) \/ TakeDraft(h) \/ Accept(h) \/ MakeTest(h)
  PROVE  /\ Doing(h) \in {"drafting", "linking", "linked", "saving"} /\ KeyOf(h) \in Keys
         /\ \E s \in GenerationState :
              /\ Moves(h, s)
              /\ \/ s = Idle
                 \/ /\ s.op = "linking" /\ s.key = KeyOf(h)
                    /\ KeyOf(h) \in TestKeys \/ Doing(h) = "linked"
                 \/ /\ s.op = "linked" /\ s.key = KeyOf(h) /\ s.item = generating[h].item
                    /\ Doing(h) = "linking"
  <1>1. Doing(h) \in {"drafting", "linking", "linked", "saving"}
    BY DEF MakeDrafts, TakeDraft, Accept, Accepting, MakeTest, Doing
  <1>2. PICK g \in GenerationState : g = generating[h]
    BY DEF GenerationTypeOK
  <1>3. /\ KeyOf(h) \in Keys
        /\ g.op \in {"linking", "linked", "saving"} =>
              /\ g = [op |-> g.op, key |-> g.key, item |-> g.item]
              /\ g.op = "linking" => g.item \in 1..(Items + 1)
              /\ g.op # "linking" => g.item \in Draft
    BY <1>1, <1>2, GenerationShape DEF Doing, KeyOf
  <1>4. CASE MakeDrafts(h)
    <2>1. CASE KeyOf(h) \in TestKeys
      <3>1. PICK s \in GenerationState : s = [op |-> "linking", key |-> KeyOf(h), item |-> 1]
        BY <1>3, GenerationStates, GenerationFacts
      <3>2. Moves(h, s)
        BY <1>4, <2>1, <3>1 DEF MakeDrafts
      <3> QED BY <1>1, <1>3, <2>1, <3>1, <3>2
    <2>2. CASE KeyOf(h) \notin TestKeys
      BY <1>1, <1>3, <1>4, <2>2, GenerationStates DEF MakeDrafts
    <2> QED BY <2>1, <2>2
  <1>5. CASE TakeDraft(h)
    <2>1. g.op = "linking" /\ g.item \in Draft /\ g.key = KeyOf(h)
      BY <1>2, <1>3, <1>5, GenerationFacts DEF TakeDraft, KeyOf
    <2>2. PICK s \in GenerationState : s = [op |-> "linked", key |-> g.key, item |-> g.item]
      BY <1>3, <2>1, GenerationStates
    <2>3. g = [op |-> "linking", key |-> g.key, item |-> g.item]
      BY <1>3, <2>1
    <2>4. [g EXCEPT !.op = "linked"] = s
      BY <2>2, <2>3
    <2>5. Moves(h, s)
      BY <1>2, <1>5, <2>4 DEF TakeDraft
    <2> QED BY <1>1, <1>2, <1>3, <2>1, <2>2, <2>5 DEF Doing
  <1>6. CASE Accept(h)
    <2>1. g.op \in {"saving", "linked"} /\ g.key = KeyOf(h) /\ g.item \in Draft
      BY <1>2, <1>3, <1>6 DEF Accept, Accepting, Doing, KeyOf
    <2>2. CASE g.op = "saving"
      BY <1>1, <1>2, <1>3, <1>6, <2>2, GenerationStates DEF Accept
    <2>3. CASE g.op = "linked"
      <3>1. PICK s \in GenerationState : s = [op |-> "linking", key |-> g.key, item |-> g.item + 1]
        BY <1>3, <2>1, GenerationStates, GenerationFacts
      <3>2. Moves(h, s)
        BY <1>2, <1>6, <2>1, <2>3, <3>1 DEF Accept
      <3> QED BY <1>1, <1>2, <1>3, <2>1, <2>3, <3>1, <3>2 DEF Doing
    <2> QED BY <2>1, <2>2, <2>3
  <1>7. CASE MakeTest(h)
    BY <1>1, <1>3, <1>7, GenerationStates DEF MakeTest
  <1> QED BY <1>4, <1>5, <1>6, <1>7

(* The worker on a key.                                                    *)
Workers == OneWorker /\ \A h \in Handlers : Doing(h) \in {"linking", "linked"} => KeyOf(h) \in TestKeys
Sound(k) == execution[k].st # "none" => execution[k].config \in Configs
OnlyWorker(h, k) == \A g \in Handlers : g # h /\ Doing(g) \in Working => KeyOf(g) # k

LEMMA WorkersMoved ==
  ASSUME GenerationTypeOK, Workers, NEW h \in Handlers, NEW s \in GenerationState, Moved(h, s),
         \A k \in Keys : Sound(k)',
         \A g \in Handlers : g # h /\ Doing(g) \in Working =>
             execution'[KeyOf(g)].st = execution[KeyOf(g)].st,
         s.op \in Working => execution'[s.key].st \in StatusAt(s.op) /\ OnlyWorker(h, s.key),
         s.op \in {"linking", "linked"} => s.key \in TestKeys
  PROVE  Workers'
  <1>1. /\ Doing(h)' = s.op /\ KeyOf(h)' = s.key
        /\ \A g \in Handlers : g # h => Doing(g)' = Doing(g) /\ KeyOf(g)' = KeyOf(g)
    BY DEF Moved, Doing, KeyOf
  <1>2. \A k \in Keys : execution'[k].st # "none" => execution'[k].config \in Configs
    BY DEF Sound
  <1>3. ASSUME NEW g \in Handlers, Doing(g)' \in Working
        PROVE  execution'[KeyOf(g)'].st \in StatusAt(Doing(g)')
    BY ONLY <1>1, <1>3, Workers, h \in Handlers,
       \A f \in Handlers : f # h /\ Doing(f) \in Working =>
           execution'[KeyOf(f)].st = execution[KeyOf(f)].st,
       s.op \in Working => execution'[s.key].st \in StatusAt(s.op)
    DEF Workers, OneWorker
  <1>4. ASSUME NEW f \in Handlers, NEW g \in Handlers,
               Doing(f)' \in Working, Doing(g)' \in Working, KeyOf(f)' = KeyOf(g)'
        PROVE  f = g
    BY ONLY <1>1, <1>4, Workers, h \in Handlers, s.op \in Working => OnlyWorker(h, s.key)
    DEF Workers, OneWorker, Works, OnlyWorker
  <1>5. \A g \in Handlers : Doing(g)' \in {"linking", "linked"} => KeyOf(g)' \in TestKeys
    BY <1>1 DEF Workers
  <1>6. OneWorker'
    BY <1>2, <1>3, <1>4 DEF OneWorker, Works
  <1> QED BY <1>5, <1>6 DEF Workers

LEMMA WorkerAlone ==
  ASSUME Workers, NEW h \in Handlers, Doing(h) \in Working
  PROVE  OnlyWorker(h, KeyOf(h))
  BY DEF Workers, OneWorker, Works, OnlyWorker

(* The steps that leave every execution as it is.                          *)
LEMMA WorkersQuiet ==
  ASSUME GenerationTypeOK, Workers, execution' = execution,
         NEW h \in Handlers, NEW s \in GenerationState, Moves(h, s),
         s.op \in Working => /\ Doing(h) \in Working /\ s.key = KeyOf(h)
                             /\ execution[s.key].st \in StatusAt(s.op),
         s.op \in {"linking", "linked"} => s.key \in TestKeys
  PROVE  Workers'
  <1>1. Moved(h, s)
    BY MovesGives
  <1>2. \A k \in Keys : Sound(k)'
    BY DEF Workers, OneWorker, Sound
  <1>3. s.op \in Working => execution'[s.key].st \in StatusAt(s.op) /\ OnlyWorker(h, s.key)
    BY WorkerAlone
  <1> QED BY <1>1, <1>2, <1>3, WorkersMoved

(* The steps that set the status of the key they work on.                  *)
LEMMA WorkersSet ==
  ASSUME GenerationTypeOK, Workers, NEW h \in Handlers, Doing(h) \in Working,
         NEW st \in Statuses, SetStatus(KeyOf(h), st), NEW s \in GenerationState, Moves(h, s),
         s = Idle \/ (s.op = "stored" /\ s.key = KeyOf(h) /\ st = "succeeded")
  PROVE  Workers'
  <1>1. Moved(h, s)
    BY MovesGives
  <1>2. PICK k \in Keys : k = KeyOf(h) /\ k = generating[h].key
    BY GenerationShape DEF GenerationTypeOK, Working, Doing, KeyOf
  <1>3. execution[k].st # "none"
    BY <1>2 DEF Workers, OneWorker, StatusAt
  <1>4. /\ \A p \in Keys : p # k => execution'[p] = execution[p]
        /\ execution'[k].st = st /\ execution'[k].config = execution[k].config
    BY <1>2 DEF SetStatus, GenerationTypeOK
  <1>5. \A p \in Keys : Sound(p)'
    BY <1>3, <1>4 DEF Workers, OneWorker, Sound
  <1>6. OnlyWorker(h, k)
    BY <1>2, WorkerAlone
  <1>7. ASSUME NEW g \in Handlers, g # h, Doing(g) \in Working
        PROVE  execution'[KeyOf(g)].st = execution[KeyOf(g)].st
    <2>1. KeyOf(g) \in Keys
      BY <1>7, GenerationShape DEF GenerationTypeOK, Working, Doing, KeyOf
    <2> QED BY <1>4, <1>6, <1>7, <2>1 DEF OnlyWorker
  <1>8. s.op \in Working => execution'[s.key].st \in StatusAt(s.op) /\ OnlyWorker(h, s.key)
    BY <1>2, <1>4, <1>6, GenerationStates DEF Working, StatusAt
  <1>9. ~(s.op \in {"linking", "linked"})
    BY GenerationStates
  <1> QED BY <1>1, <1>5, <1>7, <1>8, <1>9, WorkersMoved

(* The execution that is created.                                          *)
LEMMA CreateShape ==
  ASSUME GenerationTypeOK, NEW h \in Handlers, Create(h)
  PROVE  \E k \in Keys, E \in SUBSET Configs, c \in Configs, s \in GenerationState :
            /\ k = KeyOf(h) /\ E = generating[h].eligible /\ Moves(h, s) /\ s.key = k
            /\ \/ E = {} /\ s.op = "blocked"
               \/ E # {} /\ s.op = "calling" /\ c \in E
            /\ execution[k].st = "none"
            /\ execution' = [execution EXCEPT ![k] = [st |-> "running", config |-> c]]
  <1>1. PICK g \in GenerationState : g = generating[h] /\ g.op = "planned"
    BY DEF GenerationTypeOK, Create, Doing
  <1>2. PICK k \in Keys, E \in SUBSET Configs : k = g.key /\ E = g.eligible
    BY <1>1, GenerationShape
  <1>3. PICK D \in SUBSET Configs : D = (IF E = {} THEN Configs ELSE E) /\ D # {}
    BY GenerationFacts
  <1>4. PICK c \in D : c = Min(D)
    BY <1>3, GenerationFacts, LeastIsIn
  <1>5. PICK x \in Execution : x = [st |-> "running", config |-> c]
    BY DEF Execution, Statuses
  <1>6. execution' = [execution EXCEPT ![k] = x] /\ execution[k].st = "none"
    BY <1>1, <1>2, <1>3, <1>4, <1>5 DEF Create, KeyOf, NewKey
  <1>7. PICK s \in GenerationState :
            /\ Moves(h, s) /\ s.key = k
            /\ (E = {} /\ s.op = "blocked") \/ (E # {} /\ s.op = "calling")
    <2>1. CASE E = {}
      BY <1>1, <1>2, <2>1, GenerationStates DEF Create, KeyOf
    <2>2. CASE E # {}
      <3>1. PICK s \in GenerationState : s = [op |-> "calling", key |-> k, left |-> E, attempt |-> 1]
        BY GenerationStates, GenerationFacts
      <3> QED BY <1>1, <1>2, <2>2, <3>1 DEF Create, KeyOf
    <2> QED BY <2>1, <2>2
  <1> QED BY <1>1, <1>2, <1>3, <1>5, <1>6, <1>7 DEF KeyOf

LEMMA WorkersCreate ==
  ASSUME GenerationTypeOK, Workers, NEW h \in Handlers, Create(h)
  PROVE  Workers'
  <1>1. PICK k \in Keys, c \in Configs, s \in GenerationState :
            /\ Moves(h, s) /\ s.key = k /\ s.op \in {"blocked", "calling"}
            /\ execution[k].st = "none"
            /\ execution' = [execution EXCEPT ![k] = [st |-> "running", config |-> c]]
    BY CreateShape
  <1>2. \A p \in Keys : execution'[p] =
            IF p = k THEN [st |-> "running", config |-> c] ELSE execution[p]
    BY <1>1 DEF GenerationTypeOK
  <1>3. Moved(h, s)
    BY <1>1, MovesGives
  <1>4. ASSUME NEW f \in Handlers, Doing(f) \in Working
        PROVE  KeyOf(f) \in Keys /\ KeyOf(f) # k
    <2>1. KeyOf(f) \in Keys
      BY <1>4, GenerationShape DEF GenerationTypeOK, Working, Doing, KeyOf
    <2> QED BY <1>1, <1>4, <2>1 DEF Workers, OneWorker, StatusAt
  <1>5. \A p \in Keys : Sound(p)'
    BY <1>2 DEF Workers, OneWorker, Sound
  <1>6. execution'[s.key].st \in StatusAt(s.op) /\ OnlyWorker(h, s.key)
    BY <1>1, <1>2, <1>4 DEF StatusAt, OnlyWorker
  <1>7. \A f \in Handlers : f # h /\ Doing(f) \in Working =>
            execution'[KeyOf(f)].st = execution[KeyOf(f)].st
    BY <1>2, <1>4
  <1>8. ~(s.op \in {"linking", "linked"})
    BY <1>1
  <1> QED BY <1>3, <1>5, <1>6, <1>7, <1>8, WorkersMoved

LEMMA WorkersStep ==
  ASSUME GenerationTypeOK, Workers, [GenerationNext]_generationVars
  PROVE  Workers'
  <1>1. CASE UNCHANGED generationVars
    BY <1>1 DEF generationVars, Workers, OneWorker, Works, Doing, KeyOf
  <1>2. ASSUME NEW h \in Handlers, Doing(h) \in Working
        PROVE  /\ generating[h] \in GenerationState /\ KeyOf(h) \in Keys
               /\ execution[KeyOf(h)].st \in StatusAt(Doing(h))
    BY <1>2, GenerationShape DEF GenerationTypeOK, Working, Doing, KeyOf, Workers, OneWorker
  <1>3. ASSUME NEW h \in Handlers, NEW k \in Keys,
               Plan(h, k) \/ \E i \in Draft : FindDraft(h, k, i)
        PROVE  Workers'
    <2>1. execution' = execution
      BY <1>3 DEF Plan, FindDraft
    <2>2. PICK s \in GenerationState : Moves(h, s) /\ s.op \in {"planned", "saving"}
      <3>1. {c \in Configs : WithinBudget(c)} \in SUBSET Configs
        OBVIOUS
      <3> DEFINE E == {c \in Configs : WithinBudget(c)}
      <3> HIDE DEF E
      <3>2. [op |-> "planned", key |-> k, eligible |-> E] \in GenerationState
        BY <3>1, GenerationStates DEF E
      <3>3. CASE Plan(h, k)
        BY <3>2, <3>3 DEF Plan, E
      <3>4. CASE \E i \in Draft : FindDraft(h, k, i)
        BY <3>4, GenerationStates DEF FindDraft
      <3> QED BY <1>3, <3>3, <3>4
    <2> QED BY <2>1, <2>2, WorkersQuiet DEF Working
  <1>4. ASSUME NEW h \in Handlers, Reuse(h) \/ RecordCost(h) \/ Dies(h) PROVE Workers'
    <2>1. execution' = execution
      BY <1>4 DEF Reuse, RecordCost, Dies
    <2>2. generating[h] \in GenerationState /\ (Doing(h) # "idle" => KeyOf(h) \in Keys)
      BY GenerationShape DEF GenerationTypeOK, Doing, KeyOf
    <2>3. PICK s \in GenerationState : Moves(h, s) /\ s.op \in {"idle", "drafting"}
      BY <1>4, <2>2, GenerationStates DEF Reuse, RecordCost, Dies
    <2>4. ~(s.op \in Working) /\ ~(s.op \in {"linking", "linked"})
      BY <2>3 DEF Working
    <2> QED BY <2>1, <2>3, <2>4, WorkersQuiet
  <1>5. ASSUME NEW h \in Handlers, WriteFails(h) PROVE Workers'
    <2>1. execution' = execution /\ Doing(h) \in {"accepted", "stored"} /\ Doing(h) \in Working
      BY <1>5 DEF WriteFails, Working
    <2>2. PICK s \in GenerationState : Moves(h, s) /\ s.op = "failing" /\ s.key = KeyOf(h)
      BY <1>2, <1>5, <2>1, GenerationStates DEF WriteFails
    <2>3. execution[s.key].st \in StatusAt(s.op)
      BY <1>2, <2>1, <2>2 DEF StatusAt
    <2> QED BY <2>1, <2>2, <2>3, WorkersQuiet
  <1>6. ASSUME NEW h \in Handlers, NEW outcome, CallProvider(h, outcome) PROVE Workers'
    <2>1. execution' = execution /\ Doing(h) = "calling" /\ Doing(h) \in Working
      BY <1>6 DEF CallProvider, Doing, Working
    <2>2. PICK s \in GenerationState :
              Moves(h, s) /\ s.op \in {"accepted", "calling", "failing"} /\ s.key = KeyOf(h)
      BY <1>6, CallShape
    <2>3. execution[s.key].st \in StatusAt(s.op)
      BY <1>2, <2>1, <2>2 DEF StatusAt
    <2> QED BY <2>1, <2>2, <2>3, WorkersQuiet
  <1>7. ASSUME NEW h \in Handlers, Block(h) \/ StoreOutput(h) \/ MarkFailed(h) PROVE Workers'
    <2>1. Doing(h) \in Working
      BY <1>7 DEF Block, StoreOutput, MarkFailed, Working
    <2>2. CASE Block(h) \/ MarkFailed(h)
      <3>1. PICK st \in Statuses : SetStatus(KeyOf(h), st)
        BY <2>2 DEF Block, MarkFailed, Statuses
      <3>2. PICK s \in GenerationState : s = Idle /\ Moves(h, s)
        BY <2>2, GenerationStates DEF Block, MarkFailed
      <3> QED BY <2>1, <3>1, <3>2, WorkersSet
    <2>3. CASE StoreOutput(h)
      <3>1. PICK s \in GenerationState : Moves(h, s) /\ s.op = "stored" /\ s.key = KeyOf(h)
        BY <1>2, <2>1, <2>3, GenerationStates DEF StoreOutput
      <3>2. PICK st \in Statuses : st = "succeeded" /\ SetStatus(KeyOf(h), st)
        BY <2>3 DEF StoreOutput, Statuses
      <3> QED BY <2>1, <3>1, <3>2, WorkersSet
    <2> QED BY <1>7, <2>2, <2>3
  <1>8. ASSUME NEW h \in Handlers,
               MakeDrafts(h) \/ TakeDraft(h) \/ Accept(h) \/ MakeTest(h)
        PROVE  Workers'
    <2>1. execution' = execution
      BY <1>8 DEF MakeDrafts, TakeDraft, Accept, MakeTest
    <2>2. PICK s \in GenerationState :
            /\ Moves(h, s) /\ s.op \in {"idle", "linking", "linked"}
            /\ s.op # "idle" => s.key \in TestKeys
      BY <1>8, DraftShape, GenerationStates DEF Workers
    <2> QED BY <2>1, <2>2, WorkersQuiet DEF Working
  <1> QED BY <1>1, <1>3, <1>4, <1>5, <1>6, <1>7, <1>8, WorkersCreate DEF GenerationNext

LEMMA GenerationAlways == GenerationSpec => [](GenerationHolds /\ Workers)
  <1>1. GenerationInit => GenerationHolds /\ Workers
    <2>1. GenerationInit => BudgetsHold
      BY GenerationStates DEF GenerationInit, BudgetsHold, BudgetOf
    <2>2. GenerationInit => Workers
      <3> SUFFICES ASSUME GenerationInit PROVE Workers
        OBVIOUS
      <3>1. \A h \in Handlers : Doing(h) = "idle"
        BY GenerationStates DEF GenerationInit, Doing
      <3>2. \A k \in Keys : execution[k].st = "none"
        BY DEF GenerationInit
      <3> QED BY <3>1, <3>2 DEF Workers, OneWorker, Works, Working
    <2> QED BY <2>1, <2>2, GenerationStart DEF GenerationHolds
  <1>2. GenerationHolds /\ Workers /\ [GenerationNext]_generationVars => GenerationHolds' /\ Workers'
    BY GenerationStep, WorkersStep DEF GenerationHolds
  <1> QED BY <1>1, <1>2, PTL DEF GenerationSpec

LEMMA GenerationParts ==
  GenerationHolds /\ Workers => GenerationInv
  <1> SUFFICES ASSUME GenerationTypeOK, DraftsHold, KeysHold, BudgetsHold, Workers PROVE GenerationInv
    BY DEF GenerationHolds
  <1>1. \A k \in Keys, i \in Draft : saved[k][i] \in Nat /\ tests[k] \in Nat
    BY DEF GenerationTypeOK
  <1>2. DraftUsedOnce
    <2> SUFFICES ASSUME NEW k \in Keys, NEW i \in Draft
                 PROVE  (<<k, i>> \notin raced => saved[k][i] <= 1) /\ tests[k] <= saved[k][i]
      BY DEF DraftUsedOnce
    <2> QED BY <1>1, PastFinite DEF DraftsHold, DraftHolds
  <1>3. DraftsStay
    <2>1. answered \subseteq Keys
      BY DEF GenerationTypeOK
    <2> QED BY <2>1 DEF DraftsHold, DraftHolds, DraftsStay
  <1>4. OneGeneration
    BY DEF KeysHold, OneGeneration
  <1>5. BudgetKnown
    BY DEF BudgetsHold, BudgetOf, BudgetKnown, Doing, KeyOf
  <1>6. /\ \A k \in Keys : execution[k].st = "none" => started[k] = 0
        /\ \A k \in Keys, i \in Draft : <<k, i>> \notin raced =>
              /\ draft[k][i] # "accepted" => saved[k][i] = 0
              /\ \A h \in Handlers : Accepting(h, k, i) => draft[k][i] = "open"
    BY DEF KeysHold, DraftsHold, DraftHolds
  <1> QED BY <1>2, <1>3, <1>4, <1>5, <1>6 DEF GenerationInv, Workers

(* For any number of keys, requests, providers and drafts: a key asks for  *)
(* one generation, drafts that were returned stay, and a draft gives one   *)
(* question, whatever is repeated and wherever servers die.                *)
THEOREM GenerationInvariant == GenerationSpec => []GenerationInv
  <1>1. GenerationHolds /\ Workers => GenerationInv
    BY GenerationParts
  <1> QED BY <1>1, GenerationAlways, PTL

(* A configuration goes past its budget only for a request that checked it *)
(* before the cost of another one was recorded.                            *)
THEOREM BudgetKept == GenerationSpec => BudgetHolds
  <1> DEFINE Within == \A h \in Handlers :
        generating[h].op = "stored" /\ h \notin stale /\ cost' # cost /\ generating'[h] # generating[h]
            => \A c \in Configs : cost'[c] # cost[c] => cost'[c] <= Budget
  <1>1. GenerationHolds /\ [GenerationNext]_generationVars => Within
    <2> SUFFICES ASSUME GenerationHolds, [GenerationNext]_generationVars, NEW h \in Handlers,
                        generating[h].op = "stored", h \notin stale, cost' # cost,
                        generating'[h] # generating[h], NEW c \in Configs, cost'[c] # cost[c]
                 PROVE  cost'[c] <= Budget
      OBVIOUS
    <2>1. PICK f \in Handlers : RecordCost(f)
      BY DEF GenerationNext, generationVars, Plan, FindDraft, Create, Block, Reuse, CallProvider,
         StoreOutput, WriteFails, MarkFailed, Dies, MakeDrafts, TakeDraft, Accept, MakeTest
    <2>2. f = h
      BY <2>1 DEF RecordCost, Moves, GenerationHolds, GenerationTypeOK
    <2>3. PICK d \in Configs : d = execution[generating[h].key].config /\ cost[d] < Budget
      BY DEF GenerationHolds, BudgetsHold, BudgetOf
    <2>4. cost \in [Configs -> Nat] /\ cost' = [cost EXCEPT ![d] = @ + 1]
      BY <2>1, <2>2, <2>3 DEF RecordCost, KeyOf, GenerationHolds, GenerationTypeOK
    <2> QED BY <2>3, <2>4, GenerationFacts
  <1> QED BY <1>1, GenerationAlways, PTL DEF GenerationSpec, BudgetHolds

-----------------------------------------------------------------------------
(* The promise of GenerationContract.  What a step of one handler does to  *)
(* what the handlers together are seen to ask, to return and to take.      *)
SameSeen(h) == \A g \in Handlers : g # h => (g \in stale' <=> g \in stale)

LEMMA MovedOthers ==
  ASSUME NEW h \in Handlers, NEW s \in GenerationState, Moved(h, s)
  PROVE  /\ Doing(h)' = s.op /\ KeyOf(h)' = s.key
         /\ \A g \in Handlers : g # h =>
               /\ generating'[g] = generating[g]
               /\ Doing(g)' = Doing(g) /\ KeyOf(g)' = KeyOf(g)
  BY DEF Moved, Doing, KeyOf

LEMMA AskedMoved ==
  ASSUME NEW h \in Handlers, NEW s \in GenerationState, Moved(h, s), SameSeen(h)
  PROVE  /\ s.op # "planned" => Asked' \in {Asked, Asked \ {<<Seen(h), KeyOf(h)>>}}
         /\ s.op # "planned" /\ Doing(h) # "planned" => Asked' = Asked
         /\ s.op = "planned" /\ Doing(h) # "planned" /\ h \notin stale' =>
               Asked' = Asked \cup {<<"fresh", s.key>>}
  <1> DEFINE Before(g, x) == Doing(g) = "planned" /\ x = <<Seen(g), KeyOf(g)>>
             After(g, x) == Doing(g)' = "planned" /\ x = <<Seen(g)', KeyOf(g)'>>
  <1>1. \A x : x \in Asked <=> \E g \in Handlers : Before(g, x)
    BY DEF Asked
  <1>2. \A x : x \in Asked' <=> \E g \in Handlers : After(g, x)
    BY DEF Asked
  <1>3. \A x : \A g \in Handlers : g # h => (After(g, x) <=> Before(g, x))
    BY MovedOthers DEF SameSeen, Seen
  <1>4. \A x : Before(h, x) => Doing(h) = "planned" /\ x = <<Seen(h), KeyOf(h)>>
    OBVIOUS
  <1>5. \A x : After(h, x) <=> s.op = "planned" /\ x = <<Seen(h)', s.key>>
    BY MovedOthers
  <1>6. h \notin stale' => Seen(h)' = "fresh"
    BY DEF Seen
  <1> DEFINE A == Asked B == Asked' me == <<Seen(h), KeyOf(h)>> you == <<Seen(h)', s.key>>
  <1>7. h \notin stale' => you = <<"fresh", s.key>>
    BY <1>6
  <1>8. s.op # "planned" => B \in {A, A \ {me}}
    <2> HIDE DEF Before, After, A, B, me
    <2> SUFFICES ASSUME s.op # "planned" PROVE B \in {A, A \ {me}}
      OBVIOUS
    <2>1. \A x : x \in B => x \in A
      BY <1>1, <1>2, <1>3, <1>5 DEF A, B
    <2>2. \A x : x \in A /\ x # me => x \in B
      BY <1>1, <1>2, <1>3, <1>4 DEF A, B, me
    <2> QED BY <2>1, <2>2
  <1>9. s.op # "planned" /\ Doing(h) # "planned" => B = A
    <2> HIDE DEF Before, After, A, B
    <2>1. s.op # "planned" /\ Doing(h) # "planned" => \A x : x \in B <=> x \in A
      BY <1>1, <1>2, <1>3, <1>4, <1>5 DEF A, B
    <2> QED BY <2>1
  <1>10. s.op = "planned" /\ Doing(h) # "planned" => B = A \cup {you}
    <2> HIDE DEF Before, After, A, B, you
    <2>1. s.op = "planned" /\ Doing(h) # "planned" => \A x : x \in B <=> x \in A \/ x = you
      BY <1>1, <1>2, <1>3, <1>4, <1>5 DEF A, B, you
    <2> QED BY <2>1
  <1> QED BY <1>7, <1>8, <1>9, <1>10

LEMMA ReturningMoved ==
  ASSUME NEW h \in Handlers, NEW s \in GenerationState, Moved(h, s)
  PROVE  /\ s.op # "drafting" => Returning' \in {Returning, Returning \ {KeyOf(h)}}
         /\ s.op # "drafting" /\ Doing(h) # "drafting" => Returning' = Returning
         /\ s.op = "drafting" /\ Doing(h) # "drafting" => Returning' = Returning \cup {s.key}
  <1> DEFINE Before(g, x) == Doing(g) = "drafting" /\ x = KeyOf(g)
             After(g, x) == Doing(g)' = "drafting" /\ x = KeyOf(g)'
  <1>1. \A x : x \in Returning <=> \E g \in Handlers : Before(g, x)
    BY DEF Returning
  <1>2. \A x : x \in Returning' <=> \E g \in Handlers : After(g, x)
    BY DEF Returning
  <1>3. \A x : \A g \in Handlers : g # h => (After(g, x) <=> Before(g, x))
    BY MovedOthers
  <1>4. \A x : Before(h, x) => Doing(h) = "drafting" /\ x = KeyOf(h)
    OBVIOUS
  <1>5. \A x : After(h, x) <=> s.op = "drafting" /\ x = s.key
    BY MovedOthers
  <1> DEFINE A == Returning B == Returning' me == KeyOf(h)
  <1>6. s.op # "drafting" => B \in {A, A \ {me}}
    <2> HIDE DEF Before, After, A, B, me
    <2> SUFFICES ASSUME s.op # "drafting" PROVE B \in {A, A \ {me}}
      OBVIOUS
    <2>1. \A x : x \in B => x \in A
      BY <1>1, <1>2, <1>3, <1>5 DEF A, B
    <2>2. \A x : x \in A /\ x # me => x \in B
      BY <1>1, <1>2, <1>3, <1>4 DEF A, B, me
    <2> QED BY <2>1, <2>2
  <1>7. s.op # "drafting" /\ Doing(h) # "drafting" => B = A
    <2> HIDE DEF Before, After, A, B
    <2>1. s.op # "drafting" /\ Doing(h) # "drafting" => \A x : x \in B <=> x \in A
      BY <1>1, <1>2, <1>3, <1>4, <1>5 DEF A, B
    <2> QED BY <2>1
  <1>8. s.op = "drafting" /\ Doing(h) # "drafting" => B = A \cup {s.key}
    <2> HIDE DEF Before, After, A, B
    <2>1. s.op = "drafting" /\ Doing(h) # "drafting" => \A x : x \in B <=> x \in A \/ x = s.key
      BY <1>1, <1>2, <1>3, <1>4, <1>5 DEF A, B
    <2> QED BY <2>1
  <1> QED BY <1>6, <1>7, <1>8

LEMMA TakingMoved ==
  ASSUME NEW h \in Handlers, NEW s \in GenerationState, Moved(h, s)
  PROVE  LET me == <<KeyOf(h), generating[h].item>> saving == {"saving", "linked"} IN
         /\ s.op \notin saving => Taking' \in {Taking, Taking \ {me}}
         /\ s.op \notin saving /\ Doing(h) \notin saving => Taking' = Taking
         /\ s.op \in saving /\ Doing(h) \notin saving => Taking' = Taking \cup {<<s.key, s.item>>}
  <1> DEFINE saving == {"saving", "linked"}
             me == <<KeyOf(h), generating[h].item>>
             you == <<s.key, s.item>>
             Before(g, x) == Doing(g) \in saving /\ x = <<KeyOf(g), generating[g].item>>
             After(g, x) == Doing(g)' \in saving /\ x = <<KeyOf(g)', generating'[g].item>>
  <1>1. \A x : x \in Taking <=> \E g \in Handlers : Before(g, x)
    BY DEF Taking
  <1>2. \A x : x \in Taking' <=> \E g \in Handlers : After(g, x)
    BY DEF Taking
  <1>3. \A x : \A g \in Handlers : g # h => (After(g, x) <=> Before(g, x))
    BY MovedOthers
  <1>4. \A x : Before(h, x) => Doing(h) \in saving /\ x = me
    OBVIOUS
  <1>5. \A x : After(h, x) <=> s.op \in saving /\ x = you
    BY MovedOthers DEF Moved
  <1> DEFINE A == Taking B == Taking'
  <1>6. s.op \notin saving => B \in {A, A \ {me}}
    <2> HIDE DEF Before, After, A, B, me, saving
    <2> SUFFICES ASSUME s.op \notin saving PROVE B \in {A, A \ {me}}
      OBVIOUS
    <2>1. \A x : x \in B => x \in A
      BY <1>1, <1>2, <1>3, <1>5 DEF A, B
    <2>2. \A x : x \in A /\ x # me => x \in B
      BY <1>1, <1>2, <1>3, <1>4 DEF A, B
    <2> QED BY <2>1, <2>2
  <1>7. s.op \notin saving /\ Doing(h) \notin saving => B = A
    <2> HIDE DEF Before, After, A, B, saving
    <2>1. s.op \notin saving /\ Doing(h) \notin saving => \A x : x \in B <=> x \in A
      BY <1>1, <1>2, <1>3, <1>4, <1>5 DEF A, B
    <2> QED BY <2>1
  <1>8. s.op \in saving /\ Doing(h) \notin saving => B = A \cup {you}
    <2> HIDE DEF Before, After, A, B, you, saving
    <2>1. s.op \in saving /\ Doing(h) \notin saving => \A x : x \in B <=> x \in A \/ x = you
      BY <1>1, <1>2, <1>3, <1>4, <1>5 DEF A, B
    <2> QED BY <2>1
  <1> QED BY <1>6, <1>7, <1>8

(* The task of a key is that of its worker.                                *)
TaskFacts ==
  /\ \A h \in Handlers : Doing(h) \in Working => TaskOf(KeyOf(h)) = TaskAt(Doing(h))
  /\ \A k \in Keys : (\A h \in Handlers : ~Works(h, k)) => TaskOf(k) = "none"

LEMMA TaskIs == OneWorker => TaskFacts
  <1> SUFFICES ASSUME OneWorker PROVE TaskFacts
    OBVIOUS
  <1>1. ASSUME NEW h \in Handlers, Doing(h) \in Working
        PROVE  TaskOf(KeyOf(h)) = TaskAt(Doing(h))
    <2> DEFINE W == {g \in Handlers : Works(g, KeyOf(h))}
    <2>1. W = {h}
      BY <1>1 DEF OneWorker, Works
    <2>2. W # {} /\ (CHOOSE g \in W : TRUE) = h
      BY <2>1
    <2>3. TaskOf(KeyOf(h)) = IF W = {} THEN "none" ELSE TaskAt(Doing(CHOOSE g \in W : TRUE))
      BY DEF TaskOf
    <2> HIDE DEF W
    <2> QED BY <2>2, <2>3
  <1>2. ASSUME NEW k \in Keys, \A h \in Handlers : ~Works(h, k)
        PROVE  TaskOf(k) = "none"
    BY <1>2 DEF TaskOf
  <1> QED BY <1>1, <1>2 DEF TaskFacts

LEMMA TaskMoved ==
  ASSUME GenerationTypeOK, Workers, Workers',
         NEW h \in Handlers, NEW s \in GenerationState, Moved(h, s)
  PROVE  /\ s.op \notin Working /\ Doing(h) \notin Working => Task' = Task
         /\ s.op \notin Working /\ Doing(h) \in Working => Task' = [Task EXCEPT ![KeyOf(h)] = "none"]
         /\ s.op \in Working /\ (Doing(h) \in Working => KeyOf(h) = s.key) =>
               Task' = [Task EXCEPT ![s.key] = TaskAt(s.op)]
         /\ Doing(h) \in Working => Task[KeyOf(h)] = TaskAt(Doing(h))
  <1>1. /\ Doing(h)' = s.op /\ KeyOf(h)' = s.key
        /\ \A g \in Handlers : g # h => Doing(g)' = Doing(g) /\ KeyOf(g)' = KeyOf(g)
    BY MovedOthers
  <1>2. TaskFacts
    BY TaskIs DEF Workers
  <1>3. TaskFacts'
    <2>1. (OneWorker => TaskFacts)'
      BY TaskIs, PTL
    <2> QED BY <2>1 DEF Workers
  <1>4. \A f, g \in Handlers : Doing(f) \in Working /\ Works(g, KeyOf(f)) => f = g
    BY DEF Workers, OneWorker
  <1>5. ASSUME NEW k \in Keys, ~(s.op \in Working /\ s.key = k), ~Works(h, k)
        PROVE  TaskOf(k)' = TaskOf(k)
    <2>1. CASE \E g \in Handlers : Works(g, k)
      <3>1. PICK g \in Handlers : Works(g, k)
        BY <2>1
      <3>2. g # h /\ Doing(g) \in Working /\ KeyOf(g) = k /\ Doing(g)' = Doing(g) /\ KeyOf(g)' = k
        BY <1>1, <1>5, <3>1 DEF Works
      <3>3. TaskAt(Doing(g))' = TaskAt(Doing(g))
        BY <3>2 DEF TaskAt
      <3>4. TaskOf(KeyOf(g)) = TaskAt(Doing(g))
        BY <1>2, <3>2 DEF TaskFacts
      <3>5. TaskOf(KeyOf(g))' = TaskAt(Doing(g))'
        BY <1>3, <3>2 DEF TaskFacts
      <3>6. TaskOf(KeyOf(g))' = TaskOf(k)'
        BY <3>2 DEF TaskOf
      <3> QED BY <3>2, <3>3, <3>4, <3>5, <3>6
    <2>2. CASE \A g \in Handlers : ~Works(g, k)
      <3>1. \A g \in Handlers : ~Works(g, k)'
        BY <1>1, <1>5, <2>2 DEF Works
      <3> QED BY <1>2, <1>3, <2>2, <3>1 DEF TaskFacts
    <2> QED BY <2>1, <2>2
  <1>6. ASSUME NEW k \in Keys, s.op \in Working, s.key = k
        PROVE  TaskOf(k)' = TaskAt(s.op)
    <2>1. TaskOf(KeyOf(h))' = TaskAt(Doing(h))'
      BY <1>1, <1>3, <1>6 DEF TaskFacts
    <2>2. TaskOf(KeyOf(h))' = TaskOf(k)' /\ TaskAt(Doing(h))' = TaskAt(s.op)
      BY <1>1, <1>6 DEF TaskOf, TaskAt
    <2> QED BY <2>1, <2>2
  <1>7. ASSUME NEW k \in Keys, s.op \notin Working, Works(h, k)
        PROVE  TaskOf(k)' = "none"
    <2>1. \A g \in Handlers : ~Works(g, k)'
      BY <1>1, <1>4, <1>7 DEF Works
    <2> QED BY <1>3, <2>1 DEF TaskFacts
  <1>8. /\ Task = [k \in Keys |-> TaskOf(k)] /\ Task' = [k \in Keys |-> TaskOf(k)']
        /\ \A k \in Keys : Works(h, k) <=> Doing(h) \in Working /\ KeyOf(h) = k
        /\ Doing(h) \in Working => KeyOf(h) \in Keys
        /\ s.op \in Working => s.key \in Keys
    BY GenerationShape DEF Task, Works, GenerationTypeOK, Working, Doing, KeyOf
  <1>9. s.op \notin Working /\ Doing(h) \notin Working => Task' = Task
    BY <1>5, <1>8
  <1>10. s.op \notin Working /\ Doing(h) \in Working => Task' = [Task EXCEPT ![KeyOf(h)] = "none"]
    BY <1>5, <1>7, <1>8
  <1>11. s.op \in Working /\ (Doing(h) \in Working => KeyOf(h) = s.key) =>
               Task' = [Task EXCEPT ![s.key] = TaskAt(s.op)]
    BY <1>5, <1>6, <1>8
  <1>12. Doing(h) \in Working => Task[KeyOf(h)] = TaskAt(Doing(h))
    BY <1>2, <1>8 DEF TaskFacts
  <1> QED BY <1>9, <1>10, <1>11, <1>12

LEMMA LateMoved ==
  ASSUME GenerationTypeOK, Workers, NEW h \in Handlers, NEW s \in GenerationState, Moved(h, s),
         SameSeen(h), stale' \subseteq Handlers
  PROVE  /\ s.op \notin Working /\ Doing(h) \notin Working => LateKeys' = LateKeys
         /\ s.op \notin Working /\ Doing(h) \in Working => LateKeys' = LateKeys \ {KeyOf(h)}
         /\ s.op \in Working /\ Doing(h) \in Working /\ KeyOf(h) = s.key
                /\ (h \in stale' <=> h \in stale) => LateKeys' = LateKeys
         /\ s.op \in Working /\ Doing(h) \notin Working /\ (h \in stale' <=> h \in stale) =>
                LateKeys' = IF h \in stale THEN LateKeys \cup {s.key} ELSE LateKeys
  <1> DEFINE Before(g, k) == g \in stale /\ Works(g, k)
             After(g, k) == g \in stale' /\ Works(g, k)'
             L == LateKeys M == LateKeys'
  <1>1. \A k : k \in L <=> k \in Keys /\ \E g \in Handlers : Before(g, k)
    BY DEF LateKeys, GenerationTypeOK
  <1>2. \A k : k \in M <=> k \in Keys /\ \E g \in Handlers : After(g, k)
    BY DEF LateKeys
  <1>3. \A g \in Handlers : \A k : g # h => (After(g, k) <=> Before(g, k))
    BY MovedOthers DEF SameSeen, Works
  <1>4. \A k : Before(h, k) <=> h \in stale /\ Doing(h) \in Working /\ KeyOf(h) = k
    BY DEF Works
  <1>5. \A k : After(h, k) <=> h \in stale' /\ s.op \in Working /\ s.key = k
    BY MovedOthers DEF Works
  <1>6. \A g \in Handlers : \A k : g # h /\ Doing(h) \in Working /\ k = KeyOf(h) => ~Before(g, k)
    BY DEF Workers, OneWorker, Works
  <1>7. s.op \in Working => s.key \in Keys
    BY GenerationShape DEF Working
  <1> HIDE DEF Before, After, L, M
  <1>8. s.op \notin Working /\ Doing(h) \notin Working => M = L
    <2>1. s.op \notin Working /\ Doing(h) \notin Working => \A k : k \in M <=> k \in L
      BY <1>1, <1>2, <1>3, <1>4, <1>5
    <2> QED BY <2>1
  <1>9. s.op \notin Working /\ Doing(h) \in Working => M = L \ {KeyOf(h)}
    <2>1. s.op \notin Working /\ Doing(h) \in Working =>
             \A k : k \in M <=> k \in L /\ k # KeyOf(h)
      BY <1>1, <1>2, <1>3, <1>4, <1>5, <1>6
    <2> QED BY <2>1
  <1>10. s.op \in Working /\ Doing(h) \in Working /\ KeyOf(h) = s.key
              /\ (h \in stale' <=> h \in stale) => M = L
    <2>1. s.op \in Working /\ Doing(h) \in Working /\ KeyOf(h) = s.key
              /\ (h \in stale' <=> h \in stale) => \A k : k \in M <=> k \in L
      BY <1>1, <1>2, <1>3, <1>4, <1>5
    <2> QED BY <2>1
  <1>11. s.op \in Working /\ Doing(h) \notin Working /\ (h \in stale' <=> h \in stale) =>
              M = IF h \in stale THEN L \cup {s.key} ELSE L
    <2>1. s.op \in Working /\ Doing(h) \notin Working /\ (h \in stale' <=> h \in stale) =>
              \A k : k \in M <=> k \in L \/ (h \in stale /\ k = s.key)
      BY <1>1, <1>2, <1>3, <1>4, <1>5, <1>7
    <2>2. CASE h \in stale
      BY <2>1, <2>2
    <2>3. CASE h \notin stale
      BY <2>1, <2>3
    <2> QED BY <2>2, <2>3
  <1> QED BY <1>8, <1>9, <1>10, <1>11 DEF L, M

(* What a step of a handler that no charge accompanies leaves as it was.   *)
LEMMA HandlerMoves ==
  ASSUME GenerationHolds, Workers, Workers', NEW h \in Handlers, NEW s \in GenerationState,
         Moves(h, s), stale' \in {stale, stale \ {h}}
  PROVE  /\ s.op # "planned" /\ Doing(h) # "planned" => Asked' = Asked
         /\ s.op # "drafting" /\ Doing(h) # "drafting" => Returning' = Returning
         /\ s.op \notin {"saving", "linked"} /\ Doing(h) \notin {"saving", "linked"} =>
               Taking' = Taking
         /\ s.op \notin Working /\ Doing(h) \notin Working => Task' = Task /\ LateKeys' = LateKeys
         /\ s.op \notin Working /\ Doing(h) \in Working =>
               /\ Task' = [Task EXCEPT ![KeyOf(h)] = "none"]
               /\ LateKeys' = LateKeys \ {KeyOf(h)}
         /\ s.op \in Working /\ Doing(h) \in Working /\ s.key = KeyOf(h) /\ stale' = stale =>
               Task' = [Task EXCEPT ![s.key] = TaskAt(s.op)] /\ LateKeys' = LateKeys
  <1>1. GenerationTypeOK /\ Moved(h, s) /\ SameSeen(h) /\ stale' \subseteq Handlers
    BY MovesGives DEF GenerationHolds, GenerationTypeOK, SameSeen
  <1> QED BY <1>1, AskedMoved, ReturningMoved, TakingMoved, TaskMoved, LateMoved

LEMMA KeyTask ==
  ASSUME GenerationHolds, Workers, NEW h \in Handlers, Doing(h) \in Working
  PROVE  /\ KeyOf(h) \in Keys /\ Task[KeyOf(h)] = TaskAt(Doing(h))
         /\ KeyOf(h) \in LateKeys <=> h \in stale
         /\ Stage[KeyOf(h)] \in StatusAt(Doing(h)) /\ Chosen[KeyOf(h)] \in Configs
  <1>1. KeyOf(h) \in Keys
    BY GenerationShape DEF GenerationHolds, GenerationTypeOK, Working, Doing, KeyOf
  <1>2. Task[KeyOf(h)] = TaskAt(Doing(h))
    BY <1>1, TaskIs DEF Workers, TaskFacts, Task
  <1>3. KeyOf(h) \in LateKeys <=> h \in stale
    BY <1>1 DEF LateKeys, Workers, OneWorker, Works, GenerationHolds, GenerationTypeOK
  <1>4. Stage[KeyOf(h)] \in StatusAt(Doing(h))
    BY <1>1 DEF Stage, Workers, OneWorker
  <1>5. execution[KeyOf(h)].st # "none"
    BY DEF Workers, OneWorker, StatusAt
  <1> QED BY <1>1, <1>2, <1>3, <1>4, <1>5 DEF Chosen, Workers, OneWorker

LEMMA RowsMap ==
  ASSUME GenerationTypeOK
  PROVE  /\ execution' = execution => Stage' = Stage /\ Chosen' = Chosen
         /\ \A k \in Keys, st \in Statuses : SetStatus(k, st) =>
               Stage' = [Stage EXCEPT ![k] = st] /\ Chosen' = Chosen
  <1>1. execution' = execution => Stage' = Stage /\ Chosen' = Chosen
    BY DEF Stage, Chosen
  <1>2. ASSUME NEW k \in Keys, NEW st \in Statuses, SetStatus(k, st)
        PROVE  Stage' = [Stage EXCEPT ![k] = st] /\ Chosen' = Chosen
    <2>1. \A p \in Keys : /\ execution'[p].st = IF p = k THEN st ELSE execution[p].st
                          /\ execution'[p].config = execution[p].config
      BY <1>2 DEF SetStatus, GenerationTypeOK
    <2> QED BY <2>1 DEF Stage, Chosen
  <1> QED BY <1>1, <1>2

ContractMove == [Contract!Next]_(Contract!vars)
LEMMA ContractMoves ==
  ASSUME NEW k \in Keys,
         \/ Contract!Drop(k) \/ Contract!Ask(k)
         \/ \E seen \in {"fresh", "late"} :
               Contract!Repeat(k, seen) \/ \E c \in Configs : Contract!Begin(k, seen, c)
         \/ Contract!Block(k) \/ Contract!Store(k) \/ Contract!Charge(k) \/ Contract!GoWrong(k)
         \/ Contract!Fail(k) \/ Contract!Return(k) \/ Contract!Test(k)
         \/ \E i \in Draft : Contract!Take(k, i) \/ Contract!Question(k, i)
  PROVE  ContractMove
  BY DEF ContractMove, Contract!Next, Contract!Draft, Draft

LEMMA ContractRests ==
  ASSUME UNCHANGED <<Asked, Stage, Task, LateKeys, Chosen, cost, Returning, draft, Taking, saved, tests>>
  PROVE  ContractMove
  BY DEF ContractMove, Contract!vars, Contract!work, Contract!charges, Contract!products

LEMMA PlanAsks ==
  ASSUME GenerationHolds, Workers, Workers', NEW h \in Handlers, NEW k \in Keys, Plan(h, k)
  PROVE  ContractMove
  <1>1. PICK E \in SUBSET Configs : E = {c \in Configs : WithinBudget(c)}
    OBVIOUS
  <1>2. PICK s \in GenerationState : s = [op |-> "planned", key |-> k, eligible |-> E]
    BY GenerationStates
  <1>3. /\ Moves(h, s) /\ Doing(h) = "idle" /\ stale' = stale \ {h} /\ execution' = execution
        /\ cost' = cost /\ UNCHANGED <<draft, saved, tests>>
    BY <1>1, <1>2, GenerationStates DEF Plan, drafts, Doing
  <1>4. s.op \notin Working /\ Doing(h) \notin Working
    BY <1>2, <1>3 DEF Working
  <1>5. UNCHANGED <<Stage, Task, LateKeys, Chosen, Returning, Taking>>
    BY <1>2, <1>3, <1>4, HandlerMoves, RowsMap DEF GenerationHolds
  <1>6. Asked' = Asked \cup {<<"fresh", k>>}
    <2>1. Moved(h, s) /\ SameSeen(h) /\ h \notin stale'
      BY <1>3, MovesGives DEF GenerationHolds, SameSeen
    <2> QED BY <1>2, <1>3, <2>1, AskedMoved
  <1>7. Contract!Ask(k)
    BY <1>3, <1>5, <1>6 DEF Contract!Ask, Contract!charges, Contract!products
  <1> QED BY <1>7, ContractMoves

LEMMA CreateBegins ==
  ASSUME GenerationHolds, Workers, Workers', NEW h \in Handlers, Create(h)
  PROVE  ContractMove
  <1>1. PICK k \in Keys, E \in SUBSET Configs, c \in Configs, s \in GenerationState :
            /\ k = KeyOf(h) /\ E = generating[h].eligible /\ Moves(h, s) /\ s.key = k
            /\ \/ E = {} /\ s.op = "blocked"
               \/ E # {} /\ s.op = "calling" /\ c \in E
            /\ execution[k].st = "none"
            /\ execution' = [execution EXCEPT ![k] = [st |-> "running", config |-> c]]
    BY CreateShape DEF GenerationHolds
  <1>2. /\ Doing(h) = "planned" /\ stale' = stale /\ cost' = cost
        /\ UNCHANGED <<draft, saved, tests>>
    BY DEF Create, drafts
  <1>3. s.op \in Working /\ Doing(h) \notin Working
    BY <1>1, <1>2 DEF Working
  <1>4. Moved(h, s) /\ SameSeen(h) /\ stale' \subseteq Handlers /\ GenerationTypeOK
    BY <1>1, <1>2, MovesGives DEF GenerationHolds, GenerationTypeOK, SameSeen
  <1>5. UNCHANGED <<Returning, Taking>>
    BY <1>1, <1>2, HandlerMoves
  <1>6. /\ Stage[k] = "none" /\ Stage' = [Stage EXCEPT ![k] = "running"]
        /\ Chosen' = [Chosen EXCEPT ![k] = c]
    <2> DEFINE x == [st |-> "running", config |-> c]
    <2>1. \A p \in Keys : execution'[p] = IF p = k THEN x ELSE execution[p]
      BY <1>1, <1>4 DEF GenerationTypeOK
    <2>2. x.st = "running" /\ x.config = c
      OBVIOUS
    <2> HIDE DEF x
    <2>3. /\ Stage[k] = "none" /\ Stage' = [p \in Keys |-> IF p = k THEN "running" ELSE Stage[p]]
          /\ Chosen' = [p \in Keys |-> IF p = k THEN c ELSE Chosen[p]]
      BY <1>1, <2>1, <2>2 DEF Stage, Chosen
    <2>4. /\ [Stage EXCEPT ![k] = "running"] = [p \in Keys |-> IF p = k THEN "running" ELSE Stage[p]]
          /\ [Chosen EXCEPT ![k] = c] = [p \in Keys |-> IF p = k THEN c ELSE Chosen[p]]
      BY DEF Stage, Chosen
    <2> QED BY <2>3, <2>4
  <1>7. Task' = [Task EXCEPT ![k] = TaskAt(s.op)]
    BY <1>1, <1>3, <1>4, TaskMoved
  <1>8. LateKeys' = IF h \in stale THEN LateKeys \cup {k} ELSE LateKeys
    BY <1>1, <1>2, <1>3, <1>4, LateMoved
  <1>9. PICK seen \in {"fresh", "late"} : seen = Seen(h) /\ (seen = "late" <=> h \in stale)
    BY DEF Seen
  <1>10. <<seen, k>> \in Asked /\ Asked' \in {Asked, Asked \ {<<seen, k>>}}
    <2>1. <<Seen(h), KeyOf(h)>> \in Asked
      BY <1>2 DEF Asked
    <2> QED BY <1>1, <1>4, <1>9, <2>1, AskedMoved
  <1>11. seen = "fresh" => E = Contract!Free
    BY <1>1, <1>2, <1>9 DEF GenerationHolds, BudgetsHold, BudgetOf, Doing, Contract!Free
  <1>12. \/ (seen = "fresh" => c \in Contract!Free) /\ Task' = [Task EXCEPT ![k] = "generating"]
         \/ (seen = "fresh" => Contract!Free = {}) /\ Task' = [Task EXCEPT ![k] = "blocking"]
    BY <1>1, <1>7, <1>11 DEF TaskAt
  <1>13. LateKeys' = IF seen = "late" THEN LateKeys \cup {k} ELSE LateKeys
    BY <1>8, <1>9
  <1>14. Contract!Begin(k, seen, c)
    BY <1>2, <1>5, <1>6, <1>10, <1>12, <1>13 DEF Contract!Begin, Contract!Answered, Contract!products
  <1> QED BY <1>14, ContractMoves

LEMMA RepeatAnswers ==
  ASSUME GenerationHolds, Workers, Workers', NEW h \in Handlers, Doing(h) = "planned",
         Reuse(h) \/ Dies(h)
  PROVE  ContractMove
  <1>1. PICK k \in Keys : k = KeyOf(h)
    BY GenerationShape DEF GenerationHolds, GenerationTypeOK, Doing, KeyOf
  <1>2. stale' = stale /\ execution' = execution /\ cost' = cost /\ UNCHANGED <<draft, saved, tests>>
    BY DEF Reuse, Dies, drafts
  <1>3. PICK s \in GenerationState :
            /\ Moves(h, s)
            /\ \/ s.op = "idle"
               \/ s.op = "drafting" /\ s.key = k /\ execution[k].st = "succeeded"
    BY <1>1, GenerationStates DEF Reuse, Dies, Reusable
  <1>4. s.op \notin Working /\ Doing(h) \notin Working
    BY <1>3 DEF Working
  <1>5. UNCHANGED <<Stage, Task, LateKeys, Chosen, Taking>>
    BY <1>2, <1>3, <1>4, HandlerMoves, RowsMap DEF GenerationHolds
  <1>6. Moved(h, s) /\ SameSeen(h)
    BY <1>2, <1>3, MovesGives DEF GenerationHolds, SameSeen
  <1>7. \/ Stage[k] = "succeeded" /\ Returning' = Returning \cup {k}
        \/ UNCHANGED Returning
    BY <1>3, <1>6, ReturningMoved DEF Stage
  <1>8. PICK seen \in {"fresh", "late"} : seen = Seen(h)
    BY DEF Seen
  <1>9. <<seen, k>> \in Asked /\ Asked' \in {Asked, Asked \ {<<seen, k>>}}
    <2>1. <<Seen(h), KeyOf(h)>> \in Asked
      BY DEF Asked
    <2> QED BY <1>1, <1>3, <1>6, <1>8, <2>1, AskedMoved
  <1>10. Contract!Repeat(k, seen)
    BY <1>2, <1>5, <1>7, <1>9 DEF Contract!Repeat, Contract!Answered, Contract!charges
  <1> QED BY <1>10, ContractMoves

(* The steps of the worker on a key.                                       *)
LEMMA WorkerEnds ==
  ASSUME GenerationHolds, Workers, Workers', NEW h \in Handlers, Doing(h) \in Working,
         Block(h) \/ MarkFailed(h) \/ Dies(h)
  PROVE  ContractMove
  <1>1. PICK k \in Keys : /\ k = KeyOf(h) /\ Task[k] = TaskAt(Doing(h))
    BY KeyTask
  <1>2. PICK s \in GenerationState : s = Idle /\ Moves(h, s)
    BY GenerationStates DEF Block, MarkFailed, Dies
  <1>3. stale' = stale /\ cost' = cost /\ UNCHANGED <<draft, saved, tests>>
    BY DEF Block, MarkFailed, Dies, drafts
  <1>4. s.op = "idle" /\ s.op \notin Working
        /\ Doing(h) \notin {"planned", "drafting", "saving", "linked"}
    BY <1>2, GenerationStates DEF Working
  <1>5. /\ UNCHANGED <<Asked, Returning, Taking>>
        /\ Task' = [Task EXCEPT ![k] = "none"] /\ LateKeys' = LateKeys \ {k}
    BY <1>1, <1>2, <1>3, <1>4, HandlerMoves
  <1>6. CASE Block(h)
    <2>1. Stage' = [Stage EXCEPT ![k] = "blocked"] /\ Chosen' = Chosen
      BY <1>1, <1>6, RowsMap DEF Block, Statuses, GenerationHolds
    <2>2. Task[k] = "blocking"
      BY <1>1, <1>6 DEF Block, TaskAt
    <2>3. Contract!Block(k)
      BY <1>3, <1>5, <2>1, <2>2 DEF Contract!Block, Contract!charges, Contract!products
    <2> QED BY <2>3, ContractMoves
  <1>7. CASE MarkFailed(h)
    <2>1. Stage' = [Stage EXCEPT ![k] = "failed"] /\ Chosen' = Chosen
      BY <1>1, <1>7, RowsMap DEF MarkFailed, Statuses, GenerationHolds
    <2>2. Task[k] = "failing"
      BY <1>1, <1>7 DEF MarkFailed, TaskAt
    <2>3. Contract!Fail(k)
      BY <1>3, <1>5, <2>1, <2>2 DEF Contract!Fail, Contract!charges, Contract!products
    <2> QED BY <2>3, ContractMoves
  <1>8. CASE Dies(h)
    <2>1. Stage' = Stage /\ Chosen' = Chosen
      BY <1>8, RowsMap DEF Dies, GenerationHolds
    <2>2. Contract!Drop(k)
      BY <1>3, <1>5, <2>1 DEF Contract!Drop, Contract!charges
    <2> QED BY <2>2, ContractMoves
  <1> QED BY <1>6, <1>7, <1>8

LEMMA WorkerGoesOn ==
  ASSUME GenerationHolds, Workers, Workers', NEW h \in Handlers,
         StoreOutput(h) \/ WriteFails(h) \/ \E outcome : CallProvider(h, outcome)
  PROVE  ContractMove
  <1>1. Doing(h) \in {"calling", "accepted", "stored"} /\ Doing(h) \in Working
    BY DEF StoreOutput, WriteFails, CallProvider, Doing, Working
  <1>2. PICK k \in Keys : /\ k = KeyOf(h) /\ Task[k] = TaskAt(Doing(h))
    BY <1>1, KeyTask
  <1>3. stale' = stale /\ cost' = cost /\ UNCHANGED <<draft, saved, tests>>
    BY DEF StoreOutput, WriteFails, CallProvider, drafts
  <1>4. PICK s \in GenerationState :
            /\ Moves(h, s) /\ s.key = k
            /\ \/ s.op = "stored" /\ StoreOutput(h)
               \/ s.op = "failing" /\ execution' = execution
               \/ /\ s.op \in {"calling", "accepted"} /\ execution' = execution
                  /\ Doing(h) = "calling"
    <2>1. CASE StoreOutput(h)
      BY <1>2, <2>1, GenerationStates DEF StoreOutput
    <2>2. CASE WriteFails(h)
      BY <1>2, <2>2, GenerationStates DEF WriteFails
    <2>3. CASE \E outcome : CallProvider(h, outcome)
      <3>1. PICK outcome : CallProvider(h, outcome)
        BY <2>3
      <3>2. execution' = execution /\ Doing(h) = "calling"
        BY <3>1 DEF CallProvider, Doing
      <3> QED BY <1>2, <3>1, <3>2, CallShape DEF GenerationHolds
    <2> QED BY <2>1, <2>2, <2>3
  <1>5. /\ s.op \in Working /\ s.op \notin {"planned", "drafting", "saving", "linked"}
        /\ Doing(h) \notin {"planned", "drafting", "saving", "linked"}
    BY <1>1, <1>4 DEF Working
  <1>6. /\ UNCHANGED <<Asked, Returning, Taking, LateKeys>>
        /\ Task' = [Task EXCEPT ![k] = TaskAt(s.op)]
    BY <1>1, <1>2, <1>3, <1>4, <1>5, HandlerMoves
  <1>7. CASE s.op = "stored" /\ StoreOutput(h)
    <2>1. Stage' = [Stage EXCEPT ![k] = "succeeded"] /\ Chosen' = Chosen
      BY <1>2, <1>7, RowsMap DEF StoreOutput, Statuses, GenerationHolds
    <2>2. Task[k] = "generating" /\ TaskAt(s.op) = "charging"
      BY <1>2, <1>7 DEF StoreOutput, TaskAt
    <2>3. Contract!Store(k)
      BY <1>3, <1>6, <2>1, <2>2 DEF Contract!Store, Contract!charges, Contract!products
    <2> QED BY <2>3, ContractMoves
  <1>8. CASE s.op = "failing" /\ execution' = execution
    <2>1. Stage' = Stage /\ Chosen' = Chosen
      BY <1>8, RowsMap DEF GenerationHolds
    <2>2. Task[k] \in {"generating", "charging"} /\ TaskAt(s.op) = "failing"
      BY <1>1, <1>2, <1>8 DEF TaskAt
    <2>3. Contract!GoWrong(k)
      BY <1>3, <1>6, <2>1, <2>2 DEF Contract!GoWrong, Contract!charges, Contract!products
    <2> QED BY <2>3, ContractMoves
  <1>9. CASE s.op \in {"calling", "accepted"} /\ execution' = execution /\ Doing(h) = "calling"
    <2>1. Stage' = Stage /\ Chosen' = Chosen
      BY <1>9, RowsMap DEF GenerationHolds
    <2>2. Task[k] = TaskAt(s.op)
      BY <1>2, <1>9 DEF TaskAt
    <2>3. Task' = Task
      BY <1>6, <2>2 DEF Task
    <2> QED BY <1>3, <1>6, <2>1, <2>3, ContractRests
  <1> QED BY <1>4, <1>7, <1>8, <1>9

LEMMA CostCharged ==
  ASSUME GenerationHolds, Workers, Workers', NEW h \in Handlers, RecordCost(h)
  PROVE  ContractMove
  <1>1. Doing(h) = "stored" /\ Doing(h) \in Working
    BY DEF RecordCost, Working
  <1>2. PICK k \in Keys : /\ k = KeyOf(h) /\ Task[k] = "charging"
                          /\ k \in LateKeys <=> h \in stale
                          /\ Chosen[k] \in Configs /\ Chosen[k] = execution[k].config
    BY <1>1, KeyTask DEF TaskAt, Chosen
  <1>3. /\ cost' = [cost EXCEPT ![Chosen[k]] = @ + 1] /\ execution' = execution
        /\ stale' = {g \in Handlers : generating[g] # Idle /\ g # h} \cup stale
        /\ UNCHANGED <<draft, saved, tests>>
    BY <1>2 DEF RecordCost, drafts
  <1>4. PICK s \in GenerationState : s.op = "drafting" /\ s.key = k /\ Moves(h, s)
    BY <1>2, GenerationStates DEF RecordCost
  <1>5. /\ Moved(h, s) /\ GenerationTypeOK /\ s.op \notin Working /\ Doing(h) # "drafting"
        /\ s.op \notin {"saving", "linked"} /\ Doing(h) \notin {"saving", "linked"}
    BY <1>1, <1>4, MovesGives DEF GenerationHolds, Working
  <1>6. UNCHANGED <<Stage, Chosen, Taking>> /\ Returning' = Returning \cup {k}
    BY <1>3, <1>4, <1>5, RowsMap, TakingMoved, ReturningMoved
  <1>7. Task' = [Task EXCEPT ![k] = "none"]
    BY <1>1, <1>2, <1>5, TaskMoved
  <1>8. Asked' = {<<"late", x[2]>> : x \in Asked}
    <2>1. \A g \in Handlers : Doing(g)' = "planned" <=> Doing(g) = "planned"
      BY <1>1, <1>4, <1>5, MovedOthers
    <2>2. \A g \in Handlers : Doing(g) = "planned" => Seen(g)' = "late" /\ KeyOf(g)' = KeyOf(g)
      <3> SUFFICES ASSUME NEW g \in Handlers, Doing(g) = "planned"
                   PROVE  Seen(g)' = "late" /\ KeyOf(g)' = KeyOf(g)
        OBVIOUS
      <3>1. g # h /\ generating[g] # Idle
        BY <1>1, GenerationStates DEF Doing
      <3>2. g \in stale'
        BY <1>3, <3>1
      <3> QED BY <1>5, <3>1, <3>2, MovedOthers DEF Seen
    <2>3. \A g \in Handlers : <<Seen(g), KeyOf(g)>>[2] = KeyOf(g)
      OBVIOUS
    <2>4. \A y : y \in Asked' <=> \E g \in Handlers : Doing(g) = "planned" /\ y = <<"late", KeyOf(g)>>
      <3>1. \A y : y \in Asked' <=> \E g \in Handlers : Doing(g)' = "planned" /\ y = <<Seen(g)', KeyOf(g)'>>
        BY DEF Asked
      <3> QED BY <2>1, <2>2, <3>1
    <2>5. \A x : x \in Asked <=> \E g \in Handlers : Doing(g) = "planned" /\ x = <<Seen(g), KeyOf(g)>>
      BY DEF Asked
    <2> DEFINE A == Asked B == Asked'
    <2>6. \A y : y \in B <=> \E x \in A : y = <<"late", x[2]>>
      <3>1. ASSUME NEW y \in B PROVE \E x \in A : y = <<"late", x[2]>>
        <4>1. PICK g \in Handlers : Doing(g) = "planned" /\ y = <<"late", KeyOf(g)>>
          BY <2>4
        <4>2. <<Seen(g), KeyOf(g)>> \in A
          BY <2>5, <4>1
        <4> QED BY <2>3, <4>1, <4>2
      <3>2. ASSUME NEW x \in A PROVE <<"late", x[2]>> \in B
        <4>1. PICK g \in Handlers : Doing(g) = "planned" /\ x = <<Seen(g), KeyOf(g)>>
          BY <2>5
        <4>2. x[2] = KeyOf(g)
          BY <2>3, <4>1
        <4> QED BY <2>4, <4>1, <4>2
      <3> QED BY <3>1, <3>2
    <2> HIDE DEF A, B
    <2>7. B = {<<"late", x[2]>> : x \in A}
      BY <2>6
    <2> QED BY <2>7 DEF A, B
  <1>9. LateKeys' = {p \in Keys : Task'[p] # "none"}
    <2>1. TaskFacts'
      <3>1. (OneWorker => TaskFacts)'
        BY TaskIs, PTL
      <3> QED BY <3>1 DEF Workers
    <2>2. \A g \in Handlers : Doing(g)' \in Working => g \in stale'
      <3> SUFFICES ASSUME NEW g \in Handlers, Doing(g)' \in Working PROVE g \in stale'
        OBVIOUS
      <3>1. g # h /\ Doing(g) \in Working
        BY <1>4, <1>5, MovedOthers DEF Working
      <3>2. generating[g] # Idle
        BY <3>1, GenerationStates DEF Doing, Working
      <3> QED BY <1>3, <3>1, <3>2
    <2>3. \A p \in Keys : p \in LateKeys' <=> \E g \in Handlers : Works(g, p)'
      <3>1. stale' \subseteq Handlers
        BY <1>3 DEF GenerationHolds, GenerationTypeOK
      <3> QED BY <2>2, <3>1 DEF LateKeys, Works
    <2>4. \A op : TaskAt(op) # "none"
      BY DEF TaskAt
    <2>5. ASSUME NEW p \in Keys PROVE p \in LateKeys' <=> Task'[p] # "none"
      <3>1. CASE \E g \in Handlers : Works(g, p)'
        <4>1. PICK g \in Handlers : Doing(g)' \in Working /\ KeyOf(g)' = p
          BY <3>1 DEF Works
        <4>2. TaskOf(KeyOf(g))' = TaskAt(Doing(g))'
          BY <2>1, <4>1 DEF TaskFacts
        <4>3. TaskOf(KeyOf(g))' = TaskOf(p)' /\ TaskAt(Doing(g))' = TaskAt(Doing(g)')
          BY <4>1 DEF TaskOf, TaskAt
        <4>4. Task'[p] = TaskOf(p)'
          BY DEF Task
        <4> QED BY <2>3, <2>4, <3>1, <4>2, <4>3, <4>4
      <3>2. CASE ~\E g \in Handlers : Works(g, p)'
        <4>1. TaskOf(p)' = "none"
          BY <2>1, <3>2 DEF TaskFacts
        <4>2. Task'[p] = TaskOf(p)'
          BY DEF Task
        <4> QED BY <2>3, <3>2, <4>1, <4>2
      <3> QED BY <3>1, <3>2
    <2>6. LateKeys' \subseteq Keys
      BY DEF LateKeys
    <2> DEFINE L == LateKeys' T == Task'
    <2>7. L \subseteq Keys /\ \A p \in Keys : p \in L <=> T[p] # "none"
      BY <2>5, <2>6
    <2> HIDE DEF L, T
    <2>8. L = {p \in Keys : T[p] # "none"}
      BY <2>7
    <2> QED BY <2>8 DEF L, T
  <1>10. k \notin LateKeys => Chosen[k] \in Contract!Free
    BY <1>1, <1>2 DEF GenerationHolds, BudgetsHold, BudgetOf, Doing, KeyOf, Contract!Free
  <1>11. Contract!Charge(k)
    BY <1>2, <1>3, <1>6, <1>7, <1>8, <1>9, <1>10 DEF Contract!Charge
  <1> QED BY <1>11, ContractMoves

(* The steps with the drafts.                                              *)
LEMMA OtherDies ==
  ASSUME GenerationHolds, Workers, Workers', NEW h \in Handlers, Dies(h),
         Doing(h) # "planned", Doing(h) \notin Working
  PROVE  ContractMove
  <1>1. PICK s \in GenerationState : s = Idle /\ Moves(h, s)
    BY GenerationStates DEF Dies
  <1>2. stale' = stale /\ cost' = cost /\ execution' = execution /\ UNCHANGED <<draft, saved, tests>>
    BY DEF Dies, drafts
  <1>3. /\ s.op \notin Working /\ s.op \notin {"planned", "drafting", "saving", "linked"}
        /\ Moved(h, s)
    BY <1>1, GenerationStates, MovesGives DEF Working, GenerationHolds
  <1>4. UNCHANGED <<Asked, Task, LateKeys, Stage, Chosen>>
    BY <1>1, <1>2, <1>3, HandlerMoves, RowsMap DEF GenerationHolds
  <1>5. CASE Doing(h) \in {"saving", "linked"}
    <2>1. PICK k \in Keys, i \in Draft : k = KeyOf(h) /\ i = generating[h].item
      BY <1>5, GenerationShape DEF GenerationHolds, GenerationTypeOK, Doing, KeyOf
    <2>2. Returning' = Returning
      BY <1>3, <1>5, ReturningMoved
    <2>3. Taking' \in {Taking, Taking \ {<<k, i>>}}
      BY <1>3, <2>1, TakingMoved
    <2>4. CASE Taking' = Taking
      BY <1>2, <1>4, <2>2, <2>4, ContractRests
    <2>5. CASE Taking' = Taking \ {<<k, i>>}
      <3>1. \E j \in Contract!Draft : Taking' = Taking \ {<<k, j>>}
        BY <2>5 DEF Contract!Draft, Draft
      <3>2. Contract!Drop(k)
        BY <1>2, <1>4, <2>2, <3>1 DEF Contract!Drop, Contract!charges
      <3> QED BY <3>2, ContractMoves
    <2> QED BY <2>3, <2>4, <2>5
  <1>6. CASE Doing(h) \notin {"saving", "linked"}
    <2>1. Taking' = Taking
      BY <1>3, <1>6, TakingMoved
    <2>2. CASE Returning' = Returning
      BY <1>2, <1>4, <2>1, <2>2, ContractRests
    <2>3. CASE Returning' # Returning
      <3>1. Doing(h) = "drafting" /\ Returning' = Returning \ {KeyOf(h)}
        BY <1>3, <2>3, ReturningMoved
      <3>2. PICK k \in Keys : k = KeyOf(h)
        BY <3>1, GenerationShape DEF GenerationHolds, GenerationTypeOK, Doing, KeyOf
      <3>3. Contract!Drop(k)
        BY <1>2, <1>4, <2>1, <3>1, <3>2 DEF Contract!Drop, Contract!charges
      <3> QED BY <3>3, ContractMoves
    <2> QED BY <2>2, <2>3
  <1> QED BY <1>5, <1>6

LEMMA DraftsReturned ==
  ASSUME GenerationHolds, Workers, Workers', NEW h \in Handlers, MakeDrafts(h)
  PROVE  ContractMove
  <1>1. PICK k \in Keys, s \in GenerationState :
            k = KeyOf(h) /\ Moves(h, s) /\ s.op \in {"idle", "linking"}
    <2>1. Doing(h) = "drafting"
      BY DEF MakeDrafts
    <2> QED BY <2>1, DraftShape, GenerationStates DEF GenerationHolds
  <1>2. /\ Doing(h) = "drafting" /\ draft' = [draft EXCEPT ![k] = Upserted(k)] /\ stale' = stale
        /\ cost' = cost /\ execution' = execution /\ saved' = saved /\ tests' = tests
    BY <1>1 DEF MakeDrafts
  <1>3. /\ s.op \notin Working /\ Doing(h) \notin Working /\ Moved(h, s)
        /\ s.op \notin {"planned", "drafting", "saving", "linked"}
    BY <1>1, <1>2, MovesGives DEF Working, GenerationHolds
  <1>4. UNCHANGED <<Asked, Task, LateKeys, Stage, Chosen, Taking>>
    BY <1>1, <1>2, <1>3, HandlerMoves, RowsMap DEF GenerationHolds
  <1>5. k \in Returning /\ Returning' \in {Returning, Returning \ {k}}
    BY <1>1, <1>2, <1>3, ReturningMoved DEF Returning
  <1>6. draft' = [draft EXCEPT ![k] = [i \in Contract!Draft |-> IF @[i] = "none" THEN "open" ELSE @[i]]]
    BY <1>2 DEF Upserted, Contract!Draft, Draft
  <1>7. Contract!Return(k)
    BY <1>2, <1>4, <1>5, <1>6 DEF Contract!Return, Contract!work, Contract!charges
  <1> QED BY <1>7, ContractMoves

LEMMA DraftTaken ==
  ASSUME GenerationHolds, Workers, Workers', NEW h \in Handlers,
         TakeDraft(h) \/ \E k \in Keys, i \in Draft : FindDraft(h, k, i)
  PROVE  ContractMove
  <1>1. /\ stale' = stale /\ cost' = cost /\ execution' = execution
        /\ UNCHANGED <<draft, saved, tests>>
    BY DEF TakeDraft, FindDraft, drafts
  <1>2. PICK k \in Keys, i \in Draft, s \in GenerationState :
            /\ Moves(h, s) /\ s.op \in {"saving", "linked"} /\ s.key = k /\ s.item = i
            /\ draft[k][i] = "open" /\ Doing(h) \in {"idle", "linking"}
    <2>1. CASE TakeDraft(h)
      <3>1. /\ Doing(h) = "linking" /\ KeyOf(h) \in Keys
            /\ draft[KeyOf(h)][generating[h].item] = "open"
            /\ generating[h].item \in Draft
        BY <2>1, DraftShape, GenerationShape, GenerationFacts
        DEF GenerationHolds, GenerationTypeOK, TakeDraft, Undecided, Doing, KeyOf
      <3>2. PICK s \in GenerationState :
                Moves(h, s) /\ s = [generating[h] EXCEPT !.op = "linked"]
        <4>1. generating[h] = [op |-> "linking", key |-> KeyOf(h), item |-> generating[h].item]
          BY <3>1, GenerationShape DEF GenerationHolds, GenerationTypeOK, Doing, KeyOf
        <4>2. PICK s \in GenerationState :
                  s = [op |-> "linked", key |-> KeyOf(h), item |-> generating[h].item]
          BY <3>1, GenerationStates
        <4>3. [generating[h] EXCEPT !.op = "linked"] = s
          BY <4>1, <4>2
        <4> QED BY <2>1, <4>3 DEF TakeDraft
      <3>3. s.op = "linked" /\ s.key = KeyOf(h) /\ s.item = generating[h].item
        <4>1. generating[h] = [op |-> "linking", key |-> KeyOf(h), item |-> generating[h].item]
          BY <3>1, GenerationShape DEF GenerationHolds, GenerationTypeOK, Doing, KeyOf
        <4> QED BY <3>2, <4>1
      <3> QED BY <3>1, <3>2, <3>3
    <2>2. CASE \E k \in Keys, i \in Draft : FindDraft(h, k, i)
      <3>1. PICK k \in Keys, i \in Draft : FindDraft(h, k, i)
        BY <2>2
      <3>2. PICK s \in GenerationState : s = [op |-> "saving", key |-> k, item |-> i]
        BY GenerationStates
      <3> QED BY <3>1, <3>2, GenerationStates DEF FindDraft, Undecided, Doing
    <2> QED BY <2>1, <2>2
  <1>3. /\ s.op \notin Working /\ Doing(h) \notin Working /\ Moved(h, s)
        /\ s.op \notin {"planned", "drafting"}
        /\ Doing(h) \notin {"planned", "drafting", "saving", "linked"}
    BY <1>2, MovesGives DEF Working, GenerationHolds
  <1>4. UNCHANGED <<Asked, Task, LateKeys, Stage, Chosen, Returning>>
    BY <1>1, <1>2, <1>3, HandlerMoves, RowsMap DEF GenerationHolds
  <1>5. Taking' = Taking \cup {<<k, i>>}
    BY <1>2, <1>3, TakingMoved
  <1>6. Contract!Take(k, i)
    BY <1>1, <1>2, <1>4, <1>5 DEF Contract!Take, Contract!work, Contract!charges
  <1> QED BY <1>6, ContractMoves

LEMMA QuestionMade ==
  ASSUME GenerationHolds, Workers, Workers', NEW h \in Handlers, Accept(h)
  PROVE  ContractMove
  <1>1. Doing(h) \in {"saving", "linked"}
    BY DEF Accept, Accepting
  <1>2. PICK k \in Keys, i \in Draft : k = KeyOf(h) /\ i = generating[h].item /\ k = generating[h].key
    BY <1>1, GenerationShape DEF GenerationHolds, GenerationTypeOK, Doing, KeyOf
  <1>3. PICK s \in GenerationState : Moves(h, s) /\ s.op \in {"idle", "linking"}
    BY <1>1, DraftShape, GenerationStates DEF GenerationHolds
  <1>4. /\ draft' = [draft EXCEPT ![k][i] = "accepted"] /\ saved' = [saved EXCEPT ![k][i] = @ + 1]
        /\ stale' = stale /\ cost' = cost /\ execution' = execution /\ tests' = tests
    BY <1>2 DEF Accept
  <1>5. /\ s.op \notin Working /\ Doing(h) \notin Working /\ Moved(h, s)
        /\ s.op \notin {"planned", "drafting", "saving", "linked"}
        /\ Doing(h) \notin {"planned", "drafting"}
    BY <1>1, <1>3, MovesGives DEF Working, GenerationHolds
  <1>6. UNCHANGED <<Asked, Task, LateKeys, Stage, Chosen, Returning>>
    BY <1>3, <1>4, <1>5, HandlerMoves, RowsMap DEF GenerationHolds
  <1>7. <<k, i>> \in Taking /\ Taking' \in {Taking, Taking \ {<<k, i>>}}
    BY <1>1, <1>2, <1>5, TakingMoved DEF Taking
  <1>8. Contract!Question(k, i)
    BY <1>4, <1>6, <1>7 DEF Contract!Question, Contract!work, Contract!charges
  <1> QED BY <1>8, ContractMoves

LEMMA TestMade ==
  ASSUME GenerationHolds, Workers, Workers', NEW h \in Handlers, MakeTest(h)
  PROVE  ContractMove
  <1>1. Doing(h) = "linking" /\ generating[h].item = Items + 1 /\ Moves(h, Idle)
    BY DEF MakeTest, AllTaken, Doing
  <1>2. PICK k \in Keys : k = KeyOf(h) /\ k = generating[h].key /\ k \in TestKeys
    BY <1>1, GenerationShape DEF GenerationHolds, GenerationTypeOK, Doing, KeyOf, Workers
  <1>3. /\ tests' = [tests EXCEPT ![k] = @ + 1] /\ draft' = draft /\ saved' = saved
        /\ stale' = stale /\ cost' = cost /\ execution' = execution
    BY <1>2 DEF MakeTest
  <1>4. PICK s \in GenerationState : s = Idle /\ Moves(h, s)
    BY <1>1, GenerationStates
  <1>5. /\ s.op \notin Working /\ Doing(h) \notin Working
        /\ s.op \notin {"planned", "drafting", "saving", "linked"}
    BY <1>1, <1>4, GenerationStates DEF Working
  <1>6. UNCHANGED <<Asked, Task, LateKeys, Stage, Chosen, Returning, Taking>>
    BY <1>1, <1>3, <1>4, <1>5, HandlerMoves, RowsMap DEF GenerationHolds
  <1>7. ASSUME NEW i \in Draft PROVE draft[k][i] = "accepted" /\ tests[k] < saved[k][i]
    <2>1. i < Items + 1
      BY GenerationFacts
    <2>2. h \in Past(k, i)
      BY <1>1, <1>2, <2>1 DEF Past, Doing
    <2>3. Cardinality(Past(k, i)) \in Nat /\ Cardinality(Past(k, i)) # 0
      BY <2>2, PastFinite, FS_EmptySet
    <2>4. saved[k][i] \in Nat /\ tests[k] \in Nat /\ DraftHolds(k, i)
      BY DEF GenerationHolds, GenerationTypeOK, DraftsHold
    <2> QED BY <2>3, <2>4 DEF DraftHolds
  <1>8. \A i \in Contract!Draft : draft[k][i] = "accepted" /\ tests[k] < saved[k][i]
    BY <1>7 DEF Contract!Draft, Draft
  <1>9. Contract!Test(k)
    BY <1>2, <1>3, <1>6, <1>8 DEF Contract!Test, Contract!work, Contract!charges
  <1> QED BY <1>9, ContractMoves

LEMMA GenerationContractNext ==
  ASSUME GenerationHolds, Workers, Workers', [GenerationNext]_generationVars
  PROVE  ContractMove
  <1>1. CASE UNCHANGED generationVars
    <2>1. UNCHANGED <<execution, cost, draft, generating, stale, saved, tests>>
      BY <1>1 DEF generationVars
    <2>2. UNCHANGED <<Stage, Chosen, Asked, Returning, Taking, LateKeys>>
      BY <2>1 DEF Stage, Chosen, Asked, Returning, Taking, LateKeys, Seen, Doing, KeyOf, Works
    <2>3. UNCHANGED Task
      BY <2>1 DEF Task, TaskOf, TaskAt, Works, Doing, KeyOf
    <2> QED BY <2>1, <2>2, <2>3, ContractRests
  <1>2. ASSUME NEW h \in Handlers, NEW k \in Keys,
               Plan(h, k) \/ \E i \in Draft : FindDraft(h, k, i)
        PROVE  ContractMove
    BY <1>2, PlanAsks, DraftTaken
  <1>3. ASSUME NEW h \in Handlers, Reuse(h) \/ Block(h) \/ MarkFailed(h) \/ Dies(h)
        PROVE  ContractMove
    <2>1. CASE Reuse(h)
      BY <2>1, RepeatAnswers DEF Reuse
    <2>2. CASE Block(h) \/ MarkFailed(h)
      BY <2>2, WorkerEnds DEF Block, MarkFailed, Working
    <2>3. CASE Dies(h)
      BY <2>3, RepeatAnswers, WorkerEnds, OtherDies
    <2> QED BY <1>3, <2>1, <2>2, <2>3
  <1>4. ASSUME NEW h \in Handlers, NEW outcome, CallProvider(h, outcome) PROVE ContractMove
    BY <1>4, WorkerGoesOn
  <1>5. ASSUME NEW h \in Handlers,
               \/ Create(h) \/ StoreOutput(h) \/ RecordCost(h) \/ WriteFails(h)
               \/ MakeDrafts(h) \/ TakeDraft(h) \/ Accept(h) \/ MakeTest(h)
        PROVE  ContractMove
    BY <1>5, CreateBegins, WorkerGoesOn, CostCharged, DraftsReturned, DraftTaken, QuestionMade,
       TestMade
  <1> QED BY <1>1, <1>2, <1>3, <1>4, <1>5 DEF GenerationNext

(* Whatever requests, providers and servers do: a key has one generation,  *)
(* charged once and after its output is stored, and within its budget      *)
(* unless another was charged beside it; drafts are made of stored outputs *)
(* only, questions of drafts that were open when they were asked for, and  *)
(* each test of questions that no other test took.                         *)
THEOREM ImplementsGenerationContract == GenerationSpec => GenerationContractSpec
  <1>1. GenerationInit => Contract!Init
    <2> SUFFICES ASSUME GenerationInit PROVE Contract!Init
      OBVIOUS
    <2>1. \A h \in Handlers : Doing(h) = "idle"
      BY GenerationStates DEF GenerationInit, Doing
    <2>2. Asked = {} /\ Returning = {} /\ Taking = {}
      BY <2>1 DEF Asked, Returning, Taking
    <2>3. LateKeys = {} /\ Task = [k \in Keys |-> "none"]
      BY <2>1 DEF GenerationInit, LateKeys, Task, TaskOf, Works, Working
    <2>4. Stage = [k \in Keys |-> "none"] /\ Chosen = [k \in Keys |-> 0]
      BY DEF GenerationInit, Stage, Chosen, NoConfig
    <2> QED BY <2>2, <2>3, <2>4 DEF GenerationInit, Contract!Init, Contract!Draft, Draft
  <1>2. /\ GenerationHolds /\ Workers /\ Workers' /\ [GenerationNext]_generationVars
        => [Contract!Next]_(Contract!vars)
    BY GenerationContractNext DEF ContractMove
  <1> QED BY <1>1, <1>2, GenerationAlways, PTL DEF GenerationSpec, GenerationContractSpec, Contract!Spec
=============================================================================
