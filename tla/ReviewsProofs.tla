--------------------------- MODULE ReviewsProofs ---------------------------
(***************************************************************************)
(* Proofs about Reviews, for every number of questions and reviewers, and  *)
(* about Questions, for every question, key and answer.                    *)
(***************************************************************************)
EXTENDS Reviews, Questions, FiniteSetTheorems, SequenceTheorems,
        WellFoundedInduction, NaturalsInduction, TLAPS

USE MarksAssumption

LEMMA WriteShape ==
  ASSUME NEW h \in ReviewerState, h.op = "write"
  PROVE  /\ h.q \in Questions /\ h.marks \in Marks /\ h.summary \in Summary
         /\ h = [op |-> "write", q |-> h.q, marks |-> h.marks, summary |-> h.summary]
  BY DEF ReviewerState, Idle

LEMMA ReviewedEntries ==
  ASSUME NEW s \in Summary, NEW q \in Questions, NEW m \in Marks
  PROVE  /\ Reviewed(s, q, m) \in Summary
         /\ \A p \in Questions : p # q => Reviewed(s, q, m)[p] = s[p]
  <1>1. [marks |-> m, pending |-> FALSE] \in Entry
    BY DEF Entry
  <1> QED BY <1>1 DEF Reviewed, Summary

LEMMA InitNothingUnscored == ReviewsInit => NothingUnscored
  <1> SUFFICES ASSUME ReviewsInit PROVE NothingUnscored
    OBVIOUS
  <1>1. RowsOK
    BY DEF ReviewsInit, Unreviewed, RowsOK, Summary, Entry, Work, Marks, ReviewerState
  <1>2. \A q \in Questions : summary[q].pending
    BY DEF ReviewsInit, Unreviewed
  <1> QED BY <1>1, <1>2 DEF ReviewsInit, NothingUnscored, Idle

(* A request that reads starts from the stored summary, so the only entry  *)
(* it calls reviewed and that is not scored yet is its own.                *)
LEMMA ReadKeeps ==
  ASSUME NothingUnscored, NEW r \in Reviewers, NEW q \in Questions, NEW m \in Offered,
         ReviewRead(r, q, m)
  PROVE  NothingUnscored'
  <1>0. /\ RowsOK /\ summary \in Summary /\ m \in Marks
        /\ reviewer \in [Reviewers -> ReviewerState]
        /\ UNCHANGED <<question, work, summary, attempt, assignment, told>>
    BY DEF NothingUnscored, RowsOK, ReviewRead, WithinMaximum, Offered, Marks
  <1>1. PICK s \in Summary : s = Reviewed(summary, q, m)
    BY <1>0, ReviewedEntries
  <1>2. reviewer' = [reviewer EXCEPT ![r] =
          [op |-> "write", q |-> q, marks |-> m, summary |-> s]]
    BY <1>1 DEF ReviewRead
  <1>3. [op |-> "write", q |-> q, marks |-> m, summary |-> s] \in ReviewerState
    BY <1>0, <1>1 DEF ReviewerState
  <1>4. RowsOK'
    BY <1>0, <1>2, <1>3 DEF RowsOK
  <1>5. Knows(s, q)
    BY <1>0, <1>1, ReviewedEntries DEF NothingUnscored, Knows
  <1>6. ASSUME NEW p \in Reviewers
        PROVE  /\ (reviewer[p].op = "write" => Knows(reviewer[p].summary, reviewer[p].q))'
               /\ (reviewer[p].op = "tell" => AllScored)'
    <2>1. CASE p = r
      <3>1. /\ reviewer'[p].op = "write" /\ reviewer'[p].q = q
            /\ reviewer'[p].summary = s
        BY <1>0, <1>2, <2>1
      <3> QED BY <1>0, <1>5, <3>1 DEF Knows
    <2>2. CASE p # r
      <3>1. reviewer'[p] = reviewer[p]
        BY <1>0, <1>2, <2>2
      <3> QED BY <1>0, <3>1 DEF NothingUnscored, Knows, AllScored
    <2> QED BY <2>1, <2>2
  <1>7. AllScored' <=> AllScored
    BY <1>0 DEF AllScored
  <1> QED BY <1>0, <1>4, <1>6, <1>7 DEF NothingUnscored

(* A commit scores its question, so its summary then calls reviewed only   *)
(* questions that are scored; if none is pending, all are.                 *)
LEMMA CommitKeeps ==
  ASSUME NothingUnscored, NEW r \in Reviewers, ReviewCommit(r)
  PROVE  NothingUnscored'
  <1>0. /\ RowsOK /\ reviewer \in [Reviewers -> ReviewerState]
        /\ question \in [Questions -> {"NEEDS_REVIEW", "SCORED"}]
        /\ reviewer[r].op = "write" /\ told' = told
    BY DEF NothingUnscored, RowsOK, ReviewCommit
  <1>1. PICK q \in Questions, m \in Marks, s \in Summary :
          q = reviewer[r].q /\ m = reviewer[r].marks /\ s = reviewer[r].summary
    BY <1>0, WriteShape
  <1>2. /\ question' = [question EXCEPT ![q] = "SCORED"]
        /\ work' = [work EXCEPT ![q] = [status |-> "COMPLETED", marks |-> m]]
        /\ summary' = s
        /\ attempt'.status = IF Pending(s) THEN "NEEDS_REVIEW" ELSE "PUBLISHED"
        /\ assignment' = IF Pending(s) THEN assignment ELSE "COMPLETED"
        /\ reviewer' = [reviewer EXCEPT ![r] =
                           IF Pending(s) THEN Idle ELSE [op |-> "tell"]]
    BY <1>1 DEF ReviewCommit, AssignmentAfter
  <1>3. RowsOK'
    <2>1. Idle \in ReviewerState /\ [op |-> "tell"] \in ReviewerState
      BY DEF ReviewerState
    <2>2. [status |-> "COMPLETED", marks |-> m] \in Work
      BY DEF Work
    <2> QED BY <1>0, <1>2, <2>1, <2>2 DEF RowsOK
  <1>4. \A p \in Questions : question[p] = "SCORED" => question'[p] = "SCORED"
    BY <1>0, <1>2
  <1>5. \A p \in Questions : ~s[p].pending => question'[p] = "SCORED"
    <2>1. Knows(s, q)
      BY <1>0, <1>1 DEF NothingUnscored
    <2>2. question'[q] = "SCORED"
      BY <1>0, <1>2
    <2> QED BY <1>4, <2>1, <2>2 DEF Knows
  <1>6. AllScored => AllScored'
    BY <1>4 DEF AllScored
  <1>7. ~Pending(s) => AllScored'
    BY <1>5 DEF Pending, AllScored
  <1>8. ASSUME NEW p \in Reviewers
        PROVE  /\ (reviewer[p].op = "write" => Knows(reviewer[p].summary, reviewer[p].q))'
               /\ (reviewer[p].op = "tell" => AllScored)'
    <2>1. CASE p = r
      BY <1>0, <1>2, <1>7, <2>1 DEF Idle
    <2>2. CASE p # r
      <3>1. reviewer'[p] = reviewer[p]
        BY <1>0, <1>2, <2>2
      <3> QED BY <1>4, <1>6, <3>1 DEF NothingUnscored, Knows
    <2> QED BY <2>1, <2>2
  <1>9. /\ (\A p \in Questions : ~summary[p].pending => question[p] = "SCORED")'
        /\ (attempt.status = "PUBLISHED" => assignment = "COMPLETED")'
        /\ (attempt.status = "PUBLISHED" \/ assignment = "COMPLETED" \/ told > 0
              => AllScored)'
    BY <1>0, <1>2, <1>5, <1>6, <1>7 DEF NothingUnscored
  <1> QED BY <1>3, <1>8, <1>9 DEF NothingUnscored

(* A request that tells, or dies, changes no row.                          *)
LEMMA OthersKeep ==
  ASSUME NothingUnscored, NEW r \in Reviewers, Tell(r) \/ Abandon(r)
  PROVE  NothingUnscored'
  <1>0. /\ RowsOK /\ reviewer \in [Reviewers -> ReviewerState]
        /\ UNCHANGED <<question, work, summary, attempt, assignment>>
        /\ reviewer' = [reviewer EXCEPT ![r] = Idle]
        /\ told' \in Nat /\ (told' > 0 => told > 0 \/ AllScored)
    BY DEF NothingUnscored, RowsOK, Tell, Abandon
  <1>1. RowsOK'
    BY <1>0 DEF RowsOK, ReviewerState
  <1>2. AllScored' <=> AllScored
    BY <1>0 DEF AllScored
  <1>3. ASSUME NEW p \in Reviewers
        PROVE  /\ (reviewer[p].op = "write" => Knows(reviewer[p].summary, reviewer[p].q))'
               /\ (reviewer[p].op = "tell" => AllScored)'
    <2>1. reviewer'[p] = reviewer[p] \/ reviewer'[p] = Idle
      BY <1>0
    <2> QED BY <1>0, <1>2, <2>1 DEF NothingUnscored, Knows, Idle
  <1> QED BY <1>0, <1>1, <1>2, <1>3 DEF NothingUnscored

LEMMA StutterKeeps == NothingUnscored /\ UNCHANGED reviewVars => NothingUnscored'
  BY DEF NothingUnscored, RowsOK, reviewVars, Knows, AllScored

LEMMA NextUnscored == NothingUnscored /\ [ReviewsNext]_reviewVars => NothingUnscored'
  BY ReadKeeps, CommitKeeps, OthersKeep, StutterKeeps DEF ReviewsNext

-----------------------------------------------------------------------------
(* As long as no two requests overlap, whoever writes writes what is there *)
(* now, with its own question reviewed: the records go on agreeing.        *)
LEMMA ReadAgrees ==
  ASSUME ReviewInv, NEW r \in Reviewers, NEW q \in Questions, NEW m \in Offered,
         ReviewRead(r, q, m)
  PROVE  RecordsAgree' /\ WriterUpToDate'
  <1>0. /\ reviewer \in [Reviewers -> ReviewerState]
        /\ UNCHANGED <<question, work, summary, attempt, assignment, told>>
        /\ reviewer' = [reviewer EXCEPT ![r] =
              [op |-> "write", q |-> q, marks |-> m, summary |-> Reviewed(summary, q, m)]]
        /\ overlapped' = (overlapped \/ \E o \in Reviewers : reviewer[o].op = "write")
    BY DEF ReviewInv, NothingUnscored, RowsOK, ReviewRead
  <1>1. CASE overlapped'
    BY <1>1 DEF RecordsAgree, WriterUpToDate
  <1>2. CASE ~overlapped'
    <2>1. RecordsAgree'
      BY <1>0, <1>2 DEF ReviewInv, RecordsAgree
    <2>2. \A o \in Reviewers : reviewer[o].op # "write"
      BY <1>0, <1>2
    <2>3. PICK s : s = Reviewed(summary, q, m)
      OBVIOUS
    <2>4. \A o \in Reviewers : reviewer'[o] =
            IF o = r THEN [op |-> "write", q |-> q, marks |-> m, summary |-> s]
            ELSE reviewer[o]
      BY <1>0, <2>3
    <2>5. \A o \in Reviewers : reviewer'[o].op = "write" =>
            /\ o = r
            /\ reviewer'[o].q = q /\ reviewer'[o].marks = m /\ reviewer'[o].summary = s
      BY <2>2, <2>4
    <2>6. summary' = summary
      BY <1>0
    <2> QED BY <2>1, <2>3, <2>5, <2>6 DEF WriterUpToDate, Reviewed
  <1> QED BY <1>1, <1>2

LEMMA CommitAgrees ==
  ASSUME ReviewInv, NEW r \in Reviewers, ReviewCommit(r)
  PROVE  RecordsAgree' /\ WriterUpToDate'
  <1>0. /\ RowsOK /\ reviewer \in [Reviewers -> ReviewerState]
        /\ reviewer[r].op = "write" /\ overlapped' = overlapped
    BY DEF ReviewInv, NothingUnscored, RowsOK, ReviewCommit
  <1> SUFFICES ASSUME ~overlapped PROVE RecordsAgree' /\ WriterUpToDate'
    BY <1>0 DEF RecordsAgree, WriterUpToDate
  <1>1. PICK q \in Questions, m \in Marks, s \in Summary :
          q = reviewer[r].q /\ m = reviewer[r].marks /\ s = reviewer[r].summary
    BY <1>0, WriteShape
  <1>2. /\ question' = [question EXCEPT ![q] = "SCORED"]
        /\ work' = [work EXCEPT ![q] = [status |-> "COMPLETED", marks |-> m]]
        /\ summary' = s
        /\ attempt' = [status |-> IF Pending(s) THEN "NEEDS_REVIEW" ELSE "PUBLISHED",
                       score |-> Total(s), passed |-> Total(s) >= PassMark]
        /\ reviewer' = [reviewer EXCEPT ![r] = IF Pending(s) THEN Idle ELSE [op |-> "tell"]]
    BY <1>1 DEF ReviewCommit
  <1>3. /\ s = Reviewed(summary, q, m)
        /\ \A o \in Reviewers : reviewer[o].op = "write" => o = r
    BY <1>0, <1>1 DEF ReviewInv, WriterUpToDate
  <1>4. /\ s[q].marks = m /\ ~s[q].pending
        /\ \A p \in Questions : p # q => s[p] = summary[p]
    BY <1>0, <1>3 DEF Reviewed, RowsOK, Summary
  <1>5. \A p \in Questions :
          /\ summary'[p].pending <=> question'[p] = "NEEDS_REVIEW"
          /\ summary'[p].marks = work'[p].marks
          /\ question'[p] = "SCORED" <=> work'[p].status = "COMPLETED"
    <2> SUFFICES ASSUME NEW p \in Questions
                 PROVE  /\ s[p].pending <=> question'[p] = "NEEDS_REVIEW"
                        /\ s[p].marks = work'[p].marks
                        /\ question'[p] = "SCORED" <=> work'[p].status = "COMPLETED"
      BY <1>2
    <2>1. CASE p = q
      BY <1>0, <1>2, <1>4, <2>1 DEF RowsOK
    <2>2. CASE p # q
      <3>1. question'[p] = question[p] /\ work'[p] = work[p] /\ s[p] = summary[p]
        BY <1>0, <1>2, <1>4, <2>2 DEF RowsOK
      <3> QED BY <3>1 DEF ReviewInv, RecordsAgree
    <2> QED BY <2>1, <2>2
  <1>6. attempt'.score = Total(s) /\ (attempt'.status = "PUBLISHED" <=> ~Pending(s))
    BY <1>2
  <1>7. Total(summary)' = Total(s) /\ (Pending(summary)' <=> Pending(s))
    <2>1. summary' = s
      BY <1>2
    <2>2. Total(summary)' = Total(s)
      BY <2>1
    <2>3. Pending(summary)' <=> Pending(s)
      BY <2>1 DEF Pending
    <2> QED BY <2>2, <2>3
  <1>8. \A o \in Reviewers : reviewer'[o].op # "write"
    BY <1>0, <1>2, <1>3 DEF Idle
  <1> QED BY <1>5, <1>6, <1>7, <1>8 DEF RecordsAgree, WriterUpToDate

LEMMA OthersAgree ==
  ASSUME ReviewInv,
         UNCHANGED reviewVars \/ \E r \in Reviewers : Tell(r) \/ Abandon(r)
  PROVE  RecordsAgree' /\ WriterUpToDate'
  <1>1. UNCHANGED <<question, work, summary, attempt, overlapped>>
    BY DEF Tell, Abandon, reviewVars
  <1>2. /\ Total(summary)' = Total(summary)
        /\ Pending(summary)' <=> Pending(summary)
    <2>1. summary' = summary
      BY <1>1
    <2>2. Total(summary)' = Total(summary)
      BY <2>1
    <2> QED BY <2>1, <2>2 DEF Pending
  <1>5. RecordsAgree'
    BY <1>1, <1>2 DEF ReviewInv, RecordsAgree
  <1>3. \A o \in Reviewers : reviewer'[o] = reviewer[o] \/ reviewer'[o] = Idle
    BY DEF Tell, Abandon, reviewVars, ReviewInv, NothingUnscored, RowsOK
  <1>4. \A o \in Reviewers : reviewer'[o].op = "write" => reviewer'[o] = reviewer[o]
    BY <1>3 DEF Idle
  <1> QED BY <1>1, <1>5, <1>4 DEF ReviewInv, WriterUpToDate, Reviewed

LEMMA InitReviewInv == ReviewsInit => ReviewInv
  <1> SUFFICES ASSUME ReviewsInit PROVE ReviewInv
    OBVIOUS
  <1>1. Pending(Unreviewed)
    BY DEF Pending, Unreviewed
  <1>2. RecordsAgree
    BY <1>1 DEF ReviewsInit, RecordsAgree, Unreviewed
  <1>3. WriterUpToDate
    BY DEF ReviewsInit, WriterUpToDate, Idle
  <1> QED BY <1>2, <1>3, InitNothingUnscored DEF ReviewsInit, ReviewInv

LEMMA NextReviewInv == ReviewInv /\ [ReviewsNext]_reviewVars => ReviewInv'
  <1> SUFFICES ASSUME ReviewInv, [ReviewsNext]_reviewVars PROVE ReviewInv'
    OBVIOUS
  <1>1. NothingUnscored'
    BY NextUnscored DEF ReviewInv
  <1>2. overlapped' \in BOOLEAN
    BY DEF ReviewInv, ReviewsNext, ReviewRead, ReviewCommit, Tell, Abandon, reviewVars
  <1>3. RecordsAgree' /\ WriterUpToDate'
    BY ReadAgrees, CommitAgrees, OthersAgree DEF ReviewsNext
  <1> QED BY <1>1, <1>2, <1>3 DEF ReviewInv

(* What every reviewer's request knows of the questions. *)
THEOREM ReviewInvariant == ReviewsSpec => []ReviewInv
  BY InitReviewInv, NextReviewInv, PTL DEF ReviewsSpec

(* No result is published, and nobody told, before every question has been *)
(* reviewed, however reviewers overwrite each other.                       *)
THEOREM NothingPublishedUnreviewed == ReviewsSpec => []PublishedFullyReviewed
  <1>1. ReviewInv => PublishedFullyReviewed
    BY DEF ReviewInv, NothingUnscored, PublishedFullyReviewed, AllScored
  <1> QED BY <1>1, ReviewInvariant, PTL

(* A published result has a completed assignment. *)
THEOREM PublishedCompletes == ReviewsSpec => []PublishedCompletesAssignment
  <1>1. ReviewInv => PublishedCompletesAssignment
    BY DEF ReviewInv, NothingUnscored, PublishedCompletesAssignment
  <1> QED BY <1>1, ReviewInvariant, PTL

(* Requests that do not overlap leave the summary, the questions, the      *)
(* reviews and the score in agreement, for any number of them.             *)
THEOREM RecordsStayInStep == ReviewsSpec => []RecordsAgree
  <1>1. ReviewInv => RecordsAgree
    BY DEF ReviewInv
  <1> QED BY <1>1, ReviewInvariant, PTL

-----------------------------------------------------------------------------
(* Questions.  The assumptions about reviews are not needed from here on.   *)
HIDE MarksAssumption

(* Induction up to a number, and recursive functions.                      *)
LEMMA LeastOf ==
  ASSUME NEW S \in SUBSET Nat, S # {}
  PROVE  \E x \in S : \A y \in S : x <= y
  <1> DEFINE Less == OpToRel(<, Nat)
  <1>1. IsWellFoundedOn(Less, Nat)
    BY NatLessThanWellFounded
  <1>2. PICK x \in S : \A y \in S : ~(<<y, x>> \in Less)
    BY <1>1, WFMin
  <1>3. \A y \in S : ~(y < x)
    BY <1>2 DEF OpToRel
  <1> QED BY <1>3

LEMMA UpTo ==
  ASSUME NEW N \in Nat, NEW H, 0 \in H, \A n \in 1..N : n - 1 \in H => n \in H
  PROVE  \A n \in 0..N : n \in H
  <1> SUFFICES ASSUME (0..N) \ H # {} PROVE FALSE
    OBVIOUS
  <1>0. (0..N) \ H \in SUBSET Nat
    OBVIOUS
  <1>1. PICK n \in (0..N) \ H : \A m \in (0..N) \ H : n <= m
    BY <1>0, LeastOf, Zenon
  <1>2. n \in 1..N /\ n - 1 \in 0..N /\ ~(n <= n - 1)
    BY <1>1
  <1> QED BY <1>1, <1>2

Turns(N, S) == [1..N -> [S -> S]]
Walks(N, S, s0, G) ==
    {f \in [0..N -> S] : f[0] = s0 /\ \A n \in 1..N : f[n] = G[n][f[n - 1]]}

LEMMA Recursion ==
  ASSUME NEW N \in Nat, NEW S, NEW s0 \in S, NEW G \in Turns(N, S)
  PROVE  \E f : f \in Walks(N, S, s0, G)
  <1> DEFINE H == {m \in 0..N : \E f \in [0..m -> S] :
                      f[0] = s0 /\ \A n \in 1..m : f[n] = G[n][f[n - 1]]}
  <1>1. 0 \in H
    <2>1. [n \in 0..0 |-> s0] \in [0..0 -> S] /\ [n \in 0..0 |-> s0][0] = s0 /\ 1..0 = {}
      OBVIOUS
    <2>2. \E f \in [0..0 -> S] : f[0] = s0 /\ \A n \in 1..0 : f[n] = G[n][f[n - 1]]
      BY <2>1, Zenon
    <2>3. 0 \in 0..N
      OBVIOUS
    <2> QED BY <2>2, <2>3, Zenon
  <1>2. ASSUME NEW m \in 1..N, m - 1 \in H PROVE m \in H
    <2>1. PICK f \in [0..(m - 1) -> S] :
            f[0] = s0 /\ \A n \in 1..(m - 1) : f[n] = G[n][f[n - 1]]
      BY <1>2
    <2> DEFINE g == [k \in 0..m |-> IF k = m THEN G[m][f[m - 1]] ELSE f[k]]
    <2>2. G[m] \in [S -> S] /\ f[m - 1] \in S
      BY DEF Turns
    <2>3. g \in [0..m -> S]
      BY <2>2
    <2>4. g[0] = s0
      BY <2>1
    <2>5. ASSUME NEW n \in 1..m PROVE g[n] = G[n][g[n - 1]]
      <3>1. n - 1 \in 0..(m - 1) /\ n - 1 # m
        OBVIOUS
      <3>2. CASE n = m
        BY <3>1, <3>2
      <3>3. CASE n # m
        <4>1. n \in 1..(m - 1)
          BY <3>3
        <4> QED BY <2>1, <3>1, <4>1
      <3> QED BY <3>2, <3>3
    <2> HIDE DEF g
    <2> QED BY <2>3, <2>4, <2>5
  <1> HIDE DEF H
  <1>3. \A m \in 0..N : m \in H
    BY <1>1, <1>2, UpTo, Zenon
  <1>4. N \in H
    BY <1>3
  <1> QED BY <1>4, Zenon DEF H, Walks

-----------------------------------------------------------------------------
(* What Keep keeps: the members at some places, in their order.            *)
Keeps(A, s, T) ==
    {f \in [0..Len(s) -> Seq(A)] :
        f[0] = <<>> /\ \A n \in 1..Len(s) :
            f[n] = IF s[n] \in T THEN Append(f[n - 1], s[n]) ELSE f[n - 1]}

LEMMA KeepSteps ==
  ASSUME NEW A, NEW s \in Seq(A), NEW T
  PROVE  \E f \in Keeps(A, s, T) : Keep(s, T) = f[Len(s)]
  <1> DEFINE N == Len(s)
             Q == Seq(A)
             Step(n, q) == IF s[n] \in T THEN Append(q, s[n]) ELSE q
             G == [n \in 1..N |-> [q \in Q |-> Step(n, q)]]
             Built(g) == g = [n \in 0..N |-> IF n = 0 THEN <<>> ELSE Step(n, g[n - 1])]
             k == CHOOSE g : Built(g)
  <1>0. N \in Nat /\ <<>> \in Q /\ \A n \in 1..N : \A q \in Q : Step(n, q) \in Q
    OBVIOUS
  <1>1. Keep(s, T) = k[N]
    BY DEF Keep
  <1> HIDE DEF N, Q, Step
  <1>2. G \in Turns(N, Q)
    BY <1>0 DEF Turns
  <1>3. PICK f \in [0..N -> Q] : f[0] = <<>> /\ \A n \in 1..N : f[n] = G[n][f[n - 1]]
    <2> HIDE DEF G
    <2>1. PICK f : f \in Walks(N, Q, <<>>, G)
      BY <1>0, <1>2, Recursion
    <2> QED BY <2>1, Zenon DEF Walks
  <1>4. ASSUME NEW n \in 1..N PROVE f[n] = Step(n, f[n - 1])
    <2>1. n - 1 \in 0..N
      BY <1>0
    <2> QED BY <1>3, <2>1
  <1>5. \A n \in 0..N : n = 0 \/ n \in 1..N
    BY <1>0
  <1>6. Built(f)
    BY <1>3, <1>4, <1>5
  <1>7. Built(k)
    <2> HIDE DEF Built
    <2> QED BY <1>6
  <1> HIDE DEF k
  <1>8. 0 \in 0..N /\ \A n \in 1..N : n \in 0..N /\ n # 0
    BY <1>0
  <1>9. k[0] = <<>> /\ \A n \in 1..N : k[n] = Step(n, k[n - 1])
    BY <1>7, <1>8
  <1> DEFINE H == {n \in 0..N : k[n] \in Q}
  <1>10. 0 \in H
    BY <1>0, <1>8, <1>9
  <1>11. ASSUME NEW n \in 1..N, n - 1 \in H PROVE n \in H
    BY <1>0, <1>8, <1>9, <1>11
  <1> HIDE DEF H
  <1>12. \A n \in 0..N : n \in H
    BY <1>0, <1>10, <1>11, UpTo, Zenon
  <1>13. k \in [0..N -> Q]
    BY <1>7, <1>12 DEF H
  <1> QED BY <1>1, <1>9, <1>13, Zenon DEF N, Q, Step, Keeps

PlacesIn(n, D) == Keep([i \in 1..n |-> i], D)

(* e lists the members of D up to m, the lesser before the greater.        *)
Lists(e, D, m) ==
    /\ Len(e) <= m
    /\ \A i, j \in 1..Len(e) : i < j => e[i] < e[j]
    /\ \A i \in 1..m : i \in D <=> \E j \in 1..Len(e) : e[j] = i
    /\ \A j \in 1..Len(e) : e[j] <= m

LEMMA ListMore ==
  ASSUME NEW N \in Nat, NEW D, NEW n \in 1..N, NEW e \in Seq(1..N), Lists(e, D, n - 1)
  PROVE  Lists(IF n \in D THEN Append(e, n) ELSE e, D, n)
  <1>0. /\ Len(e) \in Nat /\ Len(e) <= n - 1 /\ n \in Nat
        /\ \A j \in 1..Len(e) : e[j] \in Nat /\ e[j] <= n - 1 /\ e[j] # n
        /\ \A i \in 1..n : i = n \/ i \in 1..(n - 1)
    BY DEF Lists
  <1>1. CASE n \notin D
    <2>1. ASSUME NEW i \in 1..n PROVE i \in D <=> \E j \in 1..Len(e) : e[j] = i
      <3>1. CASE i = n
        BY <1>0, <1>1, <3>1
      <3>2. CASE i \in 1..(n - 1)
        BY <3>2 DEF Lists
      <3> QED BY <1>0, <3>1, <3>2
    <2> QED BY <1>0, <1>1, <2>1 DEF Lists
  <1>2. CASE n \in D
    <2>1. PICK d : d = Append(e, n)
      OBVIOUS
    <2>2. /\ Len(d) = Len(e) + 1 /\ d[Len(e) + 1] = n
          /\ \A j \in 1..Len(e) : d[j] = e[j]
      BY <2>1
    <2>3. \A j \in 1..Len(d) : j = Len(e) + 1 \/ j \in 1..Len(e)
      BY <1>0, <2>2
    <2>4. ASSUME NEW i \in 1..Len(d), NEW j \in 1..Len(d), i < j PROVE d[i] < d[j]
      <3>1. i \in 1..Len(e)
        BY <1>0, <2>2, <2>4
      <3>2. CASE j = Len(e) + 1
        BY <1>0, <2>2, <3>1, <3>2
      <3>3. CASE j \in 1..Len(e)
        BY <2>2, <2>4, <3>1, <3>3 DEF Lists
      <3> QED BY <2>3, <3>2, <3>3
    <2>5. ASSUME NEW i \in 1..n PROVE i \in D <=> \E j \in 1..Len(d) : d[j] = i
      <3>1. CASE i = n
        <4>1. Len(e) + 1 \in 1..Len(d)
          BY <1>0, <2>2
        <4> QED BY <1>2, <2>2, <3>1, <4>1
      <3>2. CASE i \in 1..(n - 1)
        <4>1. i \in D <=> \E j \in 1..Len(e) : e[j] = i
          BY <3>2 DEF Lists
        <4>2. i # n /\ \A j \in 1..Len(e) : j \in 1..Len(d)
          BY <1>0, <2>2, <3>2
        <4> QED BY <2>2, <2>3, <4>1, <4>2
      <3> QED BY <1>0, <3>1, <3>2
    <2>6. \A j \in 1..Len(d) : d[j] <= n
      BY <1>0, <2>2, <2>3
    <2>7. Len(d) <= n
      BY <1>0, <2>2
    <2> QED BY <1>2, <2>1, <2>4, <2>5, <2>6, <2>7 DEF Lists
  <1> QED BY <1>1, <1>2

LEMMA PlacesKept ==
  ASSUME NEW N \in Nat, NEW D
  PROVE  PlacesIn(N, D) \in Seq(1..N) /\ Lists(PlacesIn(N, D), D, N)
  <1> DEFINE s == [i \in 1..N |-> i]
  <1>0. s \in Seq(1..N) /\ Len(s) = N /\ \A i \in 1..N : s[i] = i
    OBVIOUS
  <1>1. PlacesIn(N, D) = Keep(s, D)
    BY DEF PlacesIn
  <1> HIDE DEF s
  <1>2. PICK f \in Keeps(1..N, s, D) : Keep(s, D) = f[N]
    BY <1>0, KeepSteps
  <1> DEFINE Q == Seq(1..N)
  <1>3. /\ f[0] = <<>> /\ \A n \in 0..N : f[n] \in Q
        /\ \A n \in 1..N : f[n] = IF n \in D THEN Append(f[n - 1], n) ELSE f[n - 1]
    <2> HIDE DEF Q
    <2> QED BY <1>0 DEF Keeps, Q
  <1> DEFINE H == {n \in 0..N : Lists(f[n], D, n)}
  <1>4. 0 \in H
    BY <1>3 DEF Lists
  <1>5. ASSUME NEW n \in 1..N, n - 1 \in H PROVE n \in H
    <2>1. n - 1 \in 0..N /\ Lists(f[n - 1], D, n - 1) /\ n \in 0..N
      BY <1>5
    <2>2. f[n - 1] \in Q
      BY <1>3, <2>1
    <2> QED BY <1>3, <2>1, <2>2, ListMore
  <1> HIDE DEF H
  <1>6. \A n \in 0..N : n \in H
    BY <1>4, <1>5, UpTo, Zenon
  <1>7. N \in 0..N
    OBVIOUS
  <1> QED BY <1>1, <1>2, <1>3, <1>6, <1>7 DEF H

(* Keep(s, T) takes the members of s at the places whose members are in T. *)
LEMMA KeepByPlaces ==
  ASSUME NEW A, NEW s \in Seq(A), NEW T,
         NEW e, e = PlacesIn(Len(s), {i \in 1..Len(s) : s[i] \in T})
  PROVE  /\ Keep(s, T) \in Seq(A) /\ Len(Keep(s, T)) = Len(e)
         /\ \A j \in 1..Len(e) : Keep(s, T)[j] = s[e[j]]
  <1>1. PICK N \in Nat : N = Len(s)
    OBVIOUS
  <1> DEFINE D == {i \in 1..N : s[i] \in T}
             t == [i \in 1..N |-> i]
  <1>2. t \in Seq(1..N) /\ Len(t) = N /\ \A i \in 1..N : t[i] = i
    OBVIOUS
  <1>3. e = Keep(t, D)
    BY <1>1 DEF PlacesIn
  <1>4. \A n \in 1..N : n \in D <=> s[n] \in T
    OBVIOUS
  <1> HIDE DEF t, D
  <1>5. PICK f \in Keeps(A, s, T) : Keep(s, T) = f[N]
    BY <1>1, KeepSteps
  <1>6. PICK g \in Keeps(1..N, t, D) : e = g[N]
    <2>1. PICK g \in Keeps(1..N, t, D) : Keep(t, D) = g[Len(t)]
      BY <1>2, KeepSteps, Zenon
    <2> QED BY <1>2, <1>3, <2>1
  <1> DEFINE Q == Seq(A)
             R == Seq(1..N)
  <1>7. /\ f[0] = <<>> /\ \A n \in 0..N : f[n] \in Q
        /\ \A n \in 1..N : f[n] = IF s[n] \in T THEN Append(f[n - 1], s[n]) ELSE f[n - 1]
    <2> HIDE DEF Q
    <2> QED BY <1>1 DEF Keeps, Q
  <1>8. /\ g[0] = <<>> /\ \A n \in 0..N : g[n] \in R
        /\ \A n \in 1..N : g[n] = IF s[n] \in T THEN Append(g[n - 1], n) ELSE g[n - 1]
    <2> HIDE DEF R
    <2>1. /\ g[0] = <<>> /\ \A n \in 0..N : g[n] \in R
          /\ \A n \in 1..N : g[n] = IF t[n] \in D THEN Append(g[n - 1], t[n]) ELSE g[n - 1]
      BY <1>2 DEF Keeps, R
    <2> QED BY <1>2, <1>4, <2>1
  <1> DEFINE H == {n \in 0..N : Len(f[n]) = Len(g[n])
                                /\ \A j \in 1..Len(g[n]) : f[n][j] = s[g[n][j]]}
  <1>9. 0 \in H
    BY <1>7, <1>8
  <1>10. ASSUME NEW n \in 1..N, n - 1 \in H PROVE n \in H
    <2>1. PICK a \in Q, b \in R : a = f[n - 1] /\ b = g[n - 1]
      <3>1. n - 1 \in 0..N
        OBVIOUS
      <3> HIDE DEF Q, R
      <3> QED BY <1>7, <1>8, <3>1
    <2>2. Len(a) = Len(b) /\ \A j \in 1..Len(b) : a[j] = s[b[j]]
      BY <1>10, <2>1
    <2>3. CASE s[n] \notin T
      <3>1. f[n] = a /\ g[n] = b /\ n \in 0..N
        BY <1>7, <1>8, <2>1, <2>3
      <3> QED BY <2>2, <3>1
    <2>4. CASE s[n] \in T
      <3>1. f[n] = Append(a, s[n]) /\ g[n] = Append(b, n) /\ n \in 0..N
        <4> HIDE DEF Q, R
        <4>1. f[n] = Append(f[n - 1], s[n])
          BY <1>7, <2>4
        <4>2. g[n] = Append(g[n - 1], n)
          BY <1>8, <2>4
        <4> QED BY <2>1, <4>1, <4>2
      <3>2. /\ Len(f[n]) = Len(a) + 1 /\ Len(g[n]) = Len(a) + 1 /\ Len(a) \in Nat
            /\ \A j \in 1..Len(a) : f[n][j] = a[j] /\ g[n][j] = b[j]
            /\ f[n][Len(a) + 1] = s[n] /\ g[n][Len(a) + 1] = n
        BY <1>1, <2>2, <3>1
      <3>3. \A j \in 1..(Len(a) + 1) : j = Len(a) + 1 \/ j \in 1..Len(a)
        BY <3>2
      <3> QED BY <2>2, <3>1, <3>2, <3>3
    <2> QED BY <2>3, <2>4
  <1>11. N \in H
    <2> HIDE DEF H
    <2>1. \A n \in 0..N : n \in H
      BY <1>9, <1>10, UpTo, Zenon
    <2> QED BY <2>1
  <1>12. f[N] \in Q
    <2> HIDE DEF Q
    <2> QED BY <1>7
  <1> QED BY <1>5, <1>6, <1>11, <1>12

-----------------------------------------------------------------------------
(* The same, for a reader of Keep: e names the places that are kept.       *)
LEMMA KeepsPlaces ==
  ASSUME NEW A, NEW s \in Seq(A), NEW T
  PROVE  \E e \in Seq(1..Len(s)) :
            /\ Len(Keep(s, T)) = Len(e) /\ Len(e) <= Len(s)
            /\ \A j \in 1..Len(e) : e[j] \in 1..Len(s) /\ Keep(s, T)[j] = s[e[j]]
            /\ \A i, j \in 1..Len(e) : e[i] = e[j] => i = j
            /\ \A i \in 1..Len(s) : s[i] \in T <=> \E j \in 1..Len(e) : e[j] = i
  <1>1. PICK N \in Nat : N = Len(s)
    OBVIOUS
  <1> DEFINE D == {i \in 1..Len(s) : s[i] \in T}
  <1>2. PICK e : e = PlacesIn(N, D)
    OBVIOUS
  <1>3. /\ Len(Keep(s, T)) = Len(e)
        /\ \A j \in 1..Len(e) : Keep(s, T)[j] = s[e[j]]
    BY <1>1, <1>2, KeepByPlaces
  <1>4. e \in Seq(1..N) /\ Lists(e, D, N)
    <2> HIDE DEF D
    <2> QED BY <1>2, PlacesKept
  <1>5. \A i \in 1..N : i \in D <=> s[i] \in T
    BY <1>1
  <1> HIDE DEF D
  <1>6. ASSUME NEW i \in 1..Len(e), NEW j \in 1..Len(e), e[i] = e[j] PROVE i = j
    <2>1. ~(i < j) /\ ~(j < i)
      BY <1>4, <1>6 DEF Lists
    <2> QED BY <1>4, <2>1
  <1>7. \A j \in 1..Len(e) : e[j] \in 1..N
    BY <1>4
  <1> QED BY <1>1, <1>3, <1>4, <1>5, <1>6, <1>7 DEF Lists

LEMMA KeepFacts ==
  ASSUME NEW A, NEW s \in Seq(A), NEW T
  PROVE  /\ Keep(s, T) \in Seq(A) /\ Len(Keep(s, T)) <= Len(s)
         /\ ToSet(Keep(s, T)) = ToSet(s) \cap T
  <1>1. PICK e \in Seq(1..Len(s)) :
            /\ Len(Keep(s, T)) = Len(e) /\ Len(e) <= Len(s)
            /\ \A j \in 1..Len(e) : e[j] \in 1..Len(s) /\ Keep(s, T)[j] = s[e[j]]
            /\ \A i, j \in 1..Len(e) : e[i] = e[j] => i = j
            /\ \A i \in 1..Len(s) : s[i] \in T <=> \E j \in 1..Len(e) : e[j] = i
    BY KeepsPlaces
  <1>2. Keep(s, T) \in Seq(A)
    BY KeepByPlaces
  <1>3. PICK k \in Seq(A) : k = Keep(s, T)
    BY <1>2
  <1>4. /\ DOMAIN k = 1..Len(k) /\ DOMAIN s = 1..Len(s)
        /\ ToSet(k) = {k[j] : j \in 1..Len(k)} /\ ToSet(s) = {s[i] : i \in 1..Len(s)}
    BY DEF ToSet
  <1>5. ASSUME NEW j \in 1..Len(k) PROVE k[j] \in ToSet(s) \cap T
    <2>1. e[j] \in 1..Len(s) /\ k[j] = s[e[j]]
      BY <1>1, <1>3, <1>5
    <2>2. s[e[j]] \in T
      BY <1>1, <1>3, <1>5, <2>1
    <2> QED BY <1>4, <2>1, <2>2
  <1>6. ASSUME NEW i \in 1..Len(s), s[i] \in T PROVE s[i] \in ToSet(k)
    <2>1. PICK j \in 1..Len(e) : e[j] = i
      BY <1>1, <1>6
    <2> QED BY <1>1, <1>3, <1>4, <2>1
  <1>7. ToSet(k) = ToSet(s) \cap T
    BY <1>4, <1>5, <1>6
  <1> QED BY <1>1, <1>2, <1>3, <1>7

(* Items are told apart by their ids.                                      *)
LEMMA ItemsKept ==
  ASSUME NEW s \in Items, NEW T
  PROVE  /\ Keep(s, T) \in Items
         /\ Differ(s) => Differ(Keep(s, T))
         /\ ToSet(Keep(s, T)) = ToSet(s) \cap T
  <1>0. s \in Seq(AnItem)
    BY DEF Items
  <1>1. PICK e \in Seq(1..Len(s)) :
            /\ Len(Keep(s, T)) = Len(e) /\ Len(e) <= Len(s)
            /\ \A j \in 1..Len(e) : e[j] \in 1..Len(s) /\ Keep(s, T)[j] = s[e[j]]
            /\ \A i, j \in 1..Len(e) : e[i] = e[j] => i = j
    BY <1>0, KeepsPlaces
  <1>2. Keep(s, T) \in Seq(AnItem) /\ ToSet(Keep(s, T)) = ToSet(s) \cap T
    BY <1>0, KeepFacts
  <1>3. PICK k \in Seq(AnItem) : k = Keep(s, T)
    BY <1>2
  <1>4. DOMAIN k = 1..Len(k) /\ DOMAIN s = 1..Len(s)
    BY <1>0
  <1>5. ASSUME Differ(s), NEW i \in 1..Len(k), NEW j \in 1..Len(k), k[i].id = k[j].id
        PROVE  i = j
    <2>1. e[i] \in 1..Len(s) /\ e[j] \in 1..Len(s) /\ s[e[i]].id = s[e[j]].id
      BY <1>1, <1>3, <1>5
    <2>2. e[i] = e[j]
      BY <1>4, <1>5, <2>1 DEF Differ
    <2> QED BY <1>1, <1>3, <2>2
  <1> QED BY <1>2, <1>3, <1>4, <1>5 DEF Items, Differ

LEMMA ItemFacts ==
  ASSUME NEW s \in Items
  PROVE  /\ DOMAIN s = 1..Len(s) /\ Len(s) \in Nat
         /\ \A i \in 1..Len(s) : s[i] \in AnItem
         /\ ToSet(s) = {s[i] : i \in 1..Len(s)} /\ IdsOf(s) = {s[i].id : i \in 1..Len(s)}
         /\ s = <<>> <=> Len(s) = 0
  BY DEF Items, IdsOf, ToSet

LEMMA IdsAreItems ==
  ASSUME NEW s \in Items
  PROVE  IdsOf(s) \subseteq Nat /\ IdsOf(s) = {x.id : x \in ToSet(s)}
  <1>1. ASSUME NEW i \in 1..Len(s) PROVE s[i].id \in Nat
    BY ItemFacts DEF AnItem
  <1> QED BY <1>1, ItemFacts

LEMMA WithoutItem ==
  ASSUME NEW s \in Items, NEW i
  PROVE  /\ Without(s, i) \in Items
         /\ Differ(s) => Differ(Without(s, i))
         /\ ToSet(Without(s, i)) = {x \in ToSet(s) : x.id # i}
         /\ IdsOf(Without(s, i)) = IdsOf(s) \ {i}
         /\ s = <<>> => Without(s, i) = <<>>
  <1>1. /\ Without(s, i) \in Items /\ (Differ(s) => Differ(Without(s, i)))
        /\ ToSet(Without(s, i)) = {x \in ToSet(s) : x.id # i}
    BY ItemsKept DEF Without
  <1>2. IdsOf(Without(s, i)) = IdsOf(s) \ {i}
    BY <1>1, IdsAreItems
  <1>3. Len(Without(s, i)) <= Len(s)
    BY KeepFacts DEF Without, Items
  <1> QED BY <1>1, <1>2, <1>3, IdsAreItems

LEMMA AppendedItem ==
  ASSUME NEW s \in Items, NEW x \in AnItem
  PROVE  /\ Append(s, x) \in Items /\ Len(Append(s, x)) = Len(s) + 1
         /\ ToSet(Append(s, x)) = ToSet(s) \cup {x}
         /\ IdsOf(Append(s, x)) = IdsOf(s) \cup {x.id}
         /\ Append(s, x)[Len(s) + 1] = x
         /\ \A i \in 1..Len(s) : Append(s, x)[i] = s[i]
         /\ Differ(s) /\ x.id \notin IdsOf(s) => Differ(Append(s, x))
  <1>1. PICK a \in Seq(AnItem) : a = Append(s, x)
    <2>1. s \in Seq(AnItem)
      BY DEF Items
    <2>2. Append(s, x) \in Seq(AnItem)
      BY <2>1
    <2> QED BY <2>2
  <1>0. a \in Items
    BY DEF Items
  <1>2. /\ Len(a) = Len(s) + 1 /\ a[Len(s) + 1] = x
        /\ \A i \in 1..Len(s) : a[i] = s[i]
    BY <1>1 DEF Items
  <1>3. \A i \in 1..(Len(s) + 1) : i = Len(s) + 1 \/ i \in 1..Len(s)
    BY ItemFacts
  <1>4. 1..Len(s) \subseteq 1..(Len(s) + 1) /\ Len(s) + 1 \in 1..(Len(s) + 1)
    BY ItemFacts
  <1>5. /\ ToSet(a) = {a[i] : i \in 1..(Len(s) + 1)} /\ IdsOf(a) = {a[i].id : i \in 1..(Len(s) + 1)}
        /\ ToSet(s) = {s[i] : i \in 1..Len(s)} /\ IdsOf(s) = {s[i].id : i \in 1..Len(s)}
    BY <1>0, <1>2, ItemFacts
  <1>6. ToSet(a) = ToSet(s) \cup {x} /\ IdsOf(a) = IdsOf(s) \cup {x.id}
    <2>1. \A i \in 1..(Len(s) + 1) : a[i] = x \/ a[i] \in ToSet(s)
      BY <1>2, <1>3, <1>5
    <2>2. \A i \in 1..(Len(s) + 1) : a[i].id = x.id \/ a[i].id \in IdsOf(s)
      BY <1>2, <1>3, <1>5
    <2>3. x \in ToSet(a) /\ x.id \in IdsOf(a)
      BY <1>2, <1>4, <1>5
    <2>4. \A i \in 1..Len(s) : s[i] \in ToSet(a) /\ s[i].id \in IdsOf(a)
      BY <1>2, <1>4, <1>5
    <2>5. ToSet(a) \subseteq ToSet(s) \cup {x} /\ ToSet(s) \subseteq ToSet(a)
      BY <1>5, <2>1, <2>4
    <2>6. IdsOf(a) \subseteq IdsOf(s) \cup {x.id} /\ IdsOf(s) \subseteq IdsOf(a)
      BY <1>5, <2>2, <2>4
    <2> QED BY <2>3, <2>5, <2>6
  <1>7. ASSUME Differ(s), x.id \notin IdsOf(s) PROVE Differ(a)
    BY <1>0, <1>2, <1>3, <1>5, <1>7, ItemFacts DEF Differ
  <1> QED BY <1>0, <1>1, <1>2, <1>6, <1>7

Fill(s, i, b) == [s EXCEPT ![i].filled = b]

LEMMA FilledItem ==
  ASSUME NEW s \in Items, NEW i \in DOMAIN s, NEW b \in BOOLEAN
  PROVE  /\ Fill(s, i, b) \in Items /\ Len(Fill(s, i, b)) = Len(s)
         /\ \A j \in 1..Len(s) : /\ Fill(s, i, b)[j].id = s[j].id
                                 /\ Fill(s, i, b)[j].from = s[j].from
                                 /\ Fill(s, i, b)[j].to = s[j].to
         /\ IdsOf(Fill(s, i, b)) = IdsOf(s) /\ (Differ(s) => Differ(Fill(s, i, b)))
  <1>1. s \in Seq(AnItem) /\ s[i] \in AnItem /\ i \in 1..Len(s)
    BY DEF Items
  <1>2. PICK x \in AnItem :
          x = [s[i] EXCEPT !.filled = b] /\ x.id = s[i].id /\ x.from = s[i].from /\ x.to = s[i].to
    <2>1. PICK r \in AnItem : r = s[i]
      BY <1>1
    <2>2. [r EXCEPT !.filled = b] \in AnItem
      BY DEF AnItem
    <2>3. LET x == [r EXCEPT !.filled = b] IN x.id = r.id /\ x.from = r.from /\ x.to = r.to
      BY DEF AnItem
    <2> QED BY <2>1, <2>2, <2>3
  <1>3. Fill(s, i, b) = [s EXCEPT ![i] = x]
    BY <1>2 DEF Fill
  <1>4. PICK f : f = Fill(s, i, b)
    OBVIOUS
  <1>5. f \in Seq(AnItem) /\ Len(f) = Len(s) /\ \A j \in 1..Len(s) : f[j] = IF j = i THEN x ELSE s[j]
    BY <1>1, <1>3, <1>4, ExceptSeq
  <1>6. \A j \in 1..Len(s) : f[j].id = s[j].id /\ f[j].from = s[j].from /\ f[j].to = s[j].to
    BY <1>2, <1>5
  <1>7. f \in Items
    BY <1>5 DEF Items
  <1>8. IdsOf(f) = IdsOf(s)
    <2>1. IdsOf(f) = {f[j].id : j \in 1..Len(s)} /\ IdsOf(s) = {s[j].id : j \in 1..Len(s)}
      BY <1>5, <1>7, ItemFacts
    <2> QED BY <1>6, <2>1
  <1>9. Differ(s) => Differ(f)
    BY <1>5, <1>6, <1>7, ItemFacts DEF Differ
  <1> QED BY <1>4, <1>5, <1>6, <1>7, <1>8, <1>9

-----------------------------------------------------------------------------
USE QuestionsAssumption

(* A content by its parts.                                                 *)
Typed(c) == c.type \in Types /\ c.mode \in Modes(c.type) /\ c \in ContentOf(c.type, c.mode)

Placed(t, n, x) ==
    /\ IF t = "content_review" THEN x.id = x.from ELSE x.id <= n
    /\ IF t = "hotspot" THEN x.from <= x.to ELSE x.from = x.to
Fine(t, n, s) == Differ(s) /\ \A x \in ToSet(s) : Placed(t, n, x)

Named(c) ==
    /\ c.type \in {"mcq", "image_comparison"} => ToSet(c.key) \subseteq IdsOf(c.items)
    /\ c.type = "image_comparison" \/ (c.type = "mcq" /\ ~c.multiple) => Len(c.key) <= 1
    /\ c.mode = "sequence" => c.key = InOrder(c.items)
    /\ c.mode = "match" =>
          /\ Len(c.others) = Len(c.items)
          /\ c.key = [i \in DOMAIN c.items |-> <<c.items[i].id, c.others[i].id>>]
    /\ c.type = "content_review" => \A e \in ToSet(c.items) : e.from < c.words
    /\ c.others # <<>> => c.mode \in {"checklist", "match"}

Sound(c, n) == n \in Nat /\ Typed(c) /\ Fine(c.type, n, c.items) /\ Fine(c.type, n, c.others) /\ Named(c)

Core == QuestionsTypeOK /\ Numbered /\ KeyNamesItems /\ Accepted

LEMMA CoreIsSound ==
  Core <=> /\ Sound(content, made)
           /\ stage \in {"form", "stored", "paper"} /\ answer \in Seq(ClaimsOf(content))
           /\ Accepted
  BY DEF Core, Sound, Typed, Fine, Placed, Named, QuestionsTypeOK, Numbered, KeyNamesItems

LEMMA CoreIsSoundNext ==
  Core' <=> /\ Sound(content', made')
            /\ stage' \in {"form", "stored", "paper"} /\ answer' \in Seq(ClaimsOf(content'))
            /\ Accepted'
  BY DEF Core, Sound, Typed, Fine, Placed, Named, QuestionsTypeOK, Numbered, KeyNamesItems

LEMMA FormKeeps ==
  ASSUME Core, stage = "form", UNCHANGED <<stage, answer>>, Sound(content', made')
  PROVE  Core'
  <1>1. answer' = <<>> /\ stage' = "form"
    BY DEF Core, Accepted
  <1>2. answer' \in Seq(ClaimsOf(content'))
    BY <1>1
  <1>3. Accepted'
    BY <1>1 DEF Accepted
  <1> QED BY <1>1, <1>2, <1>3, CoreIsSoundNext

-----------------------------------------------------------------------------
(* What an editor leaves as it was.                                         *)
LEMMA TypedParts ==
  ASSUME NEW c, Typed(c)
  PROVE  /\ c.items \in Items /\ c.others \in Items /\ c.key \in Seq(Keys(c.type, c.mode))
         /\ c.multiple \in BOOLEAN /\ c.words \in Nat /\ c.indented \in BOOLEAN
         /\ c.tolerance \in Nat /\ c.marks \in Nat /\ c.penalty \in Nat
         /\ c.type \in Types /\ c.mode \in Modes(c.type)
  BY DEF Typed, ContentOf

(* The modes of a type, and its keys.                                      *)
LEMMA ModeOfType ==
  ASSUME NEW c, Typed(c)
  PROVE  /\ c.type = "drag_drop" => c.mode \in {"sequence", "match"}
         /\ c.type = "find_mistakes" => c.mode \in {"checklist", "typed"}
         /\ c.type \notin {"drag_drop", "find_mistakes"} => c.mode = ""
         /\ c.type = "true_false" => Keys(c.type, c.mode) = BOOLEAN
         /\ c.mode = "match" => c.type = "drag_drop" /\ Keys(c.type, c.mode) = Nat \X Nat
         /\ c.mode # "match" /\ c.type # "true_false" => Keys(c.type, c.mode) = Nat
  BY DEF Typed, Modes, Keys, Types

Rest(c, d) ==
    /\ d.type = c.type /\ d.mode = c.mode /\ d.partial = c.partial /\ d.media = c.media
    /\ d.tolerance = c.tolerance /\ d.marks = c.marks /\ d.penalty = c.penalty

LEMMA ItemsSet ==
  ASSUME NEW c, Typed(c), NEW s \in Items
  PROVE  LET d == [c EXCEPT !.items = s] IN
         /\ Typed(d) /\ Rest(c, d) /\ d.items = s /\ d.others = c.others
         /\ d.key = c.key /\ d.multiple = c.multiple /\ d.words = c.words /\ d.indented = c.indented
  BY DEF Typed, ContentOf, Rest

LEMMA OthersSet ==
  ASSUME NEW c, Typed(c), NEW s \in Items
  PROVE  LET d == [c EXCEPT !.others = s] IN
         /\ Typed(d) /\ Rest(c, d) /\ d.others = s /\ d.items = c.items
         /\ d.key = c.key /\ d.multiple = c.multiple /\ d.words = c.words /\ d.indented = c.indented
  BY DEF Typed, ContentOf, Rest

LEMMA KeySet ==
  ASSUME NEW c, Typed(c), NEW k \in Seq(Keys(c.type, c.mode))
  PROVE  LET d == [c EXCEPT !.key = k] IN
         /\ Typed(d) /\ Rest(c, d) /\ d.items = c.items /\ d.others = c.others
         /\ d.key = k /\ d.multiple = c.multiple /\ d.words = c.words /\ d.indented = c.indented
  BY DEF Typed, ContentOf, Rest

-----------------------------------------------------------------------------
(* Lists of items.                                                         *)
LEMMA FineEmpty ==
  ASSUME NEW t, NEW n PROVE Fine(t, n, <<>>)
  BY DEF Fine, Differ, ToSet

LEMMA FineLess ==
  ASSUME NEW t, NEW n, NEW s \in Items, NEW T, Fine(t, n, s)
  PROVE  Fine(t, n, Keep(s, T))
  BY ItemsKept DEF Fine

LEMMA FineWithout ==
  ASSUME NEW t, NEW n, NEW s \in Items, NEW i, Fine(t, n, s)
  PROVE  Fine(t, n, Without(s, i))
  BY FineLess DEF Without

LEMMA FineLater ==
  ASSUME NEW t, NEW n \in Nat, NEW s \in Items, t # "content_review", Fine(t, n, s)
  PROVE  Fine(t, n + 1, s)
  <1>1. ASSUME NEW x \in ToSet(s) PROVE Placed(t, n + 1, x)
    <2>1. x \in AnItem /\ Placed(t, n, x)
      BY <1>1, ItemFacts DEF Fine
    <2>2. x.id \in Nat
      BY <2>1 DEF AnItem
    <2> QED BY <2>1, <2>2 DEF Placed
  <1> QED BY <1>1 DEF Fine

LEMMA FineMore ==
  ASSUME NEW t, NEW n \in Nat, NEW s \in Items, t # "content_review", Fine(t, n, s),
         NEW x \in AnItem, x.id = n + 1, Placed(t, n + 1, x)
  PROVE  Fine(t, n + 1, Append(s, x))
  <1>1. \A y \in ToSet(s) : y.id <= n
    BY DEF Fine, Placed
  <1>2. n + 1 \notin IdsOf(s)
    BY <1>1, IdsAreItems
  <1>3. Differ(Append(s, x)) /\ ToSet(Append(s, x)) = ToSet(s) \cup {x}
    BY <1>2, AppendedItem DEF Fine
  <1> QED BY <1>3, FineLater DEF Fine

LEMMA FineFilled ==
  ASSUME NEW t, NEW n, NEW s \in Items, NEW i \in DOMAIN s, NEW b \in BOOLEAN, Fine(t, n, s)
  PROVE  Fine(t, n, Fill(s, i, b))
  <1>1. PICK f \in Items : f = Fill(s, i, b)
    BY FilledItem
  <1>2. /\ Len(f) = Len(s) /\ (Differ(s) => Differ(f))
        /\ \A j \in 1..Len(s) : f[j].id = s[j].id /\ f[j].from = s[j].from /\ f[j].to = s[j].to
    BY <1>1, FilledItem
  <1>3. ASSUME NEW j \in 1..Len(s) PROVE Placed(t, n, f[j])
    <2>1. Placed(t, n, s[j])
      BY <1>3, ItemFacts DEF Fine
    <2> QED BY <1>2, <2>1 DEF Placed
  <1>4. ToSet(f) = {f[j] : j \in 1..Len(s)}
    BY <1>2, ItemFacts
  <1> QED BY <1>1, <1>2, <1>3, <1>4 DEF Fine

LEMMA NewItem ==
  ASSUME NEW i \in Nat, NEW p \in Nat, NEW q \in Nat
  PROVE  /\ Item(i, p, q) \in AnItem /\ Item(i, p, q).id = i
         /\ Item(i, p, q).from = p /\ Item(i, p, q).to = q
  BY DEF Item, AnItem

Filled1(i, p, q) == [Item(i, p, q) EXCEPT !.filled = TRUE]

LEMMA NewFilled ==
  ASSUME NEW i \in Nat, NEW p \in Nat, NEW q \in Nat
  PROVE  /\ Filled1(i, p, q) \in AnItem /\ Filled1(i, p, q).id = i
         /\ Filled1(i, p, q).from = p /\ Filled1(i, p, q).to = q
  BY DEF Filled1, Item, AnItem

-----------------------------------------------------------------------------
(* What the inductive invariant says of the content being edited.           *)
LEMMA ContentFacts ==
  ASSUME Core
  PROVE  /\ Typed(content) /\ made \in Nat /\ Sound(content, made) /\ Named(content)
         /\ Fine(content.type, made, content.items) /\ Fine(content.type, made, content.others)
         /\ content.items \in Items /\ content.others \in Items
         /\ content.key \in Seq(Keys(content.type, content.mode))
         /\ content.mode \notin {"checklist", "match"} =>
               content.others = <<>> /\ IdsOf(content.others) = {}
  <1>1. Sound(content, made) /\ Typed(content)
    BY CoreIsSound DEF Sound
  <1>2. content.mode \notin {"checklist", "match"} =>
               content.others = <<>> /\ IdsOf(content.others) = {}
    BY <1>1 DEF Sound, Named, IdsOf
  <1> QED BY <1>1, <1>2, TypedParts DEF Sound

(* A new list of items with the rest as it was.                            *)
LEMMA FillKeeps ==
  ASSUME Core, NEW i \in 1..MaxItems, NEW b \in BOOLEAN, FillItem(i, b)
  PROVE  Core'
  <1>0. stage = "form" /\ UNCHANGED <<stage, answer>> /\ made' = made
    BY DEF FillItem, Change
  <1>1. CASE i \in DOMAIN content.items /\ Change([content EXCEPT !.items[i].filled = b])
    <2>1. PICK s \in Items : s = Fill(content.items, i, b)
      BY <1>1, ContentFacts, FilledItem
    <2>2. content' = [content EXCEPT !.items = s]
      BY <1>1, <2>1 DEF Change, Fill
    <2>3. PICK d : d = [content EXCEPT !.items = s]
      OBVIOUS
    <2>4. /\ Typed(d) /\ d.type = content.type /\ d.mode = content.mode /\ d.items = s
          /\ d.others = content.others /\ d.key = content.key
          /\ d.multiple = content.multiple /\ d.words = content.words
      BY <2>1, <2>3, ContentFacts, ItemsSet DEF Rest
    <2>5. Fine(d.type, made, d.items) /\ IdsOf(s) = IdsOf(content.items)
      BY <1>1, <2>1, <2>4, ContentFacts, FineFilled, FilledItem
    <2>a. DOMAIN content.items = 1..Len(content.items)
      BY ContentFacts, ItemFacts
    <2>b. /\ Len(s) = Len(content.items)
          /\ \A j \in 1..Len(s) : s[j].id = content.items[j].id /\ s[j].from = content.items[j].from
      BY <1>1, <2>1, ContentFacts, FilledItem
    <2>c. DOMAIN s = 1..Len(s)
      BY ItemFacts
    <2>6. /\ Len(s) = Len(content.items) /\ DOMAIN s = DOMAIN content.items
          /\ \A j \in DOMAIN s : s[j].id = content.items[j].id /\ s[j].from = content.items[j].from
      BY <2>a, <2>b, <2>c
    <2>7. InOrder(s) = InOrder(content.items)
      BY <2>6 DEF InOrder
    <2>8. [j \in DOMAIN s |-> <<s[j].id, d.others[j].id>>]
            = [j \in DOMAIN content.items |-> <<content.items[j].id, content.others[j].id>>]
      BY <2>4, <2>6
    <2>9. (\A e \in ToSet(content.items) : e.from < content.words)
            => \A e \in ToSet(s) : e.from < content.words
      BY <2>6 DEF ToSet
    <2>10. Named(d)
      BY <2>4, <2>5, <2>6, <2>7, <2>8, <2>9, ContentFacts DEF Named
    <2> QED BY <1>0, <2>2, <2>3, <2>4, <2>5, <2>10, ContentFacts, FormKeeps DEF Sound
  <1>2. CASE i \in DOMAIN content.others /\ Change([content EXCEPT !.others[i].filled = b])
    <2>1. PICK s \in Items : s = Fill(content.others, i, b)
      BY <1>2, ContentFacts, FilledItem
    <2>2. content' = [content EXCEPT !.others = s]
      BY <1>2, <2>1 DEF Change, Fill
    <2>3. PICK d : d = [content EXCEPT !.others = s]
      OBVIOUS
    <2>4. /\ Typed(d) /\ d.type = content.type /\ d.mode = content.mode /\ d.others = s
          /\ d.items = content.items /\ d.key = content.key
          /\ d.multiple = content.multiple /\ d.words = content.words
      BY <2>1, <2>3, ContentFacts, OthersSet DEF Rest
    <2>5. Fine(d.type, made, d.others)
      BY <1>2, <2>1, <2>4, ContentFacts, FineFilled
    <2>6. /\ Len(s) = Len(content.others) /\ DOMAIN content.others = 1..Len(s)
          /\ \A j \in 1..Len(s) : s[j].id = content.others[j].id
      BY <1>2, <2>1, ContentFacts, FilledItem, ItemFacts
    <2>7. DOMAIN content.items = 1..Len(content.items)
      BY ContentFacts, ItemFacts
    <2>8. ASSUME content.mode = "match"
          PROVE  [j \in DOMAIN d.items |-> <<d.items[j].id, s[j].id>>]
            = [j \in DOMAIN content.items |-> <<content.items[j].id, content.others[j].id>>]
      BY <2>4, <2>6, <2>7, <2>8, ContentFacts DEF Named
    <2>9. content.others # <<>>
      BY <1>2
    <2>10. Named(d)
      BY <2>4, <2>6, <2>8, <2>9, ContentFacts DEF Named
    <2> QED BY <1>0, <2>2, <2>3, <2>4, <2>5, <2>10, ContentFacts, FormKeeps DEF Sound
  <1> QED BY <1>1, <1>2 DEF FillItem

(* Fields that no part of the invariant speaks of.                         *)
LEMMA SettingKeeps ==
  ASSUME Core, \/ \E b \in BOOLEAN : SetMedia(b) \/ SetPartial(b)
               \/ \E n \in Tolerances : SetTolerance(n)
  PROVE  Core'
  <1>0. stage = "form" /\ UNCHANGED <<stage, answer>> /\ made' = made
    BY DEF SetMedia, SetPartial, SetTolerance, Is, Change
  <1>1. PICK d : /\ content' = d /\ Typed(d) /\ d.type = content.type /\ d.mode = content.mode
                 /\ d.items = content.items /\ d.others = content.others /\ d.key = content.key
                 /\ d.multiple = content.multiple /\ d.words = content.words
    <2>1. CASE \E b \in BOOLEAN : SetMedia(b)
      <3>1. PICK b \in BOOLEAN : content' = [content EXCEPT !.media = b]
        BY <2>1 DEF SetMedia, Change
      <3> QED BY <3>1, ContentFacts DEF Typed, ContentOf
    <2>2. CASE \E b \in BOOLEAN : SetPartial(b)
      <3>1. PICK b \in BOOLEAN : content' = [content EXCEPT !.partial = b]
        BY <2>2 DEF SetPartial, Change
      <3> QED BY <3>1, ContentFacts DEF Typed, ContentOf
    <2>3. CASE \E n \in Tolerances : SetTolerance(n)
      <3>1. PICK n \in Tolerances : content' = [content EXCEPT !.tolerance = n]
        BY <2>3 DEF SetTolerance, Change
      <3>2. n \in Nat
        OBVIOUS
      <3> QED BY <3>1, <3>2, ContentFacts DEF Typed, ContentOf
    <2> QED BY <2>1, <2>2, <2>3
  <1>2. Named(d)
    BY <1>1, ContentFacts DEF Named
  <1> QED BY <1>0, <1>1, <1>2, ContentFacts, FormKeeps DEF Sound

-----------------------------------------------------------------------------
(* Items that are added, without and with the key.                         *)
LEMMA AddedKeeps ==
  ASSUME Core, stage = "form", UNCHANGED <<stage, answer>>, made' = made + 1,
         content.type \notin {"content_review", "drag_drop"},
         NEW x \in AnItem, x.id = made + 1, Placed(content.type, made + 1, x),
         content' = [content EXCEPT !.items = Append(@, x)]
  PROVE  Core'
  <1>1. PICK s \in Items : s = Append(content.items, x)
    BY ContentFacts, AppendedItem
  <1>2. PICK d : d = [content EXCEPT !.items = s]
    OBVIOUS
  <1>3. /\ Typed(d) /\ d.type = content.type /\ d.mode = content.mode /\ d.items = s
        /\ d.others = content.others /\ d.key = content.key
        /\ d.multiple = content.multiple /\ d.words = content.words /\ content' = d
    BY <1>1, <1>2, ContentFacts, ItemsSet DEF Rest
  <1>4. /\ Fine(d.type, made + 1, d.items) /\ Fine(d.type, made + 1, d.others)
        /\ made + 1 \in Nat
    BY <1>1, <1>3, ContentFacts, FineMore, FineLater
  <1>5. IdsOf(content.items) \subseteq IdsOf(s)
    BY <1>1, ContentFacts, AppendedItem
  <1>6. d.mode \notin {"sequence", "match"}
    BY <1>3, ContentFacts, ModeOfType
  <1>7. Named(d)
    BY <1>3, <1>5, <1>6, ContentFacts DEF Named
  <1> QED BY <1>3, <1>4, <1>7, FormKeeps DEF Sound

LEMMA AddKeeps ==
  ASSUME Core, \/ AddOption \/ AddImage \/ AddLabel(FALSE)
               \/ \E p, q \in 0..Places : DrawZone(p, q)
               \/ \E p \in 0..Places : AddMistake(p)
  PROVE  Core'
  <1>0. made \in Nat /\ stage = "form" /\ UNCHANGED <<stage, answer>> /\ made' = made + 1
    BY ContentFacts DEF AddOption, AddImage, AddLabel, DrawZone, AddMistake, Is, NewId
  <1>1. PICK i \in Nat : i = made'
    BY <1>0
  <1>2. CASE AddOption \/ AddImage \/ AddLabel(FALSE)
    <2>0. PICK x \in AnItem : x = Item(i, 0, 0) /\ x.id = i /\ x.from = 0 /\ x.to = 0
      BY NewItem
    <2>1. Placed(content.type, i, x) /\ content.type \notin {"content_review", "drag_drop"}
      BY <1>2, <1>1, <2>0 DEF AddOption, AddImage, AddLabel, Is, Placed
    <2>2. content' = [content EXCEPT !.items = Append(@, x)]
      BY <1>1, <1>2, <2>0 DEF AddOption, AddImage, AddLabel
    <2> QED BY <1>0, <1>1, <2>0, <2>1, <2>2, AddedKeeps
  <1>3. ASSUME NEW p \in 0..Places, NEW q \in 0..Places, DrawZone(p, q) PROVE Core'
    <2>1. PICK x \in AnItem : x = Filled1(i, p, q) /\ x.id = i /\ x.from = p /\ x.to = q
      BY NewFilled
    <2>2. Placed(content.type, i, x) /\ content.type \notin {"content_review", "drag_drop"}
      BY <1>1, <1>3, <2>1 DEF DrawZone, Is, Placed
    <2>3. content' = [content EXCEPT !.items = Append(@, x)]
      BY <1>1, <1>3, <2>1 DEF DrawZone, Filled1
    <2> QED BY <1>0, <1>1, <2>1, <2>2, <2>3, AddedKeeps
  <1>4. ASSUME NEW p \in 0..Places, AddMistake(p) PROVE Core'
    <2>0. PICK x \in AnItem : x = Item(i, p, p) /\ x.id = i /\ x.from = p /\ x.to = p
      BY NewItem
    <2>1. Placed(content.type, i, x) /\ content.type \notin {"content_review", "drag_drop"}
      BY <1>1, <1>4, <2>0 DEF AddMistake, Is, Placed
    <2>2. content' = [content EXCEPT !.items = Append(@, x)]
      BY <1>1, <1>4, <2>0 DEF AddMistake
    <2> QED BY <1>0, <1>1, <2>0, <2>1, <2>2, AddedKeeps
  <1> QED BY <1>2, <1>3, <1>4

LEMMA AddDistractorKeeps ==
  ASSUME Core, AddLabel(TRUE)
  PROVE  Core'
  <1>0. made \in Nat /\ stage = "form" /\ UNCHANGED <<stage, answer>> /\ made' = made + 1
    BY ContentFacts DEF AddLabel, Is, NewId
  <1>1. PICK i \in Nat : i = made'
    BY <1>0
  <1>2. PICK x \in AnItem : x = Item(i, 0, 0) /\ x.id = i /\ x.from = 0 /\ x.to = 0
    BY NewItem
  <1>3. PICK s \in Items : s = Append(content.others, x)
    BY ContentFacts, AppendedItem
  <1>4. PICK d : d = [content EXCEPT !.others = s]
    OBVIOUS
  <1>5. content' = d /\ content.type = "find_mistakes" /\ content.mode = "checklist"
    BY <1>1, <1>2, <1>3, <1>4 DEF AddLabel, Is
  <1>6. /\ Typed(d) /\ d.type = content.type /\ d.mode = content.mode /\ d.others = s
        /\ d.items = content.items
    BY <1>3, <1>4, ContentFacts, OthersSet DEF Rest
  <1>7. Placed(content.type, i, x)
    BY <1>1, <1>2, <1>5 DEF Placed
  <1>8. Fine(d.type, i, d.items) /\ Fine(d.type, i, d.others)
    BY <1>0, <1>1, <1>2, <1>3, <1>5, <1>6, <1>7, ContentFacts, FineMore, FineLater
  <1>9. Named(d)
    BY <1>5, <1>6 DEF Named
  <1> QED BY <1>0, <1>1, <1>5, <1>6, <1>8, <1>9, FormKeeps DEF Sound

-----------------------------------------------------------------------------
(* Keys that are set.                                                      *)
LEMMA KeyChanged ==
  ASSUME Core, stage = "form", UNCHANGED <<stage, answer, made>>,
         NEW k \in Seq(Keys(content.type, content.mode)),
         content' = [content EXCEPT !.key = k], content.type # "drag_drop",
         content.type \in {"mcq", "image_comparison"} => ToSet(k) \subseteq IdsOf(content.items),
         content.type = "image_comparison" \/ (content.type = "mcq" /\ ~content.multiple) => Len(k) <= 1
  PROVE  Core'
  <1>1. PICK d : d = [content EXCEPT !.key = k]
    OBVIOUS
  <1>2. /\ Typed(d) /\ d.type = content.type /\ d.mode = content.mode /\ d.items = content.items
        /\ d.others = content.others /\ d.key = k
        /\ d.multiple = content.multiple /\ d.words = content.words /\ content' = d
    BY <1>1, ContentFacts, KeySet DEF Rest
  <1>3. d.mode \notin {"sequence", "match"}
    BY <1>2, ContentFacts, ModeOfType
  <1>4. Named(d)
    BY <1>2, <1>3, ContentFacts DEF Named
  <1> QED BY <1>2, <1>4, ContentFacts, FormKeeps DEF Sound

LEMMA OneKey ==
  ASSUME NEW A, NEW x \in A
  PROVE  <<x>> \in Seq(A) /\ ToSet(<<x>>) = {x} /\ Len(<<x>>) = 1
  BY DEF ToSet

LEMMA FlipFacts ==
  ASSUME NEW A, NEW s \in Seq(A), NEW x \in A
  PROVE  Flip(s, x) \in Seq(A) /\ ToSet(Flip(s, x)) \subseteq ToSet(s) \cup {x}
  <1>1. CASE x \in ToSet(s)
    BY <1>1, KeepFacts DEF Flip
  <1>2. CASE x \notin ToSet(s)
    <2>0. Append(s, x) \in Seq(A)
      OBVIOUS
    <2>1. PICK a \in Seq(A) : a = Append(s, x)
      BY <2>0
    <2>2. /\ Len(a) = Len(s) + 1 /\ a[Len(s) + 1] = x /\ Len(s) \in Nat
          /\ \A i \in 1..Len(s) : a[i] = s[i]
      BY <2>1
    <2>3. \A i \in 1..Len(a) : i = Len(s) + 1 \/ i \in 1..Len(s)
      BY <2>2
    <2>4. DOMAIN a = 1..Len(a) /\ DOMAIN s = 1..Len(s)
      OBVIOUS
    <2>5. ToSet(a) \subseteq ToSet(s) \cup {x}
      BY <2>2, <2>3, <2>4 DEF ToSet
    <2> QED BY <1>2, <2>1, <2>5 DEF Flip
  <1> QED BY <1>1, <1>2

LEMMA ToggleCorrectKeeps ==
  ASSUME Core, NEW i \in IdsOf(content.items) \cup IdsOf(content.others), ToggleCorrect(i)
  PROVE  Core'
  <1>0. stage = "form" /\ UNCHANGED <<stage, answer, made>> /\ content.type = "mcq"
    BY DEF ToggleCorrect, Is, Change
  <1>1. content.mode = "" /\ Keys(content.type, content.mode) = Nat
    BY <1>0, ContentFacts, ModeOfType
  <1>2. content.key \in Seq(Nat) /\ i \in IdsOf(content.items) /\ i \in Nat
    BY <1>1, ContentFacts, IdsAreItems
  <1>3. PICK k : k = IF content.multiple THEN Flip(content.key, i) ELSE <<i>>
    OBVIOUS
  <1>4. k \in Seq(Nat) /\ ToSet(k) \subseteq ToSet(content.key) \cup {i}
    <2>1. CASE content.multiple
      BY <1>2, <1>3, <2>1, FlipFacts
    <2>2. CASE ~content.multiple
      BY <1>2, <1>3, <2>2, OneKey
    <2> QED BY <2>1, <2>2
  <1>5. ToSet(k) \subseteq IdsOf(content.items)
    BY <1>0, <1>2, <1>4, ContentFacts DEF Named
  <1>6. ~content.multiple => Len(k) <= 1
    BY <1>2, <1>3, OneKey
  <1>7. content' = [content EXCEPT !.key = k]
    BY <1>3 DEF ToggleCorrect, Change
  <1> QED BY <1>0, <1>1, <1>4, <1>5, <1>6, <1>7, KeyChanged

LEMMA MarkImageKeeps ==
  ASSUME Core, NEW i \in IdsOf(content.items) \cup IdsOf(content.others), MarkImage(i)
  PROVE  Core'
  <1>0. stage = "form" /\ UNCHANGED <<stage, answer, made>> /\ content.type = "image_comparison"
    BY DEF MarkImage, Is, Change
  <1>1. content.mode = "" /\ Keys(content.type, content.mode) = Nat
    BY <1>0, ContentFacts, ModeOfType
  <1>2. i \in IdsOf(content.items) /\ i \in Nat
    BY <1>1, ContentFacts, IdsAreItems
  <1>a. <<i>> \in Seq(Nat) /\ ToSet(<<i>>) = {i} /\ Len(<<i>>) = 1
    BY <1>2, OneKey
  <1>3. PICK k : k = <<i>>
    OBVIOUS
  <1>b. k \in Seq(Nat) /\ ToSet(k) \subseteq IdsOf(content.items) /\ Len(k) <= 1
    BY <1>2, <1>3, <1>a
  <1>4. content' = [content EXCEPT !.key = k]
    BY <1>3 DEF MarkImage, Change
  <1> QED BY <1>0, <1>1, <1>b, <1>4, KeyChanged

LEMMA SetCorrectAnswerKeeps ==
  ASSUME Core, NEW b \in BOOLEAN, SetCorrectAnswer(b)
  PROVE  Core'
  <1>0. stage = "form" /\ UNCHANGED <<stage, answer, made>> /\ content.type = "true_false"
    BY DEF SetCorrectAnswer, Is, Change
  <1>1. Keys(content.type, content.mode) = BOOLEAN
    BY <1>0, ContentFacts, ModeOfType
  <1>3. PICK k \in Seq(BOOLEAN) : k = <<b>>
    BY OneKey
  <1>4. content' = [content EXCEPT !.key = k]
    BY <1>3 DEF SetCorrectAnswer, Change
  <1> QED BY <1>0, <1>1, <1>3, <1>4, KeyChanged

LEMMA SetMultipleKeeps ==
  ASSUME Core, NEW b \in BOOLEAN, SetMultiple(b)
  PROVE  Core'
  <1>0. stage = "form" /\ UNCHANGED <<stage, answer, made>> /\ content.type = "mcq"
    BY DEF SetMultiple, Is, Change
  <1>1. content.mode = "" /\ Keys(content.type, content.mode) = Nat
    BY <1>0, ContentFacts, ModeOfType
  <1>2. PICK k : k = IF b \/ content.key = <<>> THEN content.key ELSE <<Head(content.key)>>
    OBVIOUS
  <1>3. PICK c \in Seq(Nat) : c = content.key
    BY <1>1, ContentFacts
  <1>4. k \in Seq(Nat) /\ ToSet(k) \subseteq ToSet(c) /\ (~b => Len(k) <= 1)
    <2>1. CASE b
      BY <1>2, <1>3, <2>1
    <2>2. CASE ~b /\ c = <<>>
      BY <1>2, <1>3, <2>2
    <2>3. CASE ~b /\ c # <<>>
      <3>1. k = <<c[1]>> /\ 1 \in DOMAIN c /\ c[1] \in Nat
        BY <1>2, <1>3, <2>3
      <3>2. c[1] \in ToSet(c)
        BY <3>1 DEF ToSet
      <3>3. k \in Seq(Nat) /\ ToSet(k) = {c[1]} /\ Len(k) = 1
        BY <3>1, OneKey
      <3> QED BY <3>2, <3>3
    <2> QED BY <2>1, <2>2, <2>3
  <1>5. PICK d : d = [content EXCEPT !.multiple = b, !.key = k]
    OBVIOUS
  <1>6. content' = d
    BY <1>2, <1>5 DEF SetMultiple, Change
  <1>7. /\ Typed(d) /\ d.type = content.type /\ d.mode = content.mode /\ d.items = content.items
        /\ d.others = content.others /\ d.key = k
        /\ d.multiple = b /\ d.words = content.words
    BY <1>1, <1>4, <1>5, ContentFacts DEF Typed, ContentOf
  <1>8. Named(d)
    BY <1>0, <1>1, <1>3, <1>4, <1>7, ContentFacts DEF Named
  <1> QED BY <1>0, <1>6, <1>7, <1>8, ContentFacts, FormKeeps DEF Sound

-----------------------------------------------------------------------------
(* Items that are removed, the key with them.                              *)
LEMMA RemoveOptionKeeps ==
  ASSUME Core, NEW i, RemoveOption(i)
  PROVE  Core'
  <1>0. stage = "form" /\ UNCHANGED <<stage, answer, made>> /\ content.type = "mcq"
    BY DEF RemoveOption, Is, Change
  <1>1. content.mode = "" /\ Keys(content.type, content.mode) = Nat
    BY <1>0, ContentFacts, ModeOfType
  <1>2. PICK s \in Items : s = Without(content.items, i)
    BY ContentFacts, WithoutItem
  <1>3. content.key \in Seq(Nat)
    BY <1>1, ContentFacts
  <1>4. PICK k \in Seq(Nat) : k = KeyWithout(i)
    BY <1>3, KeepFacts DEF KeyWithout
  <1>5. /\ Len(k) <= Len(content.key)
        /\ ToSet(k) = ToSet(content.key) \ {i}
    BY <1>3, <1>4, KeepFacts DEF KeyWithout
  <1>6. Len(k) \in Nat /\ Len(content.key) \in Nat
    BY <1>3
  <1>7. k \in Seq(Keys(content.type, content.mode))
    BY <1>1
  <1>a. PICK d : d = [content EXCEPT !.items = s, !.key = k]
    OBVIOUS
  <1>8. content' = d
    BY <1>2, <1>4, <1>a DEF RemoveOption, Change
  <1>9. /\ Typed(d) /\ d.type = content.type /\ d.mode = content.mode /\ d.items = s
        /\ d.others = content.others /\ d.key = k
        /\ d.multiple = content.multiple /\ d.words = content.words
    BY <1>7, <1>a, ContentFacts DEF Typed, ContentOf
  <1>10. IdsOf(s) = IdsOf(content.items) \ {i}
    BY <1>2, ContentFacts, WithoutItem
  <1>11. ToSet(content.key) \subseteq IdsOf(content.items) /\ (~content.multiple => Len(content.key) <= 1)
    BY <1>0, ContentFacts DEF Named
  <1>12. ~content.multiple => Len(k) <= 1
    BY <1>5, <1>6, <1>11
  <1>13. Named(d)
    BY <1>0, <1>1, <1>5, <1>9, <1>10, <1>11, <1>12, ContentFacts DEF Named
  <1>14. Fine(d.type, made, d.items) /\ Fine(d.type, made, d.others)
    BY <1>2, <1>9, ContentFacts, FineWithout
  <1> QED BY <1>0, <1>8, <1>9, <1>13, <1>14, ContentFacts, FormKeeps DEF Sound

LEMMA RemoveImageKeeps ==
  ASSUME Core, NEW i, RemoveImage(i)
  PROVE  Core'
  <1>0. stage = "form" /\ UNCHANGED <<stage, answer, made>> /\ content.type = "image_comparison"
    BY DEF RemoveImage, Is, Change
  <1>1. content.mode = "" /\ Keys(content.type, content.mode) = Nat
    BY <1>0, ContentFacts, ModeOfType
  <1>2. PICK s \in Items : s = Without(content.items, i)
    BY ContentFacts, WithoutItem
  <1>3. PICK c \in Seq(Nat) : c = content.key
    BY <1>1, ContentFacts
  <1>4. PICK k : k = IF c = <<i>> THEN <<>> ELSE c
    OBVIOUS
  <1>c. k \in Seq(Nat)
    BY <1>4
  <1>d. Named(content)
    BY ContentFacts
  <1>b. ToSet(content.key) \subseteq IdsOf(content.items) /\ Len(content.key) <= 1
    BY <1>0, <1>d DEF Named
  <1>5. ToSet(c) \subseteq IdsOf(content.items) /\ Len(c) <= 1
    BY <1>b, <1>3
  <1>6. Len(k) <= 1 /\ ToSet(k) \subseteq ToSet(c) \ {i}
    <2>1. CASE c = <<i>>
      BY <1>4, <2>1 DEF ToSet
    <2>2. CASE c # <<i>>
      <3>1. ASSUME NEW j \in 1..Len(c) PROVE c[j] # i
        <4>0. PICK n \in Nat : n = Len(c)
          OBVIOUS
        <4>a. n <= 1 /\ j \in 1..n
          BY <1>5, <4>0
        <4>b. n = 1 /\ j = 1
          BY <4>a
        <4>1. Len(c) = 1 /\ j = 1
          BY <4>0, <4>b
        <4>2. c = <<c[1]>>
          BY <4>1
        <4> QED BY <2>2, <4>1, <4>2
      <3>2. DOMAIN c = 1..Len(c)
        OBVIOUS
      <3> QED BY <1>4, <1>5, <2>2, <3>1, <3>2 DEF ToSet
    <2> QED BY <2>1, <2>2
  <1>7. k \in Seq(Keys(content.type, content.mode))
    BY <1>1, <1>c
  <1>a. PICK d : d = [content EXCEPT !.items = s, !.key = k]
    OBVIOUS
  <1>8. content' = d
    BY <1>2, <1>3, <1>4, <1>a DEF RemoveImage, Change
  <1>9. /\ Typed(d) /\ d.type = content.type /\ d.mode = content.mode /\ d.items = s
        /\ d.others = content.others /\ d.key = k
        /\ d.multiple = content.multiple /\ d.words = content.words
    BY <1>7, <1>a, ContentFacts DEF Typed, ContentOf
  <1>10. IdsOf(s) = IdsOf(content.items) \ {i}
    BY <1>2, ContentFacts, WithoutItem
  <1>11. Named(d)
    BY <1>0, <1>1, <1>5, <1>6, <1>9, <1>10, ContentFacts DEF Named
  <1>12. Fine(d.type, made, d.items) /\ Fine(d.type, made, d.others)
    BY <1>2, <1>9, ContentFacts, FineWithout
  <1> QED BY <1>0, <1>8, <1>9, <1>11, <1>12, ContentFacts, FormKeeps DEF Sound

LEMMA RemovedKeeps ==
  ASSUME Core, NEW i, RemoveLabel(i) \/ RemoveZone(i) \/ RemoveMistake(i)
  PROVE  Core'
  <1>0. /\ stage = "form" /\ UNCHANGED <<stage, answer, made>>
        /\ content.type \in {"find_mistakes", "hotspot", "video_review"}
    BY DEF RemoveLabel, RemoveZone, RemoveMistake, Is, Change
  <1>1. PICK s \in Items : s = Without(content.items, i)
    BY ContentFacts, WithoutItem
  <1>2. PICK o \in Items : /\ o = content.others \/ o = Without(content.others, i)
                           /\ content' = [content EXCEPT !.items = s, !.others = o]
    <2>1. CASE RemoveLabel(i)
      BY <1>1, <2>1, ContentFacts, WithoutItem DEF RemoveLabel, Change
    <2>2. CASE RemoveZone(i) \/ RemoveMistake(i)
      <3>1. content' = [content EXCEPT !.items = s]
        BY <1>1, <2>2 DEF RemoveZone, RemoveMistake, Change
      <3>2. [content EXCEPT !.items = s] = [content EXCEPT !.items = s, !.others = content.others]
        BY <1>1, ContentFacts DEF Typed, ContentOf
      <3> QED BY <3>1, <3>2, ContentFacts
    <2> QED BY <2>1, <2>2
  <1>3. PICK d : d = [content EXCEPT !.items = s, !.others = o]
    OBVIOUS
  <1>a. content' = d
    BY <1>2, <1>3
  <1>4. /\ Typed(d) /\ d.type = content.type /\ d.mode = content.mode /\ d.items = s
        /\ d.others = o
    BY <1>3, ContentFacts DEF Typed, ContentOf
  <1>5. d.mode \notin {"sequence", "match"}
    BY <1>0, <1>4, ContentFacts, ModeOfType
  <1>6. content.others = <<>> => o = <<>>
    BY <1>2, ContentFacts, WithoutItem
  <1>7. Named(d)
    BY <1>0, <1>4, <1>5, <1>6, ContentFacts DEF Named
  <1>8. Fine(d.type, made, d.items) /\ Fine(d.type, made, d.others)
    BY <1>1, <1>2, <1>4, ContentFacts, FineWithout
  <1> QED BY <1>0, <1>a, <1>4, <1>7, <1>8, ContentFacts, FormKeeps DEF Sound

-----------------------------------------------------------------------------
(* Items and modes that start anew.                                         *)
LEMMA NoItems ==
  /\ <<>> \in Items /\ \A A : <<>> \in Seq(A)
  /\ Len(<<>>) = 0 /\ DOMAIN <<>> = {} /\ ToSet(<<>>) = {} /\ IdsOf(<<>>) = {}
  /\ InOrder(<<>>) = <<>>
  /\ \A s : [i \in DOMAIN <<>> |-> <<(<<>>)[i].id, s[i].id>>] = <<>>
  BY DEF Items, ToSet, IdsOf, InOrder

LEMMA EmptySound ==
  ASSUME NEW t \in Types, NEW n \in Nat, t = "image_comparison" => n = 2,
         NEW m \in Modes(t)
  PROVE  Sound([EmptyContent(t) EXCEPT !.mode = m], n)
  <1>1. PICK s \in Items : s = IF t = "image_comparison" THEN <<Item(1, 0, 0), Item(2, 0, 0)>> ELSE <<>>
    <2>1. Item(1, 0, 0) \in AnItem /\ Item(2, 0, 0) \in AnItem
      BY NewItem
    <2>2. <<Item(1, 0, 0), Item(2, 0, 0)>> \in Items
      BY <2>1 DEF Items
    <2> QED BY <2>2, NoItems
  <1>2. Fine(t, n, s)
    <2>1. CASE t = "image_comparison"
      <3>1. s = <<Item(1, 0, 0), Item(2, 0, 0)>>
        BY <1>1, <2>1
      <3>2. PICK x \in AnItem : x = Item(1, 0, 0) /\ x.id = 1 /\ x.from = 0 /\ x.to = 0
        BY NewItem
      <3>3. PICK y \in AnItem : y = Item(2, 0, 0) /\ y.id = 2 /\ y.from = 0 /\ y.to = 0
        BY NewItem
      <3>4. DOMAIN s = {1, 2} /\ s[1] = x /\ s[2] = y
        BY <3>1, <3>2, <3>3
      <3>5. Differ(s)
        BY <3>2, <3>3, <3>4 DEF Differ
      <3>6. Placed(t, n, x) /\ Placed(t, n, y)
        BY <2>1, <3>2, <3>3 DEF Placed
      <3> QED BY <3>4, <3>5, <3>6 DEF Fine, ToSet
    <2>2. CASE t # "image_comparison"
      BY <1>1, <2>2, FineEmpty
    <2> QED BY <2>1, <2>2
  <1>3. PICK d : d = [EmptyContent(t) EXCEPT !.mode = m]
    OBVIOUS
  <1>4. /\ d.type = t /\ d.mode = m /\ d.items = s /\ d.others = <<>> /\ d.key = <<>>
        /\ d.multiple = FALSE /\ d.words = 0
    BY <1>1, <1>3 DEF EmptyContent
  <1>5. d \in ContentOf(t, m)
    BY <1>1, <1>3, NoItems DEF EmptyContent, ContentOf
  <1>6. Typed(d)
    BY <1>4, <1>5 DEF Typed
  <1>7. m \in {"sequence", "match"} => t = "drag_drop" /\ s = <<>>
    BY <1>1, <1>4, <1>6, ModeOfType
  <1>8. t = "content_review" => s = <<>>
    BY <1>1
  <1>9. Named(d)
    BY <1>4, <1>7, <1>8, NoItems DEF Named
  <1> QED BY <1>2, <1>3, <1>4, <1>6, <1>9, FineEmpty DEF Sound

LEMMA EmptyMode ==
  ASSUME NEW t \in Types
  PROVE  EmptyContent(t).mode \in Modes(t)
         /\ EmptyContent(t) = [EmptyContent(t) EXCEPT !.mode = EmptyContent(t).mode]
         /\ Len(EmptyContent(t).items) = IF t = "image_comparison" THEN 2 ELSE 0
  <1>1. EmptyContent(t).mode = CASE t = "drag_drop" -> "sequence" [] t = "find_mistakes" -> "checklist" [] OTHER -> ""
    BY DEF EmptyContent
  <1>2. EmptyContent(t).mode \in Modes(t)
    BY <1>1 DEF Modes
  <1>3. EmptyContent(t) = [EmptyContent(t) EXCEPT !.mode = EmptyContent(t).mode]
    BY DEF EmptyContent
  <1>4. EmptyContent(t).items = IF t = "image_comparison" THEN <<Item(1, 0, 0), Item(2, 0, 0)>> ELSE <<>>
    BY DEF EmptyContent
  <1> QED BY <1>2, <1>3, <1>4

LEMMA ChangeTypeKeeps ==
  ASSUME Core, NEW t \in Types, ChangeType(t)
  PROVE  Core'
  <1>1. stage = "form" /\ UNCHANGED <<stage, answer>> /\ content' = EmptyContent(t)
        /\ made' = IF t = "image_comparison" THEN 2 ELSE 0
    BY EmptyMode DEF ChangeType
  <1>2. made' \in Nat /\ (t = "image_comparison" => made' = 2)
    BY <1>1
  <1>3. PICK n \in Nat : n = made'
    BY <1>2
  <1>4. Sound(EmptyContent(t), n)
    BY <1>2, <1>3, EmptyMode, EmptySound
  <1> QED BY <1>1, <1>3, <1>4, FormKeeps

LEMMA SetDragModeKeeps ==
  ASSUME Core, NEW m \in {"sequence", "match"}, SetDragMode(m)
  PROVE  Core'
  <1>1. /\ stage = "form" /\ UNCHANGED <<stage, answer, made>>
        /\ content' = [EmptyContent("drag_drop") EXCEPT !.mode = m]
    BY DEF SetDragMode, Is, Change
  <1>2. "drag_drop" \in Types /\ m \in Modes("drag_drop")
    BY DEF Types, Modes
  <1>3. Sound([EmptyContent("drag_drop") EXCEPT !.mode = m], made)
    BY <1>2, ContentFacts, EmptySound
  <1> QED BY <1>1, <1>3, FormKeeps

LEMMA SetAnswerModeKeeps ==
  ASSUME Core, NEW m \in {"checklist", "typed"}, SetAnswerMode(m)
  PROVE  Core'
  <1>1. /\ stage = "form" /\ UNCHANGED <<stage, answer, made>> /\ content.type = "find_mistakes"
    BY DEF SetAnswerMode, Is, Change
  <1>2. PICK o \in Items : o = IF m = "typed" THEN <<>> ELSE content.others
    BY ContentFacts, NoItems
  <1>3. PICK d : d = [content EXCEPT !.mode = m, !.others = o]
    OBVIOUS
  <1>4. content' = d
    BY <1>2, <1>3 DEF SetAnswerMode, Change
  <1>5. m \in Modes("find_mistakes") /\ Keys("find_mistakes", m) = Nat
    BY DEF Modes, Keys
  <1>6. content.key \in Seq(Nat) /\ content.mode # "match"
    BY <1>1, ContentFacts, ModeOfType
  <1>7. /\ Typed(d) /\ d.type = "find_mistakes" /\ d.mode = m /\ d.items = content.items
        /\ d.others = o
    BY <1>1, <1>3, <1>5, <1>6, ContentFacts DEF Typed, ContentOf
  <1>8. Named(d)
    BY <1>2, <1>7 DEF Named
  <1>9. Fine(d.type, made, o)
    BY <1>1, <1>2, <1>7, ContentFacts, FineEmpty
  <1> QED BY <1>1, <1>4, <1>7, <1>8, <1>9, ContentFacts, FormKeeps DEF Sound

LEMMA SetTextKeeps ==
  ASSUME Core, NEW n \in 0..MaxWords, NEW b \in BOOLEAN, SetText(n, b)
  PROVE  Core'
  <1>1. /\ stage = "form" /\ UNCHANGED <<stage, answer, made>> /\ content.type = "content_review"
    BY DEF SetText, Is, Change
  <1>2. PICK d : d = [content EXCEPT !.words = n, !.indented = b, !.items = <<>>]
    OBVIOUS
  <1>3. content' = d /\ n \in Nat
    BY <1>2 DEF SetText, Change
  <1>4. /\ Typed(d) /\ d.type = content.type /\ d.mode = content.mode /\ d.items = <<>>
        /\ d.others = content.others
    BY <1>2, <1>3, ContentFacts, NoItems DEF Typed, ContentOf
  <1>5. d.mode = ""
    BY <1>1, <1>4, ModeOfType
  <1>6. Named(d)
    BY <1>1, <1>4, <1>5, ContentFacts, NoItems DEF Named
  <1> QED BY <1>1, <1>3, <1>4, <1>6, ContentFacts, FineEmpty, FormKeeps DEF Sound

LEMMA ToggleWordKeeps ==
  ASSUME Core, NEW w \in 0..MaxWords, ToggleWord(w)
  PROVE  Core'
  <1>1. /\ stage = "form" /\ UNCHANGED <<stage, answer, made>> /\ content.type = "content_review"
        /\ w < content.words /\ w \in Nat
    BY DEF ToggleWord, Is, Change
  <1>2. PICK x \in AnItem : x = Filled1(w, w, w) /\ x.id = w /\ x.from = w /\ x.to = w
    BY <1>1, NewFilled
  <1>3. PICK s : s = IF \E e \in ToSet(content.items) : e.from = w
                     THEN Keep(content.items, {e \in ToSet(content.items) : e.from # w})
                     ELSE Append(content.items, x)
    OBVIOUS
  <1>4. \A e \in ToSet(content.items) : e.id = e.from /\ e.from < content.words
    BY <1>1, ContentFacts DEF Fine, Placed, Named
  <1>5. s \in Items /\ Fine(content.type, made, s) /\ \A e \in ToSet(s) : e.from < content.words
    <2>1. CASE \E e \in ToSet(content.items) : e.from = w
      BY <1>3, <1>4, <2>1, ContentFacts, ItemsKept, FineLess
    <2>2. CASE ~\E e \in ToSet(content.items) : e.from = w
      <3>1. s = Append(content.items, x)
        BY <1>3, <2>2
      <3>2. x.id \notin IdsOf(content.items)
        BY <1>2, <1>4, <2>2, ContentFacts, IdsAreItems
      <3>3. s \in Items /\ ToSet(s) = ToSet(content.items) \cup {x} /\ Differ(s)
        BY <3>1, <3>2, ContentFacts, AppendedItem DEF Fine
      <3>4. Placed(content.type, made, x)
        BY <1>1, <1>2 DEF Placed
      <3> QED BY <1>1, <1>2, <1>4, <3>3, <3>4, ContentFacts DEF Fine
    <2> QED BY <2>1, <2>2
  <1>6. PICK d : d = [content EXCEPT !.items = s]
    OBVIOUS
  <1>7. content' = d
    BY <1>2, <1>3, <1>6 DEF ToggleWord, Change, Filled1
  <1>8. /\ Typed(d) /\ d.type = content.type /\ d.mode = content.mode /\ d.items = s
        /\ d.others = content.others /\ d.words = content.words
    BY <1>5, <1>6, ContentFacts, ItemsSet DEF Rest
  <1>9. d.mode = ""
    BY <1>1, <1>8, ModeOfType
  <1>10. Named(d)
    BY <1>1, <1>5, <1>8, <1>9, ContentFacts DEF Named
  <1> QED BY <1>1, <1>5, <1>7, <1>8, <1>10, ContentFacts, FormKeeps DEF Sound

-----------------------------------------------------------------------------
(* A sequence: its key is the order of its items.                           *)
LEMMA InOrderFacts ==
  ASSUME NEW s \in Items
  PROVE  /\ InOrder(s) \in Seq(Nat) /\ Len(InOrder(s)) = Len(s)
         /\ \A i \in 1..Len(s) : InOrder(s)[i] = s[i].id
         /\ ToSet(InOrder(s)) = IdsOf(s)
  <1>1. PICK n \in Nat : n = Len(s) /\ DOMAIN s = 1..n
    BY ItemFacts
  <1>2. ASSUME NEW i \in 1..n PROVE s[i].id \in Nat
    BY <1>1, ItemFacts DEF AnItem
  <1>3. PICK k : k = [i \in 1..n |-> s[i].id]
    OBVIOUS
  <1>4. k \in Seq(Nat) /\ Len(k) = n /\ (\A i \in 1..n : k[i] = s[i].id) /\ DOMAIN k = 1..n
    BY <1>2, <1>3
  <1>5. InOrder(s) = k
    BY <1>1, <1>3 DEF InOrder
  <1>6. ToSet(k) = IdsOf(s)
    BY <1>1, <1>4 DEF ToSet, IdsOf
  <1> QED BY <1>1, <1>4, <1>5, <1>6

(* The order is that of the items.                                         *)
LEMMA SequenceKeeps ==
  ASSUME Core, stage = "form", UNCHANGED <<stage, answer>>, made' \in Nat,
         content.type = "drag_drop", content.mode = "sequence",
         NEW s \in Items, Fine(content.type, made', s), Fine(content.type, made', content.others),
         content' = [content EXCEPT !.items = s, !.key = InOrder(s)]
  PROVE  Core'
  <1>1. PICK k \in Seq(Nat) : k = InOrder(s)
    BY InOrderFacts
  <1>2. Keys(content.type, content.mode) = Nat
    BY DEF Keys
  <1>3. k \in Seq(Keys(content.type, content.mode))
    BY <1>2
  <1>4. PICK d : d = [content EXCEPT !.items = s, !.key = k]
    OBVIOUS
  <1>5. content' = d
    BY <1>1, <1>4
  <1>6. /\ Typed(d) /\ d.type = content.type /\ d.mode = content.mode /\ d.items = s
        /\ d.others = content.others /\ d.key = k
    BY <1>3, <1>4, ContentFacts DEF Typed, ContentOf
  <1>7. Named(d)
    BY <1>1, <1>6, ContentFacts DEF Named
  <1> QED BY <1>5, <1>6, <1>7, FormKeeps DEF Sound

LEMMA AddSequenceItemKeeps ==
  ASSUME Core, AddSequenceItem
  PROVE  Core'
  <1>0. /\ made \in Nat /\ stage = "form" /\ UNCHANGED <<stage, answer>> /\ made' = made + 1
        /\ content.type = "drag_drop" /\ content.mode = "sequence"
    BY ContentFacts DEF AddSequenceItem, Is, NewId
  <1>1. PICK i \in Nat : i = made'
    BY <1>0
  <1>2. PICK x \in AnItem : x = Item(i, 0, 0) /\ x.id = i /\ x.from = 0 /\ x.to = 0
    BY NewItem
  <1>3. PICK s \in Items : s = Append(content.items, x)
    BY ContentFacts, AppendedItem
  <1>4. content' = [content EXCEPT !.items = s, !.key = InOrder(s)]
    BY <1>1, <1>2, <1>3 DEF AddSequenceItem
  <1>5. Placed(content.type, made + 1, x)
    BY <1>0, <1>1, <1>2 DEF Placed
  <1>6. Fine(content.type, made', s) /\ Fine(content.type, made', content.others)
    BY <1>0, <1>1, <1>2, <1>3, <1>5, ContentFacts, FineMore, FineLater
  <1> QED BY <1>0, <1>1, <1>4, <1>6, SequenceKeeps

LEMMA RemoveSequenceItemKeeps ==
  ASSUME Core, NEW i, RemoveSequenceItem(i)
  PROVE  Core'
  <1>0. /\ stage = "form" /\ UNCHANGED <<stage, answer>> /\ made' = made /\ made \in Nat
        /\ content.type = "drag_drop" /\ content.mode = "sequence"
    BY ContentFacts DEF RemoveSequenceItem, Is, Change
  <1>1. PICK s \in Items : s = Without(content.items, i)
    BY ContentFacts, WithoutItem
  <1>2. content' = [content EXCEPT !.items = s, !.key = InOrder(s)]
    BY <1>1 DEF RemoveSequenceItem, Change
  <1>3. Fine(content.type, made', s) /\ Fine(content.type, made', content.others)
    BY <1>0, <1>1, ContentFacts, FineWithout
  <1> QED BY <1>0, <1>2, <1>3, SequenceKeeps

-----------------------------------------------------------------------------
(* Pairs: the key pairs each item with the other at its place.              *)
TwoIds == Nat \X Nat
Both(x, y) == <<x.id, y.id>>
Pairs(s, t) == [i \in DOMAIN s |-> Both(s[i], t[i])]

LEMMA PairsFacts ==
  ASSUME NEW s \in Items, NEW t \in Items, Len(t) = Len(s)
  PROVE  /\ Pairs(s, t) \in Seq(TwoIds) /\ Len(Pairs(s, t)) = Len(s)
         /\ \A i \in 1..Len(s) : Pairs(s, t)[i] = Both(s[i], t[i])
  <1>1. PICK n \in Nat : n = Len(s) /\ DOMAIN s = 1..n
    BY ItemFacts
  <1>2. ASSUME NEW i \in 1..n PROVE Both(s[i], t[i]) \in TwoIds
    BY <1>1, ItemFacts DEF AnItem, Both, TwoIds
  <1>3. PICK k : k = [i \in 1..n |-> Both(s[i], t[i])]
    OBVIOUS
  <1>4. k \in Seq(TwoIds) /\ Len(k) = n /\ (\A i \in 1..n : k[i] = Both(s[i], t[i]))
    BY <1>2, <1>3
  <1>5. Pairs(s, t) = k
    BY <1>1, <1>3 DEF Pairs
  <1> QED BY <1>1, <1>4, <1>5

LEMMA PairsKeeps ==
  ASSUME Core, stage = "form", UNCHANGED <<stage, answer>>, made' \in Nat,
         content.type = "drag_drop", content.mode = "match",
         NEW s \in Items, NEW t \in Items, Len(t) = Len(s),
         Fine(content.type, made', s), Fine(content.type, made', t),
         NEW k, k = Pairs(s, t),
         content' = [content EXCEPT !.items = s, !.others = t, !.key = k]
  PROVE  Core'
  <1>2. Keys(content.type, content.mode) = TwoIds
    BY DEF Keys, TwoIds
  <1>3. k \in Seq(Keys(content.type, content.mode))
    BY <1>2, PairsFacts
  <1>4. PICK d : d = [content EXCEPT !.items = s, !.others = t, !.key = k]
    OBVIOUS
  <1>5. content' = d
    BY <1>4
  <1>6. /\ Typed(d) /\ d.type = content.type /\ d.mode = content.mode /\ d.items = s
        /\ d.others = t /\ d.key = k
    BY <1>3, <1>4, ContentFacts DEF Typed, ContentOf
  <1>7. Named(d)
    BY <1>6, ContentFacts DEF Named, Pairs, Both
  <1> QED BY <1>5, <1>6, <1>7, FormKeeps DEF Sound

LEMMA MatchFacts ==
  ASSUME Core, content.mode = "match"
  PROVE  /\ content.type = "drag_drop" /\ Len(content.others) = Len(content.items)
         /\ content.key = Pairs(content.items, content.others)
  <1>1. Len(content.others) = Len(content.items)
        /\ content.key = Pairs(content.items, content.others)
    BY ContentFacts DEF Named, Pairs, Both
  <1> QED BY <1>1, ContentFacts, ModeOfType

LEMMA AddPairKeeps ==
  ASSUME Core, AddPair
  PROVE  Core'
  <1>0. /\ made \in Nat /\ stage = "form" /\ UNCHANGED <<stage, answer>> /\ made' = made + 1
        /\ content.type = "drag_drop" /\ content.mode = "match"
    BY ContentFacts DEF AddPair, Is, NewId
  <1>1. PICK i \in Nat : i = made'
    BY <1>0
  <1>2. PICK x \in AnItem : x = Item(i, 0, 0) /\ x.id = i /\ x.from = 0 /\ x.to = 0
    BY NewItem
  <1>3. PICK s \in Items : s = Append(content.items, x)
    BY ContentFacts, AppendedItem
  <1>4. PICK t \in Items : t = Append(content.others, x)
    BY ContentFacts, AppendedItem
  <1>5. PICK n \in Nat : n = Len(content.items) /\ n = Len(content.others)
    BY <1>0, MatchFacts, ContentFacts, ItemFacts
  <1>6. /\ Len(s) = n + 1 /\ Len(t) = n + 1 /\ s[n + 1] = x /\ t[n + 1] = x
        /\ \A j \in 1..n : s[j] = content.items[j] /\ t[j] = content.others[j]
    <2>1. /\ Len(s) = Len(content.items) + 1 /\ s[Len(content.items) + 1] = x
          /\ \A j \in 1..Len(content.items) : s[j] = content.items[j]
      BY <1>3, ContentFacts, AppendedItem
    <2>2. /\ Len(t) = Len(content.others) + 1 /\ t[Len(content.others) + 1] = x
          /\ \A j \in 1..Len(content.others) : t[j] = content.others[j]
      BY <1>4, ContentFacts, AppendedItem
    <2> QED BY <1>5, <2>1, <2>2
  <1>7. PICK c \in Seq(TwoIds) : c = content.key
    BY <1>0, <1>5, MatchFacts, ContentFacts, PairsFacts
  <1>8. Len(c) = n /\ \A j \in 1..n : c[j] = Both(content.items[j], content.others[j])
    <2>1. c = Pairs(content.items, content.others)
      BY <1>0, <1>7, MatchFacts
    <2>2. Len(content.others) = Len(content.items)
      BY <1>5
    <2>3. /\ Len(Pairs(content.items, content.others)) = Len(content.items)
          /\ \A j \in 1..Len(content.items) :
                Pairs(content.items, content.others)[j] = Both(content.items[j], content.others[j])
      BY <2>2, ContentFacts, PairsFacts, Zenon
    <2> QED BY <1>5, <2>1, <2>3
  <1>9. PICK p \in TwoIds : p = <<i, i>>
    BY DEF TwoIds
  <1>10. PICK k \in Seq(TwoIds) : k = Append(c, p)
    <2>1. Append(c, p) \in Seq(TwoIds)
      OBVIOUS
    <2> QED BY <2>1
  <1>11. /\ Len(k) = n + 1 /\ k[n + 1] = p
         /\ \A j \in 1..n : k[j] = c[j]
    BY <1>8, <1>10
  <1>12. PICK m : m = Pairs(s, t)
    OBVIOUS
  <1>13. /\ m \in Seq(TwoIds) /\ Len(m) = n + 1
         /\ \A j \in 1..(n + 1) : m[j] = Both(s[j], t[j])
    BY <1>6, <1>12, PairsFacts
  <1>14. ASSUME NEW j \in 1..(n + 1) PROVE k[j] = m[j]
    <2>1. CASE j = n + 1
      BY <1>2, <1>6, <1>9, <1>11, <1>13, <2>1 DEF Both
    <2>2. CASE j # n + 1
      <3>1. j \in 1..n
        BY <2>2
      <3> QED BY <1>6, <1>8, <1>11, <1>13, <3>1
    <2> QED BY <2>1, <2>2
  <1>15. k = Pairs(s, t)
    <2>1. k = m
      BY <1>11, <1>13, <1>14, SeqEqual
    <2> QED BY <2>1, <1>12
  <1>16. content' = [content EXCEPT !.items = s, !.others = t, !.key = k]
    BY <1>1, <1>2, <1>3, <1>4, <1>7, <1>9, <1>10 DEF AddPair
  <1>17. Placed(content.type, made + 1, x)
    BY <1>0, <1>1, <1>2 DEF Placed
  <1>18. Fine(content.type, made', s) /\ Fine(content.type, made', t)
    BY <1>0, <1>1, <1>2, <1>3, <1>4, <1>17, ContentFacts, FineMore
  <1> QED BY <1>0, <1>1, <1>6, <1>15, <1>16, <1>18, PairsKeeps

LEMMA RemovePairKeeps ==
  ASSUME Core, NEW l, RemovePair(l)
  PROVE  Core'
  <1>0. /\ stage = "form" /\ UNCHANGED <<stage, answer>> /\ made' = made /\ made \in Nat
        /\ content.type = "drag_drop" /\ content.mode = "match" /\ l \in IdsOf(content.items)
    BY ContentFacts DEF RemovePair, Is, Change
  <1>1. PICK n \in Nat : n = Len(content.items) /\ n = Len(content.others)
    BY <1>0, MatchFacts, ContentFacts, ItemFacts
  <1>2. PICK s0 \in Items, t0 \in Items : s0 = content.items /\ t0 = content.others
    BY ContentFacts
  <1>3. PICK k0 : k0 = content.key
    OBVIOUS
  <1>4. /\ k0 \in Seq(TwoIds) /\ Len(k0) = n
        /\ \A j \in 1..n : k0[j] = Both(s0[j], t0[j])
    <2>1. k0 = Pairs(s0, t0) /\ Len(t0) = Len(s0) /\ Len(s0) = n
      BY <1>0, <1>1, <1>2, <1>3, MatchFacts
    <2>2. /\ Pairs(s0, t0) \in Seq(TwoIds) /\ Len(Pairs(s0, t0)) = Len(s0)
          /\ \A i \in 1..Len(s0) : Pairs(s0, t0)[i] = Both(s0[i], t0[i])
      BY <1>2, <2>1, PairsFacts, Zenon
    <2> QED BY <2>1, <2>2
  <1>5. /\ DOMAIN s0 = 1..n /\ DOMAIN t0 = 1..n /\ DOMAIN k0 = 1..n
        /\ IdsOf(s0) = {s0[j].id : j \in 1..n} /\ IdsOf(t0) = {t0[j].id : j \in 1..n}
        /\ ToSet(k0) = {k0[j] : j \in 1..n} /\ ToSet(s0) = {s0[j] : j \in 1..n}
        /\ ToSet(t0) = {t0[j] : j \in 1..n}
    <2>1. DOMAIN k0 = 1..n
      BY <1>4
    <2> QED BY <1>1, <1>2, <2>1, ItemFacts DEF ToSet
  <1>6. PICK a \in 1..n : s0[a].id = l
    BY <1>0, <1>2, <1>5
  <1>7. /\ \A i, j \in 1..n : s0[i].id = s0[j].id => i = j
        /\ \A i, j \in 1..n : t0[i].id = t0[j].id => i = j
    BY <1>2, <1>5, ContentFacts DEF Fine, Differ
  <1>8. PICK r : r = Right(l)
    OBVIOUS
  <1>9. r = t0[a].id
    <2>1. t0[a].id \in IdsOf(t0) /\ <<l, t0[a].id>> \in ToSet(k0)
      BY <1>4, <1>5, <1>6 DEF Both
    <2>2. r \in IdsOf(t0) /\ <<l, r>> \in ToSet(k0)
      BY <1>2, <1>3, <1>8, <2>1 DEF Right
    <2>3. PICK j \in 1..n : k0[j] = <<l, r>>
      BY <1>5, <2>2
    <2>4. s0[j].id = l /\ t0[j].id = r
      BY <1>4, <2>3 DEF Both
    <2> QED BY <1>6, <1>7, <2>4
  <1> DEFINE D == {i \in 1..n : i # a}
             S == {x \in ToSet(s0) : x.id # l}
             T == {x \in ToSet(t0) : x.id # r}
             K == {p \in ToSet(k0) : p[1] # l}
  <1>10. /\ D = {i \in 1..n : s0[i] \in S} /\ D = {i \in 1..n : t0[i] \in T}
         /\ D = {i \in 1..n : k0[i] \in K}
    <2>1. ASSUME NEW i \in 1..n
          PROVE  /\ i # a <=> s0[i].id # l
                 /\ i # a <=> t0[i].id # r
                 /\ i # a <=> k0[i][1] # l
      <3>1. k0[i][1] = s0[i].id
        BY <1>4 DEF Both
      <3> QED BY <1>6, <1>7, <1>9, <3>1
    <2>2. \A i \in 1..n : s0[i] \in ToSet(s0) /\ t0[i] \in ToSet(t0) /\ k0[i] \in ToSet(k0)
      BY <1>5
    <2> QED BY <2>1, <2>2
  <1>11. PICK s, t, k : s = Keep(s0, S) /\ t = Keep(t0, T) /\ k = Keep(k0, K)
    OBVIOUS
  <1>12. content' = [content EXCEPT !.items = s, !.others = t, !.key = k]
    BY <1>2, <1>3, <1>8, <1>11 DEF RemovePair, Change, Without
  <1>13. PICK e : e = PlacesIn(n, D)
    OBVIOUS
  <1>14. PICK m \in Nat : m = Len(e)
    <2> HIDE DEF D
    <2> QED BY <1>13, PlacesKept
  <1>15. \A j \in 1..m : e[j] \in 1..n
    <2> HIDE DEF D
    <2>1. e \in Seq(1..n)
      BY <1>13, PlacesKept
    <2> QED BY <1>14, <2>1
  <1> HIDE DEF D, S, T, K
  <1>16. s \in Items /\ Len(s) = m /\ \A j \in 1..m : s[j] = s0[e[j]]
    <2>1. s0 \in Seq(AnItem) /\ Len(s0) = n
      BY <1>1, <1>2 DEF Items
    <2>2. e = PlacesIn(Len(s0), {i \in 1..Len(s0) : s0[i] \in S})
      BY <1>10, <1>13, <2>1
    <2> QED BY <1>11, <1>14, <2>1, <2>2, KeepByPlaces DEF Items
  <1>17. t \in Items /\ Len(t) = m /\ \A j \in 1..m : t[j] = t0[e[j]]
    <2>1. t0 \in Seq(AnItem) /\ Len(t0) = n
      BY <1>1, <1>2 DEF Items
    <2>2. e = PlacesIn(Len(t0), {i \in 1..Len(t0) : t0[i] \in T})
      BY <1>10, <1>13, <2>1
    <2> QED BY <1>11, <1>14, <2>1, <2>2, KeepByPlaces DEF Items
  <1>18. k \in Seq(TwoIds) /\ Len(k) = m /\ \A j \in 1..m : k[j] = k0[e[j]]
    <2>2. e = PlacesIn(Len(k0), {i \in 1..Len(k0) : k0[i] \in K})
      BY <1>4, <1>10, <1>13
    <2> QED BY <1>4, <1>11, <1>14, <2>2, KeepByPlaces
  <1>19. PICK q : q = Pairs(s, t)
    OBVIOUS
  <1>20. /\ q \in Seq(TwoIds) /\ Len(q) = m
         /\ \A j \in 1..m : q[j] = Both(s[j], t[j])
    <2>1. Len(t) = Len(s)
      BY <1>16, <1>17
    <2>2. /\ Pairs(s, t) \in Seq(TwoIds) /\ Len(Pairs(s, t)) = Len(s)
          /\ \A i \in 1..Len(s) : Pairs(s, t)[i] = Both(s[i], t[i])
      BY <1>16, <1>17, <2>1, PairsFacts, Zenon
    <2> QED BY <1>16, <1>19, <2>2
  <1>21. ASSUME NEW j \in 1..m PROVE k[j] = q[j]
    <2>1. PICK i \in 1..n : i = e[j]
      BY <1>15
    <2>2. k[j] = k0[i] /\ s[j] = s0[i] /\ t[j] = t0[i]
      BY <1>16, <1>17, <1>18, <2>1
    <2>3. k0[i] = Both(s0[i], t0[i])
      BY <1>4
    <2>4. q[j] = Both(s[j], t[j])
      BY <1>20
    <2> QED BY <2>2, <2>3, <2>4
  <1>22. k = Pairs(s, t)
    <2>1. k = q
      BY <1>18, <1>20, <1>21, SeqEqual
    <2> QED BY <1>19, <2>1
  <1>23. Fine(content.type, made, s) /\ Fine(content.type, made, t)
    BY <1>2, <1>11, ContentFacts, FineLess
  <1>24. Len(t) = Len(s)
    BY <1>16, <1>17
  <1> QED BY <1>0, <1>12, <1>16, <1>17, <1>22, <1>23, <1>24, PairsKeeps

-----------------------------------------------------------------------------
(* Stored and opened again.                                                 *)
LEMMA SavedValid ==
  ASSUME NEW c, NEW d, Valid(c), d.type = c.type, d.mode = c.mode, d.items = c.items,
         d.others = c.others, d.key = c.key, d.multiple = c.multiple, d.media = c.media,
         d.words = c.words
  PROVE  Valid(d)
  BY DEF Valid

LEMMA SaveKeeps ==
  ASSUME Core, NEW m \in MarksOf, NEW n \in Penalties, SaveQuestion(m, n)
  PROVE  Core'
  <1>1. /\ stage' = "stored" /\ UNCHANGED <<made, answer>> /\ answer = <<>>
        /\ Valid(content) /\ m \in Nat /\ n \in Nat
    BY DEF SaveQuestion, Core, Accepted
  <1>2. PICK d : d = [content EXCEPT !.indented = FALSE, !.marks = m, !.penalty = n]
    OBVIOUS
  <1>3. content' = d
    <2>1. content' = [[content EXCEPT !.indented = FALSE] EXCEPT !.marks = m, !.penalty = n]
      BY DEF SaveQuestion, Trimmed
    <2> QED BY <1>2, <2>1
  <1>4. /\ Typed(d) /\ d.type = content.type /\ d.mode = content.mode /\ d.items = content.items
        /\ d.others = content.others /\ d.key = content.key
        /\ d.multiple = content.multiple /\ d.words = content.words
        /\ d.media = content.media /\ d.indented = FALSE
    BY <1>1, <1>2, ContentFacts DEF Typed, ContentOf
  <1>5. Named(d)
    BY <1>4, ContentFacts DEF Named
  <1>6. Valid(d)
    BY <1>1, <1>4, SavedValid
  <1>7. answer' \in Seq(ClaimsOf(content'))
    BY <1>1
  <1>8. Sound(content', made')
    BY <1>1, <1>3, <1>4, <1>5, ContentFacts DEF Sound
  <1>9. Accepted'
    BY <1>1, <1>3, <1>4, <1>6 DEF Accepted
  <1> QED BY <1>1, <1>7, <1>8, <1>9, CoreIsSoundNext

LEMMA OpenKeeps ==
  ASSUME Core, OpenForm \/ StartPaper
  PROVE  Core'
  <1>1. /\ stage = "stored" /\ stage' \in {"form", "paper"}
        /\ UNCHANGED <<content, made, answer>>
    BY DEF OpenForm, StartPaper
  <1>2. Valid(content') <=> Valid(content)
    BY <1>1
  <1>3. Accepted'
    BY <1>1, <1>2 DEF Core, Accepted
  <1> QED BY <1>1, <1>3 DEF Core, QuestionsTypeOK, Numbered, KeyNamesItems

-----------------------------------------------------------------------------
(* Answering.                                                              *)
LEMMA PaperKeeps ==
  ASSUME Core, stage = "paper", UNCHANGED <<stage, content, made>>,
         answer' \in Seq(ClaimsOf(content))
  PROVE  Core'
  <1>1. Accepted'
    BY DEF Core, Accepted
  <1> QED BY <1>1 DEF Core, QuestionsTypeOK, Numbered, KeyNamesItems

LEMMA AnswerIs ==
  ASSUME Core
  PROVE  /\ answer \in Seq(ClaimsOf(content))
         /\ content.type = "true_false" => ClaimsOf(content) = BOOLEAN
         /\ content.mode = "match" => ClaimsOf(content) = TwoIds /\ content.type = "drag_drop"
         /\ content.mode = "typed" => ClaimsOf(content) = SUBSET IdsOf(content.items)
                                      /\ content.type = "find_mistakes"
         /\ content.type # "true_false" /\ content.mode \notin {"match", "typed"}
               => ClaimsOf(content) = Nat
         /\ content.type \notin {"drag_drop", "find_mistakes"} => content.mode = ""
  <1>1. content.mode = "typed" => content.type = "find_mistakes"
    BY ContentFacts, ModeOfType
  <1>2. content.type = "true_false" => ClaimsOf(content) = BOOLEAN
    BY ContentFacts, ModeOfType DEF ClaimsOf
  <1>3. content.mode = "match" => ClaimsOf(content) = TwoIds /\ content.type = "drag_drop"
    BY ContentFacts, ModeOfType DEF ClaimsOf, TwoIds
  <1>4. content.type # "true_false" /\ content.mode \notin {"match", "typed"}
               => ClaimsOf(content) = Nat
    BY ContentFacts, ModeOfType DEF ClaimsOf
  <1> QED BY <1>1, <1>2, <1>3, <1>4, CoreIsSound, ContentFacts, ModeOfType DEF ClaimsOf

LEMMA OptionsAre ==
  ASSUME Core, NEW x \in Sanitized.options
  PROVE  x \in Nat
  <1>1. Sanitized.options \subseteq IdsOf(content.items) \cup IdsOf(content.others)
    BY DEF Sanitized
  <1> QED BY <1>1, ContentFacts, IdsAreItems

LEMMA PickedKeeps ==
  ASSUME Core, NEW x \in Nat, UNCHANGED <<stage, content, made>>, stage = "paper",
         content.type \notin {"true_false", "drag_drop"}, content.mode # "typed",
         answer' \in {Flip(answer, x), <<x>>, Append(answer, x)}
  PROVE  Core'
  <1>1. ClaimsOf(content) = Nat /\ answer \in Seq(Nat)
    <2>1. content.mode # "match"
      BY AnswerIs
    <2> QED BY <2>1, AnswerIs
  <1>2. answer' \in Seq(Nat)
    <2>1. Flip(answer, x) \in Seq(Nat)
      BY <1>1, FlipFacts
    <2>2. <<x>> \in Seq(Nat)
      BY OneKey
    <2>3. Append(answer, x) \in Seq(Nat)
      BY <1>1
    <2> QED BY <2>1, <2>2, <2>3
  <1> QED BY <1>1, <1>2, PaperKeeps

LEMMA RemoveClaimKeeps ==
  ASSUME Core, NEW i \in DOMAIN answer, RemoveClaim(i)
  PROVE  Core'
  <1>1. /\ stage = "paper" /\ UNCHANGED <<stage, content, made>>
        /\ content.type \in {"hotspot", "video_review"} /\ answer' = RemoveAt(answer, i)
    BY DEF RemoveClaim, Shown, Claim
  <1>2. ClaimsOf(content) = Nat /\ answer \in Seq(Nat)
    BY <1>1, AnswerIs
  <1>3. PICK n \in Nat : n = Len(answer) /\ i \in 1..n /\ \A j \in 1..n : answer[j] \in Nat
    BY <1>2
  <1>4. SubSeq(answer, 1, i - 1) \in Seq(Nat)
    <2>1. \A j \in 1..(i - 1) : answer[j] \in Nat
      BY <1>3
    <2>2. i - 1 \in Int
      BY <1>3
    <2> QED BY <2>1, <2>2, SubSeqProperties
  <1>5. SubSeq(answer, i + 1, Len(answer)) \in Seq(Nat)
    <2>1. \A j \in (i + 1)..n : answer[j] \in Nat
      BY <1>3
    <2>2. i + 1 \in Int /\ n \in Int
      BY <1>3
    <2>3. SubSeq(answer, i + 1, n) \in Seq(Nat)
      BY <2>1, <2>2, SubSeqProperties
    <2> QED BY <1>3, <2>3
  <1>6. answer' \in Seq(Nat)
    BY <1>1, <1>4, <1>5, ConcatProperties DEF RemoveAt
  <1> QED BY <1>1, <1>2, <1>6, PaperKeeps

LEMMA MoveKeeps ==
  ASSUME Core, NEW i \in DOMAIN Order, Move(i)
  PROVE  Core'
  <1>1. /\ stage = "paper" /\ UNCHANGED <<stage, content, made>> /\ i + 1 <= Len(Order)
        /\ content.type = "drag_drop" /\ content.mode = "sequence"
        /\ answer' = [Order EXCEPT ![i] = Order[i + 1], ![i + 1] = Order[i]]
    BY DEF Move, Shown, Claim, Sanitized
  <1>2. ClaimsOf(content) = Nat /\ answer \in Seq(Nat)
    BY <1>1, AnswerIs
  <1>3. Keys(content.type, content.mode) = Nat
    BY <1>1 DEF Keys
  <1>4. PICK s \in Seq(Nat) : s = Order
    BY <1>2, <1>3, ContentFacts DEF Order
  <1>5. PICK n \in Nat : n = Len(s) /\ DOMAIN s = 1..n /\ \A j \in 1..n : s[j] \in Nat
    OBVIOUS
  <1>6. i \in 1..n /\ i + 1 \in 1..n
    BY <1>1, <1>4, <1>5
  <1>7. PICK x \in Nat, y \in Nat : x = s[i] /\ y = s[i + 1]
    BY <1>5, <1>6
  <1>8. PICK t : t = [s EXCEPT ![i] = y]
    OBVIOUS
  <1>a. t \in Seq(Nat) /\ Len(t) = n
    <2>1. [s EXCEPT ![i] = y] \in Seq(Nat) /\ Len([s EXCEPT ![i] = y]) = Len(s)
      BY <1>5, <1>6, ExceptSeq
    <2> QED BY <1>5, <1>8, <2>1
  <1>9. [t EXCEPT ![i + 1] = x] \in Seq(Nat)
    BY <1>6, <1>a, ExceptSeq
  <1>10. answer' = [t EXCEPT ![i + 1] = x]
    BY <1>1, <1>4, <1>7, <1>8
  <1> QED BY <1>1, <1>2, <1>9, <1>10, PaperKeeps

LEMMA SetPairKeeps ==
  ASSUME Core, NEW l \in Sanitized.options, NEW r \in Sanitized.right \cup {0}, SetPair(l, r)
  PROVE  Core'
  <1> DEFINE others == Keep(answer, {p \in ToSet(answer) : p[1] # l})
             at == {i \in DOMAIN answer : answer[i][1] = l}
  <1>1. /\ stage = "paper" /\ UNCHANGED <<stage, content, made>>
        /\ content.type = "drag_drop" /\ content.mode = "match"
        /\ answer' = IF r = 0 THEN others
                     ELSE IF at = {} THEN Append(answer, <<l, r>>)
                     ELSE [i \in DOMAIN answer |-> IF i \in at THEN <<l, r>> ELSE answer[i]]
    BY DEF SetPair, Shown, Claim, Sanitized
  <1>2. ClaimsOf(content) = TwoIds /\ answer \in Seq(TwoIds)
    BY <1>1, AnswerIs
  <1>3. r \in Nat
    <2>1. Sanitized.right \subseteq IdsOf(content.others)
      BY DEF Sanitized
    <2> QED BY <2>1, ContentFacts, IdsAreItems
  <1>4. PICK p \in TwoIds : p = <<l, r>>
    BY <1>3, OptionsAre DEF TwoIds
  <1>5. others \in Seq(TwoIds)
    BY <1>2, KeepFacts
  <1>6. Append(answer, p) \in Seq(TwoIds)
    BY <1>2
  <1>7. [i \in DOMAIN answer |-> IF i \in at THEN p ELSE answer[i]] \in Seq(TwoIds)
    <2> HIDE DEF at
    <2>1. PICK n \in Nat : n = Len(answer) /\ DOMAIN answer = 1..n /\ \A j \in 1..n : answer[j] \in TwoIds
      BY <1>2
    <2>2. [i \in 1..n |-> IF i \in at THEN p ELSE answer[i]] \in Seq(TwoIds)
      BY <2>1
    <2> QED BY <2>1, <2>2
  <1> HIDE DEF others, at
  <1>8. answer' \in Seq(TwoIds)
    BY <1>1, <1>4, <1>5, <1>6, <1>7
  <1> QED BY <1>1, <1>2, <1>8, PaperKeeps

LEMMA ReplyKeeps ==
  ASSUME Core, Reply
  PROVE  Core'
  <1>1. ASSUME NEW x \in Sanitized.options, AnswerMcq(x) \/ AnswerImage(x) \/ AnswerMistakes(x)
        PROVE  Core'
    <2>1. /\ stage = "paper" /\ UNCHANGED <<stage, content, made>>
          /\ content.type \in {"mcq", "image_comparison", "find_mistakes"}
          /\ answer' \in {Flip(answer, x), <<x>>}
      BY <1>1 DEF AnswerMcq, AnswerImage, AnswerMistakes, Shown, Claim
    <2>2. content.mode # "typed"
      <3>1. CASE content.type = "find_mistakes"
        BY <1>1, <3>1 DEF AnswerMcq, AnswerImage, AnswerMistakes, Shown, Sanitized
      <3> QED BY <3>1, AnswerIs
    <2> QED BY <2>1, <2>2, OptionsAre, PickedKeeps
  <1>2. ASSUME NEW b \in BOOLEAN, AnswerTrueFalse(b) PROVE Core'
    <2>1. /\ stage = "paper" /\ UNCHANGED <<stage, content, made>>
          /\ content.type = "true_false" /\ answer' = <<b>>
      BY <1>2 DEF AnswerTrueFalse, Shown, Claim
    <2>2. <<b>> \in Seq(BOOLEAN)
      BY OneKey
    <2> QED BY <2>1, <2>2, AnswerIs, PaperKeeps
  <1>3. ASSUME TypeLines(<<>>) \/ \E S \in SUBSET IdsOf(content.items) : TypeLines(<<S>>)
        PROVE  Core'
    <2>1. /\ stage = "paper" /\ UNCHANGED <<stage, content, made>>
          /\ content.mode = "typed"
          /\ answer' = <<>> \/ \E S \in SUBSET IdsOf(content.items) : answer' = <<S>>
      BY <1>3 DEF TypeLines, Shown, Claim, Sanitized
    <2> DEFINE A == SUBSET IdsOf(content.items)
    <2>2. answer' \in Seq(A)
      <3> HIDE DEF A
      <3>1. <<>> \in Seq(A)
        OBVIOUS
      <3>2. \A S \in A : <<S>> \in Seq(A)
        BY OneKey
      <3>3. answer' = <<>> \/ \E S \in A : answer' = <<S>>
        BY <2>1 DEF A
      <3> QED BY <3>1, <3>2, <3>3
    <2> QED BY <2>1, <2>2, AnswerIs, PaperKeeps
  <1>4. ASSUME NEW p \in 0..Places, ClickImage(p) \/ MarkMoment(p) PROVE Core'
    <2>1. /\ stage = "paper" /\ UNCHANGED <<stage, content, made>> /\ p \in Nat
          /\ content.type \in {"hotspot", "video_review"} /\ answer' = Append(answer, p)
      BY <1>4 DEF ClickImage, MarkMoment, Shown, Claim
    <2> QED BY <2>1, AnswerIs, PickedKeeps
  <1>5. ASSUME NEW w \in 0..MaxWords, AnswerWords(w) PROVE Core'
    <2>1. /\ stage = "paper" /\ UNCHANGED <<stage, content, made>> /\ w \in Nat
          /\ content.type = "content_review" /\ answer' = Flip(answer, w)
      BY <1>5 DEF AnswerWords, Shown, Claim
    <2> QED BY <2>1, AnswerIs, PickedKeeps
  <1>6. ASSUME NEW i \in DOMAIN answer, RemoveClaim(i) PROVE Core'
    BY <1>6, RemoveClaimKeeps
  <1>7. ASSUME NEW i \in DOMAIN Order, Move(i) PROVE Core'
    BY <1>7, MoveKeeps
  <1>8. ASSUME NEW l \in Sanitized.options, NEW r \in Sanitized.right \cup {0}, SetPair(l, r)
        PROVE  Core'
    BY <1>8, SetPairKeeps
  <1> QED BY <1>1, <1>2, <1>3, <1>4, <1>5, <1>6, <1>7, <1>8 DEF Reply

-----------------------------------------------------------------------------
(* Every step of a question.                                                *)
LEMMA EditItemKeeps ==
  ASSUME Core, NEW i \in IdsOf(content.items) \cup IdsOf(content.others), EditItem(i)
  PROVE  Core'
  <1>1. CASE RemoveOption(i)
    BY <1>1, RemoveOptionKeeps
  <1>2. CASE ToggleCorrect(i)
    BY <1>2, ToggleCorrectKeeps
  <1>3. CASE RemoveImage(i)
    BY <1>3, RemoveImageKeeps
  <1>4. CASE MarkImage(i)
    BY <1>4, MarkImageKeeps
  <1>5. CASE RemoveLabel(i) \/ RemoveZone(i) \/ RemoveMistake(i)
    BY <1>5, RemovedKeeps
  <1>6. CASE RemoveSequenceItem(i)
    BY <1>6, RemoveSequenceItemKeeps
  <1>7. CASE RemovePair(i)
    BY <1>7, RemovePairKeeps
  <1> QED BY <1>1, <1>2, <1>3, <1>4, <1>5, <1>6, <1>7 DEF EditItem

LEMMA EditKeeps ==
  ASSUME Core, Edit
  PROVE  Core'
  <1>1. CASE \E i \in 1..MaxItems, b \in BOOLEAN : FillItem(i, b)
    BY <1>1, FillKeeps
  <1>2. ASSUME NEW b \in BOOLEAN, SetMedia(b) \/ SetMultiple(b) \/ SetPartial(b) \/ SetCorrectAnswer(b)
        PROVE  Core'
    <2>1. CASE SetMedia(b) \/ SetPartial(b)
      BY <2>1, SettingKeeps
    <2>2. CASE SetMultiple(b)
      BY <2>2, SetMultipleKeeps
    <2>3. CASE SetCorrectAnswer(b)
      BY <2>3, SetCorrectAnswerKeeps
    <2> QED BY <1>2, <2>1, <2>2, <2>3
  <1>3. CASE \E n \in Tolerances : SetTolerance(n)
    BY <1>3, SettingKeeps
  <1>4. CASE \/ AddOption \/ AddImage \/ \E p, q \in 0..Places : DrawZone(p, q)
             \/ \E p \in 0..Places : AddMistake(p)
    BY <1>4, AddKeeps
  <1>5. CASE AddSequenceItem
    BY <1>5, AddSequenceItemKeeps
  <1>6. CASE AddPair
    BY <1>6, AddPairKeeps
  <1>7. CASE \E i \in IdsOf(content.items) \cup IdsOf(content.others) : EditItem(i)
    BY <1>7, EditItemKeeps
  <1>8. CASE \E m \in {"checklist", "typed"} : SetAnswerMode(m)
    BY <1>8, SetAnswerModeKeeps
  <1>9. CASE \E b \in BOOLEAN : AddLabel(b)
    <2>1. AddLabel(TRUE) \/ AddLabel(FALSE)
      BY <1>9
    <2> QED BY <2>1, AddKeeps, AddDistractorKeeps
  <1>10. CASE \E n \in 0..MaxWords, b \in BOOLEAN : SetText(n, b)
    BY <1>10, SetTextKeeps
  <1>11. CASE \E w \in 0..MaxWords : ToggleWord(w)
    BY <1>11, ToggleWordKeeps
  <1>12. CASE \E m \in {"sequence", "match"} : SetDragMode(m)
    BY <1>12, SetDragModeKeeps
  <1>13. CASE \E t \in Types : ChangeType(t)
    BY <1>13, ChangeTypeKeeps
  <1> QED BY <1>1, <1>2, <1>3, <1>4, <1>5, <1>6, <1>7, <1>8, <1>9, <1>10, <1>11, <1>12, <1>13 DEF Edit

LEMMA InitCore == QuestionsInit => Core
  <1> SUFFICES ASSUME QuestionsInit PROVE Core
    OBVIOUS
  <1>1. PICK t \in Types : content = EmptyContent(t)
    BY DEF QuestionsInit
  <1>2. made = IF t = "image_comparison" THEN 2 ELSE 0
    BY <1>1, EmptyMode DEF QuestionsInit
  <1>3. Sound(content, made)
    BY <1>1, <1>2, EmptyMode, EmptySound
  <1>4. stage = "form" /\ answer = <<>>
    BY DEF QuestionsInit
  <1>5. answer \in Seq(ClaimsOf(content)) /\ Accepted
    BY <1>4 DEF Accepted
  <1> QED BY <1>3, <1>4, <1>5, CoreIsSound

LEMMA NextCore == Core /\ [QuestionsNext]_questionVars => Core'
  <1> SUFFICES ASSUME Core, [QuestionsNext]_questionVars PROVE Core'
    OBVIOUS
  <1>1. CASE Edit
    BY <1>1, EditKeeps
  <1>2. CASE \E m \in MarksOf, n \in Penalties : SaveQuestion(m, n)
    BY <1>2, SaveKeeps
  <1>3. CASE OpenForm \/ StartPaper
    BY <1>3, OpenKeeps
  <1>4. CASE Reply
    BY <1>4, ReplyKeeps
  <1>5. CASE UNCHANGED questionVars
    BY <1>5 DEF questionVars, Core, QuestionsTypeOK, Numbered, KeyNamesItems, Accepted, Valid,
                Filled, Differ, InOrder, ClaimsOf
  <1> QED BY <1>1, <1>2, <1>3, <1>4, <1>5 DEF QuestionsNext

(* The typed content, the places and ids of its items, the key naming them  *)
(* and the acceptance of what is stored are inductive by themselves:        *)
(* whatever is edited, stored, opened and answered, in whatever order.      *)
THEOREM CoreInvariant == QuestionsSpec => []Core
  BY InitCore, NextCore, PTL DEF QuestionsSpec

-----------------------------------------------------------------------------
(* Rounding.                                                               *)
LEMMA Product ==
  ASSUME NEW a \in Int, NEW b \in Int, NEW d \in Nat
  PROVE  /\ a * d \in Int /\ d * a \in Int /\ a * d = d * a
         /\ a <= b => a * d <= b * d
         /\ (a + 1) * d = a * d + d
         /\ a \in Nat => a * d \in Nat
  OBVIOUS

LEMMA Quotient ==
  ASSUME NEW x \in Nat, NEW d \in Nat \ {0}
  PROVE  /\ x \div d \in Nat /\ (x \div d) * d <= x /\ x < (x \div d) * d + d
  OBVIOUS

LEMMA Rounded ==
  ASSUME NEW n \in Nat \ {0}, NEW d \in Nat \ {0}
  PROVE  /\ Clamp(n, d) \in Nat
         /\ 2 * (Clamp(n, d) * d) <= 2 * n + d /\ 2 * n < 2 * (Clamp(n, d) * d) + d
  <1>1. PICK x \in Nat, e \in Nat \ {0} : x = 2 * n + d /\ e = 2 * d
    OBVIOUS
  <1>2. Clamp(n, d) = x \div e
    BY <1>1 DEF Clamp
  <1>3. PICK c \in Nat : c = x \div e /\ c * e <= x /\ x < c * e + e
    BY Quotient
  <1>4. c * e = 2 * (c * d)
    BY <1>1
  <1>5. c * d \in Nat
    BY Product
  <1> QED BY <1>1, <1>2, <1>3, <1>4, <1>5

LEMMA Nearer ==
  ASSUME NEW a \in Nat, NEW b \in Nat, NEW d \in Nat \ {0}, 2 * (a * d) < 2 * (b * d) + 2 * d
  PROVE  a <= b
  <1>1. SUFFICES ASSUME b + 1 <= a PROVE FALSE
    OBVIOUS
  <1>2. (b + 1) * d <= a * d /\ (b + 1) * d = b * d + d /\ a * d \in Nat /\ b * d \in Nat
    BY <1>1, Product
  <1> QED BY <1>2

LEMMA ClampNat ==
  ASSUME NEW n \in Int, NEW d \in Nat \ {0}
  PROVE  Clamp(n, d) \in Nat
  <1>1. CASE n <= 0
    BY <1>1 DEF Clamp
  <1>2. CASE n > 0
    BY <1>2, Rounded
  <1> QED BY <1>1, <1>2

LEMMA ClampMore ==
  ASSUME NEW n \in Int, NEW k \in Int, NEW d \in Nat \ {0}, n <= k
  PROVE  Clamp(n, d) <= Clamp(k, d)
  <1>1. CASE n <= 0
    <2>1. Clamp(n, d) = 0
      BY <1>1 DEF Clamp
    <2> QED BY <2>1, ClampNat
  <1>2. CASE n > 0
    <2>1. PICK a \in Nat, b \in Nat : a = Clamp(n, d) /\ b = Clamp(k, d)
      BY ClampNat
    <2>2. a * d \in Nat /\ b * d \in Nat
      BY Product
    <2>3. 2 * (a * d) <= 2 * n + d
      BY <1>2, <2>1, Rounded
    <2>a. k \in Nat \ {0}
      BY <1>2
    <2>4. 2 * k < 2 * (b * d) + d
      BY <2>a, <2>1, Rounded
    <2>5. 2 * (a * d) < 2 * (b * d) + 2 * d
      BY <2>2, <2>3, <2>4
    <2> QED BY <2>1, <2>5, Nearer
  <1> QED BY <1>1, <1>2

LEMMA ClampAll ==
  ASSUME NEW m \in Nat, NEW d \in Nat \ {0}
  PROVE  Clamp(m * d, d) = m
  <1>1. PICK n \in Nat : n = m * d
    BY Product
  <1>2. CASE m = 0
    BY <1>2 DEF Clamp
  <1>3. CASE m > 0
    <2>1. n > 0
      <3>1. 1 <= m
        BY <1>3
      <3>2. 1 * d <= m * d
        BY <3>1, Product
      <3> QED BY <1>1, <3>2
    <2>2. PICK c \in Nat : c = Clamp(n, d)
      BY ClampNat
    <2>3. c * d \in Nat
      BY Product
    <2>4. 2 * (c * d) <= 2 * n + d /\ 2 * n < 2 * (c * d) + d
      BY <2>1, <2>2, Rounded
    <2>5. 2 * (c * d) < 2 * (m * d) + 2 * d /\ 2 * (m * d) < 2 * (c * d) + 2 * d
      BY <1>1, <2>3, <2>4
    <2>6. c <= m /\ m <= c
      BY <2>5, Nearer
    <2> QED BY <1>1, <2>2, <2>6
  <1> QED BY <1>2, <1>3

LEMMA ClampWithin ==
  ASSUME NEW m \in Nat, NEW d \in Nat \ {0}, NEW n \in Int, n <= m * d
  PROVE  Clamp(n, d) \in 0..m
  <1>1. m * d \in Int
    BY Product
  <1>2. Clamp(n, d) <= m
    BY <1>1, ClampMore, ClampAll
  <1> QED BY <1>2, ClampNat

-----------------------------------------------------------------------------
(* How many.                                                               *)
LEMMA Numbers ==
  ASSUME NEW s, NEW A, s \in Seq(A)
  PROVE  /\ IsFiniteSet(ToSet(s)) /\ Cardinality(ToSet(s)) \in Nat
         /\ Cardinality(ToSet(s)) <= Len(s)
         /\ (\A i, j \in 1..Len(s) : s[i] = s[j] => i = j) => Cardinality(ToSet(s)) = Len(s)
         /\ s # <<>> => Cardinality(ToSet(s)) > 0
  <1>1. PICK n \in Nat : n = Len(s)
    OBVIOUS
  <1>2. DOMAIN s = 1..n /\ s \in [1..n -> A]
    BY <1>1
  <1>3. ToSet(s) = {s[i] : i \in 1..n}
    BY <1>2 DEF ToSet
  <1>4. s \in Surjection(1..n, ToSet(s))
    <2>1. s \in [1..n -> ToSet(s)]
      BY <1>2, <1>3
    <2> QED BY <1>3, <2>1 DEF Surjection
  <1>5. IsFiniteSet(1..n) /\ Cardinality(1..n) = n
    BY FS_Interval
  <1>6. /\ IsFiniteSet(ToSet(s)) /\ Cardinality(ToSet(s)) <= n
        /\ Cardinality(ToSet(s)) = n <=> s \in Injection(1..n, ToSet(s))
    BY <1>4, <1>5, FS_Surjection
  <1>7. Cardinality(ToSet(s)) \in Nat
    BY <1>6, FS_CardinalityType
  <1>8. (\A i, j \in 1..n : s[i] = s[j] => i = j) => s \in Injection(1..n, ToSet(s))
    BY <1>2, <1>4 DEF Injection, Surjection, IsInjective
  <1>9. s # <<>> => ToSet(s) # {}
    <2>1. s # <<>> => 1 \in 1..n
      BY <1>1
    <2> QED BY <1>3, <2>1
  <1>10. ToSet(s) # {} => Cardinality(ToSet(s)) # 0
    BY <1>6, FS_EmptySet
  <1> QED BY <1>1, <1>6, <1>7, <1>8, <1>9, <1>10

LEMMA Fewer ==
  ASSUME NEW T, IsFiniteSet(T), NEW S \in SUBSET T
  PROVE  /\ IsFiniteSet(S) /\ Cardinality(S) \in Nat /\ Cardinality(T) \in Nat
         /\ Cardinality(S) <= Cardinality(T)
         /\ Cardinality(T \ S) = Cardinality(T) - Cardinality(S)
         /\ Cardinality(T) = Cardinality(S) => S = T
  <1>1. /\ IsFiniteSet(S) /\ Cardinality(S) <= Cardinality(T)
        /\ (Cardinality(T) = Cardinality(S) => S = T)
    BY FS_Subset
  <1>2. Cardinality(S) \in Nat /\ Cardinality(T) \in Nat
    BY <1>1, FS_CardinalityType
  <1>3. T \cap S = S
    OBVIOUS
  <1>4. Cardinality(T \ S) = Cardinality(T) - Cardinality(S)
    BY <1>3, FS_Difference
  <1> QED BY <1>1, <1>2, <1>4

LEMMA UpToFinite ==
  ASSUME NEW n \in Nat
  PROVE  IsFiniteSet(1..n) /\ Cardinality(1..n) = n
  BY FS_Interval

LEMMA IdsNumber ==
  ASSUME NEW s \in Items
  PROVE  /\ IsFiniteSet(IdsOf(s)) /\ Cardinality(IdsOf(s)) \in Nat
         /\ Cardinality(IdsOf(s)) <= Len(s)
         /\ Differ(s) => Cardinality(IdsOf(s)) = Len(s)
  <1>1. PICK k \in Seq(Nat) : k = InOrder(s)
    BY InOrderFacts
  <1>2. /\ Len(k) = Len(s) /\ ToSet(k) = IdsOf(s)
        /\ \A i \in 1..Len(s) : k[i] = s[i].id
    BY <1>1, InOrderFacts
  <1>3. Differ(s) => \A i, j \in 1..Len(k) : k[i] = k[j] => i = j
    BY <1>2, ItemFacts DEF Differ
  <1> QED BY <1>2, <1>3, Numbers

-----------------------------------------------------------------------------
(* What the rules of marking give.                                         *)
Capped(q, s) ==
    /\ s.obtained \in 0..q.marks /\ s.suggested \in 0..q.marks
    /\ s.full => s.obtained = q.marks
    /\ ~s.attempted => s.obtained = 0 /\ ~s.full
Solves(q, s) == IF s.pending THEN s.obtained = 0 /\ s.suggested = q.marks
                             ELSE s.obtained = q.marks /\ s.full

LEMMA UnansweredCapped ==
  ASSUME NEW q, q.marks \in Nat
  PROVE  Capped(q, Unanswered) /\ Unanswered.found = 0 /\ Unanswered.obtained = 0
  BY DEF Capped, Unanswered, Scored

LEMMA AllOrNothingCapped ==
  ASSUME NEW q, q.marks \in Nat, q.penalty \in Nat, NEW right \in BOOLEAN
  PROVE  /\ Capped(q, AllOrNothing(q, right)) /\ AllOrNothing(q, right).found = 0
         /\ right => Solves(q, AllOrNothing(q, right))
  <1>1. Clamp(-q.penalty, 1) = 0
    BY DEF Clamp
  <1>2. PICK o : o = IF right THEN q.marks ELSE 0
    OBVIOUS
  <1>3. AllOrNothing(q, right) = Scored(o, right, 0)
    BY <1>1, <1>2 DEF AllOrNothing
  <1>4. o \in 0..q.marks /\ (right => o = q.marks)
    BY <1>2
  <1>5. PICK s : s = AllOrNothing(q, right)
    OBVIOUS
  <1>6. /\ s.obtained = o /\ s.full = right /\ s.found = 0 /\ s.attempted = TRUE
        /\ s.pending = FALSE /\ s.suggested = 0
    BY <1>3, <1>5 DEF Scored
  <1>7. Capped(q, s) /\ s.found = 0 /\ (right => Solves(q, s))
    BY <1>4, <1>6 DEF Capped, Solves
  <1> QED BY <1>5, <1>7

LEMMA ShareCapped ==
  ASSUME NEW q, q.marks \in Nat, q.penalty \in Nat, Len(q.items) \in Nat \ {0},
         NEW found \in Nat, found <= Len(q.items), NEW wrong \in Nat
  PROVE  /\ Capped(q, Share(q, found, wrong)) /\ Share(q, found, wrong).found = found
         /\ Share(q, found, wrong).obtained \in Nat
         /\ found = Len(q.items) /\ wrong = 0 => Solves(q, Share(q, found, wrong))
         /\ \A more \in Nat : found <= more =>
               Share(q, found, wrong).obtained <= Share(q, more, wrong).obtained
  <1>1. PICK t \in Nat \ {0}, m \in Nat, p \in Nat : t = Len(q.items) /\ m = q.marks /\ p = q.penalty
    OBVIOUS
  <1>2. PICK w \in Nat : w = p * wrong
    BY Product
  <1>3. PICK lost \in Nat : lost = w * t
    BY Product
  <1>4. wrong = 0 => lost = 0
    BY <1>2, <1>3
  <1>5. ASSUME NEW f \in Nat
        PROVE  Share(q, f, wrong) = Scored(Clamp(m * f - lost, t), f = t /\ wrong = 0, f)
    BY <1>1, <1>2, <1>3 DEF Share
  <1>6. PICK g \in Int : g = m * found - lost
    <2>1. m * found \in Nat
      BY Product
    <2> QED BY <2>1
  <1>7. g <= m * t
    <2>1. found * m <= t * m /\ found * m = m * found /\ t * m = m * t
      BY <1>1, Product
    <2>2. m * found \in Nat /\ m * t \in Nat
      BY Product
    <2> QED BY <1>6, <2>1, <2>2
  <1>8. Clamp(g, t) \in 0..m
    BY <1>7, ClampWithin
  <1>9. found = t /\ wrong = 0 => Clamp(g, t) = m
    <2>1. m * t \in Nat
      BY Product
    <2>2. found = t /\ wrong = 0 => g = m * t
      BY <1>4, <1>6, <2>1
    <2> QED BY <2>2, ClampAll
  <1>a. PICK c \in Nat : c = Clamp(g, t)
    BY <1>8
  <1>b. ASSUME NEW f \in Nat, NEW h, h = Clamp(m * f - lost, t)
        PROVE  /\ Share(q, f, wrong).obtained = h /\ (Share(q, f, wrong).full <=> (f = t /\ wrong = 0))
               /\ Share(q, f, wrong).found = f /\ Share(q, f, wrong).attempted = TRUE
               /\ Share(q, f, wrong).pending = FALSE /\ Share(q, f, wrong).suggested = 0
    <2>1. PICK b \in BOOLEAN : b <=> (f = t /\ wrong = 0)
      OBVIOUS
    <2>2. Share(q, f, wrong) = Scored(h, b, f)
      <3>1. b = (f = t /\ wrong = 0)
        BY <2>1
      <3> QED BY <1>5, <1>b, <3>1, Zenon
    <2>3. PICK x : x = Share(q, f, wrong)
      OBVIOUS
    <2>4. /\ x.obtained = h /\ x.full = b /\ x.found = f /\ x.attempted = TRUE
          /\ x.pending = FALSE /\ x.suggested = 0
      BY <2>2, <2>3 DEF Scored
    <2> QED BY <2>1, <2>3, <2>4
  <1>c. PICK s : s = Share(q, found, wrong)
    OBVIOUS
  <1>10. /\ s = Share(q, found, wrong) /\ s.obtained = c /\ (s.full <=> (found = t /\ wrong = 0))
         /\ s.found = found /\ s.attempted = TRUE /\ s.pending = FALSE /\ s.suggested = 0
    <2>1. c = Clamp(m * found - lost, t)
      BY <1>a, <1>6
    <2>2. /\ Share(q, found, wrong).obtained = c
          /\ (Share(q, found, wrong).full <=> (found = t /\ wrong = 0))
          /\ Share(q, found, wrong).found = found /\ Share(q, found, wrong).attempted = TRUE
          /\ Share(q, found, wrong).pending = FALSE /\ Share(q, found, wrong).suggested = 0
      BY <1>b, <2>1
    <2> QED BY <1>c, <2>2
  <1>11. ASSUME NEW more \in Nat, found <= more
         PROVE  c <= Share(q, more, wrong).obtained
    <2>1. found * m <= more * m /\ found * m = m * found /\ more * m = m * more
          /\ m * found \in Nat /\ m * more \in Nat
      BY <1>11, Product
    <2>2. PICK h \in Int : h = m * more - lost
      BY <2>1
    <2>3. g <= h
      BY <1>6, <2>1, <2>2
    <2>4. c <= Clamp(h, t)
      BY <1>a, <2>3, ClampMore
    <2>5. Share(q, more, wrong).obtained = Clamp(h, t)
      BY <1>b, <2>2
    <2> QED BY <2>4, <2>5
  <1>12. \A more \in Nat : found <= more =>
            Share(q, found, wrong).obtained <= Share(q, more, wrong).obtained
    BY <1>10, <1>11
  <1>13. c \in 0..m /\ 0 \in 0..m /\ (found = t /\ wrong = 0 => c = m)
    BY <1>a, <1>8, <1>9
  <1>14. Capped(q, s) /\ (found = t /\ wrong = 0 => Solves(q, s))
    BY <1>1, <1>10, <1>13 DEF Capped, Solves
  <1> QED BY <1>1, <1>10, <1>12, <1>14

(* Claims that are told apart by being in a set or not.                    *)
LEMMA ShareOfSet ==
  ASSUME NEW q, q.marks \in Nat, q.penalty \in Nat, Len(q.items) \in Nat \ {0},
         NEW A, NEW a \in Seq(A), NEW F, IsFiniteSet(F), Cardinality(F) <= Len(q.items),
         NEW found, found = Cardinality(ToSet(a) \cap F)
  PROVE  /\ found \in Nat /\ found <= Len(q.items) /\ Cardinality(ToSet(a)) - found \in Nat
         /\ ToSet(a) = F /\ Cardinality(F) = Len(q.items)
               => found = Len(q.items) /\ Cardinality(ToSet(a)) - found = 0
  <1>1. IsFiniteSet(ToSet(a)) /\ Cardinality(ToSet(a)) \in Nat
    BY Numbers
  <1>2. /\ found \in Nat /\ found <= Cardinality(ToSet(a)) /\ found <= Cardinality(F)
        /\ Cardinality(F) \in Nat
    BY <1>1, Fewer
  <1>3. ToSet(a) = F => found = Cardinality(F)
    <2>1. ToSet(a) = F => ToSet(a) \cap F = F
      OBVIOUS
    <2> QED BY <2>1
  <1> QED BY <1>1, <1>2, <1>3

LEMMA McqCapped ==
  ASSUME NEW q, q.marks \in Nat, q.penalty \in Nat, q.multiple \in BOOLEAN,
         q.key \in Seq(Nat), q.key # <<>>, q.items \in Items,
         NEW a \in Seq(Nat)
  PROVE  /\ Capped(q, Mcq(q, a)) /\ Mcq(q, a).found = 0
         /\ a = q.key /\ (~q.multiple => Len(q.key) = 1) => Solves(q, Mcq(q, a))
  <1>1. PICK right, wrong, total, got :
          /\ right = Cardinality(ToSet(a) \cap ToSet(q.key))
          /\ wrong = Cardinality((ToSet(a) \cap IdsOf(q.items)) \ ToSet(q.key))
          /\ total = Cardinality(ToSet(q.key)) /\ got = Cardinality(ToSet(a))
    OBVIOUS
  <1>2. /\ IsFiniteSet(ToSet(a)) /\ IsFiniteSet(ToSet(q.key))
        /\ total \in Nat \ {0} /\ total <= Len(q.key) /\ got \in Nat
    BY <1>1, Numbers
  <1>3. /\ right \in Nat /\ right <= total
    BY <1>1, <1>2, Fewer
  <1>4. wrong \in Nat
    <2>1. (ToSet(a) \cap IdsOf(q.items)) \ ToSet(q.key) \in SUBSET ToSet(a)
      OBVIOUS
    <2> QED BY <1>1, <1>2, <2>1, Fewer
  <1>5. a = q.key => right = total /\ wrong = 0 /\ got = total
    <2>1. a = q.key => /\ ToSet(a) \cap ToSet(q.key) = ToSet(q.key)
                       /\ (ToSet(a) \cap IdsOf(q.items)) \ ToSet(q.key) = {}
      OBVIOUS
    <2> QED BY <1>1, <2>1, FS_EmptySet
  <1>6. CASE ~q.multiple
    <2>1. Mcq(q, a) = AllOrNothing(q, got = 1 /\ right = 1)
      BY <1>1, <1>6 DEF Mcq
    <2>2. a = q.key /\ Len(q.key) = 1 => (got = 1 /\ right = 1) = TRUE
      BY <1>2, <1>5
    <2> QED BY <1>6, <2>1, <2>2, AllOrNothingCapped
  <1>7. CASE q.multiple /\ ~q.partial
    <2>1. Mcq(q, a) = AllOrNothing(q, right = total /\ wrong = 0)
      BY <1>1, <1>7 DEF Mcq
    <2>2. a = q.key => (right = total /\ wrong = 0) = TRUE
      BY <1>5
    <2> QED BY <2>1, <2>2, AllOrNothingCapped
  <1>8. CASE q.multiple /\ q.partial
    <2>1. PICK m \in Nat, p \in Nat : m = q.marks /\ p = q.penalty
      OBVIOUS
    <2>2. PICK net \in Nat : /\ net = IF right > wrong THEN right - wrong ELSE 0
                             /\ net <= total /\ (right = total /\ wrong = 0 => net = total)
      <3>1. CASE right > wrong
        BY <1>2, <1>3, <1>4, <3>1
      <3>2. CASE ~(right > wrong)
        <4>1. ~(right = total /\ wrong = 0)
          BY <1>2, <1>3, <3>2
        <4> QED BY <1>2, <3>2, <4>1
      <3> QED BY <3>1, <3>2
    <2>3. PICK lost \in Nat : /\ lost = IF wrong > 0 THEN p * total ELSE 0
                              /\ wrong = 0 => lost = 0
      <3>1. p * total \in Nat
        BY <1>2, Product
      <3> QED BY <1>4, <3>1
    <2>4. PICK e : e = Clamp(m * net - lost, total)
      OBVIOUS
    <2>5. Mcq(q, a) = Scored(e, e >= m, 0)
      BY <1>1, <1>8, <2>1, <2>2, <2>3, <2>4 DEF Mcq
    <2>6. PICK g \in Int : g = m * net - lost
      <3>1. m * net \in Nat
        BY Product
      <3> QED BY <3>1
    <2>7. m * net \in Nat /\ m * total \in Nat /\ m * net <= m * total
      <3>1. net * m <= total * m /\ net * m = m * net /\ total * m = m * total
        BY <1>2, <2>2, Product
      <3>2. m * net \in Nat /\ m * total \in Nat
        BY <1>2, Product
      <3> QED BY <3>1, <3>2
    <2>8. g <= m * total
      BY <2>6, <2>7
    <2>9. e \in 0..m
      BY <1>2, <2>4, <2>6, <2>8, ClampWithin
    <2>10. a = q.key => e = m
      <3>1. a = q.key => g = m * total
        BY <1>5, <2>2, <2>3, <2>6, <2>7
      <3> QED BY <1>2, <2>4, <2>6, <3>1, ClampAll
    <2>11. e >= m => e = m
      BY <2>9
    <2>12. e = m => (e >= m) = TRUE
      BY <2>9
    <2>13. 0 \in 0..m
      OBVIOUS
    <2>14. PICK s : s = Mcq(q, a)
      OBVIOUS
    <2>15. /\ s.obtained = e /\ (s.full <=> (e >= m)) /\ s.found = 0 /\ s.attempted = TRUE
           /\ s.pending = FALSE /\ s.suggested = 0
      <3>1. PICK b \in BOOLEAN : b <=> (e >= m)
        OBVIOUS
      <3>2. s = Scored(e, b, 0)
        <4>1. b = (e >= m)
          BY <3>1
        <4> QED BY <2>5, <2>14, <4>1, Zenon
      <3>3. /\ s.obtained = e /\ s.full = b /\ s.found = 0 /\ s.attempted = TRUE
            /\ s.pending = FALSE /\ s.suggested = 0
        BY <3>2 DEF Scored
      <3> QED BY <3>1, <3>3
    <2>16. Capped(q, s) /\ s.found = 0 /\ (a = q.key => Solves(q, s))
      BY <2>1, <2>9, <2>10, <2>11, <2>12, <2>13, <2>15 DEF Capped, Solves
    <2> QED BY <2>14, <2>16
  <1> QED BY <1>6, <1>7, <1>8

LEMMA OneRightCapped ==
  ASSUME NEW q, q.marks \in Nat, q.penalty \in Nat, NEW a
  PROVE  /\ Capped(q, OneRight(q, a)) /\ OneRight(q, a).found = 0
         /\ a = q.key => Solves(q, OneRight(q, a))
  <1>1. (a = q.key) \in BOOLEAN
    OBVIOUS
  <1>2. a = q.key => (a = q.key) = TRUE
    OBVIOUS
  <1> QED BY <1>1, <1>2, AllOrNothingCapped DEF OneRight

LEMMA MistakesCapped ==
  ASSUME NEW q, q.marks \in Nat, q.penalty \in Nat, q.items \in Items, q.items # <<>>,
         q.mode # "typed", NEW a \in Seq(Nat)
  PROVE  /\ Capped(q, FindMistakes(q, a)) /\ FindMistakes(q, a).found \in Nat
         /\ FindMistakes(q, a).obtained \in Nat
         /\ ToSet(a) = IdsOf(q.items) /\ Differ(q.items) => Solves(q, FindMistakes(q, a))
  <1>1. PICK found : found = Cardinality(ToSet(a) \cap IdsOf(q.items))
    OBVIOUS
  <1>2. FindMistakes(q, a) = Share(q, found, Cardinality(ToSet(a)) - found)
    BY <1>1 DEF FindMistakes
  <1>3. Len(q.items) \in Nat \ {0}
    BY ItemFacts
  <1>4. IsFiniteSet(IdsOf(q.items)) /\ Cardinality(IdsOf(q.items)) <= Len(q.items)
        /\ (Differ(q.items) => Cardinality(IdsOf(q.items)) = Len(q.items))
    BY IdsNumber
  <1>5. /\ found \in Nat /\ found <= Len(q.items) /\ Cardinality(ToSet(a)) - found \in Nat
        /\ ToSet(a) = IdsOf(q.items) /\ Cardinality(IdsOf(q.items)) = Len(q.items)
               => found = Len(q.items) /\ Cardinality(ToSet(a)) - found = 0
    BY <1>1, <1>3, <1>4, ShareOfSet
  <1> QED BY <1>2, <1>3, <1>4, <1>5, ShareCapped

LEMMA TypedCapped ==
  ASSUME NEW q, q.marks \in Nat, q.items \in Items, q.items # <<>>, q.mode = "typed",
         NEW a \in Seq(SUBSET IdsOf(q.items)), a # <<>>
  PROVE  /\ Capped(q, FindMistakes(q, a))
         /\ a[1] = IdsOf(q.items) /\ Differ(q.items) => Solves(q, FindMistakes(q, a))
  <1>1. PICK S \in SUBSET IdsOf(q.items) : S = a[1]
    <2> DEFINE A == SUBSET IdsOf(q.items)
    <2>1. \E S \in A : S = a[1]
      <3>1. a \in Seq(A)
        OBVIOUS
      <3> HIDE DEF A
      <3> QED BY <3>1
    <2> QED BY <2>1
  <1>2. PICK t \in Nat \ {0}, m \in Nat : t = Len(q.items) /\ m = q.marks
    BY ItemFacts
  <1>3. /\ IsFiniteSet(IdsOf(q.items)) /\ Cardinality(IdsOf(q.items)) <= t
        /\ (Differ(q.items) => Cardinality(IdsOf(q.items)) = t)
    BY <1>2, IdsNumber
  <1>4. PICK n \in Nat : n = Cardinality(S) /\ n <= t
    <2>1. Cardinality(S) \in Nat /\ Cardinality(S) <= Cardinality(IdsOf(q.items))
          /\ Cardinality(IdsOf(q.items)) \in Nat
      BY <1>3, Fewer
    <2> QED BY <1>3, <2>1
  <1>5. PICK s : s = Clamp(m * n, t)
    OBVIOUS
  <1>6. FindMistakes(q, a) = [Scored(0, FALSE, 0) EXCEPT !.pending = TRUE, !.suggested = s]
    <2>1. m * n = q.marks * Cardinality(a[1]) /\ t = Len(q.items)
      BY <1>1, <1>2, <1>4
    <2>2. s = Clamp(q.marks * Cardinality(a[1]), Len(q.items))
      BY <1>5, <2>1
    <2> QED BY <2>2 DEF FindMistakes
  <1>7. s \in 0..m
    <2>1. n * m <= t * m /\ n * m = m * n /\ t * m = m * t
      BY <1>4, Product
    <2>2. m * n \in Int /\ m * t \in Int
      BY Product
    <2> QED BY <1>5, <2>1, <2>2, ClampWithin
  <1>8. S = IdsOf(q.items) /\ Differ(q.items) => s = m
    BY <1>3, <1>4, <1>5, ClampAll
  <1>9. PICK r : r = FindMistakes(q, a)
    OBVIOUS
  <1>10. r.obtained = 0 /\ r.full = FALSE /\ r.attempted = TRUE /\ r.pending = TRUE /\ r.suggested = s
    BY <1>6, <1>9 DEF Scored
  <1> QED BY <1>1, <1>2, <1>7, <1>8, <1>9, <1>10 DEF Capped, Solves

LEMMA WordsCapped ==
  ASSUME NEW q, q.marks \in Nat, q.penalty \in Nat, q.items \in Items, q.items # <<>>,
         NEW a \in Seq(Nat), NEW F, F = {q.items[e].from : e \in DOMAIN q.items}
  PROVE  /\ Capped(q, ContentReview(q, a)) /\ ContentReview(q, a).found \in Nat
         /\ ContentReview(q, a).obtained \in Nat
         /\ IsFiniteSet(F) /\ Cardinality(F) <= Len(q.items)
         /\ ToSet(a) = F /\ (\A i, j \in 1..Len(q.items) : q.items[i].from = q.items[j].from => i = j)
               => Solves(q, ContentReview(q, a))
  <1>0. PICK n \in Nat \ {0} : n = Len(q.items) /\ DOMAIN q.items = 1..n
    BY ItemFacts
  <1>1. PICK k : k = [i \in 1..n |-> q.items[i].from]
    OBVIOUS
  <1>2. \A i \in 1..n : q.items[i].from \in Nat
    BY <1>0, ItemFacts DEF AnItem
  <1>3. k \in Seq(Nat) /\ Len(k) = n /\ (\A i \in 1..n : k[i] = q.items[i].from) /\ DOMAIN k = 1..n
    BY <1>1, <1>2
  <1>4. ToSet(k) = F
    BY <1>0, <1>3 DEF ToSet
  <1>5. /\ IsFiniteSet(F) /\ Cardinality(F) <= n
        /\ (\A i, j \in 1..n : q.items[i].from = q.items[j].from => i = j) => Cardinality(F) = n
    BY <1>3, <1>4, Numbers
  <1>6. PICK found : found = Cardinality(ToSet(a) \cap F)
    OBVIOUS
  <1>7. ContentReview(q, a) = Share(q, found, Cardinality(ToSet(a)) - found)
    BY <1>6 DEF ContentReview
  <1>8. /\ found \in Nat /\ found <= Len(q.items) /\ Cardinality(ToSet(a)) - found \in Nat
        /\ ToSet(a) = F /\ Cardinality(F) = Len(q.items)
               => found = Len(q.items) /\ Cardinality(ToSet(a)) - found = 0
    BY <1>0, <1>5, <1>6, ShareOfSet
  <1>9. PICK wrong \in Nat : wrong = Cardinality(ToSet(a)) - found
    BY <1>8
  <1>10. /\ Capped(q, Share(q, found, wrong)) /\ Share(q, found, wrong).found = found
         /\ Share(q, found, wrong).obtained \in Nat
         /\ found = Len(q.items) /\ wrong = 0 => Solves(q, Share(q, found, wrong))
    BY <1>0, <1>8, ShareCapped
  <1> QED BY <1>0, <1>5, <1>7, <1>8, <1>9, <1>10

-----------------------------------------------------------------------------
(* Numbers of places.                                                       *)
LEMMA UpToFewer ==
  ASSUME NEW n \in Nat, NEW S \in SUBSET (1..n)
  PROVE  IsFiniteSet(S) /\ Cardinality(S) \in Nat /\ Cardinality(S) <= n
  <1>1. IsFiniteSet(1..n) /\ Cardinality(1..n) = n
    BY UpToFinite
  <1>2. IsFiniteSet(S) /\ Cardinality(S) \in Nat /\ Cardinality(S) <= Cardinality(1..n)
    BY <1>1, Fewer
  <1> QED BY <1>1, <1>2

-----------------------------------------------------------------------------
(* Dragging.                                                               *)
LEMMA DragScored ==
  ASSUME NEW q, q.marks \in Nat, NEW total \in Nat \ {0}, NEW right \in Nat, right <= total,
         NEW s, s = Scored(Clamp(q.marks * right, total), right = total, 0)
  PROVE  Capped(q, s) /\ s.found = 0 /\ (right = total => Solves(q, s))
  <1>1. PICK m \in Nat : m = q.marks
    OBVIOUS
  <1>2. right * m <= total * m /\ right * m = m * right /\ total * m = m * total
        /\ m * right \in Int /\ m * total \in Int
    BY Product
  <1>3. PICK o \in 0..m : o = Clamp(m * right, total)
    BY <1>2, ClampWithin
  <1>4. right = total => o = m
    BY <1>3, ClampAll
  <1>5. PICK b \in BOOLEAN : b <=> (right = total)
    OBVIOUS
  <1>a. b = (right = total)
    BY <1>5
  <1>6. s = Scored(o, b, 0)
    BY <1>a, <1>1, <1>3, <1>5, Zenon
  <1>7. /\ s.obtained = o /\ s.full = b /\ s.found = 0 /\ s.attempted = TRUE
        /\ s.pending = FALSE /\ s.suggested = 0
    BY <1>6 DEF Scored
  <1>8. 0 \in 0..m /\ (b => o = m) /\ (right = total => b)
    BY <1>4, <1>5
  <1> QED BY <1>1, <1>3, <1>4, <1>7, <1>8 DEF Capped, Solves

LEMMA SequenceCapped ==
  ASSUME NEW q, q.marks \in Nat, q.mode = "sequence", q.key \in Seq(Nat), q.key # <<>>,
         NEW a \in Seq(Nat)
  PROVE  /\ Capped(q, DragDrop(q, a)) /\ DragDrop(q, a).found = 0
         /\ a = q.key => Solves(q, DragDrop(q, a))
  <1>1. PICK R : R = {i \in DOMAIN q.key : i <= Len(a) /\ a[i] = q.key[i]}
    OBVIOUS
  <1>2. PICK t \in Nat \ {0} : t = Len(q.key) /\ DOMAIN q.key = 1..t
    OBVIOUS
  <1>3. IsFiniteSet(1..t) /\ Cardinality(1..t) = t
    BY UpToFinite
  <1>4. PICK right \in Nat : right = Cardinality(R) /\ right <= t
    <2>1. R \in SUBSET (1..t)
      BY <1>1, <1>2
    <2> QED BY <2>1, UpToFewer
  <1>5. a = q.key => right = t
    <2>1. a = q.key => R = 1..t
      BY <1>1, <1>2
    <2> QED BY <1>3, <1>4, <2>1
  <1>6. DragDrop(q, a) = Scored(Clamp(q.marks * right, t), right = t, 0)
    BY <1>1, <1>2, <1>4, Zenon DEF DragDrop
  <1> QED BY <1>4, <1>5, <1>6, DragScored

LEMMA MatchCapped ==
  ASSUME NEW q, q.marks \in Nat, q.mode = "match", q.key \in Seq(TwoIds), q.key # <<>>,
         NEW a \in Seq(TwoIds)
  PROVE  /\ Capped(q, DragDrop(q, a)) /\ DragDrop(q, a).found = 0
         /\ a = q.key /\ (\A i, j \in 1..Len(q.key) : q.key[i][1] = q.key[j][1] => i = j)
               => Solves(q, DragDrop(q, a))
  <1>1. PICK first : first = {i \in DOMAIN a : q.mode = "sequence" \/ \A j \in 1..(i - 1) : a[j][1] # a[i][1]}
    OBVIOUS
  <1>2. PICK R : R = {i \in first : a[i] \in ToSet(q.key)}
    OBVIOUS
  <1>3. PICK t \in Nat \ {0} : t = Len(q.key) /\ DOMAIN q.key = 1..t
    OBVIOUS
  <1>4. PICK n \in Nat : n = Len(a) /\ DOMAIN a = 1..n
    OBVIOUS
  <1>5. IsFiniteSet(ToSet(q.key)) /\ Cardinality(ToSet(q.key)) <= t /\ Cardinality(ToSet(q.key)) \in Nat
    BY <1>3, Numbers
  <1>6. PICK f : f = [i \in R |-> a[i]]
    OBVIOUS
  <1>7. f \in Injection(R, ToSet(q.key))
    <2>1. f \in [R -> ToSet(q.key)]
      BY <1>2, <1>6
    <2>2. ASSUME NEW i \in R, NEW j \in R, f[i] = f[j] PROVE i = j
      <3>1. a[i] = a[j] /\ i \in 1..n /\ j \in 1..n
        BY <1>1, <1>2, <1>4, <1>6, <2>2
      <3>2. /\ \A k \in 1..(i - 1) : a[k][1] # a[i][1]
            /\ \A k \in 1..(j - 1) : a[k][1] # a[j][1]
        BY <1>1, <1>2
      <3>3. ~(i < j) /\ ~(j < i)
        BY <3>1, <3>2
      <3> QED BY <3>1, <3>3
    <2> QED BY <2>1, <2>2 DEF Injection, IsInjective
  <1>8. PICK right \in Nat : right = Cardinality(R) /\ right <= t
    <2>1. IsFiniteSet(R) /\ Cardinality(R) <= Cardinality(ToSet(q.key))
      BY <1>5, <1>7, FS_Injection
    <2>2. Cardinality(R) \in Nat
      BY <2>1, FS_CardinalityType
    <2> QED BY <1>5, <2>1, <2>2
  <1>9. a = q.key /\ (\A i, j \in 1..Len(q.key) : q.key[i][1] = q.key[j][1] => i = j) => right = t
    <2>1. SUFFICES ASSUME a = q.key, \A i, j \in 1..t : q.key[i][1] = q.key[j][1] => i = j
                   PROVE  R = 1..t
      BY <1>3, <1>8, UpToFinite
    <2>2. ASSUME NEW i \in 1..t PROVE i \in R
      <3>1. i \in DOMAIN a
        BY <1>3, <2>1
      <3>2. ASSUME NEW j \in 1..(i - 1) PROVE a[j][1] # a[i][1]
        <4>1. j \in 1..t /\ j # i
          BY <3>2
        <4> QED BY <2>1, <4>1
      <3>3. a[i] \in ToSet(q.key)
        BY <2>1, <1>3 DEF ToSet
      <3> QED BY <1>1, <1>2, <3>1, <3>2, <3>3
    <2> QED BY <1>1, <1>2, <1>3, <2>1, <2>2
  <1>10. DragDrop(q, a) = Scored(Clamp(q.marks * right, t), right = t, 0)
    <2>1. R = {i \in {k \in DOMAIN a : q.mode = "sequence" \/ \A j \in 1..(k - 1) : a[j][1] # a[k][1]} : a[i] \in ToSet(q.key)}
      BY <1>1, <1>2
    <2>2. q.mode # "sequence"
      OBVIOUS
    <2> QED BY <1>3, <1>8, <2>1, <2>2, Zenon DEF DragDrop
  <1>11. PICK s : s = DragDrop(q, a)
    OBVIOUS
  <1>12. Capped(q, s) /\ s.found = 0 /\ (right = t => Solves(q, s))
    BY <1>8, <1>10, <1>11, DragScored
  <1> QED BY <1>9, <1>11, <1>12

-----------------------------------------------------------------------------
(* Clicks.                                                                 *)
ClickStates(q) == [found : SUBSET (1..Len(q.items)), wrong : Nat]
NoClick == [found |-> {}, wrong |-> 0]
New(q, s, p) == {z \in 1..Len(q.items) : Inside(q, p, z) /\ z \notin s.found}

LEMMA ClickedIs ==
  ASSUME NEW q, q.items \in Items, NEW s \in ClickStates(q), NEW p, NEW d, d = Clicked(q, s, p)
  PROVE  /\ d \in ClickStates(q) /\ s.found \subseteq d.found
         /\ \A z \in New(q, s, p) : (\A y \in New(q, s, p) : z <= y)
               => d.found = s.found \cup {z} /\ d.wrong = s.wrong
         /\ d.found # s.found => /\ d.wrong = s.wrong
                                 /\ \E z \in 1..Len(q.items) : z \notin s.found /\ d.found = s.found \cup {z}
  <1>1. PICK n \in Nat : n = Len(q.items) /\ DOMAIN q.items = 1..n
    BY ItemFacts
  <1>2. s.found \subseteq 1..n /\ s.wrong \in Nat
    BY <1>1 DEF ClickStates
  <1>3. PICK around : around = {z \in DOMAIN q.items : Inside(q, p, z)}
    OBVIOUS
  <1>4. PICK new : new = around \ s.found
    OBVIOUS
  <1>5. new = New(q, s, p) /\ new \subseteq 1..n
    BY <1>1, <1>3, <1>4 DEF New
  <1>6. CASE new # {}
    <2>1. PICK z : z = CHOOSE x \in new : \A y \in new : x <= y
      OBVIOUS
    <2>2. \E x \in new : \A y \in new : x <= y
      <3>1. new \in SUBSET Nat
        BY <1>5
      <3> QED BY <1>6, <3>1, LeastOf
    <2>3. z \in new /\ \A y \in new : z <= y
      BY <2>1, <2>2
    <2>4. d = [s EXCEPT !.found = @ \cup {z}]
      BY <1>3, <1>4, <1>6, <2>1, Zenon DEF Clicked
    <2>5. d \in ClickStates(q) /\ d.found = s.found \cup {z} /\ d.wrong = s.wrong
      <3>1. s.found \cup {z} \subseteq 1..n
        BY <1>2, <1>5, <2>3
      <3> QED BY <1>1, <2>4, <3>1 DEF ClickStates
    <2>6. \A x \in new : (\A y \in new : x <= y) => x = z
      <3>1. \A x \in new : x \in Nat
        BY <1>5
      <3> QED BY <2>3, <3>1
    <2> QED BY <1>1, <1>4, <1>5, <2>3, <2>5, <2>6
  <1>7. CASE new = {}
    <2>1. d = IF around = {} THEN [s EXCEPT !.wrong = @ + 1] ELSE s
      BY <1>3, <1>4, <1>7, Zenon DEF Clicked
    <2>2. d \in ClickStates(q) /\ d.found = s.found
      <3>1. [s EXCEPT !.wrong = @ + 1] \in ClickStates(q) /\ [s EXCEPT !.wrong = @ + 1].found = s.found
        BY <1>2 DEF ClickStates
      <3> QED BY <2>1, <3>1
    <2> QED BY <1>5, <1>7, <2>2
  <1> QED BY <1>6, <1>7

LEMMA ClickSteps ==
  ASSUME NEW q, q.items \in Items, NEW a \in Seq(Nat), NEW k, k = Clicks(q, a)
  PROVE  /\ k[0] = NoClick
         /\ \A n \in 0..Len(a) : k[n] \in ClickStates(q)
         /\ \A n \in 1..Len(a) : k[n] = Clicked(q, k[n - 1], a[n])
  <1> DEFINE N == Len(a)
             Q == ClickStates(q)
             Step(n, s) == Clicked(q, s, a[n])
             G == [n \in 1..N |-> [s \in Q |-> Step(n, s)]]
             Built(g) == g = [n \in 0..N |-> IF n = 0 THEN [found |-> {}, wrong |-> 0] ELSE Step(n, g[n - 1])]
  <1>1. k = CHOOSE g : Built(g)
    BY DEF Clicks
  <1>0. N \in Nat /\ NoClick \in Q /\ \A n \in 1..N : \A s \in Q : Step(n, s) \in Q
    <2>1. N \in Nat
      OBVIOUS
    <2>2. NoClick \in Q
      BY DEF NoClick, ClickStates
    <2>3. \A n \in 1..N : \A s \in Q : Step(n, s) \in Q
      BY ClickedIs
    <2> QED BY <2>1, <2>2, <2>3
  <1>a. [found |-> {}, wrong |-> 0] = NoClick
    BY DEF NoClick
  <1> HIDE DEF N, Q, Step
  <1>2. G \in Turns(N, Q)
    BY <1>0 DEF Turns
  <1>3. PICK f \in [0..N -> Q] : f[0] = NoClick /\ \A n \in 1..N : f[n] = G[n][f[n - 1]]
    <2> HIDE DEF G
    <2>1. PICK f : f \in Walks(N, Q, NoClick, G)
      BY <1>0, <1>2, Recursion
    <2> QED BY <2>1, Zenon DEF Walks
  <1>4. ASSUME NEW n \in 1..N PROVE f[n] = Step(n, f[n - 1])
    <2>1. n - 1 \in 0..N
      BY <1>0
    <2> QED BY <1>3, <2>1
  <1>5. \A n \in 0..N : n = 0 \/ n \in 1..N
    BY <1>0
  <1>6. Built(f)
    BY <1>3, <1>4, <1>5, <1>a
  <1>7. Built(k)
    <2> HIDE DEF Built
    <2> QED BY <1>1, <1>6
  <1>8. 0 \in 0..N /\ \A n \in 1..N : n \in 0..N /\ n # 0
    BY <1>0
  <1>9. k[0] = NoClick /\ \A n \in 1..N : k[n] = Step(n, k[n - 1])
    BY <1>7, <1>8, <1>a
  <1> DEFINE H == {n \in 0..N : k[n] \in Q}
  <1>10. 0 \in H
    BY <1>0, <1>8, <1>9
  <1>11. ASSUME NEW n \in 1..N, n - 1 \in H PROVE n \in H
    BY <1>0, <1>8, <1>9, <1>11
  <1> HIDE DEF H
  <1>12. \A n \in 0..N : n \in H
    BY <1>0, <1>10, <1>11, UpTo, Zenon
  <1> QED BY <1>9, <1>12 DEF H, N, Q, Step

LEMMA HotspotCapped ==
  ASSUME NEW q, q.marks \in Nat, q.penalty \in Nat, q.items \in Items, q.items # <<>>,
         NEW a \in Seq(Nat)
  PROVE  /\ Capped(q, Hotspot(q, a)) /\ Hotspot(q, a).found \in Nat
         /\ Hotspot(q, a).obtained \in Nat
  <1>1. PICK n \in Nat, N \in Nat \ {0} : n = Len(a) /\ N = Len(q.items)
    BY ItemFacts
  <1>2. PICK s \in ClickStates(q) : s = Clicks(q, a)[n]
    BY <1>1, ClickSteps
  <1>3. Hotspot(q, a) = Share(q, Cardinality(s.found), s.wrong)
    BY <1>1, <1>2 DEF Hotspot
  <1>4. s.found \in SUBSET (1..N) /\ s.wrong \in Nat
    BY <1>1 DEF ClickStates
  <1>5. Cardinality(s.found) \in Nat /\ Cardinality(s.found) <= N
    BY <1>4, UpToFewer
  <1> QED BY <1>1, <1>3, <1>4, <1>5, ShareCapped

(* The click in the middle of the first zone, the second, ...              *)
LEMMA HotspotSolved ==
  ASSUME NEW q, q.marks \in Nat, q.penalty \in Nat, q.items \in Items, q.items # <<>>,
         q.tolerance \in Nat, \A x \in ToSet(q.items) : x.from <= x.to,
         NEW a \in Seq(Nat), Len(a) = Len(q.items),
         \A i \in 1..Len(q.items) : a[i] = q.items[i].to
  PROVE  Solves(q, Hotspot(q, a))
  <1>1. PICK N \in Nat \ {0} : N = Len(a) /\ N = Len(q.items)
    BY ItemFacts
  <1>2. PICK k : k = Clicks(q, a)
    OBVIOUS
  <1>3. /\ k[0] = NoClick /\ \A n \in 0..N : k[n] \in ClickStates(q)
        /\ \A n \in 1..N : k[n] = Clicked(q, k[n - 1], a[n])
    BY <1>1, <1>2, ClickSteps
  <1> DEFINE H == {n \in 0..N : k[n].found = 1..n /\ k[n].wrong = 0}
  <1>4. 0 \in H
    BY <1>3 DEF NoClick
  <1>5. ASSUME NEW n \in 1..N, n - 1 \in H PROVE n \in H
    <2>1. PICK s \in ClickStates(q) : s = k[n - 1] /\ s.found = 1..(n - 1) /\ s.wrong = 0
      <3>1. n - 1 \in 0..N
        OBVIOUS
      <3> QED BY <1>3, <1>5, <3>1
    <2>2. Inside(q, a[n], n)
      <3>1. PICK x \in AnItem : x = q.items[n] /\ x.from <= x.to
        BY <1>1, ItemFacts
      <3>2. a[n] = x.to /\ x.from \in Nat /\ x.to \in Nat
        BY <1>1, <3>1 DEF AnItem
      <3> QED BY <3>1, <3>2 DEF Inside
    <2>3. n \in New(q, s, a[n])
      BY <1>1, <2>1, <2>2 DEF New
    <2>4. \A y \in New(q, s, a[n]) : n <= y
      BY <1>1, <2>1 DEF New
    <2>p. PICK p : p = a[n]
      OBVIOUS
    <2>5. PICK d : d = Clicked(q, s, p) /\ d = k[n]
      BY <1>3, <2>1, <2>p
    <2>6. d.found = s.found \cup {n} /\ d.wrong = s.wrong
      <3>1. \A z \in New(q, s, p) : (\A y \in New(q, s, p) : z <= y)
               => d.found = s.found \cup {z} /\ d.wrong = s.wrong
        <4>1. q.items \in Items /\ s \in ClickStates(q) /\ d = Clicked(q, s, p)
          BY <2>5
        <4> HIDE <1>5
        <4> QED BY <4>1, ClickedIs
      <3> QED BY <2>3, <2>4, <2>p, <3>1
    <2>7. s.found \cup {n} = 1..n
      BY <2>1
    <2>8. d.found = 1..n /\ d.wrong = 0 /\ n \in 0..N
      BY <2>1, <2>6, <2>7
    <2> QED BY <2>5, <2>8
  <1>6. N \in H
    <2> HIDE DEF H
    <2>1. \A n \in 0..N : n \in H
      BY <1>4, <1>5, UpTo, Zenon
    <2> QED BY <2>1
  <1>7. k[N].found = 1..N /\ k[N].wrong = 0
    BY <1>6
  <1>8. Hotspot(q, a) = Share(q, N, 0)
    BY <1>1, <1>2, <1>7, UpToFinite DEF Hotspot
  <1>9. Solves(q, Share(q, N, 0))
    <2> HIDE DEF H
    <2>1. /\ Len(q.items) \in Nat \ {0} /\ N \in Nat /\ N <= Len(q.items)
          /\ N = Len(q.items)
      BY <1>1
    <2>2. 0 \in Nat
      OBVIOUS
    <2> QED BY <2>1, <2>2, ShareCapped
  <1> QED BY <1>8, <1>9

-----------------------------------------------------------------------------
(* Moments.                                                                *)
MatchStates(q, a) == [used : SUBSET (1..Len(a)), found : SUBSET (1..Len(q.items))]
NoMatch == [used |-> {}, found |-> {}]
Best(q, a, e, near, c) ==
    /\ c \in near
    /\ \A d \in near : \/ Far(q, a, e, c) < Far(q, a, e, d)
                       \/ Far(q, a, e, c) = Far(q, a, e, d) /\ c <= d

LEMMA FarNat ==
  ASSUME NEW q, q.items \in Items, NEW a \in Seq(Nat), NEW e \in 1..Len(q.items), NEW c \in 1..Len(a)
  PROVE  Far(q, a, e, c) \in Nat
  <1>1. PICK x \in Nat, y \in Nat : x = q.items[e].from /\ y = a[c]
    BY ItemFacts DEF AnItem
  <1> QED BY <1>1 DEF Far

LEMMA BestExists ==
  ASSUME NEW q, q.items \in Items, NEW a \in Seq(Nat), NEW e \in 1..Len(q.items),
         NEW near \in SUBSET (1..Len(a)), near # {}
  PROVE  \E c : Best(q, a, e, near, c)
  <1>1. PICK n \in Nat : n = Len(a)
    OBVIOUS
  <1>2. PICK far : far = [c \in 1..n |-> Far(q, a, e, c)]
    OBVIOUS
  <1>3. \A c \in 1..n : far[c] \in Nat /\ far[c] = Far(q, a, e, c)
    BY <1>1, <1>2, FarNat
  <1>4. {far[c] : c \in near} \in SUBSET Nat /\ {far[c] : c \in near} # {}
    BY <1>1, <1>3
  <1>5. PICK m \in {far[c] : c \in near} : \A k \in {far[c] : c \in near} : m <= k
    BY <1>4, LeastOf, Zenon
  <1>6. {c \in near : far[c] = m} \in SUBSET Nat /\ {c \in near : far[c] = m} # {}
    <2>1. PICK b \in near : far[b] = m
      BY <1>5
    <2>2. near \subseteq Nat
      BY <1>1
    <2>3. b \in {c \in near : far[c] = m}
      BY <2>1
    <2> QED BY <2>2, <2>3
  <1>7. PICK c \in {d \in near : far[d] = m} : \A d \in {d \in near : far[d] = m} : c <= d
    BY <1>6, LeastOf, Zenon
  <1>8. c \in near /\ far[c] = m
    BY <1>7
  <1>9. ASSUME NEW d \in near PROVE far[c] < far[d] \/ (far[c] = far[d] /\ c <= d)
    <2>1. m <= far[d] /\ far[d] \in Nat /\ m \in Nat
      BY <1>1, <1>3, <1>4, <1>5
    <2>2. far[d] = m => c <= d
      BY <1>7
    <2> QED BY <1>8, <2>1, <2>2
  <1> QED BY <1>1, <1>3, <1>8, <1>9 DEF Best

LEMMA BestOnly ==
  ASSUME NEW q, q.items \in Items, NEW a \in Seq(Nat), NEW e \in 1..Len(q.items),
         NEW near \in SUBSET (1..Len(a)), NEW c, NEW d,
         Best(q, a, e, near, c), Best(q, a, e, near, d)
  PROVE  c = d
  <1>1. c \in 1..Len(a) /\ d \in 1..Len(a)
    BY DEF Best
  <1>2. PICK x \in Nat, y \in Nat : x = Far(q, a, e, c) /\ y = Far(q, a, e, d)
    BY <1>1, FarNat
  <1>3. /\ x < y \/ (x = y /\ c <= d)
        /\ y < x \/ (y = x /\ d <= c)
    BY <1>2 DEF Best
  <1> QED BY <1>1, <1>3

(* A mistake with nothing near leaves all as it was; another takes a claim. *)
Taken(q, a, s, e, near, d) ==
    /\ near \in SUBSET ((1..Len(a)) \ s.used) /\ d \in MatchStates(q, a)
    /\ near = {} => d = s
    /\ near # {} => \E c \in near : /\ Best(q, a, e, near, c)
                                    /\ d.used = s.used \cup {c} /\ d.found = s.found \cup {e}

LEMMA MatchedIs ==
  ASSUME NEW q, q.items \in Items, NEW a \in Seq(Nat), NEW s \in MatchStates(q, a),
         NEW e \in 1..Len(q.items), NEW near, near = Within(q, a, e, s.used),
         NEW d, d = Matched(q, a, s, e)
  PROVE  Taken(q, a, s, e, near, d)
  <1>1. PICK n \in Nat : n = Len(a) /\ DOMAIN a = 1..n
    OBVIOUS
  <1>2. near \in SUBSET ((1..n) \ s.used)
    BY <1>1 DEF Within
  <1>3. s.used \subseteq 1..n /\ s.found \subseteq 1..Len(q.items)
    BY <1>1 DEF MatchStates
  <1>4. CASE near = {}
    <2>1. d = s
      BY <1>4, Zenon DEF Matched
    <2> QED BY <1>1, <1>2, <1>4, <2>1 DEF Taken
  <1>5. CASE near # {}
    <2>1. PICK c : c = CHOOSE b \in near : \A k \in near :
                    \/ Far(q, a, e, b) < Far(q, a, e, k)
                    \/ Far(q, a, e, b) = Far(q, a, e, k) /\ b <= k
      OBVIOUS
    <2>2. \E x : Best(q, a, e, near, x)
      <3>1. near \in SUBSET (1..Len(a))
        BY <1>1, <1>2
      <3> QED BY <1>5, <3>1, BestExists
    <2>3. Best(q, a, e, near, c)
      BY <2>1, <2>2, Zenon DEF Best
    <2>4. d = [used |-> s.used \cup {c}, found |-> s.found \cup {e}]
      BY <1>5, <2>1, Zenon DEF Matched
    <2>5. c \in near
      BY <2>3 DEF Best
    <2>6. s.used \cup {c} \in SUBSET (1..n) /\ s.found \cup {e} \in SUBSET (1..Len(q.items))
      BY <1>2, <1>3, <2>5
    <2>7. d \in MatchStates(q, a) /\ d.used = s.used \cup {c} /\ d.found = s.found \cup {e}
      BY <1>1, <2>4, <2>6 DEF MatchStates
    <2> QED BY <1>1, <1>2, <1>5, <2>3, <2>5, <2>7 DEF Taken
  <1> QED BY <1>4, <1>5

LEMMA MatchSteps ==
  ASSUME NEW q, q.items \in Items, NEW a \in Seq(Nat), NEW k, k = Matches(q, a)
  PROVE  /\ k[0] = NoMatch
         /\ \A e \in 0..Len(q.items) : k[e] \in MatchStates(q, a)
         /\ \A e \in 1..Len(q.items) : k[e] = Matched(q, a, k[e - 1], e)
  <1> DEFINE N == Len(q.items)
             Q == MatchStates(q, a)
             Step(e, s) == Matched(q, a, s, e)
             G == [e \in 1..N |-> [s \in Q |-> Step(e, s)]]
             Built(g) == g = [e \in 0..N |-> IF e = 0 THEN [used |-> {}, found |-> {}] ELSE Step(e, g[e - 1])]
  <1>1. k = CHOOSE g : Built(g)
    BY DEF Matches
  <1>0. N \in Nat /\ NoMatch \in Q /\ \A e \in 1..N : \A s \in Q : Step(e, s) \in Q
    <2>1. N \in Nat
      BY ItemFacts
    <2>2. NoMatch \in Q
      BY DEF NoMatch, MatchStates
    <2>3. \A e \in 1..N : \A s \in Q : Step(e, s) \in Q
      BY MatchedIs DEF Taken
    <2> QED BY <2>1, <2>2, <2>3
  <1>a. [used |-> {}, found |-> {}] = NoMatch
    BY DEF NoMatch
  <1> HIDE DEF N, Q, Step
  <1>2. G \in Turns(N, Q)
    BY <1>0 DEF Turns
  <1>3. PICK f \in [0..N -> Q] : f[0] = NoMatch /\ \A e \in 1..N : f[e] = G[e][f[e - 1]]
    <2> HIDE DEF G
    <2>1. PICK f : f \in Walks(N, Q, NoMatch, G)
      BY <1>0, <1>2, Recursion
    <2> QED BY <2>1, Zenon DEF Walks
  <1>4. ASSUME NEW e \in 1..N PROVE f[e] = Step(e, f[e - 1])
    <2>1. e - 1 \in 0..N
      BY <1>0
    <2> QED BY <1>3, <2>1
  <1>5. \A e \in 0..N : e = 0 \/ e \in 1..N
    BY <1>0
  <1>6. Built(f)
    BY <1>3, <1>4, <1>5, <1>a
  <1>7. Built(k)
    <2> HIDE DEF Built
    <2> QED BY <1>1, <1>6
  <1>8. 0 \in 0..N /\ \A e \in 1..N : e \in 0..N /\ e # 0
    BY <1>0
  <1>9. k[0] = NoMatch /\ \A e \in 1..N : k[e] = Step(e, k[e - 1])
    BY <1>7, <1>8, <1>a
  <1> DEFINE H == {e \in 0..N : k[e] \in Q}
  <1>10. 0 \in H
    BY <1>0, <1>8, <1>9
  <1>11. ASSUME NEW e \in 1..N, e - 1 \in H PROVE e \in H
    BY <1>0, <1>8, <1>9, <1>11
  <1> HIDE DEF H
  <1>12. \A e \in 0..N : e \in H
    BY <1>0, <1>10, <1>11, UpTo, Zenon
  <1> QED BY <1>9, <1>12 DEF H, N, Q, Step

(* Mistakes up to e have been treated: as many claims are used as mistakes *)
(* found, and what is left over is too far away.                           *)
Treated(q, a, e, s) ==
    /\ s.found \subseteq 1..e
    /\ IsFiniteSet(s.used) /\ IsFiniteSet(s.found) /\ Cardinality(s.used) = Cardinality(s.found)
    /\ \A x \in (1..e) \ s.found, c \in (1..Len(a)) \ s.used : Far(q, a, x, c) > q.tolerance

LEMMA TreatedNext ==
  ASSUME NEW q, q.items \in Items, q.tolerance \in Nat, NEW a \in Seq(Nat),
         NEW s \in MatchStates(q, a), NEW e \in 1..Len(q.items), Treated(q, a, e - 1, s),
         NEW d, d = Matched(q, a, s, e)
  PROVE  Treated(q, a, e, d)
  <1>1. PICK n \in Nat : n = Len(a) /\ DOMAIN a = 1..n
    OBVIOUS
  <1>2. PICK near : near = Within(q, a, e, s.used)
    OBVIOUS
  <1>3. e \in Nat /\ e \notin s.found /\ (1..e) = (1..(e - 1)) \cup {e} /\ s.found \subseteq 1..(e - 1)
    <2>1. e \in Nat \ {0}
      BY ItemFacts
    <2> QED BY <2>1 DEF Treated
  <1>a. Taken(q, a, s, e, near, d)
    BY <1>2, MatchedIs
  <1>4. CASE near = {}
    <2>1. d = s
      BY <1>a, <1>4 DEF Taken
    <2>2. ASSUME NEW c \in (1..n) \ s.used PROVE Far(q, a, e, c) > q.tolerance
      <3>1. Far(q, a, e, c) \in Nat
        BY <1>1, FarNat
      <3>2. ~(Far(q, a, e, c) <= q.tolerance)
        BY <1>1, <1>2, <1>4 DEF Within
      <3> QED BY <3>1, <3>2
    <2>3. \A x \in (1..e) \ s.found, c \in (1..n) \ s.used : Far(q, a, x, c) > q.tolerance
      BY <1>1, <1>3, <2>2 DEF Treated
    <2> QED BY <1>1, <1>3, <2>1, <2>3 DEF Treated
  <1>5. CASE near # {}
    <2>1. near \in SUBSET ((1..n) \ s.used)
      BY <1>1, <1>a DEF Taken
    <2>2. PICK c \in near : d.used = s.used \cup {c} /\ d.found = s.found \cup {e}
      BY <1>a, <1>5 DEF Taken
    <2>3. c \notin s.used
      BY <2>1
    <2>4. /\ IsFiniteSet(d.used) /\ Cardinality(d.used) = Cardinality(s.used) + 1
          /\ IsFiniteSet(d.found) /\ Cardinality(d.found) = Cardinality(s.found) + 1
      <3>1. IsFiniteSet(s.used) /\ IsFiniteSet(s.found)
        BY DEF Treated
      <3>2. IsFiniteSet(s.used \cup {c}) /\ Cardinality(s.used \cup {c}) = Cardinality(s.used) + 1
        BY <2>3, <3>1, FS_AddElement
      <3>3. IsFiniteSet(s.found \cup {e}) /\ Cardinality(s.found \cup {e}) = Cardinality(s.found) + 1
        BY <1>3, <3>1, FS_AddElement
      <3> QED BY <2>2, <3>2, <3>3
    <2>5. \A x \in (1..e) \ d.found, k \in (1..n) \ d.used : Far(q, a, x, k) > q.tolerance
      BY <1>1, <1>3, <2>2 DEF Treated
    <2>6. d.found \subseteq 1..e
      BY <1>3, <2>2
    <2> QED BY <1>1, <2>4, <2>5, <2>6 DEF Treated
  <1> QED BY <1>4, <1>5

LEMMA ClaimsTreated ==
  ASSUME NEW q, q.items \in Items, q.tolerance \in Nat, NEW a \in Seq(Nat)
  PROVE  Claims(q, a) \in MatchStates(q, a) /\ Treated(q, a, Len(q.items), Claims(q, a))
  <1>1. PICK N \in Nat : N = Len(q.items)
    BY ItemFacts
  <1>2. PICK k : k = Matches(q, a)
    OBVIOUS
  <1>3. /\ k[0] = NoMatch /\ \A e \in 0..N : k[e] \in MatchStates(q, a)
        /\ \A e \in 1..N : k[e] = Matched(q, a, k[e - 1], e)
    BY <1>1, <1>2, MatchSteps
  <1> DEFINE H == {e \in 0..N : Treated(q, a, e, k[e])}
  <1>4. 0 \in H
    <2>1. 1..0 = {} /\ k[0].used = {} /\ k[0].found = {}
      BY <1>3 DEF NoMatch
    <2>2. Treated(q, a, 0, k[0])
      BY <2>1, FS_EmptySet DEF Treated
    <2>3. 0 \in 0..N
      OBVIOUS
    <2> QED BY <2>2, <2>3
  <1>5. ASSUME NEW e \in 1..N, e - 1 \in H PROVE e \in H
    <2>1. PICK s \in MatchStates(q, a) : s = k[e - 1] /\ Treated(q, a, e - 1, s)
      <3>1. e - 1 \in 0..N
        OBVIOUS
      <3> QED BY <1>3, <1>5, <3>1
    <2>2. k[e] = Matched(q, a, s, e)
      BY <1>3, <2>1
    <2>3. e \in 0..N /\ e \in 1..Len(q.items)
      BY <1>1
    <2> HIDE <1>5
    <2>4. Treated(q, a, e, k[e])
      BY <2>1, <2>2, <2>3, TreatedNext
    <2> QED BY <2>3, <2>4
  <1>6. N \in H
    <2> HIDE DEF H
    <2>1. \A n \in 0..N : n \in H
      BY <1>4, <1>5, UpTo, Zenon
    <2> QED BY <2>1
  <1>7. Claims(q, a) = k[N]
    BY <1>1, <1>2 DEF Claims
  <1> QED BY <1>1, <1>3, <1>6, <1>7

LEMMA VideoCapped ==
  ASSUME NEW q, q.marks \in Nat, q.penalty \in Nat, q.items \in Items, q.items # <<>>,
         q.tolerance \in Nat, NEW a \in Seq(Nat)
  PROVE  /\ Capped(q, VideoReview(q, a)) /\ VideoReview(q, a).obtained \in Nat
         /\ VideoReview(q, a).found = Cardinality(Claims(q, a).found)
         /\ VideoReview(q, a).found \in Nat
  <1>1. PICK n \in Nat, N \in Nat \ {0} : n = Len(a) /\ N = Len(q.items)
    BY ItemFacts
  <1>2. PICK s \in MatchStates(q, a) : s = Claims(q, a)
    BY ClaimsTreated
  <1>3. s.found \in SUBSET (1..N) /\ s.used \in SUBSET (1..n)
    BY <1>1 DEF MatchStates
  <1>4. PICK f \in Nat : f = Cardinality(s.found) /\ f <= N
    BY <1>3, UpToFewer
  <1>5. PICK u \in Nat : u = Cardinality(s.used) /\ u <= n
    BY <1>3, UpToFewer
  <1>6. PICK w \in Nat : w = n - u
    BY <1>5
  <1>7. VideoReview(q, a) = Share(q, f, w)
    BY <1>1, <1>2, <1>4, <1>5, <1>6 DEF VideoReview
  <1> QED BY <1>1, <1>2, <1>4, <1>7, ShareCapped

-----------------------------------------------------------------------------
(* Every mistake takes its own moment from its own place.                   *)
LEMMA VideoSolved ==
  ASSUME NEW q, q.marks \in Nat, q.penalty \in Nat, q.items \in Items, q.items # <<>>,
         q.tolerance \in Nat, \A x \in ToSet(q.items) : x.from = x.to,
         NEW a \in Seq(Nat), Len(a) = Len(q.items),
         \A i \in 1..Len(q.items) : a[i] = q.items[i].to
  PROVE  Solves(q, VideoReview(q, a))
  <1>1. PICK N \in Nat \ {0} : N = Len(a) /\ N = Len(q.items) /\ DOMAIN a = 1..N
    BY ItemFacts
  <1>2. PICK k : k = Matches(q, a)
    OBVIOUS
  <1>3. /\ k[0] = NoMatch /\ \A e \in 0..N : k[e] \in MatchStates(q, a)
        /\ \A e \in 1..N : k[e] = Matched(q, a, k[e - 1], e)
    <2>1. /\ k[0] = NoMatch /\ \A e \in 0..Len(q.items) : k[e] \in MatchStates(q, a)
          /\ \A e \in 1..Len(q.items) : k[e] = Matched(q, a, k[e - 1], e)
      <3>1. q.items \in Items /\ a \in Seq(Nat) /\ k = Matches(q, a)
        BY <1>2
      <3> QED BY ONLY <3>1, MatchSteps
    <2> QED BY <1>1, <2>1
  <1> DEFINE H == {e \in 0..N : k[e].used = 1..e /\ k[e].found = 1..e}
  <1>4. 0 \in H
    BY <1>3 DEF NoMatch
  <1>5. ASSUME NEW e \in 1..N, e - 1 \in H PROVE e \in H
    <2>1. PICK s \in MatchStates(q, a) : s = k[e - 1] /\ s.used = 1..(e - 1) /\ s.found = 1..(e - 1)
      <3>1. e - 1 \in 0..N
        OBVIOUS
      <3> QED BY <1>3, <1>5, <3>1
    <2>2. PICK near : near = Within(q, a, e, s.used)
      OBVIOUS
    <2>3. PICK d : d = Matched(q, a, s, e) /\ d = k[e]
      BY <1>3, <2>1
    <2>4. Taken(q, a, s, e, near, d)
      <3> HIDE <1>5
      <3> QED BY <1>1, <2>2, <2>3, MatchedIs
    <2>5. Far(q, a, e, e) = 0
      <3>1. PICK x \in AnItem : x = q.items[e] /\ x.from = x.to
        BY <1>1, ItemFacts
      <3>2. a[e] = x.to /\ x.from \in Nat /\ x.to \in Nat
        BY <1>1, <3>1 DEF AnItem
      <3> QED BY <3>1, <3>2 DEF Far
    <2>6. e \in near
      BY <1>1, <2>1, <2>2, <2>5 DEF Within
    <2>7. near \in SUBSET (1..Len(a)) /\ near \in SUBSET ((1..N) \ (1..(e - 1)))
      BY <1>1, <2>1, <2>4 DEF Taken
    <2>8. Best(q, a, e, near, e)
      <3>1. ASSUME NEW c \in near PROVE Far(q, a, e, e) < Far(q, a, e, c) \/ (Far(q, a, e, e) = Far(q, a, e, c) /\ e <= c)
        <4>1. c \in 1..N /\ e <= c
          BY <2>7
        <4>2. Far(q, a, e, c) \in Nat
          BY <1>1, <4>1, FarNat
        <4> QED BY <2>5, <4>1, <4>2
      <3> QED BY <2>6, <3>1 DEF Best
    <2>9. PICK c \in near : Best(q, a, e, near, c) /\ d.used = s.used \cup {c} /\ d.found = s.found \cup {e}
      BY <2>4, <2>6 DEF Taken
    <2>10. c = e
      <3> HIDE <1>5
      <3> QED BY <1>1, <2>7, <2>8, <2>9, BestOnly
    <2>11. (1..(e - 1)) \cup {e} = 1..e /\ e \in 0..N
      OBVIOUS
    <2>12. d.used = 1..e /\ d.found = 1..e
      BY <2>1, <2>9, <2>10, <2>11
    <2> QED BY <2>3, <2>11, <2>12
  <1>6. N \in H
    <2> HIDE DEF H
    <2>1. \A n \in 0..N : n \in H
      BY <1>4, <1>5, UpTo, Zenon
    <2> QED BY <2>1
  <1>7. k[N].found = 1..N /\ k[N].used = 1..N
    BY <1>6
  <1>8. VideoReview(q, a) = Share(q, N, 0)
    BY <1>1, <1>2, <1>7, UpToFinite DEF VideoReview, Claims
  <1> QED BY <1>1, <1>8, ShareCapped

-----------------------------------------------------------------------------
(* One claim more, a, than before, b.                                      *)
More(b, a) == /\ Len(a) = Len(b) + 1
              /\ \A i \in 1..Len(b) : a[i] = b[i]
Unused(n, s) == (1..n) \ s.used
(* One claim more is unused, or one mistake more found.                    *)
Behind(m, s, t) ==
    \/ /\ s.found = t.found
       /\ \E x \in Unused(m + 1, t) : x \notin Unused(m, s) /\ Unused(m + 1, t) = Unused(m, s) \cup {x}
    \/ /\ Cardinality(t.found) = Cardinality(s.found) + 1
       /\ Unused(m + 1, t) = Unused(m, s)

LEMMA BehindNext ==
  ASSUME NEW q, q.items \in Items, NEW b \in Seq(Nat), NEW a \in Seq(Nat), More(b, a),
         NEW s \in MatchStates(q, b), NEW t \in MatchStates(q, a),
         NEW e \in 1..Len(q.items), IsFiniteSet(s.found), IsFiniteSet(t.found),
         e \notin s.found, e \notin t.found, Behind(Len(b), s, t),
         NEW s1, s1 = Matched(q, b, s, e), NEW t1, t1 = Matched(q, a, t, e)
  PROVE  Behind(Len(b), s1, t1)
  <1>1. PICK m \in Nat : m = Len(b) /\ m + 1 = Len(a) /\ DOMAIN b = 1..m /\ DOMAIN a = 1..(m + 1)
    <2>1. DOMAIN b = 1..Len(b) /\ DOMAIN a = 1..Len(a) /\ Len(b) \in Nat
      OBVIOUS
    <2>2. Len(a) = Len(b) + 1
      BY DEF More
    <2> QED BY <2>1, <2>2
  <1>2. PICK nb, na : nb = Within(q, b, e, s.used) /\ na = Within(q, a, e, t.used)
    OBVIOUS
  <1>3. Taken(q, b, s, e, nb, s1)
    BY <1>2, MatchedIs
  <1>4. Taken(q, a, t, e, na, t1)
    BY <1>2, MatchedIs
  <1>5. PICK U, V : U = Unused(m, s) /\ V = Unused(m + 1, t)
    OBVIOUS
  <1>6. /\ U \subseteq 1..m
        /\ nb = {c \in U : Far(q, b, e, c) <= q.tolerance}
        /\ na = {c \in V : Far(q, a, e, c) <= q.tolerance}
    BY <1>1, <1>2, <1>5 DEF Within, Unused
  <1>7. \A c \in 1..m : Far(q, a, e, c) = Far(q, b, e, c)
    BY <1>1 DEF Far, More
  <1>8. /\ nb \in SUBSET (1..Len(b)) /\ nb \subseteq U /\ na \subseteq V
    BY <1>1, <1>6
  <1>9. ASSUME NEW c \in U, NEW d, nb \subseteq na, Best(q, a, e, na, c), Best(q, b, e, nb, d)
        PROVE  c = d
    <2>1. c \in nb
      BY <1>6, <1>7, <1>9 DEF Best
    <2>2. Best(q, b, e, nb, c)
      <3>1. ASSUME NEW k \in nb
            PROVE  \/ Far(q, b, e, c) < Far(q, b, e, k)
                   \/ Far(q, b, e, c) = Far(q, b, e, k) /\ c <= k
        <4>1. k \in na /\ k \in 1..m /\ c \in 1..m
          BY <1>6, <1>9
        <4>2. /\ \/ Far(q, a, e, c) < Far(q, a, e, k)
                 \/ Far(q, a, e, c) = Far(q, a, e, k) /\ c <= k
          BY <1>9, <4>1 DEF Best
        <4> QED BY <1>7, <4>1, <4>2
      <3> QED BY <2>1, <3>1 DEF Best
    <2> QED BY <1>8, <1>9, <2>2, BestOnly
  <1>10. Behind(m, s, t)
    BY <1>1
  <1>11. ASSUME NEW c, s1.used = s.used \cup {c} PROVE Unused(m, s1) = U \ {c}
    BY <1>5, <1>11 DEF Unused
  <1>12. ASSUME NEW c, t1.used = t.used \cup {c} PROVE Unused(m + 1, t1) = V \ {c}
    BY <1>5, <1>12 DEF Unused
  <1>13. CASE s.found = t.found /\ \E x \in V : x \notin U /\ V = U \cup {x}
    <2>1. PICK x \in V : x \notin U /\ V = U \cup {x}
      BY <1>13
    <2>2. nb \subseteq na
      BY <1>6, <1>7, <2>1
    <2>3. CASE na = {}
      <3>1. s1 = s /\ t1 = t
        BY <1>3, <1>4, <2>2, <2>3 DEF Taken
      <3> QED BY <1>1, <1>10, <3>1
    <2>4. CASE na # {}
      <3>1. PICK c \in na : Best(q, a, e, na, c) /\ t1.used = t.used \cup {c} /\ t1.found = t.found \cup {e}
        BY <1>4, <2>4 DEF Taken
      <3>2. Unused(m + 1, t1) = V \ {c}
        BY <1>12, <3>1
      <3>3. CASE nb = {}
        <4>1. s1 = s
          BY <1>3, <3>3 DEF Taken
        <4>2. c \notin U
          BY <1>6, <1>7, <3>1, <3>3
        <4>3. V \ {c} = U
          BY <1>8, <2>1, <4>2
        <4>4. Cardinality(t.found \cup {e}) = Cardinality(t.found) + 1
          BY FS_AddElement
        <4>5. Cardinality(t1.found) = Cardinality(s1.found) + 1
          BY <1>13, <3>1, <4>1, <4>4
        <4> QED BY <1>1, <1>5, <3>2, <4>1, <4>3, <4>5 DEF Behind
      <3>4. CASE nb # {}
        <4>1. PICK d \in nb : Best(q, b, e, nb, d) /\ s1.used = s.used \cup {d} /\ s1.found = s.found \cup {e}
          BY <1>3, <3>4 DEF Taken
        <4>2. Unused(m, s1) = U \ {d} /\ s1.found = t1.found
          BY <1>11, <1>13, <3>1, <4>1
        <4>3. CASE c \in U
          <5>1. c = d
            BY <1>9, <2>2, <3>1, <4>1, <4>3
          <5>2. V \ {c} = (U \ {d}) \cup {x} /\ x \in V \ {c} /\ x \notin U \ {d}
            BY <2>1, <4>3, <5>1
          <5> QED BY <1>1, <3>2, <4>2, <5>2 DEF Behind
        <4>4. CASE c \notin U
          <5>1. V \ {c} = (U \ {d}) \cup {d} /\ d \in V \ {c} /\ d \notin U \ {d}
            BY <1>8, <2>1, <3>1, <4>1, <4>4
          <5> QED BY <1>1, <3>2, <4>2, <5>1 DEF Behind
        <4> QED BY <4>3, <4>4
      <3> QED BY <3>3, <3>4
    <2> QED BY <2>3, <2>4
  <1>14. CASE Cardinality(t.found) = Cardinality(s.found) + 1 /\ V = U
    <2>1. na = nb
      BY <1>6, <1>7, <1>14
    <2>2. CASE na = {}
      <3>1. s1 = s /\ t1 = t
        BY <1>3, <1>4, <2>1, <2>2 DEF Taken
      <3> QED BY <1>1, <1>10, <3>1
    <2>3. CASE na # {}
      <3>1. PICK c \in na : Best(q, a, e, na, c) /\ t1.used = t.used \cup {c} /\ t1.found = t.found \cup {e}
        BY <1>4, <2>3 DEF Taken
      <3>2. PICK d \in nb : Best(q, b, e, nb, d) /\ s1.used = s.used \cup {d} /\ s1.found = s.found \cup {e}
        BY <1>3, <2>1, <2>3 DEF Taken
      <3>3. c = d
        BY <1>8, <1>9, <1>14, <2>1, <3>1, <3>2
      <3>4. Unused(m + 1, t1) = Unused(m, s1)
        BY <1>11, <1>12, <1>14, <3>1, <3>2, <3>3
      <3>5. /\ Cardinality(t.found \cup {e}) = Cardinality(t.found) + 1
            /\ Cardinality(s.found \cup {e}) = Cardinality(s.found) + 1
        BY FS_AddElement
      <3>6. Cardinality(t1.found) = Cardinality(s1.found) + 1
        BY <1>14, <3>1, <3>2, <3>5
      <3> QED BY <1>1, <3>4, <3>6 DEF Behind
    <2> QED BY <2>2, <2>3
  <1> QED BY <1>5, <1>10, <1>13, <1>14 DEF Behind

LEMMA VideoMore ==
  ASSUME NEW q, q.items \in Items, q.tolerance \in Nat, NEW b \in Seq(Nat), NEW a \in Seq(Nat),
         More(b, a)
  PROVE  Cardinality(Claims(q, b).found) <= Cardinality(Claims(q, a).found)
  <1>1. PICK N \in Nat : N = Len(q.items)
    BY ItemFacts
  <1>m. PICK m \in Nat : m = Len(b) /\ m + 1 = Len(a)
    BY DEF More
  <1>2. PICK k, l : k = Matches(q, b) /\ l = Matches(q, a)
    OBVIOUS
  <1>3. /\ k[0] = NoMatch /\ \A e \in 0..N : k[e] \in MatchStates(q, b)
        /\ \A e \in 1..N : k[e] = Matched(q, b, k[e - 1], e)
    BY <1>1, <1>2, MatchSteps
  <1>4. /\ l[0] = NoMatch /\ \A e \in 0..N : l[e] \in MatchStates(q, a)
        /\ \A e \in 1..N : l[e] = Matched(q, a, l[e - 1], e)
    BY <1>1, <1>2, MatchSteps
  <1> DEFINE H == {e \in 0..N : /\ Treated(q, b, e, k[e]) /\ Treated(q, a, e, l[e])
                                /\ Behind(m, k[e], l[e])}
  <1>5. 0 \in H
    <2>1. /\ 1..0 = {} /\ k[0].used = {} /\ k[0].found = {} /\ l[0].used = {} /\ l[0].found = {}
      BY <1>3, <1>4 DEF NoMatch
    <2>2. Treated(q, b, 0, k[0]) /\ Treated(q, a, 0, l[0])
      BY <2>1, FS_EmptySet DEF Treated
    <2>3. /\ Unused(m + 1, l[0]) = 1..(m + 1) /\ Unused(m, k[0]) = 1..m
          /\ 1..(m + 1) = (1..m) \cup {m + 1} /\ m + 1 \notin 1..m /\ m + 1 \in 1..(m + 1)
      BY <2>1 DEF Unused
    <2>4. Behind(m, k[0], l[0])
      BY <2>1, <2>3 DEF Behind
    <2>5. 0 \in 0..N
      OBVIOUS
    <2> QED BY <2>2, <2>4, <2>5
  <1>6. ASSUME NEW e \in 1..N, e - 1 \in H PROVE e \in H
    <2>1. e - 1 \in 0..N /\ e \in 0..N /\ e \in 1..Len(q.items) /\ e \notin 1..(e - 1)
      BY <1>1
    <2>2. PICK s \in MatchStates(q, b), t \in MatchStates(q, a) :
            /\ s = k[e - 1] /\ Treated(q, b, e - 1, s)
            /\ t = l[e - 1] /\ Treated(q, a, e - 1, t) /\ Behind(m, s, t)
      BY <1>3, <1>4, <1>6, <2>1
    <2>3. PICK s1, t1 : s1 = Matched(q, b, s, e) /\ t1 = Matched(q, a, t, e) /\ s1 = k[e] /\ t1 = l[e]
      BY <1>3, <1>4, <2>2
    <2> HIDE <1>6
    <2>4. Treated(q, b, e, s1)
      BY <2>1, <2>2, <2>3, TreatedNext
    <2>5. Treated(q, a, e, t1)
      BY <2>1, <2>2, <2>3, TreatedNext
    <2>6. IsFiniteSet(s.found) /\ IsFiniteSet(t.found) /\ e \notin s.found /\ e \notin t.found
      BY <2>1, <2>2 DEF Treated
    <2>7. Behind(m, s1, t1)
      BY <1>m, <2>1, <2>2, <2>3, <2>6, BehindNext
    <2> QED BY <2>1, <2>3, <2>4, <2>5, <2>7
  <1>7. N \in H
    <2> HIDE DEF H
    <2>1. \A n \in 0..N : n \in H
      BY <1>5, <1>6, UpTo, Zenon
    <2> QED BY <2>1
  <1>8. PICK s, t : s = Claims(q, b) /\ t = Claims(q, a) /\ s = k[N] /\ t = l[N]
    BY <1>1, <1>2 DEF Claims
  <1>9. Behind(m, s, t) /\ IsFiniteSet(s.found) /\ IsFiniteSet(t.found)
    BY <1>7, <1>8 DEF Treated
  <1>10. Cardinality(s.found) \in Nat /\ Cardinality(t.found) \in Nat
    BY <1>9, FS_CardinalityType
  <1>11. Cardinality(s.found) <= Cardinality(t.found)
    BY <1>9, <1>10 DEF Behind
  <1> QED BY <1>8, <1>11

-----------------------------------------------------------------------------
(* One claim more in each type.                                             *)
LEMMA FrontIs ==
  ASSUME NEW A, NEW a \in Seq(A), a # <<>>, NEW b, b = Front(a)
  PROVE  /\ b \in Seq(A) /\ More(b, a) /\ ToSet(a) = ToSet(b) \cup {a[Len(a)]}
  <1>1. PICK n \in Nat : n + 1 = Len(a) /\ n = Len(a) - 1
    <2>1. Len(a) \in Nat \ {0}
      OBVIOUS
    <2> QED BY <2>1
  <1>2. b = SubSeq(a, 1, n)
    BY <1>1 DEF Front
  <1>3. \A i \in 1..n : a[i] \in A
    BY <1>1
  <1>4. /\ SubSeq(a, 1, n) \in Seq(A) /\ Len(SubSeq(a, 1, n)) = (IF 1 <= n THEN n - 1 + 1 ELSE 0)
        /\ \A i \in 1..(n - 1 + 1) : SubSeq(a, 1, n)[i] = a[1 + i - 1]
    BY <1>3, SubSeqProperties
  <1>5. b \in Seq(A) /\ Len(b) = n /\ \A i \in 1..n : b[i] = a[i]
    <2>1. Len(SubSeq(a, 1, n)) = n
      BY <1>4
    <2>2. ASSUME NEW i \in 1..n PROVE SubSeq(a, 1, n)[i] = a[i]
      <3>1. i \in 1..(n - 1 + 1) /\ 1 + i - 1 = i
        OBVIOUS
      <3> QED BY <1>4, <3>1
    <2> QED BY <1>2, <1>4, <2>1, <2>2
  <1>6. DOMAIN a = 1..(n + 1) /\ DOMAIN b = 1..n /\ (1..(n + 1)) = (1..n) \cup {n + 1}
    BY <1>1, <1>5
  <1>7. ToSet(a) = ToSet(b) \cup {a[n + 1]}
    BY <1>5, <1>6 DEF ToSet
  <1> QED BY <1>1, <1>5, <1>7 DEF More

(* One claim more: found as much, or one more at no cost.                  *)
AtNoCost(S, T, f, g) ==
    /\ f \in Nat /\ g \in Nat /\ f <= g
    /\ f < g => Cardinality(T) - g = Cardinality(S) - f

LEMMA SetMore ==
  ASSUME NEW S, NEW x, NEW F, IsFiniteSet(S), NEW T, T = S \cup {x},
         NEW f, NEW g, f = Cardinality(S \cap F), g = Cardinality(T \cap F)
  PROVE  AtNoCost(S, T, f, g)
  <1>1. IsFiniteSet(S \cap F) /\ f \in Nat /\ Cardinality(S) \in Nat
    BY Fewer
  <1>2. CASE x \in S
    <2>1. T = S
      BY <1>2
    <2>2. g = f
      BY <2>1
    <2> QED BY <1>1, <2>2 DEF AtNoCost
  <1>3. CASE x \notin S /\ x \in F
    <2>1. T \cap F = (S \cap F) \cup {x} /\ x \notin S \cap F
      BY <1>3
    <2>2. Cardinality((S \cap F) \cup {x}) = Cardinality(S \cap F) + 1
      BY <1>1, <2>1, FS_AddElement
    <2>3. Cardinality(S \cup {x}) = Cardinality(S) + 1
      BY <1>3, FS_AddElement
    <2>4. g = f + 1 /\ Cardinality(T) = Cardinality(S) + 1
      BY <2>1, <2>2, <2>3
    <2> QED BY <1>1, <2>4 DEF AtNoCost
  <1>4. CASE x \notin S /\ x \notin F
    <2>1. T \cap F = S \cap F
      BY <1>4
    <2>2. g = f
      BY <2>1
    <2> QED BY <1>1, <2>2 DEF AtNoCost
  <1> QED BY <1>2, <1>3, <1>4

NoLess(s, t) == t.found >= s.found /\ (t.found > s.found => t.obtained >= s.obtained)

LEMMA ShareOfMore ==
  ASSUME NEW q, q.marks \in Nat, q.penalty \in Nat, Len(q.items) \in Nat \ {0},
         NEW b \in Seq(Nat), NEW a \in Seq(Nat), NEW x, ToSet(a) = ToSet(b) \cup {x},
         NEW F, IsFiniteSet(F), Cardinality(F) <= Len(q.items),
         NEW s, NEW t,
         s = Share(q, Cardinality(ToSet(b) \cap F), Cardinality(ToSet(b)) - Cardinality(ToSet(b) \cap F)),
         t = Share(q, Cardinality(ToSet(a) \cap F), Cardinality(ToSet(a)) - Cardinality(ToSet(a) \cap F))
  PROVE  NoLess(s, t)
  <1>1. PICK S, T : S = ToSet(b) /\ T = ToSet(a) /\ T = S \cup {x}
    OBVIOUS
  <1>2. PICK f, g : f = Cardinality(S \cap F) /\ g = Cardinality(T \cap F)
    OBVIOUS
  <1>3. IsFiniteSet(S)
    BY <1>1, Numbers
  <1>4. /\ f \in Nat /\ g \in Nat /\ f <= g
        /\ f < g => Cardinality(T) - g = Cardinality(S) - f
    <2>1. AtNoCost(S, T, f, g)
      BY <1>1, <1>2, <1>3, SetMore
    <2> QED BY <2>1 DEF AtNoCost
  <1>5. f <= Len(q.items) /\ Cardinality(S) - f \in Nat
    BY <1>1, <1>2, ShareOfSet
  <1>6. g <= Len(q.items) /\ Cardinality(T) - g \in Nat
    BY <1>1, <1>2, ShareOfSet
  <1>7. PICK w \in Nat, v \in Nat : w = Cardinality(S) - f /\ v = Cardinality(T) - g
    BY <1>5, <1>6
  <1>8. s = Share(q, f, w) /\ t = Share(q, g, v)
    BY <1>1, <1>2, <1>7
  <1>9. Share(q, f, w).found = f /\ Share(q, f, w).obtained \in Nat
        /\ \A more \in Nat : f <= more => Share(q, f, w).obtained <= Share(q, more, w).obtained
    BY <1>4, <1>5, ShareCapped
  <1>10. Share(q, g, v).found = g /\ Share(q, g, v).obtained \in Nat
    BY <1>4, <1>6, ShareCapped
  <1>11. f < g => w = v
    BY <1>4, <1>7
  <1>12. f < g => s.obtained <= t.obtained
    BY <1>4, <1>8, <1>9, <1>11
  <1> QED BY <1>4, <1>8, <1>9, <1>10, <1>12 DEF NoLess

LEMMA HotspotMore ==
  ASSUME NEW q, q.marks \in Nat, q.penalty \in Nat, q.items \in Items, q.items # <<>>,
         NEW b \in Seq(Nat), NEW a \in Seq(Nat), More(b, a)
  PROVE  NoLess(Hotspot(q, b), Hotspot(q, a))
  <1>1. PICK m \in Nat, N \in Nat \ {0} : m = Len(b) /\ m + 1 = Len(a) /\ N = Len(q.items)
    <2>1. Len(a) = Len(b) + 1 /\ Len(b) \in Nat
      BY DEF More
    <2>2. Len(q.items) \in Nat \ {0}
      BY ItemFacts
    <2> QED BY <2>1, <2>2
  <1>2. PICK k, l : k = Clicks(q, b) /\ l = Clicks(q, a)
    OBVIOUS
  <1>3. /\ k[0] = NoClick /\ \A n \in 0..m : k[n] \in ClickStates(q)
        /\ \A n \in 1..m : k[n] = Clicked(q, k[n - 1], b[n])
    <2>1. q.items \in Items /\ b \in Seq(Nat) /\ k = Clicks(q, b)
      BY <1>2
    <2>2. /\ k[0] = NoClick /\ \A n \in 0..Len(b) : k[n] \in ClickStates(q)
          /\ \A n \in 1..Len(b) : k[n] = Clicked(q, k[n - 1], b[n])
      BY ONLY <2>1, ClickSteps
    <2> QED BY <1>1, <2>2
  <1>4. /\ l[0] = NoClick /\ \A n \in 0..(m + 1) : l[n] \in ClickStates(q)
        /\ \A n \in 1..(m + 1) : l[n] = Clicked(q, l[n - 1], a[n])
    <2>1. q.items \in Items /\ a \in Seq(Nat) /\ l = Clicks(q, a)
      BY <1>2
    <2>2. /\ l[0] = NoClick /\ \A n \in 0..Len(a) : l[n] \in ClickStates(q)
          /\ \A n \in 1..Len(a) : l[n] = Clicked(q, l[n - 1], a[n])
      BY ONLY <2>1, ClickSteps
    <2> QED BY <1>1, <2>2
  <1> DEFINE H == {n \in 0..m : l[n] = k[n]}
  <1>5. 0 \in H
    BY <1>3, <1>4
  <1>6. ASSUME NEW n \in 1..m, n - 1 \in H PROVE n \in H
    <2>1. n \in 0..m /\ n \in 1..(m + 1) /\ l[n - 1] = k[n - 1]
      BY <1>6
    <2>2. a[n] = b[n]
      BY <1>1 DEF More
    <2> QED BY <1>3, <1>4, <2>1, <2>2
  <1>7. m \in H
    <2> HIDE DEF H
    <2>1. \A n \in 0..m : n \in H
      BY <1>5, <1>6, UpTo, Zenon
    <2> QED BY <2>1
  <1>8. PICK s : s = k[m] /\ s = l[m] /\ s \in ClickStates(q)
    BY <1>3, <1>7
  <1>a. PICK p, t : p = a[m + 1] /\ t = l[m + 1]
    OBVIOUS
  <1>9. t = Clicked(q, s, p)
    <2>1. m + 1 \in 1..(m + 1) /\ (m + 1) - 1 = m
      OBVIOUS
    <2> QED BY <1>4, <1>8, <1>a, <2>1
  <1>10. /\ t \in ClickStates(q) /\ s.found \subseteq t.found
         /\ t.found # s.found => t.wrong = s.wrong
    <2> HIDE DEF H
    <2>1. q.items \in Items /\ s \in ClickStates(q) /\ t = Clicked(q, s, p)
      BY <1>8, <1>9
    <2> QED BY ONLY <2>1, ClickedIs
  <1>11. /\ s.found \in SUBSET (1..N) /\ s.wrong \in Nat
         /\ t.found \in SUBSET (1..N) /\ t.wrong \in Nat
    BY <1>1, <1>8, <1>10 DEF ClickStates
  <1>12. PICK f \in Nat : f = Cardinality(s.found) /\ f <= N /\ IsFiniteSet(s.found)
    BY <1>11, UpToFewer
  <1>13. PICK g \in Nat : g = Cardinality(t.found) /\ g <= N /\ IsFiniteSet(t.found)
    BY <1>11, UpToFewer
  <1>14. f <= g
    BY <1>10, <1>12, <1>13, Fewer
  <1>15. f < g => t.wrong = s.wrong
    BY <1>10, <1>12, <1>13
  <1>16. PICK w \in Nat, v \in Nat : w = s.wrong /\ v = t.wrong
    BY <1>11
  <1>17. Hotspot(q, b) = Share(q, f, w)
    BY <1>1, <1>2, <1>8, <1>a, <1>12, <1>16 DEF Hotspot
  <1>18. Hotspot(q, a) = Share(q, g, v)
    BY <1>1, <1>2, <1>8, <1>a, <1>13, <1>16 DEF Hotspot
  <1>19. Share(q, f, w).found = f /\ Share(q, f, w).obtained \in Nat
        /\ \A more \in Nat : f <= more => Share(q, f, w).obtained <= Share(q, more, w).obtained
    BY <1>1, <1>12, ShareCapped
  <1>20. Share(q, g, v).found = g /\ Share(q, g, v).obtained \in Nat
    BY <1>1, <1>13, ShareCapped
  <1>21. f < g => Share(q, f, w).obtained <= Share(q, g, v).obtained
    BY <1>14, <1>15, <1>16, <1>19
  <1> QED BY <1>14, <1>17, <1>18, <1>19, <1>20, <1>21 DEF NoLess

-----------------------------------------------------------------------------
(* The properties of the score, from the inductive invariant.               *)
LEMMA ScoreIs ==
  ASSUME NEW q, NEW a, a # <<>>
  PROVE  /\ q.type = "mcq" => Score(q, a) = Mcq(q, a)
         /\ q.type \in {"true_false", "image_comparison"} => Score(q, a) = OneRight(q, a)
         /\ q.type = "find_mistakes" => Score(q, a) = FindMistakes(q, a)
         /\ q.type = "hotspot" => Score(q, a) = Hotspot(q, a)
         /\ q.type = "content_review" => Score(q, a) = ContentReview(q, a)
         /\ q.type = "video_review" => Score(q, a) = VideoReview(q, a)
         /\ q.type = "drag_drop" => Score(q, a) = DragDrop(q, a)
  BY DEF Score

LEMMA PaperFacts ==
  ASSUME Core, stage # "form"
  PROVE  /\ ~content.indented /\ content.marks \in Nat /\ content.penalty \in Nat
         /\ content.tolerance \in Nat /\ content.multiple \in BOOLEAN
         /\ content.items \in Items /\ Differ(content.items) /\ content.type \in Types
         /\ content.type \in {"find_mistakes", "hotspot", "video_review", "content_review"}
               => content.items # <<>>
         /\ content.type \notin {"find_mistakes", "hotspot", "video_review", "content_review"}
               => content.key # <<>>
         /\ content.type = "mcq" /\ ~content.multiple => Len(content.key) = 1
         /\ content.type = "content_review" => \A x \in ToSet(content.items) : x.id = x.from
         /\ content.type = "hotspot" => \A x \in ToSet(content.items) : x.from <= x.to
         /\ content.type # "hotspot" => \A x \in ToSet(content.items) : x.from = x.to
  <1>1. Valid(content) /\ ~content.indented
    BY DEF Core, Accepted
  <1>2. /\ content.marks \in Nat /\ content.penalty \in Nat
        /\ content.tolerance \in Nat /\ content.multiple \in BOOLEAN
        /\ content.items \in Items /\ content.type \in Types
    BY ContentFacts, TypedParts
  <1>3. Differ(content.items) /\ \A x \in ToSet(content.items) : Placed(content.type, made, x)
    BY ContentFacts DEF Fine
  <1>4. content.type \in {"find_mistakes", "hotspot", "video_review", "content_review"}
               => content.items # <<>>
    BY <1>1 DEF Valid
  <1>5. content.type \in {"mcq", "true_false", "image_comparison"} => content.key # <<>>
    BY <1>1 DEF Valid
  <1>6. content.type = "mcq" /\ ~content.multiple => Len(content.key) = 1
    BY <1>1 DEF Valid
  <1>7. content.type = "drag_drop" => content.key # <<>>
    <2>1. SUFFICES ASSUME content.type = "drag_drop", content.key = <<>> PROVE FALSE
      OBVIOUS
    <2>2. Len(content.key) = 0
      BY <2>1
    <2>3. Len(content.items) >= 2 /\ (content.mode = "sequence" => Len(content.key) = Len(content.items))
          /\ (content.mode # "sequence" => Len(content.key) >= 2)
      BY <1>1, <2>1 DEF Valid
    <2> QED BY <2>2, <2>3
  <1> QED BY <1>1, <1>2, <1>3, <1>4, <1>5, <1>6, <1>7 DEF Placed, Types

LEMMA TypeCases ==
  ASSUME Core
  PROVE  \/ content.type \in {"mcq", "true_false", "image_comparison"}
         \/ content.type = "find_mistakes" /\ content.mode \in {"checklist", "typed"}
         \/ content.type \in {"hotspot", "content_review", "video_review"}
         \/ content.type = "drag_drop" /\ content.mode \in {"sequence", "match"}
  BY ContentFacts, ModeOfType, TypedParts DEF Types

(* Any answer, whatever was claimed.                                       *)
LEMMA AnswerCapped ==
  ASSUME Core, stage # "form", NEW a \in Seq(ClaimsOf(content))
  PROVE  /\ Capped(content, Score(content, a))
         /\ content.mode # "typed" => Score(content, a).found \in Nat
  <1>1. CASE a = <<>>
    <2>1. Score(content, a) = Unanswered
      BY <1>1 DEF Score
    <2> QED BY <2>1, PaperFacts, UnansweredCapped
  <1>2. CASE a # <<>> /\ content.type = "mcq"
    <2>1. a \in Seq(Nat) /\ content.key \in Seq(Nat)
      <3>1. content.mode = ""
        BY <1>2, AnswerIs
      <3>2. ClaimsOf(content) = Nat
        BY <1>2, <3>1, AnswerIs
      <3>3. Keys(content.type, content.mode) = Nat
        BY <1>2, <3>1 DEF Keys
      <3> QED BY <3>2, <3>3, ContentFacts
    <2>2. Capped(content, Mcq(content, a)) /\ Mcq(content, a).found = 0
      BY <1>2, <2>1, PaperFacts, McqCapped
    <2> QED BY <1>2, <2>2, ScoreIs
  <1>3. CASE a # <<>> /\ content.type \in {"true_false", "image_comparison"}
    <2>1. Capped(content, OneRight(content, a)) /\ OneRight(content, a).found = 0
      BY PaperFacts, OneRightCapped
    <2> QED BY <1>3, <2>1, ScoreIs
  <1>4. CASE a # <<>> /\ content.type = "find_mistakes" /\ content.mode = "checklist"
    <2>1. a \in Seq(Nat)
      BY <1>4, AnswerIs
    <2>2. Capped(content, FindMistakes(content, a)) /\ FindMistakes(content, a).found \in Nat
      BY <1>4, <2>1, PaperFacts, MistakesCapped
    <2> QED BY <1>4, <2>2, ScoreIs
  <1>5. CASE a # <<>> /\ content.type = "find_mistakes" /\ content.mode = "typed"
    <2>1. a \in Seq(SUBSET IdsOf(content.items))
      BY <1>5, AnswerIs
    <2>2. Capped(content, FindMistakes(content, a))
      BY <1>5, <2>1, PaperFacts, TypedCapped
    <2> QED BY <1>5, <2>2, ScoreIs
  <1>6. CASE a # <<>> /\ content.type \in {"hotspot", "content_review", "video_review"}
    <2>1. a \in Seq(Nat)
      BY <1>6, AnswerIs
    <2>2. CASE content.type = "hotspot"
      <3>1. Capped(content, Hotspot(content, a)) /\ Hotspot(content, a).found \in Nat
        BY <2>1, <2>2, PaperFacts, HotspotCapped
      <3> QED BY <1>6, <2>2, <3>1, ScoreIs
    <2>3. CASE content.type = "content_review"
      <3>1. Capped(content, ContentReview(content, a)) /\ ContentReview(content, a).found \in Nat
        BY <2>1, <2>3, PaperFacts, WordsCapped
      <3> QED BY <1>6, <2>3, <3>1, ScoreIs
    <2>4. CASE content.type = "video_review"
      <3>1. Capped(content, VideoReview(content, a)) /\ VideoReview(content, a).found \in Nat
        BY <2>1, <2>4, PaperFacts, VideoCapped
      <3> QED BY <1>6, <2>4, <3>1, ScoreIs
    <2> QED BY <1>6, <2>2, <2>3, <2>4
  <1>7. CASE a # <<>> /\ content.type = "drag_drop" /\ content.mode = "sequence"
    <2>1. a \in Seq(Nat) /\ content.key \in Seq(Nat)
      <3>1. Keys(content.type, content.mode) = Nat
        BY <1>7 DEF Keys
      <3> QED BY <1>7, <3>1, ContentFacts, AnswerIs
    <2>2. Capped(content, DragDrop(content, a)) /\ DragDrop(content, a).found = 0
      BY <1>7, <2>1, PaperFacts, SequenceCapped
    <2> QED BY <1>7, <2>2, ScoreIs
  <1>8. CASE a # <<>> /\ content.type = "drag_drop" /\ content.mode = "match"
    <2>1. a \in Seq(TwoIds) /\ content.key \in Seq(TwoIds)
      <3>1. Keys(content.type, content.mode) = TwoIds
        BY <1>8 DEF Keys, TwoIds
      <3> QED BY <1>8, <3>1, ContentFacts, AnswerIs
    <2>2. Capped(content, DragDrop(content, a)) /\ DragDrop(content, a).found = 0
      BY <1>8, <2>1, PaperFacts, MatchCapped
    <2> QED BY <1>8, <2>2, ScoreIs
  <1> QED BY <1>1, <1>2, <1>3, <1>4, <1>5, <1>6, <1>7, <1>8, TypeCases

LEMMA MarksKept == Core => WithinMarks
  <1> SUFFICES ASSUME Core, stage = "paper" PROVE WithinMarks
    BY DEF WithinMarks
  <1>1. answer \in Seq(ClaimsOf(content))
    BY AnswerIs
  <1>2. Capped(content, Score(content, answer))
    BY <1>1, AnswerCapped
  <1> QED BY <1>2 DEF WithinMarks, Capped

LEMMA Settled == Core => ClaimsSettled
  <1> SUFFICES ASSUME Core, Shown("video_review") PROVE ClaimsSettled
    BY DEF ClaimsSettled
  <1>1. stage = "paper" /\ content.type = "video_review"
    BY DEF Shown
  <1>2. answer \in Seq(Nat)
    BY <1>1, AnswerIs
  <1>3. PICK s : s = Claims(content, answer)
    OBVIOUS
  <1>4. Treated(content, answer, Len(content.items), s)
    BY <1>1, <1>2, <1>3, PaperFacts, ClaimsTreated
  <1>5. DOMAIN content.items = 1..Len(content.items) /\ DOMAIN answer = 1..Len(answer)
    BY <1>1, <1>2, PaperFacts, ItemFacts
  <1>6. /\ Cardinality(s.used) = Cardinality(s.found)
        /\ \A e \in DOMAIN content.items \ s.found, c \in DOMAIN answer \ s.used :
              Far(content, answer, e, c) > content.tolerance
    BY <1>4, <1>5 DEF Treated
  <1> QED BY <1>3, <1>6 DEF ClaimsSettled

LEMMA NoLessKept == Core => MoreIsNoLess
  <1> SUFFICES ASSUME Core, stage = "paper", answer # <<>>,
                      content.mode \notin {"typed", "match", "sequence"}
               PROVE  MoreIsNoLess
    BY DEF MoreIsNoLess
  <1>1. PICK b, s, t : b = Front(answer) /\ s = Score(content, b) /\ t = Score(content, answer)
    OBVIOUS
  <1> DEFINE Goal == t.found >= s.found
                     /\ (t.found > s.found /\ content.type # "video_review" => t.obtained >= s.obtained)
  <1>2. answer \in Seq(ClaimsOf(content))
    BY AnswerIs
  <1>3. b \in Seq(ClaimsOf(content)) /\ More(b, answer) /\ ToSet(answer) = ToSet(b) \cup {answer[Len(answer)]}
    BY <1>1, <1>2, FrontIs
  <1>4. Capped(content, s) /\ Capped(content, t) /\ s.found \in Nat /\ t.found \in Nat
    BY <1>1, <1>2, <1>3, AnswerCapped
  <1>5. s.obtained \in Nat /\ t.obtained \in Nat
    BY <1>4, PaperFacts DEF Capped
  <1>6. CASE b = <<>>
    <2>1. s = Unanswered
      BY <1>1, <1>6 DEF Score
    <2>2. s.found = 0 /\ s.obtained = 0
      BY <2>1, PaperFacts, UnansweredCapped
    <2>3. Goal
      BY <1>4, <1>5, <2>2
    <2> QED BY <1>1, <2>3 DEF MoreIsNoLess
  <1>7. CASE content.type \in {"mcq", "true_false", "image_comparison"} /\ b # <<>>
    <2>1. s.found = 0 /\ t.found = 0
      <3>1. CASE content.type = "mcq"
        <4>1. content.key \in Seq(Nat) /\ ClaimsOf(content) = Nat
          <5>1. content.mode = ""
            BY <3>1, AnswerIs
          <5>2. ClaimsOf(content) = Nat
            BY <3>1, <5>1, AnswerIs
          <5>3. Keys(content.type, content.mode) = Nat
            BY <3>1, <5>1 DEF Keys
          <5> QED BY <5>2, <5>3, ContentFacts
        <4>2. answer \in Seq(Nat) /\ b \in Seq(Nat)
          BY <1>2, <1>3, <4>1
        <4>3. Mcq(content, b).found = 0 /\ Mcq(content, answer).found = 0
          BY <3>1, <4>1, <4>2, PaperFacts, McqCapped
        <4> QED BY <1>1, <1>7, <3>1, <4>3, ScoreIs
      <3>2. CASE content.type \in {"true_false", "image_comparison"}
        <4>1. OneRight(content, b).found = 0 /\ OneRight(content, answer).found = 0
          BY PaperFacts, OneRightCapped
        <4> QED BY <1>1, <1>7, <3>2, <4>1, ScoreIs
      <3> QED BY <1>7, <3>1, <3>2
    <2>2. Goal
      BY <2>1
    <2> QED BY <1>1, <2>2 DEF MoreIsNoLess
  <1>8. CASE content.type \in {"find_mistakes", "hotspot", "content_review", "video_review"} /\ b # <<>>
    <2>1. ClaimsOf(content) = Nat
      BY <1>8, AnswerIs
    <2>2. answer \in Seq(Nat) /\ b \in Seq(Nat)
      BY <1>2, <1>3, <2>1
    <2>3. Len(content.items) \in Nat \ {0} /\ content.items # <<>> /\ content.items \in Items
          /\ content.marks \in Nat /\ content.penalty \in Nat /\ content.tolerance \in Nat
      BY <1>8, PaperFacts, ItemFacts
    <2>4. CASE content.type = "find_mistakes"
      <3>1. s = FindMistakes(content, b) /\ t = FindMistakes(content, answer)
        BY <1>1, <1>8, <2>4, ScoreIs
      <3>2. PICK F : F = IdsOf(content.items)
        OBVIOUS
      <3>3. IsFiniteSet(F) /\ Cardinality(F) <= Len(content.items)
        BY <2>3, <3>2, IdsNumber
      <3>4. s = Share(content, Cardinality(ToSet(b) \cap F), Cardinality(ToSet(b)) - Cardinality(ToSet(b) \cap F))
        BY <3>1, <3>2 DEF FindMistakes
      <3>5. t = Share(content, Cardinality(ToSet(answer) \cap F), Cardinality(ToSet(answer)) - Cardinality(ToSet(answer) \cap F))
        BY <3>1, <3>2 DEF FindMistakes
      <3>6. NoLess(s, t)
        BY <1>3, <2>2, <2>3, <3>3, <3>4, <3>5, ShareOfMore
      <3> QED BY <1>1, <3>6 DEF NoLess, MoreIsNoLess
    <2>5. CASE content.type = "content_review"
      <3>1. s = ContentReview(content, b) /\ t = ContentReview(content, answer)
        BY <1>1, <1>8, <2>5, ScoreIs
      <3>2. PICK F : F = {content.items[e].from : e \in DOMAIN content.items}
        OBVIOUS
      <3>3. IsFiniteSet(F) /\ Cardinality(F) <= Len(content.items)
        BY <2>2, <2>3, <3>2, WordsCapped
      <3>4. s = Share(content, Cardinality(ToSet(b) \cap F), Cardinality(ToSet(b)) - Cardinality(ToSet(b) \cap F))
        BY <3>1, <3>2 DEF ContentReview
      <3>5. t = Share(content, Cardinality(ToSet(answer) \cap F), Cardinality(ToSet(answer)) - Cardinality(ToSet(answer) \cap F))
        BY <3>1, <3>2 DEF ContentReview
      <3>6. NoLess(s, t)
        BY <1>3, <2>2, <2>3, <3>3, <3>4, <3>5, ShareOfMore
      <3> QED BY <1>1, <3>6 DEF NoLess, MoreIsNoLess
    <2>6. CASE content.type = "hotspot"
      <3>1. s = Hotspot(content, b) /\ t = Hotspot(content, answer)
        BY <1>1, <1>8, <2>6, ScoreIs
      <3>2. NoLess(Hotspot(content, b), Hotspot(content, answer))
        BY <1>3, <2>2, <2>3, HotspotMore
      <3>6. NoLess(s, t)
        BY <3>1, <3>2
      <3> QED BY <1>1, <3>6 DEF NoLess, MoreIsNoLess
    <2>7. CASE content.type = "video_review"
      <3>1. s = VideoReview(content, b) /\ t = VideoReview(content, answer)
        BY <1>1, <1>8, <2>7, ScoreIs
      <3>2. Cardinality(Claims(content, b).found) <= Cardinality(Claims(content, answer).found)
        BY <1>3, <2>2, <2>3, VideoMore
      <3>3. VideoReview(content, b).found = Cardinality(Claims(content, b).found)
        BY <2>2, <2>3, VideoCapped
      <3>4. VideoReview(content, answer).found = Cardinality(Claims(content, answer).found)
        BY <2>2, <2>3, VideoCapped
      <3>5. Goal
        BY <1>4, <2>7, <3>1, <3>2, <3>3, <3>4
      <3> QED BY <1>1, <3>5 DEF MoreIsNoLess
    <2> QED BY <1>8, <2>4, <2>5, <2>6, <2>7
  <1> QED BY <1>6, <1>7, <1>8, TypeCases

-----------------------------------------------------------------------------
(* The answer the key asks for solves the question.                        *)
Solved(q, k) == k # <<>> /\ Solves(q, Score(q, k))

LEMMA ItemsSolved ==
  ASSUME Core, stage # "form", NEW k, k = KeyAnswer, content.type = "find_mistakes"
  PROVE  Solved(content, k)
  <1>1. CASE content.mode = "typed"
    <2>1. PICK F : F = IdsOf(content.items)
      OBVIOUS
    <2>2. k = <<F>>
      BY <1>1, <2>1 DEF KeyAnswer
    <2>3. k \in Seq(SUBSET F) /\ k # <<>> /\ k[1] = F
      BY <2>2
    <2>4. Solves(content, FindMistakes(content, k))
      BY <1>1, <2>1, <2>3, PaperFacts, TypedCapped
    <2> QED BY <2>3, <2>4, ScoreIs DEF Solved
  <1>2. CASE content.mode # "typed"
    <2>1. k = InOrder(content.items)
      BY <1>2 DEF KeyAnswer
    <2>2. content.items \in Items /\ content.items # <<>>
      BY PaperFacts
    <2>3. k \in Seq(Nat) /\ Len(k) = Len(content.items) /\ ToSet(k) = IdsOf(content.items)
      BY <2>1, <2>2, InOrderFacts
    <2>4. k # <<>>
      BY <2>2, <2>3, ItemFacts
    <2>5. Solves(content, FindMistakes(content, k))
      BY <1>2, <2>3, PaperFacts, MistakesCapped
    <2> QED BY <2>4, <2>5, ScoreIs DEF Solved
  <1> QED BY <1>1, <1>2

LEMMA PlacesSolved ==
  ASSUME Core, stage # "form", NEW k, k = KeyAnswer, content.type \in {"hotspot", "video_review"}
  PROVE  Solved(content, k)
  <1>1. k = [i \in DOMAIN content.items |-> content.items[i].to]
    BY DEF KeyAnswer
  <1>2. content.items \in Items /\ content.items # <<>>
    BY PaperFacts
  <1>3. PICK n \in Nat \ {0} : n = Len(content.items) /\ DOMAIN content.items = 1..n
    BY <1>2, ItemFacts
  <1>4. ASSUME NEW i \in 1..n PROVE content.items[i].to \in Nat
    BY <1>2, <1>3, ItemFacts DEF AnItem
  <1>5. PICK a : a = [i \in 1..n |-> content.items[i].to]
    OBVIOUS
  <1>6. a \in Seq(Nat) /\ Len(a) = n /\ (\A i \in 1..n : a[i] = content.items[i].to)
    BY <1>4, <1>5
  <1>7. k = a
    BY <1>1, <1>3, <1>5
  <1>8. k \in Seq(Nat) /\ Len(k) = Len(content.items) /\ k # <<>>
        /\ \A i \in 1..Len(content.items) : k[i] = content.items[i].to
    BY <1>3, <1>6, <1>7
  <1>9. CASE content.type = "hotspot"
    <2>1. Solves(content, Hotspot(content, k))
      BY <1>8, <1>9, PaperFacts, HotspotSolved
    <2> QED BY <1>8, <1>9, <2>1, ScoreIs DEF Solved
  <1>10. CASE content.type = "video_review"
    <2>1. Solves(content, VideoReview(content, k))
      BY <1>8, <1>10, PaperFacts, VideoSolved
    <2> QED BY <1>8, <1>10, <2>1, ScoreIs DEF Solved
  <1> QED BY <1>9, <1>10

LEMMA WordsSolved ==
  ASSUME Core, stage # "form", NEW k, k = KeyAnswer, content.type = "content_review"
  PROVE  Solved(content, k)
  <1>1. k = [i \in DOMAIN content.items |-> content.items[i].from]
    BY PaperFacts DEF KeyAnswer
  <1>2. content.items \in Items /\ content.items # <<>> /\ Differ(content.items)
        /\ \A x \in ToSet(content.items) : x.id = x.from
    BY PaperFacts
  <1>3. PICK n \in Nat \ {0} : n = Len(content.items) /\ DOMAIN content.items = 1..n
    BY <1>2, ItemFacts
  <1>4. ASSUME NEW i \in 1..n
        PROVE  content.items[i].from \in Nat /\ content.items[i].id = content.items[i].from
    <2>1. content.items[i] \in AnItem /\ content.items[i] \in ToSet(content.items)
      BY <1>2, <1>3, ItemFacts
    <2> QED BY <1>2, <2>1 DEF AnItem
  <1>5. PICK a : a = [i \in 1..n |-> content.items[i].from]
    OBVIOUS
  <1>6. a \in Seq(Nat) /\ Len(a) = n /\ (\A i \in 1..n : a[i] = content.items[i].from)
        /\ DOMAIN a = 1..n
    BY <1>4, <1>5
  <1>7. k = a
    BY <1>1, <1>3, <1>5
  <1>8. PICK F : F = {content.items[e].from : e \in DOMAIN content.items}
    OBVIOUS
  <1>9. ToSet(k) = F
    BY <1>3, <1>6, <1>7, <1>8 DEF ToSet
  <1>10. \A i, j \in 1..Len(content.items) : content.items[i].from = content.items[j].from => i = j
    BY <1>2, <1>3, <1>4 DEF Differ
  <1>11. Solves(content, ContentReview(content, k))
    BY <1>2, <1>6, <1>7, <1>8, <1>9, <1>10, PaperFacts, WordsCapped
  <1>12. k # <<>>
    BY <1>3, <1>6, <1>7
  <1> QED BY <1>11, <1>12, ScoreIs DEF Solved

LEMMA KeySolved ==
  ASSUME Core, stage # "form", NEW k, k = KeyAnswer,
         content.type \in {"mcq", "true_false", "image_comparison", "drag_drop"}
  PROVE  Solved(content, k)
  <1>1. k = content.key /\ k # <<>>
    BY PaperFacts DEF KeyAnswer
  <1>2. CASE content.type = "mcq"
    <2>1. Keys(content.type, content.mode) = Nat
      BY <1>2, ContentFacts, ModeOfType
    <2>2. k \in Seq(Nat) /\ content.key \in Seq(Nat)
      BY <1>1, <2>1, ContentFacts
    <2>3. Solves(content, Mcq(content, k))
      BY <1>1, <1>2, <2>2, PaperFacts, McqCapped
    <2> QED BY <1>1, <1>2, <2>3, ScoreIs DEF Solved
  <1>3. CASE content.type \in {"true_false", "image_comparison"}
    <2>1. Solves(content, OneRight(content, k))
      BY <1>1, PaperFacts, OneRightCapped
    <2> QED BY <1>1, <1>3, <2>1, ScoreIs DEF Solved
  <1>4. CASE content.type = "drag_drop" /\ content.mode = "sequence"
    <2>1. Keys(content.type, content.mode) = Nat
      BY <1>4, ContentFacts, ModeOfType
    <2>2. k \in Seq(Nat) /\ content.key \in Seq(Nat)
      BY <1>1, <2>1, ContentFacts
    <2>3. Solves(content, DragDrop(content, k))
      BY <1>1, <1>4, <2>2, PaperFacts, SequenceCapped
    <2> QED BY <1>1, <1>4, <2>3, ScoreIs DEF Solved
  <1>5. CASE content.type = "drag_drop" /\ content.mode = "match"
    <2>1. content.items \in Items /\ content.others \in Items /\ Differ(content.items)
          /\ Len(content.others) = Len(content.items) /\ k = Pairs(content.items, content.others)
      BY <1>1, <1>5, MatchFacts, ContentFacts, PaperFacts
    <2>2. PICK n \in Nat : n = Len(content.items) /\ DOMAIN content.items = 1..n
      BY <2>1, ItemFacts
    <2>3. /\ k \in Seq(TwoIds) /\ Len(k) = n
          /\ \A i \in 1..n : k[i] = Both(content.items[i], content.others[i])
      BY <2>1, <2>2, PairsFacts
    <2>4. ASSUME NEW i \in 1..n PROVE k[i][1] = content.items[i].id
      BY <2>3 DEF Both
    <2>5. \A i, j \in 1..Len(content.key) : content.key[i][1] = content.key[j][1] => i = j
      BY <1>1, <2>1, <2>2, <2>3, <2>4 DEF Differ
    <2>6. Solves(content, DragDrop(content, k))
      BY <1>1, <1>5, <2>3, <2>5, PaperFacts, MatchCapped
    <2> QED BY <1>1, <1>5, <2>6, ScoreIs DEF Solved
  <1> QED BY <1>2, <1>3, <1>4, <1>5, ContentFacts, ModeOfType

LEMMA SolvableKept == Core => Solvable
  <1> SUFFICES ASSUME Core, stage # "form" PROVE Solvable
    BY DEF Solvable
  <1>1. PICK k : k = KeyAnswer
    OBVIOUS
  <1>2. Solved(content, k)
    BY <1>1, TypeCases, ItemsSolved, PlacesSolved, WordsSolved, KeySolved
  <1> QED BY <1>1, <1>2 DEF Solved, Solves, Solvable

(* An accepted question can be solved, no answer earns less than nothing or *)
(* more than the marks, no moment is left beside a mistake it would settle, *)
(* and one claim more never undoes what was found.                          *)
THEOREM QuestionsInvariant == QuestionsSpec => []QuestionsInv
  <1>1. Core => QuestionsInv
    BY SolvableKept, MarksKept, Settled, NoLessKept DEF QuestionsInv, Core
  <1> QED BY <1>1, CoreInvariant, PTL
=============================================================================
