---------------------------- MODULE ClientProofs ----------------------------
(***************************************************************************)
(* Proofs about what the employee's browser holds, for any number of       *)
(* questions, tabs, calls and lost messages: the page that shows an        *)
(* attempt (Player), the refresh sessions (Sessions); and, from the proofs *)
(* about Attempts, the invariant of the rows that MCClient keeps beside    *)
(* them.                                                                   *)
(***************************************************************************)
EXTENDS MCClient, TLAPS

-----------------------------------------------------------------------------
(* The player.                                                             *)
LEMMA PlayerStart == PlayerInit => PlayerInv
  <1> SUFFICES ASSUME PlayerInit PROVE PlayerInv
    OBVIOUS
  <1>1. PlayerTypeOK
    <2>1. Nothing \in [Fields -> 0..MaxAnswers]
      BY PlayerAssumption DEF Nothing
    <2>2. 0 \in 0..MaxSwitches /\ 0 \in 0..MaxLosses
      BY PlayerAssumption
    <2>3. replies \in [BOOLEAN -> Nat]
      BY DEF PlayerInit
    <2>4. {open, submitting, summary, sealed, unaware} \subseteq BOOLEAN
      BY Zenon DEF PlayerInit
    <2>5. /\ {shown, typed, timer, stored, scored} \subseteq [Fields -> 0..MaxAnswers]
          /\ kept \subseteq [Fields -> 0..MaxAnswers]
      BY <2>1, Zenon DEF PlayerInit
    <2> QED BY <2>1, <2>2, <2>3, <2>4, <2>5 DEF PlayerInit, PlayerTypeOK
  <1>2. \A q \in Fields : Followed(q)
    BY DEF PlayerInit, Followed, Unsaved, Nothing
  <1>3. AnswersAgree
    BY DEF PlayerInit, AnswersAgree
  <1> QED BY <1>1, <1>2, <1>3 DEF PlayerInit, PlayerInv

(* What is scored, or stored when nothing is on its way, is the last       *)
(* answer given.                                                           *)
LEMMA FollowedAgree ==
  ASSUME \A q \in Fields \ excused : Followed(q)
  PROVE  AnswersAgree
  BY DEF Followed, AnswersAgree

LEMMA RepliesCount ==
  ASSUME replies \in [BOOLEAN -> Nat], NEW ok \in BOOLEAN, NEW n \in Nat
  PROVE  /\ [replies EXCEPT ![ok] = n] \in [BOOLEAN -> Nat]
         /\ replies[ok] \in Nat
  OBVIOUS

LEMMA DoneTyped ==
  ASSUME NEW ok \in BOOLEAN, summary \in BOOLEAN, Done(ok)
  PROVE  summary' \in BOOLEAN /\ submitting' \in BOOLEAN
  BY Zenon DEF Done

LEMMA PlayerTyped == ASSUME PlayerTypeOK, PlayerNext PROVE PlayerTypeOK'
  <1> USE PlayerAssumption
  <1>0. /\ open \in BOOLEAN /\ submitting \in BOOLEAN /\ summary \in BOOLEAN
        /\ sealed \in BOOLEAN /\ unaware \in BOOLEAN
        /\ shown \in [Fields -> 0..MaxAnswers] /\ typed \in [Fields -> 0..MaxAnswers]
        /\ timer \in [Fields -> 0..MaxAnswers] /\ stored \in [Fields -> 0..MaxAnswers]
        /\ scored \in [Fields -> 0..MaxAnswers] /\ Nothing \in [Fields -> 0..MaxAnswers]
        /\ kept \subseteq [Fields -> 0..MaxAnswers]
        /\ switches \in 0..MaxSwitches /\ losses \in 0..MaxLosses
        /\ saves \subseteq Save /\ submits \in Nat /\ replies \in [BOOLEAN -> Nat]
        /\ clock \in {"running", "zero", "over"}
        /\ excused \subseteq Fields /\ stale \subseteq Fields
        /\ Unsaved \subseteq Fields
    BY DEF PlayerTypeOK, Nothing, Unsaved
  <1>1. ASSUME NEW q \in Fields, Type(q) PROVE PlayerTypeOK'
    <2>1. PICK a \in 0..MaxAnswers : a = typed[q] + 1
      BY <1>0, <1>1 DEF Type
    <2>2. typed' = [typed EXCEPT ![q] = a]
      BY <1>1, <2>1 DEF Type
    <2>3. typed'[q] = a
      BY <1>0, <2>2
    <2>4. shown' = [shown EXCEPT ![q] = a] /\ timer' = [timer EXCEPT ![q] = a]
      BY <1>1, <2>3 DEF Type, Restart
    <2>5. excused' \subseteq Fields /\ stale' \subseteq Fields
      BY <1>0, <1>1 DEF Type
    <2> QED
      BY <1>0, <1>1, <2>2, <2>4, <2>5 DEF Type, PlayerTypeOK, network, attemptRow
  <1>2. ASSUME NEW q \in Fields, SendSave(q) PROVE PlayerTypeOK'
    <2>1. [question |-> q, answer |-> timer[q]] \in Save
      BY <1>0, <1>2 DEF SendSave, Save
    <2>2. timer' \in [Fields -> 0..MaxAnswers] /\ saves' \subseteq Save /\ excused' \subseteq Fields
      BY <1>0, <1>2, <2>1 DEF SendSave
    <2> QED BY <1>0, <1>2, <2>2 DEF SendSave, PlayerTypeOK, attemptRow
  <1>3. ASSUME Submit, switches' \in 0..MaxSwitches PROVE PlayerTypeOK'
    BY <1>0, <1>3 DEF Submit, PlayerTypeOK, attemptRow
  <1>4. CASE Click \/ TickSubmit
    BY <1>0, <1>3, <1>4 DEF Click, TickSubmit
  <1>5. CASE SwitchTab
    <2>1. switches' \in 0..MaxSwitches
      BY <1>0, <1>5 DEF SwitchTab
    <2>2. CASE Submit
      BY <1>3, <2>1, <2>2
    <2>3. CASE ~Submit
      <3>1. UNCHANGED <<open, shown, kept, typed, timer, submitting, summary, network,
                        clock, attemptRow, past>>
        BY <1>5, <2>3, Zenon DEF SwitchTab
      <3> QED BY <1>0, <2>1, <3>1 DEF PlayerTypeOK, network, attemptRow, past
    <2> QED BY <2>2, <2>3
  <1>6. ASSUME NEW ok \in BOOLEAN, Reply(ok) PROVE PlayerTypeOK'
    <2>1. summary' \in BOOLEAN /\ submitting' \in BOOLEAN
      BY <1>0, <1>6, DoneTyped DEF Reply
    <2>2. PICK n \in Nat : n = replies[ok]
      BY <1>0, RepliesCount
    <2>3. n > 0 /\ replies' = [replies EXCEPT ![ok] = n - 1]
      BY <1>6, <2>2 DEF Reply
    <2>4. n - 1 \in Nat
      BY <2>3
    <2>5. replies' \in [BOOLEAN -> Nat]
      BY <1>0, <2>3, <2>4, RepliesCount
    <2> QED BY <2>5, <1>0, <1>6, <2>1 DEF Reply, PlayerTypeOK, attemptRow, past
  <1>7. ASSUME Gone, saves' \subseteq Save, excused' \subseteq Fields PROVE PlayerTypeOK'
    <2>1. losses' \in 0..MaxLosses /\ replies' \in [BOOLEAN -> Nat] /\ unaware' \in BOOLEAN
      BY <1>0, <1>7 DEF Gone
    <2>2. /\ open' = FALSE /\ timer' = Nothing /\ submitting' = FALSE /\ summary' = FALSE
          /\ switches' = 0
          /\ UNCHANGED <<shown, kept, typed, submits, clock, attemptRow, stale>>
      BY <1>7, Zenon DEF Gone
    <2>3. {open, submitting, summary, sealed, unaware}' \subseteq BOOLEAN
      BY <1>0, <2>1, <2>2 DEF attemptRow
    <2>4. switches' \in 0..MaxSwitches
      BY <2>2
    <2>5. /\ {shown, typed, timer, stored, scored}' \subseteq [Fields -> 0..MaxAnswers]
          /\ kept' \subseteq [Fields -> 0..MaxAnswers]
      BY <1>0, <2>2 DEF attemptRow
    <2> QED BY <1>0, <1>7, <2>1, <2>2, <2>3, <2>4, <2>5, Zenon DEF PlayerTypeOK
  <1>8. CASE Close
    BY <1>0, <1>7, <1>8 DEF Close
  <1>15. CASE Leave
    <2>1. \A q \in Fields : timer[q] # 0 => [question |-> q, answer |-> timer[q]] \in Save
      BY <1>0 DEF Save
    <2>2. saves' \subseteq Save /\ excused' \subseteq Fields
      BY <1>0, <1>15, <2>1 DEF Leave
    <2> QED BY <1>7, <1>15, <2>2 DEF Leave
  <1>16. ASSUME NEW states \in SUBSET [Fields -> 0..MaxAnswers], Reopen(states)
         PROVE  PlayerTypeOK'
    <2>1. /\ sealed' \in BOOLEAN /\ unaware' \in BOOLEAN /\ open' \in BOOLEAN
          /\ scored' \in [Fields -> 0..MaxAnswers] /\ shown' \in [Fields -> 0..MaxAnswers]
          /\ kept' \subseteq [Fields -> 0..MaxAnswers] /\ stored' = stored
          /\ excused' \subseteq Fields /\ stale' \subseteq Fields
      BY <1>0, <1>16 DEF Reopen, Seal, attemptRow
    <2>2. UNCHANGED <<typed, timer, submitting, summary, switches, network, clock, losses>>
      BY <1>16, Zenon DEF Reopen
    <2> QED BY <1>0, <2>1, <2>2 DEF PlayerTypeOK, network
  <1>17. CASE Resume \/ StartAgain
    BY <1>0, <1>16, <1>17 DEF Resume, StartAgain
  <1>18. ASSUME NEW answers \in kept, FromHistory(answers) PROVE PlayerTypeOK'
    <2>1. open' \in BOOLEAN /\ shown' \in [Fields -> 0..MaxAnswers] /\ stale' \subseteq Fields
      BY <1>0, <1>18 DEF FromHistory
    <2>2. UNCHANGED <<kept, typed, timer, submitting, summary, switches, network, clock,
                      attemptRow, losses, excused, unaware>>
      BY <1>18, Zenon DEF FromHistory
    <2> QED BY <1>0, <2>1, <2>2 DEF PlayerTypeOK, network, attemptRow
  <1>9. ASSUME NEW s \in saves, ReceiveSave(s) PROVE PlayerTypeOK'
    <2>1. s.question \in Fields /\ s.answer \in 0..MaxAnswers
      BY <1>0 DEF Save
    <2>2. /\ stored' \in [Fields -> 0..MaxAnswers] /\ scored' \in [Fields -> 0..MaxAnswers]
          /\ sealed' \in BOOLEAN /\ unaware' \in BOOLEAN /\ excused' \subseteq Fields
      BY <1>0, <1>9, <2>1 DEF ReceiveSave, Seal, attemptRow
    <2> QED BY <1>0, <1>9, <2>2 DEF ReceiveSave, PlayerTypeOK, playerPage
  <1>10. CASE ReceiveSubmit
    <2>1. replies' \in [BOOLEAN -> Nat] /\ submits' \in Nat
      <3>1. PICK ok \in BOOLEAN : ok = ~sealed
        BY Zenon
      <3>2. PICK n \in Nat : n = replies[ok]
        BY <1>0, RepliesCount
      <3>3. PICK m \in Nat : m = IF open THEN n + 1 ELSE n
        BY <3>2
      <3>4. replies' = [replies EXCEPT ![ok] = m]
        BY <1>10, <3>1, <3>2, <3>3 DEF ReceiveSubmit
      <3>5. submits' \in Nat
        BY <1>0, <1>10 DEF ReceiveSubmit
      <3>6. replies' \in [BOOLEAN -> Nat]
        BY <1>0, <3>4, RepliesCount, Zenon
      <3> QED BY <3>5, <3>6
    <2>2. /\ stored' \in [Fields -> 0..MaxAnswers] /\ scored' \in [Fields -> 0..MaxAnswers]
          /\ sealed' \in BOOLEAN
      BY <1>0, <1>10 DEF ReceiveSubmit, Seal, attemptRow
    <2>3. UNCHANGED <<playerPage, saves, clock, past>>
      BY <1>10, Zenon DEF ReceiveSubmit
    <2> QED BY <1>0, <2>1, <2>2, <2>3 DEF PlayerTypeOK, playerPage, past
  <1>11. CASE SealElsewhere
    BY <1>0, <1>11 DEF SealElsewhere, Seal, PlayerTypeOK, playerPage, network
  <1>12. ASSUME NEW s \in saves, LoseSave(s) PROVE PlayerTypeOK'
    <2>1. s.question \in Fields /\ losses' \in 0..MaxLosses
      BY <1>0, <1>12 DEF Save, LoseSave
    <2> QED BY <1>0, <1>12, <2>1 DEF LoseSave, PlayerTypeOK, playerPage, attemptRow
  <1>13. CASE LoseSubmit
    <2>1. losses' \in 0..MaxLosses
      BY <1>0, <1>13 DEF LoseSubmit
    <2>3. summary' \in BOOLEAN /\ submitting' \in BOOLEAN
      BY <1>0, <1>13, DoneTyped DEF LoseSubmit
    <2>2. replies' \in [BOOLEAN -> Nat] /\ submits' \in Nat /\ unaware' \in BOOLEAN
      <3>1. CASE submits > 0 /\ submits' = submits - 1 /\ UNCHANGED <<replies, unaware>>
        BY <1>0, <3>1
      <3>2. CASE /\ replies[TRUE] > 0 /\ replies' = [replies EXCEPT ![TRUE] = @ - 1]
                 /\ unaware' = TRUE /\ UNCHANGED submits
        <4>1. PICK n \in Nat : n = replies[TRUE]
          BY <1>0, RepliesCount
        <4>2. n > 0 /\ replies' = [replies EXCEPT ![TRUE] = n - 1]
          BY <3>2, <4>1, Zenon
        <4>3. n - 1 \in Nat
          BY <4>2
        <4>4. replies' \in [BOOLEAN -> Nat]
          BY <1>0, <4>2, <4>3, RepliesCount, Zenon
        <4> QED BY <1>0, <3>2, <4>4
      <3> QED BY <1>13, <3>1, <3>2 DEF LoseSubmit
    <2>4. UNCHANGED <<open, shown, kept, typed, timer, switches, saves, clock, attemptRow,
                      excused, stale>>
      BY <1>13, Zenon DEF LoseSubmit
    <2> QED BY <1>0, <2>1, <2>2, <2>3, <2>4 DEF PlayerTypeOK, attemptRow
  <1>14. CASE TimePasses
    BY <1>0, <1>14 DEF TimePasses, PlayerTypeOK, playerPage, network, attemptRow, past
  <1> QED
    BY <1>1, <1>2, <1>4, <1>5, <1>6, <1>7, <1>8, <1>9, <1>10, <1>11, <1>12, <1>13, <1>14,
       <1>15, <1>17, <1>18
    DEF PlayerNext, Server, Replies

(* A step that leaves a question's answer where it is, wherever it is, and *)
(* submits nothing that is still unsaved.                                  *)
LEMMA FollowedFrame ==
  ASSUME NEW q \in Fields, Followed(q), UNCHANGED sealed,
         open' /\ q \notin stale' => open /\ q \notin stale,
         shown'[q] = shown[q], typed'[q] = typed[q], timer'[q] = timer[q],
         stored'[q] = stored[q], scored'[q] = scored[q],
         \A s : s.question = q => (s \in saves' <=> s \in saves),
         submits' > 0 => submits > 0 \/ q \notin Unsaved
  PROVE  Followed(q)'
  <1>1. q \in Unsaved' <=> q \in Unsaved
    BY DEF Unsaved
  <1>2. \A r, s \in saves' : r.question = q /\ s.question = q => r = s
    BY DEF Followed
  <1>3. /\ timer[q] # 0 => timer'[q] = typed'[q]
        /\ timer[q] = 0 => \A s \in saves' : s.question = q => s.answer = typed'[q]
        /\ ~sealed /\ q \notin Unsaved => stored'[q] = typed'[q]
        /\ sealed => scored'[q] = typed'[q]
    BY DEF Followed
  <1>4. open' /\ q \notin stale' => shown'[q] = typed'[q]
    BY DEF Followed
  <1>5. submits' > 0 \/ sealed => q \notin Unsaved
    BY Zenon DEF Followed
  <1> QED BY <1>1, <1>2, <1>3, <1>4, <1>5, Zenon DEF Followed

(* Sealing scores what is stored, which is the last answer given when      *)
(* nothing is on its way.                                                  *)
LEMMA SealFollows ==
  ASSUME NEW q \in Fields, Followed(q), q \notin Unsaved, ~sealed, Seal,
         UNCHANGED <<open, shown, typed, timer, stale>>, saves' \subseteq saves
  PROVE  Followed(q)'
  <1>1. q \notin Unsaved' /\ timer'[q] = 0 /\ \A s \in saves' : s.question # q
    BY DEF Unsaved
  <1>2. scored'[q] = typed'[q]
    BY DEF Followed, Seal
  <1>3. sealed' /\ (open' /\ q \notin stale' => shown'[q] = typed'[q])
    BY DEF Seal, Followed
  <1> QED BY <1>1, <1>2, <1>3, Zenon DEF Followed

LEMMA TypeFollows ==
  ASSUME PlayerTypeOK, NEW p \in Fields, NEW q \in Fields \ excused', Followed(q), Type(p)
  PROVE  Followed(q)'
  <1>0. UNCHANGED <<open, sealed, stored, scored, saves, submits>>
    BY DEF Type, network, attemptRow
  <1>1. CASE p # q
    <2>1. shown'[q] = shown[q] /\ typed'[q] = typed[q] /\ timer'[q] = timer[q]
      BY <1>1 DEF Type, Restart, PlayerTypeOK
    <2>2. q \notin stale' => q \notin stale
      BY <1>1 DEF Type
    <2> QED BY <1>0, <2>1, <2>2, FollowedFrame
  <1>2. CASE p = q
    <2>1. ~sealed /\ ~(submits > 0)
      BY <1>2, Zenon DEF Type
    <2>2. PICK a : a = typed'[q]
      OBVIOUS
    <2>3. shown' = [shown EXCEPT ![q] = a] /\ timer' = [timer EXCEPT ![q] = a]
      BY <1>2, <2>2 DEF Type, Restart
    <2>4. shown'[q] = a /\ timer'[q] = a
      BY <2>3 DEF PlayerTypeOK
    <2>5. a # 0
      <3>1. typed[q] \in Nat /\ a = typed[q] + 1
        BY <1>2, <2>2, PlayerAssumption DEF Type, PlayerTypeOK
      <3> QED BY <3>1
    <2>6. q \in Unsaved'
      BY <2>4, <2>5 DEF Unsaved
    <2>7. \A r, s \in saves' : r.question = q /\ s.question = q => r = s
      BY <1>0 DEF Followed
    <2>8. ~sealed' /\ ~(submits' > 0)
      BY <1>0, <2>1
    <2> QED BY <2>2, <2>4, <2>5, <2>6, <2>7, <2>8, Zenon DEF Followed
  <1> QED BY <1>1, <1>2

(* The pause of a question is over, on the page or after it was left, with *)
(* no save of it under way.                                                *)
LEMMA SentFollows ==
  ASSUME NEW q \in Fields, Followed(q), timer[q] # 0, \A s \in saves : s.question # q,
         [question |-> q, answer |-> timer[q]] \in saves',
         \A s \in saves' : s.question = q =>
            s \in saves \/ s = [question |-> q, answer |-> timer[q]],
         timer'[q] = 0, UNCHANGED <<shown, typed, sealed, stored, submits>>,
         open' /\ q \notin stale' => open /\ q \notin stale
  PROVE  Followed(q)'
  <1>1. q \in Unsaved
    BY DEF Unsaved
  <1>2. ~(submits' > 0) /\ ~sealed'
    BY <1>1, Zenon DEF Followed
  <1>3. \A s \in saves' : s.question = q => s = [question |-> q, answer |-> timer[q]]
    OBVIOUS
  <1>4. \A r, s \in saves' : r.question = q /\ s.question = q => r = s
    BY <1>3
  <1>5. timer[q] = typed'[q]
    BY DEF Followed
  <1>6. \A s \in saves' : s.question = q => s.answer = typed'[q]
    BY <1>3, <1>5
  <1>7. q \in Unsaved'
    BY DEF Unsaved
  <1>8. open' /\ q \notin stale' => shown'[q] = typed'[q]
    BY DEF Followed
  <1> QED BY <1>2, <1>4, <1>6, <1>7, <1>8, Zenon DEF Followed

LEMMA SendFollows ==
  ASSUME PlayerTypeOK, NEW p \in Fields, NEW q \in Fields \ excused', Followed(q),
         SendSave(p)
  PROVE  Followed(q)'
  <1>1. UNCHANGED <<open, stale, sealed, stored, scored, shown, typed, submits>>
    BY DEF SendSave, attemptRow
  <1>2. CASE p # q
    <2>1. timer'[q] = timer[q]
      BY <1>2 DEF SendSave, PlayerTypeOK
    <2>2. \A s : s.question = q => (s \in saves' <=> s \in saves)
      BY <1>2 DEF SendSave
    <2> QED BY <1>1, <2>1, <2>2, FollowedFrame
  <1>3. CASE p = q
    <2>1. \A s \in saves : s.question # q
      BY <1>3, Zenon DEF SendSave
    <2>2. saves' = saves \cup {[question |-> q, answer |-> timer[q]]} /\ timer'[q] = 0
      BY <1>3 DEF SendSave, PlayerTypeOK
    <2>3. timer[q] # 0
      BY <1>3 DEF SendSave
    <2> QED BY <1>1, <2>1, <2>2, <2>3, SentFollows
  <1> QED BY <1>2, <1>3

LEMMA SubmitFollows ==
  ASSUME NEW q \in Fields \ excused', Followed(q), Submit
  PROVE  Followed(q)'
  <1>1. q \notin Unsaved
    BY Zenon DEF Submit
  <1>2. UNCHANGED <<open, stale, shown, typed, timer, sealed, stored, scored, saves>>
    BY DEF Submit, attemptRow
  <1> QED BY <1>1, <1>2, FollowedFrame

(* A page that is closed loses its pauses; one that is left sends them.    *)
LEMMA GoneFollows ==
  ASSUME PlayerTypeOK, NEW q \in Fields \ excused', Followed(q), Close \/ Leave
  PROVE  Followed(q)'
  <1>1. Gone
    BY DEF Close, Leave
  <1>2. /\ ~open' /\ timer'[q] = 0
        /\ UNCHANGED <<shown, typed, submits, sealed, stored, scored>>
    BY <1>1 DEF Gone, Nothing, attemptRow
  <1>3. CASE timer[q] = 0
    <2>1. \A s : s.question = q => (s \in saves' <=> s \in saves)
      BY <1>3 DEF Close, Leave
    <2> QED BY <1>2, <1>3, <2>1, FollowedFrame
  <1>4. CASE timer[q] # 0
    <2>1. Leave
      BY <1>4 DEF Close
    <2>2. \A s \in saves : s.question # q
      BY <1>4, <2>1, Zenon DEF Leave
    <2>3. saves' = saves \cup {[question |-> p, answer |-> timer[p]] :
                               p \in {f \in Fields : timer[f] # 0}}
      BY <2>1, Zenon DEF Leave
    <2>4. [question |-> q, answer |-> timer[q]] \in saves'
      BY <1>4, <2>3
    <2>5. ASSUME NEW s \in saves', s.question = q
          PROVE  s \in saves \/ s = [question |-> q, answer |-> timer[q]]
      BY <2>3, <2>5
    <2> QED BY <1>2, <1>4, <2>2, <2>4, <2>5, SentFollows
  <1> QED BY <1>3, <1>4

LEMMA ReopenFollows ==
  ASSUME NEW q \in Fields \ excused', Followed(q), NEW states, Reopen(states)
  PROVE  Followed(q)'
  <1>1. UNCHANGED <<typed, timer, saves, submits>> /\ ~open /\ ~sealed
    BY DEF Reopen, network
  <1>2. CASE clock = "over"
    <2>1. Seal /\ UNCHANGED <<open, shown, stale>> /\ q \notin Unsaved
      BY <1>2, Zenon DEF Reopen
    <2> QED BY <1>1, <2>1, SealFollows
  <1>3. CASE clock # "over"
    <2>1. /\ shown' = stored /\ stale' = Unsaved
          /\ UNCHANGED <<sealed, stored, scored>>
      BY <1>3, Zenon DEF Reopen, attemptRow
    <2>2. Unsaved' = Unsaved
      BY <1>1 DEF Unsaved
    <2>3. q \notin stale' => shown'[q] = typed'[q]
      BY <1>1, <2>1 DEF Followed
    <2> QED BY <1>1, <2>1, <2>2, <2>3 DEF Followed
  <1> QED BY <1>2, <1>3

(* What the history kept of a start is the last answer given when it is    *)
(* what the server has stored, or scored, and nothing is on its way.       *)
LEMMA FromHistoryFollows ==
  ASSUME sealed => scored = stored, NEW q \in Fields, Followed(q),
         NEW answers, FromHistory(answers)
  PROVE  Followed(q)'
  <1>1. /\ shown' = answers
        /\ stale' = Unsaved \cup {p \in Fields : answers[p] # stored[p]}
        /\ UNCHANGED <<typed, timer, saves, submits, sealed, stored, scored>>
    BY DEF FromHistory, network, attemptRow
  <1>2. Unsaved' = Unsaved
    BY <1>1 DEF Unsaved
  <1>3. q \notin Unsaved => stored[q] = typed[q]
    BY DEF Followed
  <1>4. q \notin stale' => shown'[q] = typed'[q]
    BY <1>1, <1>3
  <1> QED BY <1>1, <1>2, <1>4 DEF Followed

LEMMA ReceiveSaveFollows ==
  ASSUME PlayerTypeOK, NEW s \in saves, NEW q \in Fields \ excused', Followed(q),
         ReceiveSave(s)
  PROVE  Followed(q)'
  <1>1. UNCHANGED <<open, stale, shown, typed, timer, submits>> /\ saves' = saves \ {s}
    BY DEF ReceiveSave, playerPage
  <1>2. CASE s.question # q
    <2>1. \A r : r.question = q => (r \in saves' <=> r \in saves)
      BY <1>1, <1>2
    <2>2. CASE Accepts
      <3>1. stored'[q] = stored[q] /\ UNCHANGED <<sealed, scored>>
        BY <1>2, <2>2 DEF ReceiveSave, PlayerTypeOK
      <3> QED BY <1>1, <2>1, <3>1, FollowedFrame
    <2>3. CASE ~Accepts /\ sealed
      <3>1. UNCHANGED <<sealed, stored, scored>>
        BY <2>3, Zenon DEF ReceiveSave, attemptRow
      <3> QED BY <1>1, <2>1, <3>1, FollowedFrame
    <2>4. CASE ~Accepts /\ ~sealed
      <3>1. Seal /\ q \notin Unsaved
        BY <2>4, Zenon DEF ReceiveSave
      <3> QED BY <1>1, <2>4, <3>1, SealFollows
    <2> QED BY <2>2, <2>3, <2>4
  <1>3. CASE s.question = q
    <2>1. q \in Unsaved
      BY <1>3 DEF Unsaved
    <2>2. ~(submits > 0) /\ ~sealed
      BY <2>1, Zenon DEF Followed
    <2>3. Accepts
      BY <2>1, <2>2, Zenon DEF ReceiveSave
    <2>4. stored' = [stored EXCEPT ![q] = s.answer] /\ UNCHANGED sealed
      BY <1>3, <2>3 DEF ReceiveSave
    <2>5. stored'[q] = s.answer
      BY <2>4 DEF PlayerTypeOK
    <2>6. \A r \in saves' : r.question # q
      BY <1>1, <1>3 DEF Followed
    <2>7. q \notin Unsaved' <=> timer'[q] = 0
      BY <2>6 DEF Unsaved
    <2>8. timer[q] = 0 => s.answer = typed[q]
      BY <1>3 DEF Followed
    <2>9. timer'[q] # 0 => timer'[q] = typed'[q]
      BY <1>1 DEF Followed
    <2>10. timer'[q] = 0 => stored'[q] = typed'[q]
      BY <1>1, <2>5, <2>8
    <2>11. ~sealed' /\ ~(submits' > 0)
      BY <1>1, <2>2, <2>4
    <2>12. open' /\ q \notin stale' => shown'[q] = typed'[q]
      BY <1>1 DEF Followed
    <2> QED BY <2>6, <2>7, <2>9, <2>10, <2>11, <2>12, Zenon DEF Followed
  <1> QED BY <1>2, <1>3

LEMMA ReceiveSubmitFollows ==
  ASSUME PlayerTypeOK, NEW q \in Fields, Followed(q), ReceiveSubmit
  PROVE  Followed(q)'
  <1>1. UNCHANGED <<open, stale, shown, typed, timer, saves>> /\ submits > 0
    BY DEF ReceiveSubmit, playerPage, past
  <1>2. q \notin Unsaved
    BY <1>1, Zenon DEF Followed
  <1>3. CASE sealed
    <2>1. UNCHANGED <<sealed, stored, scored>>
      BY <1>3, Zenon DEF ReceiveSubmit, attemptRow
    <2> QED BY <1>1, <1>2, <2>1, FollowedFrame
  <1>4. CASE ~sealed
    <2>1. Seal
      BY <1>4, Zenon DEF ReceiveSubmit
    <2> QED BY <1>1, <1>2, <1>4, <2>1, SealFollows
  <1> QED BY <1>3, <1>4

LEMMA LoseSaveFollows ==
  ASSUME NEW s \in saves, NEW q \in Fields \ excused', Followed(q), LoseSave(s)
  PROVE  Followed(q)'
  <1>1. s.question # q /\ saves' = saves \ {s}
    BY DEF LoseSave
  <1>2. \A r : r.question = q => (r \in saves' <=> r \in saves)
    BY <1>1
  <1>3. UNCHANGED <<open, stale, shown, typed, timer, sealed, stored, scored, submits>>
    BY DEF LoseSave, playerPage, attemptRow
  <1> QED BY <1>2, <1>3, FollowedFrame

LEMMA LoseSubmitFollows ==
  ASSUME PlayerTypeOK, NEW q \in Fields, Followed(q), LoseSubmit
  PROVE  Followed(q)'
  <1>1. UNCHANGED <<open, stale, shown, typed, timer, saves, sealed, stored, scored>>
    BY Zenon DEF LoseSubmit, attemptRow
  <1>2. submits' > 0 => submits > 0
    BY DEF LoseSubmit, PlayerTypeOK
  <1> QED BY <1>1, <1>2, FollowedFrame

(* Excuses are never taken back.                                           *)
LEMMA ExcusesGrow == PlayerNext => excused \subseteq excused'
  BY Zenon DEF PlayerNext, Type, SendSave, Click, TickSubmit, SwitchTab, Submit, Replies,
     Reply, Close, Leave, Resume, StartAgain, Reopen, FromHistory, Server, ReceiveSave,
     ReceiveSubmit, SealElsewhere, LoseSave, LoseSubmit, TimePasses, past

(* What was scored stays what is stored: a sealed attempt takes no answer. *)
LEMMA SealedStays ==
  ASSUME PlayerTypeOK, sealed => scored = stored, PlayerNext
  PROVE  (sealed => scored = stored)'
  <1>1. CASE Seal
    BY <1>1 DEF Seal
  <1>2. CASE UNCHANGED attemptRow
    BY <1>2 DEF attemptRow
  <1>3. CASE \E s \in saves : ReceiveSave(s) /\ Accepts
    BY <1>3, Zenon DEF ReceiveSave, Accepts
  <1>4. Seal \/ UNCHANGED attemptRow \/ \E s \in saves : ReceiveSave(s) /\ Accepts
    BY Zenon DEF PlayerNext, Type, SendSave, Click, TickSubmit, SwitchTab, Submit, Replies,
       Reply, Close, Leave, Gone, Resume, StartAgain, Reopen, FromHistory, Server, ReceiveSave,
       ReceiveSubmit, SealElsewhere, LoseSave, LoseSubmit, TimePasses
  <1> QED BY <1>1, <1>2, <1>3, <1>4

LEMMA PlayerKept == ASSUME PlayerInv, PlayerNext PROVE PlayerInv'
  <1>1. PlayerTypeOK /\ PlayerTypeOK' /\ (sealed => scored = stored)
    BY PlayerTyped DEF PlayerInv
  <1>2. (\A q \in Fields \ excused : Followed(q))'
    <2> SUFFICES ASSUME NEW q \in Fields \ excused' PROVE Followed(q)'
      OBVIOUS
    <2>1. q \in Fields /\ Followed(q)
      BY ExcusesGrow DEF PlayerInv
    <2>2. ASSUME UNCHANGED <<open, stale, shown, typed, timer, saves, submits, sealed,
                             stored, scored>>
          PROVE  Followed(q)'
      BY <2>1, <2>2, FollowedFrame
    <2>3. ASSUME NEW p \in Fields, Type(p) \/ SendSave(p) PROVE Followed(q)'
      BY <1>1, <2>1, <2>3, TypeFollows, SendFollows
    <2>4. CASE Click \/ TickSubmit
      BY <2>1, <2>4, SubmitFollows DEF Click, TickSubmit
    <2>5. CASE SwitchTab
      BY <2>1, <2>2, <2>5, SubmitFollows, Zenon DEF SwitchTab, network, attemptRow, past
    <2>6. CASE Replies \/ TimePasses
      BY <2>2, <2>6, Zenon DEF Replies, Reply, TimePasses, playerPage, network, attemptRow,
         past
    <2>7. CASE Close \/ Leave
      BY <1>1, <2>1, <2>7, GoneFollows
    <2>8. CASE Resume \/ StartAgain
      BY <2>1, <2>8, ReopenFollows DEF Resume, StartAgain
    <2>9. ASSUME NEW answers \in kept, FromHistory(answers) PROVE Followed(q)'
      BY <1>1, <2>1, <2>9, FromHistoryFollows
    <2>10. CASE Server
      BY <1>1, <2>1, <2>10, ReceiveSubmitFollows, ReceiveSaveFollows DEF Server
    <2>11. CASE SealElsewhere
      <3>1. Seal /\ ~sealed /\ q \notin Unsaved
        BY <2>11, Zenon DEF SealElsewhere
      <3>2. UNCHANGED <<open, stale, shown, typed, timer, saves>>
        BY <2>11, Zenon DEF SealElsewhere, playerPage, network
      <3> QED BY <2>1, <3>1, <3>2, SealFollows
    <2>12. ASSUME NEW s \in saves, LoseSave(s) PROVE Followed(q)'
      BY <2>1, <2>12, LoseSaveFollows
    <2>13. CASE LoseSubmit
      BY <1>1, <2>1, <2>13, LoseSubmitFollows
    <2> QED
      BY <2>3, <2>4, <2>5, <2>6, <2>7, <2>8, <2>9, <2>10, <2>11, <2>12, <2>13 DEF PlayerNext
  <1>3. (sealed => scored = stored)'
    BY <1>1, SealedStays
  <1>4. AnswersAgree'
    BY <1>2, FollowedAgree, PTL
  <1> QED BY <1>1, <1>2, <1>3, <1>4, Zenon DEF PlayerInv

(* AnswersAgree, for any number of questions, answers, losses and sittings: *)
(* the last answer given to a question is what the server has stored once  *)
(* its saves are over, and what it scores, also after the page was closed  *)
(* or left and opened again with older answers, unless a message or a      *)
(* pause was lost, two saves of one question raced, or the test was        *)
(* submitted with a save under way (Player.jsx, saveAnswer and doSubmit);  *)
(* and an open page shows it unless it was opened with an older one.       *)
THEOREM PlayerInvariant == PlayerSpec => []PlayerInv
  <1>1. PlayerInv /\ UNCHANGED playerVars => PlayerInv'
    <2> SUFFICES ASSUME PlayerInv, UNCHANGED playerVars PROVE PlayerInv'
      OBVIOUS
    <2> USE DEF playerVars, playerPage, network, attemptRow, past
    <2>1. PlayerTypeOK'
      BY DEF PlayerInv, PlayerTypeOK
    <2>2. AnswersAgree'
      BY DEF PlayerInv, AnswersAgree, Unsaved
    <2>3. (sealed => scored = stored)'
      BY DEF PlayerInv
    <2>4. \A q \in Fields \ excused' : Followed(q)'
      BY DEF PlayerInv, Followed, Unsaved
    <2> QED BY <2>1, <2>2, <2>3, <2>4 DEF PlayerInv
  <1> QED BY <1>1, PlayerStart, PlayerKept, PTL DEF PlayerSpec

-----------------------------------------------------------------------------
USE SessionsAssumption DEF SessionsAssumption

(* Sessions.  A session that ended stays so: only the type of row is       *)
(* needed, because a rotation asks again whether the session is live.      *)
RowsTyped == row \in [Rows -> {"none", "live", "ended"}]

LEMMA RowsStart == SessionsInit => RowsTyped
  BY DEF SessionsInit, RowsTyped

LEMMA RowStep ==
  ASSUME RowsTyped, SessionsNext
  PROVE  RowsTyped' /\ \A s \in Rows : row[s] = "ended" => row'[s] = "ended"
  <1>1. ASSUME UNCHANGED row
        PROVE  RowsTyped' /\ \A s \in Rows : row[s] = "ended" => row'[s] = "ended"
    BY <1>1 DEF RowsTyped
  <1>2. ASSUME NEW t \in Tabs, Loads(t) PROVE UNCHANGED row
    BY <1>2 DEF Loads, Load, server
  <1>3. ASSUME NEW t \in Tabs, Reload(t) \/ Expire(t) PROVE UNCHANGED row
    BY <1>3 DEF Reload, Expire, server
  <1>4. ASSUME NEW c \in Calls, Call(c) \/ CallStep(c) PROVE UNCHANGED row
    BY <1>4 DEF Call, CallStep, Served, GiveUp, Join, Refresh, server
  <1>5. ASSUME NEW r \in Refreshes, Lose(r) PROVE UNCHANGED row
    BY <1>5 DEF Lose, server
  <1>6. ASSUME NEW r \in Refreshes, RefreshStep(r)
        PROVE  RowsTyped' /\ \A s \in Rows : row[s] = "ended" => row'[s] = "ended"
    <2>1. CASE Rotate(r)
      BY <2>1 DEF Rotate, Rotatable, RowsTyped
    <2>2. CASE ~Rotate(r)
      BY <1>1, <1>6, <2>2 DEF RefreshStep, ReadSession, RotateConflict, Refreshed, Refuse, Drop,
                              server
    <2> QED BY <2>1, <2>2
  <1>7. ASSUME NEW t \in Tabs, NEW s \in Rows, LogIn(t, s)
        PROVE  RowsTyped' /\ \A u \in Rows : row[u] = "ended" => row'[u] = "ended"
    BY <1>7 DEF LogIn, RowsTyped
  <1>8. ASSUME NEW t \in Tabs, NEW fails \in BOOLEAN, LogOut(t, fails)
        PROVE  RowsTyped' /\ \A s \in Rows : row[s] = "ended" => row'[s] = "ended"
    BY <1>8 DEF LogOut, RowsTyped
  <1>9. ASSUME NEW s \in Rows, EndSession(s)
        PROVE  RowsTyped' /\ \A u \in Rows : row[u] = "ended" => row'[u] = "ended"
    BY <1>9 DEF EndSession, RowsTyped
  <1> QED
    BY <1>1, <1>2, <1>3, <1>4, <1>5, <1>6, <1>7, <1>8, <1>9 DEF SessionsNext, UserStep

LEMMA EndedKept ==
  RowsTyped /\ [SessionsNext]_sessionVars
      => RowsTyped' /\ [\A s \in Rows : row[s] = "ended" => row'[s] = "ended"]_sessionVars
  BY RowStep DEF sessionVars, server, RowsTyped

(* For any number of tabs, refreshes and sessions, no refresh that read a  *)
(* session while it was live brings it back once it has ended.             *)
THEOREM EndedSessionsStayEnded == SessionsSpec => EndedStaysEnded
  <1>1. SessionsInit => RowsTyped
    BY RowsStart
  <1>2. RowsTyped /\ [SessionsNext]_sessionVars
            => RowsTyped' /\ [\A s \in Rows : row[s] = "ended" => row'[s] = "ended"]_sessionVars
    BY EndedKept
  <1> QED BY <1>1, <1>2, PTL DEF SessionsSpec, EndedStaysEnded

(* The refreshes of a page and the calls that wait for one.                *)
PageOK(t) ==
    /\ page[t] = "loading" => ~refreshing[t]
    /\ Of(t) # {} => refreshing[t] \/ page[t] = "loading"
    /\ refreshing[t] => Of(t) # {}
    /\ \A q, r \in Of(t) : q = r
CallOK(c) ==
    /\ call[c].st = "queued" => refreshing[TabOf[c]]
    /\ page[TabOf[c]] = "loading" => call[c].st = "idle"
PagesOK == (\A t \in Tabs : PageOK(t)) /\ (\A c \in Calls : CallOK(c))
OrphansBusy == \A r \in orphan : Busy(r)

LEMMA SessionsParts ==
  SessionsInv <=> SessionsTypeOK /\ PagesOK /\ OrphansBusy /\ (disturbed \/ Calm)
  <1>1. SessionsTypeOK => \A c \in Calls : TabOf[c] \in Tabs
    OBVIOUS
  <1> QED
    BY <1>1 DEF SessionsInv, OneRefreshPerPage, WaitersHaveARefresh, PagesOK, PageOK, CallOK,
       OrphansBusy

LEMMA SessionsPartsAfter ==
  SessionsTypeOK' /\ PagesOK' /\ OrphansBusy' /\ (disturbed' \/ Calm') => SessionsInv'
  BY SessionsParts, PTL

LEMMA RefreshShape ==
  ASSUME NEW s \in RefreshState
  PROVE  /\ s.phase \in {"free", "sent", "read", "answered", "refused"}
         /\ s.phase # "free" => s.tab \in Tabs
         /\ s.phase \in {"sent", "read", "answered"} => s.token \in Token
         /\ s.phase = "read" => s.row \in Rows
  BY DEF RefreshState, Free

LEMMA RefreshStates ==
  /\ Free \in RefreshState /\ Free.phase = "free"
  /\ \A t \in Tabs : [phase |-> "refused", tab |-> t] \in RefreshState
  /\ \A t \in Tabs, k \in Token :
        /\ [phase |-> "sent", tab |-> t, token |-> k] \in RefreshState
        /\ [phase |-> "answered", tab |-> t, token |-> k] \in RefreshState
  /\ \A t \in Tabs, s \in Rows : [phase |-> "read", tab |-> t, token |-> s, row |-> s] \in RefreshState
  BY DEF RefreshState, Free, Token

LEMMA Retoken ==
  ASSUME NEW s \in RefreshState, s.phase \in {"sent", "read", "answered"}, NEW k \in Token
  PROVE  /\ [s EXCEPT !.token = k] \in RefreshState
         /\ [s EXCEPT !.token = k].phase = s.phase
         /\ [s EXCEPT !.token = k].tab = s.tab
  <1>1. CASE s.phase = "sent"
    <2>1. s \in [phase : {"sent"}, tab : Tabs, token : Token]
      BY <1>1 DEF RefreshState, Free
    <2> QED BY <2>1 DEF RefreshState
  <1>2. CASE s.phase = "read"
    <2>1. s \in [phase : {"read"}, tab : Tabs, token : Token, row : Rows]
      BY <1>2 DEF RefreshState, Free
    <2> QED BY <2>1 DEF RefreshState
  <1>3. CASE s.phase = "answered"
    <2>1. s \in [phase : {"answered"}, tab : Tabs, token : Token]
      BY <1>3 DEF RefreshState, Free
    <2> QED BY <2>1 DEF RefreshState
  <1> QED BY <1>1, <1>2, <1>3

LEMMA TabsOfRequests ==
  ASSUME SessionsTypeOK, NEW r \in Refreshes, Busy(r)
  PROVE  request[r].tab \in Tabs
  BY RefreshShape DEF SessionsTypeOK, Busy

LEMMA FreeIsRefresh == \A r \in FreeRequest : r \in Refreshes /\ ~Busy(r)
  BY DEF FreeRequest

(* How a step changes the refreshes of the pages: not at all, ...          *)
LEMMA OfStays ==
  ASSUME orphan' = orphan,
         \A r \in Refreshes : Busy(r)' <=> Busy(r),
         \A r \in Refreshes : Busy(r) => request'[r].tab = request[r].tab
  PROVE  \A t : Of(t)' = Of(t)
  BY DEF Of

(* ... by one that is sent, ...                                            *)
LEMMA OfGains ==
  ASSUME SessionsTypeOK, OrphansBusy, NEW r \in Refreshes, NEW t \in Tabs, Send(r, t),
         orphan' = orphan
  PROVE  /\ Of(t)' = Of(t) \cup {r}
         /\ \A u \in Tabs \ {t} : Of(u)' = Of(u)
         /\ OrphansBusy'
  <1>1. r \notin orphan /\ ~Busy(r)
    BY DEF Send, OrphansBusy
  <1>2. request'[r].phase = "sent" /\ request'[r].tab = t
    BY DEF Send, SessionsTypeOK
  <1>3. \A q \in Refreshes \ {r} : request'[q] = request[q]
    BY DEF Send, SessionsTypeOK
  <1>4. OrphansBusy'
    BY <1>1, <1>3 DEF OrphansBusy, Busy, SessionsTypeOK
  <1> QED BY <1>1, <1>2, <1>3, <1>4 DEF Of, Busy

(* ... by the only one that comes back, ...                                *)
LEMMA OfLoses ==
  ASSUME SessionsTypeOK, PagesOK, OrphansBusy, NEW r \in Refreshes, NEW t \in Tabs,
         Busy(r), request[r].tab = t, r \notin orphan,
         request' = [request EXCEPT ![r] = Free], orphan' = orphan
  PROVE  /\ Of(t)' = {}
         /\ \A u \in Tabs \ {t} : Of(u)' = Of(u)
         /\ OrphansBusy'
  <1>1. Of(t) = {r}
    BY DEF PagesOK, PageOK, Of
  <1>2. request'[r].phase = "free"
    BY RefreshStates DEF SessionsTypeOK
  <1>3. \A q \in Refreshes \ {r} : request'[q] = request[q]
    BY DEF SessionsTypeOK
  <1>4. OrphansBusy'
    BY <1>3 DEF OrphansBusy, Busy, SessionsTypeOK
  <1> QED BY <1>1, <1>2, <1>3, <1>4 DEF Of, Busy

(* ... or by all, when their page goes away.                               *)
LEMMA OfLeaves ==
  ASSUME OrphansBusy, NEW t \in Tabs, orphan' = orphan \cup Of(t), request' = request
  PROVE  /\ Of(t)' = {}
         /\ \A u \in Tabs \ {t} : Of(u)' = Of(u)
         /\ OrphansBusy'
  BY DEF Of, OrphansBusy, Busy

(* A new page has nothing, and nothing waits for it.                       *)
LEMMA NewPageOK ==
  ASSUME SessionsTypeOK, PagesOK, NEW t \in Tabs, NewPage(t), Of(t)' = {},
         \A u \in Tabs \ {t} : Of(u)' = Of(u)
  PROVE  /\ PagesOK'
         /\ page' \in [Tabs -> {"loading", "app", "login"}] /\ access' \in [Tabs -> BOOLEAN]
         /\ refreshing' \in [Tabs -> BOOLEAN] /\ call' \in [Calls -> CallState]
  <1>1. /\ page' \in [Tabs -> {"loading", "app", "login"}] /\ access' \in [Tabs -> BOOLEAN]
        /\ refreshing' \in [Tabs -> BOOLEAN]
    BY DEF NewPage, SessionsTypeOK
  <1>2. Quiet \in CallState /\ Quiet.st = "idle"
    BY DEF Quiet, CallState
  <1>3. call' \in [Calls -> CallState]
    BY <1>2 DEF NewPage, SessionsTypeOK
  <1>4. \A u \in Tabs : PageOK(u)'
    BY DEF NewPage, SessionsTypeOK, PagesOK, PageOK
  <1>5. \A c \in Calls : CallOK(c)'
    BY <1>2 DEF NewPage, SessionsTypeOK, PagesOK, CallOK
  <1> QED BY <1>1, <1>3, <1>4, <1>5 DEF PagesOK

(* A step that leaves the pages and their refreshes alone and lets no more *)
(* calls wait.                                                             *)
LEMMA PagesStay ==
  ASSUME PagesOK, \A t : Of(t)' = Of(t), UNCHANGED <<page, refreshing>>,
         \A c \in Calls : call'[c].st \in {call[c].st, "idle"}
  PROVE  PagesOK'
  BY DEF PagesOK, PageOK, CallOK

LEMMA SessionsStart == SessionsInit => SessionsInv
  <1> SUFFICES ASSUME SessionsInit PROVE SessionsTypeOK /\ PagesOK /\ OrphansBusy /\ Calm
    BY SessionsParts
  <1>1. Quiet \in CallState /\ Quiet.st = "idle"
    BY DEF Quiet, CallState
  <1>2. SessionsTypeOK
    <2>1. /\ row \in [Rows -> {"none", "live", "ended"}] /\ cookie \in Token
          /\ page \in [Tabs -> {"loading", "app", "login"}]
          /\ access \in [Tabs -> BOOLEAN] /\ refreshing \in [Tabs -> BOOLEAN]
      BY DEF SessionsInit, Token
    <2>2. call \in [Calls -> CallState] /\ request \in [Refreshes -> RefreshState]
      BY <1>1, RefreshStates DEF SessionsInit
    <2>3. orphan \subseteq Refreshes /\ disturbed \in BOOLEAN
      BY DEF SessionsInit
    <2>4. cuts \in 0..MaxCuts
      BY DEF SessionsInit, SessionsAssumption
    <2> QED BY <2>1, <2>2, <2>3, <2>4 DEF SessionsTypeOK
  <1>3. \A t : Of(t) = {}
    BY RefreshStates DEF SessionsInit, Of, Busy
  <1>4. PagesOK
    BY <1>1, <1>3 DEF SessionsInit, PagesOK, PageOK, CallOK
  <1>5. Calm
    BY RefreshStates DEF SessionsInit, Calm, Busy
  <1> QED BY <1>2, <1>4, <1>5 DEF SessionsInit, OrphansBusy

SessionsHold == SessionsTypeOK /\ PagesOK /\ OrphansBusy

(* What the pages send: a page that loads, and the first call of a page    *)
(* that comes back 401.                                                    *)
LEMMA SendTyped ==
  ASSUME SessionsTypeOK, NEW r \in Refreshes, NEW t \in Tabs, Send(r, t)
  PROVE  request' \in [Refreshes -> RefreshState]
  <1>1. [phase |-> "sent", tab |-> t, token |-> cookie] \in RefreshState
    BY RefreshStates DEF SessionsTypeOK
  <1> QED BY <1>1 DEF Send, SessionsTypeOK

LEMMA LoadKeeps ==
  ASSUME SessionsHold, NEW t \in Tabs, NEW r \in Refreshes, Load(t, r)
  PROVE  SessionsHold'
  <1> USE DEF SessionsHold, server, client
  <1>1. /\ Of(t)' = {r} /\ OrphansBusy'
        /\ \A u \in Tabs \ {t} : Of(u)' = Of(u)
    BY OfGains DEF Load
  <1>2. SessionsTypeOK'
    <2>1. disturbed' \in BOOLEAN
      BY DEF Load, SessionsTypeOK, Meets
    <2> QED BY <2>1, SendTyped DEF Load, SessionsTypeOK
  <1>3. \A u \in Tabs : PageOK(u)'
    BY <1>1 DEF Load, PagesOK, PageOK
  <1>4. \A c \in Calls : CallOK(c)'
    BY DEF Load, PagesOK, CallOK
  <1> QED BY <1>1, <1>2, <1>3, <1>4 DEF PagesOK

LEMMA CallShape ==
  /\ \A st \in {"idle", "sent", "queued"}, g \in BOOLEAN, d \in BOOLEAN :
        [st |-> st, good |-> g, retried |-> d] \in CallState
  /\ Quiet \in CallState /\ Quiet.st = "idle"
  BY DEF CallState, Quiet

LEMMA RefreshKeeps ==
  ASSUME SessionsHold, NEW c \in Calls, NEW r \in Refreshes, Refresh(c, r)
  PROVE  SessionsHold'
  <1> USE DEF SessionsHold, server, client
  <1>1. PICK t \in Tabs : t = TabOf[c]
    OBVIOUS
  <1>2. call[c].st = "sent" /\ ~refreshing[t]
    BY <1>1 DEF Refresh, Rejected, Joins
  <1>3. page[t] # "loading"
    BY <1>1, <1>2 DEF PagesOK, CallOK
  <1>4. Of(t) = {}
    BY <1>2, <1>3 DEF PagesOK, PageOK
  <1>5. Send(r, t) /\ orphan' = orphan /\ page' = page
        /\ refreshing' = [refreshing EXCEPT ![t] = TRUE]
        /\ call' = [call EXCEPT ![c] = [st |-> "queued", good |-> FALSE, retried |-> TRUE]]
    BY <1>1 DEF Refresh, Waits
  <1>6. /\ Of(t)' = {r} /\ OrphansBusy'
        /\ \A u \in Tabs \ {t} : Of(u)' = Of(u)
    BY <1>4, <1>5, OfGains
  <1>7. SessionsTypeOK'
    <2>1. request' \in [Refreshes -> RefreshState]
      BY <1>5, SendTyped
    <2>2. call' \in [Calls -> CallState] /\ refreshing' \in [Tabs -> BOOLEAN]
      BY <1>5, CallShape DEF SessionsTypeOK
    <2>3. disturbed' \in BOOLEAN
      BY DEF Refresh, SessionsTypeOK, Meets
    <2> QED BY <1>5, <2>1, <2>2, <2>3 DEF Refresh, SessionsTypeOK
  <1>8. ASSUME NEW u \in Tabs PROVE PageOK(u)'
    <2>1. CASE u = t
      BY <1>3, <1>5, <1>6, <2>1 DEF PageOK, SessionsTypeOK
    <2>2. CASE u # t
      BY <1>5, <1>6, <2>2 DEF PagesOK, PageOK, SessionsTypeOK
    <2> QED BY <2>1, <2>2
  <1>9. \A d \in Calls : CallOK(d)'
    BY <1>1, <1>3, <1>5 DEF PagesOK, CallOK, SessionsTypeOK
  <1> QED BY <1>6, <1>7, <1>8, <1>9 DEF PagesOK

(* What the server does with a refresh.                                    *)
LEMMA ServerKeeps ==
  ASSUME SessionsHold, request' \in [Refreshes -> RefreshState], UNCHANGED <<client, orphan>>,
         row' \in [Rows -> {"none", "live", "ended"}], cookie' \in Token,
         cuts' \in 0..MaxCuts, disturbed' \in BOOLEAN,
         \A r \in Refreshes : Busy(r)' <=> Busy(r),
         \A r \in Refreshes : Busy(r) => request'[r].tab = request[r].tab
  PROVE  SessionsHold'
  <1> USE DEF SessionsHold, client
  <1>1. SessionsTypeOK'
    BY DEF SessionsTypeOK
  <1>2. PagesOK'
    BY OfStays, PagesStay
  <1>3. OrphansBusy'
    BY DEF OrphansBusy, SessionsTypeOK
  <1> QED BY <1>1, <1>2, <1>3

LEMMA OneRequest ==
  ASSUME SessionsTypeOK, NEW r \in Refreshes, NEW s \in RefreshState, Busy(r),
         s.phase # "free", s.tab = request[r].tab, request' = [request EXCEPT ![r] = s]
  PROVE  /\ request' \in [Refreshes -> RefreshState]
         /\ \A q \in Refreshes : Busy(q)' <=> Busy(q)
         /\ \A q \in Refreshes : Busy(q) => request'[q].tab = request[q].tab
  <1>1. \A q \in Refreshes : request'[q] = IF q = r THEN s ELSE request[q]
    BY DEF SessionsTypeOK
  <1> QED BY <1>1 DEF SessionsTypeOK, Busy

LEMMA RefusedKeeps ==
  ASSUME SessionsHold, NEW r \in Refreshes, Busy(r), UNCHANGED <<server, client, orphan>>,
         cuts' \in 0..MaxCuts, disturbed' \in BOOLEAN,
         request' = [request EXCEPT ![r] = [phase |-> "refused", tab |-> request[r].tab]]
  PROVE  SessionsHold'
  <1>1. PICK t \in Tabs : t = request[r].tab
    BY TabsOfRequests DEF SessionsHold
  <1>2. PICK s \in RefreshState : s = [phase |-> "refused", tab |-> t]
    BY RefreshStates
  <1>3. s.phase # "free" /\ s.tab = request[r].tab /\ request' = [request EXCEPT ![r] = s]
    BY <1>1, <1>2
  <1> QED BY <1>3, OneRequest, ServerKeeps DEF SessionsHold, SessionsTypeOK, server

LEMMA ReadSessionKeeps ==
  ASSUME SessionsHold, NEW r \in Refreshes, ReadSession(r)
  PROVE  SessionsHold'
  <1>1. Busy(r) /\ UNCHANGED <<server, client, orphan, cuts, disturbed>>
    BY DEF ReadSession, Busy, history
  <1>2. CASE ~Live(request[r].token)
    BY <1>1, <1>2, RefusedKeeps DEF ReadSession, SessionsHold, SessionsTypeOK
  <1>3. CASE Live(request[r].token)
    <2>1. PICK t \in Tabs : t = request[r].tab
      BY <1>1, TabsOfRequests DEF SessionsHold
    <2>2. PICK k \in Rows : k = request[r].token
      BY <1>3 DEF Live
    <2>3. PICK s \in RefreshState : s = [phase |-> "read", tab |-> t, token |-> k, row |-> k]
      BY RefreshStates
    <2>4. s.phase # "free" /\ s.tab = request[r].tab /\ request' = [request EXCEPT ![r] = s]
      BY <1>3, <2>1, <2>2, <2>3 DEF ReadSession
    <2> QED BY <1>1, <2>4, OneRequest, ServerKeeps DEF SessionsHold, SessionsTypeOK, server
  <1> QED BY <1>2, <1>3

(* A rotation spends the token of every other request that carries it.     *)
LEMMA RotateKeeps ==
  ASSUME SessionsHold, NEW r \in Refreshes, Rotate(r)
  PROVE  SessionsHold'
  <1> USE DEF SessionsHold
  <1>1. Busy(r) /\ request[r].phase = "read"
    BY DEF Rotate, Busy
  <1>2. PICK t \in Tabs : t = request[r].tab
    BY <1>1, TabsOfRequests
  <1>3. PICK s \in Rows : s = request[r].row
    BY <1>1, RefreshShape DEF SessionsTypeOK
  <1>4. PICK a \in RefreshState : a = [phase |-> "answered", tab |-> t, token |-> s]
    BY RefreshStates DEF Token
  <1>5. \A k \in Token : Spend(s, k) \in Token
    BY DEF Spend, Token
  <1>6. \A q \in Refreshes : request'[q] =
            IF q = r THEN a
            ELSE IF request[q].phase \in {"sent", "read", "answered"}
                 THEN [request[q] EXCEPT !.token = Spend(s, @)] ELSE request[q]
    BY <1>2, <1>3, <1>4 DEF Rotate
  <1>7. ASSUME NEW q \in Refreshes
        PROVE  /\ request'[q] \in RefreshState
               /\ Busy(q)' <=> Busy(q)
               /\ Busy(q) => request'[q].tab = request[q].tab
    <2>1. CASE q = r
      <3>1. a.phase = "answered" /\ a.tab = t /\ request'[q] = a
        BY <1>4, <1>6, <2>1
      <3> QED BY <1>1, <1>2, <2>1, <3>1 DEF Busy
    <2>2. CASE q # r /\ request[q].phase \in {"sent", "read", "answered"}
      <3>1. request[q] \in RefreshState /\ request[q].token \in Token
        BY <2>2, RefreshShape DEF SessionsTypeOK
      <3>2. Spend(s, request[q].token) \in Token
        BY <1>5, <3>1
      <3>3. request'[q] = [request[q] EXCEPT !.token = Spend(s, request[q].token)]
        BY <1>6, <2>2
      <3>4. /\ request'[q] \in RefreshState /\ request'[q].phase = request[q].phase
            /\ request'[q].tab = request[q].tab
        BY <2>2, <3>1, <3>2, <3>3, Retoken
      <3> QED BY <3>4 DEF Busy
    <2>3. CASE q # r /\ request[q].phase \notin {"sent", "read", "answered"}
      BY <1>6, <2>3 DEF Busy, SessionsTypeOK
    <2> QED BY <2>1, <2>2, <2>3
  <1>8. request' \in [Refreshes -> RefreshState]
    BY <1>7 DEF Rotate
  <1>9. row' \in [Rows -> {"none", "live", "ended"}] /\ cookie' \in Token
    BY <1>3, <1>5 DEF Rotate, SessionsTypeOK
  <1> QED
    BY <1>7, <1>8, <1>9, ServerKeeps DEF Rotate, history, SessionsTypeOK

(* What comes back to a page: a new token, or the log-in page.             *)
LEMMA RefreshedKeeps ==
  ASSUME SessionsHold, NEW r \in Refreshes, Refreshed(r)
  PROVE  SessionsHold'
  <1> USE DEF SessionsHold
  <1>1. Busy(r) /\ request[r].phase = "answered" /\ r \notin orphan
    BY DEF Refreshed, Busy
  <1>2. PICK t \in Tabs : t = request[r].tab
    BY <1>1, TabsOfRequests
  <1>3. /\ request' = [request EXCEPT ![r] = Free] /\ orphan' = orphan
        /\ page' = [page EXCEPT ![t] = IF @ = "loading" THEN "app" ELSE @]
        /\ refreshing' = [refreshing EXCEPT ![t] = FALSE]
        /\ access' = [access EXCEPT ![t] = TRUE] /\ call' = FlushQueue(t)
    BY <1>2 DEF Refreshed
  <1>4. /\ Of(t)' = {} /\ OrphansBusy'
        /\ \A u \in Tabs \ {t} : Of(u)' = Of(u)
    BY <1>1, <1>2, <1>3, OfLoses
  <1>5. call' \in [Calls -> CallState]
    BY <1>3, CallShape DEF FlushQueue, SessionsTypeOK
  <1>6. SessionsTypeOK'
    <2>1. request' \in [Refreshes -> RefreshState]
      BY <1>3, RefreshStates DEF SessionsTypeOK
    <2>2. cookie' \in Token
      BY <1>1, RefreshShape DEF Refreshed, StoreCookie, SessionsTypeOK
    <2>3. /\ page' \in [Tabs -> {"loading", "app", "login"}] /\ access' \in [Tabs -> BOOLEAN]
          /\ refreshing' \in [Tabs -> BOOLEAN]
      BY <1>3 DEF SessionsTypeOK
    <2> QED BY <1>5, <2>1, <2>2, <2>3 DEF Refreshed, history, SessionsTypeOK
  <1>7. ASSUME NEW u \in Tabs PROVE PageOK(u)'
    <2>1. CASE u = t
      BY <1>3, <1>4, <2>1 DEF PageOK, SessionsTypeOK
    <2>2. CASE u # t
      BY <1>3, <1>4, <2>2 DEF PagesOK, PageOK, SessionsTypeOK
    <2> QED BY <2>1, <2>2
  <1>8. ASSUME NEW c \in Calls PROVE CallOK(c)'
    <2>1. CASE TabOf[c] = t
      <3>1. call'[c].st # "queued" /\ page'[t] # "loading"
        BY <1>3, <2>1 DEF FlushQueue, SessionsTypeOK
      <3> QED BY <2>1, <3>1 DEF CallOK
    <2>2. CASE TabOf[c] # t
      BY <1>3, <2>2 DEF PagesOK, CallOK, FlushQueue, SessionsTypeOK
    <2> QED BY <2>1, <2>2
  <1> QED BY <1>4, <1>6, <1>7, <1>8 DEF PagesOK

LEMMA RefuseKeeps ==
  ASSUME SessionsHold, NEW r \in Refreshes, Refuse(r)
  PROVE  SessionsHold'
  <1> USE DEF SessionsHold
  <1>1. Busy(r) /\ r \notin orphan
    BY DEF Refuse, Busy
  <1>2. PICK t \in Tabs : t = request[r].tab
    BY <1>1, TabsOfRequests
  <1> DEFINE C == {c \in Calls : TabOf[c] = t /\ call[c].st = "queued"}
  <1>3. request' = [request EXCEPT ![r] = Free] /\ orphan' = orphan
    BY DEF Refuse
  <1>4. /\ Of(t)' = {} /\ OrphansBusy'
        /\ \A u \in Tabs \ {t} : Of(u)' = Of(u)
    BY <1>1, <1>2, <1>3, OfLoses
  <1>5. /\ request' \in [Refreshes -> RefreshState]
        /\ UNCHANGED <<row, cookie, orphan, cuts, disturbed>>
    BY <1>3, RefreshStates DEF Refuse, server, history, SessionsTypeOK
  <1>6. CASE page[t] = "loading"
    <2>1. page' = [page EXCEPT ![t] = "login"] /\ UNCHANGED <<access, refreshing, call>>
      BY <1>2, <1>6 DEF Refuse
    <2>2. SessionsTypeOK'
      BY <1>5, <2>1 DEF SessionsTypeOK
    <2>3. \A u \in Tabs : PageOK(u)'
      BY <1>4, <1>6, <2>1 DEF PagesOK, PageOK, SessionsTypeOK
    <2>4. \A c \in Calls : CallOK(c)'
      BY <2>1 DEF PagesOK, CallOK, SessionsTypeOK
    <2> QED BY <1>4, <2>2, <2>3, <2>4 DEF PagesOK
  <1>7. CASE page[t] \notin {"loading", "login"}
    <2>1. NewPage(t)
      BY <1>2, <1>7 DEF Refuse, ToLogin
    <2> QED BY <1>4, <1>5, <2>1, NewPageOK DEF SessionsTypeOK
  <1>8. CASE page[t] = "login"
    <2>1. /\ access' = [access EXCEPT ![t] = FALSE]
          /\ refreshing' = [refreshing EXCEPT ![t] = FALSE]
          /\ call' = [c \in Calls |-> IF c \in C THEN Quiet ELSE call[c]]
          /\ page' = page
      BY <1>2, <1>8 DEF Refuse, ToLogin, SessionsTypeOK
    <2>2. SessionsTypeOK'
      BY <1>5, <2>1, CallShape DEF SessionsTypeOK
    <2>3. \A u \in Tabs : PageOK(u)'
      BY <1>4, <1>8, <2>1 DEF PagesOK, PageOK, SessionsTypeOK
    <2>4. ASSUME NEW c \in Calls PROVE CallOK(c)'
      <3>1. CASE c \in C
        <4>1. call'[c].st = "idle"
          BY <2>1, <3>1, CallShape
        <4> QED BY <4>1 DEF CallOK
      <3>2. CASE c \notin C
        <4>1. call'[c] = call[c] /\ (call[c].st = "queued" => TabOf[c] # t)
          BY <2>1, <3>2
        <4> QED BY <2>1, <4>1 DEF PagesOK, CallOK, SessionsTypeOK
      <3> QED BY <3>1, <3>2
    <2> QED BY <1>4, <2>2, <2>3, <2>4 DEF PagesOK
  <1> QED BY <1>6, <1>7, <1>8

(* A page goes away with its refreshes, which nobody reads any more.       *)
LEMMA LeaveKeeps ==
  ASSUME SessionsHold, NEW t \in Tabs, NewPage(t), orphan' = orphan \cup Of(t),
         UNCHANGED <<server, request>>, cuts' \in 0..MaxCuts, disturbed' \in BOOLEAN
  PROVE  SessionsHold'
  <1> USE DEF SessionsHold, server
  <1>1. /\ Of(t)' = {} /\ OrphansBusy'
        /\ \A u \in Tabs \ {t} : Of(u)' = Of(u)
    BY OfLeaves
  <1>2. orphan' \subseteq Refreshes
    BY DEF Of, SessionsTypeOK
  <1> QED BY <1>1, <1>2, NewPageOK DEF SessionsTypeOK

LEMMA GiveUpKeeps ==
  ASSUME SessionsHold, NEW c \in Calls, GiveUp(c)
  PROVE  SessionsHold'
  <1> USE DEF SessionsHold
  <1>1. PICK t \in Tabs : t = TabOf[c]
    BY DEF SessionsAssumption
  <1>2. disturbed' \in BOOLEAN /\ UNCHANGED <<server, request, cuts>>
    BY DEF GiveUp, SessionsTypeOK
  <1>3. ToLogin(t, {c}, FALSE) /\ orphan' = orphan \cup Leaves(t)
    BY <1>1 DEF GiveUp
  <1>4. CASE page[t] # "login"
    BY <1>2, <1>3, <1>4, LeaveKeeps DEF ToLogin, Leaves, SessionsTypeOK
  <1>5. CASE page[t] = "login"
    <2>1. /\ access' = [access EXCEPT ![t] = FALSE] /\ refreshing' = refreshing
          /\ call' = [d \in Calls |-> IF d \in {c} THEN Quiet ELSE call[d]]
          /\ page' = page /\ orphan' = orphan
      BY <1>3, <1>5 DEF ToLogin, Leaves, SessionsTypeOK
    <2>2. SessionsTypeOK'
      BY <1>2, <2>1, CallShape DEF server, SessionsTypeOK
    <2>3. \A u : Of(u)' = Of(u)
      BY <1>2, <2>1 DEF Of, Busy
    <2>4. \A d \in Calls : call'[d].st \in {call[d].st, "idle"}
      BY <2>1, CallShape
    <2>5. PagesOK'
      BY <2>1, <2>3, <2>4, PagesStay
    <2> QED BY <1>2, <2>1, <2>2, <2>5 DEF OrphansBusy, Busy
  <1> QED BY <1>4, <1>5

LEMMA DropKeeps ==
  ASSUME SessionsHold, NEW r \in Refreshes, Drop(r)
  PROVE  SessionsHold'
  <1> USE DEF SessionsHold, server, client, history
  <1>1. SessionsTypeOK'
    BY RefreshStates DEF Drop, SessionsTypeOK
  <1>2. \A q \in Refreshes \ {r} : request'[q] = request[q]
    BY DEF Drop, SessionsTypeOK
  <1>3. ~Busy(r)'
    BY RefreshStates DEF Drop, Busy, SessionsTypeOK
  <1>4. \A t : Of(t)' = Of(t)
    BY <1>2, <1>3 DEF Drop, Of, Busy
  <1>5. PagesOK'
    BY <1>4, PagesStay DEF Drop
  <1>6. OrphansBusy'
    BY <1>2 DEF Drop, OrphansBusy, Busy, SessionsTypeOK
  <1> QED BY <1>1, <1>5, <1>6

(* Steps that touch no refresh: calls that come and go, ...                *)
LEMMA CallsKeep ==
  ASSUME SessionsHold, UNCHANGED <<server, request, orphan, history, page, refreshing>>,
         access' \in [Tabs -> BOOLEAN], call' \in [Calls -> CallState],
         \A c \in Calls : CallOK(c)'
  PROVE  SessionsHold'
  <1> USE DEF SessionsHold, server, history
  <1>1. SessionsTypeOK'
    BY DEF SessionsTypeOK
  <1>2. \A t \in Tabs : PageOK(t)'
    BY DEF PagesOK, PageOK, Of, Busy
  <1> QED BY <1>1, <1>2 DEF PagesOK, OrphansBusy, Busy

LEMMA CallStepKeeps ==
  ASSUME SessionsHold, NEW c \in Calls, Call(c) \/ Served(c) \/ Join(c)
  PROVE  SessionsHold'
  <1> USE DEF SessionsHold
  <1>1. TabOf[c] \in Tabs
    BY DEF SessionsAssumption
  <1>2. PICK s \in CallState :
            /\ call' = [call EXCEPT ![c] = s]
            /\ s.st = "queued" => refreshing[TabOf[c]]
            /\ page[TabOf[c]] = "loading" => s.st = "idle"
    <2>1. CASE Call(c)
      <3>1. access[TabOf[c]] \in BOOLEAN
        BY <1>1 DEF SessionsTypeOK
      <3>2. [st |-> "sent", good |-> access[TabOf[c]], retried |-> FALSE] \in CallState
        BY <3>1, CallShape
      <3> QED BY <2>1, <3>2 DEF Call
    <2>2. CASE Served(c)
      BY <2>2, CallShape DEF Served
    <2>3. CASE Join(c)
      <3>1. page[TabOf[c]] # "loading"
        BY <2>3 DEF Join, Rejected, PagesOK, CallOK
      <3>2. [st |-> "queued", good |-> FALSE, retried |-> TRUE] \in CallState
        BY CallShape
      <3> QED BY <2>3, <3>1, <3>2 DEF Join, Joins, Waits
    <2> QED BY <2>1, <2>2, <2>3
  <1>3. /\ UNCHANGED <<server, request, orphan, history, page, refreshing>>
        /\ access' = access
    BY DEF Call, Served, Join
  <1>4. call' \in [Calls -> CallState]
    BY <1>2 DEF SessionsTypeOK
  <1>5. ASSUME NEW d \in Calls PROVE CallOK(d)'
    <2>1. CASE d = c
      BY <1>2, <1>3, <2>1 DEF CallOK, SessionsTypeOK
    <2>2. CASE d # c
      BY <1>2, <1>3, <2>2 DEF PagesOK, CallOK, SessionsTypeOK
    <2> QED BY <2>1, <2>2
  <1> QED BY <1>3, <1>4, <1>5, CallsKeep DEF SessionsTypeOK

LEMMA ExpireKeeps ==
  ASSUME SessionsHold, NEW t \in Tabs, Expire(t)
  PROVE  SessionsHold'
  <1> USE DEF SessionsHold
  <1>1. access' \in [Tabs -> BOOLEAN]
    BY DEF Expire, SessionsTypeOK
  <1>2. \A s \in CallState : [s EXCEPT !.good = FALSE] \in CallState
                            /\ [s EXCEPT !.good = FALSE].st = s.st
    BY DEF CallState
  <1>3. call' \in [Calls -> CallState] /\ \A c \in Calls : call'[c].st = call[c].st
    BY <1>2 DEF Expire, SessionsTypeOK
  <1>4. \A c \in Calls : CallOK(c)'
    BY <1>3 DEF Expire, PagesOK, CallOK
  <1> QED BY <1>1, <1>3, <1>4, CallsKeep DEF Expire

(* ... a user who logs in or out, which no refresh has to do with, ...     *)
LEMMA UserKeeps ==
  ASSUME SessionsHold, NEW t \in Tabs, page[t] # "loading",
         NEW to \in {"app", "login"}, NEW on \in BOOLEAN,
         page' = [page EXCEPT ![t] = to], access' = [access EXCEPT ![t] = on],
         UNCHANGED <<refreshing, call, request, orphan, cuts>>,
         row' \in [Rows -> {"none", "live", "ended"}], cookie' \in Token, disturbed' \in BOOLEAN
  PROVE  SessionsHold'
  <1> USE DEF SessionsHold
  <1>1. SessionsTypeOK'
    BY DEF SessionsTypeOK
  <1>2. \A u : Of(u)' = Of(u)
    BY DEF Of, Busy
  <1>3. \A u \in Tabs : PageOK(u)'
    BY <1>2 DEF PagesOK, PageOK, SessionsTypeOK
  <1>4. \A c \in Calls : CallOK(c)'
    BY DEF PagesOK, CallOK, SessionsTypeOK
  <1> QED BY <1>1, <1>3, <1>4 DEF PagesOK, OrphansBusy, Busy

LEMMA LogInOutKeeps ==
  ASSUME SessionsHold, NEW t \in Tabs,
         (\E s \in Rows : LogIn(t, s)) \/ (\E fails \in BOOLEAN : LogOut(t, fails))
  PROVE  SessionsHold'
  <1> USE DEF SessionsHold
  <1>1. ASSUME NEW s \in Rows, LogIn(t, s) PROVE SessionsHold'
    <2>1. row' \in [Rows -> {"none", "live", "ended"}] /\ cookie' \in Token
      BY <1>1 DEF LogIn, SessionsTypeOK, Token
    <2> QED BY <1>1, <2>1, UserKeeps DEF LogIn, history, SessionsTypeOK
  <1>2. ASSUME NEW fails \in BOOLEAN, LogOut(t, fails) PROVE SessionsHold'
    <2>1. row' \in [Rows -> {"none", "live", "ended"}] /\ cookie' \in Token
      BY <1>2 DEF LogOut, SessionsTypeOK, Token
    <2> QED BY <1>2, <2>1, UserKeeps DEF LogOut
  <1> QED BY <1>1, <1>2

(* ... and a session that ends.                                            *)
LEMMA EndSessionKeeps ==
  ASSUME SessionsHold, NEW s \in Rows, EndSession(s)
  PROVE  SessionsHold'
  <1>1. row' \in [Rows -> {"none", "live", "ended"}]
    BY DEF EndSession, SessionsHold, SessionsTypeOK
  <1>2. \A r \in Refreshes : Busy(r)' <=> Busy(r)
    BY DEF EndSession, Busy
  <1> QED BY <1>1, <1>2, ServerKeeps DEF EndSession, SessionsHold, SessionsTypeOK

LEMMA LoseKeeps ==
  ASSUME SessionsHold, NEW r \in Refreshes, Lose(r)
  PROVE  SessionsHold'
  <1>1. cuts' \in 0..MaxCuts /\ disturbed' \in BOOLEAN
    BY DEF Lose, SessionsHold, SessionsTypeOK, SessionsAssumption
  <1>2. Busy(r)
    BY DEF Lose, Busy
  <1> QED BY <1>1, <1>2, RefusedKeeps DEF Lose

LEMMA ReloadKeeps ==
  ASSUME SessionsHold, NEW t \in Tabs, Reload(t)
  PROVE  SessionsHold'
  <1>1. cuts' \in 0..MaxCuts /\ disturbed' \in BOOLEAN
    BY DEF Reload, SessionsHold, SessionsTypeOK, SessionsAssumption
  <1> QED BY <1>1, LeaveKeeps DEF Reload

LEMMA SessionsStep ==
  ASSUME SessionsHold, SessionsNext
  PROVE  SessionsHold'
  <1>1. ASSUME NEW t \in Tabs, Loads(t) \/ UserStep(t) \/ Expire(t) PROVE SessionsHold'
    BY <1>1, FreeIsRefresh, LoadKeeps, ReloadKeeps, LogInOutKeeps, ExpireKeeps
    DEF Loads, UserStep
  <1>2. ASSUME NEW c \in Calls, Call(c) \/ CallStep(c) PROVE SessionsHold'
    BY <1>2, FreeIsRefresh, CallStepKeeps, GiveUpKeeps, RefreshKeeps DEF CallStep
  <1>3. ASSUME NEW r \in Refreshes, RefreshStep(r) \/ Lose(r) PROVE SessionsHold'
    <2>1. RotateConflict(r) => SessionsHold'
      <3>1. RotateConflict(r) => Busy(r)
        BY DEF RotateConflict, Busy
      <3> QED BY <3>1, RefusedKeeps DEF RotateConflict, history, SessionsHold, SessionsTypeOK
    <2> QED
      BY <1>3, <2>1, ReadSessionKeeps, RotateKeeps, RefreshedKeeps, RefuseKeeps, DropKeeps,
         LoseKeeps DEF RefreshStep
  <1> QED BY <1>1, <1>2, <1>3, EndSessionKeeps DEF SessionsNext

(* The refreshes of a browser nobody disturbs.                             *)
LEMMA DisturbedStays == ASSUME disturbed, SessionsNext PROVE disturbed'
  <1>1. ASSUME NEW t \in Tabs, Loads(t) \/ UserStep(t) \/ Expire(t) PROVE disturbed'
    BY <1>1 DEF Loads, Load, UserStep, Reload, LogIn, LogOut, Expire, history
  <1>2. ASSUME NEW c \in Calls, Call(c) \/ CallStep(c) PROVE disturbed'
    BY <1>2 DEF Call, CallStep, Served, GiveUp, Join, Refresh, history
  <1>3. ASSUME NEW r \in Refreshes, RefreshStep(r) \/ Lose(r) PROVE disturbed'
    BY <1>3 DEF RefreshStep, ReadSession, Rotate, RotateConflict, Refreshed, Refuse, Drop, Lose,
                history
  <1> QED BY <1>1, <1>2, <1>3 DEF SessionsNext, EndSession

(* Pages that are replaced, and calls, leave the refreshes alone.          *)
LEMMA CalmStays ==
  ASSUME Calm, UNCHANGED <<server, request, orphan>>,
         \A t \in Tabs : page'[t] = page[t] \/ page'[t] = "loading"
  PROVE  Calm'
  BY DEF Calm, server, Busy

(* A page refreshes when no other refresh is under way, of any page.       *)
LEMMA CalmSend ==
  ASSUME Calm, SessionsTypeOK, NEW r \in Refreshes, NEW t \in Tabs,
         Send(r, t), Of(t) = {}, ~Meets(t), UNCHANGED <<server, orphan, page>>
  PROVE  Calm'
  <1>1. \A q \in Refreshes : ~Busy(q)
    BY DEF Calm, Of, Meets
  <1>2. cookie = First
    BY <1>1 DEF Calm, Busy
  <1>3. \A q \in Refreshes : request'[q] =
            IF q = r THEN [phase |-> "sent", tab |-> t, token |-> First] ELSE request[q]
    BY <1>2 DEF Send, SessionsTypeOK
  <1>4. \A q \in Refreshes : Busy(q)' => q = r
    BY <1>1, <1>3 DEF Busy
  <1>5. request'[r].phase = "sent" /\ request'[r].token = First
    BY <1>3
  <1> QED BY <1>2, <1>4, <1>5 DEF Calm, server

(* The server finds its token, ...                                         *)
LEMMA CalmRead ==
  ASSUME Calm, SessionsTypeOK, NEW r \in Refreshes, ReadSession(r)
  PROVE  Calm'
  <1>1. request[r].token = First /\ Busy(r) /\ Live(First)
    BY DEF Calm, ReadSession, Busy, Live
  <1>2. request' = [request EXCEPT ![r] =
           [phase |-> "read", tab |-> request[r].tab, token |-> First, row |-> First]]
    BY <1>1 DEF ReadSession
  <1>3. \A q \in Refreshes : q # r => ~Busy(q)
    BY <1>1 DEF Calm
  <1>4. /\ request'[r].phase = "read" /\ request'[r].token = First /\ request'[r].row = First
        /\ \A q \in Refreshes : q # r => request'[q] = request[q]
    BY <1>2 DEF SessionsTypeOK
  <1>5. \A q \in Refreshes : Busy(q)' => q = r
    BY <1>3, <1>4 DEF Busy
  <1>6. cookie = First
    BY <1>3 DEF Calm, Busy, ReadSession
  <1> QED BY <1>4, <1>5, <1>6 DEF Calm, ReadSession, server, client

(* ... rotates the session, which nobody ends meanwhile, ...               *)
LEMMA CalmRotate ==
  ASSUME Calm, SessionsTypeOK, NEW r \in Refreshes, Rotate(r)
  PROVE  Calm'
  <1>1. request[r].row = First /\ Busy(r)
    BY DEF Calm, Rotate, Busy
  <1>2. \A q \in Refreshes : q # r => ~Busy(q)
    BY <1>1 DEF Calm
  <1>3. row' = row
    BY <1>1 DEF Rotate, Rotatable, SessionsTypeOK
  <1>4. /\ request'[r] = [phase |-> "answered", tab |-> request[r].tab, token |-> First]
        /\ \A q \in Refreshes : q # r => request'[q] = request[q]
    BY <1>1, <1>2 DEF Rotate, Busy
  <1>5. request'[r].phase = "answered" /\ request'[r].token = First
    BY <1>4
  <1>6. \A q \in Refreshes : Busy(q)' => q = r
    BY <1>2, <1>4 DEF Busy
  <1> QED BY <1>3, <1>5, <1>6 DEF Calm, Rotate, client

(* ... and answers with the token of the session.                          *)
LEMMA CalmRefreshed ==
  ASSUME Calm, SessionsTypeOK, NEW r \in Refreshes, Refreshed(r)
  PROVE  Calm'
  <1>1. Busy(r) /\ request[r].token = First
    BY DEF Calm, Refreshed, Busy
  <1>2. \A q \in Refreshes : ~Busy(q)'
    <2>1. \A q \in Refreshes : q # r => ~Busy(q)
      BY <1>1 DEF Calm
    <2> QED BY <2>1 DEF Refreshed, Busy, Free, SessionsTypeOK
  <1>3. cookie' = First
    BY <1>1 DEF Refreshed, StoreCookie
  <1>4. \A t \in Tabs : page'[t] = page[t] \/ page'[t] = "app"
    BY DEF Refreshed, SessionsTypeOK
  <1> QED BY <1>2, <1>3, <1>4 DEF Calm, Refreshed, history

LEMMA NextCalm ==
  ASSUME SessionsHold, Calm, SessionsNext, ~disturbed'
  PROVE  Calm'
  <1>0. SessionsTypeOK
    BY DEF SessionsHold
  <1>1. ASSUME NEW t \in Tabs, NewPage(t)
        PROVE  \A u \in Tabs : page'[u] = page[u] \/ page'[u] = "loading"
    BY <1>0, <1>1 DEF NewPage, SessionsTypeOK
  <1>2. ASSUME NEW t \in Tabs, Loads(t) PROVE Calm'
    <2>1. PICK r \in Refreshes : Load(t, r)
      BY <1>2, FreeIsRefresh DEF Loads
    <2> QED BY <1>0, <2>1, CalmSend DEF Load, client
  <1>3. ASSUME NEW t \in Tabs, Reload(t) PROVE Calm'
    <2>1. Of(t) = {} /\ orphan' = orphan
      BY <1>3 DEF Reload
    <2> QED BY <1>1, <1>3, <2>1, CalmStays DEF Reload
  <1>4. ASSUME NEW t \in Tabs, UserStep(t) PROVE Calm'
    BY <1>3, <1>4 DEF UserStep, LogIn, LogOut, Calm
  <1>5. ASSUME NEW c \in Calls, GiveUp(c) PROVE Calm'
    <2>1. PICK t \in Tabs : t = TabOf[c]
      OBVIOUS
    <2>2. NewPage(t) /\ orphan' = orphan
      BY <1>5, <2>1 DEF GiveUp, ToLogin, Calm
    <2> QED BY <1>1, <1>5, <2>2, CalmStays DEF GiveUp
  <1>6. ASSUME NEW c \in Calls, NEW r \in Refreshes, Refresh(c, r) PROVE Calm'
    <2>1. PICK t \in Tabs : t = TabOf[c]
      OBVIOUS
    <2>2. call[c].st = "sent" /\ ~refreshing[t]
      BY <1>6, <2>1 DEF Refresh, Rejected, Joins
    <2>3. Of(t) = {}
      BY <2>1, <2>2 DEF SessionsHold, PagesOK, PageOK, CallOK
    <2> QED BY <1>0, <1>6, <2>1, <2>3, CalmSend DEF Refresh
  <1>7. ASSUME NEW c \in Calls, Call(c) \/ CallStep(c) PROVE Calm'
    <2>1. Call(c) \/ Served(c) \/ Join(c) => Calm'
      BY CalmStays DEF Call, Served, Join
    <2> QED BY <1>5, <1>6, <1>7, <2>1, FreeIsRefresh DEF CallStep
  <1>8. ASSUME NEW t \in Tabs, Expire(t) PROVE Calm'
    BY <1>8, CalmStays DEF Expire
  <1>9. ASSUME NEW r \in Refreshes, RefreshStep(r) \/ Lose(r) PROVE Calm'
    <2>1. ~RotateConflict(r)
      BY DEF RotateConflict, Rotatable, Calm, Busy
    <2>2. ~Refuse(r) /\ ~Drop(r) /\ ~Lose(r)
      BY DEF Refuse, Drop, Lose, Calm, Busy
    <2> QED BY <1>0, <1>9, <2>1, <2>2, CalmRead, CalmRotate, CalmRefreshed DEF RefreshStep
  <1> QED BY <1>2, <1>4, <1>7, <1>8, <1>9 DEF SessionsNext, EndSession

LEMMA SessionsKept == SessionsInv /\ [SessionsNext]_sessionVars => SessionsInv'
  <1> SUFFICES ASSUME SessionsHold, disturbed \/ Calm, [SessionsNext]_sessionVars
               PROVE  SessionsHold' /\ (disturbed' \/ Calm')
    BY SessionsParts, SessionsPartsAfter DEF SessionsHold
  <1>1. CASE UNCHANGED sessionVars
    <2>1. \A c \in Calls : CallOK(c)'
      BY <1>1 DEF sessionVars, client, SessionsHold, PagesOK, CallOK
    <2>2. SessionsHold'
      BY <1>1, <2>1, CallsKeep DEF sessionVars, client, SessionsHold, SessionsTypeOK
    <2>3. Calm => Calm'
      BY <1>1, CalmStays DEF sessionVars, client
    <2> QED BY <1>1, <2>2, <2>3 DEF sessionVars, history
  <1>2. CASE SessionsNext
    BY <1>2, SessionsStep, DisturbedStays, NextCalm
  <1> QED BY <1>1, <1>2

(* For any number of tabs, calls and refreshes: a page has one refresh at  *)
(* a time, whatever loads, fails, reloads, logs in or out meanwhile, and   *)
(* every call in a queue has one to wait for.                              *)
THEOREM SessionsInvariant == SessionsSpec => []SessionsInv
  BY SessionsStart, SessionsKept, PTL DEF SessionsSpec

(* However many tabs and calls there are, and whenever their access tokens *)
(* run out, the log-in page comes only with a loss, a reload in the middle *)
(* of a refresh, two pages that refresh at once, or the session's end.     *)
THEOREM UndisturbedStaysIn == SessionsSpec => []NeverThrownOut
  <1>1. SessionsInv => NeverThrownOut
    BY DEF SessionsInv, Calm, NeverThrownOut
  <1> QED BY <1>1, SessionsInvariant, PTL
-----------------------------------------------------------------------------
(* The rows of a test that is assigned twice.  MCClient moves them by      *)
(* Attempts with its constants given; what AttemptsProofs proves of every  *)
(* value of those constants is said here of these.                         *)
Proved == INSTANCE AttemptsProofs WITH
            MaxAssignments <- 2, Duration <- [t \in Tests |-> 0], Grace <- 0,
            DueTimes <- {Null}, MaxTime <- 0, Requests <- {r1, r2}

LEMMA ProvedOfTwice == Proved!Spec => []Proved!InductiveInv
  <1>1. Proved!CountsAssumption /\ Proved!DataAssumption
    BY CountsAssumption, DataAssumption DEF Proved!CountsAssumption, Proved!DataAssumption
  <1> QED BY <1>1, Proved!InductiveInvariant

(* AttemptsProofs and MCClient each instantiate Attempts, with the same    *)
(* constants: definition by definition, they say the same.                 *)
LEMMA SameInv == Proved!InductiveInv <=> Twice!InductiveInv
  BY DEF
     Proved!InductiveInv, Proved!TypeOK, Proved!Assignments,
     Proved!AssignmentRow, Proved!AssignmentStatus, Proved!Attempt,
     Proved!AttemptRow, Proved!AttemptStatus, Proved!Finished,
     Proved!Answers, Proved!Answer, Proved!RequestState, Proved!NoRequest,
     Proved!AdminState, Proved!TickState, Proved!OneSitting, Proved!Overdue,
     Proved!TickKnows, Proved!Submitted, Proved!AnnounceOnce,
     Proved!Announcer, Proved!StoredInTime, Proved!InTime,
     Proved!HeldInTime, Proved!NoLateAnswerScored,
     Twice!InductiveInv, Twice!TypeOK, Twice!Assignments,
     Twice!AssignmentRow, Twice!AssignmentStatus, Twice!Attempt,
     Twice!AttemptRow, Twice!AttemptStatus, Twice!Finished, Twice!Answers,
     Twice!Answer, Twice!RequestState, Twice!NoRequest, Twice!AdminState,
     Twice!TickState, Twice!OneSitting, Twice!Overdue, Twice!TickKnows,
     Twice!Submitted, Twice!AnnounceOnce, Twice!Announcer,
     Twice!StoredInTime, Twice!InTime, Twice!HeldInTime,
     Twice!NoLateAnswerScored

LEMMA SameInit == Proved!Init <=> Twice!Init
  BY DEF
     Proved!Init, Proved!Assignments, Proved!NoAssignment, Proved!Attempt,
     Proved!NoAttempt, Proved!NoAnswer, Proved!NoRequest,
     Twice!Init, Twice!Assignments, Twice!NoAssignment, Twice!Attempt,
     Twice!NoAttempt, Twice!NoAnswer, Twice!NoRequest

LEMMA SameNext == Proved!Next <=> Twice!Next
  BY DEF
     Proved!Next, Proved!RequestStep, Proved!StartRead, Proved!NoRequest,
     Proved!Attempt, Proved!Assignments, Proved!Open, Proved!Go,
     Proved!rows, Proved!StartCommit, Proved!StartableFor, Proved!Startable,
     Proved!NewAttempt, Proved!Started, Proved!StartRefused,
     Proved!SaveRead, Proved!TimeIsOver, Proved!SaveCommit,
     Proved!SubmitRead, Proved!SeeTimedOut, Proved!FinalizeCommit,
     Proved!Outcome, Proved!PendingReview, Proved!Claimable, Proved!Closed,
     Proved!FinalizeLost, Proved!Announce, Proved!Abandon, Proved!AdminStep,
     Proved!AssignRead, Proved!AssignCommit, Proved!RevokeRead,
     Proved!RevokeCommit, Proved!Revocable, Proved!TickStep, Proved!ScanDue,
     Proved!Closable, Proved!Overdue, Proved!CloseDue,
     Proved!LookForSubmitted, Proved!Submitted, Proved!Finished,
     Proved!Archive, Proved!ReviewPublishes, Proved!UnderReview,
     Proved!ReviewLeavesPending, Proved!PassTime,
     Twice!Next, Twice!RequestStep, Twice!StartRead, Twice!NoRequest,
     Twice!Attempt, Twice!Assignments, Twice!Open, Twice!Go, Twice!rows,
     Twice!StartCommit, Twice!StartableFor, Twice!Startable,
     Twice!NewAttempt, Twice!Started, Twice!StartRefused, Twice!SaveRead,
     Twice!TimeIsOver, Twice!SaveCommit, Twice!SubmitRead,
     Twice!SeeTimedOut, Twice!FinalizeCommit, Twice!Outcome,
     Twice!PendingReview, Twice!Claimable, Twice!Closed, Twice!FinalizeLost,
     Twice!Announce, Twice!Abandon, Twice!AdminStep, Twice!AssignRead,
     Twice!AssignCommit, Twice!RevokeRead, Twice!RevokeCommit,
     Twice!Revocable, Twice!TickStep, Twice!ScanDue, Twice!Closable,
     Twice!Overdue, Twice!CloseDue, Twice!LookForSubmitted, Twice!Submitted,
     Twice!Finished, Twice!Archive, Twice!ReviewPublishes,
     Twice!UnderReview, Twice!ReviewLeavesPending, Twice!PassTime

(* Whatever the employee's two requests, the manager and the cycle do to a *)
(* test that may be assigned twice, one attempt is open at a time, an      *)
(* attempt is announced once, and no late answer is scored.                *)
THEOREM AttemptsInvariant == MCSpec => []AttemptsInv
  <1> DEFINE InTwice == running = "twice"
  <1>1. MCInit /\ InTwice => Proved!Init
    BY SameInit DEF MCInit
  <1>2. InTwice /\ [MCNext]_clientVars => InTwice' /\ [Proved!Next]_(Proved!vars)
    <2> SUFFICES ASSUME running = "twice", [MCNext]_clientVars
                 PROVE  running' = "twice" /\ [Proved!Next]_(Proved!vars)
      OBVIOUS
    <2>1. CASE MCNext
      <3>1. Twice!Next
        BY <2>1 DEF MCNext
      <3> QED BY <2>1, <3>1, SameNext DEF MCNext
    <2>2. CASE UNCHANGED clientVars
      BY <2>2 DEF clientVars, vars, rows, Proved!vars, Proved!rows
    <2> QED BY <2>1, <2>2
  <1>3. ~InTwice /\ [MCNext]_clientVars => ~InTwice'
    BY DEF MCNext, clientVars
  <1>4. ~InTwice \/ Twice!InductiveInv => AttemptsInv
    BY DEF AttemptsInv
  <1> HIDE DEF InTwice
  <1> QED BY <1>1, <1>2, <1>3, <1>4, SameInv, ProvedOfTwice, PTL DEF MCSpec, Proved!Spec
=============================================================================
