--------------------------- MODULE RewardsProofs ---------------------------
(***************************************************************************)
(* Proofs about Rewards, for any number of attempts, tests and badges.     *)
(***************************************************************************)
EXTENDS Rewards, TLAPS

USE RewardsAssumption

LEMMA InitAwardInv == Init => AwardInv
  <1> SUFFICES ASSUME Init PROVE AwardInv
    OBVIOUS
  <1>1. TypeOK
    BY DEF Init, TypeOK, Labels, Sources
  <1>2. BadgePaidOnce
    BY DEF Init, BadgePaidOnce, Keys, Sources
  <1>3. CertificateEarned
    BY DEF Init, CertificateEarned
  <1>4. PayerHoldsAward /\ FinalizedKnown /\ IssuerPassed
    BY DEF Init, PayerHoldsAward, FinalizedKnown, IssuerPassed
  <1> QED BY <1>1, <1>2, <1>3, <1>4 DEF AwardInv

(* What a step of a handler does to its control state.                     *)
LEMMA GoType ==
  ASSUME TypeOK, NEW s \in Submissions, NEW label \in Labels, Go(s, label)
  PROVE  /\ pc' \in [Submissions -> Labels]
         /\ pc'[s] = label
         /\ \A t \in Submissions \ {s} : pc'[t] = pc[t]
  BY DEF TypeOK, Go

(* A step that leaves the rows as they are, and after which the handler    *)
(* neither issues a certificate nor pays another badge, disturbs nothing.  *)
LEMMA QuietStepKeeps ==
  ASSUME AwardInv, UNCHANGED rows, UNCHANGED source, failed' \subseteq Submissions,
         NEW s \in Submissions, NEW label \in Labels \ {"open", "issue"},
         pc[s] # "open", Go(s, label),
         reads' \in [Submissions -> SUBSET Queries],
         todo' \in [Submissions -> SUBSET Badges],
         balance' \in [Submissions -> SUBSET Keys]
  PROVE  AwardInv'
  <1>1. /\ pc' \in [Submissions -> Labels] /\ pc'[s] = label
        /\ \A t \in Submissions \ {s} : pc'[t] = pc[t]
    BY GoType DEF AwardInv
  <1>2. TypeOK'
    BY <1>1 DEF AwardInv, TypeOK, rows
  <1>3. BadgePaidOnce' /\ CertificateEarned' /\ PayerHoldsAward'
    BY DEF AwardInv, rows, BadgePaidOnce, CertificateEarned, PayerHoldsAward
  <1>4. FinalizedKnown' /\ IssuerPassed'
    BY <1>1 DEF AwardInv, rows, FinalizedKnown, IssuerPassed
  <1> QED BY <1>2, <1>3, <1>4 DEF AwardInv

LEMMA FinalizeKeeps ==
  ASSUME AwardInv, NEW s \in Submissions, Finalize(s)
  PROVE  AwardInv'
  <1>0. /\ TypeOK /\ pc[s] = "open"
        /\ UNCHANGED <<enabled, toggles, ledger, award, certificate, reads, todo,
                       source, balance, failed>>
        /\ submitted' = submitted \cup {s}
        /\ passed' = IF s \in PassedAtOnce THEN passed \cup {s} ELSE passed
    BY DEF AwardInv, Finalize
  <1>1. PICK label \in {"balance", "badges"} : Go(s, label)
    BY DEF Finalize
  <1>2. /\ pc' \in [Submissions -> Labels] /\ pc'[s] = label
        /\ \A t \in Submissions \ {s} : pc'[t] = pc[t]
    BY <1>0, <1>1, GoType DEF Labels
  <1>3. TypeOK'
    BY <1>0, <1>2 DEF TypeOK
  <1>4. BadgePaidOnce' /\ PayerHoldsAward'
    BY <1>0 DEF AwardInv, BadgePaidOnce, PayerHoldsAward
  <1>5. CertificateEarned' /\ FinalizedKnown' /\ IssuerPassed'
    BY <1>0, <1>1, <1>2 DEF AwardInv, CertificateEarned, FinalizedKnown, IssuerPassed
  <1> QED BY <1>3, <1>4, <1>5 DEF AwardInv

LEMMA ReadBalanceKeeps ==
  ASSUME AwardInv, NEW s \in Submissions, ReadBalance(s)
  PROVE  AwardInv'
  <1>1. balance' \in [Submissions -> SUBSET Keys]
    BY DEF AwardInv, TypeOK, ReadBalance, Entries
  <1> QED BY <1>1, QuietStepKeeps DEF AwardInv, TypeOK, ReadBalance, Labels

(* The inserted row is the handler's own: of a badge awarded to its        *)
(* attempt, or the base points.                                            *)
LEMMA InsertPointsKeeps ==
  ASSUME AwardInv, NEW s \in Submissions, InsertPoints(s)
  PROVE  AwardInv'
  <1>0. /\ TypeOK /\ pc[s] = "points"
        /\ ledger' = [ledger EXCEPT ![<<source[s], s>>] = balance[s] \cup {<<source[s], s>>}]
        /\ UNCHANGED <<submitted, passed, enabled, toggles, award, certificate,
                       reads, todo, source, balance, failed>>
    BY DEF AwardInv, InsertPoints
  <1>1. PICK label \in {"badges", "award", "certify"} : Go(s, label)
    BY DEF InsertPoints
  <1>2. /\ pc' \in [Submissions -> Labels] /\ pc'[s] = label
        /\ \A t \in Submissions \ {s} : pc'[t] = pc[t]
    BY <1>0, <1>1, GoType DEF Labels
  <1>3. ledger' \in [Keys -> SUBSET Keys]
    <2>1. <<source[s], s>> \in Keys /\ balance[s] \in SUBSET Keys
      BY <1>0 DEF TypeOK, Keys
    <2> QED BY <1>0, <2>1 DEF TypeOK
  <1>4. TypeOK'
    BY <1>0, <1>2, <1>3 DEF TypeOK
  <1>5. BadgePaidOnce'
    <2> SUFFICES ASSUME NEW b \in Badges, NEW t \in Submissions, ledger'[<<b, t>>] # {}
                 PROVE  award[b] = t
      BY <1>0 DEF BadgePaidOnce
    <2>1. CASE <<b, t>> = <<source[s], s>>
      BY <2>1 DEF AwardInv, PayerHoldsAward
    <2>2. CASE <<b, t>> # <<source[s], s>>
      <3>1. <<b, t>> \in Keys
        BY DEF Keys, Sources
      <3>2. ledger'[<<b, t>>] = ledger[<<b, t>>]
        BY <1>0, <2>2, <3>1 DEF TypeOK
      <3> QED BY <3>2 DEF AwardInv, BadgePaidOnce
    <2> QED BY <2>1, <2>2
  <1>6. PayerHoldsAward' /\ CertificateEarned'
    BY <1>0 DEF AwardInv, PayerHoldsAward, CertificateEarned
  <1>7. FinalizedKnown' /\ IssuerPassed'
    BY <1>0, <1>1, <1>2 DEF AwardInv, FinalizedKnown, IssuerPassed
  <1> QED BY <1>4, <1>5, <1>6, <1>7 DEF AwardInv

LEMMA QueryKeeps ==
  ASSUME AwardInv, NEW s \in Submissions, NEW query \in Queries, Query(s, query)
  PROVE  AwardInv'
  <1>1. PICK label \in {"badges", "certify", "award"} : Go(s, label)
    BY DEF Query
  <1>2. todo' \in [Submissions -> SUBSET Badges] /\ reads' \in [Submissions -> SUBSET Queries]
    BY DEF AwardInv, TypeOK, Query
  <1> QED BY <1>1, <1>2, QuietStepKeeps DEF AwardInv, TypeOK, Query, Labels

(* The unique constraint: an award that is created was not there, so no    *)
(* points were paid for the badge and no other handler is paying it.       *)
LEMMA AwardBadgeKeeps ==
  ASSUME AwardInv, NEW s \in Submissions, NEW b \in Badges, AwardBadge(s, b)
  PROVE  AwardInv'
  <1>0. /\ TypeOK /\ pc[s] = "award" /\ award[b] = Null
        /\ award' = [award EXCEPT ![b] = s]
        /\ source' = [source EXCEPT ![s] = b]
        /\ todo' = [todo EXCEPT ![s] = @ \ {b}]
        /\ UNCHANGED <<submitted, passed, enabled, toggles, ledger, certificate,
                       reads, balance, failed>>
    BY DEF AwardInv, AwardBadge, Unawarded
  <1>1. PICK label \in {"balance", "award", "certify"} : Go(s, label)
    BY DEF AwardBadge
  <1>2. /\ pc' \in [Submissions -> Labels] /\ pc'[s] = label
        /\ \A t \in Submissions \ {s} : pc'[t] = pc[t]
    BY <1>0, <1>1, GoType DEF Labels
  <1>3. TypeOK'
    BY <1>0, <1>2 DEF TypeOK, Sources
  <1>4. /\ award'[b] = s /\ source'[s] = b
        /\ \A c \in Badges : award[c] # Null => award'[c] = award[c]
        /\ \A t \in Submissions : t # s => source'[t] = source[t]
    BY <1>0 DEF TypeOK
  <1>5. BadgePaidOnce' /\ PayerHoldsAward'
    BY <1>0, <1>4 DEF AwardInv, BadgePaidOnce, PayerHoldsAward
  <1>6. CertificateEarned' /\ FinalizedKnown' /\ IssuerPassed'
    BY <1>0, <1>1, <1>2 DEF AwardInv, CertificateEarned, FinalizedKnown, IssuerPassed
  <1> QED BY <1>3, <1>5, <1>6 DEF AwardInv

LEMMA SkipBadgeKeeps ==
  ASSUME AwardInv, NEW s \in Submissions, NEW b \in Badges, SkipBadge(s, b)
  PROVE  AwardInv'
  <1>1. PICK label \in {"award", "certify"} : Go(s, label)
    BY DEF SkipBadge
  <1>2. todo' \in [Submissions -> SUBSET Badges]
    BY DEF AwardInv, TypeOK, SkipBadge
  <1> QED BY <1>1, <1>2, QuietStepKeeps DEF AwardInv, TypeOK, SkipBadge, Labels

(* The verdict a handler holds is the stored one or an earlier, and a pass *)
(* is never taken back.                                                    *)
LEMMA ReadCertificateKeeps ==
  ASSUME AwardInv, NEW s \in Submissions, ReadCertificate(s)
  PROVE  AwardInv'
  <1>0. /\ TypeOK /\ pc[s] = "certify" /\ UNCHANGED rows
        /\ UNCHANGED <<reads, todo, source, balance, failed>>
    BY DEF AwardInv, ReadCertificate
  <1>1. CASE Go(s, "done")
    BY <1>0, <1>1, QuietStepKeeps DEF TypeOK, Labels
  <1>2. CASE s \in PassedAtOnce /\ Go(s, "issue")
    <2>1. /\ pc' \in [Submissions -> Labels] /\ pc'[s] = "issue"
          /\ \A t \in Submissions \ {s} : pc'[t] = pc[t]
      BY <1>0, <1>2, GoType DEF Labels
    <2>2. TypeOK'
      BY <1>0, <2>1 DEF TypeOK, rows
    <2>3. BadgePaidOnce' /\ PayerHoldsAward' /\ CertificateEarned'
      BY <1>0 DEF AwardInv, rows, BadgePaidOnce, PayerHoldsAward, CertificateEarned
    <2>4. FinalizedKnown' /\ IssuerPassed'
      BY <1>0, <1>2, <2>1 DEF AwardInv, rows, FinalizedKnown, IssuerPassed
    <2> QED BY <2>2, <2>3, <2>4 DEF AwardInv
  <1> QED BY <1>1, <1>2 DEF ReadCertificate, Certifiable

LEMMA IssueCertificateKeeps ==
  ASSUME AwardInv, NEW s \in Submissions, IssueCertificate(s)
  PROVE  AwardInv'
  <1>0. /\ TypeOK /\ pc[s] = "issue" /\ s \in passed
        /\ UNCHANGED <<submitted, passed, enabled, toggles, ledger, award,
                       reads, todo, source, balance, failed>>
    BY DEF AwardInv, IssuerPassed, IssueCertificate
  <1>1. Go(s, "done")
    BY DEF IssueCertificate
  <1>2. /\ pc' \in [Submissions -> Labels] /\ pc'[s] = "done"
        /\ \A t \in Submissions \ {s} : pc'[t] = pc[t]
    BY <1>0, <1>1, GoType DEF Labels
  <1>3. PICK t \in Tests : t = TestOf[s]
    BY DEF Tests
  <1>4. /\ certificate' \in [Tests -> Submissions \cup {Null}]
        /\ certificate'[t] \in {s, certificate[t]}
        /\ \A u \in Tests : u # t => certificate'[u] = certificate[u]
    BY <1>0, <1>3 DEF TypeOK, IssueCertificate
  <1>5. TypeOK'
    BY <1>0, <1>2, <1>4 DEF TypeOK
  <1>6. CertificateEarned'
    BY <1>0, <1>3, <1>4 DEF AwardInv, CertificateEarned
  <1>7. BadgePaidOnce' /\ PayerHoldsAward'
    BY <1>0 DEF AwardInv, BadgePaidOnce, PayerHoldsAward
  <1>8. FinalizedKnown' /\ IssuerPassed'
    BY <1>0, <1>2 DEF AwardInv, FinalizedKnown, IssuerPassed
  <1> QED BY <1>5, <1>6, <1>7, <1>8 DEF AwardInv

LEMMA FailKeeps ==
  ASSUME AwardInv, NEW s \in Submissions, Fail(s)
  PROVE  AwardInv'
  <1>1. PICK label \in {"certify", "done"} : Go(s, label)
    BY DEF Fail
  <1>2. pc[s] # "open"
    BY DEF Fail
  <1> QED BY <1>1, <1>2, QuietStepKeeps DEF AwardInv, TypeOK, Fail, Labels

(* Verdicts and badge definitions change by themselves.                    *)
LEMMA OthersKeep ==
  ASSUME AwardInv,
         \/ \E s \in Submissions : ReviewPasses(s)
         \/ \E b \in Badges : ToggleBadge(b)
  PROVE  AwardInv'
  <1>1. /\ UNCHANGED <<submitted, ledger, award, certificate, pc, reads, todo,
                       source, balance, failed>>
        /\ passed \subseteq passed'
    BY DEF ReviewPasses, ToggleBadge
  <1>2. TypeOK'
    BY <1>1 DEF AwardInv, TypeOK, ReviewPasses, Reviewable, ToggleBadge
  <1> QED BY <1>1, <1>2 DEF AwardInv, BadgePaidOnce, CertificateEarned,
                            PayerHoldsAward, FinalizedKnown, IssuerPassed

LEMMA NextKeepsAwards == AwardInv /\ [Next]_vars => AwardInv'
  <1> SUFFICES ASSUME AwardInv, [Next]_vars PROVE AwardInv'
    OBVIOUS
  <1>1. CASE UNCHANGED vars
    BY <1>1 DEF vars, AwardInv, TypeOK, BadgePaidOnce, CertificateEarned,
                PayerHoldsAward, FinalizedKnown, IssuerPassed
  <1>2. ASSUME NEW s \in Submissions,
               \/ Finalize(s) \/ ReadBalance(s) \/ InsertPoints(s)
               \/ ReadCertificate(s) \/ IssueCertificate(s) \/ Fail(s)
        PROVE  AwardInv'
    BY <1>2, FinalizeKeeps, ReadBalanceKeeps, InsertPointsKeeps,
       ReadCertificateKeeps, IssueCertificateKeeps, FailKeeps
  <1>3. ASSUME NEW s \in Submissions, NEW query \in Queries, Query(s, query)
        PROVE  AwardInv'
    BY <1>3, QueryKeeps
  <1>4. ASSUME NEW s \in Submissions, NEW b \in Badges, AwardBadge(s, b) \/ SkipBadge(s, b)
        PROVE  AwardInv'
    BY <1>4, AwardBadgeKeeps, SkipBadgeKeeps
  <1> QED BY <1>1, <1>2, <1>3, <1>4, OthersKeep DEF Next

-----------------------------------------------------------------------------
(* What handlers that do not fail still have to do.                        *)
HandlerStep(s) ==
    \/ Finalize(s) \/ ReadBalance(s) \/ InsertPoints(s)
    \/ \E query \in Queries : Query(s, query)
    \/ \E b \in Badges : AwardBadge(s, b) \/ SkipBadge(s, b)
    \/ ReadCertificate(s) \/ IssueCertificate(s) \/ Fail(s)

LEMMA StepKinds ==
  ASSUME [Next]_vars
  PROVE  \/ UNCHANGED vars
         \/ \E s \in Submissions : HandlerStep(s) \/ ReviewPasses(s)
         \/ \E b \in Badges : ToggleBadge(b)
  BY DEF Next, HandlerStep

(* No row of a table is deleted, and no attempt is taken back. *)
LEMMA RowsGrow ==
  ASSUME TypeOK, [Next]_vars
  PROVE  /\ submitted \subseteq submitted' /\ failed \subseteq failed'
         /\ \A b \in Badges : award[b] # Null => award'[b] = award[b]
         /\ \A k \in Keys : ledger[k] # {} => ledger'[k] # {}
         /\ \A u \in Tests : certificate[u] # Null => certificate'[u] # Null
  <1>1. ASSUME NEW s \in Submissions, Finalize(s) \/ ReadBalance(s) \/ ReadCertificate(s) \/ Fail(s)
        PROVE  /\ submitted \subseteq submitted' /\ failed \subseteq failed'
               /\ UNCHANGED <<award, ledger, certificate>>
    BY <1>1 DEF Finalize, ReadBalance, ReadCertificate, Fail, rows
  <1>2. ASSUME NEW s \in Submissions, InsertPoints(s)
        PROVE  /\ UNCHANGED <<submitted, failed, award, certificate>>
               /\ \A k \in Keys : ledger[k] # {} => ledger'[k] # {}
    BY <1>2 DEF InsertPoints, TypeOK
  <1>3. ASSUME NEW s \in Submissions, NEW query \in Queries, Query(s, query)
        PROVE  UNCHANGED <<submitted, failed, award, ledger, certificate>>
    BY <1>3 DEF Query, rows
  <1>4. ASSUME NEW s \in Submissions, NEW b \in Badges, AwardBadge(s, b) \/ SkipBadge(s, b)
        PROVE  /\ UNCHANGED <<submitted, failed, ledger, certificate>>
               /\ \A c \in Badges : award[c] # Null => award'[c] = award[c]
    BY <1>4 DEF AwardBadge, SkipBadge, Unawarded, rows, TypeOK
  <1>5. ASSUME NEW s \in Submissions, IssueCertificate(s)
        PROVE  /\ UNCHANGED <<submitted, failed, award, ledger>>
               /\ \A u \in Tests : certificate[u] # Null => certificate'[u] # Null
    BY <1>5 DEF IssueCertificate, Uncertified, TypeOK
  <1>6. CASE \/ UNCHANGED vars \/ \E s \in Submissions : ReviewPasses(s)
             \/ \E b \in Badges : ToggleBadge(b)
    BY <1>6 DEF vars, ReviewPasses, ToggleBadge
  <1> QED BY <1>1, <1>2, <1>3, <1>4, <1>5, <1>6, StepKinds DEF HandlerStep

(* A handler's attempt, badge and control state change in its own steps.   *)
LEMMA OthersStay ==
  ASSUME TypeOK, [Next]_vars, NEW t \in Submissions, ~HandlerStep(t)
  PROVE  /\ pc'[t] = pc[t] /\ todo'[t] = todo[t] /\ source'[t] = source[t]
         /\ t \in submitted' => t \in submitted
         /\ \A b \in Badges : award'[b] = t => award[b] = t
  <1>1. ASSUME NEW s \in Submissions, HandlerStep(s)
        PROVE  /\ pc'[t] = pc[t] /\ todo'[t] = todo[t] /\ source'[t] = source[t]
               /\ t \in submitted' => t \in submitted
               /\ \A b \in Badges : award'[b] = t => award[b] = t
    <2>0. s # t
      BY <1>1
    <2>1. CASE Finalize(s) \/ ReadBalance(s) \/ InsertPoints(s) \/ ReadCertificate(s)
               \/ IssueCertificate(s) \/ Fail(s)
      BY <2>0, <2>1 DEF Finalize, ReadBalance, InsertPoints, ReadCertificate,
                        IssueCertificate, Fail, Go, rows, TypeOK
    <2>2. ASSUME NEW query \in Queries, Query(s, query)
          PROVE  /\ pc'[t] = pc[t] /\ todo'[t] = todo[t] /\ UNCHANGED source /\ UNCHANGED rows
      BY <2>0, <2>2 DEF Query, Go, TypeOK
    <2>3. ASSUME NEW b \in Badges, AwardBadge(s, b) \/ SkipBadge(s, b)
          PROVE  /\ pc'[t] = pc[t] /\ todo'[t] = todo[t] /\ source'[t] = source[t]
                 /\ UNCHANGED submitted
                 /\ \A c \in Badges : award'[c] = t => award[c] = t
      BY <2>0, <2>3 DEF AwardBadge, SkipBadge, Go, rows, TypeOK
    <2> QED BY <1>1, <2>1, <2>2, <2>3 DEF HandlerStep, rows
  <1>2. CASE \/ UNCHANGED vars \/ \E s \in Submissions : ReviewPasses(s)
             \/ \E b \in Badges : ToggleBadge(b)
    BY <1>2 DEF vars, ReviewPasses, ToggleBadge
  <1> QED BY <1>1, <1>2, StepKinds

(* An attempt is handled once, from a clean start.                         *)
LEMMA NextKeepsOpen ==
  ASSUME AwardInv, OpenUntouched, [Next]_vars
  PROVE  OpenUntouched'
  <1> SUFFICES ASSUME NEW t \in Submissions, pc'[t] = "open"
               PROVE  t \notin submitted' /\ todo'[t] = Badges /\ source'[t] = Base
    BY DEF OpenUntouched
  <1>0. TypeOK /\ TypeOK'
    BY NextKeepsAwards DEF AwardInv
  <1>1. ~HandlerStep(t)
    <2> SUFFICES ASSUME HandlerStep(t) PROVE FALSE
      OBVIOUS
    <2>1. pc'[t] # "open"
      BY <1>0 DEF HandlerStep, Finalize, ReadBalance, InsertPoints, Query, AwardBadge,
                  SkipBadge, ReadCertificate, IssueCertificate, Fail, Go, TypeOK
    <2> QED BY <2>1
  <1> QED BY <1>0, <1>1, OthersStay DEF OpenUntouched

(* A handler goes on to another badge, or to the certificate, only when    *)
(* what it was paying is paid.                                             *)
LEMMA NextKeepsPaid ==
  ASSUME AwardInv, OpenUntouched, AwardsPaid, [Next]_vars
  PROVE  AwardsPaid'
  <1>0. TypeOK
    BY DEF AwardInv
  <1> SUFFICES ASSUME NEW t \in Submissions, t \notin failed'
               PROVE  /\ \A b \in PaidBadges :
                           award'[b] = t => ledger'[<<b, t>>] # {} \/ Paying(t, b)'
                      /\ t \in submitted' /\ t \in BasePaid =>
                           ledger'[<<Base, t>>] # {} \/ Paying(t, Base)'
    BY DEF AwardsPaid
  <1>1. /\ t \notin failed /\ <<Base, t>> \in Keys
        /\ \A b \in PaidBadges : b \in Badges /\ <<b, t>> \in Keys
        /\ \A k \in Keys : ledger[k] # {} => ledger'[k] # {}
    BY <1>0, RowsGrow DEF Keys, Sources
  <1>2. CASE ~HandlerStep(t)
    BY <1>0, <1>1, <1>2, OthersStay DEF AwardsPaid, Paying
  <1>3. CASE Finalize(t)
    <2>1. award' = award /\ ledger' = ledger /\ source' = source /\ pc[t] = "open"
      BY <1>3 DEF Finalize
    <2>2. \A b \in PaidBadges : award[b] = t => ledger[<<b, t>>] # {}
      BY <1>1, <2>1 DEF AwardsPaid, Paying
    <2>3. t \in BasePaid => Paying(t, Base)'
      BY <1>0, <1>3, <2>1 DEF OpenUntouched, Finalize, Worth, Paid, Paying, Go, TypeOK
    <2> QED BY <2>1, <2>2, <2>3
  <1>4. CASE ReadBalance(t)
    <2>1. /\ UNCHANGED rows /\ source' = source /\ pc[t] = "balance" /\ pc'[t] = "points"
      BY <1>0, <1>4 DEF ReadBalance, Go, TypeOK
    <2> QED BY <1>1, <2>1 DEF AwardsPaid, Paying, rows
  <1>5. CASE InsertPoints(t)
    <2>1. /\ UNCHANGED <<award, submitted, source>> /\ pc[t] = "points"
          /\ ledger'[<<source[t], t>>] # {}
      BY <1>0, <1>5 DEF InsertPoints, Keys, TypeOK
    <2> QED BY <1>1, <2>1 DEF AwardsPaid, Paying
  <1>6. ASSUME NEW b \in Badges, AwardBadge(t, b)
        PROVE  /\ \A c \in PaidBadges :
                    award'[c] = t => ledger'[<<c, t>>] # {} \/ Paying(t, c)'
               /\ t \in submitted' /\ t \in BasePaid =>
                    ledger'[<<Base, t>>] # {} \/ Paying(t, Base)'
    <2>1. /\ UNCHANGED <<submitted, ledger>> /\ pc[t] = "award"
          /\ \A c \in Badges \ {b} : award'[c] = award[c]
      BY <1>0, <1>6 DEF AwardBadge, TypeOK
    <2>2. b \in PaidBadges => Paying(t, b)'
      BY <1>0, <1>6 DEF AwardBadge, Worth, Paid, Paying, Go, TypeOK
    <2> QED BY <1>1, <2>1, <2>2 DEF AwardsPaid, Paying
  <1>7. CASE \/ \E query \in Queries : Query(t, query)
             \/ \E b \in Badges : SkipBadge(t, b)
             \/ ReadCertificate(t) \/ IssueCertificate(t)
    <2>1. /\ UNCHANGED <<submitted, ledger, award>> /\ ~Paying(t, Base)
          /\ \A b \in Badges : ~Paying(t, b)
      BY <1>7 DEF Query, SkipBadge, ReadCertificate, IssueCertificate, Paying, rows
    <2> QED BY <1>1, <2>1 DEF AwardsPaid
  <1>8. CASE Fail(t)
    BY <1>0, <1>8 DEF Fail
  <1> QED BY <1>2, <1>3, <1>4, <1>5, <1>6, <1>7, <1>8 DEF HandlerStep

(* The rows of an attempt, and the balance its handler read, are touched   *)
(* by its own handler only.                                                *)
LEMMA OthersRows ==
  ASSUME TypeOK, [Next]_vars, NEW t \in Submissions, ~HandlerStep(t)
  PROVE  /\ balance'[t] = balance[t]
         /\ \A r \in Sources : ledger'[<<r, t>>] = ledger[<<r, t>>]
  <1>1. ASSUME NEW s \in Submissions, HandlerStep(s)
        PROVE  /\ balance'[t] = balance[t]
               /\ \A r \in Sources : ledger'[<<r, t>>] = ledger[<<r, t>>]
    <2>0. s # t
      BY <1>1
    <2>1. CASE ReadBalance(s)
      BY <2>0, <2>1 DEF ReadBalance, rows, TypeOK
    <2>2. CASE InsertPoints(s)
      BY <2>0, <2>2 DEF InsertPoints, Keys, TypeOK
    <2>3. CASE ~ReadBalance(s) /\ ~InsertPoints(s)
      BY <1>1, <2>3 DEF HandlerStep, Finalize, Query, AwardBadge, SkipBadge,
                        ReadCertificate, IssueCertificate, Fail, rows
    <2> QED BY <2>1, <2>2, <2>3
  <1>2. CASE \/ UNCHANGED vars \/ \E s \in Submissions : ReviewPasses(s)
             \/ \E b \in Badges : ToggleBadge(b)
    BY <1>2 DEF vars, ReviewPasses, ToggleBadge
  <1> QED BY <1>1, <1>2, StepKinds

(* A handler pays for one source after the other: its attempt first, then  *)
(* each badge it has just been awarded, which nobody was paid for.         *)
LEMMA NextKeepsPaying ==
  ASSUME AwardInv, OpenUntouched, PayingOnce, [Next]_vars
  PROVE  PayingOnce'
  <1>0. TypeOK /\ Entries \subseteq Entries'
    BY RowsGrow DEF AwardInv, Entries
  <1> SUFFICES ASSUME NEW t \in Submissions
               PROVE  /\ pc'[t] \in {"open", "balance", "points"} =>
                            ledger'[<<source'[t], t>>] = {}
                      /\ balance'[t] \subseteq Entries'
    BY DEF PayingOnce
  <1>1. /\ pc[t] \in {"open", "balance", "points"} => ledger[<<source[t], t>>] = {}
        /\ balance[t] \subseteq Entries /\ source[t] \in Sources
    BY <1>0 DEF PayingOnce, TypeOK
  <1>2. CASE ~HandlerStep(t)
    BY <1>0, <1>1, <1>2, OthersStay, OthersRows
  <1>3. CASE Finalize(t)
    BY <1>0, <1>1, <1>3 DEF Finalize
  <1>4. CASE ReadBalance(t)
    BY <1>0, <1>1, <1>4 DEF ReadBalance, Go, rows, TypeOK
  <1>5. CASE InsertPoints(t)
    <2>1. pc'[t] \in {"badges", "award", "certify"} /\ balance' = balance
      BY <1>0, <1>5 DEF InsertPoints, Go, TypeOK
    <2> QED BY <1>0, <1>1, <2>1
  <1>6. ASSUME NEW b \in Badges, AwardBadge(t, b)
        PROVE  /\ pc'[t] \in {"open", "balance", "points"} => ledger'[<<source'[t], t>>] = {}
               /\ balance'[t] \subseteq Entries'
    <2>1. /\ UNCHANGED <<ledger, balance>> /\ source'[t] = b /\ award[b] = Null
      BY <1>0, <1>6 DEF AwardBadge, Unawarded, TypeOK
    <2>2. ledger[<<b, t>>] = {}
      BY <2>1 DEF AwardInv, BadgePaidOnce
    <2> QED BY <1>0, <1>1, <2>1, <2>2
  <1>7. CASE \/ \E query \in Queries : Query(t, query)
             \/ \E b \in Badges : SkipBadge(t, b)
             \/ ReadCertificate(t) \/ IssueCertificate(t) \/ Fail(t)
    <2>1. balance' = balance /\ pc'[t] \notin {"open", "balance", "points"}
      BY <1>0, <1>7 DEF Query, SkipBadge, ReadCertificate, IssueCertificate, Fail, Go, TypeOK
    <2> QED BY <1>0, <1>1, <2>1
  <1> QED BY <1>2, <1>3, <1>4, <1>5, <1>6, <1>7 DEF HandlerStep

(* Of the attempts counted when a badge's number of tests is reached, the  *)
(* last one finds them all; and nothing takes the badge from its list but  *)
(* its award.                                                              *)
LEMMA NextKeepsComing ==
  ASSUME AwardInv, OpenUntouched, BadgesComing, [Next]_vars
  PROVE  BadgesComing'
  <1>0. TypeOK
    BY DEF AwardInv
  <1> SUFFICES ASSUME failed' = {}, toggles' = 0, NEW b \in CountBadges, b \in enabled',
                      Reached(b)', award'[b] = Null
               PROVE  \E s \in Submissions : Working(s)' /\ b \in todo'[s]
    BY DEF BadgesComing
  <1>1. /\ failed = {} /\ award[b] = Null /\ b \in Badges
        /\ \A s \in Submissions : ~Fail(s)
    BY <1>0, RowsGrow DEF Badges, Fail
  <1>2. toggles = 0 /\ enabled' = enabled
    <2>1. ASSUME NEW c \in Badges, ToggleBadge(c) PROVE FALSE
      BY <1>0, <2>1 DEF ToggleBadge, TypeOK
    <2>2. ASSUME NEW s \in Submissions, HandlerStep(s) \/ ReviewPasses(s)
          PROVE  toggles' = toggles /\ enabled' = enabled
      BY <2>2 DEF HandlerStep, Finalize, ReadBalance, InsertPoints, Query, AwardBadge,
                  SkipBadge, ReadCertificate, IssueCertificate, Fail, ReviewPasses, rows
    <2> QED BY <2>1, <2>2, StepKinds DEF vars
  <1>3. ASSUME NEW s \in Submissions, Finalize(s)
        PROVE  Working(s)' /\ b \in todo'[s]
    BY <1>0, <1>1, <1>3 DEF OpenUntouched, Finalize, Go, Working, TypeOK
  <1>4. CASE \A s \in Submissions : ~Finalize(s)
    <2>1. submitted' = submitted
      BY <1>4, StepKinds
         DEF HandlerStep, ReadBalance, InsertPoints, Query, AwardBadge, SkipBadge, vars,
             ReadCertificate, IssueCertificate, Fail, ReviewPasses, ToggleBadge, rows
    <2>2. PICK s \in Submissions : Working(s) /\ b \in todo[s]
      BY <1>1, <1>2, <2>1 DEF BadgesComing, Reached
    <2>3. CASE ~HandlerStep(s)
      BY <1>0, <2>2, <2>3, OthersStay DEF Working
    <2>4. CASE ReadBalance(s) \/ InsertPoints(s)
      BY <1>0, <2>2, <2>4 DEF ReadBalance, InsertPoints, Go, Working, TypeOK
    <2>5. ASSUME NEW query \in Queries, Query(s, query)
          PROVE  Working(s)' /\ b \in todo'[s]
      <3>1. b \in Left(query, s)
        BY <1>1, <1>2, <2>1, <2>5 DEF Left, Queries, Counted, Reached
      <3> QED BY <1>0, <2>2, <2>5, <3>1 DEF Query, Go, Working, TypeOK
    <2>6. ASSUME NEW c \in Badges, AwardBadge(s, c) \/ SkipBadge(s, c)
          PROVE  Working(s)' /\ b \in todo'[s]
      <3>1. c # b
        BY <1>0, <1>1, <2>6 DEF AwardBadge, SkipBadge, Unawarded, TypeOK
      <3>2. b \in todo'[s] /\ todo[s] # {c}
        BY <1>0, <2>2, <2>6, <3>1 DEF AwardBadge, SkipBadge, TypeOK
      <3> QED BY <1>0, <2>6, <3>2 DEF AwardBadge, SkipBadge, Go, Working, TypeOK
    <2>7. CASE ReadCertificate(s) \/ IssueCertificate(s)
      BY <2>2, <2>7 DEF ReadCertificate, IssueCertificate, Working
    <2> QED BY <1>1, <1>4, <2>3, <2>4, <2>5, <2>6, <2>7 DEF HandlerStep
  <1> QED BY <1>3, <1>4

(* The handler of a pass leaves its list of badges for the certificate.    *)
LEMMA NextKeepsCertificates ==
  ASSUME AwardInv, OpenUntouched, CertificatesComing, [Next]_vars
  PROVE  CertificatesComing'
  <1>0. TypeOK
    BY DEF AwardInv
  <1> SUFFICES ASSUME NEW t \in Submissions, t \in submitted', t \in PassedAtOnce, t \notin failed'
               PROVE  \/ certificate'[TestOf[t]] # Null
                      \/ Working(t)' \/ pc'[t] \in {"certify", "issue"}
    BY <1>0, NextKeepsAwards DEF CertificatesComing, AwardInv, TypeOK
  <1>1. /\ t \notin failed /\ TestOf[t] \in Tests
        /\ certificate[TestOf[t]] # Null => certificate'[TestOf[t]] # Null
    BY <1>0, RowsGrow DEF Tests
  <1>2. CASE ~HandlerStep(t)
    BY <1>0, <1>1, <1>2, OthersStay DEF CertificatesComing, Working
  <1>3. CASE \/ Finalize(t) \/ ReadBalance(t) \/ InsertPoints(t)
             \/ \E query \in Queries : Query(t, query)
             \/ \E b \in Badges : AwardBadge(t, b) \/ SkipBadge(t, b)
    <2>1. pc'[t] \in {"balance", "points", "badges", "award", "certify"}
      BY <1>0, <1>3 DEF Finalize, ReadBalance, InsertPoints, Query, AwardBadge, SkipBadge,
                        Go, TypeOK
    <2> QED BY <2>1 DEF Working
  <1>4. CASE ReadCertificate(t)
    BY <1>0, <1>1, <1>4 DEF ReadCertificate, Certifiable, Certified, Go, TypeOK
  <1>5. CASE IssueCertificate(t)
    <2>1. certificate'[TestOf[t]] = IF certificate[TestOf[t]] = Null THEN t
                                    ELSE certificate[TestOf[t]]
      BY <1>0, <1>1, <1>5 DEF IssueCertificate, Uncertified, TypeOK
    <2> QED BY <2>1
  <1>6. CASE Fail(t)
    BY <1>6 DEF Fail
  <1> QED BY <1>2, <1>3, <1>4, <1>5, <1>6 DEF HandlerStep

LEMMA InitRewardInv == Init => RewardInv
  <1> SUFFICES ASSUME Init PROVE RewardInv
    OBVIOUS
  <1>1. submitted = {} /\ \A b \in Badges : award[b] = Null
    BY DEF Init
  <1>2. OpenUntouched
    BY DEF Init, OpenUntouched
  <1>3. AwardsPaid /\ CertificatesComing
    BY <1>1 DEF AwardsPaid, CertificatesComing
  <1>4. BadgesComing
    BY <1>1 DEF BadgesComing, Reached
  <1>5. PayingOnce
    BY DEF Init, PayingOnce, Keys, Sources
  <1> QED BY <1>2, <1>3, <1>4, <1>5, InitAwardInv DEF RewardInv

LEMMA NextKeepsInv == RewardInv /\ [Next]_vars => RewardInv'
  BY NextKeepsAwards, NextKeepsOpen, NextKeepsPaid, NextKeepsPaying, NextKeepsComing,
     NextKeepsCertificates DEF RewardInv

(* The inductive invariant of the rewards: types, awards and payments,     *)
(* verdicts and certificates.                                              *)
THEOREM RewardInvariant == Spec => []RewardInv
  BY InitRewardInv, NextKeepsInv, PTL DEF Spec

(* A badge pays once, for the attempt it was awarded for.                  *)
THEOREM BadgesPayOnce == Spec => []BadgePaidOnce
  <1>1. RewardInv => BadgePaidOnce
    BY DEF RewardInv, AwardInv
  <1> QED BY <1>1, RewardInvariant, PTL

(* A certificate names a passed attempt of its test.                       *)
THEOREM CertificatesEarned == Spec => []CertificateEarned
  <1>1. RewardInv => CertificateEarned
    BY DEF RewardInv, AwardInv
  <1> QED BY <1>1, RewardInvariant, PTL

(* The first certificate of a test stays, whoever else is about to issue   *)
(* one.                                                                    *)
THEOREM CertificatesKept == Spec => CertificateKept
  <1>1. ASSUME RewardInv, [Next]_vars, NEW t \in Tests, certificate[t] # Null
        PROVE  certificate'[t] = certificate[t]
    <2>1. CASE \E s \in Submissions : IssueCertificate(s)
      <3>1. PICK s \in Submissions : IssueCertificate(s)
        BY <2>1
      <3> QED BY <1>1, <3>1 DEF IssueCertificate, Uncertified, RewardInv, AwardInv, TypeOK
    <2>2. CASE UNCHANGED vars
      BY <2>2 DEF vars
    <2>3. CASE certificate' = certificate
      BY <2>3
    <2> QED BY <1>1, <2>1, <2>2, <2>3
            DEF Next, Finalize, ReadBalance, InsertPoints, Query, AwardBadge, SkipBadge,
                ReadCertificate, Fail, ReviewPasses, ToggleBadge, rows
  <1>2. RewardInv /\ [Next]_vars =>
          [\A t \in Tests : certificate[t] # Null => certificate'[t] = certificate[t]]_vars
    BY <1>1
  <1> QED BY <1>2, RewardInvariant, PTL DEF Spec, CertificateKept

(* No handler that did not fail leaves an award, or the base points of its *)
(* attempt, unpaid: for any number of attempts whose handlers overlap.     *)
THEOREM AwardsArePaid == Spec => []EveryAwardPaid
  <1>1. RewardInv => EveryAwardPaid
    <2> SUFFICES ASSUME RewardInv, Quiet PROVE EveryAwardPaid
      BY DEF EveryAwardPaid
    <2>1. /\ failed = {} /\ award \in [Badges -> Submissions \cup {Null}]
          /\ submitted \subseteq Submissions /\ PaidBadges \subseteq Badges
          /\ \A s \in Submissions, r \in Sources : ~Paying(s, r)
      BY DEF Quiet, RewardInv, AwardInv, TypeOK, Paying
    <2> QED BY <2>1 DEF EveryAwardPaid, RewardInv, AwardsPaid, Sources
  <1> QED BY <1>1, RewardInvariant, PTL

(* A badge for a number of tests is not missed by attempts that are        *)
(* finalized together, however many they are.                              *)
THEOREM CountBadgesAwarded == Spec => []CountBadgeAwarded
  <1>1. RewardInv => CountBadgeAwarded
    BY DEF RewardInv, BadgesComing, CountBadgeAwarded, Quiet, Working
  <1> QED BY <1>1, RewardInvariant, PTL

(* Every test passed at once has its certificate, whichever handlers       *)
(* overlap.                                                                *)
THEOREM PassesCertified == Spec => []PassCertified
  <1>1. RewardInv => PassCertified
    BY DEF RewardInv, AwardInv, TypeOK, CertificatesComing, PassCertified, Quiet, Working
  <1> QED BY <1>1, RewardInvariant, PTL

-----------------------------------------------------------------------------
(* The contract of the rewards.                                            *)
LEMMA ContractInsert ==
  ASSUME RewardInv, NEW s \in Submissions, InsertPoints(s)
  PROVE  \E r \in Badges \cup {Base} : Contract!Credit(r, s)
  <1>0. /\ pc[s] = "points" /\ UNCHANGED <<submitted, passed, award, certificate>>
        /\ ledger' = [ledger EXCEPT ![<<source[s], s>>] = balance[s] \cup {<<source[s], s>>}]
    BY DEF InsertPoints
  <1>1. PICK r \in Badges \cup {Base} : r = source[s]
    BY DEF RewardInv, AwardInv, TypeOK, Sources
  <1>2. s \in submitted /\ (r \in Badges => award[r] = s)
    BY <1>0, <1>1 DEF RewardInv, AwardInv, FinalizedKnown, PayerHoldsAward
  <1>3. ledger[<<r, s>>] = {} /\ balance[s] \in SUBSET Entries
    BY <1>0, <1>1 DEF RewardInv, PayingOnce
  <1>4. balance[s] \in SUBSET Contract!Credited
    BY <1>3 DEF Entries, Keys, Sources, Contract!Credited, Contract!Credits
  <1> QED BY <1>0, <1>1, <1>2, <1>3, <1>4 DEF Contract!Credit

LEMMA ContractNext ==
  ASSUME RewardInv, [Next]_vars
  PROVE  [Contract!Next]_(Contract!vars)
  <1>0. TypeOK
    BY DEF RewardInv, AwardInv
  <1>1. ASSUME NEW s \in Submissions, Finalize(s)
        PROVE  Contract!Finish(s)
    <2>1. s \notin submitted
      BY <1>1 DEF RewardInv, OpenUntouched, Finalize
    <2> QED BY <1>1, <2>1 DEF Finalize, Contract!Finish
  <1>2. ASSUME NEW s \in Submissions, ReviewPasses(s)
        PROVE  Contract!Pass(s)
    BY <1>2 DEF ReviewPasses, Reviewable, Contract!Pass
  <1>3. ASSUME NEW s \in Submissions, NEW b \in Badges, AwardBadge(s, b)
        PROVE  Contract!Grant(b, s)
    <2>1. s \in submitted
      BY <1>3 DEF RewardInv, AwardInv, FinalizedKnown, AwardBadge
    <2> QED BY <1>3, <2>1 DEF AwardBadge, Unawarded, Contract!Grant
  <1>4. ASSUME NEW s \in Submissions, IssueCertificate(s)
        PROVE  Contract!Certify(s) \/ UNCHANGED Contract!vars
    <2>1. /\ s \in passed /\ UNCHANGED <<submitted, passed, award, ledger>>
          /\ certificate' = [certificate EXCEPT ![TestOf[s]] =
                                IF certificate[TestOf[s]] = Null THEN s ELSE @]
      BY <1>4 DEF RewardInv, AwardInv, IssuerPassed, IssueCertificate, Uncertified
    <2>2. CASE certificate[TestOf[s]] = Null
      BY <2>1, <2>2 DEF Contract!Certify
    <2>3. CASE certificate[TestOf[s]] # Null
      <3>1. certificate' = certificate
        BY <1>0, <2>1, <2>3 DEF TypeOK
      <3> QED BY <2>1, <3>1 DEF Contract!vars
    <2> QED BY <2>2, <2>3
  <1>5. ASSUME NEW s \in Submissions,
               \/ ReadBalance(s) \/ ReadCertificate(s) \/ Fail(s)
               \/ \E query \in Queries : Query(s, query)
               \/ \E b \in Badges : SkipBadge(s, b)
        PROVE  UNCHANGED Contract!vars
    BY <1>5 DEF ReadBalance, ReadCertificate, Fail, Query, SkipBadge, rows, Contract!vars
  <1>6. CASE UNCHANGED vars \/ \E b \in Badges : ToggleBadge(b)
    BY <1>6 DEF vars, ToggleBadge, Contract!vars
  <1> QED BY <1>1, <1>2, <1>3, <1>4, <1>5, <1>6, ContractInsert, StepKinds
          DEF HandlerStep, Contract!Next

(* The handlers, whatever their overlap and wherever they fail, implement  *)
(* the contract of the rewards: badges, credits and certificates are given *)
(* once, to an attempt that earned them, and never taken back or rewritten *)
(* (evaluateRewards, awardPoints, issueCertificateIfPassed).               *)
THEOREM ImplementsRewardContract == Spec => RewardContractSpec
  <1>1. Init => Contract!Init
    BY DEF Init, Keys, Sources, Tests, Contract!Init, Contract!Credits, Contract!Tests
  <1>2. RewardInv /\ [Next]_vars => [Contract!Next]_(Contract!vars)
    BY ContractNext
  <1> QED BY <1>1, <1>2, RewardInvariant, PTL DEF Spec, RewardContractSpec, Contract!Spec
=============================================================================
