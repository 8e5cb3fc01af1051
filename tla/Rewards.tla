------------------------------ MODULE Rewards ------------------------------
(***************************************************************************)
(* What follows the finalization of an attempt: points, badges and the     *)
(* certificate of one employee.  The handler that finalized an attempt     *)
(* (module Attempts: one handler per attempt) runs evaluateRewards and     *)
(* then issueCertificateIfPassed, statement by statement and outside any   *)
(* transaction; the handlers of several attempts of the employee overlap.  *)
(* The balance of a ledger row is modelled by the rows it adds up.         *)
(***************************************************************************)
EXTENDS Integers, FiniteSets

CONSTANTS
    Submissions,       \* the employee's official attempts
    TestOf,            \* the test of each
    BasePaid,          \* attempts whose percentage earns base points
    PassedAtOnce,      \* attempts passed when they are finalized
    PassedByReview,    \* attempts that a manual review finds passed
    CountBadges,       \* badges earned by a number of tests
    ScoreBadges,       \* badges earned by the result of an attempt
    Threshold,         \* the number of tests a count badge asks for
    HighScores,        \* attempts whose result earns the score badges
    PaidBadges,        \* badges that come with points
    MaxToggles,        \* bound: activations and deactivations of badges
    MaxFailures,       \* bound: handlers that fail or die
    Base, Null

Badges == CountBadges \cup ScoreBadges
Tests == {TestOf[s] : s \in Submissions}
Sources == Badges \cup {Base}
Keys == Sources \X Submissions      \* idempotencyKey
Paid == (PaidBadges \X Submissions) \cup ({Base} \X BasePaid)

ASSUME RewardsAssumption ==
    /\ BasePaid \subseteq Submissions /\ PaidBadges \subseteq Badges
    /\ PassedAtOnce \subseteq Submissions /\ PassedByReview \subseteq Submissions
    /\ Base \notin Badges /\ Null \notin Submissions
    /\ MaxToggles \in Nat /\ MaxFailures \in Nat

VARIABLES
    submitted,  \* finalized attempts
    passed,     \* attempts whose result says passed
    enabled,    \* active badge definitions
    toggles,
    ledger,     \* RewardPointLedger rows by idempotency key: the rows a
                \* balance adds up, its own among them; {} when absent
    award,      \* BadgeAward rows: the attempt each badge was awarded for
    certificate,\* Certificate rows: the attempt each test was certified for
    pc, reads, todo, source, balance,  \* the handler of each attempt
    failed      \* history: attempts whose handler failed

rows == <<submitted, passed, enabled, toggles, ledger, award, certificate>>
vars == <<submitted, passed, enabled, toggles, ledger, award, certificate,
          pc, reads, todo, source, balance, failed>>

Queries == {"definitions", "attempts", "awards"}

Init ==
    /\ submitted = {} /\ passed = {}
    /\ enabled \in SUBSET Badges /\ toggles = 0
    /\ ledger = [k \in Keys |-> {}]
    /\ award = [b \in Badges |-> Null]
    /\ certificate = [t \in Tests |-> Null]
    /\ pc = [s \in Submissions |-> "open"]
    /\ reads = [s \in Submissions |-> Queries]
    /\ todo = [s \in Submissions |-> Badges]
    /\ source = [s \in Submissions |-> Base]
    /\ balance = [s \in Submissions |-> {}]
    /\ failed = {}

Go(s, label) == pc' = [pc EXCEPT ![s] = label]

Entries == {k \in Keys : ledger[k] # {}}

(* Mutation: the badge's points are forgotten for one of the badges.       *)
BugWorth(r, s) == <<r, s>> \in Paid /\ r \notin CountBadges
Worth(r, s) == <<r, s>> \in Paid

-----------------------------------------------------------------------------
(* The commit of finalizeAttempt, then evaluateRewards.                    *)
Finalize(s) ==
    /\ pc[s] = "open"
    /\ submitted' = submitted \cup {s}
    /\ passed' = IF s \in PassedAtOnce THEN passed \cup {s} ELSE passed
    /\ Go(s, IF Worth(Base, s) THEN "balance" ELSE "badges")
    /\ UNCHANGED <<enabled, toggles, ledger, award, certificate,
                   reads, todo, source, balance, failed>>

(* awardPoints adds up the ledger ...                                      *)
ReadBalance(s) ==
    /\ pc[s] = "balance"
    /\ balance' = [balance EXCEPT ![s] = Entries]
    /\ Go(s, "points")
    /\ UNCHANGED rows /\ UNCHANGED <<reads, todo, source, failed>>

(* ... and inserts the row.  The key names the attempt, whose only handler *)
(* this is: no such row exists yet.                                        *)
InsertPoints(s) ==
    /\ pc[s] = "points"
    /\ LET key == <<source[s], s>>
       IN ledger' = [ledger EXCEPT ![key] = balance[s] \cup {key}]
    /\ Go(s, IF source[s] = Base THEN "badges"
             ELSE IF todo[s] # {} THEN "award" ELSE "certify")
    /\ UNCHANGED <<submitted, passed, enabled, toggles, award, certificate,
                   reads, todo, source, balance, failed>>

(* Mutation: the attempt just finalized is not counted. *)
BugCounted(s) == submitted \ {s}
Counted(s) == submitted

(* What each of the queries leaves of the badges to award: the active      *)
(* ones, the earned ones, those not awarded yet.                           *)
Left(query, s) ==
    CASE query = "definitions" -> enabled
      [] query = "attempts" ->
            {b \in CountBadges : Cardinality(Counted(s)) >= Threshold[b]}
                \cup {b \in ScoreBadges : s \in HighScores}
      [] query = "awards" -> {b \in Badges : award[b] = Null}

(* One of the three queries, sent at the same time and answered in any     *)
(* order.                                                                  *)
Query(s, query) ==
    /\ pc[s] = "badges" /\ query \in reads[s]
    /\ reads' = [reads EXCEPT ![s] = @ \ {query}]
    /\ todo' = [todo EXCEPT ![s] = @ \cap Left(query, s)]
    /\ Go(s, IF reads[s] # {query} THEN "badges"
             ELSE IF todo[s] \cap Left(query, s) = {} THEN "certify" ELSE "award")
    /\ UNCHANGED rows /\ UNCHANGED <<source, balance, failed>>

(* Mutation: the unique constraint (and its P2002 branch) is missing.      *)
BugUnawarded(b) == b \in Badges
Unawarded(b) == award[b] = Null

(* Creates the award of the next badge; its points follow.                 *)
AwardBadge(s, b) ==
    /\ pc[s] = "award" /\ b \in todo[s]
    /\ Unawarded(b)
    /\ award' = [award EXCEPT ![b] = s]
    /\ todo' = [todo EXCEPT ![s] = @ \ {b}]
    /\ source' = [source EXCEPT ![s] = b]
    /\ Go(s, IF Worth(b, s) THEN "balance"
             ELSE IF todo[s] # {b} THEN "award" ELSE "certify")
    /\ UNCHANGED <<submitted, passed, enabled, toggles, ledger, certificate,
                   reads, balance, failed>>

(* P2002: another handler awarded it meanwhile.                            *)
SkipBadge(s, b) ==
    /\ pc[s] = "award" /\ b \in todo[s]
    /\ ~Unawarded(b)
    /\ todo' = [todo EXCEPT ![s] = @ \ {b}]
    /\ Go(s, IF todo[s] # {b} THEN "award" ELSE "certify")
    /\ UNCHANGED rows /\ UNCHANGED <<reads, source, balance, failed>>

(* Mutation: the verdict is not looked at. *)
Certifiable(s) == s \in PassedAtOnce

(* Mutation: only a first attempt at a test is certified. *)
BugCertified(s) == \E other \in submitted \ {s} : TestOf[other] = TestOf[s]
Certified(s) == certificate[TestOf[s]] # Null

(* issueCertificateIfPassed: the verdict of the finalization, and whether  *)
(* the test is certified already ...                                       *)
ReadCertificate(s) ==
    /\ pc[s] = "certify"
    /\ Go(s, IF Certifiable(s) /\ ~Certified(s) THEN "issue" ELSE "done")
    /\ UNCHANGED rows /\ UNCHANGED <<reads, todo, source, balance, failed>>

(* Mutation: a certificate is replaced by a later one. *)
BugUncertified(t) == t \in Tests
Uncertified(t) == certificate[t] = Null

(* ... and the insert, or P2002.                                           *)
IssueCertificate(s) ==
    /\ pc[s] = "issue"
    /\ certificate' = [certificate EXCEPT ![TestOf[s]] =
                          IF Uncertified(TestOf[s]) THEN s ELSE @]
    /\ Go(s, "done")
    /\ UNCHANGED <<submitted, passed, enabled, toggles, ledger, award,
                   reads, todo, source, balance, failed>>

(* A statement fails: finalizeAttempt catches the error of evaluateRewards *)
(* and goes on to the certificate.  Or the process dies.                   *)
Fail(s) ==
    /\ \/ pc[s] \in {"balance", "points", "badges", "award"} /\ Go(s, "certify")
       \/ pc[s] \notin {"open", "done"} /\ Go(s, "done")
    /\ failed' = failed \cup {s} /\ Cardinality(failed') <= MaxFailures
    /\ UNCHANGED rows /\ UNCHANGED <<reads, todo, source, balance>>

(* Mutation: an attempt is reviewed that was never finalized. *)
Reviewable == submitted \cap PassedByReview

(* A manual review publishes another verdict (module Reviews); neither     *)
(* rewards nor certificates follow.                                        *)
ReviewPasses(s) ==
    /\ s \in Reviewable
    /\ passed' = passed \cup {s}
    /\ UNCHANGED <<submitted, enabled, toggles, ledger, award,
                   certificate, pc, reads, todo, source, balance, failed>>

(* PATCH /badges/:id/toggle writes the opposite of the status it read; the *)
(* status may have changed since.                                          *)
ToggleBadge(b) ==
    /\ toggles < MaxToggles
    /\ toggles' = toggles + 1
    /\ enabled' \in {enabled \ {b}, enabled \cup {b}}
    /\ UNCHANGED <<submitted, passed, ledger, award, certificate,
                   pc, reads, todo, source, balance, failed>>

Next ==
    \/ \E s \in Submissions :
          \/ Finalize(s) \/ ReadBalance(s) \/ InsertPoints(s)
          \/ \E query \in Queries : Query(s, query)
          \/ \E b \in Badges : AwardBadge(s, b) \/ SkipBadge(s, b)
          \/ ReadCertificate(s) \/ IssueCertificate(s)
          \/ Fail(s) \/ ReviewPasses(s)
    \/ \E b \in Badges : ToggleBadge(b)

Spec == Init /\ [][Next]_vars

-----------------------------------------------------------------------------
Labels == {"open", "balance", "points", "badges", "award", "certify", "issue", "done"}

(* The type invariant. *)
TypeOK ==
    /\ submitted \subseteq Submissions /\ passed \subseteq submitted
    /\ enabled \subseteq Badges /\ toggles \in 0..MaxToggles
    /\ ledger \in [Keys -> SUBSET Keys]
    /\ award \in [Badges -> Submissions \cup {Null}]
    /\ certificate \in [Tests -> Submissions \cup {Null}]
    /\ pc \in [Submissions -> Labels]
    /\ reads \in [Submissions -> SUBSET Queries]
    /\ todo \in [Submissions -> SUBSET Badges]
    /\ source \in [Submissions -> Sources]
    /\ balance \in [Submissions -> SUBSET Keys]
    /\ failed \subseteq Submissions

(* A badge pays its points once, for the attempt it was awarded for,       *)
(* although the idempotency key of its points names the attempt and        *)
(* several attempts may earn it at the same time.                          *)
BadgePaidOnce ==
    \A b \in Badges, s \in Submissions : ledger[<<b, s>>] # {} => award[b] = s

(* The first certificate of a test is the one that stays, whichever of the *)
(* attempts that passed it at the same time issues it.                     *)
CertificateKept ==
    [][\A t \in Tests : certificate[t] # Null => certificate'[t] = certificate[t]]_vars

(* A certificate names a passed attempt of its test. *)
CertificateEarned ==
    \A t \in Tests : certificate[t] # Null =>
        certificate[t] \in passed /\ TestOf[certificate[t]] = t

(* No handler is at work, and none has failed. *)
Quiet == failed = {} /\ \A s \in Submissions : pc[s] \in {"open", "done"}

(* When no handler fails, every award has been paid in the end, and every  *)
(* finalized attempt has its base points.                                  *)
EveryAwardPaid ==
    Quiet =>
        /\ \A b \in PaidBadges : award[b] # Null => ledger[<<b, award[b]>>] # {}
        /\ \A s \in submitted \cap BasePaid : ledger[<<Base, s>>] # {}

(* When no handler fails and the badges stay as they are, an active badge  *)
(* for a number of tests is awarded as soon as the number is reached:      *)
(* attempts that are finalized together do not each miss the other.  (A    *)
(* badge for no test at all, which the validation admits, comes with the   *)
(* first attempt.)                                                         *)
Reached(b) == submitted # {} /\ Cardinality(submitted) >= Threshold[b]
CountBadgeAwarded ==
    Quiet /\ toggles = 0 =>
        \A b \in CountBadges \cap enabled : Reached(b) => award[b] # Null

(* When no handler fails, every test passed at once has its certificate.   *)
PassCertified ==
    Quiet => \A s \in submitted \cap PassedAtOnce : certificate[TestOf[s]] # Null

(* The handlers, overlapping or failing anywhere, keep the contract of the *)
(* rewards: a badge is granted once, points are credited once in rows that *)
(* stay as they were written, the first certificate of a test is the one   *)
(* that stays.                                                             *)
Contract == INSTANCE RewardContract WITH
    Sittings <- Submissions,
    finished <- submitted,
    holder <- award,
    account <- ledger,
    diploma <- certificate

RewardContractSpec == Contract!Spec

-----------------------------------------------------------------------------
(* What the documents and comments say, and the code does not keep.        *)

(* DATA_MODEL.md on RewardPointLedger: "balance arithmetic serialized": of *)
(* two rows, the balance of the later one counts the earlier.              *)
BalanceIsRunningTotal ==
    \A k, e \in Entries : k \in ledger[e] \/ e \in ledger[k]

(* The comment on issueCertificateIfPassed: "Auto-issues a certificate on  *)
(* the employee's first pass of an assessment".                            *)
EveryPassCertified ==
    Quiet => \A s \in passed : certificate[TestOf[s]] # Null

-----------------------------------------------------------------------------
(* The inductive invariant: the badge whose points a handler pays was      *)
(* awarded to its attempt, and a handler about to issue a certificate has  *)
(* a passed attempt.                                                       *)
PayerHoldsAward ==
    \A s \in Submissions : source[s] \in Badges => award[source[s]] = s
FinalizedKnown ==
    \A s \in Submissions :
        pc[s] # "open" => s \in submitted /\ (s \in PassedAtOnce => s \in passed)
IssuerPassed ==
    \A s \in Submissions : pc[s] = "issue" => s \in passed

AwardInv ==
    TypeOK /\ BadgePaidOnce /\ CertificateEarned
        /\ PayerHoldsAward /\ FinalizedKnown /\ IssuerPassed

(* What a handler that did not fail still has to do: pay the award it      *)
(* created or its base points, award a badge it found earned, certify the  *)
(* pass.  Nothing is left undone without a handler at work on it.          *)
Working(s) == pc[s] \in {"balance", "points", "badges", "award"}
Paying(s, r) == pc[s] \in {"balance", "points"} /\ source[s] = r

OpenUntouched ==
    \A s \in Submissions : pc[s] = "open" =>
        s \notin submitted /\ todo[s] = Badges /\ source[s] = Base

AwardsPaid ==
    \A s \in Submissions \ failed :
        /\ \A b \in PaidBadges : award[b] = s => ledger[<<b, s>>] # {} \/ Paying(s, b)
        /\ s \in submitted \cap BasePaid => ledger[<<Base, s>>] # {} \/ Paying(s, Base)

(* The points a handler is about to credit are not in the ledger yet, and  *)
(* the balance it read counts rows that are.                               *)
PayingOnce ==
    \A s \in Submissions :
        /\ pc[s] \in {"open", "balance", "points"} => ledger[<<source[s], s>>] = {}
        /\ balance[s] \subseteq Entries

BadgesComing ==
    failed = {} /\ toggles = 0 => \A b \in CountBadges \cap enabled :
        Reached(b) => award[b] # Null \/ \E s \in Submissions : Working(s) /\ b \in todo[s]

CertificatesComing ==
    \A s \in (submitted \cap PassedAtOnce) \ failed :
        certificate[TestOf[s]] # Null \/ Working(s) \/ pc[s] \in {"certify", "issue"}

RewardInv ==
    /\ AwardInv
    /\ OpenUntouched /\ AwardsPaid /\ PayingOnce /\ BadgesComing /\ CertificatesComing
=============================================================================
