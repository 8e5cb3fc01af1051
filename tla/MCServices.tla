----------------------------- MODULE MCServices -----------------------------
(***************************************************************************)
(* The services beside the assessment, for TLC.  They share no state but   *)
(* what their modules compose (employees and plans, tests and questions),  *)
(* so that one run checks them side by side: "running" is the one that     *)
(* moves, the others stay as they start.                                   *)
(***************************************************************************)
EXTENDS AuditTrail, Employees, OrgUnits, Learning, Authoring, Generation, TLC

CONSTANTS small, big

VARIABLE running

Limits == small :> 1 @@ big :> 2
Perms == Permutations(Handlers) \cup Permutations(People) \cup Permutations(Teams)

companyVars == <<billingVars, staffVars>>
testVars == <<bankVars, authoringVars>>
vars == <<running, auditVars, companyVars, unitVars,
          learningVars, testVars, generationVars>>

\* Bound: one version of a question fewer when there are tests too.
FewVersions == \A q \in Questions : Len(version[q]) < MaxVersions

MCInit ==
    /\ running \in {"audit", "billing", "company", "units",
                    "learning", "bank", "tests", "generation"}
    /\ AuditInit /\ CompanyInit /\ UnitsInit
    /\ LearningInit /\ BankAndTestsInit /\ GenerationInit

MCNext ==
    /\ UNCHANGED running
    /\ IF running = "audit" THEN AuditNext ELSE UNCHANGED auditVars
    /\ CASE running = "billing" -> BillingNext /\ UNCHANGED staffVars
         [] running = "company" -> CompanyNext
         [] OTHER -> UNCHANGED companyVars
    /\ IF running = "units" THEN UnitsNext ELSE UNCHANGED unitVars
    /\ IF running = "learning" THEN LearningNext ELSE UNCHANGED learningVars
    /\ CASE running = "bank" -> BankNext /\ UNCHANGED authoringVars
         [] running = "tests" -> BankAndTestsNext /\ FewVersions'
         [] OTHER -> UNCHANGED testVars
    /\ IF running = "generation" THEN GenerationNext ELSE UNCHANGED generationVars

MCSpec == MCInit /\ [][MCNext]_vars
=============================================================================
