------------------------- MODULE GenerationContract -------------------------
(***************************************************************************)
(* What the AI service promises, without handlers, providers or deaths: a  *)
(* key is used for one generation, which one server works on and which is  *)
(* charged once, after its output is stored; drafts are made of an output  *)
(* that was stored, and stay; a question is made of a draft that was open  *)
(* when it was asked for, and a test of questions no other test took; and  *)
(* a request that looked at the budgets after the last charge keeps them.  *)
(***************************************************************************)
EXTENDS Naturals

CONSTANTS Keys, TestKeys, Configs, Budget, Items

Draft == 1..Items

VARIABLES
    asked,      \* keys asked for and not answered, and whether the budgets were
                \* looked at after the last charge ("fresh") or not ("late")
    stage,      \* of each key
    task,       \* what its server still has to do
    late,       \* generations under way beside which another one was charged
    config,     \* the configuration each key counts for
    spent,      \* of each configuration
    returning,  \* keys whose output is being made drafts
    draft,
    taking,     \* drafts a question is being made of
    saved, tests

charges == <<config, spent>>
work == <<asked, stage, task, late>>
products == <<returning, draft, taking, saved, tests>>
vars == <<work, charges, products>>

Init ==
    /\ asked = {} /\ late = {} /\ returning = {} /\ taking = {}
    /\ stage = [k \in Keys |-> "none"]
    /\ task = [k \in Keys |-> "none"]
    /\ config = [k \in Keys |-> 0]
    /\ spent = [c \in Configs |-> 0]
    /\ draft = [k \in Keys |-> [i \in Draft |-> "none"]]
    /\ saved = [k \in Keys |-> [i \in Draft |-> 0]]
    /\ tests = [k \in Keys |-> 0]

Free == {c \in Configs : spent[c] < Budget}

(* One of those who asked is answered; others may still wait.              *)
Answered(x) == x \in asked /\ asked' \in {asked, asked \ {x}}

Ask(k) ==
    /\ asked' = asked \cup {<<"fresh", k>>}
    /\ UNCHANGED <<stage, task, late, charges, products>>

(* The key is new: its generation begins, or is blocked, and only if every *)
(* budget is spent.                                                        *)
Begin(k, seen, c) ==
    /\ Answered(<<seen, k>>) /\ stage[k] = "none"
    /\ stage' = [stage EXCEPT ![k] = "running"]
    /\ config' = [config EXCEPT ![k] = c]
    /\ \/ (seen = "fresh" => c \in Free) /\ task' = [task EXCEPT ![k] = "generating"]
       \/ (seen = "fresh" => Free = {}) /\ task' = [task EXCEPT ![k] = "blocking"]
    /\ late' = IF seen = "late" THEN late \cup {k} ELSE late
    /\ UNCHANGED <<spent, products>>

(* The key was used: its output is returned again, or the answer is an error. *)
Repeat(k, seen) ==
    /\ Answered(<<seen, k>>)
    /\ \/ stage[k] = "succeeded" /\ returning' = returning \cup {k}
       \/ UNCHANGED returning
    /\ UNCHANGED <<stage, task, late, charges, draft, taking, saved, tests>>

Block(k) ==
    /\ task[k] = "blocking"
    /\ stage' = [stage EXCEPT ![k] = "blocked"]
    /\ task' = [task EXCEPT ![k] = "none"] /\ late' = late \ {k}
    /\ UNCHANGED <<asked, charges, products>>

Store(k) ==
    /\ task[k] = "generating"
    /\ stage' = [stage EXCEPT ![k] = "succeeded"]
    /\ task' = [task EXCEPT ![k] = "charging"]
    /\ UNCHANGED <<asked, late, charges, products>>

Charge(k) ==
    /\ task[k] = "charging" /\ (k \notin late => config[k] \in Free)
    /\ spent' = [spent EXCEPT ![config[k]] = @ + 1]
    /\ task' = [task EXCEPT ![k] = "none"]
    /\ late' = {p \in Keys : task'[p] # "none"}
    /\ asked' = {<<"late", x[2]>> : x \in asked}
    /\ returning' = returning \cup {k}
    /\ UNCHANGED <<stage, config, draft, taking, saved, tests>>

(* A generation that goes wrong is failed, though its output was stored,   *)
(* unless its server is gone; once it is charged it is not failed.         *)
GoWrong(k) ==
    /\ task[k] \in {"generating", "charging"}
    /\ task' = [task EXCEPT ![k] = "failing"]
    /\ UNCHANGED <<asked, stage, late, charges, products>>

Fail(k) ==
    /\ task[k] = "failing"
    /\ stage' = [stage EXCEPT ![k] = "failed"]
    /\ task' = [task EXCEPT ![k] = "none"] /\ late' = late \ {k}
    /\ UNCHANGED <<asked, charges, products>>

(* A server gives up what it does.                                         *)
Drop(k) ==
    /\ \/ /\ task' = [task EXCEPT ![k] = "none"] /\ late' = late \ {k}
          /\ UNCHANGED <<returning, taking>>
       \/ returning' = returning \ {k} /\ UNCHANGED <<task, late, taking>>
       \/ /\ \E i \in Draft : taking' = taking \ {<<k, i>>}
          /\ UNCHANGED <<task, late, returning>>
    /\ UNCHANGED <<asked, stage, charges, draft, saved, tests>>

Return(k) ==
    /\ k \in returning /\ returning' \in {returning, returning \ {k}}
    /\ draft' = [draft EXCEPT ![k] =
                    [i \in Draft |-> IF @[i] = "none" THEN "open" ELSE @[i]]]
    /\ UNCHANGED <<work, charges, taking, saved, tests>>

Take(k, i) ==
    /\ draft[k][i] = "open"
    /\ taking' = taking \cup {<<k, i>>}
    /\ UNCHANGED <<work, charges, returning, draft, saved, tests>>

Question(k, i) ==
    /\ <<k, i>> \in taking /\ taking' \in {taking, taking \ {<<k, i>>}}
    /\ draft' = [draft EXCEPT ![k][i] = "accepted"]
    /\ saved' = [saved EXCEPT ![k][i] = @ + 1]
    /\ UNCHANGED <<work, charges, returning, tests>>

Test(k) ==
    /\ k \in TestKeys
    /\ \A i \in Draft : draft[k][i] = "accepted" /\ tests[k] < saved[k][i]
    /\ tests' = [tests EXCEPT ![k] = @ + 1]
    /\ UNCHANGED <<work, charges, returning, draft, taking, saved>>

Next == \E k \in Keys :
    \/ Drop(k) \/ Ask(k)
    \/ \E seen \in {"fresh", "late"} : Repeat(k, seen) \/ \E c \in Configs : Begin(k, seen, c)
    \/ Block(k) \/ Store(k) \/ Charge(k) \/ GoWrong(k) \/ Fail(k)
    \/ Return(k) \/ Test(k) \/ \E i \in Draft : Take(k, i) \/ Question(k, i)

Spec == Init /\ [][Next]_vars
=============================================================================
