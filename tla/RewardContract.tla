--------------------------- MODULE RewardContract ---------------------------
(***************************************************************************)
(* What an employee is promised for finished attempts, without handlers,   *)
(* queries or failures: a badge is granted once, to an attempt that is     *)
(* finished; points are credited once for each thing that earned them, in  *)
(* a row that is never rewritten and whose balance counts what was         *)
(* credited before; a test is certified once, by an attempt that passed it.*)
(***************************************************************************)
CONSTANTS
    Sittings,   \* the attempts of the employee
    TestOf,     \* the test of each
    Badges,
    Base,       \* the source of the points for the attempt itself
    Null

Credits == (Badges \cup {Base}) \X Sittings
Tests == {TestOf[x] : x \in Sittings}

VARIABLES
    finished, passed,
    holder,     \* the attempt each badge was granted for
    account,    \* the credits each balance adds up, its own among them
    diploma     \* the attempt each test was certified for

vars == <<finished, passed, holder, account, diploma>>

Credited == {c \in Credits : account[c] # {}}

Init ==
    /\ finished = {} /\ passed = {}
    /\ holder = [b \in Badges |-> Null]
    /\ account = [c \in Credits |-> {}]
    /\ diploma = [t \in Tests |-> Null]

Finish(x) ==
    /\ x \notin finished
    /\ finished' = finished \cup {x}
    /\ passed' \in {passed, passed \cup {x}}
    /\ UNCHANGED <<holder, account, diploma>>

Pass(x) ==
    /\ x \in finished
    /\ passed' = passed \cup {x}
    /\ UNCHANGED <<finished, holder, account, diploma>>

Grant(b, x) ==
    /\ x \in finished /\ holder[b] = Null
    /\ holder' = [holder EXCEPT ![b] = x]
    /\ UNCHANGED <<finished, passed, account, diploma>>

Credit(r, x) ==
    /\ x \in finished
    /\ r \in Badges => holder[r] = x
    /\ account[<<r, x>>] = {}
    /\ \E earlier \in SUBSET Credited :
          account' = [account EXCEPT ![<<r, x>>] = earlier \cup {<<r, x>>}]
    /\ UNCHANGED <<finished, passed, holder, diploma>>

Certify(x) ==
    /\ x \in passed /\ diploma[TestOf[x]] = Null
    /\ diploma' = [diploma EXCEPT ![TestOf[x]] = x]
    /\ UNCHANGED <<finished, passed, holder, account>>

Next == \E x \in Sittings :
    \/ Finish(x) \/ Pass(x) \/ Certify(x)
    \/ \E b \in Badges : Grant(b, x)
    \/ \E r \in Badges \cup {Base} : Credit(r, x)

Spec == Init /\ [][Next]_vars
=============================================================================
