------------------------------ MODULE OrgUnits ------------------------------
(***************************************************************************)
(* Departments and teams of a company: their names and codes, the team's   *)
(* department and leader, the employees in them, and their deletion.       *)
(* Branches are handled as departments are.  Every operation validates     *)
(* what it was given before it writes, one query after another.            *)
(***************************************************************************)
EXTENDS Handlers

CONSTANTS
    Departments, Teams, Staff,  \* rows that may be created, and employees
    Names,                      \* up to letter case
    NoUnit, NoLeader

ASSUME UnitsAssumption ==
    /\ IsFiniteSet(Departments) /\ IsFiniteSet(Teams) /\ Departments \cap Teams = {}
    /\ Names # {} /\ NoUnit \notin Departments \cup Teams /\ NoLeader \notin Staff

VARIABLES
    unit,     \* Department, Team: status, name, suffix of its code
    under,    \* departmentId of a team, and of an employee
    inTeam,   \* TeamMembership rows, those that ended included
    lead,     \* those with isLead
    organizing,  \* what the handlers are doing
    loose     \* history: units that were named or joined by requests that
              \* overlapped, and teams that were renamed

unitVars == <<unit, under, inTeam, lead, organizing, loose>>

Units == Departments \cup Teams
Suffix == 1..Cardinality(Units) + 1
Unit == [st : {"none", "live", "deleted"}, name : Names, suffix : Suffix]
Fresh == [st |-> "none", name |-> CHOOSE n \in Names : TRUE, suffix |-> 1]
Kind(u) == IF u \in Teams THEN Teams ELSE Departments

UnitsState ==
    {Idle}
    \cup [op : {"named"}, unit : Units, name : Names, under : Departments \cup {NoUnit},
          lead : Staff \cup {NoLeader}]
    \cup [op : {"coded"}, unit : Units, name : Names, suffix : Suffix,
          under : Departments \cup {NoUnit}, lead : Staff \cup {NoLeader}]
    \cup [op : {"retitle"}, unit : Teams, name : Names, under : Departments \cup {NoUnit},
          lead : Staff \cup {NoLeader}]
    \cup [op : {"delete"}, unit : Units]
    \cup [op : {"place"}, who : Staff, unit : Units]

UnitsInit ==
    /\ unit = [u \in Units |-> Fresh]
    /\ under = [x \in Teams \cup Staff |-> NoUnit]
    /\ inTeam = {} /\ lead = {}
    /\ organizing = [h \in Handlers |-> Idle] /\ loose = {}

UnitGoes(h, s) == organizing' = [organizing EXCEPT ![h] = s]
InUse(u) == unit[u].st = "live"
UnitExists(d) == d \in {NoUnit} \cup {v \in Departments : InUse(v)}

\* Nobody is deleting the unit, or has.
Stays(u) ==
    \/ u = NoUnit
    \/ InUse(u) /\ \A h \in Handlers : organizing[h].op = "delete" => organizing[h].unit # u

\* _count of a unit: every row that refers to it, deleted and ended ones too.
Attached(u) == IF u \in Teams THEN {x \in Staff : <<u, x>> \in inTeam}
               ELSE {x \in Teams \cup Staff : under[x] = u}

-----------------------------------------------------------------------------
\* POST: no live unit of the kind has the name,
Taken(u, n) == \E v \in Kind(u) : InUse(v) /\ unit[v].name = n
CheckName(h, u, n, d, l) ==
    /\ organizing[h] = Idle /\ unit[u].st = "none"
    /\ (u \in Departments => d = NoUnit /\ l = NoLeader)
    /\ UnitExists(d) /\ ~Taken(u, n)
    /\ UnitGoes(h, [op |-> "named", unit |-> u, name |-> n, under |-> d, lead |-> l])
    /\ UNCHANGED <<unit, under, inTeam, lead, loose>>

\* uniqueCode: the first suffix no unit of the kind has, deleted ones included;
Coded(u, n) == {unit[v].suffix : v \in {w \in Kind(u) \ {u} : unit[w].st # "none" /\ unit[w].name = n}}
FirstFree(S) == CHOOSE i \in Suffix : i \notin S /\ \A j \in 1..(i - 1) : j \in S
FindCode(h) == LET e == organizing[h] IN
    /\ e.op = "named"
    /\ UnitGoes(h, [op |-> "coded", unit |-> e.unit, name |-> e.name, under |-> e.under,
                    lead |-> e.lead, suffix |-> FirstFree(Coded(e.unit, e.name))])
    /\ UNCHANGED <<unit, under, inTeam, lead, loose>>

\* The team's leader joins it.
JoinedBy(t, l) == IF l = NoLeader THEN inTeam ELSE inTeam \cup {<<t, l>>}

\* and the row, unless another took the code.
CreateUnit(h) == LET e == organizing[h] u == e.unit IN
    /\ e.op = "coded" /\ unit[u].st = "none" /\ e.suffix \notin Coded(u, e.name)
    /\ unit' = [unit EXCEPT ![u] = [st |-> "live", name |-> e.name, suffix |-> e.suffix]]
    /\ under' = IF u \in Teams THEN [under EXCEPT ![u] = e.under] ELSE under
    /\ inTeam' = JoinedBy(u, e.lead)
    /\ lead' = IF e.lead = NoLeader THEN lead ELSE lead \cup {<<u, e.lead>>}
    /\ loose' = loose \cup (IF Taken(u, e.name) THEN {u} ELSE {})
                      \cup (IF Stays(e.under) THEN {} ELSE {e.under})
    /\ UnitGoes(h, Idle)

CreateFails(h) == LET e == organizing[h] IN
    /\ e.op = "coded" /\ (unit[e.unit].st # "none" \/ e.suffix \in Coded(e.unit, e.name))
    /\ UnitGoes(h, Idle)
    /\ UNCHANGED <<unit, under, inTeam, lead, loose>>

-----------------------------------------------------------------------------
\* PATCH of a team: nothing asks whether the new name is taken.
CheckTeam(h, t, n, d, l) ==
    /\ organizing[h] = Idle /\ InUse(t) /\ UnitExists(d)
    /\ UnitGoes(h, [op |-> "retitle", unit |-> t, name |-> n, under |-> d, lead |-> l])
    /\ UNCHANGED <<unit, under, inTeam, lead, loose>>

\* Its row stays locked to the end: the old leader goes before the new one comes.
OldLeads(t) == {p \in lead : p[1] # t}
EditTeam(h) == LET e == organizing[h] t == e.unit IN
    /\ e.op = "retitle"
    /\ unit' = [unit EXCEPT ![t].name = e.name, ![t].suffix = FirstFree(Coded(t, e.name))]
    /\ under' = [under EXCEPT ![t] = e.under]
    /\ inTeam' = JoinedBy(t, e.lead)
    /\ lead' = OldLeads(t) \cup (IF e.lead = NoLeader THEN {} ELSE {<<t, e.lead>>})
    /\ loose' = loose \cup (IF e.name = unit[t].name THEN {} ELSE {t})
                      \cup (IF Stays(e.under) THEN {} ELSE {e.under})
                      \cup (IF Stays(t) THEN {} ELSE {t})
    /\ UnitGoes(h, Idle)

\* An employee is created in, or moved to, a department or a team.
CheckPlace(h, x, u) ==
    /\ organizing[h] = Idle /\ InUse(u)
    /\ UnitGoes(h, [op |-> "place", who |-> x, unit |-> u])
    /\ UNCHANGED <<unit, under, inTeam, lead, loose>>

\* The teams it was in before are left, and no longer led.
PlaceEmployee(h) == LET x == organizing[h].who u == organizing[h].unit IN
    /\ organizing[h].op = "place"
    /\ under' = IF u \in Teams THEN under ELSE [under EXCEPT ![x] = u]
    /\ inTeam' = IF u \in Teams THEN inTeam \cup {<<u, x>>} ELSE inTeam
    /\ lead' = IF u \in Teams THEN {p \in lead : p[2] # x} ELSE lead
    /\ loose' = IF Stays(u) THEN loose ELSE loose \cup {u}
    /\ UnitGoes(h, Idle) /\ UNCHANGED unit

\* An employee is moved to no department and no team, or is removed.
Leave(x) ==
    /\ \/ under' = [under EXCEPT ![x] = NoUnit] /\ lead' = {p \in lead : p[2] # x}
       \/ UNCHANGED under /\ lead' = {p \in lead : p[2] # x}
    /\ UNCHANGED <<unit, inTeam, organizing, loose>>

\* DELETE counts what is attached, then deletes by id.
BugCounted(u) == {x \in Staff : under[x] = u}
Counted(u) == Attached(u)
CheckDelete(h, u) ==
    /\ organizing[h] = Idle /\ InUse(u) /\ Counted(u) = {}
    /\ UnitGoes(h, [op |-> "delete", unit |-> u])
    /\ UNCHANGED <<unit, under, inTeam, lead, loose>>

DeleteUnit(h) == LET u == organizing[h].unit IN
    /\ organizing[h].op = "delete"
    /\ unit' = [unit EXCEPT ![u].st = "deleted"]
    /\ UnitGoes(h, Idle) /\ UNCHANGED <<under, inTeam, lead, loose>>

UnitsStep(h) ==
    \/ \E n \in Names, d \in Departments \cup {NoUnit}, l \in Staff \cup {NoLeader} :
        \/ \E u \in Units : CheckName(h, u, n, d, l)
        \/ \E t \in Teams : CheckTeam(h, t, n, d, l)
    \/ FindCode(h) \/ CreateUnit(h) \/ CreateFails(h) \/ EditTeam(h)
    \/ \E u \in Units : CheckDelete(h, u) \/ \E x \in Staff : CheckPlace(h, x, u)
    \/ PlaceEmployee(h) \/ DeleteUnit(h)
UnitsNext == (\E h \in Handlers : UnitsStep(h)) \/ \E x \in Staff : Leave(x)

UnitsSpec == UnitsInit /\ [][UnitsNext]_unitVars

-----------------------------------------------------------------------------
UnitsTypeOK ==
    /\ unit \in [Units -> Unit]
    /\ under \in [Teams \cup Staff -> Departments \cup {NoUnit}]
    /\ inTeam \subseteq Teams \X Staff /\ lead \subseteq inTeam
    /\ organizing \in [Handlers -> UnitsState] /\ loose \subseteq Units

\* Two live units of a kind have the same name only if one was named while the
\* other was being created, or is a team that was renamed; their codes differ
\* even then.
NamesDiffer ==
    \A u, v \in Units : u # v /\ Kind(u) = Kind(v) /\ unit[u].st # "none" /\ unit[v].st # "none" =>
        /\ unit[u].name = unit[v].name => unit[u].suffix # unit[v].suffix
        /\ InUse(u) /\ InUse(v) /\ unit[u].name = unit[v].name => {u, v} \cap loose # {}

\* Nothing refers to a deleted unit that did not join it while it was being
\* deleted: nobody is left in a department or a team that is gone.
DeletedIsEmpty ==
    \A u \in Units \ loose : unit[u].st = "deleted" => Attached(u) = {}

\* What a handler knows: the unit it is about to delete is empty, but for those
\* who joined it meanwhile, and only a team has a leader.
UnitKnown(h) == LET e == organizing[h] IN
    /\ e.op = "delete" /\ e.unit \notin loose => Attached(e.unit) = {}
    /\ e.op = "delete" => unit[e.unit].st # "none"
    /\ e.op \in {"named", "coded"} /\ e.unit \in Departments => e.lead = NoLeader

\* Names and codes differ, what is deleted is empty, and so is what is about to be.
UnitsInv ==
    /\ UnitsTypeOK /\ NamesDiffer /\ DeletedIsEmpty
    /\ \A h \in Handlers : UnitKnown(h)
=============================================================================
