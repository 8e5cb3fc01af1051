----------------------------- MODULE Employees -----------------------------
(***************************************************************************)
(* The memberships of a company, its custom roles and the employee limit   *)
(* of its plan.  Every operation checks what it refers to before its       *)
(* transaction; what it checked may be gone when it writes.                *)
(***************************************************************************)
EXTENDS Billing

CONSTANTS
    People,    \* users who may be members
    Roles,     \* custom roles
    Employee,  \* a built-in role, never deleted
    NoRole,
    LimitOf    \* max_employees of a plan

ASSUME EmployeesAssumption ==
    /\ Employee \notin Roles /\ NoRole \notin Roles \cup {Employee}
    /\ LimitOf \in [Plans -> Nat] /\ IsFiniteSet(People)

VARIABLES
    member,    \* TenantMembership: status, deletedAt, and the role granted
    role,      \* TenantRole: "none", "live" or "deleted"
    staff,     \* what the handlers are doing
    mixed      \* history: members edited by a request that overlapped their
               \* removal or the deletion of the role it gave them

staffVars == <<member, role, staff, mixed>>

AnyRole == Roles \cup {Employee}
Membership ==
    [st : {"none", "active", "suspended", "terminated"}, gone : BOOLEAN,
     role : AnyRole \cup {NoRole}]
Absent == [st |-> "none", gone |-> FALSE, role |-> NoRole]
StaffState ==
    {Idle} \cup [op : {"add"}, who : People, role : AnyRole, alone : BOOLEAN]
           \cup [op : {"edit"}, who : People, role : AnyRole \cup {NoRole},
                 st : {"keep", "active", "suspended"}]
           \cup [op : {"remove"}, who : People] \cup [op : {"drop"}, role : Roles]

StaffInit ==
    /\ member = [m \in People |-> Absent]
    /\ role = [r \in AnyRole |-> IF r = Employee THEN "live" ELSE "none"]
    /\ staff = [h \in Handlers |-> Idle] /\ mixed = {}

StaffGoes(h, s) == staff' = [staff EXCEPT ![h] = s]

\* findActiveMembership: who is let in.
Access(m) ==
    /\ member[m].st = "active" /\ ~member[m].gone
    /\ member[m].role # NoRole /\ role[member[m].role] = "live"
Active == {m \in People : member[m].st = "active" /\ ~member[m].gone}

\* Nobody is deleting the role, or has.
Kept(r) ==
    role[r] = "live" /\ \A h \in Handlers : staff[h].op = "drop" => staff[h].role # r

-----------------------------------------------------------------------------
\* enforceEmployeeLimit, for the newest live subscription.
BugBelowLimit == \A p \in CurrentPlan : Cardinality(Active) <= LimitOf[p]
BelowLimit == \A p \in CurrentPlan : Cardinality(Active) < LimitOf[p]

\* A step that may break the limit another handler has just checked.
Crowded == [h \in Handlers |->
    IF staff[h].op = "add" THEN [staff[h] EXCEPT !.alone = FALSE] ELSE staff[h]]

CheckNew(h, m, r) ==
    /\ staff[h] = Idle
    /\ role[r] = "live" /\ BelowLimit /\ member[m].st = "none"
    /\ StaffGoes(h, [op |-> "add", who |-> m, role |-> r, alone |-> TRUE])
    /\ UNCHANGED <<member, role, mixed>>

\* The transaction of POST /employees; a membership is unique.
AddMember(h) == LET m == staff[h].who IN
    /\ staff[h].op = "add" /\ member[m].st = "none"
    /\ member' = [member EXCEPT ![m] = [st |-> "active", gone |-> FALSE, role |-> staff[h].role]]
    /\ staff' = [Crowded EXCEPT ![h] = Idle]
    /\ mixed' = IF Kept(staff[h].role) THEN mixed ELSE mixed \cup {m}
    /\ UNCHANGED role

AddFails(h) ==
    /\ staff[h].op = "add" /\ member[staff[h].who].st # "none"
    /\ StaffGoes(h, Idle) /\ UNCHANGED <<member, role, mixed>>

\* PATCH and DELETE find a member who is not removed; a new role must be live.
Present(m) == member[m].st # "none" /\ ~member[m].gone
CheckEdit(h, m, r, st) ==
    /\ staff[h] = Idle /\ Present(m) /\ (r # NoRole => role[r] = "live")
    /\ StaffGoes(h, [op |-> "edit", who |-> m, role |-> r, st |-> st])
    /\ UNCHANGED <<member, role, mixed>>

\* The member is updated by id alone, and its roles are replaced.
EditMember(h) == LET e == staff[h] m == e.who IN
    /\ e.op = "edit"
    /\ member' = [member EXCEPT
            ![m].st = IF e.st = "keep" THEN @ ELSE e.st,
            ![m].role = IF e.role = NoRole THEN @ ELSE e.role]
    /\ staff' = [(IF e.st = "active" THEN Crowded ELSE staff) EXCEPT ![h] = Idle]
    /\ mixed' = IF ~member[m].gone /\ (e.role = NoRole \/ Kept(e.role))
                THEN mixed ELSE mixed \cup {m}
    /\ UNCHANGED role

CheckRemove(h, m) ==
    /\ staff[h] = Idle /\ Present(m)
    /\ StaffGoes(h, [op |-> "remove", who |-> m])
    /\ UNCHANGED <<member, role, mixed>>

Removed(m) == [st |-> "terminated", gone |-> TRUE, role |-> NoRole]
RemoveMember(h) == LET m == staff[h].who IN
    /\ staff[h].op = "remove"
    /\ member' = [member EXCEPT ![m] = Removed(m)]
    /\ StaffGoes(h, Idle) /\ UNCHANGED <<role, mixed>>

-----------------------------------------------------------------------------
\* Custom roles. A key is not given again after its role is deleted.
CreateRole(r) ==
    /\ role[r] = "none" /\ role' = [role EXCEPT ![r] = "live"]
    /\ UNCHANGED <<member, staff, mixed>>

\* DELETE counts the members with the role, then deletes it by id.
BugHolders(r) == {m \in Active : member[m].role = r}
HoldersOf(r) == {m \in People : member[m].role = r}
CheckDrop(h, r) ==
    /\ staff[h] = Idle /\ role[r] = "live" /\ HoldersOf(r) = {}
    /\ StaffGoes(h, [op |-> "drop", role |-> r])
    /\ UNCHANGED <<member, role, mixed>>

DropRole(h) == LET r == staff[h].role IN
    /\ staff[h].op = "drop"
    /\ role' = [role EXCEPT ![r] = "deleted"]
    /\ StaffGoes(h, Idle) /\ UNCHANGED <<member, mixed>>

StaffNext == \E h \in Handlers :
    \/ \E m \in People :
        \/ \E r \in AnyRole : CheckNew(h, m, r)
        \/ \E r \in AnyRole \cup {NoRole}, st \in {"keep", "active", "suspended"} :
            CheckEdit(h, m, r, st)
        \/ CheckRemove(h, m)
    \/ AddMember(h) \/ AddFails(h) \/ EditMember(h) \/ RemoveMember(h)
    \/ \E r \in Roles : CreateRole(r) \/ CheckDrop(h, r)
    \/ DropRole(h)

\* A company: its subscriptions and its staff. A handler serves one request; a
\* new subscription may change the limit another handler has checked. Coupons,
\* which nothing else looks at, are left to BillingSpec.
CompanyInit == BillingInit /\ StaffInit
CompanyNext ==
    /\ \/ StaffNext /\ UNCHANGED billingVars
       \/ /\ BillingNext /\ UNCHANGED <<uses, crowd>>
          /\ staff' = IF subs' = subs THEN staff ELSE Crowded
          /\ UNCHANGED <<member, role, mixed>>
    /\ \A h \in Handlers : staff'[h] = Idle \/ billing'[h] = Idle

CompanySpec == CompanyInit /\ [][CompanyNext]_<<billingVars, staffVars>>

-----------------------------------------------------------------------------
StaffTypeOK ==
    /\ member \in [People -> Membership]
    /\ role \in [AnyRole -> {"none", "live", "deleted"}]
    /\ staff \in [Handlers -> StaffState] /\ mixed \subseteq People

\* An active member is let in: nobody is left with a role that was deleted,
\* or with none, unless the role was granted while it was being deleted.
ActiveHaveAccess == \A m \in Active \ mixed : Access(m)

\* Who was removed stays so, whatever edits and role changes were under way;
\* an edit that overlaps the removal can give back a status and a role, and
\* still lets nobody in.
RemovedStaysOut ==
    [][\A m \in People : member[m].gone =>
        /\ m \notin Active' /\ ~Access(m)'
        /\ m \notin mixed' => member'[m].st = "terminated" /\ member'[m].role = NoRole
      ]_<<billingVars, staffVars>>

\* A member is added past the employee limit of the company's plan only if,
\* since the limit was checked, another was added or made active again, or the
\* plan changed.
LimitKept ==
    [][\A h \in Handlers :
        staff[h].op = "add" /\ staff[h].alone /\ Active' # Active /\ staff'[h] = Idle
            => \A p \in CurrentPlan : Cardinality(Active') <= LimitOf[p]
      ]_<<billingVars, staffVars>>

\* What every step preserves: a present member has a role that is there, one
\* who was removed keeps none, and a role that is being deleted is nobody's, for
\* all whose edits overlapped neither.
StaffInv ==
    /\ StaffTypeOK /\ ActiveHaveAccess
    /\ \A m \in People \ mixed :
          /\ Present(m) => member[m].role # NoRole /\ role[member[m].role] = "live"
          /\ member[m].gone => member[m] = Removed(m)
          /\ \A h \in Handlers : staff[h].op = "drop" => member[m].role # staff[h].role
    /\ \A m \in People : member[m].st = "none" => ~member[m].gone
    /\ \A h \in Handlers : staff[h].op \in {"edit", "remove"} => member[staff[h].who].st # "none"

\* What a step may never do to the staff of a company.
StaffKept == RemovedStaysOut /\ LimitKept
=============================================================================
