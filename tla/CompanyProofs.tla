--------------------------- MODULE CompanyProofs ---------------------------
(***************************************************************************)
(* Proofs about a company, for any number of concurrent requests, people,  *)
(* roles, plans and units: its subscriptions and a coupon (Billing), its   *)
(* staff (Employees), its departments and teams (OrgUnits), the passwords  *)
(* and reset links of an account (Credentials), and the audit chain        *)
(* (AuditTrail).                                                           *)
(***************************************************************************)
EXTENDS Employees, OrgUnits, Credentials, AuditTrail, FiniteSetTheorems,
        NaturalsInduction, WellFoundedInduction, TLAPS

USE BillingAssumption, EmployeesAssumption

-----------------------------------------------------------------------------
(* Billing.  The coupons used and held, and the subscriptions that live.   *)
CouponsOK ==
    \/ uses + Holding < MaxUses + crowd
    \/ uses + Holding <= MaxUses
SubsOK ==
    /\ OneLiveSubscription
    /\ ~crossed => \A h \in Handlers : billing[h].op = "cancelled" =>
          /\ LiveSubs = {}
          /\ \A g \in Handlers : billing[g].op = "cancelled" => g = h
BillingHolds == BillingTypeOK /\ CouponsOK /\ SubsOK

LEMMA HoldersFinite == IsFiniteSet(Holders) /\ Holding \in Nat
  BY FS_Subset, FS_CardinalityType DEF Holders, Holding, BillingAssumption

LEMMA BillingParts == BillingInv <=> BillingHolds
  <1>1. BillingTypeOK /\ CouponsOK => CouponNearLimit
    BY HoldersFinite DEF BillingTypeOK, CouponsOK, CouponNearLimit, BillingAssumption
  <1> QED BY <1>1 DEF BillingInv, BillingHolds, CouponsOK, SubsOK

LEMMA BillingPartsAfter == BillingHolds' => BillingInv'
  BY BillingParts, PTL

LEMMA BillingShape ==
  ASSUME NEW s \in BillingState
  PROVE  /\ s # Idle => s.op \in {"checked", "cancelled"} /\ s.plan \in Plans /\ s.coupon \in BOOLEAN
         /\ s.op \in {"checked", "cancelled"} => s # Idle
         /\ s = Idle => s.op = "idle"
  BY DEF BillingState, Idle

LEMMA BillingStates ==
  /\ Idle \in BillingState /\ Idle.op = "idle"
  /\ \A op \in {"checked", "cancelled"}, p \in Plans, c \in BOOLEAN :
        /\ [op |-> op, plan |-> p, coupon |-> c] \in BillingState
        /\ [op |-> op, plan |-> p, coupon |-> c] # Idle
  BY DEF BillingState, Idle

LEMMA BillingStart == BillingInit => BillingInv
  <1> SUFFICES ASSUME BillingInit PROVE BillingHolds
    BY BillingParts
  <1> DEFINE s == [plan |-> FirstPlan, live |-> TRUE]
  <1>1. s \in Subscription /\ subs = <<s>> /\ Len(subs) = 1 /\ subs[1] = s
    BY DEF BillingInit, Subscription, BillingAssumption
  <1>2. BillingTypeOK
    <2>1. subs \in Seq(Subscription) /\ Len(subs) \in 1..MaxSubs
      BY <1>1 DEF BillingAssumption
    <2>2. billing \in [Handlers -> BillingState]
      BY BillingStates DEF BillingInit
    <2> QED BY <2>1, <2>2 DEF BillingInit, BillingTypeOK
  <1>3. \A h \in Handlers : billing[h] = Idle
    BY DEF BillingInit
  <1>4. Holders = {}
    BY <1>3 DEF Holders
  <1>5. CouponsOK
    BY <1>4, FS_EmptySet DEF CouponsOK, Holding, BillingInit, BillingAssumption
  <1>6. LiveSubs = {1}
    BY <1>1 DEF LiveSubs
  <1>7. SubsOK
    BY <1>3, <1>6, BillingStates DEF SubsOK, OneLiveSubscription
  <1> QED BY <1>2, <1>5, <1>7 DEF BillingHolds

(* The crowd counts whoever joins.                                         *)
LEMMA CrowdGrows ==
  ASSUME BillingTypeOK, NEW n \in Nat
  PROVE  Joined(n) \in Nat /\ Joined(n) >= crowd /\ Joined(n) >= n + Holding
  BY HoldersFinite DEF Joined, BillingTypeOK

LEMMA CouponSums ==
  ASSUME NEW u \in Nat, NEW m \in Nat, NEW n \in Nat, NEW w \in Nat, NEW v \in Nat
  PROVE  /\ u < m /\ v >= 1 + n => u + (n + 1) < m + v
         /\ u + n < m + w /\ v >= w => u + n < m + v
  OBVIOUS

LEMMA CheckPlanKeeps ==
  ASSUME BillingHolds, NEW h \in Handlers, NEW p \in Plans, NEW c \in BOOLEAN,
         CheckPlan(h, p, c)
  PROVE  BillingHolds'
  <1> USE DEF BillingHolds
  <1> DEFINE s == [op |-> "checked", plan |-> p, coupon |-> c]
  <1>1. s \in BillingState /\ s # Idle /\ s.op = "checked" /\ s.coupon = c
    BY BillingStates
  <1>2. \A g \in Handlers : billing'[g] = IF g = h THEN s ELSE billing[g]
    BY DEF CheckPlan, BillingTypeOK
  <1>3. crowd' \in Nat /\ crowd' >= crowd /\ (c => crowd' >= 1 + Holding)
    BY CrowdGrows DEF CheckPlan
  <1>4. BillingTypeOK'
    BY <1>1, <1>3 DEF CheckPlan, BillingTypeOK
  <1>5. h \notin Holders
    BY DEF CheckPlan, Holders
  <1>6. CouponsOK'
    <2>0. uses \in Nat /\ crowd \in Nat /\ MaxUses \in Nat /\ Holding \in Nat
      BY HoldersFinite DEF BillingTypeOK, BillingAssumption
    <2>1. CASE c
      <3>1. Holders' = Holders \cup {h}
        BY <1>1, <1>2, <2>1 DEF Holders
      <3>2. Holding' = Holding + 1
        BY <1>5, <3>1, HoldersFinite, FS_AddElement DEF Holding
      <3>3. uses < MaxUses /\ uses' = uses
        BY <2>1 DEF CheckPlan, CouponValid
      <3>4. crowd' \in Nat /\ crowd' >= 1 + Holding
        BY <1>3, <2>1, Zenon
      <3>5. uses' + Holding' < MaxUses + crowd'
        BY <2>0, <3>2, <3>3, <3>4, CouponSums
      <3> QED BY <3>5 DEF CouponsOK
    <2>2. CASE ~c
      <3>1. Holders' = Holders
        BY <1>1, <1>2, <1>5, <2>2 DEF Holders
      <3>2. Holding' = Holding /\ uses' = uses
        BY <3>1 DEF Holding, CheckPlan
      <3>3. crowd' \in Nat /\ crowd' >= crowd
        BY <1>3, Zenon
      <3>4. uses + Holding < MaxUses + crowd' \/ uses + Holding <= MaxUses
        BY <2>0, <3>3, CouponSums DEF CouponsOK
      <3> QED BY <3>2, <3>4 DEF CouponsOK
    <2> QED BY <2>1, <2>2
  <1>7. LiveSubs' = LiveSubs /\ crossed' = crossed
    BY DEF CheckPlan, LiveSubs
  <1>8. \A g \in Handlers : billing'[g].op = "cancelled" <=> billing[g].op = "cancelled"
    BY <1>1, <1>2, BillingStates DEF CheckPlan
  <1>9. SubsOK'
    BY <1>7, <1>8 DEF SubsOK, OneLiveSubscription
  <1> QED BY <1>4, <1>6, <1>9

LEMMA CancelLiveKeeps ==
  ASSUME BillingHolds, NEW h \in Handlers, CancelLive(h)
  PROVE  BillingHolds'
  <1> USE DEF BillingHolds
  <1>1. billing[h] \in BillingState /\ billing[h].op = "checked"
    BY DEF CancelLive, BillingTypeOK
  <1>2. PICK p \in Plans, c \in BOOLEAN : billing[h] = [op |-> "checked", plan |-> p, coupon |-> c]
    BY <1>1 DEF BillingState, Idle
  <1>3. PICK s \in BillingState : s = [op |-> "cancelled", plan |-> p, coupon |-> c]
    BY BillingStates
  <1>4. \A g \in Handlers : billing'[g] = IF g = h THEN s ELSE billing[g]
    BY <1>2, <1>3 DEF CancelLive, BillingTypeOK
  <1>5. subs' \in Seq(Subscription) /\ Len(subs') = Len(subs)
        /\ \A i \in DOMAIN subs' : ~subs'[i].live
    <2>1. \A x \in Subscription : [x EXCEPT !.live = FALSE] \in Subscription
                                  /\ ~[x EXCEPT !.live = FALSE].live
      BY DEF Subscription
    <2>2. \A i \in DOMAIN subs : subs[i] \in Subscription
      BY DEF BillingTypeOK
    <2>3. subs' = [i \in 1..Len(subs) |-> [subs[i] EXCEPT !.live = FALSE]] /\ Len(subs) \in Nat
      BY DEF CancelLive, Cancelled, BillingTypeOK
    <2>4. \A i \in 1..Len(subs) : subs'[i] \in Subscription /\ ~subs'[i].live
      <3> SUFFICES ASSUME NEW i \in 1..Len(subs)
                   PROVE  subs'[i] \in Subscription /\ ~subs'[i].live
        OBVIOUS
      <3>1. subs[i] \in Subscription
        BY <2>2 DEF BillingTypeOK
      <3>2. subs'[i] = [subs[i] EXCEPT !.live = FALSE]
        BY <2>3
      <3> QED BY <2>1, <3>1, <3>2
    <2>5. subs' \in [1..Len(subs) -> Subscription]
      BY <2>3, <2>4
    <2>6. subs' \in Seq(Subscription) /\ Len(subs') = Len(subs)
      BY <2>3, <2>5
    <2> QED BY <2>3, <2>4, <2>6
  <1>6. BillingTypeOK'
    BY <1>3, <1>4, <1>5 DEF CancelLive, BillingTypeOK
  <1>7. Holders' = Holders
    <2>1. \A g \in Handlers :
              (billing'[g] # Idle /\ billing'[g].coupon) <=> (billing[g] # Idle /\ billing[g].coupon)
      BY <1>2, <1>3, <1>4, BillingStates
    <2> QED BY <2>1 DEF Holders
  <1>8. CouponsOK'
    BY <1>7 DEF CouponsOK, Holding, CancelLive
  <1>9. LiveSubs' = {}
    BY <1>5 DEF LiveSubs
  <1>10. s.op = "cancelled"
    BY <1>3
  <1>11. SubsOK'
    <2>1. OneLiveSubscription'
      BY <1>4, <1>9, <1>10 DEF OneLiveSubscription
    <2>2. ASSUME ~crossed' PROVE \A g \in Handlers : billing'[g].op = "cancelled" => g = h
      BY <1>4, <2>2 DEF CancelLive
    <2> QED BY <1>9, <2>1, <2>2 DEF SubsOK
  <1> QED BY <1>6, <1>8, <1>11

LEMMA CreateSubKeeps ==
  ASSUME BillingHolds, NEW h \in Handlers, CreateSub(h)
  PROVE  BillingHolds'
  <1> USE DEF BillingHolds
  <1>1. billing[h] \in BillingState /\ billing[h].op = "cancelled"
    BY DEF CreateSub, BillingTypeOK
  <1>2. billing[h].plan \in Plans /\ billing[h].coupon \in BOOLEAN /\ billing[h] # Idle
    BY <1>1, BillingShape
  <1>3. \A g \in Handlers : billing'[g] = IF g = h THEN Idle ELSE billing[g]
    BY DEF CreateSub, BillingTypeOK
  <1>4. PICK x \in Subscription : x = [plan |-> billing[h].plan, live |-> TRUE]
    BY <1>2 DEF Subscription
  <1>5. subs' = Append(subs, x) /\ subs \in Seq(Subscription) /\ x.live /\ Len(subs) < MaxSubs
        /\ Len(subs) \in Nat
    BY <1>4 DEF CreateSub, BillingTypeOK
  <1>6. BillingTypeOK'
    <2>1. subs' \in Seq(Subscription) /\ Len(subs') \in 1..MaxSubs
      BY <1>5 DEF BillingAssumption
    <2>2. uses' \in Nat
      BY DEF CreateSub, BillingTypeOK
    <2>3. billing' \in [Handlers -> BillingState]
      BY BillingStates DEF CreateSub, BillingTypeOK
    <2> QED BY <2>1, <2>2, <2>3 DEF CreateSub, BillingTypeOK
  <1>7. CouponsOK'
    <2>1. CASE billing[h].coupon
      <3>1. h \in Holders /\ Holders' = Holders \ {h}
        BY <1>2, <1>3, <2>1 DEF Holders
      <3>2. Holding' = Holding - 1 /\ uses' = uses + 1 /\ crowd' = crowd
        BY <2>1, <3>1, HoldersFinite, FS_RemoveElement DEF Holding, CreateSub
      <3> QED BY <3>2, HoldersFinite DEF CouponsOK, BillingTypeOK, BillingAssumption
    <2>2. CASE ~billing[h].coupon
      <3>1. Holders' = Holders
        BY <1>3, <2>2 DEF Holders
      <3> QED BY <2>2, <3>1 DEF CouponsOK, Holding, CreateSub
    <2> QED BY <2>1, <2>2
  <1>8. Len(subs') = Len(subs) + 1 /\ subs'[Len(subs) + 1] = x
        /\ \A i \in 1..Len(subs) : subs'[i] = subs[i]
    BY <1>5
  <1>9. DOMAIN subs = 1..Len(subs) /\ DOMAIN subs' = 1..(Len(subs) + 1)
    BY <1>5, <1>6, <1>8 DEF BillingTypeOK
  <1>10. Len(subs) + 1 \in LiveSubs'
    BY <1>5, <1>8, <1>9 DEF LiveSubs
  <1>11. LiveSubs = {} => LiveSubs' = {Len(subs) + 1}
    BY <1>5, <1>8, <1>9 DEF LiveSubs
  <1>12. ASSUME ~crossed PROVE LiveSubs = {} /\ \A g \in Handlers : billing'[g].op # "cancelled"
    BY <1>1, <1>3, <1>12, BillingStates DEF SubsOK
  <1>13. SubsOK'
    BY <1>10, <1>11, <1>12 DEF CreateSub, SubsOK, OneLiveSubscription
  <1> QED BY <1>6, <1>7, <1>13

LEMMA ElsewhereKeeps ==
  ASSUME BillingHolds, UseElsewhere
  PROVE  BillingHolds'
  <1> USE DEF BillingHolds
  <1>1. crowd' \in Nat /\ crowd' >= 1 + Holding
    BY CrowdGrows DEF UseElsewhere
  <1>2. BillingTypeOK'
    BY <1>1 DEF UseElsewhere, BillingTypeOK
  <1>3. Holding' = Holding
    BY DEF UseElsewhere, Holding, Holders
  <1>4. CouponsOK'
    BY <1>1, <1>3, HoldersFinite DEF UseElsewhere, CouponValid, CouponsOK, BillingTypeOK,
       BillingAssumption
  <1>5. SubsOK'
    BY DEF UseElsewhere, SubsOK, OneLiveSubscription, LiveSubs
  <1> QED BY <1>2, <1>4, <1>5

LEMMA BillingKept == BillingInv /\ [BillingNext]_billingVars => BillingInv'
  <1> SUFFICES ASSUME BillingHolds, [BillingNext]_billingVars PROVE BillingHolds'
    BY BillingParts, BillingPartsAfter
  <1>1. CASE UNCHANGED billingVars
    BY <1>1 DEF billingVars, BillingHolds, BillingTypeOK, CouponsOK, Holding, Holders, SubsOK,
                OneLiveSubscription, LiveSubs
  <1> QED
    BY <1>1, CheckPlanKeeps, CancelLiveKeeps, CreateSubKeeps, ElsewhereKeeps DEF BillingNext

(* For any number of overlapping subscriptions: a coupon goes over its     *)
(* limit only by requests that held it checked together, and a company has *)
(* one live subscription unless two transactions overlapped.               *)
THEOREM BillingInvariant == BillingSpec => []BillingInv
  BY BillingStart, BillingKept, PTL DEF BillingSpec

-----------------------------------------------------------------------------
(* Employees.  What members and handlers satisfy, one at a time.           *)
MemberOK(m) ==
    /\ Present(m) => member[m].role # NoRole /\ role[member[m].role] = "live"
    /\ member[m].gone => member[m] = Removed(m)
MembersOK ==
    /\ \A m \in People \ mixed : MemberOK(m)
    /\ \A m \in People : member[m].st = "none" => ~member[m].gone
StaffKnows(s) ==
    /\ s.op = "drop" => \A m \in People \ mixed : member[m].role # s.role
    /\ s.op \in {"edit", "remove"} => member[s.who].st # "none"
AllKnow == \A h \in Handlers : StaffKnows(staff[h])
StaffHolds == StaffTypeOK /\ MembersOK /\ AllKnow

LEMMA StaffParts == StaffInv <=> StaffHolds
  <1>1. StaffTypeOK /\ MembersOK => ActiveHaveAccess
    BY DEF StaffTypeOK, MembersOK, MemberOK, ActiveHaveAccess, Access, Active, Present
  <1> QED BY <1>1 DEF StaffInv, StaffHolds, MembersOK, MemberOK, AllKnow, StaffKnows

LEMMA StaffPartsAfter == StaffHolds' => StaffInv'
  BY StaffParts, PTL

LEMMA StaffShape ==
  ASSUME NEW s \in StaffState
  PROVE  /\ s.op \in {"add", "edit", "remove"} => s.who \in People
         /\ s.op = "add" => s.role \in AnyRole /\ s.alone \in BOOLEAN
         /\ s.op = "edit" => s.role \in AnyRole \cup {NoRole} /\ s.st \in {"keep", "active", "suspended"}
         /\ s.op = "drop" => s.role \in Roles
         /\ s.op = "idle" => s = Idle
  BY DEF StaffState, Idle

LEMMA StaffStates ==
  /\ Idle \in StaffState /\ Idle.op = "idle"
  /\ \A m \in People, r \in AnyRole, a \in BOOLEAN :
        [op |-> "add", who |-> m, role |-> r, alone |-> a] \in StaffState
  /\ \A m \in People, r \in AnyRole \cup {NoRole}, st \in {"keep", "active", "suspended"} :
        [op |-> "edit", who |-> m, role |-> r, st |-> st] \in StaffState
  /\ \A m \in People : [op |-> "remove", who |-> m] \in StaffState
  /\ \A r \in Roles : [op |-> "drop", role |-> r] \in StaffState
  BY DEF StaffState, Idle

LEMMA RolesDiffer == \A r \in AnyRole : r # NoRole
  BY DEF AnyRole, EmployeesAssumption

LEMMA MemberShape ==
  ASSUME NEW x \in Membership
  PROVE  x.gone \in BOOLEAN /\ x.st \in {"none", "active", "suspended", "terminated"}
         /\ x.role \in AnyRole \cup {NoRole}
  BY DEF Membership

(* A check that is no longer alone is as it was otherwise.                 *)
LEMMA CrowdedShape ==
  ASSUME StaffTypeOK
  PROVE  /\ Crowded \in [Handlers -> StaffState]
         /\ \A h \in Handlers : /\ Crowded[h].op = staff[h].op
                                /\ staff[h].op # "add" => Crowded[h] = staff[h]
                                /\ Crowded[h].op = "add" => ~Crowded[h].alone
  <1>1. ASSUME NEW s \in StaffState, s.op = "add"
        PROVE  /\ [s EXCEPT !.alone = FALSE] \in StaffState
               /\ [s EXCEPT !.alone = FALSE].op = "add" /\ ~[s EXCEPT !.alone = FALSE].alone
    <2>1. s \in [op : {"add"}, who : People, role : AnyRole, alone : BOOLEAN]
      BY <1>1 DEF StaffState, Idle
    <2> QED BY <2>1 DEF StaffState
  <1>2. ASSUME NEW h \in Handlers
        PROVE  /\ Crowded[h] \in StaffState
               /\ Crowded[h].op = staff[h].op
               /\ staff[h].op # "add" => Crowded[h] = staff[h]
               /\ Crowded[h].op = "add" => ~Crowded[h].alone
    <2>1. staff[h] \in StaffState
      BY DEF StaffTypeOK
    <2>2. CASE staff[h].op = "add"
      <3>1. Crowded[h] = [staff[h] EXCEPT !.alone = FALSE]
        BY <2>2 DEF Crowded
      <3> QED BY <1>1, <2>1, <2>2, <3>1
    <2>3. CASE staff[h].op # "add"
      <3>1. Crowded[h] = staff[h]
        BY <2>3 DEF Crowded
      <3> QED BY <2>1, <2>3, <3>1
    <2> QED BY <2>2, <2>3
  <1> QED BY <1>2 DEF Crowded

LEMMA StaffStart == StaffInit => StaffInv
  <1> SUFFICES ASSUME StaffInit PROVE StaffHolds
    BY StaffParts
  <1>1. Absent \in Membership /\ Absent.st = "none" /\ ~Absent.gone
    BY DEF Absent, Membership
  <1>2. \A m \in People : member[m] = Absent
    BY DEF StaffInit
  <1>3. StaffTypeOK
    <2>1. member \in [People -> Membership] /\ staff \in [Handlers -> StaffState]
      BY <1>1, StaffStates DEF StaffInit
    <2> QED BY <2>1 DEF StaffInit, StaffTypeOK
  <1>4. MembersOK
    BY <1>1, <1>2 DEF MembersOK, MemberOK, Present
  <1>5. AllKnow
    BY StaffStates DEF StaffInit, AllKnow, StaffKnows
  <1> QED BY <1>3, <1>4, <1>5 DEF StaffHolds

(* Steps that leave the members and the roles alone.                       *)
LEMMA StaffReads ==
  ASSUME StaffHolds, NEW h \in Handlers, NEW s \in StaffState, StaffKnows(s),
         StaffGoes(h, s), UNCHANGED <<member, role, mixed>>
  PROVE  StaffHolds'
  <1> USE DEF StaffHolds
  <1>1. \A g \in Handlers : staff'[g] = IF g = h THEN s ELSE staff[g]
    BY DEF StaffGoes, StaffTypeOK
  <1>2. StaffTypeOK'
    BY DEF StaffGoes, StaffTypeOK
  <1>3. MembersOK'
    BY DEF MembersOK, MemberOK, Present, Removed
  <1>4. AllKnow'
    BY <1>1 DEF AllKnow, StaffKnows
  <1> QED BY <1>2, <1>3, <1>4

LEMMA StaffWaits ==
  ASSUME StaffHolds, staff' \in {staff, Crowded}, UNCHANGED <<member, role, mixed>>
  PROVE  StaffHolds'
  <1> USE DEF StaffHolds
  <1>1. StaffTypeOK'
    BY CrowdedShape DEF StaffTypeOK
  <1>2. MembersOK'
    BY DEF MembersOK, MemberOK, Present, Removed
  <1>3. \A h \in Handlers : staff'[h] = staff[h] \/ staff'[h].op = "add"
    BY CrowdedShape
  <1>4. AllKnow'
    BY <1>3 DEF AllKnow, StaffKnows
  <1> QED BY <1>1, <1>2, <1>4

LEMMA ChecksKeep ==
  ASSUME StaffHolds, NEW h \in Handlers,
         \/ \E m \in People :
              \/ \E r \in AnyRole : CheckNew(h, m, r)
              \/ \E r \in AnyRole \cup {NoRole}, st \in {"keep", "active", "suspended"} :
                  CheckEdit(h, m, r, st)
              \/ CheckRemove(h, m)
         \/ \E r \in Roles : CheckDrop(h, r)
         \/ AddFails(h)
  PROVE  StaffHolds'
  <1>1. ASSUME NEW m \in People, NEW r \in AnyRole, CheckNew(h, m, r) PROVE StaffHolds'
    <2>1. PICK s \in StaffState : s = [op |-> "add", who |-> m, role |-> r, alone |-> TRUE]
      BY StaffStates
    <2>2. StaffKnows(s)
      BY <2>1 DEF StaffKnows
    <2> QED BY <1>1, <2>1, <2>2, StaffReads DEF CheckNew
  <1>2. ASSUME NEW m \in People, NEW r \in AnyRole \cup {NoRole},
               NEW st \in {"keep", "active", "suspended"}, CheckEdit(h, m, r, st)
        PROVE  StaffHolds'
    <2>1. PICK s \in StaffState : s = [op |-> "edit", who |-> m, role |-> r, st |-> st]
      BY StaffStates
    <2>2. StaffKnows(s)
      BY <1>2, <2>1 DEF StaffKnows, CheckEdit, Present
    <2> QED BY <1>2, <2>1, <2>2, StaffReads DEF CheckEdit
  <1>3. ASSUME NEW m \in People, CheckRemove(h, m) PROVE StaffHolds'
    <2>1. PICK s \in StaffState : s = [op |-> "remove", who |-> m]
      BY StaffStates
    <2>2. StaffKnows(s)
      BY <1>3, <2>1 DEF StaffKnows, CheckRemove, Present
    <2> QED BY <1>3, <2>1, <2>2, StaffReads DEF CheckRemove
  <1>4. ASSUME NEW r \in Roles, CheckDrop(h, r) PROVE StaffHolds'
    <2>1. PICK s \in StaffState : s = [op |-> "drop", role |-> r]
      BY StaffStates
    <2>2. StaffKnows(s)
      BY <1>4, <2>1 DEF StaffKnows, CheckDrop, HoldersOf
    <2> QED BY <1>4, <2>1, <2>2, StaffReads DEF CheckDrop
  <1>5. AddFails(h) => StaffHolds'
    <2>1. StaffKnows(Idle)
      BY StaffStates DEF StaffKnows
    <2> QED BY <2>1, StaffStates, StaffReads DEF AddFails
  <1> QED BY <1>1, <1>2, <1>3, <1>4, <1>5

(* A new member's role is there, and nobody is deleting it, or the member  *)
(* is one of those whose edits overlapped that.                            *)
LEMMA AddMemberKeeps ==
  ASSUME StaffHolds, NEW h \in Handlers, AddMember(h)
  PROVE  StaffHolds'
  <1> USE DEF StaffHolds
  <1>1. staff[h] \in StaffState /\ staff[h].op = "add"
    BY DEF AddMember, StaffTypeOK
  <1>2. PICK m \in People, r \in AnyRole : m = staff[h].who /\ r = staff[h].role
    BY <1>1, StaffShape
  <1>3. PICK x \in Membership : x = [st |-> "active", gone |-> FALSE, role |-> r]
    BY DEF Membership
  <1>4. \A n \in People : member'[n] = IF n = m THEN x ELSE member[n]
    BY <1>2, <1>3 DEF AddMember, StaffTypeOK
  <1>5. /\ mixed' = IF Kept(r) THEN mixed ELSE mixed \cup {m}
        /\ role' = role /\ member[m].st = "none"
    BY <1>2 DEF AddMember
  <1>6. \A g \in Handlers : staff'[g] = IF g = h THEN Idle ELSE Crowded[g]
    BY CrowdedShape DEF AddMember
  <1>7. StaffTypeOK'
    <2>1. staff' \in [Handlers -> StaffState]
      BY CrowdedShape, StaffStates DEF AddMember
    <2>2. member' \in [People -> Membership]
      BY <1>2, <1>3 DEF AddMember, StaffTypeOK
    <2> QED BY <1>5, <2>1, <2>2 DEF StaffTypeOK
  <1>8. MembersOK'
    <2>1. ASSUME NEW n \in People \ mixed' PROVE MemberOK(n)'
      <3>1. CASE n = m
        <4>1. Kept(r)
          BY <1>5, <2>1, <3>1
        <4>2. member'[n].role = r /\ ~member'[n].gone
          BY <1>3, <1>4, <3>1
        <4> QED BY <1>5, <4>1, <4>2, RolesDiffer DEF MemberOK, Kept, Present
      <3>2. CASE n # m
        <4>1. n \in People \ mixed /\ member'[n] = member[n]
          BY <1>4, <1>5, <2>1, <3>2
        <4> QED BY <1>5, <4>1 DEF MembersOK, MemberOK, Present, Removed
      <3> QED BY <3>1, <3>2
    <2>2. \A n \in People : member'[n].st = "none" => ~member'[n].gone
      BY <1>3, <1>4 DEF MembersOK
    <2> QED BY <2>1, <2>2 DEF MembersOK
  <1>9. ASSUME NEW g \in Handlers PROVE StaffKnows(staff[g])'
    <2>1. CASE staff'[g].op \notin {"drop", "edit", "remove"}
      BY <2>1 DEF StaffKnows
    <2>2. CASE staff'[g].op \in {"drop", "edit", "remove"}
      <3>1. g # h /\ staff'[g] = staff[g] /\ staff[g] \in StaffState
        BY <1>6, <2>2, StaffStates, CrowdedShape DEF StaffTypeOK
      <3>2. StaffKnows(staff[g])
        BY DEF AllKnow
      <3>3. staff[g].op = "drop" => \A n \in People \ mixed' : member'[n].role # staff[g].role
        <4> SUFFICES ASSUME staff[g].op = "drop", NEW n \in People \ mixed'
                     PROVE  member'[n].role # staff[g].role
          OBVIOUS
        <4>1. CASE n = m
          BY <1>3, <1>4, <1>5, <4>1 DEF Kept
        <4>2. CASE n # m
          BY <1>4, <1>5, <3>2, <4>2 DEF StaffKnows
        <4> QED BY <4>1, <4>2
      <3>4. staff[g].op \in {"edit", "remove"} => member'[staff[g].who].st # "none"
        BY <1>3, <1>4, <3>1, <3>2, StaffShape DEF StaffKnows
      <3> QED BY <3>1, <3>3, <3>4 DEF StaffKnows
    <2> QED BY <2>1, <2>2
  <1> QED BY <1>7, <1>8, <1>9 DEF AllKnow

(* What the other handlers know survives a change of one member, if the    *)
(* member keeps a row and takes no role that is being deleted.             *)
LEMMA ChangeKnown ==
  ASSUME StaffHolds, NEW h \in Handlers, NEW m \in People, NEW x \in Membership,
         \A n \in People : member'[n] = IF n = m THEN x ELSE member[n],
         \A g \in Handlers : staff'[g] \in {staff[g], Crowded[g], Idle},
         x.st # "none", mixed \subseteq mixed',
         m \notin mixed' => \A g \in Handlers \ {h} : staff[g].op = "drop" => x.role # staff[g].role,
         staff'[h] = Idle
  PROVE  AllKnow'
  <1> USE DEF StaffHolds
  <1> SUFFICES ASSUME NEW g \in Handlers PROVE StaffKnows(staff[g])'
    BY DEF AllKnow
  <1>1. CASE staff'[g].op \notin {"drop", "edit", "remove"}
    BY <1>1 DEF StaffKnows
  <1>2. CASE staff'[g].op \in {"drop", "edit", "remove"}
    <2>1. g # h /\ staff'[g] = staff[g] /\ staff[g] \in StaffState
      BY <1>2, StaffStates, CrowdedShape DEF StaffTypeOK
    <2>2. StaffKnows(staff[g])
      BY DEF AllKnow
    <2>3. staff[g].op = "drop" => \A n \in People \ mixed' : member'[n].role # staff[g].role
      <3> SUFFICES ASSUME staff[g].op = "drop", NEW n \in People \ mixed'
                   PROVE  member'[n].role # staff[g].role
        OBVIOUS
      <3>1. CASE n = m
        BY <2>1, <3>1
      <3>2. CASE n # m
        BY <2>2, <3>2 DEF StaffKnows
      <3> QED BY <3>1, <3>2
    <2>4. staff[g].op \in {"edit", "remove"} => member'[staff[g].who].st # "none"
      BY <2>1, <2>2, StaffShape DEF StaffKnows
    <2> QED BY <2>1, <2>3, <2>4 DEF StaffKnows
  <1> QED BY <1>1, <1>2

(* An edit writes by id: who was removed, or takes a role that is being    *)
(* deleted, is one of those whose edits overlapped that.                   *)
LEMMA EditMemberKeeps ==
  ASSUME StaffHolds, NEW h \in Handlers, EditMember(h)
  PROVE  StaffHolds'
  <1> USE DEF StaffHolds
  <1>1. staff[h] \in StaffState /\ staff[h].op = "edit" /\ StaffKnows(staff[h])
    BY DEF EditMember, StaffTypeOK, AllKnow
  <1>2. PICK m \in People, r \in AnyRole \cup {NoRole}, st \in {"keep", "active", "suspended"} :
            m = staff[h].who /\ r = staff[h].role /\ st = staff[h].st
    BY <1>1, StaffShape
  <1>3. member[m] \in Membership /\ member[m].st # "none"
    BY <1>1, <1>2 DEF StaffKnows, StaffTypeOK
  <1>4. PICK x \in Membership :
            /\ x = [member[m] EXCEPT !.st = IF st = "keep" THEN @ ELSE st,
                                     !.role = IF r = NoRole THEN @ ELSE r]
            /\ x.st = IF st = "keep" THEN member[m].st ELSE st
            /\ x.role = IF r = NoRole THEN member[m].role ELSE r
            /\ x.gone = member[m].gone
    <2> DEFINE st1 == IF st = "keep" THEN member[m].st ELSE st
               r1 == IF r = NoRole THEN member[m].role ELSE r
               y == [member[m] EXCEPT !.st = st1, !.role = r1]
    <2>1. st1 \in {"none", "active", "suspended", "terminated"} /\ r1 \in AnyRole \cup {NoRole}
      BY <1>3, MemberShape
    <2> HIDE DEF st1, r1
    <2>2. y \in Membership /\ y.st = st1 /\ y.role = r1 /\ y.gone = member[m].gone
      BY <1>3, <2>1 DEF Membership
    <2> USE DEF st1, r1
    <2> QED BY <2>2
  <1>5. \A n \in People : member'[n] = IF n = m THEN x ELSE member[n]
    BY <1>2, <1>4 DEF EditMember, StaffTypeOK
  <1>6. /\ mixed' = IF ~member[m].gone /\ (r = NoRole \/ Kept(r)) THEN mixed ELSE mixed \cup {m}
        /\ role' = role
    BY <1>2 DEF EditMember
  <1>7. \A g \in Handlers :
            staff'[g] = IF g = h THEN Idle ELSE IF st = "active" THEN Crowded[g] ELSE staff[g]
    BY <1>2, CrowdedShape DEF EditMember, StaffTypeOK
  <1>8. StaffTypeOK'
    <2>1. staff' \in [Handlers -> StaffState]
      BY <1>2, CrowdedShape, StaffStates DEF EditMember, StaffTypeOK
    <2>2. member' \in [People -> Membership]
      BY <1>2, <1>4 DEF EditMember, StaffTypeOK
    <2> QED BY <1>6, <2>1, <2>2 DEF StaffTypeOK
  <1>9. MembersOK'
    <2>1. ASSUME NEW n \in People \ mixed' PROVE MemberOK(n)'
      <3>1. CASE n = m
        <4>1. m \notin mixed /\ ~member[m].gone /\ (r = NoRole \/ Kept(r))
          BY <1>6, <2>1, <3>1
        <4>2. MemberOK(m) /\ Present(m)
          BY <1>3, <4>1 DEF MembersOK, Present
        <4>3. x.role # NoRole /\ role[x.role] = "live"
          BY <1>4, <4>1, <4>2 DEF MemberOK, Kept
        <4>4. member'[n].role = x.role /\ ~member'[n].gone
          BY <1>4, <1>5, <3>1, <4>1
        <4> QED BY <1>6, <4>3, <4>4 DEF MemberOK
      <3>2. CASE n # m
        <4>1. n \in People \ mixed /\ member'[n] = member[n]
          BY <1>5, <1>6, <2>1, <3>2
        <4> QED BY <1>6, <4>1 DEF MembersOK, MemberOK, Present, Removed
      <3> QED BY <3>1, <3>2
    <2>2. \A n \in People : member'[n].st = "none" => ~member'[n].gone
      BY <1>3, <1>4, <1>5 DEF MembersOK
    <2> QED BY <2>1, <2>2 DEF MembersOK
  <1>10. AllKnow'
    <2>1. x.st # "none" /\ mixed \subseteq mixed' /\ staff'[h] = Idle
      BY <1>3, <1>4, <1>6, <1>7
    <2>2. m \notin mixed' => \A g \in Handlers \ {h} : staff[g].op = "drop" => x.role # staff[g].role
      <3> SUFFICES ASSUME m \notin mixed', NEW g \in Handlers \ {h}, staff[g].op = "drop"
                   PROVE  x.role # staff[g].role
        OBVIOUS
      <3>1. m \notin mixed /\ (r = NoRole \/ Kept(r))
        BY <1>6
      <3>2. member[m].role # staff[g].role
        BY <3>1 DEF AllKnow, StaffKnows
      <3> QED BY <1>4, <3>1, <3>2 DEF Kept
    <2>3. \A g \in Handlers : staff'[g] \in {staff[g], Crowded[g], Idle}
      BY <1>7
    <2> QED BY <1>5, <2>1, <2>2, <2>3, ChangeKnown
  <1> QED BY <1>8, <1>9, <1>10

LEMMA RemoveMemberKeeps ==
  ASSUME StaffHolds, NEW h \in Handlers, RemoveMember(h)
  PROVE  StaffHolds'
  <1> USE DEF StaffHolds
  <1>1. staff[h] \in StaffState /\ staff[h].op = "remove"
    BY DEF RemoveMember, StaffTypeOK
  <1>2. PICK m \in People : m = staff[h].who
    BY <1>1, StaffShape
  <1>3. PICK x \in Membership : x = Removed(m) /\ x.st = "terminated" /\ x.gone /\ x.role = NoRole
    <2>1. Removed(m) \in Membership
      BY DEF Removed, Membership
    <2>2. Removed(m).st = "terminated" /\ Removed(m).gone /\ Removed(m).role = NoRole
      BY DEF Removed
    <2> QED BY <2>1, <2>2
  <1>4. \A n \in People : member'[n] = IF n = m THEN x ELSE member[n]
    BY <1>2, <1>3 DEF RemoveMember, StaffTypeOK
  <1>5. role' = role /\ mixed' = mixed
    BY DEF RemoveMember
  <1>6. \A g \in Handlers : staff'[g] = IF g = h THEN Idle ELSE staff[g]
    BY DEF RemoveMember, StaffGoes, StaffTypeOK
  <1>7. StaffTypeOK'
    <2>1. staff' \in [Handlers -> StaffState]
      BY StaffStates DEF RemoveMember, StaffGoes, StaffTypeOK
    <2>2. member' \in [People -> Membership]
      BY <1>2, <1>3 DEF RemoveMember, StaffTypeOK
    <2> QED BY <1>5, <2>1, <2>2 DEF StaffTypeOK
  <1>8. MembersOK'
    <2>1. ASSUME NEW n \in People \ mixed' PROVE MemberOK(n)'
      <3>1. CASE n = m
        BY <1>3, <1>4, <3>1 DEF MemberOK, Present, Removed
      <3>2. CASE n # m
        BY <1>4, <1>5, <2>1, <3>2 DEF MembersOK, MemberOK, Present, Removed
      <3> QED BY <3>1, <3>2
    <2>2. \A n \in People : member'[n].st = "none" => ~member'[n].gone
      BY <1>3, <1>4 DEF MembersOK
    <2> QED BY <2>1, <2>2 DEF MembersOK
  <1>9. \A g \in Handlers : staff[g].op = "drop" => x.role # staff[g].role
    BY <1>3, StaffShape, RolesDiffer DEF StaffTypeOK, AnyRole
  <1>10. AllKnow'
    BY <1>3, <1>4, <1>5, <1>6, <1>9, ChangeKnown
  <1> QED BY <1>7, <1>8, <1>10

LEMMA RolesKeep ==
  ASSUME StaffHolds, (\E r \in Roles : CreateRole(r)) \/ (\E h \in Handlers : DropRole(h))
  PROVE  StaffHolds'
  <1> USE DEF StaffHolds
  <1>1. ASSUME NEW r \in Roles, CreateRole(r) PROVE StaffHolds'
    <2>1. role' \in [AnyRole -> {"none", "live", "deleted"}]
          /\ \A q \in AnyRole : role[q] = "live" => role'[q] = "live"
      BY <1>1 DEF CreateRole, StaffTypeOK
    <2>2. StaffTypeOK'
      BY <1>1, <2>1 DEF CreateRole, StaffTypeOK
    <2>3. \A m \in People : member[m].role \in AnyRole \cup {NoRole}
      BY MemberShape DEF StaffTypeOK
    <2>4. MembersOK'
      BY <1>1, <2>1, <2>3 DEF CreateRole, MembersOK, MemberOK, Present, Removed
    <2>5. AllKnow'
      BY <1>1 DEF CreateRole, AllKnow, StaffKnows
    <2> QED BY <2>2, <2>4, <2>5
  <1>2. ASSUME NEW h \in Handlers, DropRole(h) PROVE StaffHolds'
    <2>1. staff[h] \in StaffState /\ staff[h].op = "drop" /\ StaffKnows(staff[h])
      BY <1>2 DEF DropRole, StaffTypeOK, AllKnow
    <2>2. PICK r \in Roles : r = staff[h].role
      BY <2>1, StaffShape
    <2>3. role' \in [AnyRole -> {"none", "live", "deleted"}]
          /\ \A q \in AnyRole : q # r => role'[q] = role[q]
      BY <1>2, <2>2 DEF DropRole, StaffTypeOK
    <2>4. \A m \in People \ mixed : member[m].role # r
      BY <2>1, <2>2 DEF StaffKnows
    <2>5. \A g \in Handlers : staff'[g] = IF g = h THEN Idle ELSE staff[g]
      BY <1>2 DEF DropRole, StaffGoes, StaffTypeOK
    <2>6. StaffTypeOK'
      BY <1>2, <2>3, StaffStates DEF DropRole, StaffGoes, StaffTypeOK
    <2>7. \A m \in People : member[m].role \in AnyRole \cup {NoRole}
      BY MemberShape DEF StaffTypeOK
    <2>8. MembersOK'
      BY <1>2, <2>3, <2>4, <2>7 DEF DropRole, MembersOK, MemberOK, Present, Removed
    <2>9. AllKnow'
      BY <1>2, <2>5, StaffStates DEF DropRole, AllKnow, StaffKnows
    <2> QED BY <2>6, <2>8, <2>9
  <1> QED BY <1>1, <1>2

LEMMA StaffStep == StaffHolds /\ StaffNext => StaffHolds'
  BY ChecksKeep, AddMemberKeeps, EditMemberKeeps, RemoveMemberKeeps, RolesKeep DEF StaffNext

LEMMA CompanyStep ==
  CompanyNext => \/ StaffNext /\ UNCHANGED billingVars
                 \/ /\ BillingNext /\ UNCHANGED <<member, role, mixed>>
                    /\ staff' = IF subs' = subs THEN staff ELSE Crowded
  BY DEF CompanyNext

LEMMA StaffKeptInv ==
  StaffInv /\ [CompanyNext]_<<billingVars, staffVars>> => StaffInv'
  <1> SUFFICES ASSUME StaffHolds, [CompanyNext]_<<billingVars, staffVars>> PROVE StaffHolds'
    BY StaffParts, StaffPartsAfter
  <1>1. CASE UNCHANGED <<billingVars, staffVars>>
    BY <1>1, StaffWaits DEF staffVars
  <1> QED BY <1>1, CompanyStep, StaffStep, StaffWaits

(* For any number of people, roles and overlapping requests: whoever is    *)
(* active has a role that is there, and whoever was removed keeps none,    *)
(* but for those whose edits overlapped the removal or the role's end.     *)
THEOREM StaffInvariant == CompanySpec => []StaffInv
  <1>1. CompanyInit => StaffInv
    BY StaffStart DEF CompanyInit
  <1> QED BY <1>1, StaffKeptInv, PTL DEF CompanySpec

-----------------------------------------------------------------------------
(* The employee limit.  A check that is still alone holds: the members and *)
(* the plan are those it saw, or fewer.                                    *)
LimitSeen ==
    \A h \in Handlers : staff[h].op = "add" /\ staff[h].alone =>
        \A p \in CurrentPlan : Cardinality(Active) < LimitOf[p]
CompanyHolds == StaffHolds /\ BillingHolds /\ LimitSeen

StaysOut ==
    \A m \in People : member[m].gone =>
        /\ m \notin Active' /\ ~Access(m)'
        /\ m \notin mixed' => member'[m].st = "terminated" /\ member'[m].role = NoRole
WithinLimit ==
    \A h \in Handlers :
        staff[h].op = "add" /\ staff[h].alone /\ Active' # Active /\ staff'[h] = Idle
            => \A p \in CurrentPlan : Cardinality(Active') <= LimitOf[p]

LEMMA ActiveFinite == IsFiniteSet(Active) /\ Cardinality(Active) \in Nat
  BY FS_Subset, FS_CardinalityType DEF Active, EmployeesAssumption

LEMMA PlansKnown ==
  ASSUME BillingTypeOK
  PROVE  \A p \in CurrentPlan : LimitOf[p] \in Nat
  <1>1. ASSUME NEW i \in DOMAIN subs PROVE subs[i].plan \in Plans
    <2>1. subs[i] \in Subscription
      BY DEF BillingTypeOK
    <2> QED BY <2>1 DEF Subscription
  <1>2. CurrentPlan \subseteq Plans
    BY <1>1 DEF CurrentPlan, LiveSubs
  <1> QED BY <1>2 DEF EmployeesAssumption

LEMMA LimitStays ==
  ASSUME CompanyHolds, Active' \subseteq Active, subs' = subs,
         \A g \in Handlers :
            staff'[g].op = "add" /\ staff'[g].alone => staff'[g] = staff[g] \/ BelowLimit
  PROVE  LimitSeen'
  <1>1. CurrentPlan' = CurrentPlan
    BY DEF CurrentPlan, LiveSubs
  <1>2. Cardinality(Active') \in Nat /\ Cardinality(Active') <= Cardinality(Active)
    BY ActiveFinite, FS_Subset, FS_CardinalityType
  <1>3. SUFFICES ASSUME NEW g \in Handlers, staff'[g].op = "add" /\ staff'[g].alone,
                        NEW p \in CurrentPlan
                 PROVE  Cardinality(Active') < LimitOf[p]
    BY <1>1 DEF LimitSeen
  <1>4. Cardinality(Active) < LimitOf[p]
    BY <1>3 DEF CompanyHolds, LimitSeen, BelowLimit
  <1>5. LimitOf[p] \in Nat
    BY PlansKnown DEF CompanyHolds, BillingHolds
  <1> QED BY <1>2, <1>4, <1>5, ActiveFinite

LEMMA NobodyAlone ==
  ASSUME \A g \in Handlers : staff'[g].op = "add" => ~staff'[g].alone
  PROVE  LimitSeen'
  BY DEF LimitSeen

(* Nobody becomes active in a step that checks, removes, or is about roles.*)
LEMMA QuietStep ==
  ASSUME CompanyHolds, UNCHANGED billingVars, NEW h \in Handlers,
         \/ \E m \in People :
              \/ \E r \in AnyRole : CheckNew(h, m, r)
              \/ \E r \in AnyRole \cup {NoRole}, st \in {"keep", "active", "suspended"} :
                  CheckEdit(h, m, r, st)
              \/ CheckRemove(h, m)
         \/ \E r \in Roles : CreateRole(r) \/ CheckDrop(h, r)
         \/ AddFails(h) \/ DropRole(h)
  PROVE  LimitSeen' /\ Active' = Active
  <1>1. Active' = Active
    BY DEF CheckNew, CheckEdit, CheckRemove, CreateRole, CheckDrop, AddFails, DropRole, Active
  <1>2. subs' = subs
    BY DEF billingVars
  <1>3. \A g \in Handlers :
            staff'[g].op = "add" /\ staff'[g].alone => staff'[g] = staff[g] \/ BelowLimit
    BY StaffStates
    DEF CheckNew, CheckEdit, CheckRemove, CreateRole, CheckDrop, AddFails, DropRole, StaffGoes,
        CompanyHolds, StaffHolds, StaffTypeOK
  <1> QED BY <1>1, <1>2, <1>3, LimitStays

LEMMA AddStep ==
  ASSUME CompanyHolds, NEW h \in Handlers, AddMember(h)
  PROVE  LimitSeen' /\ WithinLimit
  <1> USE DEF CompanyHolds, StaffHolds
  <1>1. staff[h] \in StaffState /\ staff[h].op = "add"
    BY DEF AddMember, StaffTypeOK
  <1>2. PICK m \in People : m = staff[h].who
    BY <1>1, StaffShape
  <1>3. \A n \in People \ {m} : member'[n] = member[n]
    BY <1>2 DEF AddMember, StaffTypeOK
  <1>4. Active' \subseteq Active \cup {m}
    BY <1>3 DEF Active
  <1>5. \A g \in Handlers : staff'[g] = IF g = h THEN Idle ELSE Crowded[g]
    BY CrowdedShape DEF AddMember
  <1>6. LimitSeen'
    BY <1>5, StaffStates, CrowdedShape, NobodyAlone
  <1>7. IsFiniteSet(Active \cup {m}) /\ Cardinality(Active \cup {m}) <= Cardinality(Active) + 1
        /\ Cardinality(Active \cup {m}) \in Nat
    <2>1. IsFiniteSet(Active \cup {m})
          /\ \/ Cardinality(Active \cup {m}) = Cardinality(Active)
             \/ Cardinality(Active \cup {m}) = Cardinality(Active) + 1
      BY ActiveFinite, FS_AddElement
    <2> QED BY <2>1, ActiveFinite
  <1>8. Cardinality(Active') \in Nat /\ Cardinality(Active') <= Cardinality(Active) + 1
    <2>1. Cardinality(Active') <= Cardinality(Active \cup {m}) /\ IsFiniteSet(Active')
      BY <1>4, <1>7, FS_Subset
    <2>2. Cardinality(Active') \in Nat
      BY <2>1, FS_CardinalityType
    <2> QED BY <1>7, <2>1, <2>2, ActiveFinite
  <1>9. WithinLimit
    <2> SUFFICES ASSUME NEW g \in Handlers, staff[g].op = "add", staff[g].alone,
                        staff'[g] = Idle, NEW p \in CurrentPlan
                 PROVE  Cardinality(Active') <= LimitOf[p]
      BY DEF WithinLimit
    <2>1. Cardinality(Active) < LimitOf[p]
      BY DEF LimitSeen
    <2>2. LimitOf[p] \in Nat
      BY PlansKnown DEF BillingHolds
    <2> QED BY <1>8, <2>1, <2>2, ActiveFinite
  <1> QED BY <1>6, <1>9

(* An edit that activates a member leaves no check alone, and is no end of *)
(* one.                                                                    *)
LEMMA EditStep ==
  ASSUME CompanyHolds, UNCHANGED billingVars, NEW h \in Handlers, EditMember(h) \/ RemoveMember(h)
  PROVE  LimitSeen' /\ WithinLimit
  <1> USE DEF CompanyHolds, StaffHolds
  <1>1. staff[h] \in StaffState /\ staff[h].op \in {"edit", "remove"}
    BY DEF EditMember, RemoveMember, StaffTypeOK
  <1>2. PICK m \in People : m = staff[h].who
    BY <1>1, StaffShape
  <1>3. \A g \in Handlers \ {h} : staff'[g] \in {staff[g], Crowded[g]}
    BY CrowdedShape DEF EditMember, RemoveMember, StaffGoes, StaffTypeOK
  <1>4. staff'[h] = Idle
    BY CrowdedShape DEF EditMember, RemoveMember, StaffGoes, StaffTypeOK
  <1>5. WithinLimit
    <2> SUFFICES ASSUME NEW g \in Handlers, staff[g].op = "add", staff'[g] = Idle PROVE FALSE
      BY DEF WithinLimit
    <2>1. g # h
      BY <1>1
    <2>2. staff'[g].op = "add"
      BY <1>3, <2>1, CrowdedShape
    <2> QED BY <2>2, StaffStates
  <1>6. CASE EditMember(h) /\ staff[h].st = "active"
    <2>1. \A g \in Handlers : staff'[g] = IF g = h THEN Idle ELSE Crowded[g]
      BY <1>6, CrowdedShape DEF EditMember
    <2> QED BY <1>5, <2>1, StaffStates, CrowdedShape, NobodyAlone
  <1>7. CASE ~(EditMember(h) /\ staff[h].st = "active")
    <2>1. \A g \in Handlers : staff'[g] = IF g = h THEN Idle ELSE staff[g]
      BY <1>7 DEF EditMember, RemoveMember, StaffGoes, StaffTypeOK
    <2>2. \A n \in People \ {m} : member'[n] = member[n]
      BY <1>2 DEF EditMember, RemoveMember, StaffTypeOK
    <2>3. m \in Active' => m \in Active
      <3>1. CASE RemoveMember(h)
        <4>1. member'[m].gone
          BY <1>2, <3>1 DEF RemoveMember, Removed, StaffTypeOK
        <4> QED BY <4>1 DEF Active
      <3>2. CASE EditMember(h)
        <4>1. staff[h].st \in {"keep", "suspended"}
          BY <1>1, <1>7, <3>2, StaffShape DEF EditMember
        <4>2. member[m] \in Membership
          BY DEF StaffTypeOK
        <4>3. member'[m].gone = member[m].gone
              /\ member'[m].st = IF staff[h].st = "keep" THEN member[m].st ELSE staff[h].st
          BY <1>2, <3>2, <4>2 DEF EditMember, StaffTypeOK, Membership
        <4> QED BY <4>1, <4>3 DEF Active
      <3> QED BY <3>1, <3>2
    <2>4. Active' \subseteq Active
      BY <2>2, <2>3 DEF Active
    <2>5. subs' = subs
      BY DEF billingVars
    <2>6. LimitSeen'
      BY <2>1, <2>4, <2>5, StaffStates, LimitStays
    <2> QED BY <1>5, <2>6
  <1> QED BY <1>6, <1>7

LEMMA BillingStep ==
  ASSUME CompanyHolds, (subs' = subs /\ staff' = staff) \/ staff' = Crowded,
         UNCHANGED <<member, role, mixed>>
  PROVE  LimitSeen' /\ Active' = Active
  <1>1. Active' = Active
    BY DEF Active
  <1>2. CASE staff' = Crowded
    BY <1>1, <1>2, CrowdedShape, NobodyAlone DEF CompanyHolds, StaffHolds
  <1>3. CASE subs' = subs /\ staff' = staff
    BY <1>1, <1>3, LimitStays
  <1> QED BY <1>1, <1>2, <1>3

LEMMA LimitStep ==
  ASSUME CompanyHolds, CompanyNext
  PROVE  LimitSeen' /\ WithinLimit
  <1>1. CASE StaffNext /\ UNCHANGED billingVars
    <2>1. PICK h \in Handlers :
            \/ \E m \in People :
                 \/ \E r \in AnyRole : CheckNew(h, m, r)
                 \/ \E r \in AnyRole \cup {NoRole}, st \in {"keep", "active", "suspended"} :
                     CheckEdit(h, m, r, st)
                 \/ CheckRemove(h, m)
            \/ AddMember(h) \/ AddFails(h) \/ EditMember(h) \/ RemoveMember(h)
            \/ \E r \in Roles : CreateRole(r) \/ CheckDrop(h, r)
            \/ DropRole(h)
      BY <1>1 DEF StaffNext
    <2>2. CASE AddMember(h)
      BY <2>2, AddStep
    <2>3. CASE EditMember(h) \/ RemoveMember(h)
      BY <1>1, <2>3, EditStep
    <2>4. CASE ~AddMember(h) /\ ~EditMember(h) /\ ~RemoveMember(h)
      BY <1>1, <2>1, <2>4, QuietStep DEF WithinLimit
    <2> QED BY <2>2, <2>3, <2>4
  <1>2. CASE BillingNext /\ UNCHANGED <<member, role, mixed>>
             /\ staff' = IF subs' = subs THEN staff ELSE Crowded
    BY <1>2, BillingStep DEF WithinLimit
  <1> QED BY <1>1, <1>2, CompanyStep

(* Removal is for good: every write keeps the mark.                        *)
LEMMA GoneStays ==
  ASSUME StaffHolds, CompanyNext, NEW m \in People, member[m].gone
  PROVE  member'[m].gone /\ mixed \subseteq mixed'
  <1> USE DEF StaffHolds
  <1>1. member[m].st # "none" /\ member[m] \in Membership
    BY DEF MembersOK, StaffTypeOK
  <1>2. CASE BillingNext /\ UNCHANGED <<member, role, mixed>>
    BY <1>2
  <1>3. CASE StaffNext
    <2>1. ASSUME NEW h \in Handlers, AddMember(h) PROVE member'[m].gone /\ mixed \subseteq mixed'
      BY <1>1, <2>1 DEF AddMember, StaffTypeOK
    <2>2. ASSUME NEW h \in Handlers, EditMember(h) PROVE member'[m].gone /\ mixed \subseteq mixed'
      <3>1. member'[m].gone = member[m].gone
        BY <1>1, <2>2 DEF EditMember, StaffTypeOK, Membership
      <3> QED BY <2>2, <3>1 DEF EditMember
    <2>3. ASSUME NEW h \in Handlers, RemoveMember(h) PROVE member'[m].gone /\ mixed \subseteq mixed'
      BY <1>1, <2>3 DEF RemoveMember, StaffTypeOK, Removed
    <2> QED
      BY <1>3, <2>1, <2>2, <2>3
      DEF StaffNext, CheckNew, CheckEdit, CheckRemove, AddFails, CreateRole, CheckDrop, DropRole
  <1> QED BY <1>2, <1>3, CompanyStep

LEMMA StaysOutStep ==
  ASSUME StaffHolds, StaffHolds', CompanyNext
  PROVE  StaysOut
  <1> SUFFICES ASSUME NEW m \in People, member[m].gone
               PROVE  /\ m \notin Active' /\ ~Access(m)'
                      /\ m \notin mixed' => member'[m].st = "terminated" /\ member'[m].role = NoRole
    BY DEF StaysOut
  <1>1. member'[m].gone
    BY GoneStays
  <1>2. m \notin Active' /\ ~Access(m)'
    BY <1>1 DEF Active, Access
  <1>3. m \notin mixed' => member'[m] = Removed(m)'
    BY <1>1 DEF StaffHolds, MembersOK, MemberOK
  <1> QED BY <1>2, <1>3 DEF Removed

LEMMA CompanyStart == CompanyInit => CompanyHolds
  <1>1. CompanyInit => StaffHolds /\ BillingHolds
    BY StaffStart, BillingStart, StaffParts, BillingParts DEF CompanyInit
  <1>2. StaffInit => LimitSeen
    BY StaffStates DEF StaffInit, LimitSeen
  <1> QED BY <1>1, <1>2 DEF CompanyInit, CompanyHolds

LEMMA CompanyKept ==
  CompanyHolds /\ [CompanyNext]_<<billingVars, staffVars>>
      => CompanyHolds' /\ [StaysOut]_<<billingVars, staffVars>>
                       /\ [WithinLimit]_<<billingVars, staffVars>>
  <1> SUFFICES ASSUME CompanyHolds, [CompanyNext]_<<billingVars, staffVars>>
               PROVE  CompanyHolds' /\ [StaysOut]_<<billingVars, staffVars>>
                                    /\ [WithinLimit]_<<billingVars, staffVars>>
    OBVIOUS
  <1>1. StaffHolds'
    <2>1. CASE UNCHANGED <<billingVars, staffVars>>
      BY <2>1, StaffWaits DEF staffVars, CompanyHolds
    <2> QED BY <2>1, CompanyStep, StaffStep, StaffWaits DEF CompanyHolds
  <1>2. BillingHolds'
    <2>1. [BillingNext]_billingVars
      BY CompanyStep
    <2>2. BillingInv'
      BY <2>1, BillingParts, BillingKept DEF CompanyHolds
    <2>3. BillingInv' => BillingHolds'
      BY BillingParts, PTL
    <2> QED BY <2>2, <2>3
  <1>3. CASE UNCHANGED <<billingVars, staffVars>>
    <2>1. LimitSeen'
      BY <1>3, BillingStep DEF billingVars, staffVars
    <2> QED BY <1>1, <1>2, <1>3, <2>1 DEF CompanyHolds
  <1>4. CASE CompanyNext
    <2>1. LimitSeen' /\ WithinLimit
      BY <1>4, LimitStep
    <2>2. StaysOut
      BY <1>1, <1>4, StaysOutStep DEF CompanyHolds
    <2> QED BY <1>1, <1>2, <2>1, <2>2 DEF CompanyHolds
  <1> QED BY <1>3, <1>4

(* For any number of people, roles, plans and overlapping requests: nobody *)
(* who was removed is let in again, and nobody is added past the employee  *)
(* limit but after another was added or activated, or the plan changed,    *)
(* since the limit was checked.                                            *)
THEOREM StaffKeptAlways == CompanySpec => StaffKept
  <1>1. CompanyInit => CompanyHolds
    BY CompanyStart
  <1>2. CompanyHolds /\ [CompanyNext]_<<billingVars, staffVars>>
            => CompanyHolds' /\ [StaysOut]_<<billingVars, staffVars>>
                             /\ [WithinLimit]_<<billingVars, staffVars>>
    BY CompanyKept
  <1>3. StaffKept <=> [][StaysOut]_<<billingVars, staffVars>>
                      /\ [][WithinLimit]_<<billingVars, staffVars>>
    BY DEF StaffKept, RemovedStaysOut, LimitKept, StaysOut, WithinLimit
  <1> QED BY <1>1, <1>2, <1>3, PTL DEF CompanySpec

-----------------------------------------------------------------------------
(* Departments and teams.  The first suffix that is free is one, because   *)
(* there are more suffixes than units.                                     *)
LEMMA UnitsFacts ==
  /\ IsFiniteSet(Units) /\ Cardinality(Units) \in Nat /\ Fresh \in Unit
  /\ 1 \in Suffix /\ Suffix \subseteq Nat \ {0} /\ IsFiniteSet(Suffix)
  /\ Cardinality(Suffix) = Cardinality(Units) + 1
  <1>1. IsFiniteSet(Units) /\ Cardinality(Units) \in Nat
    BY UnitsAssumption, FS_Union, FS_CardinalityType DEF Units
  <1>2. PICK n \in Nat : n = Cardinality(Units)
    BY <1>1
  <1>3. Suffix = 1..(n + 1)
    BY <1>2 DEF Suffix
  <1>4. IsFiniteSet(1..(n + 1)) /\ Cardinality(1..(n + 1)) = n + 1
    BY FS_Interval
  <1>5. (CHOOSE m \in Names : TRUE) \in Names
    BY UnitsAssumption
  <1>6. 1 \in Suffix /\ Suffix \subseteq Nat \ {0}
    BY <1>3
  <1> QED BY <1>1, <1>2, <1>3, <1>4, <1>5, <1>6 DEF Fresh, Unit

LEMMA CodedIsSmall ==
  ASSUME UnitsTypeOK, NEW u \in Units, NEW n
  PROVE  Suffix \ Coded(u, n) # {}
  <1> DEFINE D == {w \in Kind(u) \ {u} : unit[w].st # "none" /\ unit[w].name = n}
  <1>1. D \subseteq Units /\ u \notin D
    BY DEF Kind, Units
  <1>2. IsFiniteSet(D) /\ Cardinality(D) \in Nat /\ Cardinality(D) <= Cardinality(Units)
    BY <1>1, UnitsFacts, FS_Subset, FS_CardinalityType
  <1> DEFINE f == [v \in D |-> unit[v].suffix]
  <1>3. f \in Surjection(D, Coded(u, n))
    BY DEF Surjection, Coded
  <1>4. IsFiniteSet(Coded(u, n)) /\ Cardinality(Coded(u, n)) <= Cardinality(D)
    BY <1>2, <1>3, FS_Surjection
  <1>5. Cardinality(Coded(u, n)) \in Nat
    BY <1>4, FS_CardinalityType
  <1>6. CASE Suffix \subseteq Coded(u, n)
    <2>1. Cardinality(Suffix) <= Cardinality(Coded(u, n))
      BY <1>4, <1>6, FS_Subset
    <2>2. ASSUME NEW a \in Nat, NEW b \in Nat, NEW c \in Nat, b <= a, c <= b, a + 1 <= c
          PROVE  FALSE
      BY <2>2
    <2> QED BY <1>2, <1>4, <1>5, <2>1, <2>2, UnitsFacts
  <1> QED BY <1>6

LEMMA FirstFreeIsFree ==
  ASSUME NEW S, Suffix \ S # {}
  PROVE  FirstFree(S) \in Suffix /\ FirstFree(S) \notin S
  <1> DEFINE Less == OpToRel(<, Nat)
  <1>1. IsWellFoundedOn(Less, Nat)
    BY NatLessThanWellFounded
  <1>2. Suffix \ S \subseteq Nat
    BY UnitsFacts
  <1>3. PICK i \in Suffix \ S : \A j \in Suffix \ S : ~(<<j, i>> \in Less)
    BY <1>1, <1>2, WFMin
  <1>4. \A j \in Suffix \ S : ~(j < i)
    BY <1>2, <1>3 DEF OpToRel
  <1>5. \A j \in 1..(i - 1) : j \in Suffix /\ j < i
    BY UnitsFacts DEF Suffix
  <1>6. \A j \in 1..(i - 1) : j \in S
    BY <1>4, <1>5
  <1> QED BY <1>6 DEF FirstFree

LEMMA FreshCode ==
  ASSUME UnitsTypeOK, NEW u \in Units, NEW n
  PROVE  FirstFree(Coded(u, n)) \in Suffix /\ FirstFree(Coded(u, n)) \notin Coded(u, n)
  BY CodedIsSmall, FirstFreeIsFree

LEMMA UnitsShape ==
  ASSUME NEW s \in UnitsState
  PROVE  /\ s = Idle <=> s.op = "idle"
         /\ s.op \in {"named", "coded"} =>
              /\ s.unit \in Units /\ s.name \in Names
              /\ s.under \in Departments \cup {NoUnit} /\ s.lead \in Staff \cup {NoLeader}
         /\ s.op = "coded" => s.suffix \in Suffix
         /\ s.op = "retitle" =>
              /\ s.unit \in Teams /\ s.name \in Names
              /\ s.under \in Departments \cup {NoUnit} /\ s.lead \in Staff \cup {NoLeader}
         /\ s.op = "delete" => s.unit \in Units
         /\ s.op = "place" => s.unit \in Units /\ s.who \in Staff
  BY DEF UnitsState, Idle

LEMMA UnitsStates ==
  /\ Idle \in UnitsState /\ Idle.op = "idle"
  /\ \A u \in Units, n \in Names, d \in Departments \cup {NoUnit}, l \in Staff \cup {NoLeader} :
        /\ [op |-> "named", unit |-> u, name |-> n, under |-> d, lead |-> l] \in UnitsState
        /\ \A i \in Suffix : [op |-> "coded", unit |-> u, name |-> n, under |-> d,
                              lead |-> l, suffix |-> i] \in UnitsState
        /\ u \in Teams =>
              [op |-> "retitle", unit |-> u, name |-> n, under |-> d, lead |-> l] \in UnitsState
  /\ \A u \in Units : /\ [op |-> "delete", unit |-> u] \in UnitsState
                      /\ \A x \in Staff : [op |-> "place", who |-> x, unit |-> u] \in UnitsState
  BY DEF UnitsState, Idle

(* A step of one handler, from what it holds to s.                         *)
UnitMoved(h, s) == \A g \in Handlers : organizing'[g] = IF g = h THEN s ELSE organizing[g]

LEMMA UnitGoesGives ==
  ASSUME UnitsTypeOK, NEW h \in Handlers, NEW s \in UnitsState, UnitGoes(h, s)
  PROVE  UnitMoved(h, s) /\ organizing' \in [Handlers -> UnitsState]
  BY DEF UnitsTypeOK, UnitGoes, UnitMoved

LEMMA UnitsStart == UnitsInit => UnitsInv
  <1> SUFFICES ASSUME UnitsInit PROVE UnitsInv
    OBVIOUS
  <1>1. UnitsTypeOK
    BY UnitsFacts, UnitsStates DEF UnitsInit, UnitsTypeOK
  <1>2. \A u \in Units : unit[u].st = "none"
    BY DEF UnitsInit, Fresh
  <1>3. NamesDiffer /\ DeletedIsEmpty
    BY <1>2 DEF NamesDiffer, DeletedIsEmpty
  <1>4. \A h \in Handlers : organizing[h].op = "idle"
    BY UnitsStates DEF UnitsInit
  <1> QED BY <1>1, <1>3, <1>4 DEF UnitsInv, UnitKnown

(* A step that only looks changes no row. What the handler holds then is   *)
(* what it has read.                                                       *)
Looks == UNCHANGED <<unit, under, inTeam, lead, loose>>
Looked(h, s) ==
    /\ Looks /\ UnitGoes(h, s)
    /\ s.op = "delete" => InUse(s.unit) /\ Attached(s.unit) = {}
    /\ s.op = "named" /\ s.unit \in Departments => s.lead = NoLeader
    /\ s.op = "coded" => /\ organizing[h].op = "named" /\ s.unit = organizing[h].unit
                         /\ s.lead = organizing[h].lead

LEMMA UnitsStepKinds ==
  ASSUME UnitsTypeOK, NEW h \in Handlers, UnitsStep(h)
  PROVE  \/ \E s \in UnitsState : Looked(h, s)
         \/ CreateUnit(h) \/ EditTeam(h) \/ PlaceEmployee(h) \/ DeleteUnit(h)
  <1>1. ASSUME NEW n \in Names, NEW d \in Departments \cup {NoUnit},
               NEW l \in Staff \cup {NoLeader}, NEW u \in Units, CheckName(h, u, n, d, l)
        PROVE  \E s \in UnitsState : Looked(h, s)
    <2> DEFINE s == [op |-> "named", unit |-> u, name |-> n, under |-> d, lead |-> l]
    <2>1. s \in UnitsState
      BY UnitsStates
    <2> QED BY <1>1, <2>1 DEF CheckName, Looks, Looked
  <1>2. ASSUME NEW n \in Names, NEW d \in Departments \cup {NoUnit},
               NEW l \in Staff \cup {NoLeader}, NEW t \in Teams, CheckTeam(h, t, n, d, l)
        PROVE  \E s \in UnitsState : Looked(h, s)
    <2> DEFINE s == [op |-> "retitle", unit |-> t, name |-> n, under |-> d, lead |-> l]
    <2>1. s \in UnitsState
      BY UnitsStates DEF Units
    <2> QED BY <1>2, <2>1 DEF CheckTeam, Looks, Looked
  <1>3. ASSUME FindCode(h)
        PROVE  \E s \in UnitsState : Looked(h, s)
    <2>1. organizing[h] \in UnitsState /\ organizing[h].op = "named"
      BY <1>3 DEF UnitsTypeOK, FindCode
    <2> DEFINE e == organizing[h]
               i == FirstFree(Coded(e.unit, e.name))
               s == [op |-> "coded", unit |-> e.unit, name |-> e.name, under |-> e.under,
                     lead |-> e.lead, suffix |-> i]
    <2>2. e.unit \in Units /\ e.name \in Names /\ e.under \in Departments \cup {NoUnit}
          /\ e.lead \in Staff \cup {NoLeader}
      BY <2>1, UnitsShape
    <2>3. i \in Suffix
      BY <2>2, FreshCode
    <2> HIDE DEF i
    <2>4. s \in UnitsState
      BY <2>2, <2>3, UnitsStates
    <2>5. UnitGoes(h, s) /\ Looks
      BY <1>3 DEF FindCode, Looks, i
    <2>6. s.op = "coded" /\ s.unit = e.unit /\ s.lead = e.lead
      OBVIOUS
    <2> QED BY <2>1, <2>4, <2>5, <2>6 DEF Looked
  <1>4. ASSUME CreateFails(h)
        PROVE  \E s \in UnitsState : Looked(h, s)
    BY <1>4, UnitsStates DEF CreateFails, Looks, Looked
  <1>5. ASSUME NEW u \in Units, CheckDelete(h, u)
        PROVE  \E s \in UnitsState : Looked(h, s)
    <2> DEFINE s == [op |-> "delete", unit |-> u]
    <2>1. s \in UnitsState /\ s.unit = u /\ s.op = "delete"
      BY UnitsStates
    <2>2. Looks /\ UnitGoes(h, s) /\ InUse(u) /\ Attached(u) = {}
      BY <1>5 DEF CheckDelete, Counted, Looks
    <2> QED BY <2>1, <2>2 DEF Looked
  <1>6. ASSUME NEW u \in Units, NEW x \in Staff, CheckPlace(h, x, u)
        PROVE  \E s \in UnitsState : Looked(h, s)
    <2> DEFINE s == [op |-> "place", who |-> x, unit |-> u]
    <2>1. s \in UnitsState
      BY UnitsStates
    <2> QED BY <1>6, <2>1 DEF CheckPlace, Looks, Looked
  <1>7. CASE \E n \in Names, d \in Departments \cup {NoUnit}, l \in Staff \cup {NoLeader} :
                 \/ \E u \in Units : CheckName(h, u, n, d, l)
                 \/ \E t \in Teams : CheckTeam(h, t, n, d, l)
    BY <1>1, <1>2, <1>7
  <1>8. CASE \E u \in Units : CheckDelete(h, u) \/ \E x \in Staff : CheckPlace(h, x, u)
    BY <1>5, <1>6, <1>8
  <1> QED BY <1>3, <1>4, <1>7, <1>8 DEF UnitsStep

LEMMA UnitsTyped ==
  ASSUME UnitsTypeOK, NEW h \in Handlers, UnitKnown(h), UnitsStep(h)
  PROVE  UnitsTypeOK'
  <1> DEFINE e == organizing[h]
  <1>0. e \in UnitsState /\ Units = Departments \cup Teams
        /\ unit \in [Units -> Unit] /\ under \in [Teams \cup Staff -> Departments \cup {NoUnit}]
        /\ inTeam \subseteq Teams \X Staff /\ lead \subseteq inTeam /\ loose \subseteq Units
        /\ organizing \in [Handlers -> UnitsState]
    BY DEF UnitsTypeOK, Units
  <1> HIDE DEF e
  <1>s. ASSUME NEW d \in Units \cup {NoUnit} PROVE (IF Stays(d) THEN {} ELSE {d}) \subseteq Units
    BY DEF Stays
  <1>j. ASSUME NEW t \in Teams, NEW l \in Staff \cup {NoLeader}
        PROVE  /\ JoinedBy(t, l) \subseteq Teams \X Staff /\ inTeam \subseteq JoinedBy(t, l)
               /\ l # NoLeader => <<t, l>> \in JoinedBy(t, l)
    BY <1>0, <1>j DEF JoinedBy
  <1>i. ASSUME UnitGoes(h, Idle) PROVE organizing' \in [Handlers -> UnitsState]
    BY <1>i, UnitGoesGives, UnitsStates
  <1>1. CASE \E s \in UnitsState : Looked(h, s)
    BY <1>0, <1>1, UnitGoesGives DEF Looked, Looks, UnitsTypeOK
  <1>2. CASE CreateUnit(h)
    <2>1. /\ e.unit \in Units /\ e.name \in Names /\ e.suffix \in Suffix
          /\ e.under \in Departments \cup {NoUnit} /\ e.lead \in Staff \cup {NoLeader}
      BY <1>0, <1>2, UnitsShape DEF CreateUnit, e
    <2>2. [st |-> "live", name |-> e.name, suffix |-> e.suffix] \in Unit
      BY <2>1 DEF Unit
    <2>3. unit' \in [Units -> Unit]
      BY <1>0, <1>2, <2>2 DEF CreateUnit, e
    <2>4. under' \in [Teams \cup Staff -> Departments \cup {NoUnit}]
      BY <1>0, <1>2, <2>1 DEF CreateUnit, e
    <2>5. loose' \subseteq Units
      BY <1>0, <1>2, <1>s, <2>1 DEF CreateUnit, e
    <2>6. inTeam' \subseteq Teams \X Staff /\ lead' \subseteq inTeam'
      <3>1. CASE e.unit \in Teams
        <4>1. inTeam' = JoinedBy(e.unit, e.lead)
              /\ lead' = IF e.lead = NoLeader THEN lead ELSE lead \cup {<<e.unit, e.lead>>}
          BY <1>2 DEF CreateUnit, e
        <4> QED BY <1>0, <1>j, <2>1, <3>1, <4>1
      <3>2. CASE e.unit \notin Teams
        <4>1. e.lead = NoLeader
          BY <1>0, <1>2, <2>1, <3>2 DEF UnitKnown, CreateUnit, e
        <4> QED BY <1>0, <1>2, <4>1 DEF CreateUnit, JoinedBy, e
      <3> QED BY <3>1, <3>2
    <2>7. organizing' \in [Handlers -> UnitsState]
      BY <1>2, <1>i DEF CreateUnit
    <2> QED BY <2>3, <2>4, <2>5, <2>6, <2>7 DEF UnitsTypeOK
  <1>3. CASE EditTeam(h)
    <2>1. /\ e.unit \in Teams /\ e.name \in Names
          /\ e.under \in Departments \cup {NoUnit} /\ e.lead \in Staff \cup {NoLeader}
      BY <1>0, <1>3, UnitsShape DEF EditTeam, e
    <2>2. PICK i \in Suffix : i = FirstFree(Coded(e.unit, e.name))
      BY <1>0, <2>1, FreshCode
    <2>3. unit' = [unit EXCEPT ![e.unit].name = e.name, ![e.unit].suffix = i]
      BY <1>3, <2>2 DEF EditTeam, e
    <2>4. [unit[e.unit] EXCEPT !.name = e.name, !.suffix = i] \in Unit
      <3>1. PICK r \in Unit : r = unit[e.unit]
        BY <1>0, <2>1
      <3>2. [r EXCEPT !.name = e.name, !.suffix = i] \in Unit
        BY <2>1 DEF Unit
      <3> QED BY <3>1, <3>2
    <2>5. unit' \in [Units -> Unit]
      BY <1>0, <2>1, <2>3, <2>4
    <2>6. under' \in [Teams \cup Staff -> Departments \cup {NoUnit}]
      BY <1>0, <1>3, <2>1 DEF EditTeam, e
    <2>7. loose' \subseteq Units
      BY <1>0, <1>3, <1>s, <2>1 DEF EditTeam, e
    <2>8. inTeam' = JoinedBy(e.unit, e.lead)
          /\ lead' = OldLeads(e.unit) \cup (IF e.lead = NoLeader THEN {} ELSE {<<e.unit, e.lead>>})
      BY <1>3 DEF EditTeam, e
    <2>9. inTeam' \subseteq Teams \X Staff /\ lead' \subseteq inTeam'
      BY <1>0, <1>j, <2>1, <2>8 DEF OldLeads
    <2>10. organizing' \in [Handlers -> UnitsState]
      BY <1>3, <1>i DEF EditTeam
    <2> QED BY <2>5, <2>6, <2>7, <2>9, <2>10 DEF UnitsTypeOK
  <1>4. CASE PlaceEmployee(h)
    <2>1. e.unit \in Units /\ e.who \in Staff
      BY <1>0, <1>4, UnitsShape DEF PlaceEmployee, e
    <2>2. under' \in [Teams \cup Staff -> Departments \cup {NoUnit}]
      BY <1>0, <1>4, <2>1 DEF PlaceEmployee, e
    <2>3. inTeam' \subseteq Teams \X Staff /\ lead' \subseteq inTeam' /\ loose' \subseteq Units
      BY <1>0, <1>4, <2>1 DEF PlaceEmployee, e
    <2>4. organizing' \in [Handlers -> UnitsState] /\ unit' = unit
      BY <1>4, <1>i DEF PlaceEmployee
    <2> QED BY <1>0, <2>2, <2>3, <2>4 DEF UnitsTypeOK
  <1>5. CASE DeleteUnit(h)
    <2>1. unit' = [unit EXCEPT ![e.unit].st = "deleted"]
      BY <1>5 DEF DeleteUnit, e
    <2>2. unit' \in [Units -> Unit]
      BY <1>0, <2>1 DEF Unit
    <2>3. organizing' \in [Handlers -> UnitsState]
      BY <1>5, <1>i DEF DeleteUnit
    <2> QED BY <1>0, <1>5, <2>2, <2>3 DEF DeleteUnit, UnitsTypeOK
  <1> QED BY <1>1, <1>2, <1>3, <1>4, <1>5, UnitsStepKinds

(* A step adds to a unit only if the unit stays, is new, or is marked.     *)
LEMMA UnitsGrow ==
  ASSUME UnitsTypeOK, NEW h \in Handlers, UnitsStep(h), NEW u \in Units \ loose'
  PROVE  Attached(u)' \subseteq Attached(u) \/ Stays(u) \/ unit[u].st = "none"
  <1> DEFINE e == organizing[h]
  <1>0. e \in UnitsState /\ Units = Departments \cup Teams
        /\ under \in [Teams \cup Staff -> Departments \cup {NoUnit}]
    BY DEF UnitsTypeOK, Units
  <1>a. ASSUME NEW t \in Teams, NEW d \in Departments \cup {NoUnit}, NEW l,
               under' = [under EXCEPT ![t] = d] \/ under' = under,
               inTeam' = JoinedBy(t, l), d # u, t # u
        PROVE  Attached(u)' \subseteq Attached(u)
    BY <1>0, <1>a DEF Attached, JoinedBy
  <1>1. CASE \E s \in UnitsState : Looked(h, s)
    BY <1>1 DEF Looked, Looks, Attached
  <1>2. CASE CreateUnit(h)
    <2>1. /\ e.unit \in Units /\ e.under \in Departments \cup {NoUnit}
      BY <1>0, <1>2, UnitsShape DEF CreateUnit
    <2>2. ~Stays(u) => e.under # u
      BY <1>2 DEF CreateUnit
    <2>3. e.unit = u => unit[u].st = "none"
      BY <1>2 DEF CreateUnit
    <2>4. CASE e.unit \in Teams
      <3>1. under' = [under EXCEPT ![e.unit] = e.under] /\ inTeam' = JoinedBy(e.unit, e.lead)
        BY <1>2, <2>4 DEF CreateUnit
      <3> QED BY <1>a, <2>1, <2>2, <2>3, <2>4, <3>1
    <2>5. CASE e.unit \notin Teams
      <3>1. under' = under /\ inTeam' = JoinedBy(e.unit, e.lead)
        BY <1>2, <2>5 DEF CreateUnit
      <3>2. Attached(u)' \subseteq Attached(u)
        BY <2>5, <3>1 DEF Attached, JoinedBy
      <3> QED BY <3>2
    <2> QED BY <2>4, <2>5
  <1>3. CASE EditTeam(h)
    <2>1. /\ e.unit \in Teams /\ e.under \in Departments \cup {NoUnit}
      BY <1>0, <1>3, UnitsShape DEF EditTeam
    <2>2. ~Stays(u) => e.under # u /\ e.unit # u
      BY <1>3 DEF EditTeam
    <2>3. under' = [under EXCEPT ![e.unit] = e.under] /\ inTeam' = JoinedBy(e.unit, e.lead)
      BY <1>3 DEF EditTeam
    <2> QED BY <1>a, <2>1, <2>2, <2>3
  <1>4. CASE PlaceEmployee(h)
    <2>1. e.unit \in Units /\ e.who \in Staff
      BY <1>0, <1>4, UnitsShape DEF PlaceEmployee
    <2>2. ~Stays(u) => e.unit # u
      BY <1>4 DEF PlaceEmployee
    <2>3. /\ under' = IF e.unit \in Teams THEN under ELSE [under EXCEPT ![e.who] = e.unit]
          /\ inTeam' = IF e.unit \in Teams THEN inTeam \cup {<<e.unit, e.who>>} ELSE inTeam
      BY <1>4 DEF PlaceEmployee
    <2>4. e.unit # u => Attached(u)' \subseteq Attached(u)
      BY <1>0, <2>1, <2>3 DEF Attached
    <2> QED BY <2>2, <2>4
  <1>5. CASE DeleteUnit(h)
    BY <1>5 DEF DeleteUnit, Attached
  <1> QED BY <1>1, <1>2, <1>3, <1>4, <1>5, UnitsStepKinds

(* A unit is created once, and deleted by who was about to.                *)
LEMMA UnitsAge ==
  ASSUME UnitsTypeOK, NEW h \in Handlers, UnitsStep(h), NEW u \in Units
  PROVE  /\ loose \subseteq loose'
         /\ unit'[u].st # unit[u].st =>
              \/ unit[u].st = "none" /\ unit'[u].st = "live"
              \/ /\ unit'[u].st = "deleted" /\ unit'[u].name = unit[u].name
                 /\ organizing[h].op = "delete" /\ organizing[h].unit = u
  <1>0. unit \in [Units -> Unit]
    BY DEF UnitsTypeOK
  <1>1. CASE \E s \in UnitsState : Looked(h, s)
    BY <1>1 DEF Looked, Looks
  <1>2. CASE CreateUnit(h)
    BY <1>0, <1>2 DEF CreateUnit, Unit
  <1>3. CASE EditTeam(h)
    <2>1. PICK n, i, t : /\ unit' = [unit EXCEPT ![t].name = n, ![t].suffix = i]
                         /\ t = organizing[h].unit
      BY <1>3 DEF EditTeam
    <2>2. unit'[u].st = unit[u].st
      BY <1>0, <2>1 DEF Unit
    <2>3. loose \subseteq loose'
      BY <1>3 DEF EditTeam
    <2> QED BY <2>2, <2>3
  <1>4. CASE PlaceEmployee(h)
    BY <1>4 DEF PlaceEmployee
  <1>5. CASE DeleteUnit(h)
    BY <1>0, <1>5 DEF DeleteUnit, Unit
  <1> QED BY <1>1, <1>2, <1>3, <1>4, <1>5, UnitsStepKinds

LEMMA StaysAlone ==
  ASSUME NEW u \in Units, Stays(u), NEW h \in Handlers
  PROVE  InUse(u) /\ (organizing[h].op = "delete" => organizing[h].unit # u)
  BY UnitsAssumption DEF Stays, Units

LEMMA DeletedStaysEmpty ==
  ASSUME UnitsInv, NEW h \in Handlers, UnitsStep(h)
  PROVE  DeletedIsEmpty'
  <1>0. UnitsTypeOK /\ DeletedIsEmpty /\ UnitKnown(h)
    BY DEF UnitsInv
  <1> SUFFICES ASSUME NEW u \in Units \ loose', unit'[u].st = "deleted"
               PROVE  Attached(u)' = {}
    BY DEF DeletedIsEmpty
  <1>1. u \notin loose
    BY <1>0, UnitsAge
  <1>2. unit[u].st # "none" /\ ~Stays(u) /\ Attached(u) = {}
    <2>1. CASE unit[u].st = "deleted"
      BY <1>0, <1>1, <2>1, StaysAlone DEF DeletedIsEmpty, InUse
    <2>2. CASE organizing[h].op = "delete" /\ organizing[h].unit = u
      BY <1>0, <1>1, <2>2, StaysAlone DEF UnitKnown
    <2> QED BY <1>0, <2>1, <2>2, UnitsAge
  <1> QED BY <1>0, <1>2, UnitsGrow

LEMMA UnitsKnow ==
  ASSUME UnitsInv, NEW h \in Handlers, UnitsStep(h), NEW g \in Handlers
  PROVE  UnitKnown(g)'
  <1>0. /\ UnitsTypeOK /\ UnitKnown(g) /\ UnitKnown(h)
        /\ organizing[g] \in UnitsState /\ organizing[h] \in UnitsState
    BY DEF UnitsInv, UnitsTypeOK
  <1>1. CASE organizing'[g] = organizing[g]
    <2>1. PICK e \in UnitsState : e = organizing[g]
      BY <1>0
    <2>2. e.op = "delete" => e.unit \in Units /\ unit[e.unit].st # "none" /\ ~Stays(e.unit)
      BY <1>0, <2>1, UnitsShape, StaysAlone DEF UnitKnown
    <2>3. ASSUME e.op = "delete" PROVE unit'[e.unit].st # "none"
      BY <1>0, <2>2, <2>3, UnitsAge
    <2>4. ASSUME e.op = "delete", e.unit \notin loose' PROVE Attached(e.unit)' = {}
      <3>1. e.unit \notin loose
        BY <1>0, <2>2, <2>4, UnitsAge
      <3>2. Attached(e.unit) = {}
        BY <1>0, <2>1, <2>4, <3>1 DEF UnitKnown
      <3> QED BY <1>0, <2>2, <2>4, <3>2, UnitsGrow
    <2>5. e.op \in {"named", "coded"} /\ e.unit \in Departments => e.lead = NoLeader
      BY <1>0, <2>1 DEF UnitKnown
    <2> QED BY <1>1, <2>1, <2>3, <2>4, <2>5 DEF UnitKnown
  <1>2. CASE organizing'[g] = Idle
    BY <1>2, UnitsStates DEF UnitKnown
  <1>3. ASSUME NEW s \in UnitsState, Looked(h, s), g = h
        PROVE  UnitKnown(g)'
    <2>1. organizing'[g] = s
      BY <1>0, <1>3, UnitGoesGives DEF UnitMoved, Looked
    <2>2. s.op = "delete" => Attached(s.unit)' = {} /\ unit'[s.unit].st # "none"
      BY <1>3 DEF Looked, Looks, Attached, InUse
    <2>3. s.op \in {"named", "coded"} /\ s.unit \in Departments => s.lead = NoLeader
      BY <1>0, <1>3 DEF UnitKnown, Looked
    <2> QED BY <2>1, <2>2, <2>3 DEF UnitKnown
  <1>4. CASE g # h
    <2>1. UnitGoes(h, Idle) \/ \E s \in UnitsState : UnitGoes(h, s)
      BY <1>0, UnitsStepKinds DEF Looked, CreateUnit, EditTeam, PlaceEmployee, DeleteUnit
    <2>2. organizing'[g] = organizing[g]
      BY <1>0, <1>4, <2>1, UnitGoesGives, UnitsStates DEF UnitMoved
    <2> QED BY <1>1, <2>2
  <1>5. CASE g = h /\ UnitGoes(h, Idle)
    BY <1>0, <1>2, <1>5, UnitGoesGives, UnitsStates DEF UnitMoved
  <1> QED
    <2>1. CreateUnit(h) \/ EditTeam(h) \/ PlaceEmployee(h) \/ DeleteUnit(h) => UnitGoes(h, Idle)
      BY DEF CreateUnit, EditTeam, PlaceEmployee, DeleteUnit
    <2>2. CASE g # h
      BY <1>4, <2>2
    <2>3. CASE g = h /\ UnitGoes(h, Idle)
      BY <1>5, <2>3
    <2>4. CASE g = h /\ ~UnitGoes(h, Idle)
      <3>1. PICK s \in UnitsState : Looked(h, s)
        BY <1>0, <2>1, <2>4, UnitsStepKinds
      <3> QED BY <1>3, <2>4, <3>1
    <2> QED BY <2>2, <2>3, <2>4

(* A unit that takes a name takes a code that no other unit of its kind    *)
(* has with it, and is marked when a live one has the name.                *)
LEMMA NamingDiffers ==
  ASSUME UnitsTypeOK, NamesDiffer, NEW t \in Units, NEW n, NEW i,
         i \notin Coded(t, n), unit'[t].name = n, unit'[t].suffix = i,
         \A u \in Units \ {t} : unit'[u] = unit[u],
         \A u \in Kind(t) \ {t} : InUse(u) /\ unit[u].name = n /\ InUse(t)'
                                    => {t, u} \cap loose' # {},
         loose \subseteq loose'
  PROVE  NamesDiffer'
  <1>1. ASSUME NEW u \in Units \ {t}, Kind(u) = Kind(t), unit'[u].st # "none", unit'[u].name = n
        PROVE  /\ unit'[u].suffix # i
               /\ InUse(u)' /\ InUse(t)' => {t, u} \cap loose' # {}
    <2>1. u \in Kind(t) \ {t}
      BY <1>1 DEF Kind, Units
    <2> QED BY <1>1, <2>1 DEF Coded, InUse
  <1>2. ASSUME NEW u \in Units \ {t}, NEW v \in Units \ {t}, u # v, Kind(u) = Kind(v),
               unit'[u].st # "none", unit'[v].st # "none", unit'[u].name = unit'[v].name
        PROVE  /\ unit'[u].suffix # unit'[v].suffix
               /\ InUse(u)' /\ InUse(v)' => {u, v} \cap loose' # {}
    BY <1>2 DEF NamesDiffer, InUse
  <1> QED BY <1>1, <1>2 DEF NamesDiffer

LEMMA NamesStayDifferent ==
  ASSUME UnitsTypeOK, NamesDiffer, NEW h \in Handlers, UnitKnown(h), UnitsStep(h)
  PROVE  NamesDiffer'
  <1>0. organizing[h] \in UnitsState /\ unit \in [Units -> Unit] /\ Teams \subseteq Units
    BY DEF UnitsTypeOK, Units
  <1>1. loose \subseteq loose'
    BY UnitsStepKinds DEF Looked, Looks, CreateUnit, EditTeam, PlaceEmployee, DeleteUnit
  <1>2. CASE UNCHANGED unit
    BY <1>1, <1>2 DEF NamesDiffer, InUse
  <1>3. CASE CreateUnit(h)
    <2>1. PICK e \in UnitsState : e = organizing[h]
      BY <1>0
    <2>2. e.unit \in Units
      BY <1>3, <2>1, UnitsShape DEF CreateUnit
    <2>3. /\ e.suffix \notin Coded(e.unit, e.name)
          /\ unit' = [unit EXCEPT ![e.unit] = [st |-> "live", name |-> e.name, suffix |-> e.suffix]]
          /\ Taken(e.unit, e.name) => e.unit \in loose'
      BY <1>3, <2>1 DEF CreateUnit
    <2>4. unit'[e.unit].name = e.name /\ unit'[e.unit].suffix = e.suffix
          /\ \A u \in Units \ {e.unit} : unit'[u] = unit[u]
      BY <1>0, <2>2, <2>3
    <2>5. \A u \in Kind(e.unit) \ {e.unit} : InUse(u) /\ unit[u].name = e.name
                                               => {e.unit, u} \cap loose' # {}
      BY <2>3 DEF Taken
    <2> QED BY <1>1, <2>2, <2>3, <2>4, <2>5, NamingDiffers
  <1>4. CASE EditTeam(h)
    <2>1. PICK e \in UnitsState : e = organizing[h]
      BY <1>0
    <2>2. e.unit \in Teams
      BY <1>4, <2>1, UnitsShape DEF EditTeam
    <2>3. PICK i : i = FirstFree(Coded(e.unit, e.name)) /\ i \notin Coded(e.unit, e.name)
      BY <1>0, <2>2, FreshCode
    <2>4. /\ unit' = [unit EXCEPT ![e.unit].name = e.name, ![e.unit].suffix = i]
          /\ e.name # unit[e.unit].name => e.unit \in loose'
      BY <1>4, <2>1, <2>3 DEF EditTeam
    <2>5. unit'[e.unit] = [unit[e.unit] EXCEPT !.name = e.name, !.suffix = i]
      BY <1>0, <2>2, <2>4
    <2>6. /\ unit'[e.unit].name = e.name /\ unit'[e.unit].suffix = i
          /\ unit'[e.unit].st = unit[e.unit].st
          /\ \A u \in Units \ {e.unit} : unit'[u] = unit[u]
      BY <1>0, <2>2, <2>4, <2>5 DEF Unit
    <2>7. ASSUME NEW u \in Kind(e.unit) \ {e.unit}, InUse(u), unit[u].name = e.name, InUse(e.unit)'
          PROVE  {e.unit, u} \cap loose' # {}
      <3>1. CASE e.name # unit[e.unit].name
        BY <2>4, <3>1
      <3>2. CASE e.name = unit[e.unit].name
        <4>1. u \in Units /\ Kind(u) = Kind(e.unit) /\ InUse(e.unit)
          BY <2>2, <2>6, <2>7, UnitsAssumption DEF Kind, Units, InUse
        <4>2. {u, e.unit} \cap loose # {}
          BY <1>0, <2>2, <2>7, <3>2, <4>1 DEF NamesDiffer, InUse
        <4> QED BY <1>1, <4>2
      <3> QED BY <3>1, <3>2
    <2> QED BY <1>0, <1>1, <2>2, <2>3, <2>6, <2>7, NamingDiffers
  <1>5. CASE DeleteUnit(h)
    <2>1. PICK u \in Units : u = organizing[h].unit /\ unit[u].st # "none"
      BY <1>0, <1>5, UnitsShape DEF DeleteUnit, UnitKnown
    <2>2. unit' = [unit EXCEPT ![u].st = "deleted"]
      BY <1>5, <2>1 DEF DeleteUnit
    <2>3. \A v \in Units : /\ unit'[v].name = unit[v].name /\ unit'[v].suffix = unit[v].suffix
                           /\ unit'[v].st # "none" => unit[v].st # "none"
                           /\ InUse(v)' => InUse(v)
      BY <1>0, <2>1, <2>2 DEF Unit, InUse
    <2> QED BY <1>1, <2>3 DEF NamesDiffer
  <1> QED BY <1>2, <1>3, <1>4, <1>5, UnitsStepKinds DEF Looked, Looks, PlaceEmployee

(* An employee who leaves is attached to fewer units.                      *)
LEMMA LeavingKeeps ==
  ASSUME UnitsInv, NEW x \in Staff, Leave(x)
  PROVE  UnitsInv'
  <1>1. /\ UNCHANGED <<unit, inTeam, organizing, loose>> /\ lead' \subseteq lead
        /\ under' = [under EXCEPT ![x] = NoUnit] \/ under' = under
    BY DEF Leave
  <1>2. under \in [Teams \cup Staff -> Departments \cup {NoUnit}]
    BY DEF UnitsInv, UnitsTypeOK
  <1>3. under' \in [Teams \cup Staff -> Departments \cup {NoUnit}]
    BY <1>1, <1>2
  <1>4. UnitsTypeOK'
    BY <1>1, <1>3 DEF UnitsInv, UnitsTypeOK
  <1>5. \A u \in Units : Attached(u)' \subseteq Attached(u)
    BY <1>1, <1>2, UnitsAssumption DEF Attached, Units
  <1>6. NamesDiffer'
    BY <1>1 DEF UnitsInv, NamesDiffer, InUse
  <1>7. DeletedIsEmpty'
    BY <1>1, <1>5 DEF UnitsInv, DeletedIsEmpty
  <1>8. ASSUME NEW h \in Handlers PROVE UnitKnown(h)'
    <2>1. PICK e \in UnitsState : e = organizing[h]
      BY DEF UnitsInv, UnitsTypeOK
    <2>2. e.op = "delete" => e.unit \in Units
      BY UnitsShape
    <2>3. e.op = "delete" /\ e.unit \notin loose => Attached(e.unit)' = {}
      BY <1>5, <2>1, <2>2 DEF UnitsInv, UnitKnown
    <2> QED BY <1>1, <2>1, <2>3 DEF UnitsInv, UnitKnown
  <1> QED BY <1>4, <1>6, <1>7, <1>8 DEF UnitsInv

LEMMA UnitsKept == UnitsInv /\ [UnitsNext]_unitVars => UnitsInv'
  <1> SUFFICES ASSUME UnitsInv, [UnitsNext]_unitVars PROVE UnitsInv'
    OBVIOUS
  <1>1. CASE UNCHANGED unitVars
    <2> USE <1>1 DEF unitVars
    <2>1. UnitsTypeOK' /\ NamesDiffer'
      BY DEF UnitsInv, UnitsTypeOK, NamesDiffer, InUse
    <2>2. DeletedIsEmpty'
      BY DEF UnitsInv, DeletedIsEmpty, Attached
    <2>3. \A h \in Handlers : UnitKnown(h)'
      BY DEF UnitsInv, UnitKnown, Attached
    <2> QED BY <2>1, <2>2, <2>3 DEF UnitsInv
  <1>2. ASSUME NEW h \in Handlers, UnitsStep(h) PROVE UnitsInv'
    <2>1. UnitsTypeOK /\ NamesDiffer /\ UnitKnown(h)
      BY DEF UnitsInv
    <2>2. UnitsTypeOK' /\ NamesDiffer'
      BY <1>2, <2>1, UnitsTyped, NamesStayDifferent
    <2>3. DeletedIsEmpty' /\ \A g \in Handlers : UnitKnown(g)'
      BY <1>2, DeletedStaysEmpty, UnitsKnow
    <2> QED BY <2>2, <2>3 DEF UnitsInv
  <1> QED BY <1>1, <1>2, LeavingKeeps DEF UnitsNext

(* For any number of overlapping requests: the codes of the units of a     *)
(* kind differ, two live ones share a name only when requests overlapped   *)
(* or a team was renamed, and nobody is left in a department or a team     *)
(* that was deleted, unless it was joined while it was being deleted.      *)
THEOREM UnitsInvariant == UnitsSpec => []UnitsInv
  BY UnitsStart, UnitsKept, PTL DEF UnitsSpec

-----------------------------------------------------------------------------
USE CredentialsAssumption, AuditAssumption
USE DEF CredentialsAssumption, AuditAssumption

(* Credentials.  What an idle handler, and one that is at work, holds.     *)
LEMMA AuthShape ==
  ASSUME NEW s \in AuthState
  PROVE  /\ s.op \in {"login", "change"} => s.knew \in Versions
         /\ s.op = "reset" => s.link \in Links
  BY DEF AuthState, Idle

LEMMA IdleState == Idle \in AuthState /\ Idle.op # "forgot"
  BY DEF AuthState, Idle

LEMMA CredentialsStart == CredentialsInit => CredentialsInv
  <1> SUFFICES ASSUME CredentialsInit PROVE CredentialsInv
    OBVIOUS
  <1>1. CredentialsTypeOK
    <2>1. password \in Versions /\ tickets \subseteq Versions
      BY DEF CredentialsInit, Versions
    <2>2. sessions \subseteq [knew : Versions, current : BOOLEAN] /\ asked \in BOOLEAN
      BY DEF CredentialsInit
    <2>3. /\ link \in [Links -> {"none", "open", "used"}] /\ spent \in [Links -> Nat]
          /\ auth \in [Handlers -> AuthState]
      BY IdleState DEF CredentialsInit
    <2> QED BY <2>1, <2>2, <2>3 DEF CredentialsTypeOK
  <1>2. LinkSpentOnce /\ SessionsKnowPassword /\ OneOpenLink
    BY DEF CredentialsInit, LinkSpentOnce, SessionsKnowPassword, OneOpenLink
  <1>3. \A h \in Handlers : auth[h] = Idle
    BY DEF CredentialsInit
  <1> QED BY <1>1, <1>2, <1>3, IdleState DEF CredentialsInit, CredentialsInv

(* A request that reads, or gives up, changes none of the rows, and none   *)
(* of them starts to create a link.                                        *)
LEMMA AuthReads ==
  ASSUME CredentialsInv, NEW h \in Handlers, NEW s \in AuthState, s.op # "forgot",
         AuthGoes(h, s), UNCHANGED <<password, sessions, tickets, link, spent, asked>>
  PROVE  CredentialsInv'
  <1>1. CredentialsTypeOK'
    BY DEF CredentialsInv, CredentialsTypeOK, AuthGoes
  <1>2. LinkSpentOnce' /\ SessionsKnowPassword' /\ OneOpenLink'
    BY DEF CredentialsInv, LinkSpentOnce, SessionsKnowPassword, OneOpenLink
  <1>3. \A g \in Handlers : auth'[g].op = "forgot" => g # h /\ auth'[g] = auth[g]
    BY DEF CredentialsInv, CredentialsTypeOK, AuthGoes
  <1> QED BY <1>1, <1>2, <1>3 DEF CredentialsInv

(* A session that is opened knows the password, or one already replaced.   *)
LEMMA OpensKnow ==
  ASSUME CredentialsInv, NEW v \in Versions, sessions' = sessions \cup {Opens(v)},
         password' = password
  PROVE  /\ sessions' \subseteq [knew : Versions, current : BOOLEAN]
         /\ SessionsKnowPassword'
  <1>1. Opens(v) \in [knew : Versions, current : BOOLEAN]
        /\ (Opens(v).current => Opens(v).knew = password)
    BY DEF Opens
  <1> QED BY <1>1 DEF CredentialsInv, CredentialsTypeOK, SessionsKnowPassword

LEMMA LogInKeeps ==
  ASSUME CredentialsInv, NEW h \in Handlers, NEW direct \in BOOLEAN, FinishLogIn(h, direct)
  PROVE  CredentialsInv'
  <1> DEFINE v == auth[h].knew
  <1>1. v \in Versions /\ auth[h].op = "login"
    BY AuthShape DEF FinishLogIn, CredentialsInv, CredentialsTypeOK
  <1>2. sessions' \subseteq [knew : Versions, current : BOOLEAN] /\ SessionsKnowPassword'
    <2>1. CASE direct
      BY <1>1, <2>1, OpensKnow DEF FinishLogIn
    <2>2. CASE ~direct
      BY <2>2 DEF FinishLogIn, CredentialsInv, CredentialsTypeOK, SessionsKnowPassword
    <2> QED BY <2>1, <2>2
  <1>3. auth' = [auth EXCEPT ![h] = Idle]
    BY DEF FinishLogIn, AuthGoes
  <1>4. CredentialsTypeOK'
    BY <1>1, <1>2, <1>3, IdleState DEF FinishLogIn, CredentialsInv, CredentialsTypeOK
  <1>5. LinkSpentOnce' /\ OneOpenLink'
    BY DEF FinishLogIn, CredentialsInv, LinkSpentOnce, OneOpenLink
  <1>6. \A g \in Handlers : auth'[g].op = "forgot" => g # h /\ auth'[g] = auth[g]
    BY <1>3, IdleState DEF CredentialsInv, CredentialsTypeOK
  <1> QED BY <1>2, <1>4, <1>5, <1>6 DEF FinishLogIn, CredentialsInv

LEMMA TicketKeeps ==
  ASSUME CredentialsInv, NEW v \in tickets, OpenWithTicket(v)
  PROVE  CredentialsInv'
  <1>1. v \in Versions
    BY DEF CredentialsInv, CredentialsTypeOK
  <1>2. sessions' \subseteq [knew : Versions, current : BOOLEAN] /\ SessionsKnowPassword'
    BY <1>1, OpensKnow DEF OpenWithTicket
  <1> QED
    BY <1>2 DEF OpenWithTicket, CredentialsInv, CredentialsTypeOK, LinkSpentOnce, OneOpenLink

(* A new password ends every session.                                      *)
LEMMA ChangeKeeps ==
  ASSUME CredentialsInv, NEW h \in Handlers, FinishChange(h)
  PROVE  CredentialsInv'
  <1>1. auth' = [auth EXCEPT ![h] = Idle] /\ auth[h].op = "change"
    BY DEF FinishChange, AuthGoes
  <1>2. password' \in Versions /\ sessions' = {}
    BY DEF FinishChange, SetPassword, CredentialsInv, CredentialsTypeOK, Versions
  <1>3. CredentialsTypeOK'
    BY <1>1, <1>2, IdleState DEF FinishChange, CredentialsInv, CredentialsTypeOK
  <1>4. LinkSpentOnce' /\ OneOpenLink' /\ SessionsKnowPassword'
    BY <1>2 DEF FinishChange, CredentialsInv, LinkSpentOnce, OneOpenLink, SessionsKnowPassword
  <1>5. \A g \in Handlers : auth'[g].op = "forgot" => g # h /\ auth'[g] = auth[g]
    BY <1>1, IdleState DEF CredentialsInv, CredentialsTypeOK
  <1> QED BY <1>3, <1>4, <1>5 DEF FinishChange, CredentialsInv

(* A request for a link leaves none open, and is the only one at work      *)
(* unless requests overlapped.                                             *)
LEMMA ForgotKeeps ==
  ASSUME CredentialsInv, NEW h \in Handlers, Forgot(h)
  PROVE  CredentialsInv'
  <1> DEFINE s == [op |-> "forgot"]
  <1>1. auth' = [auth EXCEPT ![h] = s] /\ auth[h] = Idle
    BY DEF Forgot, AuthGoes
  <1>2. \A k \in Links : link'[k] = IF link[k] = "open" THEN "used" ELSE link[k]
    BY DEF Forgot, Sweep
  <1>3. CredentialsTypeOK'
    BY <1>1 DEF Forgot, Sweep, CredentialsInv, CredentialsTypeOK, AuthState
  <1>4. LinkSpentOnce' /\ OneOpenLink' /\ SessionsKnowPassword'
    BY <1>2 DEF Forgot, CredentialsInv, LinkSpentOnce, OneOpenLink, SessionsKnowPassword
  <1>5. \A k \in Links : link'[k] # "used" => spent'[k] = 0
    BY <1>2 DEF Forgot, CredentialsInv
  <1>6. ~asked' => \A g \in Handlers : auth'[g].op = "forgot" => g = h
    BY <1>1 DEF Forgot, CredentialsInv, CredentialsTypeOK
  <1> QED BY <1>2, <1>3, <1>4, <1>5, <1>6 DEF CredentialsInv

LEMMA CreateKeeps ==
  ASSUME CredentialsInv, NEW h \in Handlers, NEW k \in Links, CreateLink(h, k)
  PROVE  CredentialsInv'
  <1>1. auth' = [auth EXCEPT ![h] = Idle] /\ auth[h].op = "forgot"
    BY DEF CreateLink, AuthGoes
  <1>2. link' = [link EXCEPT ![k] = "open"] /\ link[k] = "none"
    BY DEF CreateLink
  <1>3. CredentialsTypeOK'
    BY <1>1, <1>2, IdleState DEF CreateLink, CredentialsInv, CredentialsTypeOK
  <1>4. LinkSpentOnce' /\ SessionsKnowPassword'
    BY DEF CreateLink, CredentialsInv, LinkSpentOnce, SessionsKnowPassword
  <1>5. \A j \in Links : link'[j] # "used" => spent'[j] = 0
    BY <1>2 DEF CreateLink, CredentialsInv, CredentialsTypeOK
  <1>6. ~asked => \A j \in Links : link[j] # "open"
    BY <1>1 DEF CredentialsInv
  <1>7. OneOpenLink'
    BY <1>2, <1>6 DEF CreateLink, OneOpenLink, CredentialsInv, CredentialsTypeOK
  <1>8. ~asked => \A g \in Handlers : auth'[g].op # "forgot"
    <2> SUFFICES ASSUME ~asked, NEW g \in Handlers, auth'[g].op = "forgot" PROVE FALSE
      OBVIOUS
    <2>1. g # h /\ auth'[g] = auth[g]
      BY <1>1, IdleState DEF CredentialsInv, CredentialsTypeOK
    <2> QED BY <1>1, <2>1 DEF CredentialsInv
  <1> QED BY <1>3, <1>4, <1>5, <1>7, <1>8 DEF CreateLink, CredentialsInv

(* A link that is used was unused, and has set no password before.         *)
LEMMA ConsumeKeeps ==
  ASSUME CredentialsInv, NEW h \in Handlers, Consume(h)
  PROVE  CredentialsInv'
  <1> DEFINE k == auth[h].link
  <1>1. k \in Links /\ link[k] = "open" /\ auth[h].op = "reset" /\ auth' = [auth EXCEPT ![h] = Idle]
    BY AuthShape DEF Consume, Unused, AuthGoes, CredentialsInv, CredentialsTypeOK
  <1>2. link' = [link EXCEPT ![k] = "used"] /\ spent' = [spent EXCEPT ![k] = @ + 1]
    BY DEF Consume
  <1>3. spent[k] = 0
    BY <1>1 DEF CredentialsInv
  <1>4. password' \in Versions /\ sessions' = {}
    BY DEF Consume, SetPassword, CredentialsInv, CredentialsTypeOK, Versions
  <1>5. CredentialsTypeOK'
    BY <1>1, <1>2, <1>4, IdleState DEF Consume, CredentialsInv, CredentialsTypeOK
  <1>6. LinkSpentOnce'
    BY <1>1, <1>2, <1>3 DEF LinkSpentOnce, CredentialsInv, CredentialsTypeOK
  <1>7. \A j \in Links : link'[j] # "used" => spent'[j] = 0 /\ j # k
    BY <1>1, <1>2 DEF CredentialsInv, CredentialsTypeOK
  <1>8. \A j \in Links : link'[j] = "open" => link[j] = "open"
    BY <1>1, <1>2 DEF CredentialsInv, CredentialsTypeOK
  <1>9. \A g \in Handlers : auth'[g].op = "forgot" => g # h /\ auth'[g] = auth[g]
    BY <1>1, IdleState DEF CredentialsInv, CredentialsTypeOK
  <1> QED
    BY <1>4, <1>5, <1>6, <1>7, <1>8, <1>9
    DEF Consume, CredentialsInv, OneOpenLink, SessionsKnowPassword

LEMMA ExpiryKeeps ==
  ASSUME CredentialsInv, NEW k \in Links, LinkExpires(k)
  PROVE  CredentialsInv'
  <1>1. link' = [link EXCEPT ![k] = "used"] /\ link \in [Links -> {"none", "open", "used"}]
    BY DEF LinkExpires, CredentialsInv, CredentialsTypeOK
  <1>2. \A j \in Links : link'[j] # "used" => link'[j] = link[j]
    BY <1>1
  <1> QED
    BY <1>1, <1>2 DEF LinkExpires, CredentialsInv, CredentialsTypeOK, LinkSpentOnce, OneOpenLink,
           SessionsKnowPassword

LEMMA CredentialsKept == CredentialsInv /\ [CredentialsNext]_credentialVars => CredentialsInv'
  <1> SUFFICES ASSUME CredentialsInv, [CredentialsNext]_credentialVars PROVE CredentialsInv'
    OBVIOUS
  <1>1. ASSUME NEW h \in Handlers, NEW op \in {"login", "change"}, Verify(h, op)
        PROVE  CredentialsInv'
    <2>1. [op |-> op, knew |-> password] \in AuthState
      BY DEF AuthState, CredentialsInv, CredentialsTypeOK
    <2> QED BY <1>1, <2>1, AuthReads DEF Verify
  <1>2. ASSUME NEW h \in Handlers, NEW k \in Links, FindLink(h, k) PROVE CredentialsInv'
    <2>1. [op |-> "reset", link |-> k] \in AuthState
      BY DEF AuthState
    <2> QED BY <1>2, <2>1, AuthReads DEF FindLink
  <1>3. ASSUME NEW h \in Handlers, ConsumeFails(h) PROVE CredentialsInv'
    BY <1>3, IdleState, AuthReads DEF ConsumeFails
  <1>4. ASSUME NEW v \in tickets, TicketExpires(v) PROVE CredentialsInv'
    BY <1>4 DEF TicketExpires, CredentialsInv, CredentialsTypeOK, LinkSpentOnce, OneOpenLink,
                SessionsKnowPassword
  <1>5. CASE UNCHANGED credentialVars
    BY <1>5 DEF credentialVars, CredentialsInv, CredentialsTypeOK, LinkSpentOnce, OneOpenLink,
                SessionsKnowPassword
  <1> QED
    BY <1>1, <1>2, <1>3, <1>4, <1>5, LogInKeeps, TicketKeeps, ChangeKeeps, ForgotKeeps,
       CreateKeeps, ConsumeKeeps, ExpiryKeeps DEF CredentialsNext

(* For any number of overlapping requests: a reset link sets one password, *)
(* a new password leaves no session of an older one that was opened while  *)
(* that was in force, and one link at most is open.                        *)
THEOREM CredentialsInvariant == CredentialsSpec => []CredentialsInv
  BY CredentialsStart, CredentialsKept, PTL DEF CredentialsSpec

-----------------------------------------------------------------------------
(* AuditTrail.  What an append knows at each step.                         *)
AppendKnows(s) ==
    /\ s.op = "read" => Follows(s.previous, s.seen, s.trail)
    /\ s.op = "insert" =>
          /\ s.row.previous < s.row.id /\ s.row.id <= lastId
          /\ Follows(s.row.previous, s.row.seen, s.row.trail)
          /\ \A e \in event : e.id # s.row.id
IdsDiffer ==
    \A g, h \in Handlers : g # h /\ appending[g].op = "insert" /\ appending[h].op = "insert"
        => appending[g].row.id # appending[h].row.id
EventsOK ==
    /\ event \subseteq Event /\ lastId \in 0..MaxEvents
    /\ ChainLeadsBack
    /\ \A e \in event : e.id <= lastId
    /\ \A e, f \in event : e.id = f.id => e = f
AppendsOK ==
    /\ appending \in [Handlers -> AppendState]
    /\ \A h \in Handlers : AppendKnows(appending[h])
    /\ IdsDiffer

(* An event that was seen is not newer than the link, so that two events   *)
(* with one link did not see each other.                                   *)
LEMMA NoForkSeen == EventsOK => ForksOverlap
  <1> SUFFICES ASSUME EventsOK, NEW e \in event, NEW f \in event,
                      e.previous = f.previous, e.id \in f.seen
               PROVE  FALSE
    BY DEF ForksOverlap
  <1>1. e \in Event /\ f \in Event
    BY DEF EventsOK
  <1>2. e.id \in Nat /\ e.previous \in Nat /\ f.previous \in Nat
    BY <1>1 DEF Event, Ids
  <1>3. e.previous < e.id /\ e.id <= f.previous
    BY DEF EventsOK, ChainLeadsBack
  <1> QED BY <1>2, <1>3

LEMMA AuditParts == AuditInv <=> EventsOK /\ AppendsOK
  <1>1. ASSUME AuditInv PROVE EventsOK /\ AppendsOK
    BY <1>1 DEF AuditInv, AuditTypeOK, EventsOK, AppendsOK, IdsDiffer, AppendKnows, Follows
  <1>2. ASSUME EventsOK, AppendsOK PROVE AuditInv
    BY <1>2, NoForkSeen DEF AuditInv, AuditTypeOK, EventsOK, AppendsOK, IdsDiffer, AppendKnows, Follows
  <1> QED BY <1>1, <1>2

LEMMA AuditPartsAfter == EventsOK' /\ AppendsOK' => AuditInv'
  BY AuditParts, PTL

LEMMA AppendShape ==
  ASSUME NEW s \in AppendState
  PROVE  /\ s.op = "read" => /\ s.trail \in Trails /\ s.previous \in 0..MaxEvents
                             /\ s.seen \in SUBSET Ids
         /\ s.op = "insert" => s.row \in Event
  BY DEF AppendState, Idle

LEMMA RowShape ==
  ASSUME NEW e \in Event
  PROVE  /\ e.id \in Nat /\ e.trail \in Trails /\ e.previous \in Nat
         /\ e.seen \subseteq Nat
  BY DEF Event, Ids

LEMMA AuditStart == AuditInit => AuditInv
  <1> SUFFICES ASSUME AuditInit PROVE EventsOK /\ AppendsOK
    BY AuditParts
  <1>1. EventsOK
    BY DEF AuditInit, EventsOK, ChainLeadsBack
  <1>2. appending \in [Handlers -> AppendState] /\ \A h \in Handlers : appending[h].op = "idle"
    BY DEF AuditInit, AppendState, Idle
  <1> QED BY <1>1, <1>2 DEF AppendsOK, AppendKnows, IdsDiffer

(* A request that reads, or gives up, leaves the events alone and claims   *)
(* no id.                                                                  *)
LEMMA AppendReads ==
  ASSUME EventsOK, AppendsOK, NEW h \in Handlers, NEW s \in AppendState, s.op # "insert",
         AppendKnows(s), appending' = [appending EXCEPT ![h] = s], UNCHANGED <<event, lastId>>
  PROVE  EventsOK' /\ AppendsOK'
  <1>1. EventsOK'
    BY DEF EventsOK, ChainLeadsBack, Visible
  <1>2. appending' \in [Handlers -> AppendState]
    BY DEF AppendsOK
  <1>3. \A g \in Handlers : appending'[g] = IF g = h THEN s ELSE appending[g]
    BY DEF AppendsOK
  <1>4. \A g \in Handlers : AppendKnows(appending[g])'
    BY <1>3 DEF AppendsOK, AppendKnows, Follows, Visible
  <1>5. IdsDiffer'
    BY <1>3 DEF AppendsOK, IdsDiffer
  <1> QED BY <1>1, <1>2, <1>4, <1>5 DEF AppendsOK

LEMMA ReadNewestKeeps ==
  ASSUME EventsOK, AppendsOK, NEW h \in Handlers, NEW t \in Trails, NEW p \in 0..MaxEvents,
         ReadNewest(h, t, p)
  PROVE  EventsOK' /\ AppendsOK'
  <1> DEFINE s == [op |-> "read", trail |-> t, previous |-> p, seen |-> Visible(t)]
  <1>1. Visible(t) \subseteq Ids
    BY DEF EventsOK, Visible, Event
  <1>2. s \in AppendState
    BY <1>1 DEF AppendState
  <1>3. Follows(p, Visible(t), t)
    BY DEF ReadNewest, Newest, Follows
  <1>4. AppendKnows(s)
    BY <1>3 DEF AppendKnows
  <1> QED BY <1>2, <1>4, AppendReads DEF ReadNewest

LEMMA FailureKeeps ==
  ASSUME EventsOK, AppendsOK, NEW h \in Handlers, AppendFails(h)
  PROVE  EventsOK' /\ AppendsOK'
  <1>1. Idle \in AppendState /\ Idle.op = "idle"
    BY DEF AppendState, Idle
  <1>2. AppendKnows(Idle)
    BY <1>1 DEF AppendKnows
  <1> QED BY <1>1, <1>2, AppendReads DEF AppendFails

(* The sequence gives an id that no event and no other append has.         *)
LEMMA InsertKeeps ==
  ASSUME EventsOK, AppendsOK, NEW h \in Handlers, Insert(h)
  PROVE  EventsOK' /\ AppendsOK'
  <1> DEFINE r == appending[h]
             row1 == [id |-> NextId, trail |-> r.trail, previous |-> r.previous, seen |-> r.seen]
             s == [op |-> "insert", row |-> row1]
  <1>1. r \in AppendState /\ r.op = "read" /\ lastId \in Nat /\ NextId \in Ids
        /\ NextId = lastId + 1 /\ lastId' = NextId /\ event' = event
    BY DEF AppendsOK, EventsOK, Insert, NextId, Ids
  <1>2. r.trail \in Trails /\ r.previous \in 0..MaxEvents /\ r.seen \in SUBSET Ids
    BY <1>1, AppendShape
  <1>3. row1 \in Event /\ s \in AppendState
    BY <1>1, <1>2 DEF Event, AppendState
  <1>4. \A g \in Handlers : appending'[g] = IF g = h THEN s ELSE appending[g]
    BY DEF Insert, AppendsOK
  <1>5. \A e \in event : e.id \in Nat /\ e.id <= lastId
    BY RowShape DEF EventsOK
  <1>6. EventsOK'
    BY <1>1, <1>5 DEF EventsOK, ChainLeadsBack, Visible, Insert, NextId
  <1>7. Follows(r.previous, r.seen, r.trail)
    BY <1>1 DEF AppendsOK, AppendKnows
  <1>8. r.previous < NextId
    BY <1>1, <1>2, <1>5, <1>7 DEF Follows, Visible
  <1>9. \A g \in Handlers : appending[g].op = "insert" =>
            appending[g].row \in Event /\ appending[g].row.id \in Nat
            /\ appending[g].row.id <= lastId
    BY AppendShape, RowShape DEF AppendsOK, AppendKnows
  <1>10. IdsDiffer'
    <2> SUFFICES ASSUME NEW g \in Handlers, NEW k \in Handlers, g # k,
                        appending'[g].op = "insert", appending'[k].op = "insert"
                 PROVE  appending'[g].row.id # appending'[k].row.id
      BY DEF IdsDiffer
    <2>1. CASE g # h /\ k # h
      BY <1>4, <2>1 DEF AppendsOK, IdsDiffer
    <2>2. CASE g = h
      BY <1>1, <1>4, <1>9, <2>2
    <2>3. CASE k = h
      BY <1>1, <1>4, <1>9, <2>3
    <2> QED BY <2>1, <2>2, <2>3
  <1>11. \A g \in Handlers : AppendKnows(appending[g])'
    <2> SUFFICES ASSUME NEW g \in Handlers PROVE AppendKnows(appending[g])'
      OBVIOUS
    <2>1. CASE g = h
      <3>1. appending'[g].op = "insert" /\ appending'[g].row.id = NextId
            /\ appending'[g].row.previous = r.previous /\ appending'[g].row.seen = r.seen
            /\ appending'[g].row.trail = r.trail
        BY <1>4, <2>1
      <3> QED BY <1>1, <1>5, <1>7, <1>8, <3>1 DEF AppendKnows, Follows, Visible
    <2>2. CASE g # h
      <3>1. appending'[g] = appending[g] /\ AppendKnows(appending[g])
        BY <1>4, <2>2 DEF AppendsOK
      <3> QED BY <1>1, <1>9, <3>1 DEF AppendKnows, Follows, Visible
    <2> QED BY <2>1, <2>2
  <1>12. appending' \in [Handlers -> AppendState]
    BY <1>3 DEF Insert, AppendsOK
  <1> QED BY <1>6, <1>10, <1>11, <1>12 DEF AppendsOK

(* An event becomes visible: the links of the others still lead to theirs. *)
LEMMA CommitKeeps ==
  ASSUME EventsOK, AppendsOK, NEW h \in Handlers, CommitEvent(h)
  PROVE  EventsOK' /\ AppendsOK'
  <1>1. PICK r \in Event : r = appending[h].row
    BY AppendShape DEF AppendsOK, CommitEvent
  <1>2. event' = event \cup {r} /\ lastId' = lastId /\ appending[h].op = "insert"
    BY <1>1 DEF CommitEvent
  <1>3. r.previous < r.id /\ r.id <= lastId /\ Follows(r.previous, r.seen, r.trail)
        /\ \A e \in event : e.id # r.id
    BY <1>1, <1>2 DEF AppendsOK, AppendKnows
  <1>4. \A t : Visible(t) \subseteq Visible(t)'
    BY <1>2 DEF Visible
  <1>5. \A g \in Handlers : appending'[g] = IF g = h THEN Idle ELSE appending[g]
    BY DEF CommitEvent, AppendsOK
  <1>6. ChainLeadsBack'
    <2> SUFFICES ASSUME NEW e \in event'
                 PROVE  /\ e.previous < e.id
                        /\ e.previous # 0 => e.previous \in Visible(e.trail)'
                        /\ \A i \in e.seen : i <= e.previous
      BY DEF ChainLeadsBack, Visible
    <2>1. CASE e \in event
      BY <1>4, <2>1 DEF EventsOK, ChainLeadsBack
    <2>2. CASE e = r
      BY <1>3, <1>4, <2>2 DEF Follows
    <2> QED BY <1>2, <2>1, <2>2
  <1>7. EventsOK'
    <2>1. event' \subseteq Event /\ lastId' \in 0..MaxEvents
      BY <1>2 DEF EventsOK
    <2>2. \A e \in event' : e.id <= lastId'
      BY <1>2, <1>3 DEF EventsOK
    <2>3. \A e, f \in event' : e.id = f.id => e = f
      BY <1>2, <1>3 DEF EventsOK
    <2> QED BY <1>6, <2>1, <2>2, <2>3 DEF EventsOK
  <1>8. Idle \in AppendState /\ Idle.op = "idle"
    BY DEF AppendState, Idle
  <1>9. appending' \in [Handlers -> AppendState]
    BY <1>8 DEF CommitEvent, AppendsOK
  <1>10. IdsDiffer'
    BY <1>5, <1>8 DEF AppendsOK, IdsDiffer
  <1>11. \A g \in Handlers : AppendKnows(appending[g])'
    <2> SUFFICES ASSUME NEW g \in Handlers PROVE AppendKnows(appending[g])'
      OBVIOUS
    <2>1. CASE g = h
      BY <1>5, <1>8, <2>1 DEF AppendKnows
    <2>2. CASE g # h
      <3>1. appending'[g] = appending[g] /\ AppendKnows(appending[g])
        BY <1>5, <2>2 DEF AppendsOK
      <3>2. appending[g].op = "insert" => appending[g].row.id # r.id
        BY <1>1, <1>2, <2>2 DEF AppendsOK, IdsDiffer
      <3>3. \A p, S, t : Follows(p, S, t) => (p # 0 => p \in Visible(t)') /\ \A i \in S : i <= p
        BY <1>4 DEF Follows
      <3> QED BY <1>2, <3>1, <3>2, <3>3 DEF AppendKnows, Follows
    <2> QED BY <2>1, <2>2
  <1> QED BY <1>7, <1>9, <1>10, <1>11 DEF AppendsOK

LEMMA AuditKept == AuditInv /\ [AuditNext]_auditVars => AuditInv'
  <1> SUFFICES ASSUME EventsOK, AppendsOK, [AuditNext]_auditVars PROVE EventsOK' /\ AppendsOK'
    BY AuditParts, AuditPartsAfter
  <1>1. CASE UNCHANGED auditVars
    BY <1>1 DEF auditVars, EventsOK, ChainLeadsBack, Visible, AppendsOK, AppendKnows, Follows,
                IdsDiffer
  <1> QED BY <1>1, ReadNewestKeeps, InsertKeeps, CommitKeeps, FailureKeeps DEF AuditNext

(* For any number of tenants, events and overlapping appends: the chain of *)
(* a tenant leads back to its first event and skips none that was visible, *)
(* and it forks only between appends that did not see each other.          *)
THEOREM AuditInvariant == AuditSpec => []AuditInv
  BY AuditStart, AuditKept, PTL DEF AuditSpec
=============================================================================
