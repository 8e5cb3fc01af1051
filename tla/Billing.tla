------------------------------ MODULE Billing ------------------------------
(***************************************************************************)
(* Subscriptions of one company, and a coupon it shares with others.  A    *)
(* subscription checks its coupon before its transaction, which cancels    *)
(* the subscriptions it sees and creates the new one.                      *)
(***************************************************************************)
EXTENDS Handlers, Sequences

CONSTANTS
    Plans,     \* subscription plans
    FirstPlan, \* the one a company starts its trial with
    MaxUses,   \* Coupon.maxUses
    MaxSubs    \* bound: subscriptions of the company

ASSUME BillingAssumption ==
    /\ MaxUses \in Nat /\ MaxSubs \in Nat \ {0} /\ FirstPlan \in Plans
    /\ IsFiniteSet(Handlers)

VARIABLES
    subs,      \* TenantSubscription, in the order of createdAt
    uses,      \* Coupon.usedCount
    billing,   \* what the handlers are doing
    crowd,     \* history: most checked coupons held at a time
    crossed    \* history: subscriptions overlapped

billingVars == <<subs, uses, billing, crowd, crossed>>

Subscription == [plan : Plans, live : BOOLEAN]
BillingState == {Idle} \cup [op : {"checked", "cancelled"}, plan : Plans, coupon : BOOLEAN]

\* registerTenant ends with a trial of the cheapest plan.
BillingInit ==
    /\ subs = <<[plan |-> FirstPlan, live |-> TRUE]>>
    /\ uses = 0 /\ billing = [h \in Handlers |-> Idle]
    /\ crowd = 0 /\ crossed = FALSE

\* The most coupons held so far, when one more joins those held now.
Holders == {h \in Handlers : billing[h] # Idle /\ billing[h].coupon}
Holding == Cardinality(Holders)
Joined(n) == IF n + Holding > crowd THEN n + Holding ELSE crowd
LiveSubs == {i \in DOMAIN subs : subs[i].live}

\* What the entitlements of the company are read from: its newest live
\* subscription, or none.
CurrentPlan ==
    IF LiveSubs = {} THEN {}
    ELSE {subs[i].plan : i \in {j \in LiveSubs : \A k \in LiveSubs : k <= j}}

-----------------------------------------------------------------------------
\* findValidCoupon.
CouponValid == uses < MaxUses

\* POST /subscribe reads the plan, and the coupon if there is one.
CheckPlan(h, p, coupon) ==
    /\ billing[h] = Idle /\ (coupon => CouponValid)
    /\ billing' = [billing EXCEPT ![h] = [op |-> "checked", plan |-> p, coupon |-> coupon]]
    /\ crowd' = Joined(IF coupon THEN 1 ELSE 0)
    /\ UNCHANGED <<subs, uses, crossed>>

\* Its transaction: cancel what is live, which no other transaction sees live
\* from then on.
BugCancelled == [i \in DOMAIN subs |-> [subs[i] EXCEPT !.live = @ /\ i = Len(subs)]]
Cancelled == [i \in DOMAIN subs |-> [subs[i] EXCEPT !.live = FALSE]]
CancelLive(h) ==
    /\ billing[h].op = "checked"
    /\ subs' = Cancelled
    /\ billing' = [billing EXCEPT ![h].op = "cancelled"]
    /\ crossed' = (crossed \/ \E g \in Handlers : billing[g].op = "cancelled")
    /\ UNCHANGED <<uses, crowd>>

\* Create the subscription and count the coupon.
CreateSub(h) ==
    /\ billing[h].op = "cancelled" /\ Len(subs) < MaxSubs
    /\ subs' = Append(subs, [plan |-> billing[h].plan, live |-> TRUE])
    /\ uses' = IF billing[h].coupon THEN uses + 1 ELSE uses
    /\ billing' = [billing EXCEPT ![h] = Idle]
    /\ UNCHANGED <<crowd, crossed>>

\* Another company subscribes with the coupon, all at once.
UseElsewhere ==
    /\ CouponValid /\ uses' = uses + 1 /\ crowd' = Joined(1)
    /\ UNCHANGED <<subs, billing, crossed>>

BillingNext ==
    \/ \E h \in Handlers :
        \/ \E p \in Plans, coupon \in BOOLEAN : CheckPlan(h, p, coupon)
        \/ CancelLive(h) \/ CreateSub(h)
    \/ UseElsewhere

BillingSpec == BillingInit /\ [][BillingNext]_billingVars

-----------------------------------------------------------------------------
BillingTypeOK ==
    /\ subs \in Seq(Subscription) /\ Len(subs) \in 1..MaxSubs
    /\ uses \in Nat /\ crowd \in Nat /\ crossed \in BOOLEAN
    /\ billing \in [Handlers -> BillingState]

\* A coupon is used beyond its limit only by requests that held it checked
\* together: k of them take it past the limit by k - 1 at most.
CouponNearLimit == uses > MaxUses => uses - MaxUses < crowd

\* A company has one live subscription at most, unless the transactions of two
\* subscriptions overlapped; it has none only while one is being created.
OneLiveSubscription ==
    /\ ~crossed => \A i, j \in LiveSubs : i = j
    /\ (\A h \in Handlers : billing[h].op # "cancelled") => LiveSubs # {}

\* What every step preserves: coupons used and held stay within the limit and
\* the crowd, and nothing is live while a subscription replaces what it saw.
BillingInv ==
    /\ BillingTypeOK /\ CouponNearLimit /\ OneLiveSubscription
    /\ \/ uses + Holding < MaxUses + crowd
       \/ uses + Holding <= MaxUses
    /\ ~crossed => \A h \in Handlers : billing[h].op = "cancelled" =>
          /\ LiveSubs = {}
          /\ \A g \in Handlers : billing[g].op = "cancelled" => g = h
=============================================================================
