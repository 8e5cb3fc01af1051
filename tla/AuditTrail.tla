----------------------------- MODULE AuditTrail -----------------------------
(***************************************************************************)
(* The audit events of the tenants, chained by hashes.  An append reads    *)
(* the tenant's newest event that it can see, takes an id from the table's *)
(* sequence, and its row is visible to the others some time later.  A      *)
(* hash is named by the id of the event it belongs to.                     *)
(***************************************************************************)
EXTENDS Handlers

CONSTANTS
    Trails,     \* tenants, and the platform itself
    MaxEvents   \* bound: ids the sequence hands out

ASSUME AuditAssumption == MaxEvents \in Nat

VARIABLES
    event,      \* visible events: id, trail, previous (0: the first), seen
    lastId,     \* the sequence
    appending   \* the handlers that append

auditVars == <<event, lastId, appending>>

Ids == 1..MaxEvents
Event == [id : Ids, trail : Trails, previous : 0..MaxEvents, seen : SUBSET Ids]
AppendState ==
    {Idle} \cup [op : {"read"}, trail : Trails, previous : 0..MaxEvents, seen : SUBSET Ids]
           \cup [op : {"insert"}, row : Event]

AuditInit == event = {} /\ lastId = 0 /\ appending = [h \in Handlers |-> Idle]

Visible(t) == {e.id : e \in {x \in event : x.trail = t}}

\* findFirst by id, descending. "seen" is history: the trail as it was read.
BugNewest(p, S) == IF S = {} THEN p = 0 ELSE p \in S
Newest(p, S) == IF S = {} THEN p = 0 ELSE p \in S /\ \A i \in S : i <= p
ReadNewest(h, t, p) ==
    /\ appending[h] = Idle /\ Newest(p, Visible(t))
    /\ appending' = [appending EXCEPT ![h] =
            [op |-> "read", trail |-> t, previous |-> p, seen |-> Visible(t)]]
    /\ UNCHANGED <<event, lastId>>

NextId == lastId + 1

\* The insert takes its id, and commits later.
Insert(h) == LET r == appending[h] IN
    /\ r.op = "read" /\ lastId < MaxEvents
    /\ lastId' = NextId
    /\ appending' = [appending EXCEPT ![h] = [op |-> "insert",
            row |-> [id |-> NextId, trail |-> r.trail, previous |-> r.previous, seen |-> r.seen]]]
    /\ UNCHANGED event

CommitEvent(h) ==
    /\ appending[h].op = "insert"
    /\ event' = event \cup {appending[h].row}
    /\ appending' = [appending EXCEPT ![h] = Idle]
    /\ UNCHANGED lastId

\* The append fails: what it reports stays done, and the id is not reused.
AppendFails(h) ==
    /\ appending[h] # Idle
    /\ appending' = [appending EXCEPT ![h] = Idle]
    /\ UNCHANGED <<event, lastId>>

AuditNext == \E h \in Handlers :
    \/ \E t \in Trails, p \in 0..MaxEvents : ReadNewest(h, t, p)
    \/ Insert(h) \/ CommitEvent(h) \/ AppendFails(h)

AuditSpec == AuditInit /\ [][AuditNext]_auditVars

-----------------------------------------------------------------------------
AuditTypeOK ==
    /\ event \subseteq Event /\ lastId \in 0..MaxEvents
    /\ appending \in [Handlers -> AppendState]

\* The chain leads back to the first event of its tenant: an event is linked
\* to an older event of its trail that is there, and none is skipped that was
\* visible when the event was written.
ChainLeadsBack ==
    \A e \in event :
        /\ e.previous < e.id
        /\ e.previous # 0 => e.previous \in Visible(e.trail)
        /\ \A i \in e.seen : i <= e.previous

\* Two events are linked to the same one only if neither append saw the other
\* event: the trail of a tenant whose events are not written at the same time
\* is one chain.
ForksOverlap ==
    \A e, f \in event :
        e.trail = f.trail /\ e.previous = f.previous /\ e # f
            => e.id \notin f.seen /\ f.id \notin e.seen

\* p is 0 or a visible event of the trail, and none of S is newer.
Follows(p, S, t) == (p # 0 => p \in Visible(t)) /\ \A i \in S : i <= p

\* What every step preserves: the chain leads back and forks only where appends
\* overlap, ids are given once, and an append links to the trail it read.
AuditInv ==
    /\ AuditTypeOK /\ ChainLeadsBack /\ ForksOverlap
    /\ \A e \in event : e.id <= lastId
    /\ \A e, f \in event : e.id = f.id => e = f
    /\ \A h \in Handlers : appending[h].op = "read" =>
          Follows(appending[h].previous, appending[h].seen, appending[h].trail)
    /\ \A h \in Handlers : appending[h].op = "insert" =>
          LET r == appending[h].row IN
          /\ r.previous < r.id /\ r.id <= lastId
          /\ Follows(r.previous, r.seen, r.trail)
          /\ \A e \in event : e.id # r.id
          /\ \A g \in Handlers \ {h} : appending[g].op = "insert" => appending[g].row.id # r.id
=============================================================================
