--------------------------- MODULE PlanResolution ---------------------------
(***************************************************************************)
(* users.plan and the Google Play subscriptions it follows:                *)
(* plan-resolution.service.ts.  Nothing calls syncUserPlan yet; its        *)
(* comment names the callers to come (purchases, notifications of the      *)
(* store, the sweep of expired subscriptions), which may overlap.          *)
(***************************************************************************)
EXTENDS Naturals

CONSTANTS
    Subscriptions,  \* google_play_subscriptions of the user
    Statuses,       \* the values of GoogleSubscriptionStatus that occur
    Syncs,          \* calls of syncUserPlan, one after the other in each
    Never,          \* expiresAt is NULL
    MaxTime         \* bound: the clock

VARIABLES
    subs,           \* the rows: status, expiresAt and the product's plan
    plan,           \* users.plan
    now,            \* the clock
    sync,           \* where each call is: the plan it resolved
    due,            \* ghost: a change no sync has read since, or a sync that failed after its read
    overlapped,     \* ghost: a sync read while another was between its read and its write
    resolvedAt      \* ghost: when the last sync read

planVars == <<subs, plan, now, sync, due, overlapped, resolvedAt>>

GoogleSubscriptionStatus ==
    {"PENDING", "ACTIVE", "CANCELED", "GRACE_PERIOD", "ON_HOLD", "PAUSED", "EXPIRED", "REVOKED", "UNKNOWN"}

ASSUME PlanAssumption ==
    /\ Statuses \subseteq GoogleSubscriptionStatus
    /\ MaxTime \in Nat \ {0} /\ Never \notin 1..MaxTime

Plans == {"Basic", "Pro", "Premium"}
PlanRank == [Basic |-> 0, Pro |-> 1, Premium |-> 2]
EntitledStatuses == {"ACTIVE", "GRACE_PERIOD", "CANCELED"}
SubscriptionRows == [status : Statuses, expiresAt : (1..MaxTime) \cup {Never}, plan : Plans]
SyncIdle == [pc |-> "idle", resolved |-> "Basic"]
Running == {c \in Syncs : sync[c].pc = "write"}

-----------------------------------------------------------------------------
StatusOnly(rows, t) == {s \in rows : s.status \in EntitledStatuses} \* mutant of Entitled: stale rows count
Entitled(rows, t) ==
    {s \in rows : s.status \in EntitledStatuses /\ (s.expiresAt = Never \/ s.expiresAt > t)}

\* The comparator of the sort: higher tier first, then the later expiry.
Precedes(a, b) ==
    \/ PlanRank[a.plan] > PlanRank[b.plan]
    \/ /\ PlanRank[a.plan] = PlanRank[b.plan]
       /\ a.expiresAt = Never \/ (b.expiresAt # Never /\ a.expiresAt >= b.expiresAt)

ResolvePlan(rows, t) ==
    IF Entitled(rows, t) = {} THEN "Basic"
    ELSE (CHOOSE s \in Entitled(rows, t) : \A o \in Entitled(rows, t) : Precedes(s, o)).plan

CurrentRows == {subs[x] : x \in Subscriptions}
-----------------------------------------------------------------------------
\* Purchases nobody has resolved yet.
PlanInit ==
    /\ subs \in [Subscriptions -> SubscriptionRows]
    /\ plan = "Basic" /\ now = 1
    /\ sync = [c \in Syncs |-> SyncIdle]
    /\ due = TRUE /\ overlapped = FALSE /\ resolvedAt = 1

\* The store changes a subscription.
Change(x) ==
    /\ \E row \in SubscriptionRows : subs' = [subs EXCEPT ![x] = row]
    /\ due' = TRUE
    /\ UNCHANGED <<plan, now, sync, overlapped, resolvedAt>>

Tick ==
    /\ now < MaxTime /\ now' = now + 1
    /\ UNCHANGED <<subs, plan, sync, due, overlapped, resolvedAt>>

\* The subscriptions are read and resolved.
SyncRead(c) ==
    /\ sync[c].pc = "idle"
    /\ sync' = [sync EXCEPT ![c] = [pc |-> "write", resolved |-> ResolvePlan(CurrentRows, now)]]
    /\ due' = FALSE /\ resolvedAt' = now
    /\ overlapped' = (Running # {})
    /\ UNCHANGED <<subs, plan, now>>

OnlyUpgrades(c) ==              \* mutant of NextPlan: an upgrade is never taken back
    IF PlanRank[sync[c].resolved] > PlanRank[plan] THEN sync[c].resolved ELSE plan
\* Written when it differs from the current plan, which is the same as written.
NextPlan(c) == sync[c].resolved

\* The read of the user or the update may fail, and the call throws: the old plan stays.
SyncWrite(c) ==
    /\ sync[c].pc = "write"
    /\ \/ plan' = NextPlan(c) /\ UNCHANGED due
       \/ due' = TRUE /\ UNCHANGED plan
    /\ sync' = [sync EXCEPT ![c] = SyncIdle]
    /\ UNCHANGED <<subs, now, overlapped, resolvedAt>>

PlanNext ==
    \/ \E x \in Subscriptions : Change(x)
    \/ Tick
    \/ \E c \in Syncs : SyncRead(c) \/ SyncWrite(c)

PlanSpec == PlanInit /\ [][PlanNext]_planVars

-----------------------------------------------------------------------------
(* Properties                                                              *)

\* Reference: a plan above Basic needs a subscription that grants it and no better one,
\* in force at the time.
Blocked == {"PENDING", "ON_HOLD", "PAUSED", "EXPIRED", "REVOKED", "UNKNOWN"}
Grants(s, t) == s.status \notin Blocked /\ (s.expiresAt = Never \/ s.expiresAt > t)
BestGranted(t) ==
    CHOOSE p \in Plans :
        /\ p = "Basic" \/ \E s \in CurrentRows : Grants(s, t) /\ s.plan = p
        /\ \A s \in CurrentRows : Grants(s, t) => PlanRank[s.plan] <= PlanRank[p]

\* When every change has been followed by a sync, none is under way and the last did not
\* fail, users.plan is the best plan the subscriptions granted at that sync.  Excused:
\* syncs that overlapped, where the older read may be written last.
PlanFollowsSubscriptions ==
    ~due /\ Running = {} /\ ~overlapped => plan = BestGranted(resolvedAt)
=============================================================================
