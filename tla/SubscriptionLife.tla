-------------------------- MODULE SubscriptionLife --------------------------
(***************************************************************************)
(* The subscriptions of one user: bought (CompleteSubscriptionOrder) or    *)
(* bound by an administrator, cancelled, deleted and expired, and the user *)
(* group a plan upgrades its owner to (model/subscription.go).             *)
(*                                                                         *)
(* Four kinds of transactions read the user's rows and his group and then  *)
(* write both: a new subscription remembers the group it replaced, and the *)
(* one that ends last is to bring it back.  The order lock is no help: it  *)
(* is per trade number, and administrators and the task do not take it.    *)
(***************************************************************************)
EXTENDS Integers, FiniteSets

CONSTANTS
    Requests,    \* webhooks and administrators at work for the user
    Keepers,     \* processes that run the maintenance task
    Plans,
    UpgradeGroup, \* of a plan, or None
    MaxPurchase, \* MaxPurchasePerUser of a plan, 0: unlimited
    Duration,    \* of a plan
    Base,        \* the group of the user before any subscription
    None,        \* the empty string
    Serial,      \* transactions of the user wait for each other
    MaxSubs,     \* bound: subscriptions created
    MaxTime,     \* bound: time that passes
    MaxFaults    \* bound: transactions that fail

ASSUME PlanAssumption ==
    /\ MaxPurchase \in [Plans -> Nat]
    /\ Duration \in [Plans -> Nat \ {0}]
    /\ None # Base /\ \A p \in Plans : UpgradeGroup[p] # Base
ASSUME BoundAssumption ==
    /\ MaxSubs \in Nat /\ MaxTime \in Nat /\ MaxFaults \in Nat
    /\ Serial \in BOOLEAN
    /\ IsFiniteSet(Requests)

VARIABLES
    group, \* users.group
    subs,  \* user_subscriptions, by id
    job,   \* what a process has been asked to do
    tx,    \* its open transaction with the rows and the group it has read
    clock,
    faults

vars == <<group, subs, job, tx, clock, faults>>

Process == Requests \union Keepers
Ids     == 1..MaxSubs
Groups  == {Base} \union {g \in {UpgradeGroup[p] : p \in Plans} : g # None}

Gone    == [status |-> "none"]
Deleted == [status |-> "deleted"]
Sub     == [status : {"active", "expired", "cancelled"}, plan : Plans, end : Nat,
            prev : Groups \union {None}]

NoJob == [what |-> "none"]
Job   == [what : {"create"}, plan : Plans] \union
         [what : {"cancel", "delete"}, id : Ids, now : Nat] \union
         [what : {"expire"}, now : Nat]

NoTx == [open |-> FALSE]
Tx   == [open : {TRUE}, now : Nat, rows : [Ids -> Sub \union {Gone, Deleted}], group : Groups]

Init ==
    /\ group = Base
    /\ subs = [s \in Ids |-> Gone]
    /\ job = [p \in Process |-> NoJob]
    /\ tx = [p \in Process |-> NoTx]
    /\ clock = 0
    /\ faults = 0

-----------------------------------------------------------------------------
(* Queries on the rows a transaction has read *)

Rows(rows) == {s \in Ids : rows[s].status \in {"active", "expired", "cancelled"}}
With(rows, status) == {s \in Rows(rows) : rows[s].status = status}
Upgrade(rows, s) == UpgradeGroup[rows[s].plan]
Upgrading(rows)  == {s \in Rows(rows) : Upgrade(rows, s) # None}

\* status = 'active' AND end_time <= now
Due(rows, now) == {s \in With(rows, "active") : rows[s].end <= now}

\* status = 'active' AND end_time > now AND upgrade_group <> ''
Upgraded(rows, now) == {s \in With(rows, "active") \intersect Upgrading(rows) : rows[s].end > now}

\* ORDER BY end_time DESC, id DESC LIMIT 1
Last(rows, S) == CHOOSE s \in S : \A u \in S : \/ rows[u].end < rows[s].end
                                               \/ rows[u].end = rows[s].end /\ u <= s

AfterEndBlindly(rows, s, g) == IF g = Upgrade(rows, s) THEN rows[s].prev ELSE g

\* The group after s has ended, for a user in group g.
AfterEnd(rows, s, g) ==
    IF g = Upgrade(rows, s) /\ rows[s].prev \notin {None, g} THEN rows[s].prev ELSE g

-----------------------------------------------------------------------------
(* Requests, and the transactions they open *)

\* A paid order is completed, or an administrator binds a plan.
AskCreate(r, plan) ==
    /\ job[r] = NoJob
    /\ Cardinality({s \in Ids : subs[s] = Gone}) > Cardinality({p \in Requests : job[p].what = "create"})
    /\ job' = [job EXCEPT ![r] = [what |-> "create", plan |-> plan]]
    /\ UNCHANGED <<group, subs, tx, clock, faults>>

\* An administrator invalidates or deletes a subscription; the time is taken here.
AskEnd(r, what, s) ==
    /\ job[r] = NoJob
    /\ s \in Rows(subs)
    /\ job' = [job EXCEPT ![r] = [what |-> what, id |-> s, now |-> clock]]
    /\ UNCHANGED <<group, subs, tx, clock, faults>>

\* The task lists due rows, outside any transaction.
ListDue(k) ==
    /\ job[k] = NoJob
    /\ Due(subs, clock) # {}
    /\ job' = [job EXCEPT ![k] = [what |-> "expire", now |-> clock]]
    /\ UNCHANGED <<group, subs, tx, clock, faults>>

Turn == Serial => \A p \in Process : tx[p] = NoTx

Begin(p) ==
    /\ job[p] # NoJob /\ tx[p] = NoTx /\ Turn
    /\ tx' = [tx EXCEPT ![p] = [open |-> TRUE, now |-> clock, rows |-> subs, group |-> group]]
    /\ UNCHANGED <<group, subs, job, clock, faults>>

Close(p) == /\ tx' = [tx EXCEPT ![p] = NoTx]
            /\ job' = [job EXCEPT ![p] = NoJob]

-----------------------------------------------------------------------------
(* Commits *)

LimitReachedLate(rows, plan) ==
    MaxPurchase[plan] > 0 /\ Cardinality({s \in Rows(rows) : rows[s].plan = plan}) > MaxPurchase[plan]
LimitReached(rows, plan) ==
    MaxPurchase[plan] > 0 /\ Cardinality({s \in Rows(rows) : rows[s].plan = plan}) >= MaxPurchase[plan]

\* CreateUserSubscriptionFromPlanTx
CommitCreate(p) ==
    LET plan == job[p].plan
        new  == UpgradeGroup[plan]
        moves == new # None /\ new # tx[p].group
        row  == [status |-> "active", plan |-> plan, end |-> tx[p].now + Duration[plan],
                 prev |-> IF moves THEN tx[p].group ELSE None]
    IN  /\ tx[p].open /\ job[p].what = "create"
        /\ IF LimitReached(tx[p].rows, plan)
           THEN UNCHANGED <<group, subs>>
           ELSE \E s \in Ids :
                  /\ subs[s] = Gone /\ \A u \in 1..(s - 1) : subs[u] # Gone
                  /\ subs' = [subs EXCEPT ![s] = row]
                  /\ group' = IF moves THEN new ELSE group
        /\ Close(p)
        /\ UNCHANGED <<clock, faults>>

DowngradedAtOnce(p) == AfterEnd(tx[p].rows, job[p].id, tx[p].group)

\* downgradeUserGroupForSubscriptionTx
Downgraded(p) ==
    LET s == job[p].id
        t == tx[p]
    IN  IF Upgraded(t.rows, job[p].now) \subseteq {s} /\ AfterEnd(t.rows, s, t.group) # t.group
        THEN AfterEnd(t.rows, s, t.group) ELSE group

Cancelled(row, now) == [status |-> "cancelled", plan |-> row.plan, end |-> now, prev |-> row.prev]

\* AdminInvalidateUserSubscription and AdminDeleteUserSubscription
CommitEnd(p) ==
    LET s == job[p].id
    IN  /\ tx[p].open /\ job[p].what \in {"cancel", "delete"}
        /\ IF s \notin Rows(tx[p].rows) THEN UNCHANGED <<group, subs>>
           ELSE /\ group' = Downgraded(p)
                /\ subs' = IF s \notin Rows(subs) THEN subs
                           ELSE IF job[p].what = "delete" THEN [subs EXCEPT ![s] = Deleted]
                           ELSE [subs EXCEPT ![s] = Cancelled(@, job[p].now)]
        /\ Close(p)
        /\ UNCHANGED <<clock, faults>>

ExpiredBefore(rows, now) ==
    [s \in Ids |-> IF s \in Due(rows, now) /\ rows[s].end < now
                   THEN [rows[s] EXCEPT !.status = "expired"] ELSE rows[s]]

Expired(rows, now) ==
    [s \in Ids |-> IF s \in Due(rows, now) THEN [rows[s] EXCEPT !.status = "expired"] ELSE rows[s]]

\* ExpireDueSubscriptions, the transaction of one user
CommitExpire(k) ==
    LET now  == job[k].now
        rows == Expired(tx[k].rows, now)
        ended == With(rows, "expired") \intersect Upgrading(rows)
        g    == AfterEnd(rows, Last(rows, ended), tx[k].group)
    IN  /\ tx[k].open /\ job[k].what = "expire"
        /\ subs' = Expired(subs, now)
        /\ group' = IF Upgraded(rows, now) = {} /\ ended # {} /\ g # tx[k].group THEN g ELSE group
        /\ Close(k)
        /\ UNCHANGED <<clock, faults>>

\* A statement fails and the transaction is rolled back.
Fail(p) ==
    /\ tx[p].open /\ faults < MaxFaults
    /\ faults' = faults + 1
    /\ Close(p)
    /\ UNCHANGED <<group, subs, clock>>

\* The transaction of another user fails before this user's turn, and the round
\* ends with it (ExpireDueSubscriptions returns the error).
EndRound(k) ==
    /\ job[k].what = "expire" /\ tx[k] = NoTx /\ faults < MaxFaults
    /\ faults' = faults + 1
    /\ job' = [job EXCEPT ![k] = NoJob]
    /\ UNCHANGED <<group, subs, tx, clock>>

Tick == /\ clock < MaxTime /\ clock' = clock + 1
        /\ UNCHANGED <<group, subs, job, tx, faults>>

-----------------------------------------------------------------------------
Step(p) == Begin(p) \/ CommitCreate(p) \/ CommitEnd(p) \/ CommitExpire(p)

\* Nothing has been asked for.
Rest == (\A p \in Process : job[p] = NoJob) /\ UNCHANGED vars

Next ==
    \/ Tick
    \/ Rest
    \/ \E p \in Process : Step(p) \/ Fail(p)
    \/ \E r \in Requests : \/ \E plan \in Plans : AskCreate(r, plan)
                           \/ \E s \in Ids, what \in {"cancel", "delete"} : AskEnd(r, what, s)
    \/ \E k \in Keepers : ListDue(k) \/ EndRound(k)

Spec == Init /\ [][Next]_vars

\* The ticker runs for ever, transactions end, and the database lets waiting
\* transactions in.
Fairness ==
    /\ \A k \in Keepers : WF_vars(ListDue(k))
    /\ \A p \in Process : SF_vars(Begin(p)) /\ WF_vars(Step(p))

FairSpec == Spec /\ Fairness
-----------------------------------------------------------------------------
(* Properties *)

\* Every variable holds what its Go or database type allows.
TypeOK ==
    /\ group \in Groups
    /\ subs \in [Ids -> Sub \union {Gone, Deleted}]
    /\ job \in [Process -> Job \union {NoJob}]
    /\ tx \in [Process -> Tx \union {NoTx}]
    /\ clock \in 0..MaxTime
    /\ faults \in 0..MaxFaults

\* Purchases that can be under way at once: those that count the rows of a plan
\* before any of them inserts its own.
Concurrent == IF Serial THEN 1 ELSE Cardinality(Requests)

\* The purchase limit is counted inside the transaction of each order, and orders
\* have different locks: a plan is held more often than its limit says only by as
\* many as were bought at once, whatever is cancelled, deleted or bound meanwhile;
\* purchases that follow each other never add to that.
PurchasesBounded ==
    \A plan \in Plans : MaxPurchase[plan] > 0 =>
        Cardinality({s \in Rows(subs) : subs[s].plan = plan}) <= MaxPurchase[plan] + Concurrent - 1

\* As long as an upgrading subscription runs, whatever else is bought, cancelled
\* or expires beside it, its owner is not put back into the group he came from.
UpgradeKept == Upgraded(subs, clock) # {} => group # Base

\* The maintenance task gets to every subscription whose time is up.
DueEnds == \A s \in Ids : s \in Due(subs, clock) ~> s \notin With(subs, "active")
-----------------------------------------------------------------------------
(* The catalog the configurations bind to the constants: plan 1 is bought once *)
(* and lasts longer than plan 2, which is bought twice.                        *)

TwoGroups == [p \in Plans |-> IF p = 1 THEN "svip" ELSE "vip"]
Limits    == [p \in Plans |-> IF p = 1 THEN 1 ELSE 2]
Lengths   == [p \in Plans |-> IF p = 1 THEN 2 ELSE 1]
=============================================================================
