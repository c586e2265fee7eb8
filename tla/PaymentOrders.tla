--------------------------- MODULE PaymentOrders ---------------------------
(***************************************************************************)
(* Payment orders: wallet top-ups and subscription orders, completed by    *)
(* the notifications of four payment gateways or by an administrator.      *)
(*                                                                         *)
(* Gateways repeat a notification until it is acknowledged, and may repeat *)
(* it afterwards; the user's browser comes back with one of its own.  The  *)
(* handlers hold LockOrder of the trade number (module OrderLock, whose    *)
(* steps are taken here), and read and write the order under it.  The      *)
(* database gives them no lock: the reads of a transaction and its commit  *)
(* are two steps.  A process that stops is a fault of every handler in it. *)
(***************************************************************************)
EXTENDS OrderLock

CONSTANTS
    Kinds,    \* the kinds of orders the users place
    MaxFaults \* database errors, or handlers that stop half-way

Kind == [via : {"epay", "stripe", "creem", "waffo"}, plan : BOOLEAN]

\* The kinds there are: Waffo sells no plans.
AllKinds == {k \in Kind : k.plan => k.via # "waffo"}

ASSUME KindsAssumption == Kinds \subseteq AllKinds
ASSUME FaultsAssumption == MaxFaults \in Nat

VARIABLES
    kind,    \* TopUp.PaymentMethod, or a SubscriptionOrder
    order,   \* status of the row
    credit,  \* how often quota was added or a subscription created for it
    gateway, \* what became of the payment
    acked,   \* the gateway need not notify any more
    work,    \* the handler a goroutine runs
    faults,
    lost     \* orders a fault or the purchase limit cut off, without a retry

pvars == <<kind, order, credit, gateway, acked, work, faults, lost>>

Statuses == {"none", "pending", "success", "expired", "failed"}
NoWork == [what |-> "none", step |-> "none", seen |-> "none", trade |-> None]
Work == [what : {"none", "paid", "expired", "manual", "failed"},
         step : {"none", "read", "write", "credit", "done"},
         seen : Statuses, trade : Trades \union {None}]

PayInit ==
    /\ Init
    /\ kind \in [Trades -> Kinds]
    /\ order = [t \in Trades |-> "none"]
    /\ credit = [t \in Trades |-> 0]
    /\ gateway = [t \in Trades |-> "open"]
    /\ acked = [t \in Trades |-> FALSE]
    /\ work = [p \in Procs |-> NoWork]
    /\ faults = 0
    /\ lost = {}

-----------------------------------------------------------------------------
(* Placing an order *)

\* Stripe and epay's top-ups are stored when the link to pay is there; of the
\* others the row comes first, and then the gateway is asked for the link.
LinkFirst(t) == kind[t].via = "stripe" \/ (kind[t].via = "epay" /\ ~kind[t].plan)

Place(t) ==
    /\ order[t] = "none"
    /\ order' = [order EXCEPT ![t] = "pending"]
    /\ gateway' = [gateway EXCEPT ![t] = IF LinkFirst(t) THEN "open" ELSE "asked"]
    /\ UNCHANGED <<vars, kind, credit, acked, work, faults, lost>>

Linked(t) ==
    /\ gateway[t] = "asked"
    /\ gateway' = [gateway EXCEPT ![t] = "open"]
    /\ UNCHANGED <<vars, kind, order, credit, acked, work, faults, lost>>

RefusedCancelled(t) ==
    /\ gateway[t] = "asked"
    /\ order' = [order EXCEPT ![t] = "cancelled"]
    /\ gateway' = [gateway EXCEPT ![t] = "refused"]
    /\ UNCHANGED <<vars, kind, credit, acked, work, faults, lost>>

\* The gateway gives no link, so that nobody can pay.  Epay's subscription order
\* is expired if it is pending; Waffo's row is saved as failed by the handler
\* that inserted it, whatever has become of it since; Creem's stays as it is.
Refused(t) ==
    /\ gateway[t] = "asked"
    /\ gateway' = [gateway EXCEPT ![t] = "refused"]
    /\ \/ kind[t].via = "epay" /\ order[t] = "pending" /\ order' = [order EXCEPT ![t] = "expired"]
       \/ kind[t].via = "epay" /\ order[t] # "pending" /\ UNCHANGED order
       \/ kind[t].via = "waffo" /\ order' = [order EXCEPT ![t] = "failed"]
       \/ kind[t].via = "creem" /\ UNCHANGED order
    /\ UNCHANGED <<vars, kind, credit, acked, work, faults, lost>>

\* The payment succeeds; or a checkout of Stripe expires, or an order of Waffo
\* ends without one.
Pay(t, result) ==
    /\ order[t] # "none" /\ gateway[t] = "open"
    /\ result = "expired" => kind[t].via = "stripe"
    /\ result = "failed" => kind[t].via = "waffo"
    /\ gateway' = [gateway EXCEPT ![t] = result]
    /\ UNCHANGED <<vars, kind, order, credit, acked, work, faults, lost>>

-----------------------------------------------------------------------------
(* The handlers, up to LockOrder *)

Start(p, t, what) == work' = [work EXCEPT ![p] = [what |-> what, step |-> "read",
                                                  seen |-> "none", trade |-> t]]

\* EpayNotify answers "success" before it does anything.
Notified(p, t) ==
    /\ work[p] = NoWork /\ gateway[t] = "paid"
    /\ Call(p, t) /\ Start(p, t, "paid")
    /\ acked' = [acked EXCEPT ![t] = @ \/ (kind[t].via = "epay" /\ ~kind[t].plan)]
    /\ UNCHANGED <<kind, order, credit, gateway, faults, lost>>

SessionExpired(p, t) ==
    /\ work[p] = NoWork /\ gateway[t] = "expired"
    /\ Call(p, t) /\ Start(p, t, "expired")
    /\ UNCHANGED <<kind, order, credit, gateway, acked, faults, lost>>

\* The administrator completes an order by hand.
AdminComplete(p, t) ==
    /\ work[p] = NoWork /\ order[t] # "none"
    /\ Call(p, t) /\ Start(p, t, "manual")
    /\ UNCHANGED <<kind, order, credit, gateway, acked, faults, lost>>

LockStep(p) ==
    /\ \/ EnterCreate(p)
       \/ Find(p)
       \/ \E i \in Ids : Store(p, i)
       \/ Count(p)
       \/ Acquire(p)
       \/ Unlock(p)
       \/ EnterLeave(p)
       \/ Drop(p)
    /\ UNCHANGED pvars

-----------------------------------------------------------------------------
(* The handlers, between LockOrder and UnlockOrder *)

AtWork(p, step) == pc[p] = "locked" /\ work[p].step = step
Go(p, step) == work' = [work EXCEPT ![p].step = step]

CompletableAlways(w) == TRUE

\* A subscription order has no pending top-up the administrator could complete.
Completable(w) == w.seen = "pending" /\ ~(w.what = "manual" /\ kind[w.trade].plan)

\* sessionExpired logs that a top-up is not pending, and goes on.
Expirable(w) == w.seen = "pending" \/ ~kind[w.trade].plan

Writes(w) == IF w.what = "expired" THEN Expirable(w) ELSE Completable(w)

\* What the gateway hears when the order was not pending any more: Stripe always
\* gets a 200, Creem for every top-up, and everybody for what is done already.
AckedUnchanged(w) ==
    /\ w.what = "paid"
    /\ \/ kind[w.trade].via = "stripe"
       \/ kind[w.trade].via = "creem" /\ ~kind[w.trade].plan
       \/ w.seen = "success"

Read(p) ==
    /\ AtWork(p, "read")
    /\ LET t == trade[p]
           w == [work[p] EXCEPT !.seen = order[t]]
       IN  /\ work' = [work EXCEPT ![p] = [w EXCEPT !.step = IF Writes(w) THEN "write" ELSE "done"]]
           /\ acked' = [acked EXCEPT ![t] = @ \/ (~Writes(w) /\ AckedUnchanged(w))]
    /\ UNCHANGED <<vars, kind, order, credit, gateway, faults, lost>>

\* EpayNotify saves the status and adds the quota in a second statement; an
\* administrator's completion of the same order is one transaction.
TwoStatements(w) == w.what = "paid" /\ kind[w.trade].via = "epay" /\ ~kind[w.trade].plan

SaveStatusOnly(p) ==
    /\ AtWork(p, "write") /\ TwoStatements(work[p])
    /\ order' = [order EXCEPT ![trade[p]] = "success"]
    /\ Go(p, "done")
    /\ UNCHANGED <<vars, kind, credit, gateway, acked, faults, lost>>

SaveStatus(p) ==
    /\ AtWork(p, "write") /\ TwoStatements(work[p])
    /\ order' = [order EXCEPT ![trade[p]] = "success"]
    /\ Go(p, "credit")
    /\ UNCHANGED <<vars, kind, credit, gateway, acked, faults, lost>>

AddQuota(p) ==
    /\ AtWork(p, "credit")
    /\ credit' = [credit EXCEPT ![trade[p]] = @ + 1]
    /\ Go(p, "done")
    /\ UNCHANGED <<vars, kind, order, gateway, acked, faults, lost>>

\* Recharge, RechargeCreem, RechargeWaffo, ManualCompleteTopUp and
\* CompleteSubscriptionOrder write status and quota, or the subscription, in one
\* transaction.
Commit(p) ==
    /\ AtWork(p, "write") /\ work[p].what # "expired" /\ ~TwoStatements(work[p])
    /\ order' = [order EXCEPT ![trade[p]] = "success"]
    /\ credit' = [credit EXCEPT ![trade[p]] = @ + 1]
    /\ acked' = [acked EXCEPT ![trade[p]] = @ \/ work[p].what = "paid"]
    /\ Go(p, "done")
    /\ UNCHANGED <<vars, kind, gateway, faults, lost>>

SaveExpired(p) ==
    /\ AtWork(p, "write") /\ work[p].what = "expired"
    /\ order' = [order EXCEPT ![trade[p]] = "expired"]
    /\ Go(p, "done")
    /\ UNCHANGED <<vars, kind, credit, gateway, acked, faults, lost>>

\* Nobody notifies again: epay has its "success", Stripe gets its 200 in any case.
NeverRetried(w) == \/ w.what = "paid" /\ kind[w.trade].via = "stripe"
                   \/ TwoStatements(w)

FaultAnswered(p) ==
    /\ faults < MaxFaults
    /\ work[p].what = "paid" /\ work[p].step \in {"read", "write", "credit"}
    /\ faults' = faults + 1
    /\ Go(p, "done")
    /\ lost' = IF NeverRetried(work[p]) THEN lost \union {work[p].trade} ELSE lost
    /\ acked' = [acked EXCEPT ![work[p].trade] = TRUE]
    /\ UNCHANGED <<vars, kind, order, credit, gateway>>

\* A statement or the transaction fails, or the process stops.
Fault(p) ==
    /\ faults < MaxFaults
    /\ work[p].what # "failed" /\ work[p].step \in {"read", "write", "credit"}
    /\ faults' = faults + 1
    /\ Go(p, "done")
    /\ IF NeverRetried(work[p])
       THEN /\ lost' = lost \union {work[p].trade}
            /\ acked' = [acked EXCEPT ![work[p].trade] = TRUE]
       ELSE UNCHANGED <<lost, acked>>
    /\ UNCHANGED <<vars, kind, order, credit, gateway>>

\* CreateUserSubscriptionFromPlanTx refuses one purchase too many.
OverLimit(p) ==
    /\ AtWork(p, "write") /\ kind[trade[p]].plan /\ work[p].what = "paid"
    /\ Go(p, "done")
    /\ lost' = lost \union {trade[p]}
    /\ acked' = [acked EXCEPT ![trade[p]] = @ \/ kind[trade[p]].via = "stripe"]
    /\ UNCHANGED <<vars, kind, order, credit, gateway, faults>>

FinishWithoutUnlock(p) ==
    /\ AtWork(p, "done")
    /\ Goto(p, "idle")
    /\ work' = [work EXCEPT ![p] = NoWork]
    /\ UNCHANGED <<orderLocks, createLock, refCount, mu, trade, rcm,
                   kind, order, credit, gateway, acked, faults, lost>>

\* The deferred UnlockOrder.
Finish(p) ==
    /\ AtWork(p, "done")
    /\ LoadAgain(p)
    /\ work' = [work EXCEPT ![p] = NoWork]
    /\ UNCHANGED <<kind, order, credit, gateway, acked, faults, lost>>

-----------------------------------------------------------------------------
(* Waffo reports a status other than PAY_SUCCESS: a payment still on its way, *)
(* one attempt of several, or the end of the order; and such a report may     *)
(* arrive after the payment.  Whichever it is, a pending row is read and      *)
(* saved as failed, without LockOrder.                                        *)

ReadFailed(p, t) ==
    /\ pc[p] = "idle" /\ work[p] = NoWork
    /\ kind[t].via = "waffo" /\ gateway[t] # "refused" /\ order[t] = "pending"
    /\ work' = [work EXCEPT ![p] = [what |-> "failed", step |-> "write",
                                    seen |-> "pending", trade |-> t]]
    /\ UNCHANGED <<vars, kind, order, credit, gateway, acked, faults, lost>>

SaveFailed(p) ==
    /\ work[p].what = "failed"
    /\ order' = [order EXCEPT ![work[p].trade] = "failed"]
    /\ work' = [work EXCEPT ![p] = NoWork]
    /\ UNCHANGED <<vars, kind, credit, gateway, acked, faults, lost>>

-----------------------------------------------------------------------------
Handle(p) ==
    \/ Read(p)
    \/ SaveStatus(p)
    \/ AddQuota(p)
    \/ Commit(p)
    \/ SaveExpired(p)
    \/ Fault(p)
    \/ OverLimit(p)
    \/ Finish(p)
    \/ SaveFailed(p)

PayNext ==
    \/ \E t \in Trades : \/ Place(t)
                         \/ Linked(t)
                         \/ Refused(t)
                         \/ \E result \in {"paid", "expired", "failed"} : Pay(t, result)
    \/ \E p \in Procs : \/ LockStep(p)
                        \/ Handle(p)
                        \/ \E t \in Trades : \/ Notified(p, t)
                                             \/ SessionExpired(p, t)
                                             \/ AdminComplete(p, t)
                                             \/ ReadFailed(p, t)

PaySpec == PayInit /\ [][PayNext]_<<vars, pvars>>

\* Goroutines keep running, and sync.Mutex hands a mutex to a waiter that has
\* waited long enough (its starvation mode), hence strong fairness where one is
\* locked; a gateway repeats a notification that was not acknowledged, and the
\* server starts a goroutine for it sooner or later.
PayFairness ==
    /\ \A p \in Procs :
         /\ WF_<<vars, pvars>>(LockStep(p)) /\ WF_<<vars, pvars>>(Handle(p))
         /\ SF_<<vars, pvars>>(EnterCreate(p) /\ UNCHANGED pvars)
         /\ SF_<<vars, pvars>>(Acquire(p) /\ UNCHANGED pvars)
         /\ SF_<<vars, pvars>>(EnterLeave(p) /\ UNCHANGED pvars)
    /\ \A t \in Trades : SF_<<vars, pvars>>(~acked[t] /\ \E p \in Procs : Notified(p, t))

PayFairSpec == PaySpec /\ PayFairness
-----------------------------------------------------------------------------
(* Properties; the specification Spec of OrderLock is one of them: whatever the *)
(* handlers do, they take and leave the lock as OrderLock says.              *)

\* Every variable holds what its Go or database type allows.
PayTypeOK ==
    /\ kind \in [Trades -> Kinds]
    /\ order \in [Trades -> Statuses]
    /\ credit \in [Trades -> Nat]
    /\ gateway \in [Trades -> {"asked", "open", "refused", "paid", "expired", "failed"}]
    /\ acked \in [Trades -> BOOLEAN]
    /\ work \in [Procs -> Work]
    /\ faults \in 0..MaxFaults
    /\ lost \subseteq Trades

\* However often an order is notified, by whom and beside which other completion,
\* its quota is added, or its subscription created, at most once.
CreditedOnce == \A t \in Trades : credit[t] <= 1

\* An order that is shown as successful has been credited, or is about to be, or
\* a fault of EpayNotify came between its two statements.
SuccessIsCredited ==
    \A t \in Trades : order[t] = "success" /\ t \notin lost =>
        credit[t] = 1 \/ \E p \in Procs : AtWork(p, "credit") /\ trade[p] = t

\* Waffo said once that the order was not paid, or not yet; nothing completes it
\* any more, and the notification of the payment is refused each time.
GivenUp(t) == kind[t].via = "waffo" /\ order[t] = "failed"

\* Whoever pays gets what he paid for, as long as the gateway hears of every
\* failure and notifies again, and a Waffo order was not given up before.
PaidIsCredited ==
    \A t \in Trades : gateway[t] = "paid" ~> (credit[t] = 1 \/ t \in lost \/ GivenUp(t))
=============================================================================
