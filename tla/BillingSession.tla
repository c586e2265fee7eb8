--------------------------- MODULE BillingSession ---------------------------
(***************************************************************************)
(* The billing of relay requests: Relay and RelayTask hold an estimate     *)
(* before they call the provider (PreConsumeBilling), and afterwards       *)
(* settle the difference or give the estimate back.  All requests belong   *)
(* to one user with one API token, one wallet and several subscriptions.   *)
(*                                                                         *)
(* Wallet and token are moved by single UPDATE ... SET quota = quota + n   *)
(* statements.  A subscription row is read, changed in memory and saved as *)
(* a whole by every transaction that touches its counter; RowLocks says    *)
(* whether the database makes such transactions wait for each other.       *)
(***************************************************************************)
EXTENDS Integers, Sequences, FiniteSetsExt

CONSTANTS
    Requests,    \* requests of the user
    Preference,  \* billing preference in force for each request
    Playground,  \* requests that use no API token quota
    Realtime,    \* websocket requests priced by usage (not by a fixed price)
    Forced,      \* requests with ForcePreConsume
    Estimates,   \* what a request may be estimated at
    Prices,      \* what a request, or one realtime event, may cost
    Fee,         \* violation fee in quota, 0 when disabled
    TrustQuota,  \* above this a balance is trusted, 0: never
    Unlimited,   \* the token has no limit
    WalletStart, TokenStart,
    Subs,        \* ids of the subscriptions, in the order of their end time
    SubTotal,    \* quota of each subscription, 0: no limit
    Resettable,  \* subscriptions whose plan resets the counter
    RowLocks,    \* transactions on subscription rows wait for each other
    MaxResets,   \* bound: reset times that pass
    MaxEvents,   \* bound: billed events per realtime request
    MaxFaults    \* bound: database errors and crashes

Preferences == {"subscription_only", "wallet_only", "wallet_first", "subscription_first"}

ASSUME RequestAssumption ==
    /\ Preference \in [Requests -> Preferences]
    /\ Playground \subseteq Requests
    /\ Realtime \subseteq Requests
    /\ Forced \subseteq Requests
ASSUME FiniteAssumption == IsFiniteSet(Requests)
ASSUME QuotaAssumption ==
    /\ Estimates \subseteq Nat /\ Prices \subseteq Nat /\ Fee \in Nat
    /\ TrustQuota \in Nat /\ WalletStart \in Nat /\ TokenStart \in Nat
    /\ Unlimited \in BOOLEAN
ASSUME SubAssumption ==
    /\ Subs \subseteq Nat
    /\ SubTotal \in [Subs -> Nat]
    /\ Resettable \subseteq Subs
    /\ RowLocks \in BOOLEAN
ASSUME BoundAssumption == MaxResets \in Nat /\ MaxEvents \in Nat /\ MaxFaults \in Nat

VARIABLES
    pc,      \* where the handler of a request is
    todo,    \* funding sources it may still try
    ses,     \* its BillingSession
    price,   \* what it owes by now
    bill,    \* history: what its session has booked of that
    owe,     \* amount of the PostConsumeQuota it is in the middle of
    events,  \* realtime events so far, and calls of preConsumeUsage after the last
    back,    \* where the goroutine of Refund is
    tries,   \* attempts of refundWithRetry
    wallet,  \* users.quota
    token,   \* tokens.remain_quota
    sub,     \* user_subscriptions
    record,  \* subscription_pre_consume_records
    tx,      \* the open transaction of each process, with the rows it has read
    clock,   \* how many reset times have passed
    faults,  \* database errors and crashes so far
    paid,    \* history: net amounts moved for a request, and the period of its hold
    tainted, \* history: requests that met a fault
    stale    \* history: returned in this period by requests of earlier ones

handler == <<pc, todo, ses, price, bill, owe, events>>
refund  == <<back, tries>>
books   == <<wallet, token, sub, record>>
history == <<paid, tainted, stale>>
vars == <<handler, refund, books, tx, clock, faults, history>>

-----------------------------------------------------------------------------
(* Data *)

Main(r) == <<r, "main">>
Back(r) == <<r, "back">>
Keeper  == <<"keeper", "main">>
Process == (Requests \X {"main", "back"}) \union {Keeper}

\* next is the number of the reset that comes next (next_reset_time).
SubRow == [used : Nat, next : Nat, status : {"active", "ended", "deleted"}]
NoTx   == [open |-> FALSE]
Tx     == [open : {TRUE}, now : Nat, rows : [Subs -> SubRow]]

NoSub == 0 - 1

\* hold is preConsumedQuota, tokenConsumed and the amount of the funding source,
\* which a successful preConsume leaves equal; trusted is the token's half of
\* shouldTrust, decided on the quota the token had when the request came in.
Session == [est : Nat, trusted : BOOLEAN, source : {"none", "wallet", "subscription"},
            hold : Nat, sub : Subs \union {NoSub}]
NoSession == [est |-> 0, trusted |-> FALSE, source |-> "none", hold |-> 0, sub |-> NoSub]

NoRecord == [status |-> "none"]
Record   == [status : {"consumed", "refunded"}, sub : Subs, amount : Nat]

Positive(n) == IF n > 0 THEN n ELSE 0

UsesToken(r) == r \notin Playground

NoEvents == [seen |-> 0, last |-> 0]
Events   == [seen : 0..MaxEvents, last : 0..2]

Init ==
    /\ pc = [r \in Requests |-> "new"]
    /\ todo = [r \in Requests |-> <<>>]
    /\ ses = [r \in Requests |-> NoSession]
    /\ price = [r \in Requests |-> 0]
    /\ bill = [r \in Requests |-> 0]
    /\ owe = [r \in Requests |-> 0]
    /\ events = [r \in Requests |-> NoEvents]
    /\ back = [r \in Requests |-> "idle"]
    /\ tries = [r \in Requests |-> 0]
    /\ wallet = WalletStart
    /\ token = TokenStart
    /\ sub = [s \in Subs |-> [used |-> 0, next |-> 1, status |-> "active"]]
    /\ record = [r \in Requests |-> NoRecord]
    /\ tx = [p \in Process |-> NoTx]
    /\ clock = 0
    /\ faults = 0
    /\ paid = [r \in Requests |-> [fund |-> 0, tok |-> 0, born |-> 0]]
    /\ tainted = {}
    /\ stale = [s \in Subs |-> 0]

-----------------------------------------------------------------------------
(* What every step does with a request, its money and a transaction *)

Goto(r, label)    == pc' = [pc EXCEPT ![r] = label]
BackGoto(r, label) == back' = [back EXCEPT ![r] = label]

\* d > 0 takes money for r, d < 0 gives it back.
FromWallet(r, d) == /\ wallet' = wallet - d
                    /\ paid' = [paid EXCEPT ![r].fund = @ + d]
FromToken(r, d)  == IF UsesToken(r)
                    THEN /\ token' = token - d
                         /\ paid' = [paid EXCEPT ![r].tok = @ + d]
                    ELSE UNCHANGED <<token, paid>>

Fault(r) == /\ faults < MaxFaults /\ faults' = faults + 1
            /\ tainted' = tainted \union {r}
NoFault  == UNCHANGED <<faults, tainted>>

\* SELECT ... FOR UPDATE waits for the transaction that holds the rows.
MayLock == RowLocks => \A p \in Process : ~tx[p].open

Open(p)  == /\ ~tx[p].open /\ MayLock
            /\ tx' = [tx EXCEPT ![p] = [open |-> TRUE, now |-> clock, rows |-> sub]]
Close(p) == tx' = [tx EXCEPT ![p] = NoTx]

\* maybeResetUserSubscriptionWithPlanTx
Due(s, row, now)   == s \in Resettable /\ row.next <= now
FreshOnlyUsed(s, row, now) == IF Due(s, row, now) THEN [row EXCEPT !.used = 0] ELSE row
Fresh(s, row, now) == IF Due(s, row, now) THEN [row EXCEPT !.used = 0, !.next = now + 1]
                                          ELSE row

\* PostConsumeUserSubscriptionDelta on the row the transaction has read.
NewUsedUnclamped(p, s, d) == tx[p].rows[s].used + d
NewUsed(p, s, d) == Positive(tx[p].rows[s].used + d)
Accepts(p, s, d) == /\ tx[p].rows[s].status # "deleted"
                    /\ SubTotal[s] > 0 => NewUsed(p, s, d) <= SubTotal[s]

FromSub(p, r, d) ==
    LET s == ses[r].sub
    IN  /\ sub' = [sub EXCEPT ![s] = [tx[p].rows[s] EXCEPT !.used = NewUsed(p, s, d)]]
        /\ paid' = [paid EXCEPT ![r].fund = @ + d]
        /\ stale' = [stale EXCEPT ![s] = IF d < 0 /\ paid[r].born # sub[s].next
                                         THEN @ - d ELSE @]

-----------------------------------------------------------------------------
(* NewBillingSession and preConsume *)

Sources(preference, subscribed) ==
    CASE preference = "subscription_only" -> <<"subscription">>
      [] preference = "wallet_only"       -> <<"wallet">>
      [] preference = "wallet_first"      -> <<"wallet", "subscription">>
      [] OTHER -> IF subscribed THEN <<"subscription", "wallet">> ELSE <<"wallet">>

Begin(r, e) ==
    /\ pc[r] = "new"
    /\ Goto(r, "try")
    /\ todo' = [todo EXCEPT ![r] =
          Sources(Preference[r], \E s \in Subs : sub[s].status = "active")]
    /\ ses' = [ses EXCEPT ![r] = [NoSession EXCEPT !.est = e,
          !.trusted = /\ r \notin Forced
                      /\ TrustQuota > 0
                      /\ Unlimited \/ token > TrustQuota]]
    /\ UNCHANGED <<price, bill, owe, events, refund, books, tx, clock, faults, history>>

\* An InsufficientUserQuota error: the next source, if the preference has one.
NextSource(r) == /\ todo' = [todo EXCEPT ![r] = Tail(@)]
                 /\ Goto(r, IF Len(todo[r]) = 1 THEN "end" ELSE "try")
\* Any other error ends the request.
GiveUp(r) == Goto(r, "end") /\ UNCHANGED todo

Choose(r, source, hold) ==
    /\ ses' = [ses EXCEPT ![r] = [@ EXCEPT !.source = source, !.hold = hold]]
    /\ Goto(r, IF hold = 0 THEN "fund" ELSE IF UsesToken(r) THEN "check" ELSE "fund")
    /\ UNCHANGED todo

\* tryWallet up to preConsume; a trusted user holds nothing.
TryWallet(r) ==
    /\ pc[r] = "try" /\ Head(todo[r]) = "wallet"
    /\ \/ /\ wallet <= 0 \/ wallet < ses[r].est
          /\ NextSource(r) /\ NoFault
          /\ UNCHANGED ses
       \/ /\ wallet > 0 /\ wallet >= ses[r].est
          /\ Choose(r, "wallet", IF ses[r].trusted /\ wallet > TrustQuota
                                 THEN 0 ELSE ses[r].est)
          /\ NoFault
       \/ GiveUp(r) /\ Fault(r) /\ UNCHANGED ses
    /\ UNCHANGED <<price, bill, owe, events, refund, books, tx, clock, paid, stale>>

\* trySubscription; a subscription always holds at least 1.
TrySubscription(r) ==
    /\ pc[r] = "try" /\ Head(todo[r]) = "subscription"
    /\ Choose(r, "subscription", IF ses[r].est > 0 THEN ses[r].est ELSE 1)
    /\ UNCHANGED <<price, bill, owe, events, refund, books, tx, clock, faults, history>>

\* PreConsumeTokenQuota: the token is read ...
CheckToken(r) ==
    /\ pc[r] = "check"
    /\ \/ /\ IF Unlimited \/ token >= ses[r].hold
             THEN Goto(r, "take") /\ UNCHANGED todo
             ELSE GiveUp(r)
          /\ NoFault
       \/ GiveUp(r) /\ Fault(r)
    /\ UNCHANGED <<ses, price, bill, owe, events, refund, books, tx, clock, paid, stale>>

\* ... and decreased in a second statement that looks at nothing.
TakeToken(r) ==
    /\ pc[r] = "take"
    /\ \/ Goto(r, "fund") /\ FromToken(r, ses[r].hold) /\ NoFault
       \/ GiveUp(r) /\ Fault(r) /\ UNCHANGED <<token, paid>>
    /\ UNCHANGED <<todo, ses, price, bill, owe, events, refund, wallet, sub, record, tx, clock, stale>>

\* funding.PreConsume of the wallet.
HoldWallet(r) ==
    /\ pc[r] = "fund" /\ ses[r].source = "wallet"
    /\ \/ FromWallet(r, ses[r].hold) /\ Goto(r, "running") /\ NoFault
       \/ /\ ses[r].hold > 0 /\ Fault(r)
          /\ Goto(r, "undoLast") /\ UNCHANGED <<wallet, paid>>
    /\ UNCHANGED <<todo, ses, price, bill, owe, events, refund, token, sub, record, tx, clock, stale>>

\* PreConsumeUserSubscription: the rows are read ...
BeginHold(r) ==
    /\ pc[r] = "fund" /\ ses[r].source = "subscription"
    /\ Open(Main(r))
    /\ UNCHANGED <<handler, refund, books, clock, faults, history>>

\* ... and the first active subscription that has enough left is charged.  The
\* request id is new, so neither of the two look-ups of a record finds one.
CommitHold(r) ==
    LET p == Main(r)
        rows == tx[p].rows
        new(s) == Fresh(s, rows[s], tx[p].now)
        active == {s \in Subs : rows[s].status = "active"}
        enough == {s \in active : \/ SubTotal[s] = 0
                                  \/ SubTotal[s] - new(s).used >= ses[r].hold}
        s == Min(enough)
        reset == {u \in active : u <= s /\ Due(u, rows[u], tx[p].now)}
    IN  /\ pc[r] = "fund" /\ ses[r].source = "subscription"
        /\ tx[p].open /\ Close(p)
        /\ \/ /\ enough # {}
              /\ sub' = [u \in Subs |->
                            IF u = s THEN [new(u) EXCEPT !.used = @ + ses[r].hold]
                            ELSE IF u \in reset THEN new(u) ELSE sub[u]]
              /\ record' = [record EXCEPT ![r] =
                               [status |-> "consumed", sub |-> s, amount |-> ses[r].hold]]
              /\ ses' = [ses EXCEPT ![r].sub = s]
              /\ paid' = [paid EXCEPT ![r] = [fund |-> paid[r].fund + ses[r].hold,
                                              tok |-> paid[r].tok, born |-> new(s).next]]
              /\ stale' = [u \in Subs |-> IF u \in reset THEN 0 ELSE stale[u]]
              /\ Goto(r, "running")
              /\ NoFault
           \/ /\ enough = {}
              /\ Goto(r, "undo") /\ NoFault
              /\ UNCHANGED <<sub, record, ses, paid, stale>>
           \/ /\ Fault(r)
              /\ Goto(r, "undoLast")
              /\ UNCHANGED <<sub, record, ses, paid, stale>>
        /\ UNCHANGED <<todo, price, bill, owe, events, refund, wallet, token, clock>>

UndoNothing(r) ==
    /\ pc[r] \in {"undo", "undoLast"}
    /\ IF pc[r] = "undo" THEN NextSource(r) ELSE GiveUp(r)
    /\ UNCHANGED <<ses, price, bill, owe, events, refund, books, tx, clock, faults, history>>

\* The roll-back of the token; only a lack of quota lets the request go on to
\* the next source.
Undo(r) ==
    /\ pc[r] \in {"undo", "undoLast"}
    /\ IF pc[r] = "undo" THEN NextSource(r) ELSE GiveUp(r)
    /\ \/ FromToken(r, -ses[r].hold) /\ NoFault
       \/ ses[r].hold > 0 /\ UsesToken(r) /\ Fault(r) /\ UNCHANGED <<token, paid>>
    /\ UNCHANGED <<ses, price, bill, owe, events, refund, wallet, sub, record, tx, clock, stale>>

-----------------------------------------------------------------------------
(* The provider answers: Relay after PreConsumeBilling *)

\* The handler returns nil: PostTextConsumeQuota settles the actual price.
Serve(r, q) ==
    /\ pc[r] = "running" /\ r \notin Realtime
    /\ price' = [price EXCEPT ![r] = q]
    /\ bill' = [bill EXCEPT ![r] = q]
    /\ Goto(r, "settle")
    /\ UNCHANGED <<todo, ses, owe, events, refund, books, tx, clock, faults, history>>

\* PreWssConsumeQuota: the usage is charged if the balances it reads cover it.
Covered(q) == wallet >= q /\ (Unlimited \/ token >= q)
Charge(r, q) == Goto(r, "charge") /\ owe' = [owe EXCEPT ![r] = q]

\* One response.done of a websocket: its usage is charged; an error ends the
\* conversation.
Event(r, q) ==
    /\ pc[r] = "running" /\ r \in Realtime
    /\ events[r].seen < MaxEvents /\ q > 0
    /\ events' = [events EXCEPT ![r].seen = @ + 1]
    /\ IF Covered(q) THEN Charge(r, q) ELSE Goto(r, "last") /\ UNCHANGED owe
    /\ UNCHANGED <<todo, ses, price, bill, refund, books, tx, clock, faults, history>>

\* Either side closes the websocket.
HangUp(r) ==
    /\ pc[r] = "running" /\ r \in Realtime
    /\ Goto(r, "last")
    /\ UNCHANGED <<todo, ses, price, bill, owe, events, refund, books, tx, clock, faults, history>>

\* What usage and localUsage still hold after the loop is charged too, and an error
\* is ignored.  Usage that was refused, or whose charge failed, is held still.
LastUsage(r, q) ==
    /\ pc[r] = "last" /\ events[r].last < 2 /\ q > 0
    /\ events' = [events EXCEPT ![r].last = @ + 1]
    /\ IF Covered(q) THEN Charge(r, q) ELSE UNCHANGED <<pc, owe>>
    /\ UNCHANGED <<todo, ses, price, bill, refund, books, tx, clock, faults, history>>

\* PostWssConsumeQuota writes the log of the conversation and settles nothing.
Conclude(r) ==
    /\ pc[r] = "last"
    /\ Goto(r, "end")
    /\ UNCHANGED <<todo, ses, price, bill, owe, events, refund, books, tx, clock, faults, history>>

\* needsRefundLocked: the token or the subscription holds something.
NeedsRefundOfWallet(r) == ses[r].source = "wallet" /\ ses[r].hold > 0
NeedsRefund(r) == ses[r].hold > 0

\* Every attempt failed: the deferred function starts the goroutine of Refund
\* and goes on to ChargeViolationFeeIfNeeded.
Fail(r, violation) ==
    /\ pc[r] = "running" /\ events[r].seen = 0
    /\ BackGoto(r, IF NeedsRefund(r) THEN "fund" ELSE "done")
    /\ IF violation /\ Fee > 0
       THEN Charge(r, Fee)
       ELSE Goto(r, "end") /\ UNCHANGED owe
    /\ UNCHANGED <<todo, ses, price, bill, events, tries, books, tx, clock, faults, history>>

-----------------------------------------------------------------------------
(* Settle and PostConsumeQuota: the funding source, then the token *)

DifferenceToEstimate(r) == price[r] - ses[r].est
Difference(r) == price[r] - ses[r].hold
Amount(r)     == IF pc[r] = "settle" \/ pc[r] = "settleToken" THEN Difference(r) ELSE owe[r]

\* delta = 0: settled without touching anything.
SettleNothing(r) ==
    /\ pc[r] = "settle" /\ Difference(r) = 0
    /\ Goto(r, "end")
    /\ UNCHANGED <<todo, ses, price, bill, owe, events, refund, books, tx, clock, faults, history>>

MustPay(r) == pc[r] = "charge" \/ (pc[r] = "settle" /\ Difference(r) # 0)

Charging(r) == pc[r] \in {"charge", "chargeToken"}
Owing(r)    == IF Charging(r) THEN [price EXCEPT ![r] = @ + owe[r]] ELSE price

\* Where a request goes on: only a charge of a websocket is followed by others, after
\* an error by those that come after the loop.
AfterCharge(r) == IF Charging(r) /\ back[r] = "idle"
            THEN IF events[r].last = 0 THEN "running" ELSE "last"
            ELSE "end"
AfterError(r) == IF Charging(r) /\ back[r] = "idle" THEN "last" ELSE "end"

\* The funding source has moved: what remains is the token.
Funded(r) == /\ Goto(r, IF pc[r] = "settle" THEN "settleToken" ELSE "chargeToken")
             /\ price' = Owing(r)
             /\ bill' = IF pc[r] = "settle" THEN bill ELSE [bill EXCEPT ![r] = @ + owe[r]]
\* It has not: the error is logged, and all that is booked is the hold.
Refused(r) == /\ Goto(r, AfterError(r))
              /\ price' = Owing(r)
              /\ bill' = IF pc[r] = "settle" THEN [bill EXCEPT ![r] = ses[r].hold] ELSE bill

PayWallet(r) ==
    /\ MustPay(r) /\ ses[r].source = "wallet"
    /\ \/ FromWallet(r, Amount(r)) /\ Funded(r) /\ NoFault
       \/ Fault(r) /\ Refused(r) /\ UNCHANGED <<wallet, paid>>
    /\ UNCHANGED <<todo, ses, owe, events, refund, token, sub, record, tx, clock, stale>>

BeginPay(r) ==
    /\ MustPay(r) /\ ses[r].source = "subscription"
    /\ Open(Main(r))
    /\ UNCHANGED <<handler, refund, books, clock, faults, history>>

CommitPay(r) ==
    LET p == Main(r)
    IN  /\ MustPay(r) /\ ses[r].source = "subscription"
        /\ tx[p].open /\ Close(p)
        /\ \/ /\ Accepts(p, ses[r].sub, Amount(r))
              /\ FromSub(p, r, Amount(r)) /\ Funded(r) /\ NoFault
           \/ /\ \/ ~Accepts(p, ses[r].sub, Amount(r)) /\ NoFault
                 \/ Fault(r)
              /\ Refused(r)
              /\ UNCHANGED <<sub, paid, stale>>
        /\ UNCHANGED <<todo, ses, owe, events, refund, wallet, token, record, clock>>

\* The token follows; an error matters to a websocket only.
PayToken(r) ==
    /\ pc[r] \in {"settleToken", "chargeToken"}
    /\ \/ FromToken(r, Amount(r)) /\ NoFault /\ Goto(r, AfterCharge(r))
       \/ UsesToken(r) /\ Fault(r) /\ Goto(r, AfterError(r)) /\ UNCHANGED <<token, paid>>
    /\ UNCHANGED <<todo, ses, price, bill, owe, events, refund, wallet, sub, record, tx, clock,
                   stale>>

-----------------------------------------------------------------------------
(* The goroutine of Refund *)

\* IncreaseUserQuota is not retried.
RefundWallet(r) ==
    /\ back[r] = "fund" /\ ses[r].source = "wallet"
    /\ BackGoto(r, "token")
    /\ \/ FromWallet(r, -ses[r].hold) /\ NoFault
       \/ Fault(r) /\ UNCHANGED <<wallet, paid>>
    /\ UNCHANGED <<handler, tries, token, sub, record, tx, clock, stale>>

\* RefundSubscriptionPreConsume: its transaction reads the record ...
BeginRefund(r) ==
    /\ back[r] = "fund" /\ ses[r].source = "subscription"
    /\ IF record[r].status = "refunded"
       THEN BackGoto(r, "token") /\ UNCHANGED <<tx>>
       ELSE Open(Back(r)) /\ BackGoto(r, "give")
    /\ UNCHANGED <<handler, tries, books, clock, faults, history>>

\* An attempt failed; refundWithRetry makes three.
RetryForever(r) == BackGoto(r, "fund") /\ UNCHANGED tries
Retry(r) == /\ tries' = [tries EXCEPT ![r] = @ + 1]
            /\ BackGoto(r, IF tries[r] < 2 THEN "fund" ELSE "token")

\* ... PostConsumeUserSubscriptionDelta commits a transaction of its own ...
CommitRefund(r) ==
    LET p == Back(r)
    IN  /\ back[r] = "give" /\ Close(p)
        /\ \/ /\ Accepts(p, ses[r].sub, -record[r].amount)
              /\ FromSub(p, r, -record[r].amount)
              /\ BackGoto(r, "mark") /\ NoFault /\ UNCHANGED tries
           \/ /\ \/ ~Accepts(p, ses[r].sub, -record[r].amount) /\ NoFault
                 \/ Fault(r)
              /\ Retry(r)
              /\ UNCHANGED <<sub, paid, stale>>
        /\ UNCHANGED <<handler, wallet, token, record, clock>>

\* ... and only then the record is marked and the outer one commits.
MarkRefunded(r) ==
    /\ back[r] = "mark"
    /\ \/ /\ record' = [record EXCEPT ![r].status = "refunded"]
          /\ BackGoto(r, "token") /\ NoFault /\ UNCHANGED tries
       \/ Fault(r) /\ Retry(r) /\ UNCHANGED record
    /\ UNCHANGED <<handler, wallet, token, sub, tx, clock, paid, stale>>

RefundToken(r) ==
    /\ back[r] = "token"
    /\ BackGoto(r, "done")
    /\ \/ FromToken(r, -ses[r].hold) /\ NoFault
       \/ UsesToken(r) /\ Fault(r) /\ UNCHANGED <<token, paid>>
    /\ UNCHANGED <<handler, tries, wallet, sub, record, tx, clock, stale>>

-----------------------------------------------------------------------------
(* Everything else that happens to subscriptions and requests *)

\* The process that serves r dies, or its handler panics; open transactions are
\* rolled back.
Crash(r) ==
    /\ pc[r] \notin {"new", "end"} \/ back[r] \notin {"idle", "done"}
    /\ Fault(r)
    /\ Goto(r, "end")
    /\ BackGoto(r, "done")
    /\ tx' = [tx EXCEPT ![Main(r)] = NoTx, ![Back(r)] = NoTx]
    /\ UNCHANGED <<todo, ses, price, bill, owe, events, tries, books, clock, paid, stale>>

\* A reset time passes.
Tick ==
    /\ clock < MaxResets /\ clock' = clock + 1
    /\ UNCHANGED <<handler, refund, books, tx, faults, history>>

\* ResetDueSubscriptions, one row: read under the lock ...
BeginReset ==
    /\ \E s \in Subs : sub[s].status = "active" /\ Due(s, sub[s], clock)
    /\ Open(Keeper)
    /\ UNCHANGED <<handler, refund, books, clock, faults, history>>

\* ... and saved.
CommitReset(s) ==
    LET row == tx[Keeper].rows[s]
    IN  /\ tx[Keeper].open
        /\ row.status = "active" /\ Due(s, row, tx[Keeper].now)
        /\ Close(Keeper)
        /\ sub' = [sub EXCEPT ![s] = Fresh(s, row, tx[Keeper].now)]
        /\ stale' = [stale EXCEPT ![s] = 0]
        /\ UNCHANGED <<handler, refund, wallet, token, record, clock, faults, paid, tainted>>

EndSubscriptionAtOnce(s, status) ==
    /\ sub[s].status # "deleted" /\ status # sub[s].status
    /\ status \in {"ended", "deleted"}
    /\ sub' = [sub EXCEPT ![s].status = status]
    /\ UNCHANGED <<handler, refund, wallet, token, record, tx, clock, faults, history>>

\* It expires or an administrator invalidates it (columns status and end_time
\* only), or deletes it.
EndSubscription(s, status) ==
    /\ sub[s].status # "deleted" /\ status # sub[s].status
    /\ status \in {"ended", "deleted"}
    /\ MayLock
    /\ sub' = [sub EXCEPT ![s].status = status]
    /\ UNCHANGED <<handler, refund, wallet, token, record, tx, clock, faults, history>>

HandlerStep(r) ==
    \/ TryWallet(r) \/ TrySubscription(r) \/ CheckToken(r) \/ TakeToken(r)
    \/ HoldWallet(r) \/ BeginHold(r) \/ CommitHold(r) \/ Undo(r)
    \/ SettleNothing(r) \/ PayWallet(r) \/ BeginPay(r) \/ CommitPay(r) \/ PayToken(r)
    \/ (\E q \in Prices : LastUsage(r, q)) \/ Conclude(r)

Outcome(r) ==
    \/ \E q \in Prices : Serve(r, q) \/ Event(r, q)
    \/ HangUp(r)
    \/ \E violation \in BOOLEAN : Fail(r, violation)

RefundStep(r) ==
    \/ RefundWallet(r) \/ BeginRefund(r) \/ CommitRefund(r) \/ MarkRefunded(r) \/ RefundToken(r)

\* No request is left to do anything for.
Rest == /\ \A r \in Requests : pc[r] = "end" /\ back[r] \in {"idle", "done"}
        /\ UNCHANGED vars

Next ==
    \/ \E r \in Requests : \/ \E e \in Estimates : Begin(r, e)
                           \/ HandlerStep(r) \/ Outcome(r) \/ RefundStep(r)
                           \/ Crash(r)
    \/ Tick
    \/ BeginReset
    \/ \E s \in Subs : \/ CommitReset(s)
                       \/ \E status \in {"ended", "deleted"} : EndSubscription(s, status)
    \/ Rest

Spec == Init /\ [][Next]_vars

\* Handlers and refund goroutines run to their end, and transactions finish.
\* Nothing is asked of users, providers or administrators.
Fairness ==
    /\ \A r \in Requests : WF_vars(HandlerStep(r)) /\ WF_vars(RefundStep(r))
    /\ WF_vars(\E s \in Subs : CommitReset(s))

FairSpec == Spec /\ Fairness
-----------------------------------------------------------------------------
(* Properties *)

\* Every variable holds what its Go or database type allows.
TypeOK ==
    /\ pc \in [Requests -> {"new", "try", "check", "take", "fund", "undo", "undoLast",
                            "running", "settle", "settleToken", "charge",
                            "chargeToken", "last", "end"}]
    /\ todo \in [Requests -> Seq({"wallet", "subscription"})]
    /\ ses \in [Requests -> Session]
    /\ price \in [Requests -> Nat]
    /\ bill \in [Requests -> Nat]
    /\ owe \in [Requests -> Nat]
    /\ events \in [Requests -> Events]
    /\ back \in [Requests -> {"idle", "fund", "give", "mark", "token", "done"}]
    /\ tries \in [Requests -> 0..3]
    /\ wallet \in Int
    /\ token \in Int
    /\ sub \in [Subs -> SubRow]
    /\ record \in [Requests -> Record \union {NoRecord}]
    /\ tx \in [Process -> Tx \union {NoTx}]
    /\ clock \in 0..MaxResets
    /\ faults \in 0..MaxFaults
    /\ paid \in [Requests -> [fund : Int, tok : Int, born : Nat]]
    /\ tainted \subseteq Requests
    /\ stale \in [Subs -> Nat]

Ended(r) == pc[r] = "end" /\ back[r] \in {"idle", "done"}

\* A hold can be given back unless its subscription has been deleted.
Returnable(r) == /\ r \notin tainted
                 /\ ses[r].sub \in Subs => sub[ses[r].sub].status # "deleted"

\* A subscription refused a settlement, or a fee, that would have taken it over its
\* total: the hold is all that a request which was answered has paid, and one that
\* failed has paid nothing.
Undercharged(r) == /\ ses[r].source = "subscription" /\ SubTotal[ses[r].sub] > 0
                   /\ paid[r].fund = IF back[r] = "idle" THEN ses[r].hold ELSE 0
                   /\ paid[r].fund < price[r]

\* Whatever the source, the fall-backs and the other requests: once a request
\* has ended, wallet or subscription and token have both paid its price, which
\* is nothing if it was rejected or failed, and the fee if it was a violation.
\* Only a subscription that is used up is charged less, and never a wallet.
PaysItsPrice ==
    \A r \in Requests \ Realtime :
        Ended(r) /\ Returnable(r) =>
            /\ paid[r].fund = price[r] \/ Undercharged(r)
            /\ paid[r].tok = IF UsesToken(r) THEN paid[r].fund ELSE 0

\* Wallet or subscription and token move together, for websockets and events too.
AccountsAgree ==
    \A r \in Requests : Ended(r) /\ Returnable(r) /\ UsesToken(r)
                           => paid[r].fund = paid[r].tok

\* Whatever fails, a request never gets more out of the wallet or the token
\* than was taken for it.
NeverOverRefunded ==
    \A r \in Requests : /\ paid[r].tok >= 0
                        /\ ses[r].source # "subscription" => paid[r].fund >= 0

\* Both: neither account is moved without the other or beyond what was taken.
AccountsKept == AccountsAgree /\ NeverOverRefunded

\* What requests of the current period have taken from s.
SpentBy(s) == [r \in Requests |->
                  IF ses[r].sub = s /\ paid[r].born = sub[s].next
                  THEN Positive(paid[r].fund) ELSE 0]
Spent(s) == SumFunction(SpentBy(s))

\* Holds, settlements, refunds and resets in any order: the counter of a
\* subscription never forgets what its period has consumed, except for what
\* requests of an earlier period gave back.
UsedCoversSpent == \A s \in Subs : sub[s].used + stale[s] >= Spent(s)

\* A plan's quota is therefore a limit for each of its periods.
PeriodWithinTotal == \A s \in Subs : SubTotal[s] > 0 => Spent(s) <= SubTotal[s] + stale[s]

\* Both, for every subscription and period.
PeriodKept == UsedCoversSpent /\ PeriodWithinTotal

\* No transaction brings a subscription back that has expired or was cancelled.
EndedStays == [][\A s \in Subs : sub[s].status # "active" => sub'[s].status # "active"]_vars

\* An answered or failed request is settled or refunded in the end: nobody
\* waits for a lock for ever.
BooksClose == \A r \in Requests :
    pc[r] \in {"settle", "charge"} \/ back[r] = "fund" ~> Ended(r)

\* The comment of RefundSubscriptionPreConsume (model/subscription.go:1059): the
\* refund is idempotent, so it returns what was held and not more.
RefundIsIdempotent == \A r \in Requests : ses[r].source = "subscription" => paid[r].fund >= 0
-----------------------------------------------------------------------------
(* What the configurations bind to the constants. *)

Firsts   == [r \in Requests |-> IF r \in Realtime THEN "subscription_first" ELSE "wallet_first"]
SubFirst == [r \in Requests |-> "subscription_first"]
SubOnly  == [r \in Requests |-> "subscription_only"]
Four     == [s \in Subs |-> 4]
Small    == [s \in Subs |-> IF s = 1 THEN 2 ELSE 4]
=============================================================================
