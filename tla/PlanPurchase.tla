------------------------------ MODULE PlanPurchase ------------------------------
(***************************************************************************)
(* Subscriptions on the top-up page (topup/SubscriptionPlansCard.jsx):     *)
(* plans are offered as long as an account may buy them, one is ordered in *)
(* a dialog, and the account chooses what its requests are charged to.     *)
(* The choice is shown before the server has it.                           *)
(***************************************************************************)
EXTENDS Integers, FiniteSets

CONSTANT
    MaxTries  \* bound: requests the user starts

VARIABLES
    plans,  \* subscriptionPlans: "loading", "none" or "listed"
    tab,    \* activeTab, "first" before it was chosen
    preference, \* billingPreference
    subs,   \* the subscriptions shown: [bought, active]
    server, \* the account's: [preference, bought, active, ordered]
    selected, \* selectedPlan, 0 for none: the dialog is open
    method, \* selectedEpayMethod
    busy,   \* paying, refreshing
    jobs,   \* requests under way: [kind, plan, pref, before, answer, id]
    view    \* history: calm, one reading or change of the preference at a time,
            \* none lost; held, the dialog was not closed while it paid; clicks

vars == <<plans, tab, preference, subs, server, selected, method, busy, jobs, view>>

Plans == 1..2
PurchaseLimit == [p \in Plans |-> IF p = 1 THEN 1 ELSE 0]  \* max_purchase_per_user, 0 for none
OfSubscription == {"subscription_first", "subscription_only"}
Preferences == OfSubscription \union {"wallet_first"}
EpayMethods == {"alipay", "wxpay"}
NoSubs == [bought |-> [p \in Plans |-> 0], active |-> {}]
Request(kind) == [kind |-> kind, plan |-> 0, pref |-> "none", before |-> "none", answer |-> <<>>, id |-> 0]

Init ==
    /\ plans = "loading" /\ tab = "first" /\ preference = "subscription_first"
    /\ subs = NoSubs /\ selected = 0 /\ method = "none" /\ busy = {}
    /\ \E pref \in Preferences, active \in {{}, {2}} :
        server = [preference |-> pref, bought |-> [p \in Plans |-> IF p \in active THEN 1 ELSE 0],
                  active |-> active, ordered |-> {}]
    /\ jobs = {Request("plans"), Request("self")}
    /\ view = [calm |-> TRUE, held |-> TRUE, clicks |-> 0]

Of(kinds) == {j \in jobs : j.kind \in kinds}
Clicked == view.clicks < MaxTries
OneMore(v) == [v EXCEPT !.clicks = @ + 1]

-----------------------------------------------------------------------------
(* What the card shows. *)

\* Without an active subscription the choice shown is the wallet.
Displayed == IF subs.active = {} /\ preference \in OfSubscription THEN "wallet_first" ELSE preference

\* Each subscription with its state, the active ones counted.
Status(p) == IF subs.bought[p] = 0 THEN "none" ELSE IF p \in subs.active THEN "active" ELSE "over"

Reached(p) == PurchaseLimit[p] > 0 /\ subs.bought[p] >= PurchaseLimit[p]
Offered(p) == tab = "subscription" /\ plans = "listed" /\ selected = 0 /\ ~Reached(p)

\* The dialog's buttons; those of one payment are all loading together.
PayOffered(way) ==
    /\ selected # 0 /\ "paying" \notin busy /\ ~Reached(selected)
    /\ way = "epay" => method # "none"

-----------------------------------------------------------------------------
(* Loading. *)

\* The first answer chooses the tab; an empty page has no other one.
getSubscriptionPlans(j) ==
    /\ j.kind = "plans" /\ plans' \in {"listed", "none"}
    /\ tab' = IF plans' = "listed" THEN "subscription" ELSE "topup"
    /\ jobs' = jobs \ {j}
    /\ UNCHANGED <<preference, subs, server, selected, method, busy, view>>

ChooseTab ==
    /\ plans = "listed" /\ selected = 0
    /\ tab' = IF tab = "topup" THEN "subscription" ELSE "topup"
    /\ UNCHANGED <<plans, preference, subs, server, selected, method, busy, jobs, view>>

handleRefresh ==
    /\ Clicked /\ tab = "subscription" /\ plans = "listed" /\ selected = 0 /\ "refreshing" \notin busy
    /\ busy' = busy \union {"refreshing"} /\ jobs' = jobs \union {Request("self")}
    /\ view' = [OneMore(view) EXCEPT !.calm = @ /\ Of({"self", "prefer"}) = {}]
    /\ UNCHANGED <<plans, tab, preference, subs, server, selected, method>>

\* An answer that fails leaves everything as it is.
getSubscriptionSelf(j) ==
    /\ j.kind = "self" /\ j.answer # <<>> /\ jobs' = jobs \ {j} /\ busy' = busy \ {"refreshing"}
    /\ preference' = j.answer[1].preference
    /\ subs' = [bought |-> j.answer[1].bought, active |-> j.answer[1].active]
    /\ UNCHANGED <<plans, tab, server, selected, method, view>>

SelfLost(j) ==
    /\ j.kind = "self" /\ jobs' = jobs \ {j} /\ busy' = busy \ {"refreshing"}
    /\ view' = [view EXCEPT !.calm = FALSE]
    /\ UNCHANGED <<plans, tab, preference, subs, server, selected, method>>

-----------------------------------------------------------------------------
(* The choice of what is charged first. *)

updateBillingPreference(pref) ==
    /\ Clicked /\ tab = "subscription" /\ plans = "listed" /\ selected = 0 /\ pref # Displayed
    /\ pref \in OfSubscription => subs.active # {}
    /\ preference' = pref
    /\ jobs' = jobs \union {[Request("prefer") EXCEPT !.pref = pref, !.before = preference]}
    /\ view' = [OneMore(view) EXCEPT !.calm = @ /\ Of({"self", "prefer"}) = {}]
    /\ UNCHANGED <<plans, tab, subs, server, selected, method, busy>>

\* The server reads or sets, or refuses to set.
Served(j) ==
    /\ j.kind \in {"self", "prefer"} /\ j.answer = <<>>
    /\ \E done \in {TRUE} \union (IF j.kind = "prefer" THEN {FALSE} ELSE {}) :
        /\ server' = IF j.kind = "prefer" /\ done THEN [server EXCEPT !.preference = j.pref] ELSE server
        /\ jobs' = (jobs \ {j}) \union
                   {[j EXCEPT !.answer = IF j.kind = "self" THEN <<server>> ELSE <<done>>]}
    /\ UNCHANGED <<plans, tab, preference, subs, selected, method, busy, view>>

\* A refusal, and a lost answer, bring back what was shown before the click.
Preferred(j) ==
    /\ j.kind = "prefer" /\ j.answer # <<>> /\ jobs' = jobs \ {j}
    /\ \/ preference' = (IF j.answer[1] THEN j.pref ELSE j.before) /\ UNCHANGED view
       \/ preference' = j.before /\ view' = [view EXCEPT !.calm = FALSE]
    /\ UNCHANGED <<plans, tab, subs, server, selected, method, busy>>

-----------------------------------------------------------------------------
(* Buying. *)

openBuy(p) ==
    /\ Offered(p) /\ selected' = p /\ method' = "alipay"
    /\ UNCHANGED <<plans, tab, preference, subs, server, busy, jobs, view>>

closeBuy ==
    /\ selected # 0 /\ selected' = 0 /\ busy' = busy \ {"paying"}
    /\ view' = [view EXCEPT !.held = @ /\ Of({"pay"}) = {}]
    /\ UNCHANGED <<plans, tab, preference, subs, server, method, jobs>>

ChooseMethod(m) ==
    /\ selected # 0 /\ ~Reached(selected) /\ method' = m /\ method' # method
    /\ UNCHANGED <<plans, tab, preference, subs, server, selected, busy, jobs, view>>

\* payStripe, payCreem, payEpay
Pay(way) ==
    /\ Clicked /\ PayOffered(way)
    /\ busy' = busy \union {"paying"}
    /\ jobs' = jobs \union {[Request("pay") EXCEPT !.plan = selected, !.id = view.clicks]}
    /\ view' = OneMore(view)
    /\ UNCHANGED <<plans, tab, preference, subs, server, selected, method>>

\* The provider's page opens and the dialog closes; or the dialog says why not.
PayAnswered(j) ==
    /\ j.kind = "pay" /\ jobs' = jobs \ {j} /\ busy' = busy \ {"paying"}
    /\ \/ selected' = 0 /\ server' = [server EXCEPT !.ordered = @ \union {j.plan}]
       \/ UNCHANGED <<selected, server>>
    /\ UNCHANGED <<plans, tab, preference, subs, method, view>>

\* Elsewhere: an order is paid, a subscription ends.
Bought(p) ==
    /\ p \in server.ordered
    /\ server' = [server EXCEPT !.ordered = @ \ {p}, !.active = @ \union {p},
                                !.bought = [server.bought EXCEPT ![p] = @ + 1]]
    /\ UNCHANGED <<plans, tab, preference, subs, selected, method, busy, jobs, view>>

Ended(p) ==
    /\ p \in server.active /\ server' = [server EXCEPT !.active = @ \ {p}]
    /\ UNCHANGED <<plans, tab, preference, subs, selected, method, busy, jobs, view>>

Next ==
    \/ ChooseTab \/ handleRefresh \/ closeBuy
    \/ \E pref \in Preferences : updateBillingPreference(pref)
    \/ \E p \in Plans : openBuy(p) \/ Bought(p) \/ Ended(p)
    \/ \E m \in EpayMethods : ChooseMethod(m)
    \/ \E way \in {"stripe", "creem", "epay"} : Pay(way)
    \/ \E j \in jobs : \/ getSubscriptionPlans(j) \/ getSubscriptionSelf(j) \/ SelfLost(j)
                       \/ Served(j) \/ Preferred(j) \/ PayAnswered(j)

Spec == Init /\ [][Next]_vars

-----------------------------------------------------------------------------

TypeOK ==
    /\ plans \in {"loading", "none", "listed"} /\ tab \in {"first", "topup", "subscription"}
    /\ {preference, server.preference} \subseteq Preferences
    /\ \A p \in Plans : Status(p) \in {"none", "active", "over"}
    /\ selected \in 0..2 /\ method \in EpayMethods \union {"none"} /\ busy \subseteq {"paying", "refreshing"}
    /\ \A j \in jobs : j.kind \in {"plans", "self", "prefer", "pay"}

\* What the requests are charged to is what the page has, unless readings and
\* choices overtook each other or got lost (updateBillingPreference shows first).
PreferenceIsTrue == Of({"self", "prefer"}) = {} /\ view.calm => preference = server.preference

\* A plan is paid for in its own dialog, and once (closeBuy frees the buttons).
PaidIsSelected ==
    /\ "paying" \in busy => Of({"pay"}) # {}
    /\ view.held => /\ Cardinality(Of({"pay"})) <= 1
                    /\ \A j \in Of({"pay"}) : "paying" \in busy /\ j.plan = selected
================================================================================
