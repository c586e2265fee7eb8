--------------------------------- MODULE TopUp ---------------------------------
(***************************************************************************)
(* The page where an account is topped up (components/topup): an amount is *)
(* typed or picked, priced by the server for one way of paying, confirmed  *)
(* and ordered; a code is redeemed; the reward for invitations is moved to *)
(* the balance.  Prices are asked for without a number, so that the last   *)
(* answer is the one shown.                                                *)
(***************************************************************************)
EXTENDS Integers, FiniteSets

CONSTANT
    MaxTries  \* bound: requests the user starts

VARIABLES
    topUpCount, \* the amount to buy
    info,       \* getTopupInfo has been answered
    amount,     \* the price shown: [of, by], 0 for none
    payWay,     \* the way of paying last clicked
    product,    \* selectedCreemProduct, 0 for none
    shown,      \* the dialogs that are open
    busy,       \* amountLoading, paymentLoading, confirmLoading, isSubmitting
    code,       \* a redemption code has been typed
    user,       \* userState.user: [quota, aff]
    server,     \* the account itself, likewise
    jobs,       \* requests under way: [kind, of, by, next, user, done, id]
    view        \* history: calm, no price was asked for, and no amount picked,
                \* while another was, and none got lost; held, no dialog was
                \* closed and no payment clicked over a payment; quiet, one
                \* change of the balance at a time, none lost; clicks

vars == <<topUpCount, info, amount, payWay, product, shown, busy, code, user, server, jobs, view>>

Counts == 1..3
MinTopUp == 2     \* data.min_topup
StripeMin == 3    \* data.stripe_min_topup
Presets == {2, 3} \* amount_options
Products == 1..2
PayMethods == {"alipay", "stripe"}
Free == [of |-> 0, by |-> "none"]
Balance == {"self", "redeem", "transfer"}  \* requests that change the balance shown
Request(kind) ==
    [kind |-> kind, of |-> 0, by |-> "none", next |-> "none", done |-> FALSE,
     user |-> IF kind \in Balance THEN user ELSE [quota |-> 0, aff |-> 0],
     id |-> IF kind \in Balance THEN 0 ELSE view.clicks]
Mounted == {Request("self")}

Init ==
    /\ topUpCount = 1 /\ info = FALSE /\ amount = Free /\ payWay = "none" /\ product = 0
    /\ shown = {} /\ busy = {} /\ code = FALSE
    /\ user = [quota |-> 0, aff |-> 2] /\ server = [quota |-> 1, aff |-> 2]
    /\ view = [calm |-> TRUE, held |-> TRUE, quiet |-> TRUE, clicks |-> 0]
    /\ jobs = Mounted

Of(kinds) == {j \in jobs : j.kind \in kinds}
Paying == {"pay", "creem", "waffo"}
Uncovered == shown = {}
Clicked == view.clicks < MaxTries
OneMore(v) == [v EXCEPT !.clicks = @ + 1]

-----------------------------------------------------------------------------
(* What the page shows. *)

\* The dialog that confirms an amount.
Confirming == [of |-> topUpCount, price |-> amount, by |-> payWay]

\* The balance, and the reward that is left and may be moved.
BalanceShown == user.quota
Invitation == [left |-> user.aff, transferable |-> user.aff > 0]

\* The buttons of the ways of paying; a smaller amount than its own disables one.
Usable(way) ==
    /\ info /\ Uncovered
    /\ way = "stripe" => topUpCount >= StripeMin
    /\ ~("payment" \in busy /\ payWay = way)

\* The other cards: presets, Waffo, Creem's products, redemption codes.
PresetOffered(of) == info /\ Uncovered /\ of \in Presets
WaffoOffered == info /\ Uncovered /\ "payment" \notin busy
CreemOffered(p) == info /\ Uncovered /\ p \in Products
CodeAsked == Uncovered /\ "submit" \notin busy
TransferAsked == "transfer" \in shown

-----------------------------------------------------------------------------
(* The amount and its price. *)

\* getAmount, getStripeAmount: what comes after the answer is the caller's.
Ask(of, by, next) ==
    /\ jobs' = jobs \union {[Request("price") EXCEPT !.of = of, !.by = by, !.next = next]}
    /\ view' = [OneMore(view) EXCEPT
                  !.calm = @ /\ Of({"price"}) = {},
                  !.held = @ /\ Of({"price"} \union Paying) = {}]

\* The configuration comes once, and puts the least amount in the form.
getTopupInfo ==
    /\ ~info /\ info' = TRUE /\ topUpCount' = MinTopUp
    /\ busy' = busy \union {"amount"}
    /\ jobs' = jobs \union {[Request("price") EXCEPT !.of = MinTopUp, !.by = "alipay"]}
    /\ UNCHANGED <<amount, payWay, product, shown, code, user, server, view>>

\* Typing asks for the price of the first way, whichever is meant.
Type(of) ==
    /\ Clicked /\ info /\ Uncovered /\ of # topUpCount
    /\ topUpCount' = of /\ busy' = busy \union {"amount"} /\ Ask(of, "alipay", "none")
    /\ UNCHANGED <<info, amount, payWay, product, shown, code, user, server>>

\* A preset is priced here, without the ratio of the account's group.
selectPresetAmount(of) ==
    /\ Clicked /\ PresetOffered(of) /\ of # topUpCount
    /\ topUpCount' = of /\ amount' = [of |-> of, by |-> "preset"]
    /\ view' = [OneMore(view) EXCEPT !.calm = @ /\ Of({"price"}) = {}]
    /\ UNCHANGED <<info, payWay, product, shown, busy, code, user, server, jobs>>

preTopUp(way) ==
    /\ Clicked /\ Usable(way)
    /\ payWay' = way /\ busy' = busy \union {"amount", "payment"}
    /\ Ask(topUpCount, way, "open")
    /\ UNCHANGED <<topUpCount, info, amount, product, shown, code, user, server>>

\* The server refuses an amount below its least; a lost answer changes nothing.
PriceOf(j) ==
    IF j.of < (IF j.by = "stripe" THEN StripeMin ELSE MinTopUp) THEN Free ELSE [of |-> j.of, by |-> j.by]

Order(j) == [j EXCEPT !.kind = "pay", !.next = "none"]

\* What preTopUp and onlineTopUp do with the amount of the click, once priced.
Continued(j) ==
    LET enough == j.of >= MinTopUp
        opens == j.next = "open" /\ enough
        pays == j.next = "pay" /\ enough
    IN  /\ shown' = IF opens THEN shown \union {"confirm"} ELSE shown
        /\ busy' = (busy \ ({"amount"} \union IF j.next = "open" THEN {"payment"} ELSE {}))
                   \union (IF pays THEN {"confirm"} ELSE {})
        /\ jobs' = (jobs \ {j}) \union (IF pays THEN {Order(j)} ELSE {})

PriceAnswered(j) ==
    /\ j.kind = "price" /\ Continued(j)
    /\ \/ amount' = PriceOf(j) /\ UNCHANGED view
       \/ view' = [view EXCEPT !.calm = FALSE] /\ UNCHANGED amount
    /\ UNCHANGED <<topUpCount, info, payWay, product, code, user, server>>

-----------------------------------------------------------------------------
(* Paying. *)

\* A dialog without a price asks for it first, and can be clicked meanwhile.
onlineTopUp ==
    /\ Clicked /\ "confirm" \in shown /\ "confirm" \notin busy
    /\ IF amount = Free
       THEN busy' = busy \union {"amount"} /\ Ask(topUpCount, payWay, "pay")
       ELSE /\ topUpCount >= MinTopUp /\ busy' = busy \union {"confirm"}
            /\ jobs' = jobs \union {[Request("pay") EXCEPT !.of = topUpCount, !.by = payWay]}
            /\ view' = OneMore(view)
    /\ UNCHANGED <<topUpCount, info, amount, payWay, product, shown, code, user, server>>

creemPreTopUp(p) ==
    /\ CreemOffered(p) /\ product' = p /\ shown' = {"creem"}
    /\ UNCHANGED <<topUpCount, info, amount, payWay, busy, code, user, server, jobs, view>>

onlineCreemTopUp ==
    /\ Clicked /\ "creem" \in shown /\ product # 0 /\ "confirm" \notin busy
    /\ busy' = busy \union {"confirm"} /\ jobs' = jobs \union {[Request("creem") EXCEPT !.of = product]}
    /\ view' = [OneMore(view) EXCEPT !.held = @ /\ Of({"price"}) = {}]
    /\ UNCHANGED <<topUpCount, info, amount, payWay, product, shown, code, user, server>>

\* Paid at once, and marked by the flag of the other buttons.
waffoTopUp ==
    /\ Clicked /\ WaffoOffered /\ topUpCount >= MinTopUp
    /\ busy' = busy \union {"payment"} /\ jobs' = jobs \union {[Request("waffo") EXCEPT !.of = topUpCount]}
    /\ view' = [OneMore(view) EXCEPT !.held = @ /\ Of({"price"}) = {}]
    /\ UNCHANGED <<topUpCount, info, amount, payWay, product, shown, code, user, server>>

\* The order is sent, refused or lost: its dialog is closed all the same.
Ordered(j) ==
    /\ j.kind \in Paying /\ jobs' = jobs \ {j}
    /\ shown' = shown \ (IF j.kind = "pay" THEN {"confirm"} ELSE IF j.kind = "creem" THEN {"creem"} ELSE {})
    /\ busy' = busy \ (IF j.kind = "waffo" THEN {"payment"} ELSE {"confirm"})
    /\ UNCHANGED <<topUpCount, info, amount, payWay, product, code, user, server, view>>

\* Cancelling is possible while the order is under way; the flag stays up.
Cancel(dialog) ==
    /\ dialog \in shown /\ shown' = shown \ {dialog}
    /\ product' = IF dialog = "creem" THEN 0 ELSE product
    /\ view' = [view EXCEPT !.held = @ /\ Of({"price"} \union Paying) = {}]
    /\ UNCHANGED <<topUpCount, info, amount, payWay, busy, code, user, server, jobs>>

-----------------------------------------------------------------------------
(* The balance. *)

Changes(kind) ==
    /\ Clicked /\ jobs' = jobs \union {Request(kind)}
    /\ view' = [OneMore(view) EXCEPT !.quiet = @ /\ Of(Balance) = {}]

TypeCode ==
    /\ Uncovered /\ ~code /\ code' = TRUE
    /\ UNCHANGED <<topUpCount, info, amount, payWay, product, shown, busy, user, server, jobs, view>>

topUp ==
    /\ CodeAsked /\ code /\ busy' = busy \union {"submit"} /\ Changes("redeem")
    /\ UNCHANGED <<topUpCount, info, amount, payWay, product, shown, code, user, server>>

OpenTransfer ==
    /\ Uncovered /\ Invitation.transferable /\ shown' = {"transfer"}
    /\ UNCHANGED <<topUpCount, info, amount, payWay, product, busy, code, user, server, jobs, view>>

\* Nothing marks the transfer as under way.
transfer ==
    /\ TransferAsked /\ Changes("transfer")
    /\ UNCHANGED <<topUpCount, info, amount, payWay, product, shown, busy, code, user, server>>

\* The server does it: the answer tells what it did, or what it read.
Served(j) ==
    /\ j.kind \in Balance /\ ~j.done
    /\ LET done == j.kind # "transfer" \/ server.aff > 0
       IN  server' = CASE j.kind = "redeem" -> [server EXCEPT !.quota = @ + 1]
                       [] j.kind = "transfer" /\ done -> [quota |-> server.quota + 1, aff |-> server.aff - 1]
                       [] OTHER -> server
    /\ jobs' = (jobs \ {j}) \union {[j EXCEPT !.done = TRUE, !.user = IF j.kind = "self" THEN server' ELSE @,
                                            !.next = IF server' = server THEN "same" ELSE "changed"]}
    /\ UNCHANGED <<topUpCount, info, amount, payWay, product, shown, busy, code, user, view>>

\* A redeemed code is added to the balance that the click saw; a transfer reloads.
Answered(j) ==
    /\ j.kind \in Balance /\ j.done
    /\ user' = CASE j.kind = "self" -> j.user
                 [] j.kind = "redeem" -> [j.user EXCEPT !.quota = @ + 1]
                 [] OTHER -> user
    /\ code' = (code /\ j.kind # "redeem")
    /\ busy' = IF j.kind = "redeem" THEN busy \ {"submit"} ELSE busy
    /\ shown' = IF j.kind = "transfer" /\ j.next = "changed" THEN shown \ {"transfer"} ELSE shown
    /\ jobs' = (jobs \ {j}) \union (IF j.kind = "transfer" /\ j.next = "changed" THEN {Request("self")} ELSE {})
    /\ UNCHANGED <<topUpCount, info, amount, payWay, product, server, view>>

Lost(j) ==
    /\ j.kind \in Balance /\ jobs' = jobs \ {j}
    /\ busy' = IF j.kind = "redeem" THEN busy \ {"submit"} ELSE busy
    /\ view' = [view EXCEPT !.quiet = FALSE]
    /\ UNCHANGED <<topUpCount, info, amount, payWay, product, shown, code, user, server>>

Next ==
    \/ getTopupInfo \/ onlineTopUp \/ onlineCreemTopUp \/ waffoTopUp
    \/ TypeCode \/ topUp \/ OpenTransfer \/ transfer
    \/ \E of \in Counts : Type(of)
    \/ \E of \in Presets : selectPresetAmount(of)
    \/ \E way \in PayMethods : preTopUp(way)
    \/ \E p \in Products : creemPreTopUp(p)
    \/ \E dialog \in {"confirm", "creem", "transfer"} : Cancel(dialog)
    \/ \E j \in jobs : PriceAnswered(j) \/ Ordered(j) \/ Served(j) \/ Answered(j) \/ Lost(j)

Spec == Init /\ [][Next]_vars

-----------------------------------------------------------------------------

TypeOK ==
    /\ topUpCount \in Counts /\ info \in BOOLEAN /\ code \in BOOLEAN
    /\ amount \in [of : 0..3, by : PayMethods \union {"preset", "none"}]
    /\ payWay \in PayMethods \union {"none"} /\ product \in 0..2
    /\ shown \subseteq {"confirm", "creem", "transfer"}
    /\ busy \subseteq {"amount", "payment", "confirm", "submit"}
    /\ {user, server} \subseteq [quota : Nat, aff : Nat]
    /\ \A j \in jobs : j.kind \in Balance \union Paying \union {"price"}

\* The price that is confirmed is the one of this amount and this way of paying,
\* and the amount is enough (preTopUp awaits the price of the amount it saw).
PriceIsAsked ==
    "confirm" \in shown /\ Of({"price"}) = {} /\ view.calm
        => Confirming.price = [of |-> Confirming.of, by |-> Confirming.by] /\ Confirming.of >= MinTopUp

\* Nobody who leaves a dialog alone while it pays pays twice, or for something
\* else than the dialog says (confirmLoading is shared by two dialogs).
PaidOnce ==
    view.held => /\ Cardinality(Of({"pay", "creem"})) <= 1
                 /\ \A j \in Of({"pay"}) : "confirm" \in shown /\ <<j.of, j.by>> = <<topUpCount, payWay>>
                 /\ \A j \in Of({"creem"}) : "creem" \in shown /\ j.of = product

\* The balance shown is the account's, whichever way it changed (a redeemed code
\* is added here, a transfer reloads).
BalanceIsTrue == Of(Balance) = {} /\ view.quiet => <<BalanceShown, Invitation.left>> = <<server.quota, server.aff>>

\* A button is marked as busy only while something is under way that frees it.
FreedAgain ==
    /\ "amount" \in busy => Of({"price"}) # {}
    /\ "payment" \in busy => Of({"price", "waffo"}) # {}
    /\ "confirm" \in busy => Of({"pay", "creem"}) # {}
    /\ "submit" \in busy => Of({"redeem"}) # {}
================================================================================
