----------------------------- MODULE TaskPromise -----------------------------
(***************************************************************************)
(* What asynchronous billing promises of one task, without processes,      *)
(* pages, answers or crashes: the price held for a running task does not   *)
(* move; when the task ends the outcome is final; after that the money     *)
(* moves at most once, by the refund of the price after a failure or by    *)
(* the difference to the final price after a success.                      *)
(***************************************************************************)
EXTENDS Integers

CONSTANTS
    Billed,  \* the tasks the promise is made for
    Prices,  \* what a task may be priced at
    Final    \* the price after re-pricing, 0: the price stays

VARIABLES
    outcome, \* "new", "running", "SUCCESS" or "FAILURE"
    price,   \* what the task was accepted at
    paid,    \* what the funding source has paid
    due      \* a refund or a difference is still to be booked

pvars == <<outcome, price, paid, due>>

Init ==
    /\ outcome = [t \in Billed |-> "new"]
    /\ price = [t \in Billed |-> 0]
    /\ paid = [t \in Billed |-> 0]
    /\ due = [t \in Billed |-> FALSE]

\* Before the task runs the request holds, corrects and returns money.
Hold(t) ==
    /\ outcome[t] = "new"
    /\ paid' \in [Billed -> Int]
    /\ \A u \in Billed \ {t} : paid'[u] = paid[u]
    /\ UNCHANGED <<outcome, price, due>>

Start(t) ==
    /\ outcome[t] = "new"
    /\ outcome' = [outcome EXCEPT ![t] = "running"]
    /\ \E q \in Prices : price' = [price EXCEPT ![t] = q]
    /\ UNCHANGED <<paid, due>>

\* The outcome and the decision to book something are one step.
End(t) ==
    /\ outcome[t] = "running"
    /\ \E o \in {"SUCCESS", "FAILURE"}, d \in BOOLEAN :
          /\ outcome' = [outcome EXCEPT ![t] = o]
          /\ due' = [due EXCEPT ![t] = d]
    /\ UNCHANGED <<price, paid>>

Difference(t) == IF outcome[t] = "FAILURE" THEN -price[t] ELSE Final[t] - price[t]

Book(t) ==
    /\ due[t]
    /\ paid' = [paid EXCEPT ![t] = @ + Difference(t)]
    /\ due' = [due EXCEPT ![t] = FALSE]
    /\ UNCHANGED <<outcome, price>>

\* A database error or a crash: what was due is forgotten, never booked later.
Forget(t) ==
    /\ due[t]
    /\ due' = [due EXCEPT ![t] = FALSE]
    /\ UNCHANGED <<outcome, price, paid>>

PNext == \E t \in Billed : Hold(t) \/ Start(t) \/ End(t) \/ Book(t) \/ Forget(t)

PSpec == Init /\ [][PNext]_pvars
=============================================================================
