------------------------ MODULE BillingSessionProofs ------------------------
(***************************************************************************)
(* Theorems about BillingSession for every set of requests, preferences,   *)
(* subscriptions, prices, faults and resets.                               *)
(***************************************************************************)
EXTENDS BillingSession, FiniteSetTheorems, WellFoundedInduction, TLAPS

Unfunded == {"new", "try", "check", "take", "fund", "undo", "undoLast"}
Answered == {"running", "settle", "settleToken", "charge", "chargeToken", "last"}

\* How the tables of one request fit together: it still has a source to try
\* until it is funded, a refund starts only after it failed, what it owes is what
\* is booked for it as long as it runs, and what a subscription holds is recorded.
Control(r) ==
    /\ pc[r] \in {"try", "check", "take", "fund", "undo"} => todo[r] # <<>>
    /\ pc[r] \in Unfunded => ses[r].sub = NoSub
    /\ back[r] # "idle" => pc[r] \in {"charge", "chargeToken", "end"}
    /\ pc[r] \in {"settle", "settleToken"} => r \notin Realtime
    /\ pc[r] \in {"charge", "chargeToken"} /\ back[r] = "idle" => r \in Realtime
    /\ pc[r] = "last" => r \in Realtime
    /\ r \notin Realtime /\ pc[r] # "end" => bill[r] = price[r]
    /\ r \notin Realtime /\ pc[r] \in Unfunded \union {"running", "charge"} => price[r] = 0
    /\ back[r] \in {"give", "mark"} => ses[r].source = "subscription"
    /\ back[r] = "give" => tx[Back(r)].open
    /\ back[r] \in {"idle", "fund", "give", "mark"} => tries[r] <= 2
    /\ ses[r].source = "subscription" =>
           /\ pc[r] \in Answered \/ back[r] \in {"fund", "give", "mark"} => ses[r].sub \in Subs
           /\ \/ pc[r] \in Answered /\ back[r] = "idle"
              \/ back[r] \in {"fund", "give", "mark"}
              => record[r] =
                 [status |-> "consumed", sub |-> ses[r].sub, amount |-> ses[r].hold]

BInv == TypeOK /\ \A r \in Requests : Control(r)

\* Nobody moves money for a request before its hold, and the token and the wallet
\* still have everything that may yet be returned.
HoldsToken(r) == \/ pc[r] \in {"fund", "undo", "undoLast"}
                 \/ pc[r] \in Answered /\ back[r] # "done"
                 \/ back[r] \in {"fund", "give", "mark", "token"}
HoldsFund(r)  == \/ pc[r] \in {"running", "settle", "last"}
                 \/ pc[r] \in {"charge", "chargeToken"} /\ back[r] = "idle"
                 \/ back[r] = "fund"

Enough(r) ==
    /\ pc[r] \in Unfunded => paid[r].fund = 0
    /\ paid[r].tok >= 0
    /\ UsesToken(r) /\ HoldsToken(r) => paid[r].tok >= ses[r].hold
    /\ ses[r].source # "subscription" =>
           /\ paid[r].fund >= 0
           /\ HoldsFund(r) => paid[r].fund >= ses[r].hold

\* The parts of the hold the refund has not returned yet.
HeldFund(r) == IF back[r] \in {"idle", "fund", "give"} THEN ses[r].hold ELSE 0
HeldTok(r)  == IF back[r] = "done" THEN 0 ELSE ses[r].hold
OnToken(r, n) == IF UsesToken(r) THEN n ELSE 0

\* What a subscription that is used up did not pay.
Short(r) == /\ ses[r].source = "subscription" /\ SubTotal[ses[r].sub] > 0
            /\ bill[r] = IF back[r] = "idle" THEN ses[r].hold ELSE 0
            /\ bill[r] < price[r]

\* What a request that met no fault has paid at every point of its life.
Booked(r) ==
    /\ pc[r] \in Unfunded => paid[r].fund = 0 /\ bill[r] = 0
    /\ pc[r] \in {"new", "try", "check", "take"} => paid[r].tok = 0
    /\ pc[r] \in {"fund", "undo", "undoLast"} => paid[r].tok = OnToken(r, ses[r].hold)
    /\ pc[r] = "running" => r \in Realtime \/ bill[r] = 0
    /\ pc[r] \in {"running", "charge", "chargeToken", "last"} \/ (pc[r] = "end" /\ back[r] # "idle") =>
           paid[r].fund = HeldFund(r) + bill[r]
    /\ pc[r] \in {"running", "charge", "last"} \/ (pc[r] = "end" /\ back[r] # "idle") =>
           paid[r].tok = OnToken(r, HeldTok(r) + bill[r])
    /\ pc[r] = "chargeToken" => paid[r].tok = OnToken(r, HeldTok(r) + bill[r] - owe[r])
    /\ pc[r] = "settle" => paid[r].fund = ses[r].hold
    /\ pc[r] = "settleToken" => paid[r].fund = bill[r]
    /\ pc[r] \in {"settle", "settleToken"} => paid[r].tok = OnToken(r, ses[r].hold)
    /\ pc[r] = "end" /\ back[r] = "idle" =>
           /\ r \notin Realtime => paid[r].fund = bill[r]
           /\ paid[r].tok = OnToken(r, paid[r].fund)
    /\ pc[r] = "end" /\ r \notin Realtime => bill[r] = price[r] \/ Short(r)

\* With row locks there is one transaction at a time, and it has read what is
\* there; no counter exceeds its total.
OneTx == \A p \in Process : tx[p].open =>
             tx[p].rows = sub /\ \A q \in Process : tx[q].open => q = p
WithinTotal == \A s \in Subs : SubTotal[s] > 0 => sub[s].used <= SubTotal[s]

PayInv == /\ \A r \in Requests : Enough(r)
          /\ WithinTotal
          /\ RowLocks => OneTx /\ \A r \in Requests : Returnable(r) => Booked(r)

-----------------------------------------------------------------------------
(* Lemmas about the operators *)

\* A nonempty set of naturals has a least element.
LEMMA MinOfNat ==
    ASSUME NEW S \in SUBSET Nat, S # {}
    PROVE  Min(S) \in S /\ \A y \in S : Min(S) <= y
  <1>1. PICK R : IsWellFoundedOn(R, Nat) /\ R = {ss \in Nat \X Nat : ss[1] < ss[2]}
    <2>1. IsWellFoundedOn(OpToRel(<, Nat), Nat)
      BY NatLessThanWellFounded
    <2>2. OpToRel(<, Nat) = {ss \in Nat \X Nat : ss[1] < ss[2]}
      BY Zenon DEF OpToRel
    <2>3. QED
      BY <2>1, <2>2, Zenon
  <1>2. PICK x \in S : \A y \in S : ~ (<<y, x>> \in R)
    BY <1>1, WFMin, Zenon
  <1>3. \A y \in S : y < x => <<y, x>> \in R
    BY <1>1
  <1>4. \A y \in S : ~ (y < x)
    BY <1>2, <1>3, Zenon
  <1>5. \A y \in S : x <= y
    BY <1>4
  <1>6. QED
    BY <1>5 DEF Min

-----------------------------------------------------------------------------
(* What the building blocks of a step do *)

Labels == Unfunded \union Answered \union {"end"}
BackLabels == {"idle", "fund", "give", "mark", "token", "done"}
Paid == [fund : Int, tok : Int, born : Nat]

\* Only the entry of r may differ.
Same(f, g, r) == \A q \in Requests : q # r => g[q] = f[q]

\* The values a request has in every state.
LEMMA Values ==
    ASSUME TypeOK, NEW r \in Requests
    PROVE  /\ pc[r] \in Labels /\ back[r] \in BackLabels
           /\ price[r] \in Nat /\ bill[r] \in Nat /\ owe[r] \in Nat
           /\ ses[r].hold \in Nat /\ ses[r].est \in Nat
           /\ ses[r].sub \in Subs \union {NoSub}
           /\ paid[r].fund \in Int /\ paid[r].tok \in Int
           /\ tries[r] \in 0..3
  <1>1. pc \in [Requests -> Labels] /\ back \in [Requests -> BackLabels]
    <2>1. Labels = {"new", "try", "check", "take", "fund", "undo", "undoLast",
                    "running", "settle", "settleToken", "charge",
                    "chargeToken", "last", "end"}
      BY DEF Labels, Unfunded, Answered
    <2>2. QED
      BY <2>1, Zenon DEF TypeOK, BackLabels
  <1>2. /\ price \in [Requests -> Nat] /\ bill \in [Requests -> Nat]
        /\ owe \in [Requests -> Nat] /\ tries \in [Requests -> 0..3]
    BY Zenon DEF TypeOK
  <1>3. ses \in [Requests -> Session] /\ paid \in [Requests -> Paid]
    BY Zenon DEF TypeOK, Paid
  <1>4. ses[r] \in Session /\ paid[r] \in Paid
    BY <1>3
  <1>5. QED
    BY <1>1, <1>2, <1>4 DEF Session, Paid

LEMMA LabelSet ==
    Labels = {"new", "try", "check", "take", "fund", "undo", "undoLast",
              "running", "settle", "settleToken", "charge", "chargeToken", "last", "end"}
  BY DEF Labels, Unfunded, Answered

\* The handler of r goes to another place; so does its refund.
LEMMA GotoStep ==
    ASSUME TypeOK, NEW r \in Requests, NEW l \in Labels, Goto(r, l)
    PROVE  pc' \in [Requests -> Labels] /\ pc'[r] = l /\ Same(pc, pc', r)
  <1>1. pc \in [Requests -> Labels]
    BY LabelSet, Zenon DEF TypeOK
  <1>2. QED
    BY <1>1 DEF Goto, Same

LEMMA BackStep ==
    ASSUME TypeOK, NEW r \in Requests, NEW l \in BackLabels, BackGoto(r, l)
    PROVE  back' \in [Requests -> BackLabels] /\ back'[r] = l /\ Same(back, back', r)
  <1>1. back \in [Requests -> BackLabels]
    BY Zenon DEF TypeOK, BackLabels
  <1>2. QED
    BY <1>1 DEF BackGoto, Same

\* What a move of r's money does.
Moved(r, df, dt) ==
    /\ paid' \in [Requests -> Paid]
    /\ paid'[r].fund = paid[r].fund + df /\ paid'[r].tok = paid[r].tok + dt
    /\ Same(paid, paid', r)

LEMMA PaidType == ASSUME TypeOK PROVE paid \in [Requests -> Paid]
  BY Zenon DEF TypeOK, Paid

LEMMA WalletMoves ==
    ASSUME TypeOK, NEW r \in Requests, NEW d \in Int, FromWallet(r, d)
    PROVE  wallet' \in Int /\ Moved(r, d, 0)
  <1>1. wallet \in Int
    BY Zenon DEF TypeOK
  <1>2. wallet' \in Int
    BY <1>1 DEF FromWallet
  <1>3. QED
    BY <1>2, PaidType DEF FromWallet, Moved, Paid, Same

LEMMA TokenMoves ==
    ASSUME TypeOK, NEW r \in Requests, NEW d \in Int, FromToken(r, d)
    PROVE  token' \in Int /\ Moved(r, 0, OnToken(r, d))
  <1>1. token \in Int
    BY Zenon DEF TypeOK
  <1>2. CASE UsesToken(r)
    <2>1. token' = token - d /\ paid' = [paid EXCEPT ![r].tok = @ + d]
      BY <1>2, Zenon DEF FromToken
    <2>2. token' \in Int
      BY <1>1, <2>1
    <2>3. OnToken(r, d) = d
      BY <1>2, Zenon DEF OnToken
    <2>4. QED
      BY <2>1, <2>2, <2>3, PaidType DEF Moved, Paid, Same
  <1>3. CASE ~UsesToken(r)
    <2>1. token' = token /\ paid' = paid /\ OnToken(r, d) = 0
      BY <1>3, Zenon DEF FromToken, OnToken
    <2>2. QED
      BY <1>1, <2>1, PaidType DEF Moved, Paid, Same
  <1>4. QED
    BY <1>2, <1>3, Zenon

\* The two accounts of r after a move.
LEMMA MovedBy ==
    ASSUME NEW r \in Requests, NEW df, NEW d, Moved(r, df, OnToken(r, d))
    PROVE  /\ paid'[r].fund = paid[r].fund + df
           /\ r \notin Playground => paid'[r].tok = paid[r].tok + d
           /\ r \in Playground => paid'[r].tok = paid[r].tok + 0
  BY DEF Moved, OnToken, UsesToken

LEMMA NothingMoves ==
    ASSUME TypeOK, NEW r \in Requests, UNCHANGED paid
    PROVE  Moved(r, 0, 0)
  BY PaidType DEF Moved, Paid, Same

LEMMA FaultCounts ==
    ASSUME TypeOK, NEW r \in Requests, Fault(r) \/ NoFault
    PROVE  /\ faults' \in 0..MaxFaults
           /\ tainted' \subseteq Requests
           /\ tainted \subseteq tainted'
           /\ \A q \in Requests : q # r => (q \in tainted' <=> q \in tainted)
  <1>1. faults \in 0..MaxFaults /\ tainted \subseteq Requests
    BY Zenon DEF TypeOK
  <1>2. CASE Fault(r)
    <2>1. faults' = faults + 1 /\ faults < MaxFaults /\ tainted' = tainted \union {r}
      BY <1>2, Zenon DEF Fault
    <2>2. QED
      BY <1>1, <2>1, BoundAssumption
  <1>3. CASE NoFault
    BY <1>1, <1>3 DEF NoFault
  <1>4. QED
    BY <1>2, <1>3, Zenon

LEMMA ProcessType ==
    ASSUME NEW r \in Requests
    PROVE  /\ Main(r) \in Process /\ Back(r) \in Process /\ Main(r) # Back(r)
           /\ Keeper \in Process
           /\ \A q \in Requests : Main(r) # Back(q) /\ (q # r => Back(r) # Back(q))
           /\ \A q \in Requests : Keeper # Back(q)
  <1>1. Main(r) \in Process /\ Back(r) \in Process /\ Keeper \in Process
    BY DEF Main, Back, Process
  <1>2. \A q \in Requests : Main(r) # Back(q) /\ (q # r => Back(r) # Back(q))
    BY DEF Main, Back
  <1>3. \A q \in Requests : Keeper # Back(q)
    BY DEF Keeper, Back
  <1>4. QED
    BY <1>1, <1>2, <1>3

LEMMA TxType == ASSUME TypeOK PROVE tx \in [Process -> Tx \union {NoTx}]
  BY Zenon DEF TypeOK
LEMMA SubType == ASSUME TypeOK PROVE sub \in [Subs -> SubRow]
  BY Zenon DEF TypeOK

\* A row stays a row when it is reset, and when an amount is booked on it.
LEMMA RowKept ==
    ASSUME NEW s, NEW row \in SubRow, NEW now \in Nat
    PROVE  /\ Fresh(s, row, now) \in SubRow
           /\ Fresh(s, row, now).status = row.status
           /\ Due(s, row, now) => Fresh(s, row, now).used = 0
  <1>1. CASE Due(s, row, now)
    <2>1. Fresh(s, row, now) = [row EXCEPT !.used = 0, !.next = now + 1]
      BY <1>1, Zenon DEF Fresh
    <2>2. PICK next \in Nat : next = now + 1
      OBVIOUS
    <2>3. /\ [row EXCEPT !.used = 0, !.next = next] \in SubRow
          /\ [row EXCEPT !.used = 0, !.next = next].status = row.status
          /\ [row EXCEPT !.used = 0, !.next = next].used = 0
      BY DEF SubRow
    <2>4. QED
      BY <2>1, <2>2, <2>3, Zenon
  <1>2. CASE ~Due(s, row, now)
    BY <1>2, Zenon DEF Fresh
  <1>3. QED
    BY <1>1, <1>2, Zenon

LEMMA RowBooked ==
    ASSUME NEW row \in SubRow, NEW n \in Nat
    PROVE  /\ [row EXCEPT !.used = n] \in SubRow
           /\ [row EXCEPT !.used = n].status = row.status
           /\ [row EXCEPT !.used = n].used = n
  BY DEF SubRow

LEMMA OpenStep ==
    ASSUME TypeOK, NEW p \in Process, Open(p)
    PROVE  /\ tx' \in [Process -> Tx \union {NoTx}]
           /\ tx'[p].open
           /\ \A q \in Process : q # p => tx'[q] = tx[q]
           /\ RowLocks => tx'[p].rows = sub /\ \A q \in Process : tx'[q].open => q = p
  <1> DEFINE t == [open |-> TRUE, now |-> clock, rows |-> sub]
  <1>1. clock \in Nat
    <2>1. clock \in 0..MaxResets
      BY Zenon DEF TypeOK
    <2>2. QED
      BY <2>1, BoundAssumption
  <1>2. t \in Tx /\ t.open /\ t.rows = sub
    BY <1>1, SubType DEF Tx
  <1>3. tx' = [tx EXCEPT ![p] = t] /\ MayLock
    BY Zenon DEF Open
  <1> HIDE DEF t
  <1>4. /\ tx' \in [Process -> Tx \union {NoTx}] /\ tx'[p] = t
        /\ \A q \in Process : q # p => tx'[q] = tx[q]
    BY <1>2, <1>3, TxType
  <1>5. RowLocks => \A q \in Process : ~tx[q].open
    BY <1>3, Zenon DEF MayLock
  <1>6. QED
    BY <1>2, <1>4, <1>5, Zenon

LEMMA CloseStep ==
    ASSUME TypeOK, NEW p \in Process, Close(p)
    PROVE  /\ tx' \in [Process -> Tx \union {NoTx}]
           /\ ~tx'[p].open
           /\ \A q \in Process : q # p => tx'[q] = tx[q]
  BY TxType DEF Close, NoTx

\* What an open transaction has read.
LEMMA ReadRows ==
    ASSUME TypeOK, NEW p \in Process, tx[p].open
    PROVE  tx[p].now \in Nat /\ tx[p].rows \in [Subs -> SubRow]
  <1>1. tx[p] \in Tx \union {NoTx}
    BY TxType
  <1>2. tx[p] \in Tx
    BY <1>1 DEF NoTx
  <1>3. QED
    BY <1>2 DEF Tx

\* An amount is booked on the row that was read.
LEMMA SubMoves ==
    ASSUME TypeOK, NEW p \in Process, NEW r \in Requests, NEW d \in Int, tx[p].open,
           ses[r].sub \in Subs, Accepts(p, ses[r].sub, d), FromSub(p, r, d)
    PROVE  /\ sub' \in [Subs -> SubRow] /\ stale' \in [Subs -> Nat]
           /\ \A s \in Subs : s # ses[r].sub => sub'[s] = sub[s]
           /\ sub'[ses[r].sub].status = tx[p].rows[ses[r].sub].status
           /\ SubTotal[ses[r].sub] > 0 => sub'[ses[r].sub].used <= SubTotal[ses[r].sub]
           /\ Moved(r, d, 0)
  <1>0. PICK s \in Subs : s = ses[r].sub
    OBVIOUS
  <1>1. PICK row \in SubRow : row = tx[p].rows[s]
    BY ReadRows
  <1>2. PICK n \in Nat : n = NewUsed(p, s, d)
    BY <1>1 DEF NewUsed, Positive, SubRow
  <1>3. PICK new \in SubRow : /\ new = [row EXCEPT !.used = n]
                              /\ new.status = row.status /\ new.used = n
    BY RowBooked
  <1>4. sub' = [sub EXCEPT ![s] = new]
    BY <1>0, <1>1, <1>2, <1>3, Zenon DEF FromSub
  <1>5. /\ sub' \in [Subs -> SubRow] /\ sub'[s] = new
        /\ \A u \in Subs : u # s => sub'[u] = sub[u]
    BY <1>3, <1>4, SubType
  <1>6. stale' \in [Subs -> Nat]
    <2>1. stale \in [Subs -> Nat]
      BY Zenon DEF TypeOK
    <2>2. PICK m : m = IF d < 0 /\ paid[r].born # sub[s].next THEN stale[s] - d ELSE stale[s]
      OBVIOUS
    <2>3. m \in Nat
      BY <2>1, <2>2
    <2>4. stale' = [stale EXCEPT ![s] = m]
      BY <1>0, <2>2, Zenon DEF FromSub
    <2>5. QED
      BY <2>1, <2>3, <2>4
  <1>7. Moved(r, d, 0)
    BY PaidType DEF FromSub, Moved, Paid, Same
  <1>8. SubTotal[s] > 0 => n <= SubTotal[s]
    BY <1>0, <1>2 DEF Accepts
  <1>9. QED
    BY <1>0, <1>1, <1>3, <1>5, <1>6, <1>7, <1>8

-----------------------------------------------------------------------------
(* A step of one request leaves the others alone *)

Others(r) ==
    /\ Same(pc, pc', r) /\ Same(todo, todo', r) /\ Same(ses, ses', r)
    /\ Same(price, price', r) /\ Same(bill, bill', r) /\ Same(owe, owe', r)
    /\ Same(back, back', r) /\ Same(tries, tries', r)
    /\ Same(record, record', r) /\ Same(paid, paid', r)
    /\ \A q \in Requests : q # r => tx'[Back(q)] = tx[Back(q)]
    /\ \A q \in Requests : q # r => (q \in tainted' <=> q \in tainted)

\* Counters stay within their totals; with row locks the only open transaction
\* has read what is there, and nothing that was deleted comes back.
Stays == \A s \in Subs : /\ sub[s].status = "deleted" => sub'[s].status = "deleted"
                         /\ sub[s].status # "active" => sub'[s].status # "active"
Ledger ==
    /\ WithinTotal'
    /\ RowLocks => OneTx' /\ Stays

Kept == BInv' /\ PayInv' /\ Ledger

LEMMA LedgerStill ==
    ASSUME WithinTotal, RowLocks => OneTx, UNCHANGED <<sub, tx>>
    PROVE  Ledger
  BY DEF Ledger, WithinTotal, OneTx, Stays

\* A step of r without a fault, after which its hold could still be returned.
Sound(r) == \/ Fault(r)
            \/ NoFault /\ (RowLocks /\ Returnable(r) /\ Booked(r) => Booked(r)')

LEMMA OtherReturnable ==
    ASSUME NEW q \in Requests, Returnable(q)', q \in tainted' <=> q \in tainted,
           ses'[q].sub = ses[q].sub \/ ses[q].sub \notin Subs,
           \A s \in Subs : sub[s].status = "deleted" => sub'[s].status = "deleted"
    PROVE  Returnable(q)
  BY DEF Returnable

LEMMA OtherInv ==
    ASSUME NEW r \in Requests, NEW q \in Requests, q # r, Others(r),
           Control(q), Enough(q), Booked(q) \/ ~(RowLocks /\ Returnable(q)),
           RowLocks => Stays
    PROVE  Control(q)' /\ Enough(q)' /\ (RowLocks /\ Returnable(q)' => Booked(q)')
  <1>1. /\ pc'[q] = pc[q] /\ todo'[q] = todo[q] /\ ses'[q] = ses[q]
        /\ price'[q] = price[q] /\ bill'[q] = bill[q]
        /\ owe'[q] = owe[q] /\ back'[q] = back[q] /\ tries'[q] = tries[q]
        /\ record'[q] = record[q] /\ paid'[q] = paid[q] /\ tx'[Back(q)] = tx[Back(q)]
        /\ q \in tainted' <=> q \in tainted
    BY Zenon DEF Others, Same
  <1>2. Control(q)'
    BY <1>1 DEF Control
  <1>3. Enough(q)'
    BY <1>1 DEF Enough, HoldsToken, HoldsFund, UsesToken
  <1>4. Booked(q) => Booked(q)'
    BY <1>1 DEF Booked, Short, HeldFund, HeldTok, OnToken, UsesToken
  <1>5. RowLocks /\ Returnable(q)' => Returnable(q)
    BY <1>1, OtherReturnable, Zenon DEF Stays
  <1>6. QED
    BY <1>2, <1>3, <1>4, <1>5, Zenon

LEMMA StepOfOne ==
    ASSUME BInv, PayInv, NEW r \in Requests, TypeOK', Others(r), Ledger,
           Control(r)', Enough(r)', Sound(r),
           ses'[r].sub = ses[r].sub \/ ses[r].sub \notin Subs
    PROVE  Kept
  <1>1. ASSUME NEW q \in Requests, q # r
        PROVE  Control(q)' /\ Enough(q)' /\ (RowLocks /\ Returnable(q)' => Booked(q)')
    <2>1. Control(q) /\ Enough(q)
      BY DEF BInv, PayInv
    <2>2. Booked(q) \/ ~(RowLocks /\ Returnable(q))
      BY DEF PayInv
    <2>3. RowLocks => Stays
      BY Zenon DEF Ledger
    <2>4. QED
      BY <1>1, <2>1, <2>2, <2>3, OtherInv, Zenon
  <1>2. ASSUME RowLocks, Returnable(r)'
        PROVE  Booked(r)'
    <2>1. CASE Fault(r)
      <3>1. r \in tainted'
        BY <2>1 DEF Fault
      <3>2. QED
        BY <3>1, <1>2 DEF Returnable
    <2>2. CASE NoFault /\ (RowLocks /\ Returnable(r) /\ Booked(r) => Booked(r)')
      <3>1. tainted' = tainted
        BY <2>2 DEF NoFault
      <3>2. \A s \in Subs : sub[s].status = "deleted" => sub'[s].status = "deleted"
        BY <1>2, Zenon DEF Ledger, Stays
      <3>3. Returnable(r)
        BY <1>2, <3>1, <3>2, OtherReturnable, Zenon
      <3>4. Booked(r)
        BY <1>2, <3>3, Zenon DEF PayInv
      <3>5. QED
        BY <1>2, <2>2, <3>3, <3>4, Zenon
    <2>3. QED
      BY <2>1, <2>2, Zenon DEF Sound
  <1>3. \A q \in Requests : Control(q)' /\ Enough(q)' /\ (RowLocks /\ Returnable(q)' => Booked(q)')
    BY <1>1, <1>2, Zenon
  <1>4. BInv'
    BY <1>3, Zenon DEF BInv
  <1>5. WithinTotal' /\ (RowLocks => OneTx')
    BY Zenon DEF Ledger
  <1>6. QED
    BY <1>3, <1>4, <1>5, Zenon DEF PayInv, Kept

-----------------------------------------------------------------------------
(* The steps of a request, from NewBillingSession to its hold *)

\* The updates of a session.
Begun(x, e, b)       == [x EXCEPT !.est = e, !.trusted = b]
Chosen(x, source, h) == [x EXCEPT !.source = source, !.hold = h]

LEMMA SessionKept ==
    ASSUME NEW x \in Session, NEW e \in Nat, NEW b \in BOOLEAN
    PROVE  /\ Begun(x, e, b) \in Session
           /\ Begun(x, e, b).hold = x.hold
           /\ Begun(x, e, b).source = x.source
           /\ Begun(x, e, b).sub = x.sub
  BY DEF Session, Begun

LEMMA ChooseType ==
    ASSUME NEW x \in Session, NEW h \in Nat, NEW source \in {"wallet", "subscription"}
    PROVE  /\ Chosen(x, source, h) \in Session
           /\ Chosen(x, source, h).hold = h
           /\ Chosen(x, source, h).source = source
           /\ Chosen(x, source, h).sub = x.sub
  BY DEF Session, Chosen

LEMMA TailOf ==
    ASSUME NEW S, NEW t \in Seq(S), t # <<>>
    PROVE  Tail(t) \in Seq(S) /\ (Len(t) # 1 => Tail(t) # <<>>)
  <1>1. Len(t) \in Nat /\ Len(t) > 0
    OBVIOUS
  <1>2. Tail(t) \in Seq(S) /\ Len(Tail(t)) = Len(t) - 1
    BY <1>1
  <1>3. QED
    BY <1>1, <1>2

LEMMA SourcesType ==
    ASSUME NEW preference, NEW subscribed
    PROVE  /\ Sources(preference, subscribed) \in Seq({"wallet", "subscription"})
           /\ Sources(preference, subscribed) # <<>>
  <1>1. /\ <<"wallet">> \in Seq({"wallet", "subscription"})
        /\ <<"subscription">> \in Seq({"wallet", "subscription"})
        /\ <<"wallet", "subscription">> \in Seq({"wallet", "subscription"})
        /\ <<"subscription", "wallet">> \in Seq({"wallet", "subscription"})
        /\ <<"wallet">> # <<>> /\ <<"subscription">> # <<>>
        /\ <<"wallet", "subscription">> # <<>> /\ <<"subscription", "wallet">> # <<>>
    OBVIOUS
  <1>2. Sources(preference, subscribed) \in
            {<<"wallet">>, <<"subscription">>, <<"wallet", "subscription">>,
             <<"subscription", "wallet">>}
    BY DEF Sources
  <1>3. QED
    BY <1>1, <1>2, Zenon

LEMMA BeginKeeps ==
    ASSUME BInv, PayInv, NEW r \in Requests, NEW e \in Estimates, Begin(r, e)
    PROVE  Kept
  <1>1. TypeOK /\ Control(r) /\ Enough(r)
    BY Zenon DEF BInv, PayInv
  <1>2. pc' \in [Requests -> Labels] /\ pc'[r] = "try" /\ pc[r] = "new" /\ Same(pc, pc', r)
    BY <1>1, GotoStep DEF Begin, Labels, Unfunded
  <1>3. /\ todo' \in [Requests -> Seq({"wallet", "subscription"})]
        /\ todo'[r] # <<>> /\ Same(todo, todo', r)
    <2>1. todo \in [Requests -> Seq({"wallet", "subscription"})]
      BY <1>1, Zenon DEF TypeOK
    <2>2. PICK t \in Seq({"wallet", "subscription"}) :
              t # <<>> /\ todo' = [todo EXCEPT ![r] = t]
      BY SourcesType, Zenon DEF Begin
    <2>3. QED
      BY <2>1, <2>2 DEF Same
  <1>4. /\ ses' \in [Requests -> Session] /\ Same(ses, ses', r)
        /\ ses'[r].source = "none" /\ ses'[r].hold = 0 /\ ses'[r].sub = NoSub
    <2>1. ses \in [Requests -> Session]
      BY <1>1, Zenon DEF TypeOK
    <2>2. PICK b \in BOOLEAN : ses' = [ses EXCEPT ![r] = Begun(NoSession, e, b)]
      BY DEF Begin, Begun
    <2>3. /\ Begun(NoSession, e, b) \in Session /\ Begun(NoSession, e, b).hold = 0
          /\ Begun(NoSession, e, b).source = "none" /\ Begun(NoSession, e, b).sub = NoSub
      <3>1. e \in Nat
        BY QuotaAssumption
      <3>2. /\ NoSession \in Session
            /\ NoSession.source = "none" /\ NoSession.hold = 0 /\ NoSession.sub = NoSub
        BY DEF NoSession, Session
      <3>3. QED
        BY <3>1, <3>2, SessionKept
    <2>4. QED
      BY <2>1, <2>2, <2>3 DEF Same
  <1>5. UNCHANGED <<price, bill, owe, events, back, tries, wallet, token, sub, record, tx, clock,
                    faults, paid, tainted, stale>>
    BY DEF Begin, refund, books, history
  <1>6. TypeOK'
    BY <1>1, <1>2, <1>3, <1>4, <1>5, LabelSet, Zenon DEF TypeOK
  <1>7. Others(r)
    BY <1>2, <1>3, <1>4, <1>5 DEF Others, Same
  <1>8. Ledger
    BY <1>5, LedgerStill, Zenon DEF PayInv
  <1>9. Control(r)'
    BY <1>1, <1>2, <1>3, <1>4, <1>5 DEF Control, Answered, Unfunded
  <1>10. Enough(r)'
    BY <1>1, <1>2, <1>4, <1>5 DEF Enough, HoldsToken, HoldsFund, Answered, Unfunded
  <1>11. Sound(r)
    BY <1>1, <1>2, <1>4, <1>5 DEF Sound, NoFault, Booked, Unfunded
  <1>12. ses[r].sub \notin Subs
    BY <1>1, <1>2, SubAssumption DEF Control, Unfunded, NoSub
  <1>13. QED
    BY <1>6, <1>7, <1>8, <1>9, <1>10, <1>11, <1>12, StepOfOne, Zenon

\* A request goes on to its next source, or gives up.
LEMMA NextStep ==
    ASSUME TypeOK, NEW r \in Requests, NextSource(r) \/ GiveUp(r),
           NextSource(r) => todo[r] # <<>>
    PROVE  /\ pc' \in [Requests -> Labels] /\ Same(pc, pc', r)
           /\ pc'[r] = "end" \/ (pc'[r] = "try" /\ NextSource(r))
           /\ todo' \in [Requests -> Seq({"wallet", "subscription"})] /\ Same(todo, todo', r)
           /\ pc'[r] = "try" => todo'[r] # <<>>
  <1>1. todo \in [Requests -> Seq({"wallet", "subscription"})]
    BY Zenon DEF TypeOK
  <1>2. CASE NextSource(r)
    <2>1. PICK l \in Labels : /\ l = IF Len(todo[r]) = 1 THEN "end" ELSE "try"
                              /\ Goto(r, l)
      BY <1>2 DEF NextSource, Labels, Unfunded
    <2>2. PICK t \in Seq({"wallet", "subscription"}) : t = todo[r]
      BY <1>1
    <2>3. /\ Tail(t) \in Seq({"wallet", "subscription"})
          /\ Len(t) # 1 => Tail(t) # <<>>
      BY <1>2, <2>2, TailOf, Zenon
    <2>4. todo' = [todo EXCEPT ![r] = Tail(t)]
      BY <1>2, <2>2, Zenon DEF NextSource
    <2>5. /\ todo' \in [Requests -> Seq({"wallet", "subscription"})] /\ Same(todo, todo', r)
          /\ todo'[r] = Tail(t)
      BY <1>1, <2>3, <2>4 DEF Same
    <2>6. pc' \in [Requests -> Labels] /\ pc'[r] = l /\ Same(pc, pc', r)
      BY <2>1, GotoStep, Zenon
    <2>7. QED
      BY <1>2, <2>1, <2>2, <2>3, <2>5, <2>6
  <1>3. CASE GiveUp(r)
    <2>1. Goto(r, "end") /\ todo' = todo
      BY <1>3, Zenon DEF GiveUp
    <2>2. "end" \in Labels
      BY DEF Labels
    <2>3. pc' \in [Requests -> Labels] /\ pc'[r] = "end" /\ Same(pc, pc', r)
      BY <2>1, <2>2, GotoStep, Zenon
    <2>4. QED
      BY <1>1, <2>1, <2>3 DEF Same
  <1>4. QED
    BY <1>2, <1>3, Zenon

\* A source is chosen.
LEMMA ChooseStep ==
    ASSUME TypeOK, NEW r \in Requests, NEW source \in {"wallet", "subscription"},
           NEW h \in Nat, Choose(r, source, h)
    PROVE  /\ pc' \in [Requests -> Labels] /\ Same(pc, pc', r)
           /\ pc'[r] = IF h > 0 /\ UsesToken(r) THEN "check" ELSE "fund"
           /\ ses' \in [Requests -> Session] /\ Same(ses, ses', r)
           /\ ses'[r].source = source /\ ses'[r].hold = h /\ ses'[r].sub = ses[r].sub
           /\ todo' = todo
  <1>1. ses \in [Requests -> Session]
    BY Zenon DEF TypeOK
  <1>2. PICK x \in Session : x = ses[r]
    BY <1>1
  <1>3. /\ Chosen(x, source, h) \in Session /\ Chosen(x, source, h).hold = h
        /\ Chosen(x, source, h).source = source /\ Chosen(x, source, h).sub = x.sub
    BY ChooseType
  <1>4. ses' = [ses EXCEPT ![r] = Chosen(x, source, h)]
    BY <1>2, Zenon DEF Choose, Chosen
  <1>5. PICK l : /\ l = IF h = 0 THEN "fund" ELSE IF UsesToken(r) THEN "check" ELSE "fund"
                 /\ Goto(r, l)
    BY Zenon DEF Choose
  <1>6. l \in Labels /\ l = IF h > 0 /\ UsesToken(r) THEN "check" ELSE "fund"
    BY <1>5 DEF Labels, Unfunded
  <1>7. pc' \in [Requests -> Labels] /\ pc'[r] = l /\ Same(pc, pc', r)
    BY <1>5, <1>6, GotoStep, Zenon
  <1>8. QED
    BY <1>1, <1>2, <1>3, <1>4, <1>6, <1>7 DEF Same, Choose

\* A step that changes nothing but where a request is, or its session, before
\* anything was taken for it.
LEMMA UnfundedKeeps ==
    ASSUME BInv, PayInv, NEW r \in Requests, Fault(r) \/ NoFault,
           pc' \in [Requests -> Labels], Same(pc, pc', r),
           todo' \in [Requests -> Seq({"wallet", "subscription"})], Same(todo, todo', r),
           ses' \in [Requests -> Session], Same(ses, ses', r),
           UNCHANGED <<price, bill, owe, events, refund, books, tx, clock, paid, stale>>,
           pc[r] \in {"try", "check"}, pc'[r] \in {"try", "check", "take", "fund", "end"},
           ses'[r].sub = ses[r].sub,
           pc'[r] \in {"try", "check", "take", "fund"} => todo'[r] # <<>>,
           pc'[r] = "fund" => OnToken(r, ses'[r].hold) = 0
    PROVE  Kept
  <1>1. TypeOK /\ Control(r) /\ Enough(r)
    BY Zenon DEF BInv, PayInv
  <1>2. UNCHANGED <<price, bill, owe, events, back, tries, wallet, token, sub, record, tx, clock,
                    paid, stale>>
    BY DEF refund, books
  <1>3. TypeOK'
    BY <1>1, <1>2, LabelSet, FaultCounts, Zenon DEF TypeOK
  <1>4. Others(r)
    <2>1. \A q \in Requests : q # r => (q \in tainted' <=> q \in tainted)
      BY <1>1, FaultCounts, Zenon
    <2>2. QED
      BY <1>2, <2>1 DEF Others, Same
  <1>5. Ledger
    BY <1>2, LedgerStill, Zenon DEF PayInv
  <1>6. Control(r)'
    BY <1>1, <1>2 DEF Control, Answered, Unfunded
  <1>7. Enough(r)'
    <2>1. back[r] = "idle"
      BY <1>1, Values DEF Control, BackLabels
    <2>2. paid[r].fund = 0 /\ paid[r].tok >= 0
      BY <1>1 DEF Enough, Unfunded
    <2>3. pc'[r] = "fund" /\ UsesToken(r) => ses'[r].hold = 0
      BY Zenon DEF OnToken
    <2>4. HoldsToken(r)' => pc'[r] = "fund"
      BY <1>2, <2>1 DEF HoldsToken, Answered
    <2>5. ~HoldsFund(r)'
      BY <1>2, <2>1 DEF HoldsFund
    <2>6. UsesToken(r)' = UsesToken(r)
      BY DEF UsesToken
    <2>7. QED
      BY <1>2, <2>2, <2>3, <2>4, <2>5, <2>6 DEF Enough
  <1>8. Sound(r)
    BY <1>1, <1>2, Values DEF Sound, Booked, Unfunded, OnToken, Control
  <1>9. QED
    BY <1>3, <1>4, <1>5, <1>6, <1>7, <1>8, StepOfOne, Zenon

LEMMA TryWalletKeeps ==
    ASSUME BInv, PayInv, NEW r \in Requests, TryWallet(r)
    PROVE  Kept
  <1>1. TypeOK /\ Control(r)
    BY Zenon DEF BInv
  <1>2. /\ pc[r] = "try" /\ todo[r] # <<>>
        /\ UNCHANGED <<price, bill, owe, events, refund, books, tx, clock, paid, stale>>
    BY <1>1, Zenon DEF TryWallet, Control
  <1>3. /\ todo \in [Requests -> Seq({"wallet", "subscription"})]
        /\ ses \in [Requests -> Session]
    BY <1>1, Zenon DEF TypeOK
  <1>4. CASE /\ NextSource(r) \/ GiveUp(r)
             /\ UNCHANGED ses /\ (Fault(r) \/ NoFault)
    <2>1. /\ pc' \in [Requests -> Labels] /\ Same(pc, pc', r) /\ pc'[r] \in {"try", "end"}
          /\ todo' \in [Requests -> Seq({"wallet", "subscription"})] /\ Same(todo, todo', r)
          /\ pc'[r] = "try" => todo'[r] # <<>>
      BY <1>1, <1>2, <1>4, NextStep, Zenon
    <2>2. Same(ses, ses', r) /\ ses' \in [Requests -> Session] /\ ses'[r].sub = ses[r].sub
      BY <1>3, <1>4 DEF Same
    <2>3. /\ pc[r] \in {"try", "check"} /\ pc'[r] \in {"try", "check", "take", "fund", "end"}
          /\ pc'[r] \in {"try", "check", "take", "fund"} => todo'[r] # <<>>
          /\ pc'[r] = "fund" => OnToken(r, ses'[r].hold) = 0
      BY <1>2, <2>1
    <2>4. QED
      BY <1>2, <1>4, <2>1, <2>2, <2>3, UnfundedKeeps, Zenon
  <1>5. CASE /\ Choose(r, "wallet", IF ses[r].trusted /\ wallet > TrustQuota
                                    THEN 0 ELSE ses[r].est)
             /\ NoFault
    <2>1. PICK h : h = IF ses[r].trusted /\ wallet > TrustQuota THEN 0 ELSE ses[r].est
      OBVIOUS
    <2>2. h \in Nat /\ Choose(r, "wallet", h)
      <3>1. ses[r].est \in Nat
        BY <1>1, Values, Zenon
      <3>2. Choose(r, "wallet", h)
        BY <1>5, <2>1, Zenon
      <3>3. QED
        BY <2>1, <3>1, <3>2
    <2>3. /\ pc' \in [Requests -> Labels] /\ Same(pc, pc', r)
          /\ pc'[r] = IF h > 0 /\ UsesToken(r) THEN "check" ELSE "fund"
          /\ ses' \in [Requests -> Session] /\ Same(ses, ses', r)
          /\ ses'[r].hold = h /\ ses'[r].sub = ses[r].sub /\ todo' = todo
      <3>1. "wallet" \in {"wallet", "subscription"}
        OBVIOUS
      <3>2. QED
        BY <1>1, <2>2, <3>1, ChooseStep, Zenon
    <2>4. Same(todo, todo', r) /\ todo' \in [Requests -> Seq({"wallet", "subscription"})]
      BY <1>3, <2>3 DEF Same
    <2>5. /\ pc[r] \in {"try", "check"} /\ pc'[r] \in {"try", "check", "take", "fund", "end"}
          /\ pc'[r] \in {"try", "check", "take", "fund"} => todo'[r] # <<>>
          /\ pc'[r] = "fund" => OnToken(r, ses'[r].hold) = 0
      BY <1>2, <2>2, <2>3 DEF OnToken
    <2>6. QED
      BY <1>2, <1>5, <2>3, <2>4, <2>5, UnfundedKeeps, Zenon
  <1>6. QED
    BY <1>4, <1>5, Zenon DEF TryWallet

LEMMA TrySubscriptionKeeps ==
    ASSUME BInv, PayInv, NEW r \in Requests, TrySubscription(r)
    PROVE  Kept
  <1>1. TypeOK /\ Control(r)
    BY Zenon DEF BInv
  <1>2. /\ pc[r] = "try" /\ todo[r] # <<>>
        /\ UNCHANGED <<price, bill, owe, events, refund, books, tx, clock, paid, stale>> /\ NoFault
    BY <1>1, Zenon DEF TrySubscription, Control, NoFault, history
  <1>3. todo \in [Requests -> Seq({"wallet", "subscription"})]
    BY <1>1, Zenon DEF TypeOK
  <1>4. PICK h : h = IF ses[r].est > 0 THEN ses[r].est ELSE 1
    OBVIOUS
  <1>5. h \in Nat /\ Choose(r, "subscription", h)
    <2>1. ses[r].est \in Nat
      BY <1>1, Values, Zenon
    <2>2. Choose(r, "subscription", h)
      BY <1>4, Zenon DEF TrySubscription
    <2>3. QED
      BY <1>4, <2>1, <2>2
  <1>6. /\ pc' \in [Requests -> Labels] /\ Same(pc, pc', r)
        /\ pc'[r] = IF h > 0 /\ UsesToken(r) THEN "check" ELSE "fund"
        /\ ses' \in [Requests -> Session] /\ Same(ses, ses', r)
        /\ ses'[r].hold = h /\ ses'[r].sub = ses[r].sub /\ todo' = todo
    <2>1. "subscription" \in {"wallet", "subscription"}
      OBVIOUS
    <2>2. QED
      BY <1>1, <1>5, <2>1, ChooseStep, Zenon
  <1>7. Same(todo, todo', r) /\ todo' \in [Requests -> Seq({"wallet", "subscription"})]
    BY <1>3, <1>6 DEF Same
  <1>8. /\ pc[r] \in {"try", "check"} /\ pc'[r] \in {"try", "check", "take", "fund", "end"}
        /\ pc'[r] \in {"try", "check", "take", "fund"} => todo'[r] # <<>>
        /\ pc'[r] = "fund" => OnToken(r, ses'[r].hold) = 0
    BY <1>2, <1>5, <1>6 DEF OnToken
  <1>9. QED
    BY <1>2, <1>6, <1>7, <1>8, UnfundedKeeps, Zenon

LEMMA CheckTokenKeeps ==
    ASSUME BInv, PayInv, NEW r \in Requests, CheckToken(r)
    PROVE  Kept
  <1>1. TypeOK /\ Control(r)
    BY Zenon DEF BInv
  <1>2. /\ pc[r] = "check" /\ todo[r] # <<>> /\ todo' = todo /\ ses' = ses
        /\ Fault(r) \/ NoFault
        /\ UNCHANGED <<price, bill, owe, events, refund, books, tx, clock, paid, stale>>
    BY <1>1 DEF CheckToken, Control, GiveUp
  <1>3. /\ todo \in [Requests -> Seq({"wallet", "subscription"})]
        /\ ses \in [Requests -> Session]
    BY <1>1, Zenon DEF TypeOK
  <1>4. PICK l \in {"take", "end"} : Goto(r, l)
    BY DEF CheckToken, GiveUp
  <1>5. pc' \in [Requests -> Labels] /\ pc'[r] = l /\ Same(pc, pc', r)
    <2>1. l \in Labels
      BY DEF Labels, Unfunded
    <2>2. QED
      BY <1>1, <1>4, <2>1, GotoStep, Zenon
  <1>6. /\ Same(todo, todo', r) /\ todo' \in [Requests -> Seq({"wallet", "subscription"})]
        /\ Same(ses, ses', r) /\ ses' \in [Requests -> Session] /\ ses'[r].sub = ses[r].sub
    BY <1>2, <1>3 DEF Same
  <1>7. /\ pc[r] \in {"try", "check"} /\ pc'[r] \in {"try", "check", "take", "fund", "end"}
        /\ pc'[r] \in {"try", "check", "take", "fund"} => todo'[r] # <<>>
        /\ pc'[r] = "fund" => OnToken(r, ses'[r].hold) = 0
    BY <1>2, <1>5
  <1>8. QED
    BY <1>2, <1>5, <1>6, <1>7, UnfundedKeeps, Zenon

-----------------------------------------------------------------------------
(* Steps that leave sessions, subscriptions and transactions alone *)

Framed(r) ==
    /\ pc' \in [Requests -> Labels] /\ Same(pc, pc', r)
    /\ todo' \in [Requests -> Seq({"wallet", "subscription"})] /\ Same(todo, todo', r)
    /\ price' \in [Requests -> Nat] /\ Same(price, price', r)
    /\ bill' \in [Requests -> Nat] /\ Same(bill, bill', r)
    /\ owe' \in [Requests -> Nat] /\ Same(owe, owe', r)
    /\ events' \in [Requests -> Events]
    /\ back' \in [Requests -> BackLabels] /\ Same(back, back', r)
    /\ tries' \in [Requests -> 0..3] /\ Same(tries, tries', r)
    /\ wallet' \in Int /\ token' \in Int
    /\ paid' \in [Requests -> Paid] /\ Same(paid, paid', r)
    /\ UNCHANGED <<ses, sub, record, tx, clock, stale>>
    /\ Fault(r) \/ NoFault

LEMMA FramedKeeps ==
    ASSUME BInv, PayInv, NEW r \in Requests, Framed(r), Control(r)', Enough(r)', Sound(r)
    PROVE  Kept
  <1>1. TypeOK
    BY Zenon DEF BInv
  <1>2. TypeOK'
    BY <1>1, LabelSet, FaultCounts, Zenon DEF TypeOK, Framed, BackLabels, Paid
  <1>3. Others(r)
    <2>1. \A q \in Requests : q # r => (q \in tainted' <=> q \in tainted)
      BY <1>1, FaultCounts, Zenon DEF Framed
    <2>2. QED
      BY <2>1 DEF Framed, Others, Same
  <1>4. Ledger
    BY LedgerStill, Zenon DEF PayInv, Framed
  <1>5. ses'[r].sub = ses[r].sub
    BY DEF Framed
  <1>6. QED
    BY <1>2, <1>3, <1>4, <1>5, StepOfOne, Zenon

\* What a variable keeps that a step does not touch.
LEMMA Still ==
    ASSUME TypeOK, NEW r \in Requests
    PROVE  /\ pc' = pc => pc' \in [Requests -> Labels] /\ Same(pc, pc', r)
           /\ todo' = todo => /\ todo' \in [Requests -> Seq({"wallet", "subscription"})]
                              /\ Same(todo, todo', r)
           /\ price' = price => price' \in [Requests -> Nat] /\ Same(price, price', r)
           /\ bill' = bill => bill' \in [Requests -> Nat] /\ Same(bill, bill', r)
           /\ owe' = owe => owe' \in [Requests -> Nat] /\ Same(owe, owe', r)
           /\ events' = events => events' \in [Requests -> Events]
           /\ back' = back => back' \in [Requests -> BackLabels] /\ Same(back, back', r)
           /\ tries' = tries => tries' \in [Requests -> 0..3] /\ Same(tries, tries', r)
           /\ wallet' = wallet => wallet' \in Int
           /\ token' = token => token' \in Int
           /\ paid' = paid => paid' \in [Requests -> Paid] /\ Same(paid, paid', r)
  BY LabelSet, Zenon DEF TypeOK, Same, BackLabels, Paid

LEMMA TakeTokenKeeps ==
    ASSUME BInv, PayInv, NEW r \in Requests, TakeToken(r)
    PROVE  Kept
  <1>1. TypeOK /\ Control(r) /\ Enough(r)
    BY Zenon DEF BInv, PayInv
  <1>2. /\ pc[r] = "take" /\ todo' = todo
        /\ UNCHANGED <<ses, price, bill, owe, events, back, tries, wallet, sub, record, tx, clock, stale>>
    BY DEF TakeToken, GiveUp, refund
  <1>3. CASE Goto(r, "fund") /\ FromToken(r, ses[r].hold) /\ NoFault
    <2>1. pc' \in [Requests -> Labels] /\ pc'[r] = "fund" /\ Same(pc, pc', r)
      BY <1>1, <1>3, GotoStep DEF Labels, Unfunded
    <2>2. token' \in Int /\ Moved(r, 0, OnToken(r, ses[r].hold))
      BY <1>1, <1>3, Values, TokenMoves
    <2>3. Framed(r)
      BY <1>1, <1>2, <1>3, <2>1, <2>2, Still DEF Framed, Moved
    <2>4. Control(r)'
      BY <1>1, <1>2, <2>1 DEF Control, Answered, Unfunded
    <2>m. /\ paid'[r].fund = paid[r].fund + 0
          /\ r \notin Playground => paid'[r].tok = paid[r].tok + ses[r].hold
          /\ r \in Playground => paid'[r].tok = paid[r].tok + 0
      BY <2>2, MovedBy
    <2>5. Enough(r)'
      <3>1. back[r] = "idle" /\ paid[r].fund = 0 /\ paid[r].tok >= 0
        BY <1>1, <1>2, Values DEF Control, BackLabels, Enough, Unfunded
      <3>2. paid[r].tok \in Int /\ ses[r].hold \in Nat
        BY <1>1, Values
      <3>3. paid'[r].tok >= 0 /\ (r \notin Playground => paid'[r].tok >= ses[r].hold)
        BY <2>m, <3>1, <3>2
      <3>4. ~HoldsFund(r)'
        BY <1>2, <2>1, <3>1 DEF HoldsFund
      <3>5. QED
        BY <1>2, <2>m, <3>1, <3>3, <3>4 DEF Enough, UsesToken
    <2>6. Sound(r)
      BY <1>1, <1>2, <1>3, <2>1, <2>m, Values DEF Sound, Booked, OnToken, UsesToken, Unfunded
    <2>7. QED
      BY <2>3, <2>4, <2>5, <2>6, FramedKeeps, Zenon
  <1>4. CASE GiveUp(r) /\ Fault(r) /\ UNCHANGED <<token, paid>>
    <2>1. pc' \in [Requests -> Labels] /\ pc'[r] = "end" /\ Same(pc, pc', r)
      BY <1>1, <1>4, GotoStep DEF GiveUp, Labels
    <2>2. Framed(r)
      BY <1>1, <1>2, <1>4, <2>1, Still DEF Framed
    <2>3. Control(r)'
      BY <1>1, <1>2, <2>1 DEF Control, Answered, Unfunded
    <2>4. Enough(r)'
      BY <1>1, <1>2, <1>4, <2>1, Values DEF Enough, Unfunded, Answered,
           HoldsFund, HoldsToken, UsesToken, Control
    <2>5. QED
      BY <1>4, <2>2, <2>3, <2>4, FramedKeeps, Zenon DEF Sound
  <1>5. QED
    BY <1>3, <1>4, Zenon DEF TakeToken

LEMMA HoldWalletKeeps ==
    ASSUME BInv, PayInv, NEW r \in Requests, HoldWallet(r)
    PROVE  Kept
  <1>1. TypeOK /\ Control(r) /\ Enough(r)
    BY Zenon DEF BInv, PayInv
  <1>2. /\ pc[r] = "fund" /\ ses[r].source = "wallet"
        /\ UNCHANGED <<todo, ses, price, bill, owe, events, back, tries, token, sub, record, tx, clock, stale>>
    BY DEF HoldWallet, refund
  <1>3. CASE FromWallet(r, ses[r].hold) /\ Goto(r, "running") /\ NoFault
    <2>1. pc' \in [Requests -> Labels] /\ pc'[r] = "running" /\ Same(pc, pc', r)
      BY <1>1, <1>3, GotoStep DEF Labels, Answered
    <2>2. wallet' \in Int /\ Moved(r, ses[r].hold, 0)
      BY <1>1, <1>3, Values, WalletMoves
    <2>3. Framed(r)
      BY <1>1, <1>2, <1>3, <2>1, <2>2, Still DEF Framed, Moved
    <2>4. Control(r)'
      BY <1>1, <1>2, <2>1 DEF Control, Answered, Unfunded
    <2>5. Enough(r)'
      BY <1>1, <1>2, <2>1, <2>2, Values DEF Enough, Moved, Unfunded, Answered,
           HoldsFund, HoldsToken, UsesToken, Control
    <2>m. paid'[r].fund = paid[r].fund + ses[r].hold /\ paid'[r].tok = paid[r].tok + 0
      BY <2>2, Zenon DEF Moved
    <2>6. Booked(r) => Booked(r)'
      <3>1. back[r] = "idle"
        BY <1>1, <1>2, Values DEF Control, BackLabels
      <3>2. Booked(r) => /\ paid[r].fund = 0 /\ bill[r] = 0
                         /\ paid[r].tok = OnToken(r, ses[r].hold)
        BY <1>2 DEF Booked, Unfunded
      <3>3. QED
        BY <1>1, <1>2, <2>1, <2>m, <3>1, <3>2, Values DEF Booked, OnToken, UsesToken,
             Unfunded, HeldFund, HeldTok
    <2>7. QED
      BY <1>3, <2>3, <2>4, <2>5, <2>6, FramedKeeps, Zenon DEF Sound
  <1>4. CASE Fault(r) /\ Goto(r, "undoLast") /\ UNCHANGED <<wallet, paid>>
    <2>1. pc' \in [Requests -> Labels] /\ pc'[r] = "undoLast" /\ Same(pc, pc', r)
      BY <1>1, <1>4, GotoStep DEF Labels, Unfunded
    <2>2. Framed(r)
      BY <1>1, <1>2, <1>4, <2>1, Still DEF Framed
    <2>3. Control(r)'
      BY <1>1, <1>2, <2>1 DEF Control, Answered, Unfunded
    <2>4. Enough(r)'
      BY <1>1, <1>2, <1>4, <2>1, Values DEF Enough, Unfunded, Answered,
           HoldsFund, HoldsToken, UsesToken, Control
    <2>5. QED
      BY <1>4, <2>2, <2>3, <2>4, FramedKeeps, Zenon DEF Sound
  <1>5. QED
    BY <1>3, <1>4, Zenon DEF HoldWallet

LEMMA UndoKeeps ==
    ASSUME BInv, PayInv, NEW r \in Requests, Undo(r)
    PROVE  Kept
  <1>1. TypeOK /\ Control(r) /\ Enough(r)
    BY Zenon DEF BInv, PayInv
  <1>2. /\ pc[r] \in {"undo", "undoLast"}
        /\ UNCHANGED <<ses, price, bill, owe, events, back, tries, wallet, sub, record, tx, clock, stale>>
    BY DEF Undo, refund
  <1>3. /\ pc' \in [Requests -> Labels] /\ Same(pc, pc', r)
        /\ pc'[r] \in {"end", "try"}
        /\ todo' \in [Requests -> Seq({"wallet", "subscription"})] /\ Same(todo, todo', r)
        /\ pc'[r] = "try" => todo'[r] # <<>>
    <2>1. NextSource(r) \/ GiveUp(r)
      BY Zenon DEF Undo
    <2>2. NextSource(r) => todo[r] # <<>>
      <3>1. CASE pc[r] = "undo"
        BY <1>1, <3>1 DEF Control
      <3>2. CASE pc[r] = "undoLast"
        <4>1. GiveUp(r)
          BY <3>2 DEF Undo
        <4>2. pc \in [Requests -> Labels] /\ todo' = todo
          BY <1>1, <4>1, LabelSet, Zenon DEF TypeOK, GiveUp
        <4>3. todo \in [Requests -> Seq({"wallet", "subscription"})]
          BY <1>1, Zenon DEF TypeOK
        <4>4. CASE todo[r] = <<>>
          <5>1. NextSource(r) => pc'[r] = "try"
            BY <4>2, <4>4 DEF NextSource, Goto
          <5>2. pc'[r] = "end"
            BY <4>1, <4>2 DEF GiveUp, Goto
          <5>3. QED
            BY <5>1, <5>2
        <4>5. QED
          BY <4>4
      <3>3. QED
        BY <1>2, <3>1, <3>2
    <2>3. QED
      BY <1>1, <2>1, <2>2, NextStep, Zenon
  <1>4. CASE FromToken(r, -ses[r].hold) /\ NoFault
    <2>1. token' \in Int /\ Moved(r, 0, OnToken(r, -ses[r].hold))
      <3>1. -ses[r].hold \in Int
        BY <1>1, Values
      <3>2. QED
        BY <1>1, <1>4, <3>1, TokenMoves, Zenon
    <2>2. Framed(r)
      BY <1>1, <1>2, <1>3, <1>4, <2>1, Still DEF Framed, Moved
    <2>3. Control(r)'
      BY <1>1, <1>2, <1>3 DEF Control, Answered, Unfunded
    <2>m. /\ paid'[r].fund = paid[r].fund + 0
          /\ r \notin Playground => paid'[r].tok = paid[r].tok + (-ses[r].hold)
          /\ r \in Playground => paid'[r].tok = paid[r].tok + 0
      BY <2>1, MovedBy
    <2>v. paid[r].tok \in Int /\ ses[r].hold \in Nat
      BY <1>1, Values
    <2>4. Enough(r)'
      <3>1. /\ back[r] = "idle" /\ paid[r].fund = 0 /\ paid[r].tok >= 0
            /\ r \notin Playground => paid[r].tok >= ses[r].hold
        BY <1>1, <1>2, Values DEF Control, BackLabels, Enough, Unfunded, HoldsToken, UsesToken
      <3>2. paid'[r].tok >= 0 /\ paid'[r].fund = 0 /\ paid'[r].fund >= 0
        BY <2>m, <2>v, <3>1
      <3>3. ~HoldsFund(r)' /\ ~HoldsToken(r)'
        BY <1>2, <1>3, <3>1 DEF HoldsFund, HoldsToken, Answered
      <3>4. QED
        BY <3>2, <3>3, Zenon DEF Enough
    <2>5. Booked(r) => Booked(r)'
      <3>1. back[r] = "idle"
        BY <1>1, <1>2, Values DEF Control, BackLabels
      <3>2. Booked(r) => /\ paid[r].fund = 0 /\ bill[r] = 0
                         /\ paid[r].tok = OnToken(r, ses[r].hold)
        BY <1>2 DEF Booked, Unfunded
      <3>3. QED
        <4>1. Booked(r) => paid'[r].fund = 0 /\ paid'[r].tok = 0
          <5>1. CASE r \in Playground
            BY <2>m, <2>v, <3>2, <5>1 DEF OnToken, UsesToken
          <5>2. CASE r \notin Playground
            BY <2>m, <2>v, <3>2, <5>2 DEF OnToken, UsesToken
          <5>3. QED
            BY <5>1, <5>2
        <4>p. Booked(r) => bill'[r] = 0
          BY <1>2, <3>2
        <4>2. back'[r] = "idle" /\ pc'[r] \in {"end", "try"}
          BY <1>2, <1>3, <3>1
        <4>b. r \notin Realtime => bill'[r] = price'[r]
          BY <1>1, <1>2 DEF Control
        <4>3. QED
          BY <4>1, <4>p, <4>2, <4>b DEF Booked, OnToken, Unfunded
    <2>6. QED
      BY <1>4, <2>2, <2>3, <2>4, <2>5, FramedKeeps, Zenon DEF Sound
  <1>5. CASE Fault(r) /\ UNCHANGED <<token, paid>>
    <2>1. Framed(r)
      BY <1>1, <1>2, <1>3, <1>5, Still DEF Framed
    <2>2. Control(r)'
      BY <1>1, <1>2, <1>3 DEF Control, Answered, Unfunded
    <2>3. Enough(r)'
      BY <1>1, <1>2, <1>3, <1>5, Values DEF Enough, Unfunded, Answered,
           HoldsFund, HoldsToken, UsesToken, Control
    <2>4. QED
      BY <1>5, <2>1, <2>2, <2>3, FramedKeeps, Zenon DEF Sound
  <1>6. QED
    BY <1>4, <1>5, Zenon DEF Undo

-----------------------------------------------------------------------------
(* The provider's answer *)

LEMMA ServeKeeps ==
    ASSUME BInv, PayInv, NEW r \in Requests, NEW q \in Prices, Serve(r, q)
    PROVE  Kept
  <1>1. TypeOK /\ Control(r) /\ Enough(r)
    BY Zenon DEF BInv, PayInv
  <1>2. /\ pc[r] = "running" /\ r \notin Realtime /\ NoFault
        /\ UNCHANGED <<todo, ses, owe, events, back, tries, wallet, token, sub, record, tx,
                       clock, paid, stale>>
    BY DEF Serve, refund, books, history, NoFault
  <1>3. pc' \in [Requests -> Labels] /\ pc'[r] = "settle" /\ Same(pc, pc', r)
    BY <1>1, GotoStep DEF Serve, Labels, Answered
  <1>4. /\ bill' \in [Requests -> Nat] /\ Same(bill, bill', r)
        /\ price' \in [Requests -> Nat] /\ Same(price, price', r)
        /\ bill'[r] = price'[r]
    <2>1. q \in Nat
      BY QuotaAssumption
    <2>2. bill \in [Requests -> Nat] /\ price \in [Requests -> Nat]
      BY <1>1, Zenon DEF TypeOK
    <2>3. QED
      BY <2>1, <2>2 DEF Serve, Same
  <1>5. Framed(r)
    BY <1>1, <1>2, <1>3, <1>4, Still DEF Framed
  <1>6. back[r] = "idle"
    BY <1>1, <1>2, Values DEF Control, BackLabels
  <1>7. Control(r)'
    BY <1>1, <1>2, <1>3, <1>4 DEF Control, Answered, Unfunded
  <1>8. Enough(r)'
    BY <1>1, <1>2, <1>3, <1>6 DEF Enough, Unfunded, Answered, HoldsFund, HoldsToken, UsesToken
  <1>9. Booked(r) => Booked(r)'
    <2>1. Booked(r) => paid[r].fund = ses[r].hold /\ paid[r].tok = OnToken(r, ses[r].hold)
      BY <1>1, <1>2, <1>6, Values DEF Booked, HeldFund, HeldTok
    <2>2. QED
      BY <1>2, <1>3, <1>6, <2>1 DEF Booked, Unfunded, OnToken, UsesToken
  <1>10. QED
    BY <1>2, <1>5, <1>7, <1>8, <1>9, FramedKeeps, Zenon DEF Sound

LEMMA EventKeeps ==
    ASSUME BInv, PayInv, NEW r \in Requests, NEW q \in Prices, Event(r, q)
    PROVE  Kept
  <1>1. TypeOK /\ Control(r) /\ Enough(r)
    BY Zenon DEF BInv, PayInv
  <1>2. /\ pc[r] = "running" /\ r \in Realtime /\ NoFault
        /\ UNCHANGED <<todo, ses, price, bill, back, tries, wallet, token, sub, record, tx,
                       clock, paid, stale>>
    BY DEF Event, refund, books, history, NoFault
  <1>3. PICK l \in {"charge", "last"} : Goto(r, l)
    BY DEF Event, Charge
  <1>4. pc' \in [Requests -> Labels] /\ pc'[r] = l /\ Same(pc, pc', r)
    <2>1. l \in Labels
      BY DEF Labels, Answered
    <2>2. QED
      BY <1>1, <1>3, <2>1, GotoStep, Zenon
  <1>5. owe' \in [Requests -> Nat] /\ Same(owe, owe', r)
    <2>1. q \in Nat
      BY QuotaAssumption
    <2>2. owe \in [Requests -> Nat]
      BY <1>1, Zenon DEF TypeOK
    <2>3. owe' = [owe EXCEPT ![r] = q] \/ owe' = owe
      BY Zenon DEF Event, Charge
    <2>4. QED
      BY <2>1, <2>2, <2>3 DEF Same
  <1>6. events' \in [Requests -> Events]
    <2>1. events \in [Requests -> Events]
      BY <1>1, Zenon DEF TypeOK
    <2>2. events[r].seen < MaxEvents /\ events' = [events EXCEPT ![r].seen = @ + 1]
      BY Zenon DEF Event
    <2>3. QED
      BY <2>1, <2>2, BoundAssumption DEF Events
  <1>7. Framed(r)
    BY <1>1, <1>2, <1>4, <1>5, <1>6, Still DEF Framed
  <1>8. back[r] = "idle"
    BY <1>1, <1>2, Values DEF Control, BackLabels
  <1>9. Control(r)'
    BY <1>1, <1>2, <1>4 DEF Control, Answered, Unfunded
  <1>10. Enough(r)'
    BY <1>1, <1>2, <1>4, <1>8 DEF Enough, Unfunded, Answered, HoldsFund, HoldsToken, UsesToken
  <1>11. Booked(r) => Booked(r)'
    <2>1. Booked(r) => /\ paid[r].fund = ses[r].hold + bill[r]
                       /\ paid[r].tok = OnToken(r, ses[r].hold + bill[r])
      BY <1>2, <1>8 DEF Booked, HeldFund, HeldTok
    <2>2. Booked(r) => paid[r].tok = OnToken(r, paid[r].fund)
      BY <2>1
    <2>3. QED
      BY <1>2, <1>4, <1>8, <2>1, <2>2 DEF Booked, Unfunded, OnToken, UsesToken, HeldFund, HeldTok
  <1>12. QED
    BY <1>2, <1>7, <1>9, <1>10, <1>11, FramedKeeps, Zenon DEF Sound

LEMMA HangUpKeeps ==
    ASSUME BInv, PayInv, NEW r \in Requests, HangUp(r)
    PROVE  Kept
  <1>1. TypeOK /\ Control(r) /\ Enough(r)
    BY Zenon DEF BInv, PayInv
  <1>2. /\ pc[r] = "running" /\ r \in Realtime /\ NoFault
        /\ UNCHANGED <<todo, ses, price, bill, owe, events, back, tries, wallet, token, sub, record, tx,
                       clock, paid, stale>>
    BY DEF HangUp, refund, books, history, NoFault
  <1>3. pc' \in [Requests -> Labels] /\ pc'[r] = "last" /\ Same(pc, pc', r)
    BY <1>1, GotoStep DEF HangUp, Labels, Answered
  <1>4. Framed(r)
    BY <1>1, <1>2, <1>3, Still DEF Framed
  <1>5. back[r] = "idle"
    BY <1>1, <1>2, Values DEF Control, BackLabels
  <1>6. Control(r)'
    BY <1>1, <1>2, <1>3 DEF Control, Answered, Unfunded
  <1>7. Enough(r)'
    BY <1>1, <1>2, <1>3, <1>5 DEF Enough, Unfunded, Answered, HoldsFund, HoldsToken, UsesToken
  <1>8. Booked(r) => Booked(r)'
    BY <1>2, <1>3, <1>5 DEF Booked, Unfunded, OnToken, UsesToken, HeldFund, HeldTok
  <1>9. QED
    BY <1>2, <1>4, <1>6, <1>7, <1>8, FramedKeeps, Zenon DEF Sound

LEMMA LastUsageKeeps ==
    ASSUME BInv, PayInv, NEW r \in Requests, NEW q \in Prices, LastUsage(r, q)
    PROVE  Kept
  <1>1. TypeOK /\ Control(r) /\ Enough(r)
    BY Zenon DEF BInv, PayInv
  <1>2. /\ pc[r] = "last" /\ NoFault
        /\ UNCHANGED <<todo, ses, price, bill, back, tries, wallet, token, sub, record, tx,
                       clock, paid, stale>>
    BY DEF LastUsage, refund, books, history, NoFault
  <1>3. PICK l \in {"charge", "last"} : Goto(r, l)
    <2>1. pc \in [Requests -> Labels]
      BY <1>1, LabelSet, Zenon DEF TypeOK
    <2>2. UNCHANGED pc => Goto(r, "last")
      BY <1>2, <2>1 DEF Goto
    <2>3. QED
      BY <2>2 DEF LastUsage, Charge
  <1>4. pc' \in [Requests -> Labels] /\ pc'[r] = l /\ Same(pc, pc', r)
    <2>1. l \in Labels
      BY DEF Labels, Answered
    <2>2. QED
      BY <1>1, <1>3, <2>1, GotoStep, Zenon
  <1>5. owe' \in [Requests -> Nat] /\ Same(owe, owe', r)
    <2>1. q \in Nat
      BY QuotaAssumption
    <2>2. owe \in [Requests -> Nat]
      BY <1>1, Zenon DEF TypeOK
    <2>3. owe' = [owe EXCEPT ![r] = q] \/ owe' = owe
      BY Zenon DEF LastUsage, Charge
    <2>4. QED
      BY <2>1, <2>2, <2>3 DEF Same
  <1>6. events' \in [Requests -> Events]
    <2>1. events \in [Requests -> Events]
      BY <1>1, Zenon DEF TypeOK
    <2>2. events[r].last < 2 /\ events' = [events EXCEPT ![r].last = @ + 1]
      BY Zenon DEF LastUsage
    <2>3. QED
      BY <2>1, <2>2, BoundAssumption DEF Events
  <1>7. Framed(r)
    BY <1>1, <1>2, <1>4, <1>5, <1>6, Still DEF Framed
  <1>8. back[r] = "idle" /\ r \in Realtime
    BY <1>1, <1>2, Values DEF Control, BackLabels
  <1>9. Control(r)'
    BY <1>1, <1>2, <1>4 DEF Control, Answered, Unfunded
  <1>10. Enough(r)'
    BY <1>1, <1>2, <1>4, <1>8 DEF Enough, Unfunded, Answered, HoldsFund, HoldsToken, UsesToken
  <1>11. Booked(r) => Booked(r)'
    <2>1. Booked(r) => /\ paid[r].fund = ses[r].hold + bill[r]
                       /\ paid[r].tok = OnToken(r, ses[r].hold + bill[r])
      BY <1>2, <1>8 DEF Booked, HeldFund, HeldTok
    <2>2. Booked(r) => paid[r].tok = OnToken(r, paid[r].fund)
      BY <2>1
    <2>3. QED
      BY <1>2, <1>4, <1>8, <2>1, <2>2 DEF Booked, Unfunded, OnToken, UsesToken, HeldFund, HeldTok
  <1>12. QED
    BY <1>2, <1>7, <1>9, <1>10, <1>11, FramedKeeps, Zenon DEF Sound

LEMMA ConcludeKeeps ==
    ASSUME BInv, PayInv, NEW r \in Requests, Conclude(r)
    PROVE  Kept
  <1>1. TypeOK /\ Control(r) /\ Enough(r)
    BY Zenon DEF BInv, PayInv
  <1>2. /\ pc[r] = "last" /\ NoFault
        /\ UNCHANGED <<todo, ses, price, bill, owe, events, back, tries, wallet, token, sub, record, tx,
                       clock, paid, stale>>
    BY DEF Conclude, refund, books, history, NoFault
  <1>3. pc' \in [Requests -> Labels] /\ pc'[r] = "end" /\ Same(pc, pc', r)
    BY <1>1, GotoStep DEF Conclude, Labels, Answered
  <1>4. Framed(r)
    BY <1>1, <1>2, <1>3, Still DEF Framed
  <1>5. back[r] = "idle" /\ r \in Realtime
    BY <1>1, <1>2, Values DEF Control, BackLabels
  <1>6. Control(r)'
    BY <1>1, <1>2, <1>3 DEF Control, Answered, Unfunded
  <1>7. Enough(r)'
    BY <1>1, <1>2, <1>3, <1>5 DEF Enough, Unfunded, Answered, HoldsFund, HoldsToken, UsesToken
  <1>8. Booked(r) => Booked(r)'
    <2>1. Booked(r) => /\ paid[r].fund = ses[r].hold + bill[r]
                       /\ paid[r].tok = OnToken(r, ses[r].hold + bill[r])
      BY <1>2, <1>5 DEF Booked, HeldFund, HeldTok
    <2>2. Booked(r) => paid[r].tok = OnToken(r, paid[r].fund)
      BY <2>1
    <2>3. QED
      BY <1>2, <1>3, <1>5, <2>2 DEF Booked, Unfunded, OnToken, UsesToken
  <1>9. QED
    BY <1>2, <1>4, <1>6, <1>7, <1>8, FramedKeeps, Zenon DEF Sound

LEMMA FailKeeps ==
    ASSUME BInv, PayInv, NEW r \in Requests, NEW violation \in BOOLEAN, Fail(r, violation)
    PROVE  Kept
  <1>1. TypeOK /\ Control(r) /\ Enough(r)
    BY Zenon DEF BInv, PayInv
  <1>2. /\ pc[r] = "running" /\ NoFault
        /\ UNCHANGED <<todo, ses, price, bill, events, tries, wallet, token, sub, record, tx,
                       clock, paid, stale>>
    BY DEF Fail, refund, books, history, NoFault
  <1>3. PICK l \in {"charge", "end"} : Goto(r, l)
    BY DEF Fail, Charge
  <1>4. pc' \in [Requests -> Labels] /\ pc'[r] = l /\ Same(pc, pc', r)
    <2>1. l \in Labels
      BY DEF Labels, Answered
    <2>2. QED
      BY <1>1, <1>3, <2>1, GotoStep, Zenon
  <1>5. owe' \in [Requests -> Nat] /\ Same(owe, owe', r)
    <2>1. owe \in [Requests -> Nat]
      BY <1>1, Zenon DEF TypeOK
    <2>2. owe' = [owe EXCEPT ![r] = Fee] \/ owe' = owe
      BY Zenon DEF Fail, Charge
    <2>3. QED
      BY <2>1, <2>2, QuotaAssumption DEF Same
  <1>6. PICK b \in BackLabels : /\ b = IF ses[r].hold > 0 THEN "fund" ELSE "done"
                                /\ BackGoto(r, b)
    BY DEF Fail, NeedsRefund, BackLabels
  <1>7. back' \in [Requests -> BackLabels] /\ back'[r] = b /\ Same(back, back', r)
    BY <1>1, <1>6, BackStep, Zenon
  <1>8. Framed(r)
    BY <1>1, <1>2, <1>4, <1>5, <1>7, Still DEF Framed
  <1>9. back[r] = "idle"
    BY <1>1, <1>2, Values DEF Control, BackLabels
  <1>10. Control(r)'
    BY <1>1, <1>2, <1>4, <1>6, <1>7, <1>9 DEF Control, Answered, Unfunded
  <1>11. Enough(r)'
    BY <1>1, <1>2, <1>4, <1>6, <1>7, <1>9 DEF Enough, Unfunded, Answered, HoldsFund, HoldsToken,
         UsesToken
  <1>12. Booked(r) => Booked(r)'
    <2>1. Booked(r) => /\ paid[r].fund = ses[r].hold + bill[r]
                       /\ paid[r].tok = OnToken(r, ses[r].hold + bill[r])
      BY <1>2, <1>9 DEF Booked, HeldFund, HeldTok
    <2>2. b = "fund" \/ (b = "done" /\ ses[r].hold = 0)
      BY <1>1, <1>6, Values
    <2>b. r \notin Realtime => bill'[r] = price'[r]
      BY <1>1, <1>2 DEF Control
    <2>3. QED
      BY <1>2, <1>4, <1>7, <2>1, <2>2, <2>b DEF Booked, Unfunded, OnToken, UsesToken, HeldFund, HeldTok
  <1>13. QED
    BY <1>2, <1>8, <1>10, <1>11, <1>12, FramedKeeps, Zenon DEF Sound

LEMMA SettleNothingKeeps ==
    ASSUME BInv, PayInv, NEW r \in Requests, SettleNothing(r)
    PROVE  Kept
  <1>1. TypeOK /\ Control(r) /\ Enough(r)
    BY Zenon DEF BInv, PayInv
  <1>2. /\ pc[r] = "settle" /\ Difference(r) = 0 /\ NoFault
        /\ UNCHANGED <<todo, ses, price, bill, owe, events, back, tries, wallet, token, sub, record, tx,
                       clock, paid, stale>>
    BY DEF SettleNothing, refund, books, history, NoFault
  <1>3. pc' \in [Requests -> Labels] /\ pc'[r] = "end" /\ Same(pc, pc', r)
    BY <1>1, GotoStep DEF SettleNothing, Labels, Answered
  <1>4. Framed(r)
    BY <1>1, <1>2, <1>3, Still DEF Framed
  <1>5. back[r] = "idle"
    BY <1>1, <1>2, Values DEF Control, BackLabels
  <1>6. Control(r)'
    BY <1>1, <1>2, <1>3 DEF Control, Answered, Unfunded
  <1>7. Enough(r)'
    BY <1>1, <1>2, <1>3, <1>5 DEF Enough, Unfunded, Answered, HoldsFund, HoldsToken, UsesToken
  <1>8. Booked(r) => Booked(r)'
    <2>1. Booked(r) => paid[r].fund = ses[r].hold /\ paid[r].tok = OnToken(r, paid[r].fund)
      BY <1>2 DEF Booked
    <2>2. bill[r] = ses[r].hold /\ bill[r] = price[r]
      BY <1>1, <1>2, Values DEF Difference, Control
    <2>3. QED
      BY <1>2, <1>3, <1>5, <2>1, <2>2 DEF Booked, Unfunded, OnToken, UsesToken
  <1>9. QED
    BY <1>2, <1>4, <1>6, <1>7, <1>8, FramedKeeps, Zenon DEF Sound

-----------------------------------------------------------------------------
(* Settling: the funding source, then the token *)

LEMMA OwingStep ==
    ASSUME TypeOK, NEW r \in Requests, pc[r] \in {"settle", "charge"}, price' = Owing(r)
    PROVE  /\ price' \in [Requests -> Nat] /\ Same(price, price', r)
           /\ pc[r] = "settle" => price'[r] = price[r]
           /\ pc[r] = "charge" => price'[r] = price[r] + owe[r]
  <1>1. price \in [Requests -> Nat] /\ owe \in [Requests -> Nat]
    BY Zenon DEF TypeOK
  <1>2. CASE pc[r] = "settle"
    <2>1. price' = price
      BY <1>2 DEF Owing, Charging
    <2>2. QED
      BY <1>1, <1>2, <2>1 DEF Same
  <1>3. CASE pc[r] = "charge"
    <2>1. PICK n \in Nat : n = price[r] + owe[r]
      BY <1>1
    <2>2. price' = [price EXCEPT ![r] = n]
      BY <1>3, <2>1 DEF Owing, Charging
    <2>3. QED
      BY <1>1, <1>3, <2>1, <2>2 DEF Same
  <1>4. QED
    BY <1>2, <1>3

LEMMA FundedStep ==
    ASSUME TypeOK, NEW r \in Requests, pc[r] \in {"settle", "charge"}, Funded(r)
    PROVE  /\ pc' \in [Requests -> Labels] /\ Same(pc, pc', r)
           /\ bill' \in [Requests -> Nat] /\ Same(bill, bill', r)
           /\ price' \in [Requests -> Nat] /\ Same(price, price', r)
           /\ pc[r] = "settle" => price'[r] = price[r]
           /\ pc[r] = "charge" => price'[r] = price[r] + owe[r]
           /\ pc[r] = "settle" => pc'[r] = "settleToken" /\ bill'[r] = bill[r]
           /\ pc[r] = "charge" => pc'[r] = "chargeToken" /\ bill'[r] = bill[r] + owe[r]
  <1>1. bill \in [Requests -> Nat] /\ owe \in [Requests -> Nat]
    BY Zenon DEF TypeOK
  <1>2. PICK l : /\ l = IF pc[r] = "settle" THEN "settleToken" ELSE "chargeToken"
                 /\ Goto(r, l)
    BY Zenon DEF Funded
  <1>3. l \in Labels
    BY <1>2 DEF Labels, Answered
  <1>4. pc' \in [Requests -> Labels] /\ pc'[r] = l /\ Same(pc, pc', r)
    BY <1>2, <1>3, GotoStep, Zenon
  <1>p. /\ price' \in [Requests -> Nat] /\ Same(price, price', r)
        /\ pc[r] = "settle" => price'[r] = price[r]
        /\ pc[r] = "charge" => price'[r] = price[r] + owe[r]
    BY OwingStep, Zenon DEF Funded
  <1>5. CASE pc[r] = "settle"
    <2>1. bill' = bill
      BY <1>5, Zenon DEF Funded
    <2>2. QED
      BY <1>1, <1>2, <1>4, <1>5, <1>p, <2>1 DEF Same
  <1>6. CASE pc[r] = "charge"
    <2>1. PICK n \in Nat : n = bill[r] + owe[r]
      BY <1>1
    <2>2. bill' = [bill EXCEPT ![r] = n]
      BY <1>6, <2>1 DEF Funded
    <2>3. QED
      BY <1>1, <1>2, <1>4, <1>6, <1>p, <2>1, <2>2 DEF Same
  <1>7. QED
    BY <1>5, <1>6

LEMMA RefusedStep ==
    ASSUME TypeOK, NEW r \in Requests, pc[r] \in {"settle", "charge"}, Refused(r)
    PROVE  /\ pc' \in [Requests -> Labels] /\ Same(pc, pc', r)
           /\ pc'[r] = AfterError(r)
           /\ bill' \in [Requests -> Nat] /\ Same(bill, bill', r)
           /\ price' \in [Requests -> Nat] /\ Same(price, price', r)
           /\ pc[r] = "settle" => price'[r] = price[r]
           /\ pc[r] = "charge" => price'[r] = price[r] + owe[r]
           /\ pc[r] = "settle" => bill'[r] = ses[r].hold
           /\ pc[r] = "charge" => bill'[r] = bill[r]
  <1>1. bill \in [Requests -> Nat] /\ ses[r].hold \in Nat
    BY Values, Zenon DEF TypeOK
  <1>2. pc' \in [Requests -> Labels] /\ pc'[r] = AfterError(r) /\ Same(pc, pc', r)
    <2>1. AfterError(r) \in Labels
      BY DEF AfterError, Labels, Answered
    <2>2. QED
      BY <2>1, GotoStep, Zenon DEF Refused
  <1>3. bill' = IF pc[r] = "settle" THEN [bill EXCEPT ![r] = ses[r].hold] ELSE bill
    BY Zenon DEF Refused
  <1>4. /\ price' \in [Requests -> Nat] /\ Same(price, price', r)
        /\ pc[r] = "settle" => price'[r] = price[r]
        /\ pc[r] = "charge" => price'[r] = price[r] + owe[r]
    BY OwingStep, Zenon DEF Refused
  <1>5. QED
    BY <1>1, <1>2, <1>3, <1>4 DEF Same

\* The funding source of r has moved by the difference between price and hold ...
LEMMA SettleFunded ==
    ASSUME NEW r \in Requests, NEW h \in Nat, NEW n \in Nat, NEW f \in Int, NEW t \in Int,
           NEW f2 \in Int, f2 = f + (n - h),
           Enough(r), pc[r] = "settle", pc'[r] = "settleToken",
           back[r] = "idle", back'[r] = "idle",
           ses[r].hold = h, ses'[r] = ses[r], bill'[r] = n,
           paid[r].fund = f, paid[r].tok = t,
           paid'[r].fund = f2, paid'[r].tok = t
    PROVE  Enough(r)' /\ (Booked(r) => Booked(r)')
  <1>1. /\ t >= 0 /\ UsesToken(r) => t >= h
        /\ ses[r].source # "subscription" => f >= h
    BY DEF Enough, HoldsToken, HoldsFund, Answered
  <1>2. ses[r].source # "subscription" => f2 >= 0
    BY <1>1
  <1>3. Enough(r)'
    <2>1. ~HoldsFund(r)' /\ pc'[r] \notin Unfunded
      BY DEF HoldsFund, Unfunded
    <2>2. QED
      BY <1>1, <1>2, <2>1 DEF Enough, UsesToken
  <1>4. ASSUME Booked(r)
        PROVE  Booked(r)'
    <2>1. f = h /\ t = OnToken(r, h)
      BY <1>4 DEF Booked
    <2>2. f2 = n
      BY <2>1
    <2>3. QED
      BY <2>1, <2>2 DEF Booked, Unfunded, OnToken, UsesToken
  <1>5. QED
    BY <1>3, <1>4, Zenon

\* ... or by what it owes.
LEMMA ChargeFunded ==
    ASSUME NEW r \in Requests, NEW h \in Nat, NEW n \in Nat, NEW o \in Nat,
           NEW f \in Int, NEW t \in Int,
           NEW f2 \in Int, f2 = f + o, NEW n2 \in Nat, n2 = n + o,
           Enough(r), pc[r] = "charge", pc'[r] = "chargeToken",
           back[r] \in BackLabels, back'[r] = back[r],
           ses[r].hold = h, ses'[r] = ses[r], bill[r] = n, bill'[r] = n2, owe'[r] = o,
           paid[r].fund = f, paid[r].tok = t,
           paid'[r].fund = f2, paid'[r].tok = t
    PROVE  Enough(r)' /\ (Booked(r) => Booked(r)')
  <1>1. Enough(r)'
    BY DEF Enough, HoldsToken, HoldsFund, Answered, Unfunded, UsesToken
  <1>2. PICK hf \in Nat, ht \in Nat : /\ hf = HeldFund(r) /\ ht = HeldTok(r)
                                      /\ hf = HeldFund(r)' /\ ht = HeldTok(r)'
    BY DEF HeldFund, HeldTok
  <1>3. ASSUME Booked(r)
        PROVE  Booked(r)'
    <2>1. f = hf + n /\ t = OnToken(r, ht + n)
      BY <1>2, <1>3 DEF Booked
    <2>2. f2 = hf + n2 /\ ht + n = ht + n2 - o
      BY <2>1
    <2>3. t = OnToken(r, ht + n2 - o)
      BY <2>1, <2>2, Zenon
    <2>4. QED
      BY <1>2, <2>2, <2>3 DEF Booked, Unfunded, OnToken, UsesToken
  <1>4. QED
    BY <1>1, <1>3, Zenon

LEMMA FundedBooks ==
    ASSUME TypeOK, NEW r \in Requests, Control(r), Enough(r), MustPay(r),
           pc[r] = "settle" => pc'[r] = "settleToken" /\ bill'[r] = bill[r],
           pc[r] = "charge" => pc'[r] = "chargeToken" /\ bill'[r] = bill[r] + owe[r],
           pc[r] = "settle" => price'[r] = price[r],
           pc[r] = "charge" => price'[r] = price[r] + owe[r],
           todo'[r] = todo[r], ses'[r] = ses[r], owe'[r] = owe[r], back'[r] = back[r],
           tries'[r] = tries[r], record'[r] = record[r], tx'[Back(r)] = tx[Back(r)],
           paid'[r].fund = paid[r].fund + Amount(r), paid'[r].tok = paid[r].tok
    PROVE  Control(r)' /\ Enough(r)' /\ (Booked(r) => Booked(r)')
  <1>1. /\ pc[r] \in {"settle", "charge"} /\ back[r] \in BackLabels
        /\ bill[r] \in Nat /\ price[r] \in Nat /\ owe[r] \in Nat /\ ses[r].hold \in Nat
        /\ paid[r].fund \in Int /\ paid[r].tok \in Int
    BY Values DEF MustPay
  <1>2. Control(r)'
    BY <1>1 DEF Control, Answered, Unfunded, MustPay
  <1>3. CASE pc[r] = "settle"
    <2>1. back[r] = "idle" /\ back'[r] = "idle"
      BY <1>1, <1>3 DEF Control, BackLabels
    <2>p. price[r] = bill[r]
      BY <1>1, <1>3 DEF Control
    <2>2. paid'[r].fund = paid[r].fund + (bill[r] - ses[r].hold)
      BY <1>3, <2>p, Zenon DEF Amount, Difference
    <2>3. pc'[r] = "settleToken" /\ bill'[r] = bill[r]
      BY <1>3, Zenon
    <2>f. PICK f2 \in Int : /\ f2 = paid[r].fund + (bill[r] - ses[r].hold)
                            /\ paid'[r].fund = f2
      BY <1>1, <2>2
    <2>4. Enough(r)' /\ (Booked(r) => Booked(r)')
      BY <1>1, <1>3, <2>1, <2>3, <2>f, SettleFunded, Zenon
    <2>5. QED
      BY <1>2, <2>4, Zenon
  <1>4. CASE pc[r] = "charge"
    <2>1. paid'[r].fund = paid[r].fund + owe[r]
      BY <1>4 DEF Amount
    <2>2. pc'[r] = "chargeToken" /\ bill'[r] = bill[r] + owe[r]
      BY <1>4, Zenon
    <2>f. PICK f2 \in Int : f2 = paid[r].fund + owe[r] /\ paid'[r].fund = f2
      BY <1>1, <2>1
    <2>n. PICK n2 \in Nat : n2 = bill[r] + owe[r] /\ bill'[r] = n2
      BY <1>1, <2>2
    <2>3. Enough(r)' /\ (Booked(r) => Booked(r)')
      BY <1>1, <1>4, <2>2, <2>f, <2>n, ChargeFunded, Zenon
    <2>4. QED
      BY <1>2, <2>3, Zenon
  <1>5. QED
    BY <1>1, <1>3, <1>4

\* A subscription has not enough left for what it is asked.
UsedUp(r) == /\ ses[r].source = "subscription" /\ SubTotal[ses[r].sub] > 0
             /\ Amount(r) > 0

\* It has not moved.
LEMMA RefusedBooks ==
    ASSUME TypeOK, NEW r \in Requests, Control(r), Enough(r), MustPay(r),
           pc'[r] = AfterError(r),
           pc[r] = "settle" => bill'[r] = ses[r].hold,
           pc[r] = "charge" => bill'[r] = bill[r],
           pc[r] = "settle" => price'[r] = price[r],
           pc[r] = "charge" => price'[r] = price[r] + owe[r],
           todo'[r] = todo[r], ses'[r] = ses[r], owe'[r] = owe[r], back'[r] = back[r],
           tries'[r] = tries[r], record'[r] = record[r], tx'[Back(r)] = tx[Back(r)],
           paid'[r] = paid[r]
    PROVE  Control(r)' /\ Enough(r)' /\ (Booked(r) /\ UsedUp(r) => Booked(r)')
  <1>1. /\ pc[r] \in {"settle", "charge"} /\ back[r] \in BackLabels
        /\ bill[r] \in Nat /\ price[r] \in Nat /\ owe[r] \in Nat /\ ses[r].hold \in Nat
        /\ paid[r].fund \in Int /\ paid[r].tok \in Int
    BY Values DEF MustPay
  <1>a. /\ pc'[r] \in {"last", "end"}
        /\ pc'[r] = "last" <=> pc[r] = "charge" /\ back[r] = "idle"
    BY <1>1 DEF AfterError, Charging
  <1>2. Control(r)'
    BY <1>1, <1>a DEF Control, Answered, Unfunded
  <1>3. Enough(r)'
    BY <1>1, <1>a DEF Enough, HoldsToken, HoldsFund, Answered, Unfunded, UsesToken
  <1>4. Booked(r) /\ UsedUp(r) => Booked(r)'
    <2>1. CASE pc[r] = "settle"
      <3>1. back[r] = "idle" /\ pc'[r] = "end"
        BY <1>1, <1>a, <2>1 DEF Control, BackLabels
      <3>2. UsedUp(r) => Short(r)'
        BY <1>1, <2>1, <3>1 DEF UsedUp, Short, Amount, Difference
      <3>3. QED
        BY <2>1, <3>1, <3>2 DEF Booked, Unfunded, OnToken, UsesToken
    <2>2. CASE pc[r] = "charge"
      <3>1. Booked(r) => /\ paid[r].fund = HeldFund(r) + bill[r]
                         /\ paid[r].tok = OnToken(r, HeldTok(r) + bill[r])
        BY <2>2 DEF Booked
      <3>2. HeldFund(r)' = HeldFund(r) /\ HeldTok(r)' = HeldTok(r)
        BY DEF HeldFund, HeldTok
      <3>3. CASE back[r] = "idle"
        <4>1. r \in Realtime /\ HeldFund(r) = ses[r].hold /\ HeldTok(r) = ses[r].hold
          BY <2>2, <3>3 DEF Control, HeldFund, HeldTok
        <4>2. pc'[r] = "last"
          BY <1>a, <2>2, <3>3
        <4>3. Booked(r) => /\ paid'[r].fund = HeldFund(r)' + bill'[r]
                           /\ paid'[r].tok = OnToken(r, HeldTok(r)' + bill'[r])
          BY <2>2, <3>1, <3>2
        <4>4. QED
          BY <3>3, <4>1, <4>2, <4>3 DEF Booked, Unfunded, OnToken, UsesToken
      <3>4. CASE back[r] # "idle"
        <4>1. Booked(r) => /\ paid'[r].fund = HeldFund(r)' + bill'[r]
                           /\ paid'[r].tok = OnToken(r, HeldTok(r)' + bill'[r])
          BY <2>2, <3>1, <3>2
        <4>2. pc'[r] = "end" /\ back'[r] # "idle"
          BY <1>a, <2>2, <3>4
        <4>3. r \notin Realtime => price[r] = 0 /\ bill[r] = 0
          BY <2>2 DEF Control
        <4>4. UsedUp(r) /\ r \notin Realtime => Short(r)'
          BY <1>1, <2>2, <4>2, <4>3 DEF UsedUp, Short, Amount
        <4>5. QED
          BY <4>1, <4>2, <4>4 DEF Booked, Unfunded, OnToken, UsesToken
      <3>5. QED
        BY <3>3, <3>4
    <2>3. QED
      BY <1>1, <2>1, <2>2
  <1>5. QED
    BY <1>2, <1>3, <1>4, Zenon

LEMMA AmountType ==
    ASSUME TypeOK, NEW r \in Requests
    PROVE  Amount(r) \in Int
  <1>1. price[r] \in Nat /\ ses[r].hold \in Nat /\ owe[r] \in Nat
    BY Values
  <1>2. Difference(r) \in Int
    BY <1>1 DEF Difference
  <1>3. Amount(r) = Difference(r) \/ Amount(r) = owe[r]
    BY Zenon DEF Amount
  <1>4. QED
    BY <1>1, <1>2, <1>3

LEMMA PayWalletKeeps ==
    ASSUME BInv, PayInv, NEW r \in Requests, PayWallet(r)
    PROVE  Kept
  <1>1. TypeOK /\ Control(r) /\ Enough(r)
    BY Zenon DEF BInv, PayInv
  <1>2. /\ MustPay(r) /\ pc[r] \in {"settle", "charge"}
        /\ UNCHANGED <<todo, ses, owe, events, back, tries, token, sub, record, tx, clock, stale>>
    BY DEF PayWallet, MustPay, refund
  <1>3. CASE FromWallet(r, Amount(r)) /\ Funded(r) /\ NoFault
    <2>1. wallet' \in Int /\ Moved(r, Amount(r), 0)
      BY <1>1, <1>3, AmountType, WalletMoves, Zenon
    <2>2. /\ pc' \in [Requests -> Labels] /\ Same(pc, pc', r)
          /\ price' \in [Requests -> Nat] /\ Same(price, price', r)
          /\ pc[r] = "settle" => price'[r] = price[r]
          /\ pc[r] = "charge" => price'[r] = price[r] + owe[r]
          /\ bill' \in [Requests -> Nat] /\ Same(bill, bill', r)
          /\ pc[r] = "settle" => pc'[r] = "settleToken" /\ bill'[r] = bill[r]
          /\ pc[r] = "charge" => pc'[r] = "chargeToken" /\ bill'[r] = bill[r] + owe[r]
      BY <1>1, <1>2, <1>3, FundedStep, Zenon
    <2>3. Framed(r)
      BY <1>1, <1>2, <1>3, <2>1, <2>2, Still DEF Framed, Moved
    <2>4. paid'[r].fund = paid[r].fund + Amount(r) /\ paid'[r].tok = paid[r].tok
      BY <1>1, <2>1, Values DEF Moved
    <2>5. Control(r)' /\ Enough(r)' /\ (Booked(r) => Booked(r)')
      BY <1>1, <1>2, <2>2, <2>4, FundedBooks, Zenon
    <2>6. QED
      BY <1>3, <2>3, <2>5, FramedKeeps, Zenon DEF Sound
  <1>4. CASE Fault(r) /\ Refused(r) /\ UNCHANGED <<wallet, paid>>
    <2>1. /\ pc' \in [Requests -> Labels] /\ Same(pc, pc', r) /\ pc'[r] = AfterError(r)
          /\ price' \in [Requests -> Nat] /\ Same(price, price', r)
          /\ pc[r] = "settle" => price'[r] = price[r]
          /\ pc[r] = "charge" => price'[r] = price[r] + owe[r]
          /\ bill' \in [Requests -> Nat] /\ Same(bill, bill', r)
          /\ pc[r] = "settle" => bill'[r] = ses[r].hold
          /\ pc[r] = "charge" => bill'[r] = bill[r]
      BY <1>1, <1>2, <1>4, RefusedStep, Zenon
    <2>2. Framed(r)
      BY <1>1, <1>2, <1>4, <2>1, Still DEF Framed
    <2>3. Control(r)' /\ Enough(r)'
      BY <1>1, <1>2, <1>4, <2>1, RefusedBooks, Zenon
    <2>4. QED
      BY <1>4, <2>2, <2>3, FramedKeeps, Zenon DEF Sound
  <1>5. QED
    BY <1>3, <1>4, Zenon DEF PayWallet

\* The token follows.
LEMMA TokenBooks ==
    ASSUME TypeOK, NEW r \in Requests, Control(r), Enough(r),
           NEW a \in Int, a = Amount(r), NEW t2 \in Int,
           pc[r] \in {"settleToken", "chargeToken"},
           pc'[r] = AfterCharge(r), price'[r] = price[r],
           bill'[r] = bill[r], ses'[r] = ses[r], back'[r] = back[r],
           paid'[r].fund = paid[r].fund, paid'[r].tok = t2, t2 = paid[r].tok + OnToken(r, a)
    PROVE  Enough(r)' /\ (Booked(r) => Booked(r)')
  <1>1. /\ back[r] \in BackLabels /\ bill[r] \in Nat /\ price[r] \in Nat /\ owe[r] \in Nat /\ ses[r].hold \in Nat
        /\ paid[r].fund \in Int /\ paid[r].tok \in Int
    BY Values
  <1>2. CASE pc[r] = "settleToken"
    <2>1. back[r] = "idle" /\ pc'[r] = "end" /\ a = bill[r] - ses[r].hold /\ r \notin Realtime
      BY <1>1, <1>2 DEF Control, BackLabels, Amount, Difference, AfterCharge, Charging
    <2>2. t2 >= 0
      BY <1>1, <1>2, <2>1 DEF Enough, HoldsToken, Answered, OnToken
    <2>3. Enough(r)'
      BY <1>1, <1>2, <2>1, <2>2 DEF Enough, HoldsToken, HoldsFund, Answered, Unfunded, UsesToken
    <2>4. ASSUME Booked(r)
          PROVE  Booked(r)'
      <3>1. paid[r].fund = bill[r] /\ paid[r].tok = OnToken(r, ses[r].hold)
        BY <1>2, <2>4 DEF Booked
      <3>2. t2 = OnToken(r, bill[r])
        BY <1>1, <2>1, <3>1 DEF OnToken
      <3>3. QED
        BY <1>2, <2>1, <3>1, <3>2 DEF Booked, Unfunded, OnToken, UsesToken, Control
    <2>5. QED
      BY <2>3, <2>4, Zenon
  <1>3. CASE pc[r] = "chargeToken"
    <2>1. /\ a = owe[r]
          /\ IF back[r] = "idle" THEN pc'[r] \in {"running", "last"} ELSE pc'[r] = "end"
      BY <1>3 DEF Amount, AfterCharge, Charging
    <2>2. t2 \in Int /\ t2 >= paid[r].tok
      BY <1>1, <2>1 DEF OnToken
    <2>3. Enough(r)'
      BY <1>1, <1>3, <2>1, <2>2 DEF Enough, HoldsToken, HoldsFund, Answered, Unfunded, UsesToken
    <2>4. ASSUME Booked(r)
          PROVE  Booked(r)'
      <3>1. PICK hf \in Nat, ht \in Nat : /\ hf = HeldFund(r) /\ ht = HeldTok(r)
                                          /\ hf = HeldFund(r)' /\ ht = HeldTok(r)'
        BY <1>1 DEF HeldFund, HeldTok
      <3>2. paid[r].fund = hf + bill[r] /\ paid[r].tok = OnToken(r, ht + bill[r] - owe[r])
        BY <1>3, <2>4, <3>1 DEF Booked
      <3>3. t2 = OnToken(r, ht + bill[r])
        BY <1>1, <2>1, <3>2 DEF OnToken
      <3>4. /\ back[r] = "idle" => r \in Realtime
            /\ r \notin Realtime => bill[r] = price[r]
        BY <1>3 DEF Control
      <3>5. QED
        BY <2>1, <3>1, <3>2, <3>3, <3>4 DEF Booked, Unfunded, OnToken, UsesToken
    <2>5. QED
      BY <2>3, <2>4, Zenon
  <1>4. QED
    BY <1>2, <1>3

LEMMA PayTokenKeeps ==
    ASSUME BInv, PayInv, NEW r \in Requests, PayToken(r)
    PROVE  Kept
  <1>1. TypeOK /\ Control(r) /\ Enough(r)
    BY Zenon DEF BInv, PayInv
  <1>2. /\ pc[r] \in {"settleToken", "chargeToken"}
        /\ UNCHANGED <<todo, ses, price, bill, owe, events, back, tries, wallet, sub, record, tx,
                       clock, stale>>
    BY DEF PayToken, refund
  <1>3. CASE /\ FromToken(r, Amount(r)) /\ NoFault
             /\ Goto(r, AfterCharge(r))
    <2>1. PICK a \in Int : a = Amount(r) /\ FromToken(r, a)
      BY <1>1, <1>3, AmountType, Zenon
    <2>2. token' \in Int /\ Moved(r, 0, OnToken(r, a))
      BY <1>1, <2>1, TokenMoves, Zenon
    <2>3. PICK l \in Labels : l = AfterCharge(r) /\ Goto(r, l)
      BY <1>3 DEF Labels, Answered, AfterCharge
    <2>c. /\ l \in {"running", "last", "end"}
          /\ l # "end" => pc[r] = "chargeToken" /\ back[r] = "idle"
      BY <1>2, <2>3 DEF AfterCharge, Charging
    <2>4. pc' \in [Requests -> Labels] /\ pc'[r] = l /\ Same(pc, pc', r)
      BY <1>1, <2>3, GotoStep, Zenon
    <2>5. Framed(r)
      BY <1>1, <1>2, <1>3, <2>2, <2>4, Still DEF Framed, Moved
    <2>6. Control(r)'
      BY <1>1, <1>2, <2>3, <2>4, <2>c, Values DEF Control, Answered, Unfunded, BackLabels
    <2>7. PICK t2 \in Int : /\ t2 = paid[r].tok + OnToken(r, a)
                            /\ paid'[r].tok = t2 /\ paid'[r].fund = paid[r].fund
      <3>1. paid[r].tok \in Int /\ paid[r].fund \in Int /\ OnToken(r, a) \in Int
        BY <1>1, Values DEF OnToken
      <3>2. QED
        BY <2>2, <3>1 DEF Moved
    <2>8. Enough(r)' /\ (Booked(r) => Booked(r)')
      <3>1. price'[r] = price[r] /\ bill'[r] = bill[r] /\ ses'[r] = ses[r] /\ back'[r] = back[r]
        BY <1>2
      <3>2. QED
        BY <1>1, <1>2, <2>1, <2>3, <2>4, <2>7, <3>1, TokenBooks, Zenon
    <2>9. QED
      BY <1>3, <2>5, <2>6, <2>8, FramedKeeps, Zenon DEF Sound
  <1>4. CASE UsesToken(r) /\ Fault(r) /\ Goto(r, AfterError(r)) /\ UNCHANGED <<token, paid>>
    <2>l. /\ AfterError(r) \in Labels /\ AfterError(r) \in {"last", "end"}
          /\ AfterError(r) = "last" => pc[r] = "chargeToken" /\ back[r] = "idle"
      BY <1>2 DEF AfterError, Charging, Labels, Answered
    <2>1. pc' \in [Requests -> Labels] /\ pc'[r] = AfterError(r) /\ Same(pc, pc', r)
      BY <1>1, <1>4, <2>l, GotoStep, Zenon
    <2>2. Framed(r)
      BY <1>1, <1>2, <1>4, <2>1, Still DEF Framed
    <2>3. Control(r)'
      BY <1>1, <1>2, <2>1, <2>l DEF Control, Answered, Unfunded
    <2>4. Enough(r)'
      BY <1>1, <1>2, <1>4, <2>1, <2>l, Values DEF Enough, HoldsToken, HoldsFund, Answered, Unfunded,
           UsesToken, Control
    <2>5. QED
      BY <1>4, <2>2, <2>3, <2>4, FramedKeeps, Zenon DEF Sound
  <1>5. QED
    BY <1>3, <1>4, Zenon DEF PayToken

-----------------------------------------------------------------------------
(* The goroutine of Refund *)

\* While a refund goes on, what was not charged stays so.
LEMMA ShortStays ==
    ASSUME NEW r \in Requests, back[r] # "idle", back'[r] # "idle",
           ses'[r] = ses[r], price'[r] = price[r], bill'[r] = bill[r]
    PROVE  Short(r) => Short(r)'
  BY DEF Short

LEMMA RefundWalletKeeps ==
    ASSUME BInv, PayInv, NEW r \in Requests, RefundWallet(r)
    PROVE  Kept
  <1>1. TypeOK /\ Control(r) /\ Enough(r)
    BY Zenon DEF BInv, PayInv
  <1>2. /\ back[r] = "fund" /\ ses[r].source = "wallet"
        /\ UNCHANGED <<pc, todo, ses, price, bill, owe, events, tries, token, sub, record, tx,
                       clock, stale>>
    BY DEF RefundWallet, handler
  <1>3. back' \in [Requests -> BackLabels] /\ back'[r] = "token" /\ Same(back, back', r)
    BY <1>1, BackStep DEF RefundWallet, BackLabels
  <1>4. pc[r] \in {"charge", "chargeToken", "end"} /\ Control(r)'
    BY <1>1, <1>2, <1>3 DEF Control, Answered, Unfunded
  <1>5. CASE FromWallet(r, -ses[r].hold) /\ NoFault
    <2>1. PICK d \in Int : d = -ses[r].hold /\ FromWallet(r, d)
      BY <1>1, <1>5, Values
    <2>2. wallet' \in Int /\ Moved(r, d, 0)
      BY <1>1, <2>1, WalletMoves, Zenon
    <2>3. Framed(r)
      BY <1>1, <1>2, <1>3, <1>5, <2>2, Still DEF Framed, Moved
    <2>4. /\ paid'[r].fund \in Int /\ paid'[r].fund = paid[r].fund - ses[r].hold
          /\ paid'[r].tok = paid[r].tok
      BY <1>1, <2>1, <2>2, Values DEF Moved
    <2>5. Enough(r)'
      BY <1>1, <1>2, <1>3, <1>4, <2>4, Values DEF Enough, HoldsToken, HoldsFund, Answered,
           Unfunded, UsesToken
    <2>s. Short(r) => Short(r)'
      BY <1>2, <1>3, ShortStays
    <2>6. Booked(r) => Booked(r)'
      BY <1>1, <1>2, <1>3, <1>4, <2>4, <2>s, Values DEF Booked, HeldFund, HeldTok, Unfunded, OnToken,
           UsesToken
    <2>7. QED
      BY <1>4, <1>5, <2>3, <2>5, <2>6, FramedKeeps, Zenon DEF Sound
  <1>6. CASE Fault(r) /\ UNCHANGED <<wallet, paid>>
    <2>1. Framed(r)
      BY <1>1, <1>2, <1>3, <1>6, Still DEF Framed
    <2>2. Enough(r)'
      BY <1>1, <1>2, <1>3, <1>4, <1>6, Values DEF Enough, HoldsToken, HoldsFund, Answered,
           Unfunded, UsesToken
    <2>3. QED
      BY <1>4, <1>6, <2>1, <2>2, FramedKeeps, Zenon DEF Sound
  <1>7. QED
    BY <1>5, <1>6, Zenon DEF RefundWallet

LEMMA RefundTokenKeeps ==
    ASSUME BInv, PayInv, NEW r \in Requests, RefundToken(r)
    PROVE  Kept
  <1>1. TypeOK /\ Control(r) /\ Enough(r)
    BY Zenon DEF BInv, PayInv
  <1>2. /\ back[r] = "token"
        /\ UNCHANGED <<pc, todo, ses, price, bill, owe, events, tries, wallet, sub, record, tx,
                       clock, stale>>
    BY DEF RefundToken, handler
  <1>3. back' \in [Requests -> BackLabels] /\ back'[r] = "done" /\ Same(back, back', r)
    BY <1>1, BackStep DEF RefundToken, BackLabels
  <1>4. pc[r] \in {"charge", "chargeToken", "end"} /\ Control(r)'
    BY <1>1, <1>2, <1>3 DEF Control, Answered, Unfunded
  <1>5. CASE FromToken(r, -ses[r].hold) /\ NoFault
    <2>1. PICK d \in Int : d = -ses[r].hold /\ FromToken(r, d)
      BY <1>1, <1>5, Values
    <2>2. token' \in Int /\ Moved(r, 0, OnToken(r, d))
      BY <1>1, <2>1, TokenMoves, Zenon
    <2>3. Framed(r)
      BY <1>1, <1>2, <1>3, <1>5, <2>2, Still DEF Framed, Moved
    <2>4. /\ paid'[r].tok \in Int /\ paid'[r].fund = paid[r].fund
          /\ UsesToken(r) => paid'[r].tok = paid[r].tok - ses[r].hold
          /\ ~UsesToken(r) => paid'[r].tok = paid[r].tok
      BY <1>1, <2>1, <2>2, Values DEF Moved, OnToken
    <2>5. Enough(r)'
      BY <1>1, <1>2, <1>3, <1>4, <2>4, Values DEF Enough, HoldsToken, HoldsFund, Answered,
           Unfunded, UsesToken
    <2>6. ASSUME Booked(r)
          PROVE  Booked(r)'
      <3>1. /\ pc[r] # "chargeToken" => paid[r].tok = OnToken(r, ses[r].hold + bill[r])
            /\ pc[r] = "chargeToken" => paid[r].tok = OnToken(r, ses[r].hold + bill[r] - owe[r])
            /\ paid[r].fund = 0 + bill[r]
        BY <1>2, <1>4, <2>6 DEF Booked, HeldFund, HeldTok
      <3>2. /\ pc[r] # "chargeToken" => paid'[r].tok = OnToken(r, bill[r])
            /\ pc[r] = "chargeToken" => paid'[r].tok = OnToken(r, bill[r] - owe[r])
        BY <1>1, <2>4, <3>1, Values DEF OnToken
      <3>3. 0 + bill[r] = bill[r] /\ 0 + bill[r] - owe[r] = bill[r] - owe[r]
        BY <1>1, Values
      <3>4. HeldFund(r)' = 0 /\ HeldTok(r)' = 0
        BY <1>3 DEF HeldFund, HeldTok
      <3>5. Short(r) => Short(r)'
        BY <1>2, <1>3, ShortStays
      <3>6. QED
        BY <1>2, <1>3, <1>4, <2>4, <2>6, <3>1, <3>2, <3>3, <3>4, <3>5 DEF Booked, Unfunded, OnToken, UsesToken
    <2>7. QED
      BY <1>4, <1>5, <2>3, <2>5, <2>6, FramedKeeps, Zenon DEF Sound
  <1>6. CASE Fault(r) /\ UNCHANGED <<token, paid>>
    <2>1. Framed(r)
      BY <1>1, <1>2, <1>3, <1>6, Still DEF Framed
    <2>2. Enough(r)'
      BY <1>1, <1>2, <1>3, <1>4, <1>6, Values DEF Enough, HoldsToken, HoldsFund, Answered,
           Unfunded, UsesToken
    <2>3. QED
      BY <1>4, <1>6, <2>1, <2>2, FramedKeeps, Zenon DEF Sound
  <1>7. QED
    BY <1>5, <1>6, Zenon DEF RefundToken

-----------------------------------------------------------------------------
(* Steps that open or close a transaction *)

Free(r) ==
    /\ pc' \in [Requests -> Labels] /\ Same(pc, pc', r)
    /\ todo' \in [Requests -> Seq({"wallet", "subscription"})] /\ Same(todo, todo', r)
    /\ ses' \in [Requests -> Session] /\ Same(ses, ses', r)
    /\ price' \in [Requests -> Nat] /\ Same(price, price', r)
    /\ bill' \in [Requests -> Nat] /\ Same(bill, bill', r)
    /\ UNCHANGED <<owe, events, wallet, token, clock>>
    /\ back' \in [Requests -> BackLabels] /\ Same(back, back', r)
    /\ tries' \in [Requests -> 0..3] /\ Same(tries, tries', r)
    /\ sub' \in [Subs -> SubRow] /\ stale' \in [Subs -> Nat]
    /\ record' \in [Requests -> Record \union {NoRecord}] /\ Same(record, record', r)
    /\ tx' \in [Process -> Tx \union {NoTx}]
    /\ \A q \in Requests : q # r => tx'[Back(q)] = tx[Back(q)]
    /\ paid' \in [Requests -> Paid] /\ Same(paid, paid', r)
    /\ Fault(r) \/ NoFault

LEMMA FreeKeeps ==
    ASSUME BInv, PayInv, NEW r \in Requests, Free(r), Ledger, Control(r)', Enough(r)', Sound(r),
           ses'[r].sub = ses[r].sub \/ ses[r].sub \notin Subs
    PROVE  Kept
  <1>1. TypeOK
    BY Zenon DEF BInv
  <1>2. TypeOK'
    BY <1>1, LabelSet, FaultCounts, Zenon DEF TypeOK, Free, BackLabels, Paid
  <1>3. Others(r)
    <2>1. \A q \in Requests : q # r => (q \in tainted' <=> q \in tainted)
      BY <1>1, FaultCounts, Zenon DEF Free
    <2>2. Same(owe, owe', r)
      BY DEF Free, Same
    <2>3. QED
      BY <2>1, <2>2, Zenon DEF Free, Others
  <1>4. QED
    BY <1>2, <1>3, StepOfOne, Zenon

\* What a variable keeps that such a step does not touch.
LEMMA StillRows ==
    ASSUME TypeOK, NEW r \in Requests
    PROVE  /\ ses' = ses => ses' \in [Requests -> Session] /\ Same(ses, ses', r)
           /\ record' = record => /\ record' \in [Requests -> Record \union {NoRecord}]
                                  /\ Same(record, record', r)
           /\ sub' = sub => sub' \in [Subs -> SubRow]
           /\ stale' = stale => stale' \in [Subs -> Nat]
           /\ tx' = tx => /\ tx' \in [Process -> Tx \union {NoTx}]
                          /\ \A q \in Requests : q # r => tx'[Back(q)] = tx[Back(q)]
  BY Zenon DEF TypeOK, Same

\* A request whose tables stay as they are keeps its invariants.
LEMMA Unmoved ==
    ASSUME NEW r \in Requests, Control(r), Enough(r),
           pc'[r] = pc[r], todo'[r] = todo[r], ses'[r] = ses[r], bill'[r] = bill[r], price'[r] = price[r],
           owe'[r] = owe[r], back'[r] = back[r], tries'[r] = tries[r],
           record'[r] = record[r], paid'[r] = paid[r], tx'[Back(r)] = tx[Back(r)]
    PROVE  Control(r)' /\ Enough(r)' /\ (Booked(r) => Booked(r)')
  <1>1. Control(r)'
    BY DEF Control
  <1>2. Enough(r)'
    BY DEF Enough, HoldsToken, HoldsFund, UsesToken
  <1>3. Booked(r) => Booked(r)'
    BY DEF Booked, Short, HeldFund, HeldTok, OnToken, UsesToken
  <1>4. QED
    BY <1>1, <1>2, <1>3, Zenon

\* Only a transaction that found no other one open can be opened, ...
LEMMA OpenLedger ==
    ASSUME TypeOK, WithinTotal, NEW p \in Process, Open(p), UNCHANGED sub
    PROVE  Ledger
  <1>1. RowLocks => tx'[p].rows = sub /\ \A q \in Process : tx'[q].open => q = p
    BY OpenStep, Zenon
  <1>2. RowLocks => OneTx'
    BY <1>1 DEF OneTx
  <1>3. WithinTotal'
    BY DEF WithinTotal
  <1>4. QED
    BY <1>2, <1>3 DEF Ledger, Stays

\* ... and none is open after it has been closed, whatever it has written.
LEMMA CloseLedger ==
    ASSUME TypeOK, NEW p \in Process, Close(p), tx[p].open, RowLocks => OneTx,
           WithinTotal',
           RowLocks => Stays
    PROVE  Ledger
  <1>1. ~tx'[p].open /\ \A q \in Process : q # p => tx'[q] = tx[q]
    BY CloseStep, Zenon
  <1>2. ASSUME RowLocks, NEW q \in Process, tx'[q].open
        PROVE  FALSE
    <2>1. q # p /\ tx[q].open
      BY <1>1, <1>2
    <2>2. QED
      BY <1>2, <2>1 DEF OneTx
  <1>3. RowLocks => OneTx'
    BY <1>2 DEF OneTx
  <1>4. QED
    BY <1>3, Zenon DEF Ledger

\* With row locks an open transaction has read the rows as they are.
LEMMA LockedRows ==
    ASSUME PayInv, RowLocks, NEW p \in Process, tx[p].open
    PROVE  tx[p].rows = sub
  BY DEF PayInv, OneTx

\* A transaction of r's handler begins.
LEMMA OpenMain ==
    ASSUME BInv, PayInv, NEW r \in Requests, Open(Main(r)),
           UNCHANGED <<handler, refund, books, clock, faults, history>>
    PROVE  Kept
  <1>1. TypeOK /\ Control(r) /\ Enough(r) /\ WithinTotal
    BY Zenon DEF BInv, PayInv
  <1>2. UNCHANGED <<pc, todo, ses, price, bill, owe, events, back, tries, wallet, token, sub, record,
                    clock, faults, paid, tainted, stale>>
    BY DEF handler, refund, books, history
  <1>3. /\ Main(r) \in Process /\ \A q \in Requests : Main(r) # Back(q) /\ Back(q) \in Process
    BY ProcessType
  <1>4. /\ tx' \in [Process -> Tx \union {NoTx}]
        /\ \A q \in Requests : tx'[Back(q)] = tx[Back(q)]
    <2>1. /\ tx' \in [Process -> Tx \union {NoTx}]
          /\ \A q \in Process : q # Main(r) => tx'[q] = tx[q]
      BY <1>1, <1>3, OpenStep, Zenon
    <2>2. QED
      BY <1>3, <2>1
  <1>5. NoFault
    BY <1>2 DEF NoFault
  <1>6. Free(r)
    BY <1>1, <1>2, <1>4, <1>5, Still, StillRows DEF Free
  <1>7. Ledger
    BY <1>1, <1>2, <1>3, OpenLedger, Zenon
  <1>8. Control(r)' /\ Enough(r)' /\ (Booked(r) => Booked(r)')
    BY <1>1, <1>2, <1>4, Unmoved
  <1>9. QED
    BY <1>2, <1>5, <1>6, <1>7, <1>8, FreeKeeps DEF Sound

\* A subscription that is still there refuses only to go beyond its total.
LEMMA RefusesBeyond ==
    ASSUME TypeOK, WithinTotal, NEW p \in Process, NEW s \in Subs, NEW d \in Int,
           tx[p].rows = sub, sub[s].status # "deleted", ~Accepts(p, s, d)
    PROVE  SubTotal[s] > 0 /\ d > 0
  <1>1. PICK row \in SubRow : row = sub[s]
    BY SubType
  <1>2. SubTotal[s] > 0 /\ ~(NewUsed(p, s, d) <= SubTotal[s])
    BY <1>1 DEF Accepts
  <1>3. row.used \in Nat /\ row.used <= SubTotal[s] /\ SubTotal[s] \in Nat
    BY <1>1, <1>2, SubAssumption DEF WithinTotal, SubRow
  <1>4. d <= 0 => NewUsed(p, s, d) <= SubTotal[s]
    BY <1>1, <1>3 DEF NewUsed, Positive
  <1>5. QED
    BY <1>2, <1>4

LEMMA CommitPayKeeps ==
    ASSUME BInv, PayInv, NEW r \in Requests, CommitPay(r)
    PROVE  Kept
  <1> DEFINE p == Main(r)
  <1>1. TypeOK /\ Control(r) /\ Enough(r) /\ WithinTotal /\ (RowLocks => OneTx)
    BY Zenon DEF BInv, PayInv
  <1>2. /\ MustPay(r) /\ pc[r] \in {"settle", "charge"} /\ ses[r].source = "subscription"
        /\ tx[p].open /\ Close(p)
        /\ UNCHANGED <<todo, ses, owe, events, back, tries, wallet, token, record, clock>>
    BY DEF CommitPay, MustPay, refund
  <1>3. p \in Process /\ \A q \in Requests : p # Back(q) /\ Back(q) \in Process
    BY ProcessType
  <1> HIDE DEF p
  <1>4. /\ tx' \in [Process -> Tx \union {NoTx}]
        /\ \A q \in Requests : tx'[Back(q)] = tx[Back(q)]
    <2>1. /\ tx' \in [Process -> Tx \union {NoTx}]
          /\ \A q \in Process : q # p => tx'[q] = tx[q]
      BY <1>1, <1>2, <1>3, CloseStep, Zenon
    <2>2. QED
      BY <1>3, <2>1
  <1>5. ses[r].sub \in Subs
    BY <1>1, <1>2 DEF Control, Answered
  <1>6. CASE Accepts(p, ses[r].sub, Amount(r)) /\ FromSub(p, r, Amount(r)) /\ Funded(r) /\ NoFault
    <2>1. PICK a \in Int : /\ a = Amount(r) /\ Accepts(p, ses[r].sub, a)
                           /\ FromSub(p, r, a)
      BY <1>1, <1>6, AmountType, Zenon
    <2>2. /\ sub' \in [Subs -> SubRow] /\ stale' \in [Subs -> Nat]
          /\ \A s \in Subs : s # ses[r].sub => sub'[s] = sub[s]
          /\ sub'[ses[r].sub].status = tx[p].rows[ses[r].sub].status
          /\ SubTotal[ses[r].sub] > 0 => sub'[ses[r].sub].used <= SubTotal[ses[r].sub]
          /\ Moved(r, a, 0)
      BY <1>1, <1>2, <1>3, <1>5, <2>1, SubMoves, Zenon
    <2>3. /\ pc' \in [Requests -> Labels] /\ Same(pc, pc', r)
          /\ price' \in [Requests -> Nat] /\ Same(price, price', r)
          /\ pc[r] = "settle" => price'[r] = price[r]
          /\ pc[r] = "charge" => price'[r] = price[r] + owe[r]
          /\ bill' \in [Requests -> Nat] /\ Same(bill, bill', r)
          /\ pc[r] = "settle" => pc'[r] = "settleToken" /\ bill'[r] = bill[r]
          /\ pc[r] = "charge" => pc'[r] = "chargeToken" /\ bill'[r] = bill[r] + owe[r]
      BY <1>1, <1>2, <1>6, FundedStep, Zenon
    <2>4. Free(r)
      BY <1>1, <1>2, <1>4, <1>6, <2>2, <2>3, Still, StillRows DEF Free, Moved
    <2>5. Ledger
      <3>1. WithinTotal'
        BY <1>1, <2>2 DEF WithinTotal
      <3>2. RowLocks => tx[p].rows = sub
        BY <1>2, <1>3, LockedRows, Zenon
      <3>3. RowLocks => Stays
        BY <1>5, <2>2, <3>2 DEF Stays
      <3>4. QED
        BY <1>1, <1>2, <1>3, <3>1, <3>3, CloseLedger, Zenon
    <2>6. paid'[r].fund = paid[r].fund + Amount(r) /\ paid'[r].tok = paid[r].tok
      BY <1>1, <2>1, <2>2, Values DEF Moved
    <2>7. Control(r)' /\ Enough(r)' /\ (Booked(r) => Booked(r)')
      BY <1>1, <1>2, <1>4, <2>3, <2>6, FundedBooks, Zenon
    <2>8. QED
      BY <1>2, <1>6, <2>4, <2>5, <2>7, FreeKeeps DEF Sound
  <1>7. CASE /\ Fault(r) \/ (~Accepts(p, ses[r].sub, Amount(r)) /\ NoFault)
             /\ Refused(r)
             /\ UNCHANGED <<sub, paid, stale>>
    <2>1. /\ pc' \in [Requests -> Labels] /\ Same(pc, pc', r) /\ pc'[r] = AfterError(r)
          /\ price' \in [Requests -> Nat] /\ Same(price, price', r)
          /\ pc[r] = "settle" => price'[r] = price[r]
          /\ pc[r] = "charge" => price'[r] = price[r] + owe[r]
          /\ bill' \in [Requests -> Nat] /\ Same(bill, bill', r)
          /\ pc[r] = "settle" => bill'[r] = ses[r].hold
          /\ pc[r] = "charge" => bill'[r] = bill[r]
      BY <1>1, <1>2, <1>7, RefusedStep, Zenon
    <2>2. Free(r)
      BY <1>1, <1>2, <1>4, <1>7, <2>1, Still, StillRows DEF Free
    <2>3. Ledger
      <3>1. /\ WithinTotal'
            /\ RowLocks => Stays
        BY <1>1, <1>7 DEF WithinTotal, Stays
      <3>2. QED
        BY <1>1, <1>2, <1>3, <3>1, CloseLedger, Zenon
    <2>4. Control(r)' /\ Enough(r)' /\ (Booked(r) /\ UsedUp(r) => Booked(r)')
      BY <1>1, <1>2, <1>4, <1>7, <2>1, RefusedBooks, Zenon
    <2>5. ASSUME RowLocks, Returnable(r), ~Accepts(p, ses[r].sub, Amount(r))
          PROVE  UsedUp(r)
      <3>1. tx[p].rows = sub
        BY <1>2, <1>3, <2>5, LockedRows, Zenon
      <3>2. sub[ses[r].sub].status # "deleted"
        BY <1>5, <2>5 DEF Returnable
      <3>3. PICK a \in Int : a = Amount(r) /\ ~Accepts(p, ses[r].sub, a)
        BY <1>1, <2>5, AmountType, Zenon
      <3>4. SubTotal[ses[r].sub] > 0 /\ a > 0
        BY <1>1, <1>3, <1>5, <3>1, <3>2, <3>3, RefusesBeyond, Zenon
      <3>5. QED
        BY <1>2, <3>3, <3>4 DEF UsedUp
    <2>6. Sound(r)
      BY <1>7, <2>4, <2>5, Zenon DEF Sound
    <2>7. QED
      BY <1>2, <2>2, <2>3, <2>4, <2>6, FreeKeeps
  <1>8. QED
    BY <1>6, <1>7, Zenon DEF CommitPay, p

LEMMA BeginRefundKeeps ==
    ASSUME BInv, PayInv, NEW r \in Requests, BeginRefund(r)
    PROVE  Kept
  <1>1. TypeOK /\ Control(r) /\ Enough(r) /\ WithinTotal
    BY Zenon DEF BInv, PayInv
  <1>2. /\ back[r] = "fund" /\ ses[r].source = "subscription"
        /\ UNCHANGED <<pc, todo, ses, price, bill, owe, events, tries, wallet, token, sub, record,
                       clock, faults, paid, tainted, stale>>
    BY DEF BeginRefund, handler, books, history
  <1>3. record[r] = [status |-> "consumed", sub |-> ses[r].sub, amount |-> ses[r].hold]
    BY <1>1, <1>2 DEF Control
  <1>4. Open(Back(r)) /\ BackGoto(r, "give")
    <2>1. record[r].status # "refunded"
      BY <1>3
    <2>2. QED
      BY <2>1, Zenon DEF BeginRefund
  <1>5. back' \in [Requests -> BackLabels] /\ back'[r] = "give" /\ Same(back, back', r)
    BY <1>1, <1>4, BackStep DEF BackLabels
  <1>6. Back(r) \in Process /\ \A q \in Requests : Back(q) \in Process /\ (q # r => Back(r) # Back(q))
    BY ProcessType
  <1>7. /\ tx' \in [Process -> Tx \union {NoTx}] /\ tx'[Back(r)].open
        /\ \A q \in Requests : q # r => tx'[Back(q)] = tx[Back(q)]
    <2>1. /\ tx' \in [Process -> Tx \union {NoTx}] /\ tx'[Back(r)].open
          /\ \A q \in Process : q # Back(r) => tx'[q] = tx[q]
      BY <1>1, <1>4, <1>6, OpenStep, Zenon
    <2>2. QED
      BY <1>6, <2>1
  <1>8. NoFault
    BY <1>2 DEF NoFault
  <1>9. Free(r)
    BY <1>1, <1>2, <1>5, <1>7, <1>8, Still, StillRows DEF Free
  <1>10. Ledger
    BY <1>1, <1>2, <1>4, <1>6, OpenLedger, Zenon
  <1>11. Control(r)'
    BY <1>1, <1>2, <1>5, <1>7 DEF Control, Answered, Unfunded
  <1>12. Enough(r)'
    BY <1>1, <1>2, <1>5 DEF Enough, HoldsToken, HoldsFund, Answered, Unfunded, UsesToken, Control
  <1>s. Short(r) => Short(r)'
    BY <1>2, <1>5, ShortStays
  <1>13. Booked(r) => Booked(r)'
    BY <1>1, <1>2, <1>5, <1>s DEF Booked, HeldFund, HeldTok, Unfunded, OnToken, UsesToken, Control
  <1>14. QED
    BY <1>2, <1>8, <1>9, <1>10, <1>11, <1>12, <1>13, FreeKeeps DEF Sound

\* A failed attempt is repeated or, after the third, given up.
LEMMA RetryStep ==
    ASSUME TypeOK, NEW r \in Requests, tries[r] <= 2, Retry(r)
    PROVE  /\ tries' \in [Requests -> 0..3] /\ Same(tries, tries', r)
           /\ back' \in [Requests -> BackLabels] /\ Same(back, back', r)
           /\ back'[r] \in {"fund", "token"} /\ (back'[r] = "fund" => tries'[r] <= 2)
  <1>1. tries \in [Requests -> 0..3]
    BY Zenon DEF TypeOK
  <1>2. tries[r] \in 0..2
    BY <1>1
  <1>3. PICK n \in 0..3 : n = tries[r] + 1
    BY <1>2
  <1>4. tries' = [tries EXCEPT ![r] = n]
    BY <1>3, Zenon DEF Retry
  <1>5. tries' \in [Requests -> 0..3] /\ Same(tries, tries', r) /\ tries'[r] = n
    BY <1>1, <1>4 DEF Same
  <1>6. PICK l \in BackLabels : /\ l = IF tries[r] < 2 THEN "fund" ELSE "token"
                                /\ BackGoto(r, l)
    BY DEF Retry, BackLabels
  <1>7. back' \in [Requests -> BackLabels] /\ back'[r] = l /\ Same(back, back', r)
    BY <1>6, BackStep, Zenon
  <1>8. tries[r] < 2 => n <= 2
    BY <1>2, <1>3
  <1>9. QED
    BY <1>5, <1>6, <1>7, <1>8

\* What a returnable hold took can always be given back.
LEMMA GivesBack ==
    ASSUME TypeOK, WithinTotal, NEW p \in Process, NEW s \in Subs, NEW n \in Nat,
           tx[p].rows = sub, sub[s].status # "deleted"
    PROVE  Accepts(p, s, -n)
  <1>1. PICK row \in SubRow : row = sub[s]
    BY SubType
  <1>2. row.used \in Nat /\ (SubTotal[s] > 0 => row.used <= SubTotal[s])
    BY <1>1 DEF WithinTotal, SubRow
  <1>3. SubTotal[s] \in Nat
    BY SubAssumption
  <1>4. NewUsed(p, s, -n) \in Int /\ NewUsed(p, s, -n) <= row.used
    BY <1>1, <1>2 DEF NewUsed, Positive
  <1>5. QED
    BY <1>1, <1>2, <1>3, <1>4 DEF Accepts

LEMMA CommitRefundKeeps ==
    ASSUME BInv, PayInv, NEW r \in Requests, CommitRefund(r)
    PROVE  Kept
  <1> DEFINE p == Back(r)
  <1>1. TypeOK /\ Control(r) /\ Enough(r) /\ WithinTotal /\ (RowLocks => OneTx)
    BY Zenon DEF BInv, PayInv
  <1>2. /\ back[r] = "give" /\ Close(p)
        /\ UNCHANGED <<pc, todo, ses, price, bill, owe, events, wallet, token, record, clock>>
    BY DEF CommitRefund, handler
  <1>3. p \in Process /\ \A q \in Requests : Back(q) \in Process /\ (q # r => p # Back(q))
    BY ProcessType
  <1>4. /\ tx[p].open /\ ses[r].source = "subscription" /\ ses[r].sub \in Subs /\ tries[r] <= 2
        /\ pc[r] \in {"charge", "chargeToken", "end"}
    BY <1>1, <1>2 DEF Control
  <1>5. record[r].amount = ses[r].hold
    <2>1. record[r] = [status |-> "consumed", sub |-> ses[r].sub, amount |-> ses[r].hold]
      BY <1>1, <1>2, <1>4 DEF Control
    <2>2. QED
      BY <2>1
  <1> HIDE DEF p
  <1>6. /\ tx' \in [Process -> Tx \union {NoTx}]
        /\ \A q \in Requests : q # r => tx'[Back(q)] = tx[Back(q)]
    <2>1. /\ tx' \in [Process -> Tx \union {NoTx}]
          /\ \A q \in Process : q # p => tx'[q] = tx[q]
      BY <1>1, <1>2, <1>3, CloseStep, Zenon
    <2>2. QED
      BY <1>3, <2>1
  <1>7. PICK d \in Int : d = -ses[r].hold /\ d = -record[r].amount
    BY <1>1, <1>5, Values
  <1>8. CASE /\ Accepts(p, ses[r].sub, d) /\ FromSub(p, r, d)
             /\ BackGoto(r, "mark") /\ NoFault /\ UNCHANGED tries
    <2>1. /\ sub' \in [Subs -> SubRow] /\ stale' \in [Subs -> Nat]
          /\ \A s \in Subs : s # ses[r].sub => sub'[s] = sub[s]
          /\ sub'[ses[r].sub].status = tx[p].rows[ses[r].sub].status
          /\ SubTotal[ses[r].sub] > 0 => sub'[ses[r].sub].used <= SubTotal[ses[r].sub]
          /\ Moved(r, d, 0)
      BY <1>1, <1>3, <1>4, <1>8, SubMoves, Zenon
    <2>2. back' \in [Requests -> BackLabels] /\ back'[r] = "mark" /\ Same(back, back', r)
      BY <1>1, <1>8, BackStep DEF BackLabels
    <2>3. Free(r)
      BY <1>1, <1>2, <1>6, <1>8, <2>1, <2>2, Still, StillRows DEF Free, Moved
    <2>4. Ledger
      <3>1. WithinTotal'
        BY <1>1, <2>1 DEF WithinTotal
      <3>2. RowLocks => tx[p].rows = sub
        BY <1>3, <1>4, LockedRows, Zenon
      <3>3. RowLocks => Stays
        BY <1>4, <2>1, <3>2 DEF Stays
      <3>4. QED
        BY <1>1, <1>2, <1>3, <1>4, <3>1, <3>3, CloseLedger, Zenon
    <2>5. /\ paid'[r].fund \in Int /\ paid'[r].fund = paid[r].fund - ses[r].hold
          /\ paid'[r].tok = paid[r].tok
      BY <1>1, <1>7, <2>1, Values DEF Moved
    <2>6. Control(r)'
      BY <1>1, <1>2, <1>4, <1>8, <2>2 DEF Control, Answered, Unfunded
    <2>7. Enough(r)'
      BY <1>1, <1>2, <1>4, <2>2, <2>5 DEF Enough, HoldsToken, HoldsFund, Answered, Unfunded, UsesToken
    <2>s. Short(r) => Short(r)'
      BY <1>2, <1>8, <2>2, ShortStays
    <2>8. Booked(r) => Booked(r)'
      BY <1>1, <1>2, <1>4, <2>2, <2>5, <2>s, Values DEF Booked, HeldFund, HeldTok, Unfunded, OnToken,
           UsesToken
    <2>9. QED
      BY <1>2, <1>8, <2>3, <2>4, <2>6, <2>7, <2>8, FreeKeeps DEF Sound
  <1>9. CASE /\ (~Accepts(p, ses[r].sub, d) /\ NoFault) \/ Fault(r)
             /\ Retry(r) /\ UNCHANGED <<sub, paid, stale>>
    <2>1. /\ tries' \in [Requests -> 0..3] /\ Same(tries, tries', r)
          /\ back' \in [Requests -> BackLabels] /\ Same(back, back', r)
          /\ back'[r] \in {"fund", "token"} /\ (back'[r] = "fund" => tries'[r] <= 2)
      BY <1>1, <1>4, <1>9, RetryStep, Zenon
    <2>2. Free(r)
      BY <1>1, <1>2, <1>6, <1>9, <2>1, Still, StillRows DEF Free
    <2>3. Ledger
      <3>1. /\ WithinTotal'
            /\ RowLocks => Stays
        BY <1>1, <1>9 DEF WithinTotal, Stays
      <3>2. QED
        BY <1>1, <1>2, <1>3, <1>4, <3>1, CloseLedger, Zenon
    <2>4. Control(r)'
      BY <1>1, <1>2, <1>4, <2>1 DEF Control, Answered, Unfunded
    <2>5. Enough(r)'
      BY <1>1, <1>2, <1>4, <1>9, <2>1 DEF Enough, HoldsToken, HoldsFund, Answered, Unfunded, UsesToken
    <2>6. RowLocks /\ Returnable(r) => Accepts(p, ses[r].sub, d)
      <3>1. RowLocks => tx[p].rows = sub
        BY <1>3, <1>4, LockedRows, Zenon
      <3>2. Returnable(r) => sub[ses[r].sub].status # "deleted"
        BY <1>4 DEF Returnable
      <3>3. PICK n \in Nat : d = -n
        BY <1>1, <1>7, Values
      <3>4. QED
        BY <1>1, <1>3, <1>4, <3>1, <3>2, <3>3, GivesBack, Zenon
    <2>7. Sound(r)
      BY <1>9, <2>6, Zenon DEF Sound
    <2>8. QED
      BY <1>2, <2>2, <2>3, <2>4, <2>5, <2>7, FreeKeeps
  <1>10. QED
    BY <1>7, <1>8, <1>9, Zenon DEF CommitRefund, p

LEMMA MarkRefundedKeeps ==
    ASSUME BInv, PayInv, NEW r \in Requests, MarkRefunded(r)
    PROVE  Kept
  <1>1. TypeOK /\ Control(r) /\ Enough(r) /\ WithinTotal /\ (RowLocks => OneTx)
    BY Zenon DEF BInv, PayInv
  <1>2. /\ back[r] = "mark"
        /\ UNCHANGED <<pc, todo, ses, price, bill, owe, events, wallet, token, sub, tx, clock, paid, stale>>
    BY DEF MarkRefunded, handler
  <1>3. /\ ses[r].source = "subscription" /\ ses[r].sub \in Subs /\ tries[r] <= 2
        /\ pc[r] \in {"charge", "chargeToken", "end"}
        /\ record[r] = [status |-> "consumed", sub |-> ses[r].sub, amount |-> ses[r].hold]
    BY <1>1, <1>2 DEF Control
  <1>4. Ledger
    BY <1>1, <1>2, LedgerStill, Zenon
  <1>5. CASE /\ record' = [record EXCEPT ![r].status = "refunded"]
             /\ BackGoto(r, "token") /\ NoFault /\ UNCHANGED tries
    <2>1. back' \in [Requests -> BackLabels] /\ back'[r] = "token" /\ Same(back, back', r)
      BY <1>1, <1>5, BackStep DEF BackLabels
    <2>2. record' \in [Requests -> Record \union {NoRecord}] /\ Same(record, record', r)
      <3>1. record \in [Requests -> Record \union {NoRecord}]
        BY <1>1, Zenon DEF TypeOK
      <3>2. PICK rec \in Record : rec = record[r]
        BY <1>1, <1>3, Values DEF Record
      <3>3. PICK new \in Record : new = [rec EXCEPT !.status = "refunded"]
        BY DEF Record
      <3>4. record' = [record EXCEPT ![r] = new]
        BY <1>5, <3>2, <3>3, Zenon
      <3>5. QED
        BY <3>1, <3>4 DEF Same
    <2>3. Free(r)
      BY <1>1, <1>2, <1>5, <2>1, <2>2, Still, StillRows DEF Free
    <2>4. Control(r)'
      BY <1>1, <1>2, <1>3, <1>5, <2>1 DEF Control, Answered, Unfunded
    <2>5. Enough(r)'
      BY <1>1, <1>2, <1>3, <2>1 DEF Enough, HoldsToken, HoldsFund, Answered, Unfunded, UsesToken
    <2>s. Short(r) => Short(r)'
      BY <1>2, <2>1, ShortStays
    <2>6. Booked(r) => Booked(r)'
      BY <1>1, <1>2, <1>3, <2>1, <2>s DEF Booked, HeldFund, HeldTok, Unfunded, OnToken, UsesToken
    <2>7. QED
      BY <1>2, <1>4, <1>5, <2>3, <2>4, <2>5, <2>6, FreeKeeps DEF Sound
  <1>6. CASE Fault(r) /\ Retry(r) /\ UNCHANGED record
    <2>1. /\ tries' \in [Requests -> 0..3] /\ Same(tries, tries', r)
          /\ back' \in [Requests -> BackLabels] /\ Same(back, back', r)
          /\ back'[r] \in {"fund", "token"} /\ (back'[r] = "fund" => tries'[r] <= 2)
      BY <1>1, <1>3, <1>6, RetryStep, Zenon
    <2>2. Free(r)
      BY <1>1, <1>2, <1>6, <2>1, Still, StillRows DEF Free
    <2>3. Control(r)'
      BY <1>1, <1>2, <1>3, <1>6, <2>1 DEF Control, Answered, Unfunded
    <2>4. Enough(r)'
      BY <1>1, <1>2, <1>3, <2>1 DEF Enough, HoldsToken, HoldsFund, Answered, Unfunded, UsesToken
    <2>5. QED
      BY <1>2, <1>4, <1>6, <2>2, <2>3, <2>4, FreeKeeps DEF Sound
  <1>7. QED
    BY <1>5, <1>6, Zenon DEF MarkRefunded

LEMMA CrashKeeps ==
    ASSUME BInv, PayInv, NEW r \in Requests, Crash(r)
    PROVE  Kept
  <1>1. TypeOK /\ Control(r) /\ Enough(r) /\ WithinTotal /\ (RowLocks => OneTx)
    BY Zenon DEF BInv, PayInv
  <1>2. /\ Fault(r) /\ Goto(r, "end") /\ BackGoto(r, "done")
        /\ tx' = [tx EXCEPT ![Main(r)] = NoTx, ![Back(r)] = NoTx]
        /\ UNCHANGED <<todo, ses, price, bill, owe, events, tries, wallet, token, sub, record, clock,
                       paid, stale>>
    BY DEF Crash, books
  <1>3. pc' \in [Requests -> Labels] /\ pc'[r] = "end" /\ Same(pc, pc', r)
    BY <1>1, <1>2, GotoStep DEF Labels
  <1>4. back' \in [Requests -> BackLabels] /\ back'[r] = "done" /\ Same(back, back', r)
    BY <1>1, <1>2, BackStep DEF BackLabels
  <1>5. /\ tx' \in [Process -> Tx \union {NoTx}]
        /\ \A q \in Process : tx'[q] = tx[q] \/ ~tx'[q].open
        /\ \A q \in Requests : q # r => tx'[Back(q)] = tx[Back(q)]
    <2>1. PICK m \in Process, b \in Process : m = Main(r) /\ b = Back(r)
      BY ProcessType
    <2>2. tx' = [tx EXCEPT ![m] = NoTx, ![b] = NoTx]
      BY <1>2, <2>1, Zenon
    <2>3. /\ tx' \in [Process -> Tx \union {NoTx}]
          /\ \A q \in Process : q # m /\ q # b => tx'[q] = tx[q]
          /\ tx'[m] = NoTx /\ tx'[b] = NoTx
      BY <1>1, <2>2, TxType
    <2>4. ~NoTx.open
      BY DEF NoTx
    <2>5. \A q \in Requests : q # r => Back(q) \in Process /\ Back(q) # m /\ Back(q) # b
      BY <2>1, ProcessType
    <2>6. QED
      BY <2>3, <2>4, <2>5, Zenon
  <1>6. Free(r)
    BY <1>1, <1>2, <1>3, <1>4, <1>5, Still, StillRows DEF Free
  <1>7. Ledger
    <2>1. RowLocks => OneTx'
      BY <1>1, <1>2, <1>5 DEF OneTx
    <2>2. QED
      BY <1>1, <1>2, <2>1 DEF Ledger, WithinTotal, Stays
  <1>8. Control(r)'
    BY <1>1, <1>2, <1>3, <1>4 DEF Control, Answered, Unfunded
  <1>9. Enough(r)'
    BY <1>1, <1>2, <1>3, <1>4, Values DEF Enough, HoldsToken, HoldsFund, Answered, Unfunded, UsesToken
  <1>10. QED
    BY <1>2, <1>6, <1>7, <1>8, <1>9, FreeKeeps DEF Sound

-----------------------------------------------------------------------------
(* PreConsumeUserSubscription *)

HeldBy(x, h, born) == [fund |-> x.fund + h, tok |-> x.tok, born |-> born]

LEMMA HeldByType ==
    ASSUME NEW x \in Paid, NEW h \in Nat, NEW born \in Nat
    PROVE  /\ HeldBy(x, h, born) \in Paid
           /\ HeldBy(x, h, born).fund = x.fund + h
           /\ HeldBy(x, h, born).tok = x.tok
  BY DEF Paid, HeldBy

\* What the transaction of a hold writes: the row it charges, and those of the
\* rows before it that were due.
HoldWrites(rows, now, reset, s, h) ==
    /\ rows[s].status = "active"
    /\ SubTotal[s] = 0 \/ SubTotal[s] - Fresh(s, rows[s], now).used >= h
    /\ \A u \in reset : rows[u].status = "active" /\ Due(u, rows[u], now)
    /\ sub' = [u \in Subs |-> sub'[u]]
    /\ sub'[s] = [Fresh(s, rows[s], now) EXCEPT !.used = @ + h]
    /\ \A u \in reset : u # s => sub'[u] = Fresh(u, rows[u], now)
    /\ \A u \in Subs : u # s /\ u \notin reset => sub'[u] = sub[u]

\* They were active when they were read, and stay so.
LEMMA HoldRows ==
    ASSUME TypeOK, WithinTotal, NEW p \in Process, tx[p].open, NEW h \in Nat,
           NEW rows, rows = tx[p].rows, NEW now, now = tx[p].now,
           NEW reset \in SUBSET Subs, NEW s \in Subs,
           HoldWrites(rows, now, reset, s, h)
    PROVE  /\ sub' \in [Subs -> SubRow]
           /\ WithinTotal'
           /\ rows = sub => \A u \in Subs : sub'[u].status = sub[u].status
  <1> USE DEF HoldWrites
  <1>1. rows \in [Subs -> SubRow] /\ now \in Nat
    BY ReadRows, Zenon
  <1>2. sub \in [Subs -> SubRow] /\ s \in Subs
    BY SubType, Zenon
  <1>3. ASSUME NEW u \in Subs
        PROVE  /\ sub'[u] \in SubRow
               /\ SubTotal[u] > 0 => sub'[u].used <= SubTotal[u]
               /\ rows = sub => sub'[u].status = sub[u].status
    <2>1. /\ rows[u] \in SubRow /\ sub[u] \in SubRow /\ SubTotal[u] \in Nat
          /\ sub[u].used \in Nat /\ (SubTotal[u] > 0 => sub[u].used <= SubTotal[u])
      BY <1>1, <1>2, <1>3, SubAssumption DEF SubRow, WithinTotal
    <2>f. /\ Fresh(u, rows[u], now) \in SubRow
          /\ Fresh(u, rows[u], now).status = rows[u].status
          /\ Due(u, rows[u], now) => Fresh(u, rows[u], now).used = 0
      BY <1>1, <2>1, RowKept
    <2>2. PICK new \in SubRow : /\ new = Fresh(u, rows[u], now)
                                /\ new.status = rows[u].status
                                /\ Due(u, rows[u], now) => new.used = 0
      BY <2>f
    <2>3. CASE u = s
      <3>1. new.used \in Nat
        BY <2>2 DEF SubRow
      <3>2. PICK n \in Nat : n = new.used + h
        BY <3>1
      <3>3. sub'[u] = [new EXCEPT !.used = n]
        BY <2>2, <2>3, <3>2, Zenon
      <3>4. /\ [new EXCEPT !.used = n] \in SubRow
            /\ [new EXCEPT !.used = n].status = new.status
            /\ [new EXCEPT !.used = n].used = n
        BY RowBooked
      <3>5. sub'[u] \in SubRow /\ sub'[u].status = new.status /\ sub'[u].used = n
        BY <3>3, <3>4
      <3>6. SubTotal[u] = 0 \/ SubTotal[u] - new.used >= h
        BY <2>2, <2>3
      <3>7. SubTotal[u] > 0 => n <= SubTotal[u]
        BY <2>1, <3>1, <3>2, <3>6
      <3>8. QED
        BY <2>2, <3>5, <3>7
    <2>4. CASE u # s /\ u \in reset
      <3>1. sub'[u] = new /\ Due(u, rows[u], now)
        BY <2>2, <2>4, Zenon
      <3>2. QED
        BY <2>1, <2>2, <3>1
    <2>5. CASE u # s /\ u \notin reset
      <3>1. sub'[u] = sub[u]
        BY <2>5, Zenon
      <3>2. QED
        BY <2>1, <3>1
    <2>6. QED
      BY <2>3, <2>4, <2>5, Zenon
  <1>4. sub' \in [Subs -> SubRow]
    BY <1>3
  <1>5. QED
    BY <1>3, <1>4 DEF WithinTotal

LEMMA CommitHoldKeeps ==
    ASSUME BInv, PayInv, NEW r \in Requests, CommitHold(r)
    PROVE  Kept
  <1> DEFINE p == Main(r)
             rows == tx[p].rows
             new(u) == Fresh(u, rows[u], tx[p].now)
             active == {u \in Subs : rows[u].status = "active"}
             enough == {u \in active : \/ SubTotal[u] = 0
                                       \/ SubTotal[u] - new(u).used >= ses[r].hold}
             s == Min(enough)
             reset == {u \in active : u <= s /\ Due(u, rows[u], tx[p].now)}
             Held == /\ sub' = [u \in Subs |->
                            IF u = s THEN [new(u) EXCEPT !.used = @ + ses[r].hold]
                            ELSE IF u \in reset THEN new(u) ELSE sub[u]]
                     /\ record' = [record EXCEPT ![r] =
                               [status |-> "consumed", sub |-> s, amount |-> ses[r].hold]]
                     /\ ses' = [ses EXCEPT ![r].sub = s]
                     /\ paid' = [paid EXCEPT ![r] = HeldBy(paid[r], ses[r].hold, new(s).next)]
                     /\ stale' = [u \in Subs |-> IF u \in reset THEN 0 ELSE stale[u]]
                     /\ Goto(r, "running")
                     /\ NoFault
  <1>1. TypeOK /\ Control(r) /\ Enough(r) /\ WithinTotal /\ (RowLocks => OneTx)
    BY Zenon DEF BInv, PayInv
  <1>2. /\ pc[r] = "fund" /\ ses[r].source = "subscription"
        /\ tx[p].open /\ Close(p)
        /\ UNCHANGED <<todo, price, bill, owe, events, back, tries, wallet, token, clock>>
    BY DEF CommitHold, refund
  <1>3. \/ enough # {} /\ Held
        \/ Goto(r, "undo") /\ NoFault /\ UNCHANGED <<sub, record, ses, paid, stale>>
        \/ Fault(r) /\ Goto(r, "undoLast") /\ UNCHANGED <<sub, record, ses, paid, stale>>
    BY Zenon DEF CommitHold, HeldBy
  <1>4. p \in Process /\ \A q \in Requests : p # Back(q) /\ Back(q) \in Process
    BY ProcessType
  <1>5. /\ tx' \in [Process -> Tx \union {NoTx}]
        /\ \A q \in Requests : tx'[Back(q)] = tx[Back(q)]
    <2>1. /\ tx' \in [Process -> Tx \union {NoTx}]
          /\ \A q \in Process : q # p => tx'[q] = tx[q]
      BY <1>1, <1>2, <1>4, CloseStep, Zenon
    <2>2. QED
      BY <1>4, <2>1
  <1>6. /\ ses[r].sub = NoSub /\ back[r] = "idle" /\ todo[r] # <<>> /\ tries[r] <= 2
        /\ ses[r].sub \notin Subs
    BY <1>1, <1>2, Values, SubAssumption DEF Control, BackLabels, Unfunded, NoSub
  <1>7. PICK h \in Nat : h = ses[r].hold
    BY <1>1, Values
  <1>8. CASE enough # {} /\ Held
    <2>1. enough \in SUBSET Subs /\ reset \in SUBSET Subs
      OBVIOUS
    <2>2. s \in enough
      <3>1. enough \in SUBSET Nat
        BY <2>1, SubAssumption
      <3> HIDE DEF enough
      <3>2. QED
        BY <1>8, <3>1, MinOfNat, Zenon
    <2>3. /\ rows[s].status = "active"
          /\ SubTotal[s] = 0 \/ SubTotal[s] - new(s).used >= h
          /\ \A u \in reset : rows[u].status = "active" /\ Due(u, rows[u], tx[p].now)
      <3>1. \A u \in enough : /\ rows[u].status = "active"
                              /\ SubTotal[u] = 0 \/ SubTotal[u] - new(u).used >= h
        BY <1>7
      <3>2. \A u \in reset : rows[u].status = "active" /\ Due(u, rows[u], tx[p].now)
        OBVIOUS
      <3> HIDE DEF s
      <3>3. QED
        BY <2>2, <3>1, <3>2, Zenon
    <2>4. sub' = [u \in Subs |-> IF u = s THEN [new(u) EXCEPT !.used = @ + h]
                                 ELSE IF u \in reset THEN new(u) ELSE sub[u]]
      BY <1>7, <1>8, Zenon
    <2>5. PICK s0 : s0 = s
      OBVIOUS
    <2>6. PICK en, re : en = enough /\ re = reset
      OBVIOUS
    <2>7. PICK born \in Nat : born = new(s).next
      <3>1. s \in Subs /\ rows[s] \in SubRow /\ tx[p].now \in Nat
        BY <1>1, <1>2, <1>4, <2>1, <2>2, ReadRows
      <3>2. Fresh(s, rows[s], tx[p].now) \in SubRow
        <4> HIDE DEF s
        <4>1. QED
          BY <3>1, RowKept, Zenon
      <3>3. \A row \in SubRow : row.next \in Nat
        BY DEF SubRow
      <3>4. QED
        BY <3>2, <3>3, Zenon
    <2>8. /\ record' = [record EXCEPT ![r] =
                           [status |-> "consumed", sub |-> s0, amount |-> ses[r].hold]]
          /\ ses' = [ses EXCEPT ![r].sub = s0]
          /\ paid' = [paid EXCEPT ![r] = HeldBy(paid[r], h, born)]
          /\ stale' = [u \in Subs |-> IF u \in re THEN 0 ELSE stale[u]]
          /\ Goto(r, "running") /\ NoFault
      <3> HIDE DEF s, reset, p
      <3>1. /\ record' = [record EXCEPT ![r] =
                           [status |-> "consumed", sub |-> s0, amount |-> ses[r].hold]]
            /\ ses' = [ses EXCEPT ![r].sub = s0]
            /\ stale' = [u \in Subs |-> IF u \in re THEN 0 ELSE stale[u]]
            /\ Goto(r, "running") /\ NoFault
        BY <1>8, <2>5, <2>6
      <3>2. paid' = [paid EXCEPT ![r] = HeldBy(paid[r], h, born)]
        <4>1. paid' = [paid EXCEPT ![r] = HeldBy(paid[r], ses[r].hold, new(s).next)]
          BY <1>8, Zenon
        <4>2. QED
          BY <1>7, <2>7, <4>1, Zenon
      <3>3. QED
        BY <3>1, <3>2, Zenon
    <2>9. s0 \in Subs
      BY <2>1, <2>2, <2>5
    <2>10. /\ sub' \in [Subs -> SubRow] /\ WithinTotal'
           /\ tx[p].rows = sub => \A u \in Subs : sub'[u].status = sub[u].status
      <3>1. s \in Subs
        BY <2>1, <2>2
      <3>2. PICK ro, no : ro = tx[p].rows /\ no = tx[p].now
        OBVIOUS
      <3> HIDE DEF enough, reset, s, p
      <3>3. HoldWrites(ro, no, reset, s, h)
        BY <2>1, <2>3, <2>4, <3>1, <3>2 DEF HoldWrites
      <3>4. /\ sub' \in [Subs -> SubRow] /\ WithinTotal'
            /\ ro = sub => \A u \in Subs : sub'[u].status = sub[u].status
        <4>1. p \in Process /\ tx[p].open /\ reset \in SUBSET Subs
          BY <1>2, <1>4, <2>1, Zenon
        <4>2. TypeOK /\ WithinTotal
          BY <1>1, Zenon
        <4>3. QED
          BY <4>1, <4>2, <3>1, <3>2, <3>3, HoldRows, Zenon
      <3>5. QED
        BY <3>2, <3>4
    <2> HIDE DEF enough, reset, s, new, active, rows, Held, p
    <2>11. /\ ses' \in [Requests -> Session] /\ Same(ses, ses', r)
           /\ ses'[r].sub = s0 /\ ses'[r].hold = h /\ ses'[r].source = "subscription"
      <3>1. ses \in [Requests -> Session]
        BY <1>1, Zenon DEF TypeOK
      <3>2. QED
        BY <1>2, <1>7, <2>8, <2>9, <3>1 DEF Same, Session
    <2>12. /\ record' \in [Requests -> Record \union {NoRecord}] /\ Same(record, record', r)
           /\ record'[r] = [status |-> "consumed", sub |-> s0, amount |-> h]
      <3>1. record \in [Requests -> Record \union {NoRecord}]
        BY <1>1, Zenon DEF TypeOK
      <3>2. PICK rec \in Record : rec = [status |-> "consumed", sub |-> s0, amount |-> h]
        BY <2>9 DEF Record
      <3>3. record' = [record EXCEPT ![r] = rec]
        BY <1>7, <2>8, <3>2, Zenon
      <3>4. QED
        BY <3>1, <3>2, <3>3 DEF Same
    <2>13. /\ paid' \in [Requests -> Paid] /\ Same(paid, paid', r)
           /\ paid'[r].fund \in Int /\ paid'[r].fund = paid[r].fund + h
           /\ paid'[r].tok = paid[r].tok
      <3>1. PICK f \in Int, t \in Int : paid[r].fund = f /\ paid[r].tok = t
        BY <1>1, Values
      <3>2. PICK x \in Paid : x = paid[r]
        BY <1>1, PaidType
      <3>3. /\ HeldBy(x, h, born) \in Paid
            /\ HeldBy(x, h, born).fund = x.fund + h /\ HeldBy(x, h, born).tok = x.tok
        BY HeldByType
      <3>4. PICK m \in Paid : m = HeldBy(x, h, born) /\ m.fund = f + h /\ m.tok = t
        BY <3>1, <3>2, <3>3
      <3>5. paid' = [paid EXCEPT ![r] = m]
        BY <2>8, <3>2, <3>4
      <3>6. QED
        BY <1>1, <3>1, <3>4, <3>5, PaidType DEF Same
    <2>14. stale' \in [Subs -> Nat]
      <3>1. stale \in [Subs -> Nat]
        BY <1>1, Zenon DEF TypeOK
      <3>2. QED
        BY <2>8, <3>1
    <2>15. pc' \in [Requests -> Labels] /\ pc'[r] = "running" /\ Same(pc, pc', r)
      BY <1>1, <2>8, GotoStep DEF Labels, Answered
    <2>16. Free(r)
      BY <1>1, <1>2, <1>5, <2>8, <2>10, <2>11, <2>12, <2>13, <2>14, <2>15, Still DEF Free
    <2>17. Ledger
      <3>1. RowLocks => tx[p].rows = sub
        BY <1>2, <1>4, LockedRows, Zenon
      <3>2. RowLocks => Stays
        BY <2>10, <3>1 DEF Stays
      <3>3. QED
        BY <1>1, <1>2, <1>4, <2>10, <3>2, CloseLedger, Zenon
    <2>18. Control(r)'
      BY <1>1, <1>2, <1>6, <2>9, <2>11, <2>12, <2>15 DEF Control, Answered, Unfunded
    <2>19. Enough(r)'
      BY <1>1, <1>2, <1>6, <1>7, <2>11, <2>13, <2>15 DEF Enough, HoldsToken, HoldsFund, Answered,
         Unfunded, UsesToken
    <2>20. Booked(r) => Booked(r)'
      <3>1. Booked(r) => /\ paid[r].fund = 0 /\ bill[r] = 0
                         /\ paid[r].tok = OnToken(r, h)
        BY <1>2, <1>7 DEF Booked, Unfunded
      <3>2. QED
        BY <1>2, <1>6, <2>11, <2>13, <2>15, <3>1 DEF Booked, Unfunded, OnToken, UsesToken,
           HeldFund, HeldTok
    <2>21. QED
      BY <1>6, <2>8, <2>16, <2>17, <2>18, <2>19, <2>20, FreeKeeps DEF Sound
  <1>9. CASE /\ (Goto(r, "undo") /\ NoFault) \/ (Fault(r) /\ Goto(r, "undoLast"))
             /\ UNCHANGED <<sub, record, ses, paid, stale>>
    <2> HIDE DEF p
    <2>1. PICK l \in {"undo", "undoLast"} : Goto(r, l)
      BY <1>9
    <2>2. pc' \in [Requests -> Labels] /\ pc'[r] = l /\ Same(pc, pc', r)
      <3>1. l \in Labels
        BY DEF Labels, Unfunded
      <3>2. QED
        BY <1>1, <2>1, <3>1, GotoStep, Zenon
    <2>3. Free(r)
      BY <1>1, <1>2, <1>5, <1>9, <2>2, Still, StillRows DEF Free
    <2>4. Ledger
      <3>1. /\ WithinTotal'
            /\ RowLocks => Stays
        BY <1>1, <1>9 DEF WithinTotal, Stays
      <3>2. QED
        BY <1>1, <1>2, <1>4, <3>1, CloseLedger, Zenon
    <2>5. Control(r)'
      BY <1>1, <1>2, <1>6, <1>9, <2>2 DEF Control, Answered, Unfunded
    <2>6. Enough(r)'
      BY <1>1, <1>2, <1>6, <1>9, <2>2 DEF Enough, HoldsToken, HoldsFund, Answered, Unfunded, UsesToken
    <2>7. Booked(r) => Booked(r)'
      BY <1>2, <1>6, <1>9, <2>2 DEF Booked, Unfunded, OnToken, UsesToken
    <2>8. QED
      BY <1>9, <2>3, <2>4, <2>5, <2>6, <2>7, FreeKeeps DEF Sound
  <1>10. QED
    BY <1>3, <1>8, <1>9, Zenon

-----------------------------------------------------------------------------
(* Everything else that happens *)

\* A step that touches no request only has to keep the ledger.
LEMMA RequestsStill ==
    ASSUME BInv, PayInv, TypeOK', Ledger,
           UNCHANGED <<pc, todo, ses, price, bill, owe, back, tries, record, paid, tainted>>,
           \A q \in Requests : tx'[Back(q)] = tx[Back(q)]
    PROVE  Kept
  <1>1. ASSUME NEW q \in Requests
        PROVE  Control(q)' /\ Enough(q)' /\ (RowLocks /\ Returnable(q)' => Booked(q)')
    <2>1. Control(q) /\ Enough(q) /\ (RowLocks /\ Returnable(q) => Booked(q))
      BY <1>1, Zenon DEF BInv, PayInv
    <2>2. /\ pc'[q] = pc[q] /\ todo'[q] = todo[q] /\ ses'[q] = ses[q]
        /\ price'[q] = price[q] /\ bill'[q] = bill[q]
          /\ owe'[q] = owe[q] /\ back'[q] = back[q] /\ tries'[q] = tries[q]
          /\ record'[q] = record[q] /\ paid'[q] = paid[q] /\ tx'[Back(q)] = tx[Back(q)]
      BY <1>1
    <2>3. Control(q)' /\ Enough(q)' /\ (Booked(q) => Booked(q)')
      BY <1>1, <2>1, <2>2, Unmoved, Zenon
    <2>4. RowLocks => Stays
      BY Zenon DEF Ledger
    <2>5. /\ q \in tainted' <=> q \in tainted
          /\ ses'[q].sub = ses[q].sub
      OBVIOUS
    <2>6. RowLocks /\ Returnable(q)' => Returnable(q)
      BY <1>1, <2>4, <2>5, OtherReturnable, Zenon DEF Stays
    <2>7. QED
      BY <2>1, <2>3, <2>6, Zenon
  <1>2. BInv'
    BY <1>1, Zenon DEF BInv
  <1>3. WithinTotal' /\ (RowLocks => OneTx')
    BY Zenon DEF Ledger
  <1>4. QED
    BY <1>1, <1>2, <1>3, Zenon DEF PayInv, Kept

\* The variables of the requests keep their types as they stay.
LEMMA TypeStill ==
    ASSUME TypeOK,
           UNCHANGED <<pc, todo, ses, price, bill, owe, events, back, tries, wallet, token, record,
                       faults, paid, tainted>>,
           clock' \in 0..MaxResets, sub' \in [Subs -> SubRow], stale' \in [Subs -> Nat],
           tx' \in [Process -> Tx \union {NoTx}]
    PROVE  TypeOK'
  BY Zenon DEF TypeOK

LEMMA TypeParts ==
    ASSUME TypeOK
    PROVE  /\ clock \in 0..MaxResets /\ stale \in [Subs -> Nat]
           /\ sub \in [Subs -> SubRow] /\ tx \in [Process -> Tx \union {NoTx}]
  BY Zenon DEF TypeOK

LEMMA TickKeeps ==
    ASSUME BInv, PayInv, Tick
    PROVE  Kept
  <1>1. TypeOK /\ WithinTotal /\ (RowLocks => OneTx)
    BY Zenon DEF BInv, PayInv
  <1>2. /\ clock < MaxResets /\ clock' = clock + 1
        /\ UNCHANGED <<pc, todo, ses, price, bill, owe, events, back, tries, wallet, token, sub, record,
                       tx, faults, paid, tainted, stale>>
    BY DEF Tick, handler, refund, books, history
  <1>3. clock' \in 0..MaxResets
    BY <1>1, <1>2, TypeParts, BoundAssumption
  <1>4. TypeOK'
    BY <1>1, <1>2, <1>3, TypeParts, TypeStill
  <1>5. Ledger
    BY <1>1, <1>2, LedgerStill
  <1>6. QED
    BY <1>2, <1>4, <1>5, RequestsStill

LEMMA BeginResetKeeps ==
    ASSUME BInv, PayInv, BeginReset
    PROVE  Kept
  <1>1. TypeOK /\ WithinTotal /\ (RowLocks => OneTx)
    BY Zenon DEF BInv, PayInv
  <1>2. /\ Open(Keeper)
        /\ UNCHANGED <<pc, todo, ses, price, bill, owe, events, back, tries, wallet, token, sub, record,
                       clock, faults, paid, tainted, stale>>
    BY DEF BeginReset, handler, refund, books, history
  <1>3. Keeper \in Process /\ \A q \in Requests : Keeper # Back(q) /\ Back(q) \in Process
    BY ProcessType DEF Process
  <1>4. /\ tx' \in [Process -> Tx \union {NoTx}]
        /\ \A q \in Process : q # Keeper => tx'[q] = tx[q]
    BY <1>1, <1>2, <1>3, OpenStep, Zenon
  <1>5. \A q \in Requests : tx'[Back(q)] = tx[Back(q)]
    BY <1>3, <1>4
  <1>6. TypeOK'
    BY <1>1, <1>2, <1>4, TypeParts, TypeStill
  <1>7. Ledger
    BY <1>1, <1>2, <1>3, OpenLedger, Zenon
  <1>8. QED
    BY <1>2, <1>5, <1>6, <1>7, RequestsStill

LEMMA CommitResetKeeps ==
    ASSUME BInv, PayInv, NEW s \in Subs, CommitReset(s)
    PROVE  Kept
  <1>1. TypeOK /\ WithinTotal /\ (RowLocks => OneTx)
    BY Zenon DEF BInv, PayInv
  <1>2. PICK row, now : row = tx[Keeper].rows[s] /\ now = tx[Keeper].now
    OBVIOUS
  <1>3. /\ tx[Keeper].open /\ Due(s, row, now) /\ Close(Keeper)
        /\ sub' = [sub EXCEPT ![s] = Fresh(s, row, now)]
        /\ stale' = [stale EXCEPT ![s] = 0]
        /\ UNCHANGED <<pc, todo, ses, price, bill, owe, events, back, tries, wallet, token, record,
                       clock, faults, paid, tainted>>
    BY <1>2 DEF CommitReset, handler, refund
  <1>4. Keeper \in Process /\ \A q \in Requests : Keeper # Back(q) /\ Back(q) \in Process
    BY ProcessType DEF Process
  <1>5. /\ tx' \in [Process -> Tx \union {NoTx}]
        /\ \A q \in Process : q # Keeper => tx'[q] = tx[q]
    BY <1>1, <1>3, <1>4, CloseStep, Zenon
  <1>6. \A q \in Requests : tx'[Back(q)] = tx[Back(q)]
    BY <1>4, <1>5
  <1>7. row \in SubRow /\ now \in Nat
    BY <1>1, <1>2, <1>3, <1>4, ReadRows
  <1>8. PICK new \in SubRow : /\ new = Fresh(s, row, now)
                              /\ new.status = row.status /\ new.used = 0
    <2>1. /\ Fresh(s, row, now) \in SubRow
          /\ Fresh(s, row, now).status = row.status /\ Fresh(s, row, now).used = 0
      BY <1>3, <1>7, RowKept, Zenon
    <2>2. QED
      BY <2>1, Zenon
  <1>9. /\ sub' \in [Subs -> SubRow] /\ sub'[s] = new
        /\ \A u \in Subs : u # s => sub'[u] = sub[u]
    BY <1>1, <1>3, <1>8, SubType
  <1>10. stale' \in [Subs -> Nat] /\ clock' \in 0..MaxResets
    BY <1>1, <1>3, TypeParts
  <1>11. TypeOK'
    BY <1>1, <1>3, <1>5, <1>9, <1>10, TypeStill
  <1>12. WithinTotal'
    BY <1>1, <1>8, <1>9, SubAssumption DEF WithinTotal
  <1>13. RowLocks => Stays
    <2>1. RowLocks => tx[Keeper].rows = sub
      BY <1>3, <1>4, LockedRows, Zenon
    <2>2. RowLocks => sub'[s].status = sub[s].status
      BY <1>2, <1>8, <1>9, <2>1
    <2>3. QED
      BY <1>9, <2>2 DEF Stays
  <1>14. Ledger
    BY <1>1, <1>3, <1>4, <1>12, <1>13, CloseLedger, Zenon
  <1>15. QED
    BY <1>3, <1>6, <1>11, <1>14, RequestsStill

LEMMA EndSubscriptionKeeps ==
    ASSUME BInv, PayInv, NEW s \in Subs, NEW status \in {"ended", "deleted"},
           EndSubscription(s, status)
    PROVE  Kept
  <1>1. TypeOK /\ WithinTotal /\ (RowLocks => OneTx)
    BY Zenon DEF BInv, PayInv
  <1>2. /\ sub[s].status # "deleted" /\ MayLock
        /\ sub' = [sub EXCEPT ![s] = [sub[s] EXCEPT !.status = status]]
        /\ UNCHANGED <<pc, todo, ses, price, bill, owe, events, back, tries, wallet, token, record, tx,
                       clock, faults, paid, tainted, stale>>
    BY DEF EndSubscription, handler, refund, history
  <1>3. PICK new \in SubRow : /\ new = [sub[s] EXCEPT !.status = status]
                              /\ new.used = sub[s].used /\ new.status # "active"
    <2>1. sub[s] \in SubRow
      BY <1>1, SubType
    <2>2. /\ [sub[s] EXCEPT !.status = status] \in SubRow
          /\ [sub[s] EXCEPT !.status = status].used = sub[s].used
          /\ [sub[s] EXCEPT !.status = status].status # "active"
      BY <2>1 DEF SubRow
    <2>3. QED
      BY <2>2, Zenon
  <1>4. /\ sub' \in [Subs -> SubRow] /\ sub'[s] = new
        /\ \A u \in Subs : u # s => sub'[u] = sub[u]
    BY <1>1, <1>2, <1>3, SubType
  <1>5. TypeOK'
    BY <1>1, <1>2, <1>4, TypeParts, TypeStill
  <1>6. WithinTotal'
    BY <1>1, <1>3, <1>4 DEF WithinTotal
  <1>7. RowLocks => OneTx'
    BY <1>2 DEF MayLock, OneTx
  <1>8. Stays
    BY <1>2, <1>3, <1>4 DEF Stays
  <1>9. Ledger
    BY <1>6, <1>7, <1>8, Zenon DEF Ledger
  <1>10. QED
    BY <1>2, <1>5, <1>9, RequestsStill

LEMMA RestKeeps ==
    ASSUME BInv, PayInv, UNCHANGED vars
    PROVE  Kept
  <1>1. TypeOK /\ WithinTotal /\ (RowLocks => OneTx)
    BY Zenon DEF BInv, PayInv
  <1>2. UNCHANGED <<pc, todo, ses, price, bill, owe, events, back, tries, wallet, token, sub, record,
                    tx, clock, faults, paid, tainted, stale>>
    BY DEF vars, handler, refund, books, history
  <1>3. TypeOK'
    BY <1>1, <1>2, TypeParts, TypeStill
  <1>4. Ledger
    BY <1>1, <1>2, LedgerStill
  <1>5. QED
    BY <1>2, <1>3, <1>4, RequestsStill

-----------------------------------------------------------------------------
(* The invariant *)

LEMMA BillingInit == Init => BInv /\ PayInv
  <1> SUFFICES ASSUME Init PROVE BInv /\ PayInv
    OBVIOUS
  <1>1. TypeOK
    <2>1. /\ pc \in [Requests -> Labels] /\ back \in [Requests -> BackLabels]
          /\ price \in [Requests -> Nat] /\ bill \in [Requests -> Nat]
          /\ owe \in [Requests -> Nat]
      BY DEF Init, Labels, Unfunded, BackLabels
    <2>e. NoEvents \in Events
      BY BoundAssumption DEF NoEvents, Events
    <2>2. /\ events \in [Requests -> Events] /\ tries \in [Requests -> 0..3]
          /\ clock \in 0..MaxResets /\ faults \in 0..MaxFaults
          /\ wallet \in Int /\ token \in Int /\ tainted \subseteq Requests
      BY <2>e, BoundAssumption, QuotaAssumption DEF Init
    <2>3. todo \in [Requests -> Seq({"wallet", "subscription"})]
      <3>1. <<>> \in Seq({"wallet", "subscription"})
        OBVIOUS
      <3>2. QED
        BY <3>1, Zenon DEF Init
    <2>4. ses \in [Requests -> Session]
      <3>1. NoSession \in Session
        BY DEF NoSession, Session
      <3>2. QED
        BY <3>1, Zenon DEF Init
    <2>5. record \in [Requests -> Record \union {NoRecord}] /\ tx \in [Process -> Tx \union {NoTx}]
      BY Zenon DEF Init
    <2>6. sub \in [Subs -> SubRow] /\ stale \in [Subs -> Nat]
      BY DEF Init, SubRow
    <2>7. paid \in [Requests -> Paid]
      BY DEF Init, Paid
    <2>8. QED
      BY <2>1, <2>2, <2>3, <2>4, <2>5, <2>6, <2>7, LabelSet, Zenon DEF TypeOK, BackLabels, Paid
  <1>2. ASSUME NEW r \in Requests
        PROVE  Control(r) /\ Enough(r) /\ Booked(r)
    <2>1. /\ pc[r] = "new" /\ back[r] = "idle" /\ tries[r] = 0
          /\ price[r] = 0 /\ bill[r] = 0
          /\ paid[r].fund = 0 /\ paid[r].tok = 0
          /\ ses[r].sub = NoSub /\ ses[r].source = "none" /\ ses[r].hold = 0
      BY DEF Init, NoSession
    <2>2. Control(r)
      BY <2>1 DEF Control, Answered
    <2>3. Enough(r)
      BY <2>1 DEF Enough, HoldsToken, HoldsFund, Answered
    <2>4. Booked(r)
      BY <2>1 DEF Booked
    <2>5. QED
      BY <2>2, <2>3, <2>4
  <1>3. WithinTotal /\ OneTx
    <2>1. WithinTotal
      BY SubAssumption DEF Init, WithinTotal
    <2>2. OneTx
      BY DEF Init, OneTx, NoTx
    <2>3. QED
      BY <2>1, <2>2
  <1>4. QED
    BY <1>1, <1>2, <1>3, Zenon DEF BInv, PayInv

\* Every step of Next is one of the steps above.
LEMMA BillingNext == BInv /\ PayInv /\ [Next]_vars => Kept
  <1> SUFFICES ASSUME BInv, PayInv, [Next]_vars PROVE Kept
    OBVIOUS
  <1>1. ASSUME NEW r \in Requests, NEW e \in Estimates, Begin(r, e)
        PROVE  Kept
    BY <1>1, BeginKeeps
  <1>2. ASSUME NEW r \in Requests, HandlerStep(r)
        PROVE  Kept
    <2>1. CASE TryWallet(r) \/ TrySubscription(r) \/ CheckToken(r) \/ TakeToken(r)
      BY <1>2, <2>1, TryWalletKeeps, TrySubscriptionKeeps, CheckTokenKeeps, TakeTokenKeeps, Zenon
    <2>2. CASE HoldWallet(r) \/ CommitHold(r) \/ Undo(r) \/ SettleNothing(r)
      BY <1>2, <2>2, HoldWalletKeeps, CommitHoldKeeps, UndoKeeps, SettleNothingKeeps, Zenon
    <2>3. CASE PayWallet(r) \/ CommitPay(r) \/ PayToken(r)
      BY <1>2, <2>3, PayWalletKeeps, CommitPayKeeps, PayTokenKeeps, Zenon
    <2>4. CASE BeginHold(r) \/ BeginPay(r)
      <3>1. /\ Open(Main(r))
            /\ UNCHANGED <<handler, refund, books, clock, faults, history>>
        BY <2>4, Zenon DEF BeginHold, BeginPay
      <3>2. QED
        BY <1>2, <3>1, OpenMain, Zenon
    <2>5. ASSUME NEW q \in Prices, LastUsage(r, q)
          PROVE  Kept
      BY <2>5, LastUsageKeeps
    <2>6. CASE Conclude(r)
      BY <2>6, ConcludeKeeps
    <2>7. QED
      BY <1>2, <2>1, <2>2, <2>3, <2>4, <2>5, <2>6, Zenon DEF HandlerStep
  <1>3. ASSUME NEW r \in Requests, Outcome(r)
        PROVE  Kept
    <2>1. ASSUME NEW q \in Prices, Serve(r, q) \/ Event(r, q)
          PROVE  Kept
      BY <1>3, <2>1, ServeKeeps, EventKeeps, Zenon
    <2>2. ASSUME NEW violation \in BOOLEAN, Fail(r, violation)
          PROVE  Kept
      BY <1>3, <2>2, FailKeeps, Zenon
    <2>3. QED
      BY <1>3, <2>1, <2>2, HangUpKeeps, Zenon DEF Outcome
  <1>4. ASSUME NEW r \in Requests, RefundStep(r)
        PROVE  Kept
    BY <1>4, RefundWalletKeeps, BeginRefundKeeps, CommitRefundKeeps, MarkRefundedKeeps,
       RefundTokenKeeps, Zenon DEF RefundStep
  <1>5. ASSUME NEW r \in Requests, Crash(r)
        PROVE  Kept
    BY <1>5, CrashKeeps
  <1>6. ASSUME NEW s \in Subs, CommitReset(s)
        PROVE  Kept
    BY <1>6, CommitResetKeeps
  <1>7. ASSUME NEW s \in Subs, NEW status \in {"ended", "deleted"}, EndSubscription(s, status)
        PROVE  Kept
    BY <1>7, EndSubscriptionKeeps
  <1>8. CASE UNCHANGED vars
    BY <1>8, RestKeeps
  <1>9. CASE Tick \/ BeginReset
    BY <1>9, TickKeeps, BeginResetKeeps
  <1>10. Rest => UNCHANGED vars
    BY Zenon DEF Rest
  <1>11. QED
    BY <1>1, <1>2, <1>3, <1>4, <1>5, <1>6, <1>7, <1>8, <1>9, <1>10, Zenon DEF Next

\* The inductive invariant holds in every reachable state: the tables of a request
\* fit together, what may be returned is still there, counters stay within their
\* totals and, with row locks, a request without a fault has paid at every point
\* what its handler and its refund have moved so far.
THEOREM BillingInvariant == Spec => [](BInv /\ PayInv)
  BY BillingInit, BillingNext, PTL DEF Spec, Kept

\* Every variable holds what its Go or database type allows.
THEOREM BillingTypes == Spec => []TypeOK
  <1>1. BInv /\ PayInv => TypeOK
    BY Zenon DEF BInv
  <1>2. QED
    BY <1>1, BillingInvariant, PTL

\* Whatever fails, crashes or runs at the same time, with row locks or without, a
\* request never gets more out of the wallet or the token than was taken for it.
THEOREM NeverTooMuchBack == Spec => []NeverOverRefunded
  <1>1. BInv /\ PayInv => NeverOverRefunded
    <2>1. BInv /\ PayInv => \A r \in Requests : Enough(r)
      BY Zenon DEF PayInv
    <2>2. QED
      BY <2>1, Zenon DEF NeverOverRefunded, Enough
  <1>2. QED
    BY <1>1, BillingInvariant, PTL

\* Where the database makes transactions on subscription rows wait for each other,
\* every request that met no fault has, once it has ended, paid its price from both
\* accounts, or nothing if it was rejected or failed; only one whose subscription
\* refused to go over its total has paid less, its hold or nothing of a fee.
THEOREM EveryPricePaid == RowLocks => (Spec => []PaysItsPrice)
  <1> SUFFICES ASSUME RowLocks PROVE Spec => []PaysItsPrice
    OBVIOUS
  <1>1. BInv /\ PayInv => PaysItsPrice
    <2> SUFFICES ASSUME BInv, PayInv, NEW r \in Requests \ Realtime,
                        Ended(r), Returnable(r)
                 PROVE  /\ paid[r].fund = price[r] \/ Undercharged(r)
                        /\ paid[r].tok = IF UsesToken(r) THEN paid[r].fund ELSE 0
      BY Zenon DEF PaysItsPrice
    <2>1. Booked(r) /\ bill[r] \in Nat /\ price[r] \in Nat
      BY Values, Zenon DEF PayInv, BInv
    <2>2. pc[r] = "end" /\ back[r] \in {"idle", "done"}
      BY DEF Ended
    <2>3. paid[r].fund = bill[r] /\ paid[r].tok = OnToken(r, bill[r])
      <3>1. CASE back[r] = "idle"
        BY <2>1, <2>2, <3>1 DEF Booked
      <3>2. CASE back[r] = "done"
        BY <2>1, <2>2, <3>2 DEF Booked, HeldFund, HeldTok
      <3>3. QED
        BY <2>2, <3>1, <3>2
    <2>4. bill[r] = price[r] \/ Short(r)
      BY <2>1, <2>2 DEF Booked
    <2>5. Short(r) => Undercharged(r)
      BY <2>3 DEF Short, Undercharged
    <2>6. QED
      BY <2>3, <2>4, <2>5 DEF OnToken
  <1>2. QED
    BY <1>1, BillingInvariant, PTL

\* Under the same condition wallet or subscription and token are never moved one
\* without the other, for websockets and their events as well.
THEOREM AccountsTogether == RowLocks => (Spec => []AccountsKept)
  <1> SUFFICES ASSUME RowLocks PROVE Spec => []AccountsKept
    OBVIOUS
  <1>1. BInv /\ PayInv => AccountsKept
    <2>1. ASSUME BInv, PayInv, NEW r \in Requests,
                 Ended(r), Returnable(r), UsesToken(r)
          PROVE  paid[r].fund = paid[r].tok
      <3>1. Booked(r) /\ bill[r] \in Nat
        BY <2>1, Values, Zenon DEF PayInv, BInv
      <3>2. pc[r] = "end" /\ back[r] \in {"idle", "done"}
        BY <2>1 DEF Ended
      <3>3. CASE back[r] = "idle"
        BY <2>1, <3>1, <3>2, <3>3 DEF Booked, OnToken
      <3>4. CASE back[r] = "done"
        BY <2>1, <3>1, <3>2, <3>4 DEF Booked, OnToken, HeldFund, HeldTok
      <3>5. QED
        BY <3>2, <3>3, <3>4
    <2>2. BInv /\ PayInv => AccountsAgree
      BY <2>1, Zenon DEF AccountsAgree
    <2>3. BInv /\ PayInv => \A r \in Requests : Enough(r)
      BY Zenon DEF PayInv
    <2>4. BInv /\ PayInv => NeverOverRefunded
      BY <2>3, Zenon DEF NeverOverRefunded, Enough
    <2>5. QED
      BY <2>2, <2>4, Zenon DEF AccountsKept
  <1>2. QED
    BY <1>1, BillingInvariant, PTL

\* Under the same condition no transaction brings a subscription back that has
\* expired or was cancelled, whatever it had read.
THEOREM EndedStayEnded == RowLocks => (Spec => EndedStays)
  <1> SUFFICES ASSUME RowLocks PROVE Spec => EndedStays
    OBVIOUS
  <1>1. BInv /\ PayInv /\ [Next]_vars
        => [\A s \in Subs : sub[s].status # "active" => sub'[s].status # "active"]_vars
    BY BillingNext, Zenon DEF Kept, Ledger, Stays
  <1>2. QED
    BY <1>1, BillingInvariant, PTL DEF Spec, EndedStays
-----------------------------------------------------------------------------
(* Sums over the requests.  The induction theorems of the library take a   *)
(* predicate as a parameter; these lemmas take the set of what satisfies it. *)

\* The element a sum takes first.
Picked(s) == CHOOSE x \in s : TRUE

\* A set of naturals that contains each number whose predecessors it contains.
LEMMA StrongInduction ==
    ASSUME NEW T \in SUBSET Nat,
           \A n \in Nat : (\A m \in Nat : m < n => m \in T) => n \in T
    PROVE  T = Nat
  <1> SUFFICES ASSUME T # Nat PROVE FALSE
    OBVIOUS
  <1> DEFINE Rest0 == Nat \ T
  <1>1. Rest0 \in SUBSET Nat /\ Rest0 # {}
    OBVIOUS
  <1>2. PICK n \in Rest0 : \A y \in Rest0 : n <= y
    <2> HIDE DEF Rest0
    <2>1. QED
      BY <1>1, MinOfNat, Zenon
  <1>3. \A m \in Nat : m < n => m \in T
    BY <1>2
  <1>4. QED
    BY <1>2, <1>3

LEMMA PickedSmaller ==
    ASSUME NEW S, IsFiniteSet(S), NEW s \in SUBSET S, s # {}
    PROVE  /\ Picked(s) \in s /\ s \ {Picked(s)} \in SUBSET S
           /\ Cardinality(s) \in Nat /\ Cardinality(s \ {Picked(s)}) \in Nat
           /\ Cardinality(s \ {Picked(s)}) < Cardinality(s)
  <1>1. Picked(s) \in s
    BY Zenon DEF Picked
  <1>2. IsFiniteSet(s)
    BY FS_Subset
  <1>3. IsFiniteSet(s \ {Picked(s)}) /\ Cardinality(s \ {Picked(s)}) = Cardinality(s) - 1
    BY <1>1, <1>2, FS_RemoveElement
  <1>4. Cardinality(s) \in Nat /\ Cardinality(s \ {Picked(s)}) \in Nat
    BY <1>2, <1>3, FS_CardinalityType
  <1>5. QED
    BY <1>1, <1>3, <1>4

\* What holds of {}, and of a set when it holds without its picked element, holds
\* of every subset of a finite set.
LEMMA SubsetInduction ==
    ASSUME NEW S, IsFiniteSet(S), NEW T, {} \in T,
           \A s \in SUBSET S : s # {} /\ s \ {Picked(s)} \in T => s \in T
    PROVE  \A s \in SUBSET S : s \in T
  <1> DEFINE N == {n \in Nat : \A s \in SUBSET S : Cardinality(s) = n => s \in T}
  <1>1. ASSUME NEW n \in Nat, \A m \in Nat : m < n => m \in N
        PROVE  n \in N
    <2>1. ASSUME NEW s \in SUBSET S, Cardinality(s) = n, s # {}
          PROVE  s \in T
      <3>1. /\ s \ {Picked(s)} \in SUBSET S
            /\ Cardinality(s \ {Picked(s)}) \in Nat
            /\ Cardinality(s \ {Picked(s)}) < n
        BY <2>1, PickedSmaller
      <3>2. Cardinality(s \ {Picked(s)}) \in N
        BY <1>1, <3>1
      <3>3. s \ {Picked(s)} \in T
        BY <3>1, <3>2
      <3>4. QED
        BY <2>1, <3>3
    <2>2. QED
      BY <2>1
  <1>2. N = Nat
    <2>1. N \in SUBSET Nat
      OBVIOUS
    <2> HIDE DEF N
    <2>2. QED
      BY <1>1, <2>1, StrongInduction, Zenon
  <1>3. ASSUME NEW s \in SUBSET S
        PROVE  s \in T
    <2>1. Cardinality(s) \in Nat
      BY FS_Subset, FS_CardinalityType
    <2>2. QED
      BY <1>2, <2>1
  <1>4. QED
    BY <1>3

\* One step of the sum, and the function that takes them all.
Added(f, it, s) == IF s = {} THEN 0 ELSE f[Picked(s)] + it[s \ {Picked(s)}]
Sums(f, S, it) == it = [s \in SUBSET S |-> Added(f, it, s)]

LEMMA SumIsLast ==
    ASSUME NEW f, NEW S
    PROVE  SumFunctionOnSet(f, S) = (CHOOSE it : Sums(f, S, it))[S]
  BY DEF SumFunctionOnSet, FoldFunctionOnSet, MapThenFoldSet, Sums, Added, Picked

\* Up to any cardinality, hence for the whole set, there is such a function.
LEMMA SumsExist ==
    ASSUME NEW S, IsFiniteSet(S), NEW f
    PROVE  \E it : Sums(f, S, it)
  <1> DEFINE UpTo(n, it) == \A s \in SUBSET S : Cardinality(s) <= n => it[s] = Added(f, it, s)
             N == {n \in Nat : \E it : UpTo(n, it)}
  <1>1. ASSUME NEW n \in Nat, \A m \in Nat : m < n => m \in N
        PROVE  n \in N
    <2>1. PICK it0 : \A s \in SUBSET S : Cardinality(s) < n => it0[s] = Added(f, it0, s)
      <3>1. CASE n = 0
        <4>1. \A s \in SUBSET S : ~(Cardinality(s) < n)
          BY <3>1, FS_Subset, FS_CardinalityType
        <4>2. QED
          BY <4>1, Zenon
      <3>2. CASE n # 0
        <4>1. n - 1 \in Nat /\ n - 1 < n
          BY <3>2
        <4>2. PICK it1 : UpTo(n - 1, it1)
          BY <1>1, <4>1
        <4>3. \A s \in SUBSET S : Cardinality(s) < n => Cardinality(s) <= n - 1
          BY FS_Subset, FS_CardinalityType
        <4>4. QED
          BY <4>2, <4>3
      <3>3. QED
        BY <3>1, <3>2
    <2> DEFINE it2 == [s \in SUBSET S |-> Added(f, it0, s)]
    <2>2. ASSUME NEW s \in SUBSET S, Cardinality(s) <= n
          PROVE  it2[s] = Added(f, it2, s)
      <3>1. it2[s] = Added(f, it0, s)
        OBVIOUS
      <3>2. CASE s = {}
        BY <3>1, <3>2 DEF Added
      <3>3. CASE s # {}
        <4>1. /\ s \ {Picked(s)} \in SUBSET S
              /\ Cardinality(s \ {Picked(s)}) < n
          BY <2>2, <3>3, PickedSmaller
        <4>2. it0[s \ {Picked(s)}] = it2[s \ {Picked(s)}]
          BY <2>1, <4>1
        <4> HIDE DEF it2
        <4>3. QED
          BY <3>1, <3>3, <4>2, Zenon DEF Added
      <3>4. QED
        BY <3>2, <3>3
    <2>3. UpTo(n, it2)
      <3> HIDE DEF it2
      <3>1. QED
        BY <2>2
    <2>4. QED
      <3> HIDE DEF it2
      <3>1. QED
        BY <2>3
  <1>2. N = Nat
    <2>1. N \in SUBSET Nat
      OBVIOUS
    <2> HIDE DEF N
    <2>2. QED
      BY <1>1, <2>1, StrongInduction, Zenon
  <1>3. Cardinality(S) \in N
    BY <1>2, FS_CardinalityType
  <1>4. PICK it : UpTo(Cardinality(S), it)
    BY <1>3
  <1>5. \A s \in SUBSET S : it[s] = Added(f, it, s)
    BY <1>4, FS_Subset
  <1> DEFINE all == [s \in SUBSET S |-> it[s]]
  <1>6. ASSUME NEW s \in SUBSET S
        PROVE  it[s] = Added(f, all, s)
    <2>1. CASE s = {}
      BY <1>5, <2>1 DEF Added
    <2>2. CASE s # {}
      <3>1. s \ {Picked(s)} \in SUBSET S
        OBVIOUS
      <3>2. it[s \ {Picked(s)}] = all[s \ {Picked(s)}]
        BY <3>1
      <3> HIDE DEF all
      <3>3. QED
        BY <1>5, <2>2, <3>2, Zenon DEF Added
    <2>3. QED
      BY <2>1, <2>2
  <1>7. Sums(f, S, all)
    <2>1. all = [s \in SUBSET S |-> Added(f, all, s)]
      <3>1. \A s \in SUBSET S : it[s] = Added(f, all, s)
        BY <1>6
      <3>2. PICK fin : fin = all
        OBVIOUS
      <3>3. all = [s \in SUBSET S |-> Added(f, fin, s)]
        <4>1. \A s \in SUBSET S : it[s] = Added(f, fin, s)
          <5> HIDE DEF all
          <5>1. QED
            BY <3>1, <3>2, Zenon
        <4>2. QED
          BY <4>1
      <3>4. QED
        <4> HIDE DEF all
        <4>1. QED
          BY <3>2, <3>3
    <2>2. QED
      <3> HIDE DEF all
      <3>1. QED
        BY <2>1, Zenon DEF Sums
  <1>8. QED
    <2> HIDE DEF all
    <2>1. QED
      BY <1>7, Zenon

\* The function that a sum is taken from.
LEMMA SumTaken ==
    ASSUME NEW S, IsFiniteSet(S), NEW f
    PROVE  \E it : /\ SumFunctionOnSet(f, S) = it[S]
                   /\ \A s \in SUBSET S : it[s] = Added(f, it, s)
  <1>1. PICK it : it = CHOOSE x : Sums(f, S, x)
    OBVIOUS
  <1>2. Sums(f, S, it)
    BY <1>1, SumsExist, Zenon
  <1>3. SumFunctionOnSet(f, S) = it[S]
    BY <1>1, SumIsLast, Zenon
  <1>4. \A s \in SUBSET S : it[s] = Added(f, it, s)
    <2>1. PICK g : g = [s \in SUBSET S |-> Added(f, it, s)]
      OBVIOUS
    <2>2. it = g
      BY <1>2, <2>1, Zenon DEF Sums
    <2>3. QED
      BY <2>1, <2>2
  <1>5. QED
    BY <1>3, <1>4, Zenon

\* A sum of naturals is a natural, and 0 when all of them are.
LEMMA SumOfNat ==
    ASSUME NEW S, IsFiniteSet(S), NEW f \in [S -> Nat]
    PROVE  /\ SumFunctionOnSet(f, S) \in Nat
           /\ (\A x \in S : f[x] = 0) => SumFunctionOnSet(f, S) = 0
  <1>1. PICK it : /\ SumFunctionOnSet(f, S) = it[S]
                  /\ \A s \in SUBSET S : it[s] = Added(f, it, s)
    BY SumTaken
  <1> DEFINE T == {s \in SUBSET S : /\ it[s] \in Nat
                                    /\ (\A x \in s : f[x] = 0) => it[s] = 0}
  <1>2. {} \in T
    <2>1. it[{}] = 0
      BY <1>1 DEF Added
    <2>2. QED
      BY <2>1
  <1>3. ASSUME NEW s \in SUBSET S, s # {}, s \ {Picked(s)} \in T
        PROVE  s \in T
    <2>1. it[s] = f[Picked(s)] + it[s \ {Picked(s)}]
      BY <1>1, <1>3 DEF Added
    <2>2. PICK x \in S : x = Picked(s) /\ x \in s
      BY <1>3, PickedSmaller
    <2>3. PICK n \in Nat : n = it[s \ {x}] /\ ((\A y \in s \ {x} : f[y] = 0) => n = 0)
      BY <1>3, <2>2
    <2>4. it[s] = f[x] + n /\ f[x] \in Nat
      BY <2>1, <2>2, <2>3
    <2>5. QED
      BY <2>2, <2>3, <2>4
  <1> HIDE DEF T
  <1>4. S \in T
    BY <1>2, <1>3, SubsetInduction
  <1>5. QED
    BY <1>1, <1>4 DEF T

\* Where no value grows but that of r, the sum grows by no more than that one does.
LEMMA SumMoves ==
    ASSUME NEW S, IsFiniteSet(S), NEW f \in [S -> Nat], NEW g \in [S -> Nat], NEW r,
           \A x \in S : x # r => g[x] <= f[x]
    PROVE  /\ r \in S => SumFunctionOnSet(g, S) + f[r] <= SumFunctionOnSet(f, S) + g[r]
           /\ r \notin S => SumFunctionOnSet(g, S) <= SumFunctionOnSet(f, S)
  <1>1. PICK F : /\ SumFunctionOnSet(f, S) = F[S]
                 /\ \A s \in SUBSET S : F[s] = Added(f, F, s)
    BY SumTaken
  <1>2. PICK G : /\ SumFunctionOnSet(g, S) = G[S]
                 /\ \A s \in SUBSET S : G[s] = Added(g, G, s)
    BY SumTaken
  <1> DEFINE T == {s \in SUBSET S : /\ F[s] \in Int /\ G[s] \in Int
                                    /\ r \in s => G[s] + f[r] <= F[s] + g[r]
                                    /\ r \notin s => G[s] <= F[s]}
  <1>3. {} \in T
    BY <1>1, <1>2 DEF Added
  <1>4. ASSUME NEW s \in SUBSET S, s # {}, s \ {Picked(s)} \in T
        PROVE  s \in T
    <2>1. /\ F[s] = f[Picked(s)] + F[s \ {Picked(s)}]
          /\ G[s] = g[Picked(s)] + G[s \ {Picked(s)}]
      BY <1>1, <1>2, <1>4 DEF Added
    <2>2. PICK x \in S : x = Picked(s) /\ x \in s
      BY <1>4, PickedSmaller
    <2>3. PICK m \in Int, n \in Int :
             /\ m = F[s \ {x}] /\ n = G[s \ {x}]
             /\ r \in s \ {x} => n + f[r] <= m + g[r]
             /\ r \notin s \ {x} => n <= m
      BY <1>4, <2>2
    <2>4. /\ F[s] = f[x] + m /\ G[s] = g[x] + n /\ f[x] \in Nat /\ g[x] \in Nat
          /\ r \in s => f[r] \in Nat /\ g[r] \in Nat
      BY <2>1, <2>2, <2>3
    <2>5. CASE x = r
      BY <2>2, <2>3, <2>4, <2>5
    <2>6. CASE x # r
      <3>1. g[x] <= f[x]
        BY <2>6
      <3>2. QED
        BY <2>2, <2>3, <2>4, <2>6, <3>1
    <2>7. QED
      BY <2>5, <2>6
  <1> HIDE DEF T
  <1>5. S \in T
    BY <1>3, <1>4, SubsetInduction
  <1>6. QED
    BY <1>1, <1>2, <1>5 DEF T

-----------------------------------------------------------------------------
(* What the requests of a period have taken *)

\* Only a subscription takes from a subscription, and in a period that has begun:
\* with row locks no stale row brings an earlier one back.
OfSources  == \A r \in Requests : ses[r].sub \in Subs => ses[r].source = "subscription"
BornBefore == \A r \in Requests :
                  ses[r].sub \in Subs => paid[r].born <= sub[ses[r].sub].next
PeriodInv  == OfSources /\ BornBefore /\ (tainted = {} => UsedCoversSpent)

InPeriod(r, s) == ses[r].sub = s /\ paid[r].born = sub[s].next

LEMMA PositiveNat ==
    ASSUME NEW n \in Int
    PROVE  Positive(n) \in Nat /\ Positive(n) >= n
  BY DEF Positive

\* The values the invariant compares.
LEMMA PeriodValues ==
    ASSUME TypeOK
    PROVE  /\ \A r \in Requests : paid[r].fund \in Int /\ paid[r].born \in Nat
           /\ \A s \in Subs : /\ sub[s].used \in Nat /\ sub[s].next \in Nat
                              /\ stale[s] \in Nat
  <1>1. \A r \in Requests : paid[r].fund \in Int /\ paid[r].born \in Nat
    BY PaidType DEF Paid
  <1>2. \A s \in Subs : sub[s].used \in Nat /\ sub[s].next \in Nat
    BY SubType DEF SubRow
  <1>3. \A s \in Subs : stale[s] \in Nat
    BY TypeParts
  <1>4. QED
    BY <1>1, <1>2, <1>3, Zenon

LEMMA SpentByType ==
    ASSUME TypeOK, NEW s \in Subs
    PROVE  /\ SpentBy(s) \in [Requests -> Nat]
           /\ \A r \in Requests : /\ InPeriod(r, s) => SpentBy(s)[r] = Positive(paid[r].fund)
                                  /\ ~InPeriod(r, s) => SpentBy(s)[r] = 0
           /\ Spent(s) = SumFunctionOnSet(SpentBy(s), Requests)
           /\ Spent(s) \in Nat
  <1>1. \A r \in Requests : Positive(paid[r].fund) \in Nat
    BY PeriodValues, PositiveNat
  <1>2. SpentBy(s) = [r \in Requests |->
                         IF InPeriod(r, s) THEN Positive(paid[r].fund) ELSE 0]
    BY DEF SpentBy, InPeriod
  <1>3. SpentBy(s) \in [Requests -> Nat]
    BY <1>1, <1>2
  <1>4. Spent(s) = SumFunctionOnSet(SpentBy(s), Requests)
    <2>1. DOMAIN SpentBy(s) = Requests
      BY <1>3
    <2>2. QED
      BY <2>1, Zenon DEF Spent, SumFunction
  <1>5. Spent(s) \in Nat
    BY <1>3, <1>4, FiniteAssumption, SumOfNat
  <1>6. QED
    BY <1>2, <1>3, <1>4, <1>5

\* The same of every subscription, as one formula, for the state after a step.
Amounts(s) ==
    /\ sub[s].used \in Nat /\ sub[s].next \in Nat /\ stale[s] \in Nat
    /\ SpentBy(s) \in [Requests -> Nat]
    /\ \A r \in Requests : /\ InPeriod(r, s) => SpentBy(s)[r] = Positive(paid[r].fund)
                           /\ ~InPeriod(r, s) => SpentBy(s)[r] = 0
    /\ Spent(s) = SumFunctionOnSet(SpentBy(s), Requests)
    /\ Spent(s) \in Nat
AllAmounts == \A s \in Subs : Amounts(s)

LEMMA AmountsTyped == TypeOK => AllAmounts
  <1> SUFFICES ASSUME TypeOK, NEW s \in Subs PROVE Amounts(s)
    BY Zenon DEF AllAmounts
  <1>1. sub[s].used \in Nat /\ sub[s].next \in Nat /\ stale[s] \in Nat
    BY PeriodValues
  <1>2. QED
    BY <1>1, SpentByType, Zenon DEF Amounts

LEMMA AmountsAfter == TypeOK' => AllAmounts'
  BY AmountsTyped, PTL

\* A step that takes nothing from a subscription and gives nothing back.
SpentStill ==
    /\ \A q \in Requests :
          /\ ses'[q].sub = ses[q].sub \/ (ses[q].sub \notin Subs /\ ses'[q].sub \notin Subs)
          /\ ses[q].sub \in Subs =>
                /\ ses'[q].source = ses[q].source
                /\ paid'[q].fund = paid[q].fund /\ paid'[q].born = paid[q].born
    /\ \A s \in Subs : /\ sub'[s].used = sub[s].used /\ sub'[s].next = sub[s].next
                       /\ stale'[s] = stale[s]
    /\ tainted' = {} => tainted = {}

LEMMA StillPeriod ==
    ASSUME PeriodInv, SpentStill
    PROVE  PeriodInv'
  <1>1. OfSources' /\ BornBefore'
    BY DEF PeriodInv, OfSources, BornBefore, SpentStill
  <1>2. ASSUME NEW s \in Subs
        PROVE  Spent(s)' = Spent(s)
    <2>1. \A q \in Requests :
             (IF ses'[q].sub = s /\ paid'[q].born = sub'[s].next
              THEN Positive(paid'[q].fund) ELSE 0)
             = (IF ses[q].sub = s /\ paid[q].born = sub[s].next
                THEN Positive(paid[q].fund) ELSE 0)
      BY DEF SpentStill
    <2>2. SpentBy(s)' = SpentBy(s)
      BY <2>1 DEF SpentBy
    <2>3. QED
      BY <2>2, Zenon DEF Spent
  <1>3. tainted' = {} => UsedCoversSpent'
    BY <1>2 DEF PeriodInv, UsedCoversSpent, SpentStill
  <1>4. QED
    BY <1>1, <1>3, Zenon DEF PeriodInv

LEMMA TaintedGrows ==
    ASSUME NEW r \in Requests, Fault(r) \/ NoFault
    PROVE  tainted' = {} => tainted = {} /\ NoFault
  <1>1. Fault(r) => tainted' # {}
    BY DEF Fault
  <1>2. NoFault => tainted' = tainted
    BY DEF NoFault
  <1>3. QED
    BY <1>1, <1>2, Zenon

\* The same for the rows and requests a step does not touch: whatever it does to
\* r, the amounts of another subscription stay.
LEMMA OtherPeriod ==
    ASSUME TypeOK, TypeOK', NEW r \in Requests, NEW s \in Subs,
           ses[r].sub # s, ses'[r].sub # s,
           Same(ses, ses', r), Same(paid, paid', r),
           sub'[s].used = sub[s].used, sub'[s].next = sub[s].next, stale'[s] = stale[s],
           sub[s].used + stale[s] >= Spent(s)
    PROVE  sub'[s].used + stale'[s] >= Spent(s)'
  <1>1. \A q \in Requests :
             (IF ses'[q].sub = s /\ paid'[q].born = sub'[s].next
              THEN Positive(paid'[q].fund) ELSE 0)
             = (IF ses[q].sub = s /\ paid[q].born = sub[s].next
                THEN Positive(paid[q].fund) ELSE 0)
    <2>1. ASSUME NEW q \in Requests, q # r
          PROVE  ses'[q] = ses[q] /\ paid'[q] = paid[q]
      BY <2>1 DEF Same
    <2>2. QED
      BY <2>1
  <1>2. SpentBy(s)' = SpentBy(s)
    BY <1>1 DEF SpentBy
  <1>3. Spent(s)' = Spent(s)
    BY <1>2, Zenon DEF Spent
  <1>4. QED
    BY <1>3

\* A period begins: nobody has taken anything in it but r, if at all.
LEMMA FreshPeriod ==
    ASSUME TypeOK', NEW r, NEW s \in Subs,
           \A q \in Requests : q # r => ~InPeriod(q, s)',
           sub'[s].used >= IF r \in Requests /\ InPeriod(r, s)' THEN Positive(paid'[r].fund) ELSE 0
    PROVE  sub'[s].used + stale'[s] >= Spent(s)'
  <1> DEFINE zero == [q \in Requests |-> 0]
  <1>1. PICK g, total : /\ g = SpentBy(s)' /\ total = Spent(s)'
    OBVIOUS
  <1>2. /\ g \in [Requests -> Nat] /\ total = SumFunctionOnSet(g, Requests)
        /\ \A q \in Requests : q # r => g[q] = 0
        /\ r \in Requests =>
              g[r] = IF InPeriod(r, s)' THEN Positive(paid'[r].fund) ELSE 0
    <2>1. Amounts(s)'
      BY AmountsAfter, Zenon DEF AllAmounts
    <2>2. QED
      BY <1>1, <2>1 DEF Amounts
  <1>3. zero \in [Requests -> Nat] /\ \A q \in Requests : zero[q] = 0
    OBVIOUS
  <1> HIDE DEF zero
  <1>4. SumFunctionOnSet(zero, Requests) = 0
    BY <1>3, FiniteAssumption, SumOfNat
  <1>5. /\ r \in Requests => total + zero[r] <= 0 + g[r]
        /\ r \notin Requests => total <= 0
    <2>1. \A q \in Requests : q # r => g[q] <= zero[q]
      BY <1>2, <1>3
    <2>2. /\ r \in Requests =>
                SumFunctionOnSet(g, Requests) + zero[r]
                   <= SumFunctionOnSet(zero, Requests) + g[r]
          /\ r \notin Requests =>
                SumFunctionOnSet(g, Requests) <= SumFunctionOnSet(zero, Requests)
      BY <1>2, <1>3, <2>1, FiniteAssumption, SumMoves
    <2>3. QED
      BY <1>2, <1>4, <2>2
  <1>6. sub'[s].used \in Nat /\ stale'[s] \in Nat /\ total \in Nat
    <2>1. sub'[s].used \in Nat /\ stale'[s] \in Nat
      BY AmountsAfter DEF AllAmounts, Amounts
    <2>2. total \in Nat
      BY <1>2, FiniteAssumption, SumOfNat
    <2>3. QED
      BY <2>1, <2>2
  <1>7. CASE r \in Requests
    <2>1. g[r] = IF InPeriod(r, s)' THEN Positive(paid'[r].fund) ELSE 0
      BY <1>2, <1>7
    <2>2. sub'[s].used >= g[r]
      BY <1>7, <2>1, Zenon
    <2>3. zero[r] = 0 /\ g[r] \in Nat /\ total <= g[r]
      BY <1>2, <1>3, <1>5, <1>6, <1>7
    <2>4. QED
      BY <1>1, <1>6, <2>2, <2>3
  <1>8. CASE r \notin Requests
    BY <1>5, <1>6, <1>8, <1>1
  <1>9. QED
    BY <1>7, <1>8

\* What is paid from a subscription is on its counter, and what it gets back was
\* taken from it: the counter moves at least as far as the amount.
LEMMA MovesPeriod ==
    ASSUME TypeOK, TypeOK', OneTx, PeriodInv, NoFault, NEW p \in Process, tx[p].open,
           NEW r \in Requests, NEW d \in Int, ses[r].sub \in Subs, UNCHANGED ses,
           FromSub(p, r, d), tainted = {} => d >= 0 \/ paid[r].fund + d >= 0
    PROVE  PeriodInv'
  <1>1. PICK s \in Subs : s = ses[r].sub
    OBVIOUS
  <1>2. tx[p].rows = sub
    BY DEF OneTx
  <1>3. PICK row \in SubRow : row = sub[s]
    BY SubType
  <1>4. PICK n \in Nat : n = Positive(row.used + d) /\ n >= row.used + d
    <2>1. row.used \in Nat
      BY DEF SubRow
    <2>2. row.used + d \in Int
      BY <2>1
    <2>3. QED
      BY <2>2, PositiveNat
  <1>5. PICK new \in SubRow : /\ new = [row EXCEPT !.used = n]
                              /\ new.used = n /\ new.next = row.next
    <2>1. /\ [row EXCEPT !.used = n] \in SubRow /\ [row EXCEPT !.used = n].used = n
          /\ [row EXCEPT !.used = n].next = row.next
      BY DEF SubRow
    <2>2. QED
      BY <2>1, Zenon
  <1>6. sub' = [sub EXCEPT ![s] = new]
    BY <1>1, <1>2, <1>3, <1>4, <1>5, Zenon DEF FromSub, NewUsed
  <1>7. /\ sub'[s].used = n /\ sub'[s].next = sub[s].next
        /\ \A u \in Subs : u # s => sub'[u] = sub[u]
    BY <1>3, <1>5, <1>6, SubType
  <1>8. /\ Same(paid, paid', r)
        /\ paid'[r].fund = paid[r].fund + d /\ paid'[r].born = paid[r].born
    BY PaidType DEF FromSub, Paid, Same
  <1>9. /\ stale'[s] = IF d < 0 /\ paid[r].born # sub[s].next THEN stale[s] - d ELSE stale[s]
        /\ \A u \in Subs : u # s => stale'[u] = stale[u]
    <2>1. stale \in [Subs -> Nat]
      BY TypeParts
    <2>2. QED
      BY <1>1, <2>1 DEF FromSub
  <1>10. OfSources' /\ BornBefore'
    <2>1. OfSources'
      BY DEF PeriodInv, OfSources
    <2>2. \A q \in Requests : paid'[q].born = paid[q].born
      BY <1>8 DEF Same
    <2>3. \A u \in Subs : sub'[u].next = sub[u].next
      BY <1>7
    <2>4. QED
      BY <2>1, <2>2, <2>3 DEF PeriodInv, BornBefore
  <1>11. ASSUME tainted' = {}
         PROVE  UsedCoversSpent'
    <2>1. tainted = {}
      BY <1>11 DEF NoFault
    <2>2. UsedCoversSpent /\ (d >= 0 \/ paid[r].fund + d >= 0)
      BY <2>1, Zenon DEF PeriodInv
    <2>3. ASSUME NEW u \in Subs, u # s
          PROVE  sub'[u].used + stale'[u] >= Spent(u)'
      <3>1. sub[u].used + stale[u] >= Spent(u)
        BY <2>2, Zenon DEF UsedCoversSpent
      <3>2. Same(ses, ses', r) /\ ses'[r].sub # u /\ ses[r].sub # u
        BY <1>1, <2>3 DEF Same
      <3>3. sub'[u].used = sub[u].used /\ sub'[u].next = sub[u].next /\ stale'[u] = stale[u]
        BY <1>7, <1>9, <2>3
      <3>4. QED
        BY <1>8, <2>3, <3>1, <3>2, <3>3, OtherPeriod, Zenon
    <2>4. sub'[s].used + stale'[s] >= Spent(s)'
      <3>1. Amounts(s) /\ Amounts(s)'
        BY AmountsTyped, AmountsAfter, Zenon DEF AllAmounts
      <3>2. PICK f, g, before, after :
                /\ f = SpentBy(s) /\ g = SpentBy(s)'
                /\ before = Spent(s) /\ after = Spent(s)'
        OBVIOUS
      <3>3. /\ f \in [Requests -> Nat] /\ before \in Nat
            /\ before = SumFunctionOnSet(f, Requests)
            /\ f[r] = IF InPeriod(r, s) THEN Positive(paid[r].fund) ELSE 0
        BY <3>1, <3>2 DEF Amounts
      <3>4. /\ g \in [Requests -> Nat] /\ after \in Nat
            /\ after = SumFunctionOnSet(g, Requests)
            /\ g[r] = IF InPeriod(r, s)' THEN Positive(paid'[r].fund) ELSE 0
        BY <3>1, <3>2 DEF Amounts
      <3>5. ASSUME NEW q \in Requests, q # r
            PROVE  g[q] = f[q]
        <4>1. paid'[q] = paid[q] /\ ses'[q] = ses[q] /\ sub'[s].next = sub[s].next
          BY <1>7, <1>8, <3>5 DEF Same
        <4>2. f[q] = IF InPeriod(q, s) THEN Positive(paid[q].fund) ELSE 0
          BY <3>1, <3>2 DEF Amounts
        <4>3. g[q] = IF InPeriod(q, s)' THEN Positive(paid'[q].fund) ELSE 0
          BY <3>1, <3>2 DEF Amounts
        <4>4. InPeriod(q, s)' <=> InPeriod(q, s)
          BY <4>1 DEF InPeriod
        <4>5. QED
          BY <4>1, <4>2, <4>3, <4>4 DEF Positive
      <3>6. after + f[r] <= before + g[r]
        <4>1. \A q \in Requests : q # r => g[q] <= f[q]
          BY <3>3, <3>5
        <4>2. QED
          BY <3>3, <3>4, <4>1, FiniteAssumption, SumMoves
      <3>7. InPeriod(r, s)' <=> InPeriod(r, s)
        BY <1>7, <1>8 DEF InPeriod
      <3>8. /\ paid[r].fund \in Int /\ sub[s].used \in Nat /\ stale[s] \in Nat
            /\ f[r] \in Nat /\ g[r] \in Nat
        BY <3>3, <3>4, PeriodValues
      <3>9. before <= sub[s].used + stale[s] /\ row.used = sub[s].used
        BY <1>3, <2>2, <3>2, <3>8 DEF UsedCoversSpent
      <3>10. CASE InPeriod(r, s)
        <4>1. f[r] = Positive(paid[r].fund) /\ g[r] = Positive(paid[r].fund + d)
          BY <1>8, <3>3, <3>4, <3>7, <3>10
        <4>2. g[r] <= f[r] + d
          BY <2>2, <3>8, <4>1 DEF Positive
        <4>3. stale'[s] = stale[s]
          BY <1>9, <3>10 DEF InPeriod
        <4>4. after <= sub'[s].used + stale'[s]
          BY <1>4, <1>7, <3>3, <3>4, <3>6, <3>8, <3>9, <4>2, <4>3
        <4>5. QED
          BY <1>4, <1>7, <3>2, <3>4, <3>8, <4>3, <4>4
      <3>11. CASE ~InPeriod(r, s)
        <4>1. f[r] = 0 /\ g[r] = 0
          BY <3>3, <3>4, <3>7, <3>11
        <4>2. stale'[s] = IF d < 0 THEN stale[s] - d ELSE stale[s]
          BY <1>1, <1>9, <3>11 DEF InPeriod
        <4>3. after <= sub'[s].used + stale'[s]
          BY <1>4, <1>7, <3>3, <3>4, <3>6, <3>8, <3>9, <4>1, <4>2
        <4>4. QED
          BY <1>4, <1>7, <3>2, <3>4, <3>8, <4>2, <4>3
      <3>12. QED
        BY <3>10, <3>11
    <2>5. QED
      BY <2>3, <2>4 DEF UsedCoversSpent
  <1>12. QED
    BY <1>10, <1>11, Zenon DEF PeriodInv

\* A due row starts over: the number of its next reset is new.
LEMMA FreshRow ==
    ASSUME NEW s, NEW row \in SubRow, NEW now \in Nat
    PROVE  /\ Due(s, row, now) =>
                 Fresh(s, row, now).used = 0 /\ Fresh(s, row, now).next > row.next
           /\ ~Due(s, row, now) => Fresh(s, row, now) = row
  <1>1. CASE Due(s, row, now)
    <2>1. Fresh(s, row, now) = [row EXCEPT !.used = 0, !.next = now + 1]
      BY <1>1, Zenon DEF Fresh
    <2>2. PICK next \in Nat : next = now + 1 /\ next > row.next
      BY <1>1 DEF Due, SubRow
    <2>3. /\ [row EXCEPT !.used = 0, !.next = next].next = next
          /\ [row EXCEPT !.used = 0, !.next = next].used = 0
      BY DEF SubRow
    <2>4. QED
      BY <1>1, <2>1, <2>2, <2>3
  <1>2. CASE ~Due(s, row, now)
    BY <1>2, Zenon DEF Fresh
  <1>3. QED
    BY <1>1, <1>2

LEMMA CommitResetPeriod ==
    ASSUME BInv, PayInv, RowLocks, TypeOK', PeriodInv, NEW s \in Subs, CommitReset(s)
    PROVE  PeriodInv'
  <1>1. TypeOK /\ OneTx
    BY Zenon DEF BInv, PayInv
  <1>2. PICK row, now : row = tx[Keeper].rows[s] /\ now = tx[Keeper].now
    OBVIOUS
  <1>3. /\ tx[Keeper].open /\ Due(s, row, now)
        /\ sub' = [sub EXCEPT ![s] = Fresh(s, row, now)]
        /\ stale' = [stale EXCEPT ![s] = 0]
        /\ UNCHANGED <<ses, paid, tainted>>
    BY <1>2 DEF CommitReset, handler
  <1>4. Keeper \in Process
    BY DEF Process
  <1>5. row \in SubRow /\ now \in Nat /\ row = sub[s]
    <2>1. tx[Keeper].rows = sub
      BY <1>1, <1>3, <1>4 DEF OneTx
    <2>2. row \in SubRow /\ now \in Nat
      BY <1>1, <1>2, <1>3, <1>4, ReadRows
    <2>3. QED
      BY <1>2, <2>1, <2>2
  <1>6. PICK new \in SubRow : /\ new = Fresh(s, row, now)
                              /\ new.used = 0 /\ new.next > row.next
    <2>1. Fresh(s, row, now) \in SubRow
      BY <1>5, RowKept, Zenon
    <2>2. Fresh(s, row, now).used = 0 /\ Fresh(s, row, now).next > row.next
      BY <1>3, <1>5, FreshRow, Zenon
    <2>3. QED
      BY <2>1, <2>2, Zenon
  <1>7. /\ sub'[s] = new /\ \A u \in Subs : u # s => sub'[u] = sub[u]
        /\ \A u \in Subs : u # s => stale'[u] = stale[u]
    BY <1>1, <1>3, <1>6, SubType, TypeParts
  <1>8. OfSources'
    BY <1>3 DEF PeriodInv, OfSources
  <1>9. /\ \A q \in Requests : ses[q].sub = s => paid[q].born < sub'[s].next
        /\ BornBefore'
    <2>1. \A q \in Requests : ses[q].sub = s => paid[q].born <= row.next
      BY <1>5 DEF PeriodInv, BornBefore
    <2>2. row.next \in Nat /\ new.next \in Nat /\ sub'[s].next = new.next
      BY <1>5, <1>7 DEF SubRow
    <2>3. \A q \in Requests : ses[q].sub = s => paid[q].born < sub'[s].next
      BY <1>1, <1>6, <2>1, <2>2, PeriodValues
    <2>4. BornBefore'
      <3>1. ASSUME NEW q \in Requests, ses'[q].sub \in Subs
            PROVE  paid'[q].born <= sub'[ses'[q].sub].next
        <4>1. ses'[q].sub = ses[q].sub /\ paid'[q].born = paid[q].born
          BY <1>3
        <4>2. CASE ses[q].sub = s
          BY <1>1, <2>2, <2>3, <4>1, <4>2, PeriodValues
        <4>3. CASE ses[q].sub # s
          BY <1>7, <3>1, <4>1, <4>3 DEF PeriodInv, BornBefore
        <4>4. QED
          BY <4>2, <4>3
      <3>2. QED
        BY <3>1 DEF BornBefore
    <2>5. QED
      BY <2>3, <2>4
  <1>10. ASSUME tainted' = {}
         PROVE  UsedCoversSpent'
    <2>1. UsedCoversSpent
      BY <1>3, <1>10 DEF PeriodInv
    <2>2. ASSUME NEW u \in Subs
          PROVE  sub'[u].used + stale'[u] >= Spent(u)'
      <3>1. CASE u = s
        <4>1. \A q \in Requests : ~InPeriod(q, s)'
          BY <1>1, <1>3, <1>7, <1>9, PeriodValues DEF InPeriod
        <4>2. PICK r : r \notin Requests
          BY NoSetContainsEverything, Zenon
        <4>3. sub'[s].used >= IF r \in Requests /\ InPeriod(r, s)'
                              THEN Positive(paid'[r].fund) ELSE 0
          BY <1>6, <1>7, <4>2
        <4>4. QED
          BY <3>1, <4>1, <4>2, <4>3, FreshPeriod, Zenon
      <3>2. CASE u # s
        <4>1. Spent(u)' = Spent(u)
          <5>1. SpentBy(u)' = SpentBy(u)
            BY <1>3, <1>7, <3>2 DEF SpentBy, Positive
          <5>2. QED
            BY <5>1, Zenon DEF Spent
        <4>2. QED
          BY <1>7, <2>1, <2>2, <3>2, <4>1 DEF UsedCoversSpent
      <3>3. QED
        BY <3>1, <3>2
    <2>3. QED
      BY <2>2, Zenon DEF UsedCoversSpent
  <1>11. QED
    BY <1>8, <1>9, <1>10, Zenon DEF PeriodInv

LEMMA CommitPayPeriod ==
    ASSUME BInv, PayInv, RowLocks, TypeOK', PeriodInv, NEW r \in Requests, CommitPay(r)
    PROVE  PeriodInv'
  <1>1. TypeOK /\ Control(r) /\ OneTx /\ (Returnable(r) => Booked(r))
    BY Zenon DEF BInv, PayInv
  <1>2. /\ pc[r] \in {"settle", "charge"} /\ ses[r].source = "subscription"
        /\ tx[Main(r)].open /\ UNCHANGED ses
    BY DEF CommitPay, MustPay
  <1>3. Main(r) \in Process /\ ses[r].sub \in Subs
    BY <1>1, <1>2, ProcessType DEF Control, Answered
  <1>4. CASE /\ Accepts(Main(r), ses[r].sub, Amount(r))
             /\ FromSub(Main(r), r, Amount(r)) /\ NoFault
    <2>1. PICK d \in Int : d = Amount(r)
      BY <1>1, AmountType
    <2>2. Accepts(Main(r), ses[r].sub, d) /\ FromSub(Main(r), r, d)
      BY <1>4, <2>1, Zenon
    <2>3. d >= 0 \/ paid[r].fund + d >= 0 \/ tainted # {}
      <3>1. CASE pc[r] = "charge"
        BY <1>1, <2>1, <3>1, Values DEF Amount
      <3>2. CASE pc[r] = "settle" /\ tainted = {}
        <4>1. sub[ses[r].sub].status # "deleted"
          <5>1. tx[Main(r)].rows = sub
            BY <1>1, <1>2, <1>3 DEF OneTx
          <5>2. QED
            BY <1>3, <2>2, <5>1 DEF Accepts
        <4>2. Returnable(r)
          BY <3>2, <4>1 DEF Returnable
        <4>3. paid[r].fund = ses[r].hold
          BY <1>1, <3>2, <4>2 DEF Booked
        <4>4. d = price[r] - ses[r].hold
          BY <2>1, <3>2 DEF Amount, Difference
        <4>5. QED
          BY <1>1, <4>3, <4>4, Values
      <3>3. QED
        BY <1>2, <3>1, <3>2
    <2>4. QED
      BY <1>1, <1>2, <1>3, <1>4, <2>2, <2>3, MovesPeriod, Zenon
  <1>5. CASE (Fault(r) \/ NoFault) /\ UNCHANGED <<sub, paid, stale>>
    <2>1. tainted' = {} => tainted = {}
      BY <1>5, TaintedGrows, Zenon
    <2>2. SpentStill
      BY <1>2, <1>5, <2>1 DEF SpentStill
    <2>3. QED
      BY <2>2, StillPeriod, Zenon
  <1>6. QED
    BY <1>4, <1>5, Zenon DEF CommitPay

LEMMA CommitRefundPeriod ==
    ASSUME BInv, PayInv, RowLocks, TypeOK', PeriodInv, NEW r \in Requests, CommitRefund(r)
    PROVE  PeriodInv'
  <1>1. TypeOK /\ Control(r) /\ OneTx /\ (Returnable(r) => Booked(r))
    BY Zenon DEF BInv, PayInv
  <1>2. back[r] = "give" /\ UNCHANGED ses
    BY DEF CommitRefund, handler
  <1>3. /\ tx[Back(r)].open /\ ses[r].source = "subscription" /\ ses[r].sub \in Subs
        /\ Back(r) \in Process /\ pc[r] \in {"charge", "chargeToken", "end"}
    BY <1>1, <1>2, ProcessType DEF Control
  <1>4. record[r].amount = ses[r].hold
    <2>1. record[r] = [status |-> "consumed", sub |-> ses[r].sub, amount |-> ses[r].hold]
      BY <1>1, <1>2, <1>3 DEF Control
    <2>2. QED
      BY <2>1
  <1>5. PICK d \in Int : d = -ses[r].hold /\ d = -record[r].amount
    BY <1>1, <1>4, Values
  <1>6. CASE Accepts(Back(r), ses[r].sub, d) /\ FromSub(Back(r), r, d) /\ NoFault
    <2>1. tainted = {} => paid[r].fund + d >= 0
      <3> SUFFICES ASSUME tainted = {} PROVE paid[r].fund + d >= 0
        OBVIOUS
      <3>1. sub[ses[r].sub].status # "deleted"
        <4>1. tx[Back(r)].rows = sub
          BY <1>1, <1>3 DEF OneTx
        <4>2. QED
          BY <1>3, <1>6, <4>1 DEF Accepts
      <3>2. Returnable(r)
        BY <3>1 DEF Returnable
      <3>3. paid[r].fund = ses[r].hold + bill[r]
        BY <1>1, <1>2, <1>3, <3>2 DEF Booked, HeldFund
      <3>4. QED
        BY <1>1, <1>5, <3>3, Values
    <2>2. QED
      BY <1>1, <1>2, <1>3, <1>6, <2>1, MovesPeriod, Zenon
  <1>7. CASE (Fault(r) \/ NoFault) /\ UNCHANGED <<sub, paid, stale>>
    <2>1. tainted' = {} => tainted = {}
      BY <1>7, TaintedGrows, Zenon
    <2>2. SpentStill
      BY <1>2, <1>7, <2>1 DEF SpentStill
    <2>3. QED
      BY <2>2, StillPeriod, Zenon
  <1>8. QED
    BY <1>5, <1>6, <1>7, Zenon DEF CommitRefund

\* What a hold does, row by row: those that were due start over, and the one that
\* is charged has the hold on its counter.
HoldStarts(r, s, started, h) ==
    /\ s \in Subs /\ started \in SUBSET Subs
    /\ sub'[s].used = (IF s \in started THEN 0 ELSE sub[s].used) + h
    /\ sub'[s].next = paid'[r].born
    /\ \A u \in started : /\ sub'[u].next > sub[u].next /\ stale'[u] = 0
                          /\ u # s => sub'[u].used = 0
    /\ \A u \in Subs \ started : /\ sub'[u].next = sub[u].next /\ stale'[u] = stale[u]
                                 /\ u # s => sub'[u].used = sub[u].used
    /\ Same(ses, ses', r) /\ ses'[r].sub = s /\ ses'[r].source = ses[r].source
    /\ Same(paid, paid', r) /\ paid'[r].fund = paid[r].fund + h

LEMMA HoldsPeriod ==
    ASSUME TypeOK, TypeOK', PeriodInv, NEW r \in Requests, NEW s, NEW started,
           NEW h \in Nat, HoldStarts(r, s, started, h), ses[r].sub \notin Subs,
           ses[r].source = "subscription", paid[r].fund = 0, UNCHANGED tainted
    PROVE  PeriodInv'
  <1> USE DEF HoldStarts
  <1>1. /\ AllAmounts /\ AllAmounts'
        /\ paid'[r].born \in Nat /\ paid'[r].fund = h
        /\ s \in Subs /\ paid[r].fund \in Int
        /\ \A q \in Requests : paid[q].born \in Nat
    <2>1. AllAmounts /\ AllAmounts' /\ paid[r].fund \in Int
      BY AmountsTyped, AmountsAfter, PeriodValues, Zenon
    <2>2. sub'[s].next \in Nat
      BY <2>1 DEF AllAmounts, Amounts
    <2>3. QED
      BY <2>1, <2>2, PeriodValues
  <1>2. /\ \A u \in Subs : /\ sub[u].used \in Nat /\ sub[u].next \in Nat /\ stale[u] \in Nat
                           /\ sub'[u].used \in Nat /\ sub'[u].next \in Nat /\ stale'[u] \in Nat
                           /\ sub'[u].next >= sub[u].next
    BY <1>1 DEF AllAmounts, Amounts
  <1>3. OfSources'
    BY DEF PeriodInv, OfSources, Same
  <1>4. BornBefore'
    <2>1. ASSUME NEW q \in Requests, ses'[q].sub \in Subs
          PROVE  paid'[q].born <= sub'[ses'[q].sub].next
      <3>1. CASE q = r
        BY <1>1, <1>2, <3>1
      <3>2. CASE q # r
        <4>1. ses'[q] = ses[q] /\ paid'[q] = paid[q]
          BY <3>2 DEF Same
        <4>2. paid[q].born <= sub[ses[q].sub].next
          BY <2>1, <4>1 DEF PeriodInv, BornBefore
        <4>3. QED
          BY <1>1, <1>2, <2>1, <4>1, <4>2
      <3>3. QED
        BY <3>1, <3>2
    <2>2. QED
      BY <2>1 DEF BornBefore
  <1>5. ASSUME tainted' = {}
        PROVE  UsedCoversSpent'
    <2>1. UsedCoversSpent
      BY <1>5 DEF PeriodInv
    <2>2. ASSUME NEW u \in started, NEW q \in Requests, q # r
          PROVE  ~InPeriod(q, u)'
      <3>1. ses'[q] = ses[q] /\ paid'[q] = paid[q]
        BY <2>2 DEF Same
      <3>2. ses[q].sub = u => paid[q].born <= sub[u].next
        BY DEF PeriodInv, BornBefore
      <3>3. sub'[u].next > sub[u].next
        BY <2>2
      <3>4. QED
        BY <1>1, <1>2, <3>1, <3>2, <3>3 DEF InPeriod
    <2>3. ASSUME NEW u \in Subs
          PROVE  sub'[u].used + stale'[u] >= Spent(u)'
      <3>1. CASE u # s /\ u \notin started
        <4>1. sub[u].used + stale[u] >= Spent(u)
          BY <2>1, Zenon DEF UsedCoversSpent
        <4>2. ses[r].sub # u /\ ses'[r].sub # u
          BY <3>1
        <4>3. sub'[u].used = sub[u].used /\ sub'[u].next = sub[u].next /\ stale'[u] = stale[u]
          BY <3>1
        <4>4. QED
          BY <4>1, <4>2, <4>3, OtherPeriod, Zenon
      <3>2. CASE u \in started
        <4>1. \A q \in Requests : q # r => ~InPeriod(q, u)'
          BY <2>2, <3>2
        <4>2. sub'[u].used >= IF r \in Requests /\ InPeriod(r, u)'
                              THEN Positive(paid'[r].fund) ELSE 0
          <5>1. CASE u = s
            <6>1. sub'[u].used = h
              BY <3>2, <5>1
            <6>2. QED
              BY <1>1, <6>1 DEF Positive
          <5>2. CASE u # s
            BY <3>2, <5>2 DEF InPeriod
          <5>3. QED
            BY <5>1, <5>2
        <4>3. QED
          BY <4>1, <4>2, FreshPeriod, Zenon
      <3>3. CASE u = s /\ u \notin started
        <4>1. Amounts(s) /\ Amounts(s)'
          BY <1>1, Zenon DEF AllAmounts
        <4>2. PICK f, g, before, after :
                  /\ f = SpentBy(s) /\ g = SpentBy(s)'
                  /\ before = Spent(s) /\ after = Spent(s)'
          OBVIOUS
        <4>3. /\ f \in [Requests -> Nat] /\ before \in Nat
              /\ before = SumFunctionOnSet(f, Requests) /\ f[r] = 0
          BY <1>1, <4>1, <4>2 DEF Amounts, InPeriod
        <4>4. /\ g \in [Requests -> Nat] /\ after \in Nat
              /\ after = SumFunctionOnSet(g, Requests) /\ g[r] <= h
          <5>1. g[r] = IF InPeriod(r, s)' THEN Positive(paid'[r].fund) ELSE 0
            BY <4>1, <4>2 DEF Amounts
          <5>2. g[r] <= h
            BY <1>1, <5>1 DEF Positive
          <5>3. QED
            BY <4>1, <4>2, <5>2 DEF Amounts
        <4>5. ASSUME NEW q \in Requests, q # r
              PROVE  g[q] = f[q]
          <5>1. paid'[q] = paid[q] /\ ses'[q] = ses[q] /\ sub'[s].next = sub[s].next
            BY <3>3, <4>5 DEF Same
          <5>2. f[q] = IF InPeriod(q, s) THEN Positive(paid[q].fund) ELSE 0
            BY <4>1, <4>2 DEF Amounts
          <5>3. g[q] = IF InPeriod(q, s)' THEN Positive(paid'[q].fund) ELSE 0
            BY <4>1, <4>2 DEF Amounts
          <5>4. InPeriod(q, s)' <=> InPeriod(q, s)
            BY <5>1 DEF InPeriod
          <5>5. QED
            BY <5>1, <5>2, <5>3, <5>4 DEF Positive
        <4>6. after + f[r] <= before + g[r]
          <5>1. \A q \in Requests : q # r => g[q] <= f[q]
            BY <4>3, <4>5
          <5>2. QED
            BY <4>3, <4>4, <5>1, FiniteAssumption, SumMoves
        <4>7. before <= sub[s].used + stale[s] /\ g[r] \in Nat
          BY <1>1, <1>2, <2>1, <4>2, <4>3, <4>4 DEF UsedCoversSpent
        <4>8. sub'[s].used = sub[s].used + h /\ stale'[s] = stale[s]
          BY <3>3
        <4>9. after <= sub'[s].used + stale'[s]
          BY <1>1, <1>2, <4>3, <4>4, <4>6, <4>7, <4>8
        <4>10. QED
          BY <1>1, <1>2, <3>3, <4>2, <4>4, <4>9
      <3>4. QED
        BY <3>1, <3>2, <3>3
    <2>4. QED
      BY <2>3, Zenon DEF UsedCoversSpent
  <1>6. QED
    BY <1>3, <1>4, <1>5, Zenon DEF PeriodInv

LEMMA CommitHoldPeriod ==
    ASSUME BInv, PayInv, RowLocks, TypeOK', PeriodInv, NEW r \in Requests, CommitHold(r)
    PROVE  PeriodInv'
  <1> DEFINE p == Main(r)
             rows == tx[p].rows
             new(u) == Fresh(u, rows[u], tx[p].now)
             active == {u \in Subs : rows[u].status = "active"}
             enough == {u \in active : \/ SubTotal[u] = 0
                                       \/ SubTotal[u] - new(u).used >= ses[r].hold}
             s == Min(enough)
             reset == {u \in active : u <= s /\ Due(u, rows[u], tx[p].now)}
             Held == /\ sub' = [u \in Subs |->
                            IF u = s THEN [new(u) EXCEPT !.used = @ + ses[r].hold]
                            ELSE IF u \in reset THEN new(u) ELSE sub[u]]
                     /\ ses' = [ses EXCEPT ![r].sub = s]
                     /\ paid' = [paid EXCEPT ![r] = HeldBy(paid[r], ses[r].hold, new(s).next)]
                     /\ stale' = [u \in Subs |-> IF u \in reset THEN 0 ELSE stale[u]]
                     /\ NoFault
  <1>1. TypeOK /\ Control(r) /\ Enough(r) /\ OneTx
    BY Zenon DEF BInv, PayInv
  <1>2. pc[r] = "fund" /\ ses[r].source = "subscription" /\ tx[p].open
    BY DEF CommitHold
  <1>3. \/ enough # {} /\ Held
        \/ NoFault /\ UNCHANGED <<sub, ses, paid, stale>>
        \/ Fault(r) /\ UNCHANGED <<sub, ses, paid, stale>>
    BY Zenon DEF CommitHold, HeldBy
  <1>4. p \in Process
    BY ProcessType
  <1>5. ses[r].sub \notin Subs /\ paid[r].fund = 0
    BY <1>1, <1>2, SubAssumption DEF Control, Enough, Unfunded, NoSub
  <1>6. PICK h \in Nat : h = ses[r].hold
    BY <1>1, Values
  <1>7. CASE enough # {} /\ Held
    <2>1. PICK now \in Nat : now = tx[p].now
      BY <1>1, <1>2, <1>4, ReadRows
    <2>2. rows = sub
      BY <1>1, <1>2, <1>4 DEF OneTx
    <2>3. PICK lo : lo = s
      OBVIOUS
    <2>4. PICK started \in SUBSET Subs : started = reset
      OBVIOUS
    <2>5. lo \in Subs /\ sub[lo].status = "active"
      <3>1. enough \in SUBSET Nat /\ enough \in SUBSET active
        BY SubAssumption
      <3>2. \A u \in active : u \in Subs /\ rows[u].status = "active"
        OBVIOUS
      <3> HIDE DEF enough, active, rows
      <3>3. Min(enough) \in enough
        BY <1>7, <3>1, MinOfNat, Zenon
      <3>4. QED
        BY <2>2, <2>3, <3>1, <3>2, <3>3
    <2>6. \A u \in Subs : u \in started <=> sub[u].status = "active" /\ u <= lo /\ Due(u, sub[u], now)
      <3> HIDE DEF s, rows, p
      <3>1. QED
        BY <2>1, <2>2, <2>3, <2>4
    <2>7. /\ sub' = [u \in Subs |->
                        IF u = lo THEN [Fresh(u, sub[u], now) EXCEPT !.used = @ + h]
                        ELSE IF u \in started THEN Fresh(u, sub[u], now) ELSE sub[u]]
          /\ ses' = [ses EXCEPT ![r].sub = lo]
          /\ paid' = [paid EXCEPT ![r] = HeldBy(paid[r], h, Fresh(lo, sub[lo], now).next)]
          /\ stale' = [u \in Subs |-> IF u \in started THEN 0 ELSE stale[u]]
          /\ NoFault
      <3> HIDE DEF s, reset, rows, p, enough, active
      <3>1. QED
        BY <1>6, <1>7, <2>1, <2>2, <2>3, <2>4, Zenon
    <2> HIDE DEF s, reset, rows, p, enough, active, new, Held
    <2>8. ASSUME NEW u \in Subs
          PROVE  /\ Fresh(u, sub[u], now) \in SubRow
                 /\ Due(u, sub[u], now) => /\ Fresh(u, sub[u], now).used = 0
                                           /\ Fresh(u, sub[u], now).next > sub[u].next
                 /\ ~Due(u, sub[u], now) => Fresh(u, sub[u], now) = sub[u]
      <3>1. sub[u] \in SubRow
        BY <1>1, SubType
      <3>2. QED
        BY <3>1, RowKept, FreshRow, Zenon
    <2>9. PICK row \in SubRow : row = Fresh(lo, sub[lo], now)
      BY <2>5, <2>8
    <2>10. row.used \in Nat /\ row.next \in Nat
      BY DEF SubRow
    <2>11. PICK n \in Nat : n = row.used + h
      BY <2>10
    <2>12. sub'[lo] = [row EXCEPT !.used = n]
      <3>1. sub'[lo] = [Fresh(lo, sub[lo], now) EXCEPT !.used = @ + h]
        BY <2>5, <2>7
      <3>2. QED
        BY <2>9, <2>11, <3>1, Zenon
    <2>13. sub'[lo].used = n /\ sub'[lo].next = row.next
      BY <2>12 DEF SubRow
    <2>14. \A u \in Subs : u # lo => sub'[u] = IF u \in started THEN Fresh(u, sub[u], now) ELSE sub[u]
      BY <2>7
    <2>15. lo \in started <=> Due(lo, sub[lo], now)
      BY <2>5, <2>6, SubAssumption
    <2>16. /\ sub'[lo].used = (IF lo \in started THEN 0 ELSE sub[lo].used) + h
           /\ lo \in started => sub'[lo].next > sub[lo].next
           /\ lo \notin started => sub'[lo].next = sub[lo].next
      BY <2>5, <2>8, <2>9, <2>11, <2>13, <2>15
    <2>17. /\ Same(ses, ses', r) /\ ses'[r].sub = lo /\ ses'[r].source = ses[r].source
      <3>1. ses \in [Requests -> Session]
        BY <1>1, Zenon DEF TypeOK
      <3>2. QED
        BY <2>7, <3>1 DEF Same, Session
    <2>18. /\ Same(paid, paid', r) /\ paid'[r].fund = paid[r].fund + h
           /\ paid'[r].born = row.next
      <3>1. PICK m : m = HeldBy(paid[r], h, row.next)
        OBVIOUS
      <3>2. m.fund = paid[r].fund + h /\ m.born = row.next
        BY <3>1 DEF HeldBy
      <3>3. paid' = [paid EXCEPT ![r] = m]
        BY <2>7, <2>9, <3>1, Zenon
      <3>4. QED
        BY <1>1, <3>2, <3>3, PaidType DEF Same
    <2>19. \A u \in Subs : stale'[u] = IF u \in started THEN 0 ELSE stale[u]
      BY <2>7
    <2>20. ASSUME NEW u \in started
           PROVE  /\ sub'[u].next > sub[u].next /\ stale'[u] = 0
                  /\ u # lo => sub'[u].used = 0
      BY <2>6, <2>8, <2>14, <2>16, <2>19
    <2>21. ASSUME NEW u \in Subs \ started
           PROVE  /\ sub'[u].next = sub[u].next /\ stale'[u] = stale[u]
                  /\ u # lo => sub'[u].used = sub[u].used
      BY <2>14, <2>16, <2>19
    <2>22. HoldStarts(r, lo, started, h)
      BY <2>5, <2>13, <2>16, <2>17, <2>18, <2>20, <2>21 DEF HoldStarts
    <2>23. tainted' = tainted
      BY <2>7 DEF NoFault
    <2>24. QED
      BY <1>1, <1>2, <1>5, <2>22, <2>23, HoldsPeriod, Zenon
  <1>8. CASE (Fault(r) \/ NoFault) /\ UNCHANGED <<sub, ses, paid, stale>>
    <2>1. tainted' = {} => tainted = {}
      BY <1>8, TaintedGrows, Zenon
    <2>2. SpentStill
      BY <1>8, <2>1 DEF SpentStill
    <2>3. QED
      BY <2>2, StillPeriod, Zenon
  <1>9. QED
    BY <1>3, <1>7, <1>8, Zenon

\* Every other step of a request leaves the rows as they are; what it moves belongs
\* to the wallet or the token.
LEMMA StillSteps ==
    ASSUME BInv, PeriodInv, NEW r \in Requests,
           UNCHANGED <<sub, stale>>, Fault(r) \/ NoFault,
           \/ UNCHANGED <<ses, paid>>
           \/ UNCHANGED ses /\ \E d : FromToken(r, d)
           \/ UNCHANGED ses /\ ses[r].source = "wallet" /\ \E d : FromWallet(r, d)
           \/ /\ UNCHANGED paid /\ pc[r] \in Unfunded
              /\ \E source, h : ses' = [ses EXCEPT ![r] = Chosen(@, source, h)]
           \/ /\ UNCHANGED paid /\ pc[r] \in Unfunded
              /\ \E e, b : ses' = [ses EXCEPT ![r] = Begun(NoSession, e, b)]
    PROVE  PeriodInv'
  <1>1. TypeOK /\ Control(r) /\ ses \in [Requests -> Session]
    BY Zenon DEF BInv, TypeOK
  <1>2. tainted' = {} => tainted = {}
    BY TaintedGrows, Zenon
  <1>3. NoSub \notin Subs
    BY SubAssumption DEF NoSub
  <1>4. \A s \in Subs : /\ sub'[s].used = sub[s].used /\ sub'[s].next = sub[s].next
                        /\ stale'[s] = stale[s]
    OBVIOUS
  <1>5. \A q \in Requests :
          /\ ses'[q].sub = ses[q].sub \/ (ses[q].sub \notin Subs /\ ses'[q].sub \notin Subs)
          /\ ses[q].sub \in Subs =>
                /\ ses'[q].source = ses[q].source
                /\ paid'[q].fund = paid[q].fund /\ paid'[q].born = paid[q].born
    <2>1. CASE UNCHANGED <<ses, paid>>
      BY <2>1
    <2>2. CASE UNCHANGED ses /\ \E d : FromToken(r, d)
      BY <1>1, <2>2, PaidType DEF FromToken, Paid
    <2>3. CASE UNCHANGED ses /\ ses[r].source = "wallet" /\ \E d : FromWallet(r, d)
      <3>1. ses[r].sub \notin Subs
        BY <2>3 DEF PeriodInv, OfSources
      <3>2. \A q \in Requests : q # r => paid'[q] = paid[q]
        BY <1>1, <2>3, PaidType DEF FromWallet
      <3>3. QED
        BY <2>3, <3>1, <3>2
    <2>4. ASSUME UNCHANGED paid, pc[r] \in Unfunded, NEW x,
                 ses' = [ses EXCEPT ![r] = x], x.sub \notin Subs
          PROVE  \A q \in Requests :
                    /\ \/ ses'[q].sub = ses[q].sub
                       \/ ses[q].sub \notin Subs /\ ses'[q].sub \notin Subs
                    /\ ses[q].sub \in Subs =>
                          /\ ses'[q].source = ses[q].source
                          /\ paid'[q].fund = paid[q].fund /\ paid'[q].born = paid[q].born
      <3>1. ses[r].sub \notin Subs
        BY <1>1, <1>3, <2>4 DEF Control
      <3>2. ses'[r] = x /\ \A q \in Requests : q # r => ses'[q] = ses[q]
        BY <1>1, <2>4
      <3>3. QED
        BY <2>4, <3>1, <3>2
    <2>5. CASE /\ UNCHANGED paid /\ pc[r] \in Unfunded
               /\ \E source, h : ses' = [ses EXCEPT ![r] = Chosen(@, source, h)]
      <3>1. PICK source, h : ses' = [ses EXCEPT ![r] = Chosen(ses[r], source, h)]
        BY <2>5
      <3>2. PICK x : x = Chosen(ses[r], source, h)
        OBVIOUS
      <3>3. x.sub = ses[r].sub
        BY <1>1, <3>2 DEF Chosen, Session
      <3>4. ses[r].sub \notin Subs
        BY <1>1, <1>3, <2>5 DEF Control
      <3>5. QED
        BY <2>4, <2>5, <3>1, <3>2, <3>3, <3>4
    <2>6. CASE /\ UNCHANGED paid /\ pc[r] \in Unfunded
               /\ \E e, b : ses' = [ses EXCEPT ![r] = Begun(NoSession, e, b)]
      <3>1. PICK x : x.sub = NoSub /\ ses' = [ses EXCEPT ![r] = x]
        <4>1. PICK e, b : ses' = [ses EXCEPT ![r] = Begun(NoSession, e, b)]
          BY <2>6
        <4>2. Begun(NoSession, e, b).sub = NoSub
          BY DEF Begun, NoSession
        <4>3. QED
          BY <4>1, <4>2, Zenon
      <3>2. QED
        BY <1>3, <2>4, <2>6, <3>1
    <2>7. QED
      BY <2>1, <2>2, <2>3, <2>5, <2>6, Zenon
  <1>6. SpentStill
    BY <1>2, <1>4, <1>5, Zenon DEF SpentStill
  <1>7. QED
    BY <1>6, StillPeriod, Zenon

LEMMA HandlerPeriod ==
    ASSUME BInv, PeriodInv, NEW r \in Requests,
           \/ TryWallet(r) \/ TrySubscription(r) \/ CheckToken(r) \/ TakeToken(r)
           \/ HoldWallet(r) \/ BeginHold(r) \/ Undo(r)
           \/ SettleNothing(r) \/ PayWallet(r) \/ BeginPay(r) \/ PayToken(r)
           \/ (\E q \in Prices : LastUsage(r, q)) \/ Conclude(r)
    PROVE  PeriodInv'
  <1>1. CASE TryWallet(r)
    <2>1. /\ UNCHANGED <<sub, stale, paid>> /\ pc[r] \in Unfunded
          /\ Fault(r) \/ NoFault
          /\ UNCHANGED ses \/ \E source, h : ses' = [ses EXCEPT ![r] = Chosen(@, source, h)]
      BY <1>1, Zenon DEF TryWallet, Choose, Chosen, books, Unfunded
    <2>2. QED
      BY <2>1, StillSteps
  <1>2. CASE TrySubscription(r)
    <2>1. /\ UNCHANGED <<sub, stale, paid>> /\ pc[r] \in Unfunded /\ NoFault
          /\ \E source, h : ses' = [ses EXCEPT ![r] = Chosen(@, source, h)]
      BY <1>2, Zenon DEF TrySubscription, Choose, Chosen, books, history, NoFault, Unfunded
    <2>2. QED
      BY <2>1, StillSteps
  <1>3. CASE \/ CheckToken(r) \/ BeginHold(r) \/ SettleNothing(r) \/ BeginPay(r)
             \/ (\E q \in Prices : LastUsage(r, q)) \/ Conclude(r)
    <2>1. UNCHANGED <<sub, stale, ses, paid>> /\ (Fault(r) \/ NoFault)
      BY <1>3 DEF CheckToken, BeginHold, SettleNothing, BeginPay, LastUsage, Conclude, handler, books, history, NoFault
    <2>2. QED
      BY <2>1, StillSteps
  <1>4. CASE TakeToken(r) \/ Undo(r) \/ PayToken(r)
    <2>1. /\ UNCHANGED <<sub, stale, ses>> /\ (Fault(r) \/ NoFault)
          /\ UNCHANGED paid \/ \E d : FromToken(r, d)
      BY <1>4, Zenon DEF TakeToken, Undo, PayToken
    <2>2. QED
      BY <2>1, StillSteps
  <1>5. CASE HoldWallet(r) \/ PayWallet(r)
    <2>1. /\ UNCHANGED <<sub, stale, ses>> /\ ses[r].source = "wallet" /\ (Fault(r) \/ NoFault)
          /\ UNCHANGED paid \/ \E d : FromWallet(r, d)
      BY <1>5, Zenon DEF HoldWallet, PayWallet
    <2>2. QED
      BY <2>1, StillSteps
  <1>6. QED
    BY <1>1, <1>2, <1>3, <1>4, <1>5

LEMMA OutcomePeriod ==
    ASSUME BInv, PeriodInv, NEW r \in Requests,
           \/ \E e \in Estimates : Begin(r, e)
           \/ Outcome(r) \/ Crash(r) \/ RefundWallet(r) \/ BeginRefund(r)
           \/ MarkRefunded(r) \/ RefundToken(r)
    PROVE  PeriodInv'
  <1>1. CASE \E e \in Estimates : Begin(r, e)
    <2>1. /\ UNCHANGED <<sub, stale, paid>> /\ pc[r] \in Unfunded /\ NoFault
          /\ \E e, b : ses' = [ses EXCEPT ![r] = Begun(NoSession, e, b)]
      BY <1>1, Zenon DEF Begin, Begun, books, history, NoFault, Unfunded
    <2>2. QED
      BY <2>1, StillSteps
  <1>2. CASE Outcome(r) \/ Crash(r) \/ BeginRefund(r) \/ MarkRefunded(r)
    <2>1. UNCHANGED <<sub, stale, ses, paid>> /\ (Fault(r) \/ NoFault)
      <3>1. CASE Outcome(r)
        BY <3>1 DEF Outcome, Serve, Event, HangUp, Fail, books, history, NoFault
      <3>2. CASE Crash(r) \/ BeginRefund(r) \/ MarkRefunded(r)
        BY <3>2 DEF Crash, BeginRefund, MarkRefunded, handler, books, history, NoFault
      <3>3. QED
        BY <1>2, <3>1, <3>2
    <2>2. QED
      BY <2>1, StillSteps
  <1>3. CASE RefundToken(r)
    <2>1. /\ UNCHANGED <<sub, stale, ses>> /\ (Fault(r) \/ NoFault)
          /\ UNCHANGED paid \/ \E d : FromToken(r, d)
      BY <1>3, Zenon DEF RefundToken, handler
    <2>2. QED
      BY <2>1, StillSteps
  <1>4. CASE RefundWallet(r)
    <2>1. /\ UNCHANGED <<sub, stale, ses>> /\ ses[r].source = "wallet" /\ (Fault(r) \/ NoFault)
          /\ UNCHANGED paid \/ \E d : FromWallet(r, d)
      BY <1>4, Zenon DEF RefundWallet, handler
    <2>2. QED
      BY <2>1, StillSteps
  <1>5. QED
    BY <1>1, <1>2, <1>3, <1>4

\* A subscription that ends keeps its counter; the other steps touch no row.
LEMMA ElsewherePeriod ==
    ASSUME BInv, PeriodInv,
           \/ Tick \/ BeginReset \/ UNCHANGED vars
           \/ \E s \in Subs, status \in {"ended", "deleted"} : EndSubscription(s, status)
    PROVE  PeriodInv'
  <1>1. sub \in [Subs -> SubRow]
    BY SubType, Zenon DEF BInv
  <1>2. UNCHANGED <<ses, paid, stale, tainted>>
    BY DEF Tick, BeginReset, EndSubscription, vars, handler, history
  <1>3. \A s \in Subs : sub'[s].used = sub[s].used /\ sub'[s].next = sub[s].next
    <2>1. CASE Tick \/ BeginReset \/ UNCHANGED vars
      BY <2>1 DEF Tick, BeginReset, vars, books
    <2>2. CASE \E s \in Subs, status \in {"ended", "deleted"} : EndSubscription(s, status)
      <3>1. PICK s \in Subs, status \in {"ended", "deleted"} :
                sub' = [sub EXCEPT ![s] = [sub[s] EXCEPT !.status = status]]
        BY <2>2, Zenon DEF EndSubscription
      <3>2. PICK new : new = [sub[s] EXCEPT !.status = status]
        OBVIOUS
      <3>3. new.used = sub[s].used /\ new.next = sub[s].next
        BY <1>1, <3>2 DEF SubRow
      <3>4. sub' = [sub EXCEPT ![s] = new]
        BY <3>1, <3>2, Zenon
      <3>5. QED
        BY <1>1, <3>3, <3>4
    <2>3. QED
      BY <2>1, <2>2
  <1>4. SpentStill
    BY <1>2, <1>3 DEF SpentStill
  <1>5. QED
    BY <1>4, StillPeriod, Zenon

LEMMA PeriodInit == Init => PeriodInv
  <1> SUFFICES ASSUME Init PROVE PeriodInv
    OBVIOUS
  <1>1. TypeOK
    BY BillingInit, Zenon DEF BInv
  <1>2. \A r \in Requests : ses[r].sub \notin Subs
    BY SubAssumption DEF Init, NoSession, NoSub
  <1>3. OfSources /\ BornBefore
    BY <1>2 DEF OfSources, BornBefore
  <1>4. ASSUME NEW s \in Subs
        PROVE  sub[s].used + stale[s] >= Spent(s)
    <2>1. Amounts(s)
      BY <1>1, AmountsTyped, Zenon DEF AllAmounts
    <2>2. /\ SpentBy(s) \in [Requests -> Nat] /\ \A r \in Requests : SpentBy(s)[r] = 0
          /\ Spent(s) = SumFunctionOnSet(SpentBy(s), Requests)
      BY <1>2, <2>1 DEF Amounts, InPeriod
    <2>3. Spent(s) = 0
      BY <2>2, FiniteAssumption, SumOfNat
    <2>4. QED
      BY <2>1, <2>3 DEF Amounts
  <1>5. QED
    BY <1>3, <1>4, Zenon DEF PeriodInv, UsedCoversSpent

LEMMA PeriodNext ==
    ASSUME RowLocks
    PROVE  BInv /\ PayInv /\ PeriodInv /\ [Next]_vars => PeriodInv'
  <1> SUFFICES ASSUME BInv, PayInv, PeriodInv, [Next]_vars PROVE PeriodInv'
    OBVIOUS
  <1>1. TypeOK'
    BY BillingNext, Zenon DEF Kept, BInv
  <1>2. ASSUME NEW r \in Requests, HandlerStep(r)
        PROVE  PeriodInv'
    BY <1>1, <1>2, HandlerPeriod, CommitHoldPeriod, CommitPayPeriod, Zenon DEF HandlerStep
  <1>3. ASSUME NEW r \in Requests, RefundStep(r)
        PROVE  PeriodInv'
    BY <1>1, <1>3, OutcomePeriod, CommitRefundPeriod, Zenon DEF RefundStep
  <1>4. ASSUME NEW r \in Requests, (\E e \in Estimates : Begin(r, e)) \/ Outcome(r) \/ Crash(r)
        PROVE  PeriodInv'
    BY <1>4, OutcomePeriod, Zenon
  <1>5. ASSUME NEW s \in Subs, CommitReset(s)
        PROVE  PeriodInv'
    BY <1>1, <1>5, CommitResetPeriod, Zenon
  <1>6. CASE \/ Tick \/ BeginReset \/ UNCHANGED vars
             \/ \E s \in Subs, status \in {"ended", "deleted"} : EndSubscription(s, status)
    BY <1>6, ElsewherePeriod, Zenon
  <1>7. Rest => UNCHANGED vars
    BY Zenon DEF Rest
  <1>8. QED
    BY <1>2, <1>3, <1>4, <1>5, <1>6, <1>7, Zenon DEF Next

\* Holds, settlements, refunds and resets in any order: with row locks the counter
\* of a subscription covers what the requests of its period have taken and not given
\* back, up to what earlier ones returned in it.
THEOREM PeriodInvariant == RowLocks => (Spec => []PeriodInv)
  <1> SUFFICES ASSUME RowLocks PROVE Spec => []PeriodInv
    OBVIOUS
  <1>1. BInv /\ PayInv /\ PeriodInv /\ [Next]_vars => PeriodInv'
    BY PeriodNext
  <1>2. QED
    BY <1>1, PeriodInit, BillingInvariant, PTL DEF Spec

\* As long as no request has met a fault, the quota of a plan is therefore a limit
\* for each of its periods.  (After a fault it is not: a refund that is repeated
\* takes from the counter what others have spent, see RefundIsIdempotent.)
THEOREM PeriodsWithinTotal == RowLocks => (Spec => [](tainted = {} => PeriodKept))
  <1> SUFFICES ASSUME RowLocks PROVE Spec => [](tainted = {} => PeriodKept)
    OBVIOUS
  <1>1. BInv /\ PayInv /\ PeriodInv => (tainted = {} => PeriodKept)
    <2> SUFFICES ASSUME BInv, PayInv, PeriodInv, tainted = {} PROVE PeriodKept
      OBVIOUS
    <2>1. UsedCoversSpent /\ WithinTotal /\ TypeOK
      BY Zenon DEF PeriodInv, PayInv, BInv
    <2>2. PeriodWithinTotal
      <3>1. ASSUME NEW s \in Subs, SubTotal[s] > 0
            PROVE  Spent(s) <= SubTotal[s] + stale[s]
        <4>1. /\ sub[s].used <= SubTotal[s] /\ sub[s].used + stale[s] >= Spent(s)
          BY <2>1, <3>1 DEF WithinTotal, UsedCoversSpent
        <4>2. sub[s].used \in Nat /\ stale[s] \in Nat /\ Spent(s) \in Nat /\ SubTotal[s] \in Nat
          BY <2>1, AmountsTyped, SubAssumption DEF AllAmounts, Amounts
        <4>3. QED
          BY <4>1, <4>2
      <3>2. QED
        BY <3>1 DEF PeriodWithinTotal
    <2>3. QED
      BY <2>1, <2>2, Zenon DEF PeriodKept
  <1>2. QED
    BY <1>1, PeriodInvariant, BillingInvariant, PTL

\* Where nothing fails and nothing crashes, every period is kept.
THEOREM EveryPeriodKept == RowLocks /\ MaxFaults = 0 => (Spec => []PeriodKept)
  <1> SUFFICES ASSUME RowLocks, MaxFaults = 0 PROVE Spec => []PeriodKept
    OBVIOUS
  <1>1. Init => tainted = {}
    BY DEF Init
  <1>2. TypeOK /\ tainted = {} /\ [Next]_vars => (tainted = {})'
    <2> SUFFICES ASSUME TypeOK, tainted = {}, [Next]_vars PROVE tainted' = {}
      OBVIOUS
    <2>1. \A r \in Requests : ~Fault(r)
      <3>1. faults \in 0..MaxFaults
        BY Zenon DEF TypeOK
      <3>2. QED
        BY <3>1 DEF Fault
    <2>2. ASSUME NEW r \in Requests,
                 \/ \E e \in Estimates : Begin(r, e)
                 \/ HandlerStep(r) \/ Outcome(r) \/ RefundStep(r) \/ Crash(r)
          PROVE  tainted' = tainted
      <3>1. CASE \/ \E e \in Estimates : Begin(r, e)
                 \/ Outcome(r) \/ Crash(r)
        BY <2>1, <3>1 DEF Begin, Outcome, Serve, Event, HangUp, Fail, Crash, history
      <3>2. CASE HandlerStep(r)
        BY <2>1, <3>2 DEF HandlerStep, TryWallet, TrySubscription, CheckToken, TakeToken,
           HoldWallet, BeginHold, CommitHold, Undo, SettleNothing, PayWallet, BeginPay,
           CommitPay, PayToken, LastUsage, Conclude, NoFault, history
      <3>3. CASE RefundStep(r)
        BY <2>1, <3>3 DEF RefundStep, RefundWallet, BeginRefund, CommitRefund, MarkRefunded,
           RefundToken, NoFault, history
      <3>4. QED
        BY <2>2, <3>1, <3>2, <3>3
    <2>3. CASE \/ Tick \/ BeginReset \/ UNCHANGED vars \/ Rest
               \/ \E s \in Subs : CommitReset(s)
               \/ \E s \in Subs, status \in {"ended", "deleted"} : EndSubscription(s, status)
      BY <2>3 DEF Tick, BeginReset, Rest, CommitReset, EndSubscription, vars, history
    <2>4. tainted' = tainted
      BY <2>2, <2>3, Zenon DEF Next
    <2>5. QED
      BY <2>4
  <1>3. QED
    BY <1>1, <1>2, BillingTypes, PeriodsWithinTotal, PTL DEF Spec
=============================================================================
