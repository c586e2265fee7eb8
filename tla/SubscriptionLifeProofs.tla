----------------------- MODULE SubscriptionLifeProofs -----------------------
(***************************************************************************)
(* Theorems about SubscriptionLife for every set of plans, groups,         *)
(* requests and keepers, and any number of subscriptions.                  *)
(***************************************************************************)
EXTENDS SubscriptionLife, FiniteSetTheorems, TLAPS

Row == Sub \union {Gone, Deleted}

\* No transaction and no job is ahead of the clock.
Times == \A p \in Process : /\ tx[p].open => tx[p].now <= clock
                            /\ job[p].what \in {"cancel", "delete", "expire"} => job[p].now <= clock

\* When transactions wait for each other, the only open one has read what is there.
Reads == \A p \in Process : tx[p].open => /\ tx[p].rows = subs /\ tx[p].group = group
                                          /\ \A q \in Process : tx[q].open => q = p

\* An open transaction is that of a job, and only requests buy.
Jobs == \A p \in Process : /\ tx[p].open => job[p] # NoJob
                           /\ job[p].what = "create" => p \in Requests

OfPlan(rows, plan) == {s \in Rows(rows) : rows[s].plan = plan}

\* The requests that have counted the rows of a plan and found room.
Buying(plan) == {r \in Requests : /\ tx[r].open /\ job[r].what = "create" /\ job[r].plan = plan
                                  /\ ~LimitReached(tx[r].rows, plan)}

\* What is held of a plan and what is being bought of it stay within the bound.
Bought ==
    \A plan \in Plans : MaxPurchase[plan] > 0 =>
        Cardinality(OfPlan(subs, plan)) + Cardinality(Buying(plan)) <= MaxPurchase[plan] + Concurrent - 1

LifeInv == /\ TypeOK
           /\ Times
           /\ Jobs
           /\ Bought
           /\ Serial => Reads /\ UpgradeKept

-----------------------------------------------------------------------------
(* Rows and jobs *)

LEMMA RowType ==
    ASSUME NEW x \in Row
    PROVE  /\ x.status \in {"active", "expired", "cancelled"} => x \in Sub
           /\ x.status \in {"active", "expired", "cancelled", "none", "deleted"}
           /\ x \in Sub => /\ x.plan \in Plans /\ x.end \in Nat /\ x.prev \in Groups \union {None}
                           /\ x.status \in {"active", "expired", "cancelled"}
  BY DEF Row, Sub, Gone, Deleted

\* A subscription that is cancelled or expires is still a row of its plan.
LEMMA RowChanged ==
    ASSUME NEW x \in Sub, NEW now \in Nat
    PROVE  /\ [x EXCEPT !.status = "expired"] \in Sub
           /\ [x EXCEPT !.status = "expired"].status = "expired"
           /\ [x EXCEPT !.status = "expired"].plan = x.plan
           /\ [x EXCEPT !.status = "expired"].end = x.end
           /\ [x EXCEPT !.status = "expired"].prev = x.prev
  BY DEF Sub

LEMMA JobType ==
    ASSUME NEW j \in Job \union {NoJob}
    PROVE  /\ j.what = "create" => j.plan \in Plans
           /\ j.what \in {"cancel", "delete"} => j.id \in Ids /\ j.now \in Nat
           /\ j.what = "expire" => j.now \in Nat
  BY DEF Job, NoJob

LEMMA Typed ==
    ASSUME TypeOK
    PROVE  /\ group \in Groups /\ subs \in [Ids -> Row]
           /\ job \in [Process -> Job \union {NoJob}] /\ tx \in [Process -> Tx \union {NoTx}]
           /\ clock \in 0..MaxTime /\ clock \in Nat /\ faults \in 0..MaxFaults
  <1>1. /\ group \in Groups /\ subs \in [Ids -> Row]
        /\ job \in [Process -> Job \union {NoJob}] /\ tx \in [Process -> Tx \union {NoTx}]
        /\ clock \in 0..MaxTime /\ faults \in 0..MaxFaults
    BY Zenon DEF TypeOK, Row
  <1>2. QED
    BY <1>1, BoundAssumption

\* What an open transaction has read.
LEMMA TxRead ==
    ASSUME TypeOK, NEW p \in Process, tx[p].open
    PROVE  /\ tx[p].now \in Nat /\ tx[p].rows \in [Ids -> Row] /\ tx[p].group \in Groups
  <1>1. tx[p] \in Tx \union {NoTx}
    BY Typed
  <1>2. tx[p] \in Tx
    BY <1>1 DEF NoTx
  <1>3. QED
    BY <1>2 DEF Tx, Row

LEMMA RowsOf ==
    ASSUME NEW rows \in [Ids -> Row], NEW s \in Rows(rows)
    PROVE  s \in Ids /\ rows[s] \in Sub
  <1>1. s \in Ids /\ rows[s] \in Row /\ rows[s].status \in {"active", "expired", "cancelled"}
    BY DEF Rows
  <1>2. QED
    BY <1>1, RowType, Zenon

\* Of finitely many subscriptions one ends last: there is one after which the set
\* of later ones is smallest, and that is empty.
LEMMA LastIsOne ==
    ASSUME NEW rows \in [Ids -> Row], NEW S \in SUBSET Rows(rows), S # {}
    PROVE  Last(rows, S) \in S
  <1> DEFINE Later(s) == {u \in S : \/ rows[u].end > rows[s].end
                                    \/ rows[u].end = rows[s].end /\ u > s}
             T == {Later(s) : s \in S}
  <1>1. S \in SUBSET Ids /\ \A s \in S : s \in Int /\ rows[s].end \in Nat
    <2>1. S \in SUBSET Ids
      BY DEF Rows
    <2>2. \A s \in S : rows[s] \in Sub
      BY RowsOf
    <2>3. QED
      BY <2>1, <2>2 DEF Ids, Sub
  <1>2. IsFiniteSet(S)
    <2>1. IsFiniteSet(Ids)
      BY FS_Interval, BoundAssumption DEF Ids
    <2>2. QED
      BY <1>1, <2>1, FS_Subset, Zenon
  <1>3. T \subseteq FiniteSubsetsOf(S) /\ T # {}
    <2>1. ASSUME NEW s \in S
          PROVE  Later(s) \in FiniteSubsetsOf(S)
      <3>1. Later(s) \in SUBSET S
        OBVIOUS
      <3> HIDE DEF Later
      <3>2. IsFiniteSet(Later(s))
        BY <1>2, <3>1, FS_Subset, Zenon
      <3>3. QED
        BY <3>1, <3>2 DEF FiniteSubsetsOf
    <2> HIDE DEF Later
    <2>2. QED
      BY <2>1
  <1>4. PICK x \in T : \A y \in T : ~ (<<y, x>> \in StrictSubsetOrdering(S))
    <2>1. IsWellFoundedOn(StrictSubsetOrdering(S), FiniteSubsetsOf(S))
      BY FS_StrictSubsetOrderingWellFounded, Zenon
    <2> HIDE DEF T
    <2>2. QED
      BY <1>3, <2>1, WFMin, Zenon
  <1>5. PICK s \in S : x = Later(s)
    OBVIOUS
  <1>6. ASSUME NEW u \in S, u \in Later(s)
        PROVE  FALSE
    <2>1. Later(u) \subseteq Later(s)
      BY <1>1, <1>6
    <2>2. u \notin Later(u)
      BY <1>1, <1>6
    <2>3. Later(u) \in SUBSET S /\ Later(s) \in SUBSET S
      OBVIOUS
    <2>4. Later(u) \in T
      OBVIOUS
    <2> HIDE DEF Later, T
    <2>5. <<Later(u), Later(s)>> \in StrictSubsetOrdering(S)
      BY <1>6, <2>1, <2>2, <2>3 DEF StrictSubsetOrdering
    <2>6. QED
      BY <1>4, <1>5, <2>4, <2>5
  <1>7. \A u \in S : \/ rows[u].end < rows[s].end
                     \/ rows[u].end = rows[s].end /\ u <= s
    BY <1>1, <1>6
  <1>8. QED
    BY <1>7, Zenon DEF Last

\* The group after a subscription has ended is one of the groups there are.
LEMMA AfterEndType ==
    ASSUME NEW rows \in [Ids -> Row], NEW s \in Rows(rows), NEW g \in Groups
    PROVE  AfterEnd(rows, s, g) \in Groups
  <1>1. rows[s].prev \in Groups \union {None}
    BY RowsOf, RowType
  <1>2. QED
    BY <1>1 DEF AfterEnd

-----------------------------------------------------------------------------
(* The purchase limit *)

LEMMA OfPlanFinite ==
    ASSUME NEW rows, NEW plan
    PROVE  IsFiniteSet(OfPlan(rows, plan)) /\ Cardinality(OfPlan(rows, plan)) \in Nat
  <1>1. OfPlan(rows, plan) \in SUBSET Ids
    BY DEF OfPlan, Rows
  <1>2. IsFiniteSet(Ids)
    BY FS_Interval, BoundAssumption DEF Ids
  <1>3. IsFiniteSet(OfPlan(rows, plan))
    BY <1>1, <1>2, FS_Subset, Zenon
  <1>4. QED
    BY <1>3, FS_CardinalityType, Zenon

LEMMA RequestsFinite ==
    ASSUME NEW S \in SUBSET Requests
    PROVE  /\ IsFiniteSet(S) /\ Cardinality(S) \in Nat
           /\ Cardinality(Requests) \in Nat /\ Cardinality(S) <= Cardinality(Requests)
  BY BoundAssumption, FS_Subset, FS_CardinalityType

\* Rows that end or disappear free their place, and so does a purchase given up.
LEMMA NoMoreBought ==
    ASSUME Bought,
           \A plan \in Plans : /\ OfPlan(subs', plan) \subseteq OfPlan(subs, plan)
                               /\ Buying(plan)' \subseteq Buying(plan)
    PROVE  Bought'
  <1> SUFFICES ASSUME NEW plan \in Plans, MaxPurchase[plan] > 0
               PROVE  Cardinality(OfPlan(subs', plan)) + Cardinality(Buying(plan)')
                          <= MaxPurchase[plan] + Concurrent - 1
    BY DEF Bought, Concurrent
  <1>1. Cardinality(OfPlan(subs', plan)) <= Cardinality(OfPlan(subs, plan))
    BY OfPlanFinite, FS_Subset, Zenon
  <1>2. Buying(plan) \in SUBSET Requests /\ Buying(plan)' \in SUBSET Requests
    BY DEF Buying
  <1>3. Cardinality(Buying(plan)') <= Cardinality(Buying(plan))
    BY <1>2, RequestsFinite, FS_Subset, Zenon
  <1>4. /\ Cardinality(OfPlan(subs', plan)) \in Nat /\ Cardinality(OfPlan(subs, plan)) \in Nat
        /\ Cardinality(Buying(plan)) \in Nat /\ Cardinality(Buying(plan)') \in Nat
        /\ Concurrent \in Nat /\ MaxPurchase[plan] \in Nat
    BY <1>2, OfPlanFinite, RequestsFinite, PlanAssumption DEF Concurrent
  <1>5. Cardinality(OfPlan(subs, plan)) + Cardinality(Buying(plan))
            <= MaxPurchase[plan] + Concurrent - 1
    BY DEF Bought
  <1>6. QED
    BY <1>1, <1>3, <1>4, <1>5

-----------------------------------------------------------------------------
(* Steps that write no row *)

\* The rows and the group stay, and no transaction opens that has not read them.
LEMMA RowsStill ==
    ASSUME LifeInv, TypeOK', Times', Jobs', Bought', UNCHANGED <<group, subs>>, clock' >= clock,
           Serial => Reads'
    PROVE  LifeInv'
  <1>1. ASSUME Serial, Upgraded(subs, clock)' # {}
        PROVE  group' # Base
    <2>1. clock \in Nat /\ clock' \in Nat /\ subs \in [Ids -> Row]
      <3>1. clock' \in 0..MaxTime
        BY Zenon DEF TypeOK
      <3>2. QED
        BY <3>1, Typed DEF LifeInv
    <2>2. \A s \in Rows(subs) : subs[s].end \in Nat
      BY <2>1, RowsOf, RowType
    <2>3. Upgraded(subs, clock') \subseteq Upgraded(subs, clock)
      <3>1. \A s \in Upgraded(subs, clock') :
                /\ s \in With(subs, "active") \intersect Upgrading(subs)
                /\ s \in Rows(subs) /\ subs[s].end > clock'
        BY DEF Upgraded, With
      <3>2. \A s \in Upgraded(subs, clock') :
                s \in With(subs, "active") \intersect Upgrading(subs) /\ subs[s].end > clock
        BY <2>1, <2>2, <3>1
      <3>3. QED
        BY <3>2 DEF Upgraded
    <2>4. Upgraded(subs, clock') # {}
      BY <1>1
    <2>5. QED
      BY <1>1, <2>3, <2>4 DEF LifeInv, UpgradeKept
  <1>2. Serial => UpgradeKept'
    BY <1>1 DEF UpgradeKept
  <1>3. QED
    BY <1>2, Zenon DEF LifeInv

\* A new job is not ahead of the clock.
LEMMA AskKeeps ==
    ASSUME LifeInv, NEW p \in Process, NEW j \in Job, job[p] = NoJob, job' = [job EXCEPT ![p] = j],
           j.what \in {"cancel", "delete", "expire"} => j.now = clock,
           j.what = "create" => p \in Requests,
           UNCHANGED <<group, subs, tx, clock, faults>>
    PROVE  LifeInv'
  <1>1. TypeOK /\ Times
    BY Zenon DEF LifeInv
  <1>2. TypeOK'
    BY <1>1, Typed DEF TypeOK
  <1>3. Times'
    BY <1>1, Typed DEF Times
  <1>4. Serial => Reads'
    BY DEF LifeInv, Reads
  <1>5. Jobs /\ Bought /\ ~tx[p].open /\ \A q \in Process : q # p => job'[q] = job[q]
    BY <1>1, Typed DEF LifeInv, Jobs
  <1>6. Jobs'
    BY <1>1, <1>5, Typed DEF Jobs, Job, NoJob
  <1>7. \A plan \in Plans : Buying(plan)' \subseteq Buying(plan)
    BY <1>5 DEF Buying, Process
  <1>8. Bought'
    BY <1>5, <1>7, NoMoreBought
  <1>9. QED
    BY <1>1, <1>2, <1>3, <1>4, <1>6, <1>8, Typed, RowsStill

LEMMA AskCreateKeeps ==
    ASSUME LifeInv, NEW r \in Requests, NEW plan \in Plans, AskCreate(r, plan)
    PROVE  LifeInv'
  <1>1. PICK j \in Job : j = [what |-> "create", plan |-> plan] /\ j.what = "create"
    <2>1. [what |-> "create", plan |-> plan] \in Job
      BY DEF Job
    <2>2. QED
      BY <2>1
  <1>2. /\ r \in Process /\ job[r] = NoJob /\ job' = [job EXCEPT ![r] = j]
        /\ UNCHANGED <<group, subs, tx, clock, faults>>
    BY <1>1 DEF AskCreate, Process
  <1>3. QED
    BY <1>1, <1>2, AskKeeps

LEMMA AskEndKeeps ==
    ASSUME LifeInv, NEW r \in Requests, NEW s \in Ids, NEW what \in {"cancel", "delete"},
           AskEnd(r, what, s)
    PROVE  LifeInv'
  <1>1. clock \in Nat
    BY Typed DEF LifeInv
  <1>2. PICK j \in Job : /\ j = [what |-> what, id |-> s, now |-> clock] /\ j.now = clock
                         /\ j.what # "create"
    <2>1. [what |-> what, id |-> s, now |-> clock] \in Job
      BY <1>1 DEF Job
    <2>2. QED
      BY <2>1
  <1>3. /\ r \in Process /\ job[r] = NoJob /\ job' = [job EXCEPT ![r] = j]
        /\ UNCHANGED <<group, subs, tx, clock, faults>>
    BY <1>2 DEF AskEnd, Process
  <1>4. QED
    BY <1>2, <1>3, AskKeeps

LEMMA ListDueKeeps ==
    ASSUME LifeInv, NEW k \in Keepers, ListDue(k)
    PROVE  LifeInv'
  <1>1. clock \in Nat
    BY Typed DEF LifeInv
  <1>2. PICK j \in Job : /\ j = [what |-> "expire", now |-> clock] /\ j.now = clock
                         /\ j.what # "create"
    <2>1. [what |-> "expire", now |-> clock] \in Job
      BY <1>1 DEF Job
    <2>2. QED
      BY <2>1
  <1>3. /\ k \in Process /\ job[k] = NoJob /\ job' = [job EXCEPT ![k] = j]
        /\ UNCHANGED <<group, subs, tx, clock, faults>>
    BY <1>2 DEF ListDue, Process
  <1>4. QED
    BY <1>2, <1>3, AskKeeps

LEMMA EndRoundKeeps ==
    ASSUME LifeInv, NEW k \in Keepers, EndRound(k)
    PROVE  LifeInv'
  <1>1. TypeOK /\ Times /\ Jobs /\ Bought
    BY Zenon DEF LifeInv
  <1>2. /\ k \in Process /\ job[k].what = "expire" /\ tx[k] = NoTx /\ job' = [job EXCEPT ![k] = NoJob]
        /\ faults < MaxFaults /\ faults' = faults + 1
        /\ UNCHANGED <<group, subs, tx, clock>>
    BY DEF EndRound, Process
  <1>3. /\ job' \in [Process -> Job \union {NoJob}] /\ job'[k].what = "none" /\ ~tx[k].open
        /\ \A q \in Process : q # k => job'[q] = job[q]
    BY <1>1, <1>2, Typed DEF NoJob, NoTx
  <1>4. TypeOK'
    BY <1>1, <1>2, <1>3, Typed, BoundAssumption DEF TypeOK
  <1>5. Times' /\ Jobs' /\ (Serial => Reads')
    BY <1>1, <1>2, <1>3 DEF LifeInv, Times, Jobs, Reads
  <1>6. \A plan \in Plans : Buying(plan)' \subseteq Buying(plan)
    BY <1>2, <1>3 DEF Buying, Process
  <1>7. Bought'
    BY <1>1, <1>2, <1>6, NoMoreBought
  <1>8. QED
    BY <1>1, <1>2, <1>4, <1>5, <1>7, Typed, RowsStill

\* A transaction that opens finds room only as long as there is some, and then
\* there are no more buyers than can be at work at once.
LEMMA BeginBuys ==
    ASSUME LifeInv, NEW p \in Process, Begin(p)
    PROVE  Bought'
  <1>1. TypeOK /\ Jobs /\ Bought /\ subs' = subs /\ job' = job
    BY Zenon DEF LifeInv, Begin
  <1>2. PICK t \in Tx : t.rows = subs /\ tx' = [tx EXCEPT ![p] = t]
    <2>1. [open |-> TRUE, now |-> clock, rows |-> subs, group |-> group] \in Tx
      BY <1>1, Typed DEF Tx, Row
    <2>2. QED
      BY <2>1 DEF Begin
  <1>3. /\ tx'[p] = t /\ \A q \in Process : q # p => tx'[q] = tx[q]
    BY <1>1, <1>2, Typed
  <1>4. Serial => \A q \in Process : ~tx[q].open
    BY DEF Begin, Turn, NoTx
  <1> SUFFICES ASSUME NEW plan \in Plans, MaxPurchase[plan] > 0
               PROVE  Cardinality(OfPlan(subs, plan)) + Cardinality(Buying(plan)')
                          <= MaxPurchase[plan] + Concurrent - 1
    BY <1>1 DEF Bought, Concurrent
  <1>5. Buying(plan) \in SUBSET Requests /\ Buying(plan)' \in SUBSET Requests
    BY DEF Buying
  <1>6. /\ Cardinality(OfPlan(subs, plan)) \in Nat /\ Cardinality(Buying(plan)) \in Nat
        /\ Cardinality(Buying(plan)') \in Nat /\ Cardinality(Requests) \in Nat
        /\ Cardinality(Buying(plan)') <= Cardinality(Requests) /\ MaxPurchase[plan] \in Nat
    BY <1>5, OfPlanFinite, RequestsFinite, PlanAssumption
  <1>7. CASE LimitReached(subs, plan)
    <2>1. Buying(plan)' \subseteq Buying(plan)
      BY <1>1, <1>2, <1>3, <1>7 DEF Buying, Process
    <2>2. Cardinality(Buying(plan)') <= Cardinality(Buying(plan))
      BY <1>5, <2>1, RequestsFinite, FS_Subset, Zenon
    <2>3. Concurrent \in Nat
      BY <1>6 DEF Concurrent
    <2>4. Cardinality(OfPlan(subs, plan)) + Cardinality(Buying(plan))
              <= MaxPurchase[plan] + Concurrent - 1
      BY <1>1 DEF Bought
    <2>5. QED
      BY <1>6, <2>2, <2>3, <2>4
  <1>8. CASE ~LimitReached(subs, plan)
    <2>1. Cardinality(OfPlan(subs, plan)) <= MaxPurchase[plan] - 1
      BY <1>6, <1>8 DEF LimitReached, OfPlan
    <2>2. Serial => Cardinality(Buying(plan)') <= 1
      <3>1. Serial => Buying(plan)' \in SUBSET {p}
        BY <1>3, <1>4 DEF Buying, Process
      <3>2. IsFiniteSet({p}) /\ Cardinality({p}) = 1
        BY FS_Singleton
      <3>3. QED
        BY <3>1, <3>2, FS_Subset
    <2>3. Cardinality(Buying(plan)') <= Concurrent /\ Concurrent \in Nat
      BY <1>6, <2>2 DEF Concurrent
    <2>4. QED
      BY <1>6, <2>1, <2>3
  <1>9. QED
    BY <1>7, <1>8

LEMMA BeginKeeps ==
    ASSUME LifeInv, NEW p \in Process, Begin(p)
    PROVE  LifeInv'
  <1>1. TypeOK /\ Times
    BY Zenon DEF LifeInv
  <1>2. PICK t \in Tx : /\ t = [open |-> TRUE, now |-> clock, rows |-> subs, group |-> group]
                        /\ t.open /\ t.now = clock /\ t.rows = subs /\ t.group = group
    <2>1. [open |-> TRUE, now |-> clock, rows |-> subs, group |-> group] \in Tx
      BY <1>1, Typed DEF Tx, Row
    <2>2. QED
      BY <2>1
  <1>3. /\ tx' = [tx EXCEPT ![p] = t] /\ (Serial => \A q \in Process : tx[q] = NoTx)
        /\ UNCHANGED <<group, subs, job, clock, faults>>
    BY <1>2 DEF Begin, Turn
  <1>4. TypeOK'
    BY <1>1, <1>3, Typed DEF TypeOK
  <1>5. Times'
    BY <1>1, <1>2, <1>3, Typed DEF Times
  <1>6. Serial => Reads'
    BY <1>1, <1>2, <1>3, Typed DEF Reads, NoTx
  <1>7. Jobs'
    BY <1>1, <1>3, Typed DEF LifeInv, Jobs, Begin
  <1>8. Bought'
    BY BeginBuys
  <1>9. QED
    BY <1>1, <1>3, <1>4, <1>5, <1>6, <1>7, <1>8, Typed, RowsStill

LEMMA TickKeeps ==
    ASSUME LifeInv, Tick
    PROVE  LifeInv'
  <1>1. TypeOK /\ Times
    BY Zenon DEF LifeInv
  <1>2. /\ clock < MaxTime /\ clock' = clock + 1
        /\ UNCHANGED <<group, subs, job, tx, faults>>
    BY DEF Tick
  <1>3. TypeOK'
    <2>1. clock' \in 0..MaxTime
      BY <1>1, <1>2, Typed, BoundAssumption
    <2>2. QED
      BY <1>1, <1>2, <2>1, Zenon DEF TypeOK
  <1>4. Times'
    <2>1. \A p \in Process : /\ tx[p].open => tx[p].now \in Nat
                             /\ job[p].what \in {"cancel", "delete", "expire"} => job[p].now \in Nat
      <3>1. \A p \in Process : job[p] \in Job \union {NoJob}
        BY <1>1, Typed
      <3>2. QED
        BY <1>1, <3>1, TxRead, JobType
    <2>2. QED
      BY <1>1, <1>2, <2>1, Typed DEF Times
  <1>5. (Serial => Reads') /\ Jobs' /\ Bought'
    BY <1>2 DEF LifeInv, Reads, Jobs, Bought, Buying
  <1>6. QED
    BY <1>1, <1>2, <1>3, <1>4, <1>5, Typed, RowsStill

LEMMA StutterKeeps ==
    ASSUME LifeInv, UNCHANGED vars
    PROVE  LifeInv'
  BY DEF vars, LifeInv, TypeOK, Times, Jobs, Bought, Buying, Reads, UpgradeKept

\* After a transaction has ended none is open that others had to wait for.
LEMMA CloseKeeps ==
    ASSUME LifeInv, NEW p \in Process, Close(p), tx[p].open, clock' = clock
    PROVE  /\ tx' \in [Process -> Tx \union {NoTx}] /\ job' \in [Process -> Job \union {NoJob}]
           /\ Times' /\ Jobs'
           /\ Serial => Reads'
           /\ \A plan \in Plans : Buying(plan)' \subseteq Buying(plan) \ {p}
  <1>1. TypeOK /\ Times /\ Jobs /\ (Serial => Reads)
    BY Zenon DEF LifeInv
  <1>2. tx' = [tx EXCEPT ![p] = NoTx] /\ job' = [job EXCEPT ![p] = NoJob]
    BY DEF Close
  <1>3. /\ tx' \in [Process -> Tx \union {NoTx}] /\ job' \in [Process -> Job \union {NoJob}]
        /\ ~tx'[p].open /\ job'[p].what = "none"
        /\ \A q \in Process : q # p => tx'[q] = tx[q] /\ job'[q] = job[q]
    BY <1>1, <1>2, Typed DEF NoTx, NoJob
  <1>4. Times'
    BY <1>1, <1>3 DEF Times
  <1>5. Serial => Reads'
    BY <1>1, <1>3 DEF Reads
  <1>6. Jobs' /\ \A plan \in Plans : Buying(plan)' \subseteq Buying(plan) \ {p}
    BY <1>1, <1>3 DEF Jobs, Buying, Process
  <1>7. QED
    BY <1>3, <1>4, <1>5, <1>6

LEMMA FailKeeps ==
    ASSUME LifeInv, NEW p \in Process, Fail(p)
    PROVE  LifeInv'
  <1>1. TypeOK
    BY Zenon DEF LifeInv
  <1>2. /\ tx[p].open /\ faults < MaxFaults /\ faults' = faults + 1
        /\ Close(p) /\ UNCHANGED <<group, subs, clock>>
    BY DEF Fail
  <1>3. /\ tx' \in [Process -> Tx \union {NoTx}] /\ job' \in [Process -> Job \union {NoJob}]
        /\ Times' /\ Jobs' /\ (Serial => Reads')
        /\ \A plan \in Plans : Buying(plan)' \subseteq Buying(plan) \ {p}
    BY <1>2, CloseKeeps, Zenon
  <1>4. TypeOK'
    BY <1>1, <1>2, <1>3, Typed, BoundAssumption DEF TypeOK
  <1>5. Bought'
    BY <1>2, <1>3, NoMoreBought DEF LifeInv
  <1>6. QED
    BY <1>1, <1>2, <1>3, <1>4, <1>5, Typed, RowsStill

-----------------------------------------------------------------------------
(* Commits *)

\* A transaction that only ends or removes rows.
LEMMA FewerBought ==
    ASSUME LifeInv, NEW p \in Process, tx[p].open, Close(p), clock' = clock,
           \A s \in Rows(subs)' : s \in Rows(subs) /\ subs'[s].plan = subs[s].plan
    PROVE  Bought'
  <1>1. \A plan \in Plans : Buying(plan)' \subseteq Buying(plan) \ {p}
    BY CloseKeeps, Zenon
  <1>2. \A plan \in Plans : OfPlan(subs', plan) \subseteq OfPlan(subs, plan)
    BY DEF OfPlan, Rows
  <1>3. QED
    BY <1>1, <1>2, NoMoreBought DEF LifeInv

\* A purchase turns a place that was found free into a row.
LEMMA OneMoreBought ==
    ASSUME Bought, NEW plan \in Plans, NEW p \in Buying(plan), NEW s \in Ids,
           \A other \in Plans : /\ Buying(other)' \subseteq Buying(other) \ {p}
                                /\ other # plan => OfPlan(subs', other) \subseteq OfPlan(subs, other),
           OfPlan(subs', plan) \subseteq OfPlan(subs, plan) \union {s}
    PROVE  Bought'
  <1> SUFFICES ASSUME NEW other \in Plans, MaxPurchase[other] > 0
               PROVE  Cardinality(OfPlan(subs', other)) + Cardinality(Buying(other)')
                          <= MaxPurchase[other] + Concurrent - 1
    BY DEF Bought, Concurrent
  <1>2. Buying(other) \in SUBSET Requests /\ Buying(other)' \in SUBSET Requests
    BY DEF Buying
  <1>3. /\ Cardinality(OfPlan(subs', other)) \in Nat /\ Cardinality(OfPlan(subs, other)) \in Nat
        /\ Cardinality(Buying(other)) \in Nat /\ Cardinality(Buying(other)') \in Nat
        /\ Concurrent \in Nat /\ MaxPurchase[other] \in Nat
    BY <1>2, OfPlanFinite, RequestsFinite, PlanAssumption DEF Concurrent
  <1>4. Cardinality(OfPlan(subs, other)) + Cardinality(Buying(other))
            <= MaxPurchase[other] + Concurrent - 1
    BY DEF Bought
  <1>5. CASE other # plan
    <2>1. OfPlan(subs', other) \subseteq OfPlan(subs, other)
      BY <1>5
    <2>2. Cardinality(OfPlan(subs', other)) <= Cardinality(OfPlan(subs, other))
      BY <2>1, OfPlanFinite, FS_Subset, Zenon
    <2>3. Cardinality(Buying(other)') <= Cardinality(Buying(other))
      <3>1. Buying(other)' \subseteq Buying(other)
        OBVIOUS
      <3>2. QED
        BY <1>2, <3>1, RequestsFinite, FS_Subset, Zenon
    <2>4. QED
      BY <1>3, <1>4, <2>2, <2>3
  <1>6. CASE other = plan
    <2>1. Cardinality(Buying(plan)') <= Cardinality(Buying(plan)) - 1
      <3>1. IsFiniteSet(Buying(plan)) /\ IsFiniteSet(Buying(plan) \ {p})
        BY <1>2, <1>6, RequestsFinite, FS_Difference, Zenon
      <3>2. Cardinality(Buying(plan) \ {p}) = Cardinality(Buying(plan)) - 1
        BY <3>1, FS_RemoveElement
      <3>3. Cardinality(Buying(plan)') <= Cardinality(Buying(plan) \ {p})
        BY <3>1, FS_Subset, Zenon
      <3>4. QED
        BY <3>2, <3>3
    <2>2. Cardinality(OfPlan(subs', plan)) <= Cardinality(OfPlan(subs, plan)) + 1
      <3>1. OfPlan(subs', plan) \in SUBSET (OfPlan(subs, plan) \union {s})
        OBVIOUS
      <3>2. IsFiniteSet(OfPlan(subs, plan)) /\ Cardinality(OfPlan(subs, plan)) \in Nat
        BY OfPlanFinite
      <3>3. /\ IsFiniteSet(OfPlan(subs, plan) \union {s})
            /\ Cardinality(OfPlan(subs, plan) \union {s}) =
                 IF s \in OfPlan(subs, plan) THEN Cardinality(OfPlan(subs, plan))
                 ELSE Cardinality(OfPlan(subs, plan)) + 1
        BY <3>2, FS_AddElement, Zenon
      <3>4. Cardinality(OfPlan(subs', plan)) <= Cardinality(OfPlan(subs, plan) \union {s})
        BY <3>1, <3>3, FS_Subset, Zenon
      <3>5. Cardinality(OfPlan(subs, plan) \union {s}) <= Cardinality(OfPlan(subs, plan)) + 1
        BY <3>2, <3>3
      <3>6. /\ Cardinality(OfPlan(subs, plan) \union {s}) \in Nat
            /\ Cardinality(OfPlan(subs', plan)) \in Nat
        BY <3>3, OfPlanFinite, FS_CardinalityType, Zenon
      <3>7. QED
        BY <3>2, <3>4, <3>5, <3>6
    <2>3. QED
      BY <1>3, <1>4, <1>6, <2>1, <2>2
  <1>7. QED
    BY <1>5, <1>6

\* A transaction that has read the rows and the group as they are.
LEMMA ReadAll ==
    ASSUME LifeInv, Serial, NEW p \in Process, tx[p].open
    PROVE  tx[p].rows = subs /\ tx[p].group = group
  BY DEF LifeInv, Reads

LEMMA WriteKeeps ==
    ASSUME LifeInv, NEW p \in Process, tx[p].open, Close(p), UNCHANGED <<clock, faults>>,
           subs' \in [Ids -> Row], group' \in Groups,
           Bought', Serial => UpgradeKept'
    PROVE  LifeInv'
  <1>1. TypeOK
    BY Zenon DEF LifeInv
  <1>2. /\ tx' \in [Process -> Tx \union {NoTx}] /\ job' \in [Process -> Job \union {NoJob}]
        /\ Times' /\ Jobs' /\ (Serial => Reads')
    BY CloseKeeps, Zenon
  <1>3. TypeOK'
    BY <1>1, <1>2, Typed DEF TypeOK, Row
  <1>4. QED
    BY <1>2, <1>3, Zenon DEF LifeInv

LEMMA CommitCreateKeeps ==
    ASSUME LifeInv, NEW p \in Process, CommitCreate(p)
    PROVE  LifeInv'
  <1>1. TypeOK
    BY Zenon DEF LifeInv
  <1>2. /\ tx[p].open /\ job[p].what = "create" /\ Close(p) /\ UNCHANGED <<clock, faults>>
    BY DEF CommitCreate
  <1>3. PICK plan \in Plans : plan = job[p].plan
    <2>1. job[p] \in Job \union {NoJob}
      BY <1>1, Typed
    <2>2. QED
      BY <1>2, <2>1, JobType
  <1>4. PICK g \in Groups, now \in Nat : g = tx[p].group /\ now = tx[p].now
    BY <1>1, <1>2, TxRead
  <1>5. subs \in [Ids -> Row] /\ group \in Groups /\ clock \in Nat
    BY <1>1, Typed
  <1>6. CASE LimitReached(tx[p].rows, plan) /\ UNCHANGED <<group, subs>>
    <2>1. Bought' /\ (Serial => UpgradeKept')
      <3>1. Serial => UpgradeKept'
        BY <1>2, <1>6 DEF LifeInv, UpgradeKept
      <3>2. \A u \in Rows(subs)' : u \in Rows(subs) /\ subs'[u].plan = subs[u].plan
        BY <1>6
      <3>3. QED
        BY <1>2, <3>1, <3>2, FewerBought
    <2>2. QED
      BY <1>2, <1>5, <1>6, <2>1, WriteKeeps
  <1>7. ASSUME ~LimitReached(tx[p].rows, plan),
               NEW s \in Ids, subs[s] = Gone, NEW moves \in BOOLEAN, NEW row,
               moves <=> (UpgradeGroup[plan] # None /\ UpgradeGroup[plan] # g),
               row = [status |-> "active", plan |-> plan, end |-> now + Duration[plan],
                      prev |-> IF moves THEN g ELSE None],
               subs' = [subs EXCEPT ![s] = row],
               group' = IF moves THEN UpgradeGroup[plan] ELSE group
        PROVE  LifeInv'
    <2>1. row \in Sub /\ row.plan = plan
      BY <1>7, PlanAssumption DEF Sub
    <2>2. /\ subs' \in [Ids -> Row] /\ subs'[s] = row
          /\ \A u \in Ids : u # s => subs'[u] = subs[u]
      BY <1>5, <1>7, <2>1 DEF Row
    <2>3. group' \in Groups
      BY <1>5, <1>7 DEF Groups
    <2>4. \A u \in Rows(subs') : \/ u = s /\ subs'[u].plan = plan
                                 \/ u \in Rows(subs) /\ subs'[u].plan = subs[u].plan
      BY <2>1, <2>2 DEF Rows
    <2>5. Bought'
      <3>1. p \in Buying(plan)
        BY <1>2, <1>3, <1>7 DEF LifeInv, Jobs, Buying
      <3>2. \A other \in Plans : Buying(other)' \subseteq Buying(other) \ {p}
        BY <1>2, CloseKeeps, Zenon
      <3>3. /\ \A other \in Plans : other # plan => OfPlan(subs', other) \subseteq OfPlan(subs, other)
            /\ OfPlan(subs', plan) \subseteq OfPlan(subs, plan) \union {s}
        BY <2>4 DEF OfPlan
      <3>4. QED
        BY <1>7, <3>1, <3>2, <3>3, OneMoreBought DEF LifeInv
    <2>6. ASSUME Serial, NEW u \in Upgraded(subs', clock)
          PROVE  group' # Base
      <3>1. g = group
        BY <1>2, <1>4, <2>6, ReadAll
      <3>2. u \in Ids /\ (u # s => u \in Upgraded(subs, clock))
        BY <2>2 DEF Upgraded, With, Upgrading, Upgrade, Rows
      <3>3. u # s => group # Base
        BY <2>6, <3>2 DEF LifeInv, UpgradeKept
      <3>4. u = s => UpgradeGroup[plan] # None
        BY <2>1, <2>2 DEF Upgraded, Upgrading, Upgrade
      <3>5. UpgradeGroup[plan] # Base
        BY PlanAssumption
      <3>6. QED
        BY <1>7, <3>1, <3>3, <3>4, <3>5
    <2>7. Serial => UpgradeKept'
      BY <1>2, <2>6 DEF UpgradeKept
    <2>8. QED
      BY <1>2, <2>2, <2>3, <2>5, <2>7, WriteKeeps
  <1>8. QED
    <2>1. ~LimitReached(tx[p].rows, plan) =>
            \E s \in Ids :
               /\ subs[s] = Gone
               /\ LET moves == UpgradeGroup[plan] # None /\ UpgradeGroup[plan] # g
                  IN  /\ subs' = [subs EXCEPT ![s] =
                             [status |-> "active", plan |-> plan, end |-> now + Duration[plan],
                              prev |-> IF moves THEN g ELSE None]]
                      /\ group' = IF moves THEN UpgradeGroup[plan] ELSE group
      BY <1>3, <1>4 DEF CommitCreate
    <2>2. LimitReached(tx[p].rows, plan) => UNCHANGED <<group, subs>>
      BY <1>3 DEF CommitCreate
    <2>3. QED
      BY <1>6, <1>7, <2>1, <2>2

LEMMA CommitEndKeeps ==
    ASSUME LifeInv, NEW p \in Process, CommitEnd(p)
    PROVE  LifeInv'
  <1>1. TypeOK /\ Times
    BY Zenon DEF LifeInv
  <1>2. /\ tx[p].open /\ job[p].what \in {"cancel", "delete"} /\ Close(p)
        /\ UNCHANGED <<clock, faults>>
    BY DEF CommitEnd
  <1>3. PICK s \in Ids, now \in Nat : s = job[p].id /\ now = job[p].now
    <2>1. job[p] \in Job \union {NoJob}
      BY <1>1, Typed
    <2>2. QED
      BY <1>2, <2>1, JobType
  <1>4. PICK rows \in [Ids -> Row], g \in Groups : rows = tx[p].rows /\ g = tx[p].group
    BY <1>1, <1>2, TxRead
  <1>5. subs \in [Ids -> Row] /\ group \in Groups /\ clock \in Nat /\ now <= clock
    BY <1>1, <1>2, <1>3, Typed DEF Times
  <1>6. CASE s \notin Rows(rows) /\ UNCHANGED <<group, subs>>
    <2>1. Bought' /\ (Serial => UpgradeKept')
      <3>1. Serial => UpgradeKept'
        BY <1>2, <1>6 DEF LifeInv, UpgradeKept
      <3>2. \A u \in Rows(subs)' : u \in Rows(subs) /\ subs'[u].plan = subs[u].plan
        BY <1>6
      <3>3. QED
        BY <1>2, <3>1, <3>2, FewerBought
    <2>2. QED
      BY <1>2, <1>5, <1>6, <2>1, WriteKeeps
  <1>7. CASE /\ s \in Rows(rows) /\ group' = Downgraded(p)
             /\ subs' = IF s \notin Rows(subs) THEN subs
                        ELSE IF job[p].what = "delete" THEN [subs EXCEPT ![s] = Deleted]
                        ELSE [subs EXCEPT ![s] = Cancelled(subs[s], now)]
    <2>1. /\ Downgraded(p) \in Groups
          /\ ~(Upgraded(rows, now) \subseteq {s}) => Downgraded(p) = group
      <3>1. AfterEnd(rows, s, g) \in Groups
        BY <1>7, AfterEndType
      <3>2. QED
        BY <1>3, <1>4, <1>5, <3>1 DEF Downgraded
    <2>2. s \in Rows(subs) => \E new \in Row :
             /\ subs' = [subs EXCEPT ![s] = new]
             /\ new.status \in {"deleted", "cancelled"}
             /\ new.status = "cancelled" => new.plan = subs[s].plan
      <3>1. CASE job[p].what = "delete"
        <4>1. Deleted \in Row /\ Deleted.status = "deleted"
          BY DEF Row, Deleted
        <4>2. QED
          BY <1>7, <3>1, <4>1
      <3>2. CASE job[p].what # "delete" /\ s \in Rows(subs)
        <4>1. subs[s] \in Sub
          BY <1>5, <3>2, RowsOf
        <4>2. /\ Cancelled(subs[s], now) \in Row
              /\ Cancelled(subs[s], now).status = "cancelled"
              /\ Cancelled(subs[s], now).plan = subs[s].plan
          BY <4>1 DEF Row, Sub, Cancelled
        <4>3. QED
          BY <1>7, <3>2, <4>2
      <3>3. QED
        BY <3>1, <3>2
    <2>3. /\ subs' \in [Ids -> Row]
          /\ \A u \in Ids : u # s => subs'[u] = subs[u]
          /\ s \in Rows(subs) => /\ subs'[s].status \in {"deleted", "cancelled"}
                                 /\ subs'[s].status = "cancelled" => subs'[s].plan = subs[s].plan
          /\ s \notin Rows(subs) => subs' = subs
      <3>1. CASE s \in Rows(subs)
        BY <1>5, <2>2, <3>1
      <3>2. CASE s \notin Rows(subs)
        BY <1>5, <1>7, <3>2
      <3>3. QED
        BY <3>1, <3>2
    <2>4. \A u \in Rows(subs)' : u \in Rows(subs) /\ subs'[u].plan = subs[u].plan
      BY <2>3 DEF Rows
    <2>5. Bought'
      BY <1>2, <2>4, FewerBought
    <2>6. \A u \in Upgraded(subs', clock) : u # s /\ u \in Upgraded(subs, clock)
      <3>1. \A u \in Upgraded(subs', clock) :
                u \in Rows(subs') /\ subs'[u].status = "active" /\ u \in Ids
        BY DEF Upgraded, With, Rows
      <3>2. \A u \in Upgraded(subs', clock) : u # s
        <4>1. s \in Rows(subs) => subs'[s].status # "active"
          BY <2>3
        <4>2. s \notin Rows(subs) => s \notin Rows(subs')
          BY <2>3
        <4>3. QED
          BY <3>1, <4>1, <4>2
      <3>3. QED
        BY <2>3, <3>1, <3>2 DEF Upgraded, With, Upgrading, Upgrade, Rows
    <2>7. ASSUME Serial, NEW u \in Upgraded(subs', clock)
          PROVE  group' # Base
      <3>1. rows = subs
        BY <1>2, <1>4, <2>7, ReadAll
      <3>2. u # s /\ u \in Upgraded(subs, clock)
        BY <2>6
      <3>3. u \in Upgraded(subs, now)
        <4>1. u \in Rows(subs) /\ subs[u].end > clock
          BY <3>2 DEF Upgraded, With
        <4>2. subs[u].end \in Nat
          BY <1>5, <4>1, RowsOf, RowType
        <4>3. subs[u].end > now
          BY <1>5, <4>1, <4>2
        <4>4. QED
          BY <3>2, <4>3 DEF Upgraded
      <3>4. group' = group
        BY <1>7, <2>1, <3>1, <3>2, <3>3
      <3>5. QED
        BY <2>7, <3>2, <3>4 DEF LifeInv, UpgradeKept
    <2>8. Serial => UpgradeKept'
      BY <1>2, <2>7 DEF UpgradeKept
    <2>9. QED
      BY <1>2, <1>7, <2>1, <2>3, <2>5, <2>8, WriteKeeps
  <1>8. QED
    BY <1>3, <1>4, <1>6, <1>7 DEF CommitEnd

\* Rows that are due become expired, and the others stay.
LEMMA ExpiredRows ==
    ASSUME NEW rows \in [Ids -> Row], NEW now \in Nat
    PROVE  /\ Expired(rows, now) \in [Ids -> Row]
           /\ \A s \in Ids : s \notin Due(rows, now) => Expired(rows, now)[s] = rows[s]
           /\ \A s \in Due(rows, now) : /\ s \in Rows(rows)
                                        /\ Expired(rows, now)[s].status = "expired"
                                        /\ Expired(rows, now)[s].plan = rows[s].plan
                                        /\ Expired(rows, now)[s].prev = rows[s].prev
  <1>1. ASSUME NEW s \in Due(rows, now)
        PROVE  /\ s \in Ids /\ s \in Rows(rows)
               /\ [rows[s] EXCEPT !.status = "expired"] \in Sub
               /\ [rows[s] EXCEPT !.status = "expired"].status = "expired"
               /\ [rows[s] EXCEPT !.status = "expired"].plan = rows[s].plan
               /\ [rows[s] EXCEPT !.status = "expired"].prev = rows[s].prev
    <2>1. s \in Rows(rows)
      BY DEF Due, With
    <2>2. s \in Ids /\ rows[s] \in Sub
      BY <2>1, RowsOf
    <2>3. QED
      BY <2>1, <2>2, RowChanged
  <1>2. QED
    BY <1>1 DEF Expired, Row

LEMMA CommitExpireKeeps ==
    ASSUME LifeInv, NEW k \in Process, CommitExpire(k)
    PROVE  LifeInv'
  <1>1. TypeOK /\ Times
    BY Zenon DEF LifeInv
  <1>2. /\ tx[k].open /\ job[k].what = "expire" /\ Close(k) /\ UNCHANGED <<clock, faults>>
    BY DEF CommitExpire
  <1>3. PICK now \in Nat : now = job[k].now /\ now <= clock
    <2>1. job[k] \in Job \union {NoJob}
      BY <1>1, Typed
    <2>2. QED
      BY <1>1, <1>2, <2>1, JobType DEF Times
  <1>4. PICK read \in [Ids -> Row], g \in Groups : read = tx[k].rows /\ g = tx[k].group
    BY <1>1, <1>2, TxRead
  <1>5. subs \in [Ids -> Row] /\ group \in Groups /\ clock \in Nat
    BY <1>1, Typed
  <1>6. PICK rows \in [Ids -> Row] : rows = Expired(read, now)
    BY ExpiredRows
  <1>7. PICK ended \in SUBSET Rows(rows) : ended = With(rows, "expired") \intersect Upgrading(rows)
    BY DEF With
  <1>8. /\ subs' = Expired(subs, now)
        /\ group' = IF /\ Upgraded(rows, now) = {} /\ ended # {}
                       /\ AfterEnd(rows, Last(rows, ended), g) # g
                    THEN AfterEnd(rows, Last(rows, ended), g) ELSE group
    BY <1>3, <1>4, <1>6, <1>7, Zenon DEF CommitExpire
  <1>9. group' \in Groups
    <2>1. ended # {} => Last(rows, ended) \in Rows(rows)
      BY LastIsOne
    <2>2. ended # {} => AfterEnd(rows, Last(rows, ended), g) \in Groups
      BY <2>1, AfterEndType
    <2>3. QED
      BY <1>5, <1>8, <2>2
  <1>10. /\ subs' \in [Ids -> Row]
         /\ \A u \in Ids : u \notin Due(subs, now) => subs'[u] = subs[u]
         /\ \A u \in Due(subs, now) : /\ u \in Rows(subs) /\ subs'[u].status = "expired"
                                      /\ subs'[u].plan = subs[u].plan
    BY <1>5, <1>8, ExpiredRows
  <1>11. \A u \in Rows(subs)' : u \in Rows(subs) /\ subs'[u].plan = subs[u].plan
    BY <1>10 DEF Rows
  <1>12. Bought'
    BY <1>2, <1>11, FewerBought
  <1>13. ASSUME Serial, NEW u \in Upgraded(subs', clock)
         PROVE  group' # Base
    <2>1. u \in Ids /\ u \in Rows(subs') /\ subs'[u].status = "active" /\ subs'[u].end > clock
      BY DEF Upgraded, With, Rows
    <2>2. u \notin Due(subs, now)
      BY <1>10, <2>1
    <2>3. subs'[u] = subs[u]
      BY <1>10, <2>1, <2>2
    <2>4. u \in Upgraded(subs, clock)
      BY <2>1, <2>3 DEF Upgraded, With, Upgrading, Upgrade, Rows
    <2>5. subs'[u].end \in Nat
      BY <1>10, <2>1, RowsOf, RowType
    <2>6. u \in Upgraded(subs', now)
      BY <1>3, <1>5, <2>1, <2>5 DEF Upgraded
    <2>7. rows = subs'
      BY <1>2, <1>4, <1>6, <1>8, <1>13, ReadAll
    <2>8. group' = group
      BY <1>8, <2>6, <2>7
    <2>9. QED
      BY <1>13, <2>4, <2>8 DEF LifeInv, UpgradeKept
  <1>14. Serial => UpgradeKept'
    BY <1>2, <1>13 DEF UpgradeKept
  <1>15. QED
    BY <1>2, <1>9, <1>10, <1>12, <1>14, WriteKeeps

-----------------------------------------------------------------------------
(* The invariant *)

LEMMA LifeInit == Init => LifeInv
  <1> SUFFICES ASSUME Init PROVE LifeInv
    OBVIOUS
  <1>1. TypeOK
    <2>1. group \in Groups /\ clock \in 0..MaxTime /\ faults \in 0..MaxFaults
      BY BoundAssumption DEF Init, Groups
    <2>2. /\ subs \in [Ids -> Sub \union {Gone, Deleted}]
          /\ job \in [Process -> Job \union {NoJob}] /\ tx \in [Process -> Tx \union {NoTx}]
      BY DEF Init
    <2>3. QED
      BY <2>1, <2>2 DEF TypeOK
  <1>2. Times /\ Jobs /\ Reads
    BY DEF Init, Times, Jobs, Reads, NoTx, NoJob
  <1>3. Rows(subs) = {}
    BY DEF Init, Rows, Gone
  <1>4. Bought
    <2>1. \A plan \in Plans : OfPlan(subs, plan) = {} /\ Buying(plan) = {}
      BY <1>3 DEF OfPlan, Buying, Init, NoTx, Process
    <2>2. Cardinality({}) = 0
      BY FS_EmptySet
    <2>3. \A plan \in Plans : Cardinality(OfPlan(subs, plan)) = 0 /\ Cardinality(Buying(plan)) = 0
      BY <2>1, <2>2, Zenon
    <2>4. Concurrent \in Nat
      BY RequestsFinite DEF Concurrent
    <2>5. QED
      BY <2>3, <2>4, PlanAssumption DEF Bought
  <1>5. UpgradeKept
    BY <1>3 DEF UpgradeKept, Upgraded, With
  <1>6. QED
    BY <1>1, <1>2, <1>4, <1>5 DEF LifeInv

LEMMA LifeNext == LifeInv /\ [Next]_vars => LifeInv'
  <1> SUFFICES ASSUME LifeInv, [Next]_vars PROVE LifeInv'
    OBVIOUS
  <1>1. CASE Tick \/ Rest \/ UNCHANGED vars
    BY <1>1, TickKeeps, StutterKeeps, Zenon DEF Rest
  <1>2. ASSUME NEW p \in Process, Step(p) \/ Fail(p)
        PROVE  LifeInv'
    BY <1>2, BeginKeeps, CommitCreateKeeps, CommitEndKeeps, CommitExpireKeeps, FailKeeps, Zenon
       DEF Step
  <1>3. ASSUME NEW r \in Requests, NEW plan \in Plans, AskCreate(r, plan)
        PROVE  LifeInv'
    BY <1>3, AskCreateKeeps, Zenon
  <1>4. ASSUME NEW r \in Requests, NEW s \in Ids, NEW what \in {"cancel", "delete"},
               AskEnd(r, what, s)
        PROVE  LifeInv'
    BY <1>4, AskEndKeeps, Zenon
  <1>5. ASSUME NEW k \in Keepers, ListDue(k) \/ EndRound(k)
        PROVE  LifeInv'
    BY <1>5, ListDueKeeps, EndRoundKeeps, Zenon
  <1>6. QED
    BY <1>1, <1>2, <1>3, <1>4, <1>5, Zenon DEF Next

\* The rows, jobs and open transactions fit together in every reachable state.
THEOREM LifeInvariant == Spec => []LifeInv
  BY LifeInit, LifeNext, PTL DEF Spec

\* Every variable holds what its Go or database type allows, whether transactions
\* wait for each other or not.
THEOREM LifeTypes == Spec => []TypeOK
  <1>1. LifeInv => TypeOK
    BY Zenon DEF LifeInv
  <1>2. QED
    BY <1>1, LifeInvariant, PTL

\* However the database interleaves the transactions, a purchase limit is overrun
\* at most by the number of purchases at work at once, less one: not at all where
\* transactions of a user wait for each other.
THEOREM PurchasesAreBounded == Spec => []PurchasesBounded
  <1>1. LifeInv => PurchasesBounded
    <2> SUFFICES ASSUME Bought, NEW plan \in Plans, MaxPurchase[plan] > 0
                 PROVE  Cardinality(OfPlan(subs, plan)) <= MaxPurchase[plan] + Concurrent - 1
      BY DEF LifeInv, PurchasesBounded, OfPlan
    <2>1. Buying(plan) \in SUBSET Requests
      BY DEF Buying
    <2>2. /\ Cardinality(OfPlan(subs, plan)) \in Nat /\ Cardinality(Buying(plan)) \in Nat
          /\ MaxPurchase[plan] \in Nat /\ Concurrent \in Nat
      BY <2>1, OfPlanFinite, RequestsFinite, PlanAssumption DEF Concurrent
    <2>3. QED
      BY <2>2 DEF Bought
  <1>2. QED
    BY <1>1, LifeInvariant, PTL

\* Where transactions of a user wait for each other, he is never in his old group while a subscription
\* runs that upgrades him.
THEOREM UpgradeIsKept == Serial => (Spec => []UpgradeKept)
  <1> SUFFICES ASSUME Serial PROVE Spec => []UpgradeKept
    OBVIOUS
  <1>1. LifeInv => UpgradeKept
    BY Zenon DEF LifeInv
  <1>2. QED
    BY <1>1, LifeInvariant, PTL
=============================================================================
