--------------------------- MODULE PaymentProofs ---------------------------
(***************************************************************************)
(* First the lock of OrderLock, which excludes for any number of           *)
(* goroutines, trade numbers and mutex objects; then the handlers of       *)
(* PaymentOrders, which take and leave it as OrderLock says, so its        *)
(* exclusion is theirs.  From it follows that an order is credited at most *)
(* once, although no transaction locks the row it completes.               *)
(***************************************************************************)
EXTENDS PaymentOrders, FiniteSetTheorems, TLAPS

-----------------------------------------------------------------------------
(* The lock: a goroutine that has been counted finds its own mutex in the  *)
(* map, and the count of a mutex in the map is the number of goroutines    *)
(* that use it; so whoever takes the count from 1 to 0 is its last user.   *)

Counted  == {"wait", "locked", "unlock", "leave", "drop"}
Creating == {"load", "count", "drop"}

Users(i) == {p \in Procs : pc[p] \in Counted /\ rcm[p] = i}

\* createLock is held exactly in the three places that follow an Enter.
CreateInv ==
    /\ \A p \in Procs : pc[p] \in Creating => createLock = p
    /\ createLock # None => pc[createLock] \in Creating

\* Whoever has a mutex has the one the map knows for its trade.
MapInv ==
    /\ \A p \in Procs : pc[p] \in Counted \union {"count"}
                           => rcm[p] \in Ids /\ orderLocks[trade[p]] = rcm[p]
    /\ \A p \in Procs : pc[p] \in {"idle", "create", "load"} => rcm[p] = None
    /\ \A t, u \in Trades : orderLocks[t] = orderLocks[u] /\ orderLocks[t] # None => t = u

\* A mutex in the map is counted right, and somebody uses it.
RefInv ==
    \A t \in Trades, i \in Ids : orderLocks[t] = i =>
        /\ refCount[i] = Cardinality(Users(i))
        /\ \E p \in Procs : pc[p] \in Counted \union {"count"} /\ trade[p] = t

HeldInv == \A p \in Procs : InLock(p) => mu[rcm[p]] = p

Inv == TypeOK /\ CreateInv /\ MapInv /\ RefInv /\ HeldInv

-----------------------------------------------------------------------------
LEMMA UsersFinite == ASSUME NEW i PROVE IsFiniteSet(Users(i))
  BY ProcsAssumption, FS_Subset DEF Users

LEMMA InitInv == Init => Inv
  BY NoneAssumption DEF Init, Inv, TypeOK, CreateInv, MapInv, RefInv, HeldInv, Labels,
     Counted, Creating, InLock

-----------------------------------------------------------------------------
LEMMA CallStep ==
  ASSUME Inv, NEW p \in Procs, NEW t \in Trades, Call(p, t)
  PROVE  Inv'
  <1> USE DEF Call, Goto
  <1>1. TypeOK'
    BY DEF Inv, TypeOK, Labels
  <1>2. CreateInv' /\ MapInv' /\ HeldInv'
    BY DEF Inv, TypeOK, CreateInv, MapInv, HeldInv, Counted, Creating, InLock
  <1>3. \A i : Users(i)' = Users(i)
    BY DEF Inv, TypeOK, Users, Counted
  <1>4. RefInv'
    BY <1>3 DEF Inv, TypeOK, RefInv, Counted
  <1> QED BY <1>1, <1>2, <1>4 DEF Inv

LEMMA EnterCreateStep ==
  ASSUME Inv, NEW p \in Procs, EnterCreate(p)
  PROVE  Inv'
  <1> USE DEF EnterCreate, Goto
  <1>1. TypeOK'
    BY DEF Inv, TypeOK, Labels
  <1>2. CreateInv' /\ MapInv' /\ HeldInv'
    BY NoneAssumption DEF Inv, TypeOK, CreateInv, MapInv, HeldInv, Counted, Creating, InLock
  <1>3. \A i : Users(i)' = Users(i)
    BY DEF Inv, TypeOK, Users, Counted
  <1>4. RefInv'
    BY <1>3 DEF Inv, TypeOK, RefInv, Counted
  <1> QED BY <1>1, <1>2, <1>4 DEF Inv

LEMMA FindStep ==
  ASSUME Inv, NEW p \in Procs, Find(p)
  PROVE  Inv'
  <1> USE DEF Find, Goto
  <1>1. TypeOK'
    BY DEF Inv, TypeOK, Labels
  <1>2. CreateInv' /\ MapInv' /\ HeldInv'
    BY NoneAssumption DEF Inv, TypeOK, CreateInv, MapInv, HeldInv, Counted, Creating, InLock
  <1>3. \A i : Users(i)' = Users(i)
    BY DEF Inv, TypeOK, Users, Counted
  <1>4. RefInv'
    BY <1>3 DEF Inv, TypeOK, RefInv, Counted
  <1> QED BY <1>1, <1>2, <1>4 DEF Inv

LEMMA StoreStep ==
  ASSUME Inv, NEW p \in Procs, NEW i \in Ids, Store(p, i)
  PROVE  Inv'
  <1> USE DEF Store, Goto
  <1>1. TypeOK'
    BY DEF Inv, TypeOK, Labels
  <1>2. CreateInv' /\ HeldInv'
    BY NoneAssumption DEF Inv, TypeOK, CreateInv, HeldInv, Creating, InLock, Fresh, MapInv, Counted
  <1>3. MapInv'
    <2>1. ASSUME NEW q \in Procs, pc'[q] \in Counted \union {"count"}
          PROVE  rcm'[q] \in Ids /\ orderLocks'[trade'[q]] = rcm'[q]
      <3>1. CASE q = p
        BY <3>1 DEF Inv, TypeOK
      <3>2. CASE q # p
        BY <2>1, <3>2, NoneAssumption DEF Inv, TypeOK, MapInv, Counted
      <3> QED BY <3>1, <3>2
    <2>2. \A q \in Procs : pc'[q] \in {"idle", "create", "load"} => rcm'[q] = None
      BY DEF Inv, TypeOK, MapInv
    <2>3. \A t, u \in Trades : orderLocks'[t] = orderLocks'[u] /\ orderLocks'[t] # None => t = u
      BY DEF Inv, TypeOK, MapInv, Fresh
    <2> QED BY <2>1, <2>2, <2>3 DEF MapInv
  <1>4. \A j : Users(j)' = Users(j)
    BY DEF Inv, TypeOK, Users, Counted
  <1>5. Users(i) = {}
    BY DEF Users, Fresh
  <1>6. RefInv'
    <2> SUFFICES ASSUME NEW t \in Trades, NEW j \in Ids, orderLocks'[t] = j
                 PROVE  /\ refCount'[j] = Cardinality(Users(j)')
                        /\ \E q \in Procs : pc'[q] \in Counted \union {"count"} /\ trade'[q] = t
      BY DEF RefInv
    <2>1. CASE t = trade[p]
      BY <2>1, <1>4, <1>5, FS_EmptySet DEF Inv, TypeOK
    <2>2. CASE t # trade[p]
      <3>1. orderLocks[t] = j /\ refCount'[j] = refCount[j]
        BY <2>2 DEF Inv, TypeOK, Fresh
      <3>2. \E q \in Procs : pc'[q] \in Counted \union {"count"} /\ trade'[q] = t
        BY <2>2, <3>1 DEF Inv, TypeOK, RefInv, Counted
      <3> QED BY <3>1, <3>2, <1>4 DEF Inv, RefInv
    <2> QED BY <2>1, <2>2
  <1> QED BY <1>1, <1>2, <1>3, <1>6 DEF Inv

LEMMA CountStep ==
  ASSUME Inv, NEW p \in Procs, Count(p)
  PROVE  Inv'
  <1> USE DEF Count, Goto
  <1>1. PICK i \in Ids : i = rcm[p] /\ orderLocks[trade[p]] = i
    BY DEF Inv, MapInv
  <1>2. TypeOK'
    BY <1>1 DEF Inv, TypeOK, Labels
  <1>3. CreateInv' /\ MapInv' /\ HeldInv'
    BY NoneAssumption DEF Inv, TypeOK, CreateInv, MapInv, HeldInv, Counted, Creating, InLock
  <1>4. Users(i)' = Users(i) \union {p} /\ p \notin Users(i)
    BY <1>1 DEF Inv, TypeOK, Users, Counted
  <1>5. \A j : j # i => Users(j)' = Users(j)
    BY <1>1 DEF Inv, TypeOK, Users, Counted
  <1>6. Cardinality(Users(i)') = Cardinality(Users(i)) + 1
    BY <1>4, UsersFinite, FS_AddElement
  <1>7. RefInv'
    <2> SUFFICES ASSUME NEW t \in Trades, NEW j \in Ids, orderLocks[t] = j
                 PROVE  /\ refCount'[j] = Cardinality(Users(j)')
                        /\ \E q \in Procs : pc'[q] \in Counted \union {"count"} /\ trade[q] = t
      BY DEF RefInv
    <2>1. \E q \in Procs : pc'[q] \in Counted \union {"count"} /\ trade[q] = t
      BY DEF Inv, TypeOK, RefInv, Counted
    <2>2. CASE j = i
      BY <2>1, <2>2, <1>1, <1>6 DEF Inv, TypeOK, RefInv
    <2>3. CASE j # i
      BY <2>1, <2>3, <1>1, <1>5 DEF Inv, TypeOK, RefInv
    <2> QED BY <2>2, <2>3
  <1> QED BY <1>2, <1>3, <1>7 DEF Inv

LEMMA AcquireStep ==
  ASSUME Inv, NEW p \in Procs, Acquire(p)
  PROVE  Inv'
  <1> USE DEF Acquire, Goto
  <1>1. TypeOK'
    BY DEF Inv, TypeOK, Labels
  <1>2. CreateInv' /\ MapInv'
    BY NoneAssumption DEF Inv, TypeOK, CreateInv, MapInv, Counted, Creating
  <1>3. HeldInv'
    BY NoneAssumption DEF Inv, TypeOK, MapInv, HeldInv, Counted, InLock
  <1>4. \A i : Users(i)' = Users(i)
    BY DEF Inv, TypeOK, Users, Counted
  <1>5. RefInv'
    BY <1>4 DEF Inv, TypeOK, RefInv, Counted
  <1> QED BY <1>1, <1>2, <1>3, <1>5 DEF Inv

LEMMA LoadAgainStep ==
  ASSUME Inv, NEW p \in Procs, LoadAgain(p)
  PROVE  Inv'
  <1> USE DEF LoadAgain, Goto
  <1>1. rcm[p] \in Ids /\ orderLocks[trade[p]] = rcm[p] /\ rcm' = rcm
    BY DEF Inv, TypeOK, MapInv, Counted
  <1>2. pc' = [pc EXCEPT ![p] = "unlock"]
    BY <1>1, NoneAssumption
  <1>3. TypeOK'
    BY <1>1, <1>2 DEF Inv, TypeOK, Labels
  <1>4. CreateInv' /\ MapInv' /\ HeldInv'
    BY <1>1, <1>2, NoneAssumption DEF Inv, TypeOK, CreateInv, MapInv, HeldInv, Counted, Creating, InLock
  <1>5. \A i : Users(i)' = Users(i)
    BY <1>1, <1>2 DEF Inv, TypeOK, Users, Counted
  <1>6. RefInv'
    BY <1>2, <1>5 DEF Inv, TypeOK, RefInv, Counted
  <1> QED BY <1>3, <1>4, <1>6 DEF Inv

LEMMA UnlockStep ==
  ASSUME Inv, NEW p \in Procs, Unlock(p)
  PROVE  Inv'
  <1> USE DEF Unlock, Goto
  <1>1. TypeOK'
    BY DEF Inv, TypeOK, Labels
  <1>2. CreateInv' /\ MapInv'
    BY NoneAssumption DEF Inv, TypeOK, CreateInv, MapInv, Counted, Creating
  <1>3. HeldInv'
    BY DEF Inv, TypeOK, MapInv, HeldInv, Counted, InLock
  <1>4. \A i : Users(i)' = Users(i)
    BY DEF Inv, TypeOK, Users, Counted
  <1>5. RefInv'
    BY <1>4 DEF Inv, TypeOK, RefInv, Counted
  <1> QED BY <1>1, <1>2, <1>3, <1>5 DEF Inv

LEMMA EnterLeaveStep ==
  ASSUME Inv, NEW p \in Procs, EnterLeave(p)
  PROVE  Inv'
  <1> USE DEF EnterLeave, Goto
  <1>1. TypeOK'
    BY DEF Inv, TypeOK, Labels
  <1>2. CreateInv' /\ MapInv' /\ HeldInv'
    BY NoneAssumption DEF Inv, TypeOK, CreateInv, MapInv, HeldInv, Counted, Creating, InLock
  <1>3. \A i : Users(i)' = Users(i)
    BY DEF Inv, TypeOK, Users, Counted
  <1>4. RefInv'
    BY <1>3 DEF Inv, TypeOK, RefInv, Counted
  <1> QED BY <1>1, <1>2, <1>4 DEF Inv

-----------------------------------------------------------------------------
\* The only step that takes a mutex out of the map; it does so for the last user.
LEMMA DropStep ==
  ASSUME Inv, NEW p \in Procs, Drop(p)
  PROVE  Inv'
  <1> USE DEF Drop, Goto
  <1>1. PICK i \in Ids, t \in Trades : i = rcm[p] /\ t = trade[p] /\ orderLocks[t] = i
    BY DEF Inv, TypeOK, MapInv, Counted
  <1>2. p \in Users(i)
    BY <1>1 DEF Users, Counted
  <1>3. Cardinality(Users(i)) \in Nat /\ refCount[i] = Cardinality(Users(i))
    BY <1>1, UsersFinite, FS_CardinalityType DEF Inv, RefInv
  <1>4. /\ Cardinality(Users(i) \ {p}) = Cardinality(Users(i)) - 1
        /\ Cardinality(Users(i) \ {p}) \in Nat
    BY <1>2, UsersFinite, FS_RemoveElement, FS_CardinalityType
  <1>5. Users(i)' = Users(i) \ {p}
    BY <1>1 DEF Inv, TypeOK, Users, Counted
  <1>6. \A j \in Ids : j # i => Users(j)' = Users(j)
    BY <1>1, NoneAssumption DEF Inv, TypeOK, Users, Counted
  <1>7. TypeOK'
    BY <1>1, <1>3, <1>4 DEF Inv, TypeOK, Labels
  <1>8. \A q \in Procs : pc[q] \in Creating => q = p
    BY NoneAssumption DEF Inv, CreateInv, Creating
  <1>9. CreateInv'
    BY <1>8, NoneAssumption DEF Inv, TypeOK, CreateInv, Creating
  <1>10. ASSUME NEW q \in Procs, q # p, pc[q] \in Counted \union {"count"}, trade[q] = t
         PROVE  q \in Users(i) \ {p} /\ refCount[i] # 1
    <2>1. q \in Users(i) \ {p}
      BY <1>8, <1>10, <1>1 DEF Inv, MapInv, Users, Counted, Creating
    <2>2. Users(i) \ {p} # {} /\ IsFiniteSet(Users(i) \ {p})
      BY <2>1, UsersFinite, FS_RemoveElement
    <2>3. Cardinality(Users(i) \ {p}) # 0
      BY <2>2, FS_EmptySet
    <2> QED BY <2>1, <2>3, <1>3, <1>4
  <1>11. MapInv'
    <2>1. ASSUME NEW q \in Procs, pc'[q] \in Counted \union {"count"}
          PROVE  rcm'[q] \in Ids /\ orderLocks'[trade'[q]] = rcm'[q]
      <3>1. q # p /\ pc[q] \in Counted \union {"count"} /\ rcm'[q] = rcm[q]
        BY <2>1 DEF Inv, TypeOK, Counted
      <3>2. rcm[q] \in Ids /\ orderLocks[trade[q]] = rcm[q]
        BY <3>1 DEF Inv, MapInv
      <3>3. CASE trade[q] = t
        BY <1>1, <3>1, <3>2, <3>3, <1>10
      <3>4. CASE trade[q] # t
        BY <1>1, <3>1, <3>2, <3>4 DEF Inv, TypeOK
      <3> QED BY <3>3, <3>4
    <2>2. \A q \in Procs : pc'[q] \in {"idle", "create", "load"} => rcm'[q] = None
      BY DEF Inv, TypeOK, MapInv
    <2>3. \A v, u \in Trades : orderLocks'[v] = orderLocks'[u] /\ orderLocks'[v] # None => v = u
      BY DEF Inv, TypeOK, MapInv
    <2> QED BY <2>1, <2>2, <2>3 DEF MapInv
  <1>12. HeldInv'
    BY DEF Inv, TypeOK, HeldInv, InLock
  <1>13. RefInv'
    <2> SUFFICES ASSUME NEW u \in Trades, NEW j \in Ids, orderLocks'[u] = j
                 PROVE  /\ refCount'[j] = Cardinality(Users(j)')
                        /\ \E q \in Procs : pc'[q] \in Counted \union {"count"} /\ trade'[q] = u
      BY DEF RefInv
    <2>1. CASE u = t
      <3>1. orderLocks' = orderLocks /\ refCount[i] # 1 /\ j = i
        BY <2>1, <1>1, NoneAssumption DEF Inv, TypeOK
      <3>2. refCount'[i] = Cardinality(Users(i)')
        BY <1>1, <1>3, <1>4, <1>5 DEF Inv, TypeOK
      <3>3. Cardinality(Users(i) \ {p}) # 0
        BY <3>1, <1>3, <1>4
      <3>4. Users(i) \ {p} # {}
        BY <3>3, FS_EmptySet
      <3>5. PICK q \in Users(i) : q # p
        BY <3>4
      <3>6. q \in Procs /\ pc'[q] \in Counted
        BY <3>5 DEF Inv, TypeOK, Users
      <3>7. orderLocks[trade[q]] = i /\ trade[q] \in Trades
        BY <3>5 DEF Inv, TypeOK, MapInv, Users
      <3>8. trade[q] = t
        BY <3>7, <1>1, NoneAssumption DEF Inv, MapInv
      <3> QED BY <2>1, <3>1, <3>2, <3>6, <3>8
    <2>2. CASE u # t
      <3>1. orderLocks[u] = j /\ j # i
        BY <2>2, <1>1, NoneAssumption DEF Inv, TypeOK, MapInv
      <3>2. \E q \in Procs : pc'[q] \in Counted \union {"count"} /\ trade'[q] = u
        BY <2>2, <1>1, <3>1 DEF Inv, TypeOK, RefInv, Counted
      <3>3. refCount'[j] = refCount[j] /\ Users(j)' = Users(j)
        BY <3>1, <1>1, <1>6 DEF Inv, TypeOK
      <3> QED BY <3>1, <3>2, <3>3 DEF Inv, RefInv
    <2> QED BY <2>1, <2>2
  <1> QED BY <1>7, <1>9, <1>11, <1>12, <1>13 DEF Inv

-----------------------------------------------------------------------------
LEMMA NextInv == Inv /\ [Next]_vars => Inv'
  <1> SUFFICES ASSUME Inv, [Next]_vars PROVE Inv'
    OBVIOUS
  <1>1. CASE UNCHANGED vars
    <2>1. \A i : Users(i)' = Users(i)
      BY <1>1 DEF Users, vars
    <2>2. TypeOK' /\ CreateInv' /\ MapInv' /\ HeldInv'
      BY <1>1 DEF Inv, TypeOK, CreateInv, MapInv, HeldInv, InLock, vars
    <2>3. RefInv'
      BY <1>1, <2>1 DEF Inv, RefInv, vars
    <2> QED BY <2>2, <2>3 DEF Inv
  <1>2. ASSUME NEW p \in Procs, NEW t \in Trades, Call(p, t) PROVE Inv'
    BY <1>2, CallStep
  <1>3. ASSUME NEW p \in Procs, Step(p) PROVE Inv'
    BY <1>3, EnterCreateStep, FindStep, StoreStep, CountStep, AcquireStep, LoadAgainStep,
       UnlockStep, EnterLeaveStep, DropStep DEF Step
  <1> QED BY <1>1, <1>2, <1>3 DEF Next

\* The inductive invariant holds of every behaviour of LockOrder / UnlockOrder.
THEOREM Invariant == Spec => []Inv
  BY InitInv, NextInv, PTL DEF Spec

\* Types, for any number of goroutines, trades and mutex objects.
THEOREM Typing == Spec => []TypeOK
  BY Invariant, PTL DEF Inv

\* Two goroutines are never between LockOrder and UnlockOrder of one trade.
THEOREM Exclusion == Spec => []MutualExclusion
  <1>1. Inv => MutualExclusion
    BY DEF Inv, MapInv, HeldInv, MutualExclusion, InLock, Counted
  <1> QED BY <1>1, Invariant, PTL

\* UnlockOrder never misses its mutex and never unlocks somebody else's.
THEOREM OwnUnlock == Spec => []UnlocksItsOwn
  <1>1. Inv => UnlocksItsOwn
    BY NoneAssumption DEF Inv, TypeOK, MapInv, HeldInv, UnlocksItsOwn, InLock, Counted
  <1> QED BY <1>1, Invariant, PTL

\* When nobody is inside, the map is empty.
THEOREM EmptyMap == Spec => []NoLeak
  <1>1. ASSUME Inv, NEW t \in Trades, orderLocks[t] # None
        PROVE  \E p \in Procs : pc[p] \in Counted \union {"count"}
    <2>1. orderLocks[t] \in Ids
      BY <1>1 DEF Inv, TypeOK
    <2> QED BY <1>1, <2>1 DEF Inv, RefInv
  <1>2. Inv => NoLeak
    BY <1>1 DEF NoLeak, Counted
  <1> QED BY <1>2, Invariant, PTL

\* All three: what the handlers of payments rely on.
THEOREM LockKeeps == Spec => []LockKept
  BY Exclusion, OwnUnlock, EmptyMap, PTL DEF LockKept

-----------------------------------------------------------------------------
(* The handlers *)

all == <<vars, pvars>>

Locking(w) == w.what \in {"paid", "expired", "manual"}
Writing(w) == Locking(w) /\ w.step \in {"write", "credit"}

\* A handler works on the trade it called LockOrder with, and writes inside it.
WorkInv == \A p \in Procs :
    /\ Locking(work[p]) => work[p].trade = trade[p] /\ trade[p] \in Trades
    /\ Writing(work[p]) => pc[p] = "locked"
    /\ work[p].what = "none" => work[p].step = "none"
    /\ work[p].what = "failed" => work[p].step = "write" /\ pc[p] = "idle"
    /\ work[p].step = "credit" => work[p].what = "paid" /\ TwoStatements(work[p])

\* What is still to be credited has not been credited.
CreditInv ==
    /\ \A t \in Trades : credit[t] \in {0, 1}
    /\ \A t \in Trades : order[t] \in {"none", "pending"} => credit[t] = 0
    /\ \A p \in Procs : Writing(work[p]) /\ work[p].what # "expired" => credit[trade[p]] = 0
    /\ \A p \in Procs : work[p].step = "credit" => order[trade[p]] \notin {"none", "pending"}

PayInv == PayTypeOK /\ WorkInv /\ CreditInv

-----------------------------------------------------------------------------
LEMMA PayInitInv == PayInit => PayInv
  BY KindsAssumption, FaultsAssumption
     DEF PayInit, PayInv, AllKinds, PayTypeOK, WorkInv, CreditInv, NoWork, Work, Statuses, Locking, Writing

LEMMA LockDiscipline == [PayNext]_all => [Next]_vars
  <1> SUFFICES ASSUME PayNext PROVE [Next]_vars
    BY DEF all
  <1>1. ASSUME NEW p \in Procs, LockStep(p) PROVE Next
    BY <1>1 DEF LockStep, Next, Step
  <1>2. ASSUME NEW p \in Procs, Finish(p) PROVE Next
    BY <1>2 DEF Finish, Next, Step
  <1>3. ASSUME NEW p \in Procs, NEW t \in Trades,
               Notified(p, t) \/ SessionExpired(p, t) \/ AdminComplete(p, t)
        PROVE  Next
    BY <1>3 DEF Notified, SessionExpired, AdminComplete, Next
  <1>4. ASSUME NEW t \in Trades,
               Place(t) \/ Linked(t) \/ Refused(t) \/ \E result \in {"paid", "expired", "failed"} : Pay(t, result)
        PROVE  UNCHANGED vars
    BY <1>4 DEF Place, Linked, Refused, Pay
  <1>5. ASSUME NEW p \in Procs,
               \/ Read(p) \/ SaveStatus(p) \/ AddQuota(p) \/ Commit(p) \/ SaveExpired(p)
               \/ Fault(p) \/ OverLimit(p) \/ SaveFailed(p)
               \/ \E t \in Trades : ReadFailed(p, t)
        PROVE  UNCHANGED vars
    BY <1>5 DEF Read, SaveStatus, AddQuota, Commit, SaveExpired, Fault, OverLimit, SaveFailed, ReadFailed
  <1> QED BY <1>1, <1>2, <1>3, <1>4, <1>5 DEF PayNext, Handle

\* Whatever the payment handlers do, they take and leave the lock of an order as
\* LockOrder and UnlockOrder are modelled.
THEOREM UsesTheLock == PaySpec => Spec
  <1>1. PayInit => Init
    BY DEF PayInit
  <1> QED BY <1>1, LockDiscipline, PTL DEF PaySpec, Spec, all

-----------------------------------------------------------------------------
LEMMA LockStepKeeps ==
  ASSUME PayInv, TypeOK, NEW p \in Procs, LockStep(p)
  PROVE  PayInv'
  <1>1. PayTypeOK'
    BY DEF LockStep, pvars, PayInv, PayTypeOK
  <1>2. /\ trade' = trade /\ work' = work /\ kind' = kind /\ order' = order /\ credit' = credit
        /\ \A q \in Procs : pc[q] \in {"idle", "locked"} => pc'[q] = pc[q]
    <2>1. pc[p] \notin {"idle", "locked"}
      BY DEF LockStep, EnterCreate, Find, Store, Count, Acquire, Unlock, EnterLeave, Drop
    <2> QED BY <2>1 DEF TypeOK, LockStep, EnterCreate, Find, Store, Count, Acquire, Unlock, EnterLeave,
               Drop, Goto, pvars
  <1>3. WorkInv' /\ CreditInv'
    BY <1>2 DEF PayInv, WorkInv, CreditInv, TwoStatements, Writing, Locking
  <1> QED BY <1>1, <1>3 DEF PayInv

\* A goroutine that calls LockOrder has written nothing yet.
LEMMA StartKeeps ==
  ASSUME PayInv, TypeOK, NEW p \in Procs, NEW t \in Trades,
         Notified(p, t) \/ SessionExpired(p, t) \/ AdminComplete(p, t)
  PROVE  PayInv'
  <1>1. PICK what \in {"paid", "expired", "manual"} : Start(p, t, what)
    BY DEF Notified, SessionExpired, AdminComplete
  <1>2. /\ kind' = kind /\ order' = order /\ credit' = credit /\ gateway' = gateway
        /\ faults' = faults /\ lost' = lost
        /\ acked' \in [Trades -> BOOLEAN]
    <2>1. CASE Notified(p, t)
      <3>1. (acked[t] \/ (kind[t].via = "epay" /\ ~kind[t].plan)) \in BOOLEAN
        OBVIOUS
      <3>2. acked' \in [Trades -> BOOLEAN]
        BY <2>1, <3>1 DEF Notified, PayInv, PayTypeOK
      <3> QED BY <2>1, <3>2 DEF Notified
    <2>2. CASE SessionExpired(p, t) \/ AdminComplete(p, t)
      BY <2>2 DEF SessionExpired, AdminComplete, PayInv, PayTypeOK
    <2> QED BY <2>1, <2>2
  <1>3. /\ trade' = [trade EXCEPT ![p] = t]
        /\ pc' = [pc EXCEPT ![p] = "create"] /\ pc[p] = "idle"
    BY DEF Notified, SessionExpired, AdminComplete, Call, Goto
  <1>4. work' = [work EXCEPT ![p] = [what |-> what, step |-> "read", seen |-> "none", trade |-> t]]
    BY <1>1 DEF Start
  <1>5. PayTypeOK'
    BY <1>2, <1>4 DEF PayInv, PayTypeOK, Work, Statuses
  <1>6. WorkInv' /\ CreditInv'
    BY <1>2, <1>3, <1>4 DEF PayInv, PayTypeOK, TypeOK, WorkInv, CreditInv, TwoStatements, Writing, Locking
  <1> QED BY <1>5, <1>6 DEF PayInv

LEMMA PlaceKeeps ==
  ASSUME PayInv, TypeOK, NEW t \in Trades,
         \/ Place(t)
         \/ Linked(t)
         \/ Refused(t)
         \/ \E result \in {"paid", "expired", "failed"} : Pay(t, result)
  PROVE  PayInv'
  <1> USE DEF Place, Linked, Refused, Pay, vars
  <1>1. PayTypeOK'
    BY DEF PayInv, PayTypeOK, Statuses
  <1>2. WorkInv' /\ CreditInv'
    BY DEF PayInv, PayTypeOK, WorkInv, CreditInv, TwoStatements, Writing, Locking
  <1> QED BY <1>1, <1>2 DEF PayInv

-----------------------------------------------------------------------------
\* Inside the lock of a trade there is nobody else to write for it.
LEMMA Alone ==
  ASSUME PayInv, TypeOK, MutualExclusion, NEW p \in Procs, NEW q \in Procs, p # q,
         pc[p] = "locked", Writing(work[q])
  PROVE  trade[q] # trade[p]
  BY DEF PayInv, WorkInv, MutualExclusion, InLock, TypeOK

LEMMA ReadKeeps ==
  ASSUME PayInv, TypeOK, NEW p \in Procs, Read(p)
  PROVE  PayInv'
  <1> DEFINE w == [work[p] EXCEPT !.seen = order[trade[p]]]
             s == IF Writes(w) THEN "write" ELSE "done"
  <1>1. /\ pc[p] = "locked" /\ work[p].step = "read" /\ trade[p] \in Trades
        /\ work' = [work EXCEPT ![p] = [w EXCEPT !.step = s]]
        /\ acked' = [acked EXCEPT ![trade[p]] = @ \/ (~Writes(w) /\ AckedUnchanged(w))]
        /\ UNCHANGED <<vars, kind, order, credit, gateway, faults, lost>>
    BY DEF Read, AtWork, TypeOK
  <1>2. work[p] \in Work /\ order[trade[p]] \in Statuses
    BY <1>1 DEF PayInv, PayTypeOK
  <1>3. w \in Work /\ w.what = work[p].what /\ w.trade = work[p].trade /\ w.seen = order[trade[p]]
    BY <1>2 DEF Work
  <1>4. s \in {"write", "done"} /\ (s = "write" => Writes(w))
    OBVIOUS
  <1> HIDE DEF w, s
  <1>5. /\ [w EXCEPT !.step = s] \in Work
        /\ [w EXCEPT !.step = s].step = s
        /\ [w EXCEPT !.step = s].what = work[p].what
        /\ [w EXCEPT !.step = s].trade = work[p].trade
    BY <1>3, <1>4 DEF Work
  <1>6. work' \in [Procs -> Work]
    BY <1>1, <1>5 DEF PayInv, PayTypeOK
  <1>7. (acked[trade[p]] \/ (~Writes(w) /\ AckedUnchanged(w))) \in BOOLEAN
    OBVIOUS
  <1>8. acked' \in [Trades -> BOOLEAN]
    BY <1>1, <1>7 DEF PayInv, PayTypeOK
  <1>9. PayTypeOK'
    BY <1>1, <1>6, <1>8 DEF PayInv, PayTypeOK
  <1>10. work[p].what # "failed"
    BY <1>1 DEF PayInv, WorkInv
  <1>11. WorkInv'
    BY <1>1, <1>4, <1>5, <1>6, <1>10 DEF PayInv, PayTypeOK, WorkInv, TwoStatements, Writing, Locking, vars
  <1>12. s = "write" /\ work[p].what # "expired" => credit[trade[p]] = 0
    BY <1>1, <1>3, <1>4 DEF Writes, Completable, PayInv, CreditInv
  <1>13. CreditInv'
    BY <1>1, <1>4, <1>5, <1>12 DEF PayInv, PayTypeOK, CreditInv, Writing, Locking, vars
  <1> QED BY <1>9, <1>11, <1>13 DEF PayInv

LEMMA SaveStatusKeeps ==
  ASSUME PayInv, TypeOK, NEW p \in Procs, SaveStatus(p)
  PROVE  PayInv'
  <1>1. /\ pc[p] = "locked" /\ work[p].step = "write" /\ TwoStatements(work[p])
        /\ work' = [work EXCEPT ![p].step = "credit"]
        /\ order' = [order EXCEPT ![trade[p]] = "success"]
        /\ trade[p] \in Trades
        /\ UNCHANGED <<vars, kind, credit, gateway, acked, faults, lost>>
    BY DEF SaveStatus, AtWork, Go, TypeOK
  <1>2. PayTypeOK'
    BY <1>1 DEF PayInv, PayTypeOK, Work, Statuses
  <1>3. /\ work'[p].what = "paid" /\ work'[p].trade = work[p].trade
        /\ TwoStatements(work'[p])
    BY <1>1 DEF PayInv, PayTypeOK, Work, TwoStatements
  <1>4. WorkInv'
    BY <1>1, <1>3 DEF PayInv, PayTypeOK, WorkInv, TwoStatements, Writing, Locking, vars
  <1>5. credit[trade[p]] = 0
    BY <1>1 DEF PayInv, CreditInv, Writing, Locking, TwoStatements
  <1>6. CreditInv'
    BY <1>1, <1>3, <1>5 DEF PayInv, PayTypeOK, CreditInv, Writing, Locking, vars
  <1> QED BY <1>2, <1>4, <1>6 DEF PayInv

\* A goroutine that has done its part leaves work \in Work, without writing again.
LEMMA DoneWork ==
  ASSUME PayInv, TypeOK, NEW p \in Procs, Go(p, "done"), work[p].what # "failed",
         work[p].step # "none", trade' = trade, pc' = pc, kind' = kind
  PROVE  /\ work' \in [Procs -> Work]
         /\ WorkInv'
         /\ ~Writing(work'[p])
         /\ \A q \in Procs : q # p => work'[q] = work[q]
  <1>1. work' \in [Procs -> Work] /\ \A q \in Procs : q # p => work'[q] = work[q]
    BY DEF PayInv, PayTypeOK, Work, Go
  <1>2. work'[p].step = "done" /\ work'[p].what = work[p].what /\ work'[p].trade = work[p].trade
    BY DEF PayInv, PayTypeOK, Work, Go
  <1>3. WorkInv'
    BY <1>1, <1>2 DEF PayInv, WorkInv, TwoStatements, Writing, Locking
  <1> QED BY <1>1, <1>2, <1>3 DEF Writing

\* AddQuota and Commit: the only two steps that credit.
LEMMA CreditKeeps ==
  ASSUME PayInv, TypeOK, MutualExclusion, NEW p \in Procs, AddQuota(p) \/ Commit(p)
  PROVE  PayInv'
  <1>1. /\ pc[p] = "locked" /\ trade[p] \in Trades /\ Go(p, "done")
        /\ credit' = [credit EXCEPT ![trade[p]] = @ + 1]
        /\ order' = order \/ order' = [order EXCEPT ![trade[p]] = "success"]
        /\ UNCHANGED <<vars, kind, gateway, faults, lost>>
    BY DEF AddQuota, Commit, AtWork, TypeOK
  <1>2. Writing(work[p]) /\ work[p].what # "expired"
    <2>1. CASE AddQuota(p)
      BY <2>1 DEF AddQuota, AtWork, PayInv, WorkInv, Writing, Locking
    <2>2. CASE Commit(p)
      BY <2>2 DEF Commit, AtWork, PayInv, PayTypeOK, WorkInv, Work, Writing, Locking
    <2> QED BY <2>1, <2>2
  <1>3. credit[trade[p]] = 0 /\ credit' = [credit EXCEPT ![trade[p]] = 1]
    <2>1. credit[trade[p]] = 0
      BY <1>2 DEF PayInv, CreditInv
    <2> QED BY <1>1, <2>1
  <1>4. /\ WorkInv' /\ work' \in [Procs -> Work] /\ ~Writing(work'[p])
        /\ \A q \in Procs : q # p => work'[q] = work[q]
    <2>1. /\ trade' = trade /\ pc' = pc /\ kind' = kind
          /\ work[p].what # "failed" /\ work[p].step # "none"
      BY <1>1, <1>2 DEF vars, Writing, Locking
    <2> QED BY <1>1, <2>1, DoneWork
  <1>5. order'[trade[p]] \notin {"none", "pending"}
    <2>1. CASE AddQuota(p)
      BY <2>1 DEF AddQuota, AtWork, PayInv, CreditInv
    <2>2. CASE Commit(p)
      BY <2>2, <1>1 DEF Commit, PayInv, PayTypeOK
    <2> QED BY <2>1, <2>2
  <1>6. \A q \in Procs : q # p /\ Writing(work[q]) => trade[q] # trade[p]
    BY <1>1, Alone
  <1>7. acked' \in [Trades -> BOOLEAN]
    <2>1. CASE AddQuota(p)
      BY <2>1 DEF AddQuota, PayInv, PayTypeOK
    <2>2. CASE Commit(p)
      <3>1. (acked[trade[p]] \/ work[p].what = "paid") \in BOOLEAN
        OBVIOUS
      <3> QED BY <2>2, <3>1 DEF Commit, PayInv, PayTypeOK
    <2> QED BY <2>1, <2>2
  <1>8. PayTypeOK'
    <2>1. credit' \in [Trades -> Nat] /\ order' \in [Trades -> Statuses]
      BY <1>1, <1>3 DEF PayInv, PayTypeOK, Statuses
    <2> QED BY <1>1, <1>4, <1>7, <2>1 DEF PayInv, PayTypeOK
  <1>9. trade' = trade
    BY <1>1 DEF vars
  <1>10. CreditInv'
    <2>1. \A t \in Trades : credit'[t] \in {0, 1}
      BY <1>3 DEF PayInv, PayTypeOK, CreditInv
    <2>2. \A t \in Trades : order'[t] \in {"none", "pending"} => credit'[t] = 0
      BY <1>1, <1>3, <1>5 DEF PayInv, PayTypeOK, CreditInv
    <2>3. ASSUME NEW q \in Procs, Writing(work'[q]), work'[q].what # "expired"
          PROVE  credit'[trade'[q]] = 0
      <3>1. q # p /\ work'[q] = work[q]
        BY <2>3, <1>4
      <3>2. trade[q] # trade[p] /\ credit[trade[q]] = 0 /\ trade[q] \in Trades
        BY <2>3, <3>1, <1>6 DEF PayInv, CreditInv, TypeOK
      <3> QED BY <3>2, <1>3, <1>9 DEF PayInv, PayTypeOK
    <2>4. ASSUME NEW q \in Procs, work'[q].step = "credit"
          PROVE  order'[trade'[q]] \notin {"none", "pending"}
      <3>1. CASE q = p
        BY <3>1, <1>5, <1>9
      <3>2. CASE q # p
        BY <2>4, <3>2, <1>1, <1>4, <1>9 DEF PayInv, PayTypeOK, CreditInv, TypeOK
      <3> QED BY <3>1, <3>2
    <2> QED BY <2>1, <2>2, <2>3, <2>4 DEF CreditInv
  <1> QED BY <1>4, <1>8, <1>10 DEF PayInv

LEMMA SaveExpiredKeeps ==
  ASSUME PayInv, TypeOK, NEW p \in Procs, SaveExpired(p)
  PROVE  PayInv'
  <1>1. /\ trade[p] \in Trades /\ Go(p, "done")
        /\ work[p].what # "failed" /\ work[p].step # "none"
        /\ order' = [order EXCEPT ![trade[p]] = "expired"]
        /\ UNCHANGED <<vars, kind, credit, gateway, acked, faults, lost>>
    BY DEF SaveExpired, AtWork, TypeOK
  <1>2. trade' = trade /\ pc' = pc
    BY <1>1 DEF vars
  <1>3. /\ WorkInv' /\ work' \in [Procs -> Work] /\ ~Writing(work'[p]) /\ work'[p].step = "done"
        /\ \A q \in Procs : q # p => work'[q] = work[q]
    BY <1>1, <1>2, DoneWork DEF Go, PayInv, PayTypeOK, Work
  <1>4. PayTypeOK'
    BY <1>1, <1>3 DEF PayInv, PayTypeOK, Statuses
  <1>5. CreditInv'
    BY <1>1, <1>2, <1>3 DEF PayInv, PayTypeOK, CreditInv, TypeOK
  <1> QED BY <1>3, <1>4, <1>5 DEF PayInv

LEMMA CutKeeps ==
  ASSUME PayInv, TypeOK, NEW p \in Procs, Fault(p) \/ OverLimit(p)
  PROVE  PayInv'
  <1>1. /\ Go(p, "done") /\ work[p].what # "failed"
        /\ work[p].step \in {"read", "write", "credit"}
        /\ UNCHANGED <<vars, kind, order, credit, gateway>>
    BY DEF Fault, OverLimit, AtWork
  <1>2. trade' = trade /\ pc' = pc
    BY <1>1 DEF vars
  <1>3. /\ WorkInv' /\ work' \in [Procs -> Work] /\ ~Writing(work'[p]) /\ work'[p].step = "done"
        /\ \A q \in Procs : q # p => work'[q] = work[q]
    BY <1>1, <1>2, DoneWork DEF Go, PayInv, PayTypeOK, Work
  <1>4. faults' \in 0..MaxFaults /\ lost' \subseteq Trades /\ acked' \in [Trades -> BOOLEAN]
    <2>1. CASE Fault(p)
      <3>1. faults' \in 0..MaxFaults
        BY <2>1, FaultsAssumption DEF Fault, PayInv, PayTypeOK
      <3>2. CASE NeverRetried(work[p])
        <4>1. work[p].trade \in Trades
          BY <3>2 DEF NeverRetried, TwoStatements, PayInv, WorkInv, Locking
        <4> QED BY <2>1, <3>1, <3>2, <4>1 DEF Fault, PayInv, PayTypeOK
      <3>3. CASE ~NeverRetried(work[p])
        BY <2>1, <3>1, <3>3 DEF Fault, PayInv, PayTypeOK
      <3> QED BY <3>2, <3>3
    <2>2. CASE OverLimit(p)
      <3>1. (acked[trade[p]] \/ kind[trade[p]].via = "stripe") \in BOOLEAN
        OBVIOUS
      <3>2. acked' \in [Trades -> BOOLEAN]
        BY <2>2, <3>1 DEF OverLimit, PayInv, PayTypeOK
      <3> QED BY <2>2, <3>2 DEF OverLimit, PayInv, PayTypeOK, TypeOK
    <2> QED BY <2>1, <2>2
  <1>5. PayTypeOK'
    BY <1>1, <1>3, <1>4 DEF PayInv, PayTypeOK
  <1>6. CreditInv'
    BY <1>1, <1>2, <1>3 DEF PayInv, PayTypeOK, CreditInv, TypeOK
  <1> QED BY <1>3, <1>5, <1>6 DEF PayInv

LEMMA FinishKeeps ==
  ASSUME PayInv, TypeOK, NEW p \in Procs, Finish(p)
  PROVE  PayInv'
  <1>1. /\ work' = [work EXCEPT ![p] = NoWork]
        /\ UNCHANGED <<kind, order, credit, gateway, acked, faults, lost>>
        /\ trade' = trade
        /\ \A q \in Procs : q # p => pc'[q] = pc[q]
    BY DEF Finish, LoadAgain, Goto, TypeOK
  <1>2. PayTypeOK'
    BY <1>1 DEF PayInv, PayTypeOK, Work, NoWork, Statuses
  <1>3. WorkInv' /\ CreditInv'
    BY <1>1 DEF PayInv, PayTypeOK, WorkInv, CreditInv, NoWork, TwoStatements, Writing, Locking
  <1> QED BY <1>2, <1>3 DEF PayInv

\* Waffo's failure handler has no lock, but never credits.
LEMMA FailedKeeps ==
  ASSUME PayInv, TypeOK, NEW p \in Procs, SaveFailed(p) \/ \E t \in Trades : ReadFailed(p, t)
  PROVE  PayInv'
  <1>1. CASE SaveFailed(p)
    <2>1. /\ work' = [work EXCEPT ![p] = NoWork]
          /\ order' = [order EXCEPT ![work[p].trade] = "failed"]
          /\ UNCHANGED <<kind, credit, gateway, acked, faults, lost>>
          /\ trade' = trade /\ pc' = pc
      BY <1>1 DEF SaveFailed, vars
    <2>2. PayTypeOK'
      BY <2>1 DEF PayInv, PayTypeOK, Work, NoWork, Statuses
    <2>3. WorkInv'
      BY <2>1 DEF PayInv, PayTypeOK, WorkInv, NoWork, TwoStatements, Writing, Locking
    <2>4. CreditInv'
      BY <2>1 DEF PayInv, PayTypeOK, CreditInv, NoWork, Writing, Locking, TypeOK
    <2> QED BY <2>2, <2>3, <2>4 DEF PayInv
  <1>2. ASSUME NEW t \in Trades, ReadFailed(p, t) PROVE PayInv'
    <2>1. /\ work' = [work EXCEPT ![p] = [what |-> "failed", step |-> "write",
                                          seen |-> "pending", trade |-> t]]
          /\ UNCHANGED <<kind, order, credit, gateway, acked, faults, lost>>
          /\ trade' = trade /\ pc' = pc /\ pc[p] = "idle"
      BY <1>2 DEF ReadFailed, vars
    <2>2. PayTypeOK'
      BY <2>1 DEF PayInv, PayTypeOK, Work, Statuses
    <2>3. WorkInv' /\ CreditInv'
      BY <2>1 DEF PayInv, PayTypeOK, WorkInv, CreditInv, TwoStatements, Writing, Locking
    <2> QED BY <2>2, <2>3 DEF PayInv
  <1> QED BY <1>1, <1>2

-----------------------------------------------------------------------------
LEMMA PayNextInv == PayInv /\ TypeOK /\ MutualExclusion /\ [PayNext]_all => PayInv'
  <1> SUFFICES ASSUME PayInv, TypeOK, MutualExclusion, [PayNext]_all PROVE PayInv'
    OBVIOUS
  <1>1. CASE UNCHANGED all
    BY <1>1 DEF all, vars, pvars, PayInv, PayTypeOK, WorkInv, CreditInv, TwoStatements,
       Writing, Locking
  <1>2. ASSUME NEW t \in Trades,
               \/ Place(t)
               \/ Linked(t)
         \/ Refused(t)
               \/ \E result \in {"paid", "expired", "failed"} : Pay(t, result)
        PROVE  PayInv'
    BY <1>2, PlaceKeeps
  <1>3. ASSUME NEW p \in Procs, LockStep(p) PROVE PayInv'
    BY <1>3, LockStepKeeps
  <1>4. ASSUME NEW p \in Procs, Handle(p) PROVE PayInv'
    BY <1>4, ReadKeeps, SaveStatusKeeps, CreditKeeps, SaveExpiredKeeps, CutKeeps, FinishKeeps,
       FailedKeeps DEF Handle
  <1>5. ASSUME NEW p \in Procs, NEW t \in Trades,
               Notified(p, t) \/ SessionExpired(p, t) \/ AdminComplete(p, t) \/ ReadFailed(p, t)
        PROVE  PayInv'
    BY <1>5, StartKeeps, FailedKeeps
  <1> QED BY <1>1, <1>2, <1>3, <1>4, <1>5 DEF PayNext

\* The inductive invariant; it needs the mutual exclusion proved of the lock.
LEMMA PayInvariant == PaySpec => []PayInv
  <1>1. Spec => [](TypeOK /\ MutualExclusion)
    BY Typing, Exclusion, PTL
  <1> QED BY <1>1, UsesTheLock, PayInitInv, PayNextInv, PTL DEF PaySpec, all

\* Types of the payment handlers, for any number of goroutines and orders.
THEOREM PayTyping == PaySpec => []PayTypeOK
  BY PayInvariant, PTL DEF PayInv

\* Quota is added, or a subscription created, at most once per order.
THEOREM AtMostOneCredit == PaySpec => []CreditedOnce
  <1>1. PayInv => CreditedOnce
    BY DEF PayInv, CreditInv, CreditedOnce
  <1> QED BY <1>1, PayInvariant, PTL

-----------------------------------------------------------------------------
\* Somebody is between the two statements of EpayNotify for t.
Crediting(p, t) == AtWork(p, "credit") /\ trade[p] = t

LEMMA SuccessStep ==
  ASSUME PayInv, PayInv', TypeOK, MutualExclusion, SuccessIsCredited, PayNext
  PROVE  SuccessIsCredited'
  <1> USE DEF Crediting
  <1> SUFFICES ASSUME NEW t \in Trades, order'[t] = "success", t \notin lost'
               PROVE  credit'[t] = 1 \/ \E p \in Procs : Crediting(p, t)'
    BY DEF SuccessIsCredited
  <1>1. credit[t] \in {0, 1} /\ credit'[t] \in {0, 1} /\ order[t] \in Statuses
    BY DEF PayInv, PayTypeOK, CreditInv
  <1>2. t \notin lost
    BY DEF PayNext, Handle, LockStep, Place, Linked, Refused, Pay, Read, SaveStatus, AddQuota, Commit, SaveExpired,
       Fault, OverLimit, Finish, SaveFailed, Notified, SessionExpired, AdminComplete, ReadFailed, pvars
  <1>3. CASE \E p \in Procs : AddQuota(p) \/ Commit(p)
    <2>1. PICK p \in Procs : AddQuota(p) \/ Commit(p)
      BY <1>3
    <2>2. CASE trade[p] = t
      BY <1>1, <2>1, <2>2 DEF AddQuota, Commit, PayInv, PayTypeOK
    <2>3. CASE trade[p] # t
      <3>1. order[t] = "success" /\ credit'[t] = credit[t]
        BY <2>1, <2>3 DEF AddQuota, Commit, PayInv, PayTypeOK
      <3>2. CASE credit[t] = 1
        BY <3>1, <3>2
      <3>3. CASE credit[t] # 1
        <4>1. PICK q \in Procs : Crediting(q, t)
          BY <1>2, <3>1, <3>3 DEF SuccessIsCredited
        <4>2. q # p /\ work'[q] = work[q] /\ pc' = pc /\ trade' = trade
          BY <2>1, <2>3, <4>1 DEF AddQuota, Commit, Go, vars, PayInv, PayTypeOK
        <4> QED BY <4>1, <4>2 DEF AtWork
      <3> QED BY <3>2, <3>3
    <2> QED BY <2>2, <2>3
  <1>4. CASE \E p \in Procs : SaveStatus(p)
    <2>1. PICK p \in Procs : SaveStatus(p)
      BY <1>4
    <2>2. credit' = credit /\ pc' = pc /\ trade' = trade
      BY <2>1 DEF SaveStatus, vars
    <2>3. CASE trade[p] = t
      BY <2>1, <2>2, <2>3 DEF SaveStatus, AtWork, Go, PayInv, PayTypeOK, Work
    <2>4. CASE trade[p] # t /\ credit[t] # 1
      <3>1. order[t] = "success"
        BY <2>1, <2>4 DEF SaveStatus, PayInv, PayTypeOK
      <3>2. PICK q \in Procs : Crediting(q, t)
        BY <1>2, <2>4, <3>1 DEF SuccessIsCredited
      <3>3. q # p /\ work'[q] = work[q]
        BY <2>1, <2>4, <3>2 DEF SaveStatus, Go, PayInv, PayTypeOK
      <3> QED BY <2>2, <3>2, <3>3 DEF AtWork
    <2> QED BY <2>2, <2>3, <2>4
  <1>5. CASE ~(\E p \in Procs : AddQuota(p) \/ Commit(p) \/ SaveStatus(p))
    <2>1. credit' = credit
      BY <1>5 DEF PayNext, Handle, LockStep, Place, Linked, Refused, Pay, Read, SaveExpired, Fault, OverLimit,
         Finish, SaveFailed, Notified, SessionExpired, AdminComplete, ReadFailed, pvars
    <2>2. order[t] = "success"
      BY <1>5 DEF PayNext, Handle, LockStep, Place, Linked, Refused, Pay, Read, SaveExpired, Fault, OverLimit,
         Finish, SaveFailed, Notified, SessionExpired, AdminComplete, ReadFailed, pvars, PayInv, PayTypeOK
    <2>3. SUFFICES ASSUME credit[t] # 1 PROVE \E q \in Procs : Crediting(q, t)'
      BY <2>1
    <2>4. PICK q \in Procs : Crediting(q, t)
      BY <1>2, <2>2, <2>3 DEF SuccessIsCredited
    <2>5. /\ pc[q] = "locked" /\ work[q].step = "credit" /\ trade[q] = t
          /\ work[q].what = "paid" /\ work[q].trade = t /\ NeverRetried(work[q]) /\ work[q] # NoWork
      BY <2>4 DEF AtWork, PayInv, WorkInv, Locking, NeverRetried, NoWork
    <2>6. SUFFICES /\ pc'[q] = pc[q] /\ trade'[q] = trade[q] /\ work'[q] = work[q]
      BY <2>5 DEF AtWork
    <2>7. ASSUME NEW p \in Procs, Handle(p) PROVE pc'[q] = pc[q] /\ trade'[q] = trade[q] /\ work'[q] = work[q]
      <3>1. CASE p = q
        BY <1>5, <2>5, <2>7, <3>1 DEF Handle, Read, SaveExpired, Fault, OverLimit, Finish, SaveFailed, AtWork
      <3>2. CASE p # q
        BY <1>5, <2>7, <3>2 DEF Handle, Read, SaveExpired, Fault, OverLimit, Finish, SaveFailed,
           LoadAgain, Goto, Go, vars, TypeOK, PayInv, PayTypeOK
      <3> QED BY <3>1, <3>2
    <2>8. ASSUME NEW p \in Procs, LockStep(p) PROVE pc'[q] = pc[q] /\ trade'[q] = trade[q] /\ work'[q] = work[q]
      BY <2>5, <2>8 DEF LockStep, EnterCreate, Find, Store, Count, Acquire, Unlock, EnterLeave, Drop, Goto,
         pvars, TypeOK
    <2>9. ASSUME NEW p \in Procs, NEW u \in Trades,
                 Notified(p, u) \/ SessionExpired(p, u) \/ AdminComplete(p, u) \/ ReadFailed(p, u)
          PROVE  pc'[q] = pc[q] /\ trade'[q] = trade[q] /\ work'[q] = work[q]
      BY <2>5, <2>9 DEF Notified, SessionExpired, AdminComplete, ReadFailed, Start, Call, Goto, vars,
         TypeOK, PayInv, PayTypeOK
    <2>10. ASSUME NEW u \in Trades,
                  \/ Place(u) \/ Linked(u) \/ Refused(u)
                  \/ \E result \in {"paid", "expired", "failed"} : Pay(u, result)
           PROVE  pc'[q] = pc[q] /\ trade'[q] = trade[q] /\ work'[q] = work[q]
      BY <2>10 DEF Place, Linked, Refused, Pay, vars
    <2> QED BY <2>7, <2>8, <2>9, <2>10 DEF PayNext
  <1> QED BY <1>3, <1>4, <1>5

\* An order shown as successful has been credited, or is being credited, unless a
\* fault or the purchase limit cut its handler off.
THEOREM SuccessMeansCredit == PaySpec => []SuccessIsCredited
  <1>1. PayInit => SuccessIsCredited
    BY DEF PayInit, SuccessIsCredited
  <1>2. PayInv /\ PayInv' /\ TypeOK /\ MutualExclusion /\ SuccessIsCredited /\ [PayNext]_all
           => SuccessIsCredited'
    <2>1. CASE UNCHANGED all
      BY <2>1 DEF all, vars, pvars, SuccessIsCredited, AtWork
    <2> QED BY <2>1, SuccessStep
  <1>3. Spec => [](TypeOK /\ MutualExclusion)
    BY Typing, Exclusion, PTL
  <1> QED BY <1>1, <1>2, <1>3, PayInvariant, UsesTheLock, PTL DEF PaySpec, all
=============================================================================
