----------------------------- MODULE OrderLock -----------------------------
(***************************************************************************)
(* LockOrder and UnlockOrder: one mutex per trade number, kept in a        *)
(* sync.Map only while somebody uses it.  Payment notifications of one     *)
(* process are serialised by it.                                           *)
(*                                                                         *)
(* A refCountedMutex is allocated when a trade number is locked for the    *)
(* first time and found by everybody who comes while it is in the map; a   *)
(* reference that is dropped too early would let a newcomer allocate a     *)
(* second mutex for the same trade.                                        *)
(***************************************************************************)
EXTENDS Integers, FiniteSets

CONSTANTS
    Procs,  \* goroutines that handle notifications
    Trades, \* trade numbers
    Ids,    \* identities a mutex object may get
    None    \* nil

ASSUME NoneAssumption == None \notin Procs /\ None \notin Ids
ASSUME ProcsAssumption == IsFiniteSet(Procs)

VARIABLES
    orderLocks, \* the sync.Map: mutex of a trade, or None
    createLock, \* who holds createLock
    refCount,   \* refCountedMutex.refCount
    mu,         \* refCountedMutex.mu: who holds it
    pc,         \* where a goroutine is
    trade,      \* the trade number it works on
    rcm         \* its local variable rcm

vars == <<orderLocks, createLock, refCount, mu, pc, trade, rcm>>

Init ==
    /\ orderLocks = [t \in Trades |-> None]
    /\ createLock = None
    /\ refCount = [i \in Ids |-> 0]
    /\ mu = [i \in Ids |-> None]
    /\ pc = [p \in Procs |-> "idle"]
    /\ trade \in [Procs -> Trades]
    /\ rcm = [p \in Procs |-> None]

Goto(p, label) == pc' = [pc EXCEPT ![p] = label]

\* An object nobody can reach any more may be allocated again.
Fresh(i) == /\ \A t \in Trades : orderLocks[t] # i
            /\ \A p \in Procs : rcm[p] # i

-----------------------------------------------------------------------------
(* LockOrder *)

Call(p, t) ==
    /\ pc[p] = "idle"
    /\ trade' = [trade EXCEPT ![p] = t]
    /\ Goto(p, "create")
    /\ UNCHANGED <<orderLocks, createLock, refCount, mu, rcm>>

EnterCreate(p) ==
    /\ pc[p] = "create" /\ createLock = None
    /\ createLock' = p
    /\ Goto(p, "load")
    /\ UNCHANGED <<orderLocks, refCount, mu, trade, rcm>>

\* orderLocks.Load finds the mutex of the trade ...
Find(p) ==
    /\ pc[p] = "load" /\ orderLocks[trade[p]] # None
    /\ rcm' = [rcm EXCEPT ![p] = orderLocks[trade[p]]]
    /\ Goto(p, "count")
    /\ UNCHANGED <<orderLocks, createLock, refCount, mu, trade>>

\* ... or a new one is stored.
Store(p, i) ==
    /\ pc[p] = "load" /\ orderLocks[trade[p]] = None
    /\ Fresh(i)
    /\ orderLocks' = [orderLocks EXCEPT ![trade[p]] = i]
    /\ refCount' = [refCount EXCEPT ![i] = 0]
    /\ mu' = [mu EXCEPT ![i] = None]
    /\ rcm' = [rcm EXCEPT ![p] = i]
    /\ Goto(p, "count")
    /\ UNCHANGED <<createLock, trade>>

\* refCount++ before createLock is released.
Count(p) ==
    /\ pc[p] = "count"
    /\ refCount' = [refCount EXCEPT ![rcm[p]] = @ + 1]
    /\ createLock' = None
    /\ Goto(p, "wait")
    /\ UNCHANGED <<orderLocks, mu, trade, rcm>>

Acquire(p) ==
    /\ pc[p] = "wait" /\ mu[rcm[p]] = None
    /\ mu' = [mu EXCEPT ![rcm[p]] = p]
    /\ Goto(p, "locked")
    /\ UNCHANGED <<orderLocks, createLock, refCount, trade, rcm>>

-----------------------------------------------------------------------------
(* UnlockOrder *)

\* It looks the mutex up again, without createLock, and gives up if it is gone.
LoadAgain(p) ==
    /\ pc[p] = "locked"
    /\ rcm' = [rcm EXCEPT ![p] = orderLocks[trade[p]]]
    /\ Goto(p, IF orderLocks[trade[p]] = None THEN "idle" ELSE "unlock")
    /\ UNCHANGED <<orderLocks, createLock, refCount, mu, trade>>

Unlock(p) ==
    /\ pc[p] = "unlock"
    /\ mu' = [mu EXCEPT ![rcm[p]] = None]
    /\ Goto(p, "leave")
    /\ UNCHANGED <<orderLocks, createLock, refCount, trade, rcm>>

EnterLeave(p) ==
    /\ pc[p] = "leave" /\ createLock = None
    /\ createLock' = p
    /\ Goto(p, "drop")
    /\ UNCHANGED <<orderLocks, refCount, mu, trade, rcm>>

DropAlways(p) ==
    /\ pc[p] = "drop"
    /\ refCount' = [refCount EXCEPT ![rcm[p]] = @ - 1]
    /\ orderLocks' = [orderLocks EXCEPT ![trade[p]] = None]
    /\ createLock' = None
    /\ rcm' = [rcm EXCEPT ![p] = None]
    /\ Goto(p, "idle")
    /\ UNCHANGED <<mu, trade>>

\* refCount-- and, for the last user, Delete; then createLock is released.
Drop(p) ==
    /\ pc[p] = "drop"
    /\ refCount' = [refCount EXCEPT ![rcm[p]] = @ - 1]
    /\ orderLocks' = IF refCount[rcm[p]] = 1
                     THEN [orderLocks EXCEPT ![trade[p]] = None] ELSE orderLocks
    /\ createLock' = None
    /\ rcm' = [rcm EXCEPT ![p] = None]
    /\ Goto(p, "idle")
    /\ UNCHANGED <<mu, trade>>

-----------------------------------------------------------------------------
Step(p) ==
    \/ EnterCreate(p)
    \/ Find(p)
    \/ \E i \in Ids : Store(p, i)
    \/ Count(p)
    \/ Acquire(p)
    \/ LoadAgain(p)
    \/ Unlock(p)
    \/ EnterLeave(p)
    \/ Drop(p)

Next == \E p \in Procs : Step(p) \/ \E t \in Trades : Call(p, t)

Spec == Init /\ [][Next]_vars
-----------------------------------------------------------------------------
(* Properties *)

Labels == {"idle", "create", "load", "count", "wait", "locked", "unlock", "leave", "drop"}

\* Every variable holds what its Go type allows.
TypeOK ==
    /\ orderLocks \in [Trades -> Ids \union {None}]
    /\ createLock \in Procs \union {None}
    /\ refCount \in [Ids -> Nat]
    /\ mu \in [Ids -> Procs \union {None}]
    /\ pc \in [Procs -> Labels]
    /\ trade \in [Procs -> Trades]
    /\ rcm \in [Procs -> Ids \union {None}]

InLock(p) == pc[p] \in {"locked", "unlock"}

\* Between LockOrder and UnlockOrder a goroutine is alone with its trade number,
\* although the mutex it waited for comes and goes.
MutualExclusion ==
    \A p, q \in Procs : InLock(p) /\ InLock(q) /\ trade[p] = trade[q] => p = q

\* UnlockOrder finds its mutex in the map and unlocks one it holds itself (Go
\* panics otherwise).
UnlocksItsOwn ==
    /\ \A p \in Procs : pc[p] = "locked" => orderLocks[trade[p]] # None
    /\ \A p \in Procs : pc[p] = "unlock" => mu[rcm[p]] = p

\* A mutex nobody uses is not kept: the map does not grow with the orders.
NoLeak == (\A p \in Procs : pc[p] \in {"idle", "create"}) => \A t \in Trades : orderLocks[t] = None

\* All that a caller of LockOrder and UnlockOrder relies on.
LockKept == MutualExclusion /\ UnlocksItsOwn /\ NoLeak
=============================================================================
