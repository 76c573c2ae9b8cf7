------------------------------ MODULE KeyedLock ------------------------------
(***************************************************************************)
(* The per-stream lock of a replica (ubiquisync-sql,                       *)
(* src/replica/stream_lock.rs).                                            *)
(*                                                                         *)
(* A table, itself behind a mutex, maps a key to a Weak reference to an    *)
(* asynchronous mutex.  Whoever waits for or holds that mutex owns an Arc  *)
(* of it; the table does not.  The entry is dropped by the guard's         *)
(* destructor once nobody is left, in three separate steps: the mutex is   *)
(* unlocked, the guard's Arc is dropped, and only then is the table looked *)
(* at again.  Other tasks run between any two of them.                     *)
(*                                                                         *)
(* Mutexes is the set of allocations.  One that neither a task nor the     *)
(* table refers to is free to be allocated again; a dead Weak reference    *)
(* keeps its allocation.  The wake-up list inside futures::lock::Mutex is  *)
(* not modelled: a waiter may be served whenever the mutex is unlocked.    *)
(***************************************************************************)
EXTENDS Naturals

CONSTANTS
    Tasks,       \* concurrent callers of lock()
    Keys,        \* stream identities
    Mutexes,     \* mutex allocations
    NoTask,
    NoMutex,
    MaxCalls     \* bound: lock() calls one task makes

ASSUME KeyedLockAssumption ==
    /\ NoTask \notin Tasks
    /\ NoMutex \notin Mutexes
    /\ Keys # {}
    /\ MaxCalls \in Nat

VARIABLES
    table,       \* table[k]: the mutex the weak entry of k points to
    locked,      \* locked[m]: is_locked of the mutex
    arc,         \* arc[t]: the mutex t's future or guard keeps alive
    key,         \* key[t]: the key of t's current call
    pc,          \* where t is inside lock() or the guard's destructor
    calls,       \* calls[t]: how many times t called lock()
    cancelled    \* keys with a cancelled waiter since their last lookup

vars == <<table, locked, arc, key, pc, calls, cancelled>>

\* A call owns an Arc exactly while it waits, holds, or has just unlocked.
ArcStates == {"waiting", "holding", "unlocked"}

States == {"idle", "waiting", "holding", "unlocked", "dropped"}

Init ==
    /\ table = [k \in Keys |-> NoMutex]
    /\ locked = [m \in Mutexes |-> FALSE]
    /\ arc = [t \in Tasks |-> NoMutex]
    /\ key \in [Tasks -> {CHOOSE k \in Keys : TRUE}]
    /\ pc = [t \in Tasks |-> "idle"]
    /\ calls = [t \in Tasks |-> 0]
    /\ cancelled = {}

\* strong_count() > 0, which is also when Weak::upgrade succeeds.
Alive(m) == \E t \in Tasks : arc[t] = m

Unallocated(m) == ~ Alive(m) /\ \A k \in Keys : table[k] # m

\* Mutant of EntryFor: lock() always inserts, as if upgrade() were not tried.
EntryAlwaysNew(k, m) == m \in Mutexes /\ Unallocated(m)

\* The entry lock() continues with: the live one, or a fresh mutex.
EntryFor(k, m) ==
    IF table[k] # NoMutex /\ Alive(table[k])
    THEN m = table[k]
    ELSE m \in Mutexes /\ Unallocated(m)

(***************************************************************************)
(* lock(): find or create the entry under the table's mutex, then wait.    *)
(***************************************************************************)
Lookup(t, k) ==
    /\ pc[t] = "idle"
    /\ calls[t] < MaxCalls
    /\ \E m \in Mutexes :
          /\ EntryFor(k, m)
          /\ table' = [table EXCEPT ![k] = m]
          /\ locked' = [locked EXCEPT ![m] = IF Alive(m) THEN @ ELSE FALSE]
          /\ arc' = [arc EXCEPT ![t] = m]
    /\ key' = [key EXCEPT ![t] = k]
    /\ pc' = [pc EXCEPT ![t] = "waiting"]
    /\ calls' = [calls EXCEPT ![t] = @ + 1]
    /\ cancelled' = cancelled \ {k}

Acquire(t) ==
    /\ pc[t] = "waiting"
    /\ ~ locked[arc[t]]
    /\ locked' = [locked EXCEPT ![arc[t]] = TRUE]
    /\ pc' = [pc EXCEPT ![t] = "holding"]
    /\ UNCHANGED <<table, arc, key, calls, cancelled>>

\* The caller drops the future before it got the mutex: its Arc goes, the
\* table is not looked at.
Cancel(t) ==
    /\ pc[t] = "waiting"
    /\ arc' = [arc EXCEPT ![t] = NoMutex]
    /\ pc' = [pc EXCEPT ![t] = "idle"]
    /\ cancelled' = cancelled \cup {key[t]}
    /\ UNCHANGED <<table, locked, key, calls>>

\* Mutant of Unlock: the Arc is given up but the mutex stays locked.
UnlockForgotten(t) ==
    /\ pc[t] = "holding"
    /\ pc' = [pc EXCEPT ![t] = "unlocked"]
    /\ UNCHANGED <<table, locked, arc, key, calls, cancelled>>

(***************************************************************************)
(* KeyedLockGuard::drop: guard.take() unlocks and then drops the Arc.      *)
(***************************************************************************)
Unlock(t) ==
    /\ pc[t] = "holding"
    /\ locked' = [locked EXCEPT ![arc[t]] = FALSE]
    /\ pc' = [pc EXCEPT ![t] = "unlocked"]
    /\ UNCHANGED <<table, arc, key, calls, cancelled>>

\* Mutant of DropArc: drop() looks at the table before it takes the guard
\* out, so its own Arc keeps the entry alive and nothing is removed.
DropArcAfterClean(t) ==
    /\ pc[t] = "unlocked"
    /\ arc' = [arc EXCEPT ![t] = NoMutex]
    /\ pc' = [pc EXCEPT ![t] = "idle"]
    /\ UNCHANGED <<table, locked, key, calls, cancelled>>

DropArc(t) ==
    /\ pc[t] = "unlocked"
    /\ arc' = [arc EXCEPT ![t] = NoMutex]
    /\ pc' = [pc EXCEPT ![t] = "dropped"]
    /\ UNCHANGED <<table, locked, key, calls, cancelled>>

\* Mutant of Clean: the entry goes without a look at strong_count().
CleanAlways(t) ==
    /\ pc[t] = "dropped"
    /\ table' = [table EXCEPT ![key[t]] = NoMutex]
    /\ pc' = [pc EXCEPT ![t] = "idle"]
    /\ UNCHANGED <<locked, arc, key, calls, cancelled>>

\* The second half of the destructor, under the table's mutex.
Clean(t) ==
    /\ pc[t] = "dropped"
    /\ table' = [table EXCEPT ![key[t]] =
                    IF @ # NoMutex /\ ~ Alive(@) THEN NoMutex ELSE @]
    /\ pc' = [pc EXCEPT ![t] = "idle"]
    /\ UNCHANGED <<locked, arc, key, calls, cancelled>>

Next ==
    \E t \in Tasks :
        \/ \E k \in Keys : Lookup(t, k)
        \/ Acquire(t)
        \/ Cancel(t)
        \/ Unlock(t)
        \/ DropArc(t)
        \/ Clean(t)

Spec == Init /\ [][Next]_vars

\* A task that can take its next step takes it; nobody has to call lock(),
\* and nobody has to cancel.
Fairness ==
    \A t \in Tasks : WF_vars(Acquire(t) \/ Unlock(t) \/ DropArc(t) \/ Clean(t))

FairSpec == Spec /\ Fairness

-----------------------------------------------------------------------------
TypeOK ==
    /\ table \in [Keys -> Mutexes \cup {NoMutex}]
    /\ locked \in [Mutexes -> BOOLEAN]
    /\ arc \in [Tasks -> Mutexes \cup {NoMutex}]
    /\ key \in [Tasks -> Keys]
    /\ pc \in [Tasks -> States]
    /\ calls \in [Tasks -> 0 .. MaxCalls]
    /\ cancelled \subseteq Keys
    /\ \A t \in Tasks : arc[t] = NoMutex <=> pc[t] \notin ArcStates

(***************************************************************************)
(* Two tasks never hold the guard of one key, whatever the table did with  *)
(* the entry between their lookups: the destructor's clean-up may run      *)
(* while a third task is between its lookup and its acquisition.           *)
(***************************************************************************)
MutualExclusion ==
    \A t, u \in Tasks :
        pc[t] = "holding" /\ pc[u] = "holding" /\ key[t] = key[u] => t = u

(***************************************************************************)
(* The table does not leak: a dead entry stays only while some guard's     *)
(* destructor has not reached it yet, or because a waiter of that key was  *)
(* cancelled; the next lock() on the key reuses and then removes it.  This *)
(* is why drop() takes the guard out before it looks at strong_count().    *)
(***************************************************************************)
NoDeadEntries ==
    \A k \in Keys :
        table[k] # NoMutex /\ ~ Alive(table[k]) =>
            \/ k \in cancelled
            \/ \E t \in Tasks : pc[t] = "dropped" /\ key[t] = k

(***************************************************************************)
(* Every call to lock() that is not cancelled gets the mutex, provided the *)
(* calls competing with it are finitely many (MaxCalls bounds them here).  *)
(***************************************************************************)
EveryWaiterServed ==
    \A t \in Tasks : pc[t] = "waiting" ~> pc[t] # "waiting"

(***************************************************************************)
(* The lock the rest of the replica relies on is the plain one: a task     *)
(* owns a key from its acquisition to the first step of the destructor.    *)
(***************************************************************************)
Holder(k) ==
    IF \E t \in Tasks : pc[t] = "holding" /\ key[t] = k
    THEN CHOOSE t \in Tasks : pc[t] = "holding" /\ key[t] = k
    ELSE NoTask

Mutex == INSTANCE KeyMutex WITH holder <- [k \in Keys |-> Holder(k)]

ImplementsKeyMutex == Mutex!KMSpec

=============================================================================
