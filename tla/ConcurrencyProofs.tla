------------------------- MODULE ConcurrencyProofs -------------------------
(***************************************************************************)
(* What holds in whatever order tasks and replicas come to their steps.    *)
(* Two things the tasks of a process meet at, the lock of a stream         *)
(* (KeyedLock) and the event bus (EventBus), for any number of tasks,      *)
(* keys, calls, subscriptions and events; and two things replicas agree    *)
(* on, their clocks (HlcPeers) and the rows of a table (TableMerge), for   *)
(* any number of replicas, calls, restarts, columns and operations.        *)
(*                                                                         *)
(* What makes KeyedLock a lock is SharedEntry: whoever keeps a mutex of    *)
(* key k alive keeps alive the one the table has for k.  It is inductive   *)
(* because the table gives up an entry only when nobody keeps it alive,    *)
(* and so all tasks that wait for or hold a key meet at one mutex.         *)
(*                                                                         *)
(* A change goes to the senders found under its targets.  That they are    *)
(* the subscriptions it is meant for is MapIsWatchedTargets; that what     *)
(* they get has no gaps needs it, and that a subscription starts at the    *)
(* log's end with an empty channel.                                        *)
(*                                                                         *)
(* Any wall clocks and any width of the timestamp: nobody drags another's  *)
(* clock away, since a clock, what is stored of it and what is about to be *)
(* stored stay within one bound (LeadInv); and until somebody restarts the *)
(* timestamps are causal, since no clock is behind an entry at hand        *)
(* (CausalInv).                                                            *)
(*                                                                         *)
(* Any order of the operations: a row is a function of the set of those    *)
(* applied (Merged), which is strong convergence.                          *)
(***************************************************************************)
EXTENDS KeyedLock, EventBus, HlcPeers, TableMerge, HlcProofs, SequenceTheorems,
        WellFoundedInduction, TLAPS

-----------------------------------------------------------------------------
(* The keyed lock *)

SharedEntry ==
    \A t \in Tasks : pc[t] \in ArcStates => table[key[t]] = arc[t]

\* A mutex belongs to one key.
OneKeyPerMutex ==
    \A k, l \in Keys : table[k] # NoMutex /\ table[k] = table[l] => k = l

\* A held mutex is locked.
HeldIsLocked ==
    \A t \in Tasks : pc[t] = "holding" => locked[arc[t]]

LockInv ==
    /\ TypeOK
    /\ SharedEntry
    /\ OneKeyPerMutex
    /\ HeldIsLocked
    /\ MutualExclusion

-----------------------------------------------------------------------------
LEMMA LockInvInit == Init => LockInv
<1>1. (CHOOSE k \in Keys : TRUE) \in Keys
  BY KeyedLockAssumption
<1>2. QED
  BY <1>1, KeyedLockAssumption
  DEF Init, LockInv, TypeOK, SharedEntry, OneKeyPerMutex, HeldIsLocked,
      MutualExclusion, ArcStates, States

\* The mutex a lookup ends up with is not the entry of another key, and if
\* it is not the entry of this key yet, nobody keeps that entry alive.
LEMMA LookupEntry ==
  ASSUME LockInv, NEW k \in Keys, NEW m \in Mutexes, EntryFor(k, m)
  PROVE  /\ \A l \in Keys : table[l] = m => l = k
         /\ \A u \in Tasks : arc[u] = m => table[k] = m
         /\ \A u \in Tasks : pc[u] \in ArcStates /\ key[u] = k => table[k] = m
<1>1. CASE table[k] # NoMutex /\ Alive(table[k])
  BY <1>1 DEF EntryFor, LockInv, OneKeyPerMutex
<1>2. CASE ~ (table[k] # NoMutex /\ Alive(table[k]))
  <2>1. Unallocated(m)
    BY <1>2 DEF EntryFor
  <2>2. \A u \in Tasks : ~ (pc[u] \in ArcStates /\ key[u] = k)
    BY <1>2 DEF LockInv, TypeOK, SharedEntry, Alive
  <2>3. QED
    BY <2>1, <2>2 DEF Unallocated, Alive
<1>3. QED
  BY <1>1, <1>2

LEMMA LookupKeepsLockInv ==
  ASSUME LockInv, NEW t \in Tasks, NEW k \in Keys, Lookup(t, k)
  PROVE  LockInv'
<1>1. PICK m \in Mutexes :
          /\ EntryFor(k, m)
          /\ table' = [table EXCEPT ![k] = m]
          /\ locked' = [locked EXCEPT ![m] = IF Alive(m) THEN @ ELSE FALSE]
          /\ arc' = [arc EXCEPT ![t] = m]
  BY DEF Lookup
<1>2. /\ pc[t] = "idle"
      /\ key' = [key EXCEPT ![t] = k]
      /\ pc' = [pc EXCEPT ![t] = "waiting"]
      /\ calls[t] < MaxCalls
      /\ calls' = [calls EXCEPT ![t] = @ + 1]
      /\ cancelled' = cancelled \ {k}
  BY DEF Lookup
<1>3. /\ \A l \in Keys : table[l] = m => l = k
      /\ \A u \in Tasks : arc[u] = m => table[k] = m
      /\ \A u \in Tasks : pc[u] \in ArcStates /\ key[u] = k => table[k] = m
  BY <1>1, LookupEntry
<1>4. TypeOK'
  <2>1. calls' \in [Tasks -> 0 .. MaxCalls]
    BY <1>2, KeyedLockAssumption DEF LockInv, TypeOK
  <2>2. QED
    BY <1>1, <1>2, <2>1, KeyedLockAssumption DEF LockInv, TypeOK, States, ArcStates
<1>5. SharedEntry'
  <2>1. SUFFICES ASSUME NEW u \in Tasks
                 PROVE  pc'[u] \in ArcStates => table'[key'[u]] = arc'[u]
    BY DEF SharedEntry
  <2>2. CASE u = t
    BY <1>1, <1>2, <2>2 DEF LockInv, TypeOK, ArcStates
  <2>3. CASE u # t
    <3>1. pc'[u] = pc[u] /\ arc'[u] = arc[u] /\ key'[u] = key[u]
      BY <1>1, <1>2, <2>3 DEF LockInv, TypeOK
    <3>2. pc[u] \in ArcStates => table'[key[u]] = table[key[u]]
      BY <1>1, <1>3 DEF LockInv, TypeOK
    <3>3. QED
      BY <3>1, <3>2 DEF LockInv, SharedEntry
  <2>4. QED
    BY <2>2, <2>3
<1>6. OneKeyPerMutex'
  BY <1>1, <1>3 DEF LockInv, TypeOK, OneKeyPerMutex
<1>7. HeldIsLocked'
  <2>1. SUFFICES ASSUME NEW u \in Tasks, pc'[u] = "holding"
                 PROVE  locked'[arc'[u]]
    BY DEF HeldIsLocked
  <2>2. u # t /\ pc[u] = "holding" /\ arc'[u] = arc[u]
    BY <1>1, <1>2, <2>1 DEF LockInv, TypeOK
  <2>3. arc[u] \in Mutexes /\ locked[arc[u]] /\ Alive(arc[u])
    BY <2>2 DEF LockInv, TypeOK, SharedEntry, HeldIsLocked, ArcStates, Alive
  <2>4. QED
    BY <1>1, <2>2, <2>3 DEF LockInv, TypeOK
<1>8. MutualExclusion'
  BY <1>2 DEF LockInv, TypeOK, MutualExclusion
<1>9. QED
  BY <1>4, <1>5, <1>6, <1>7, <1>8 DEF LockInv

LEMMA AcquireKeepsLockInv ==
  ASSUME LockInv, NEW t \in Tasks, Acquire(t)
  PROVE  LockInv'
<1>1. TypeOK'
  BY DEF LockInv, TypeOK, Acquire, States, ArcStates
<1>2. SharedEntry'
  BY DEF LockInv, TypeOK, Acquire, SharedEntry, ArcStates
<1>3. OneKeyPerMutex'
  BY DEF LockInv, Acquire, OneKeyPerMutex
<1>4. HeldIsLocked'
  BY DEF LockInv, TypeOK, Acquire, SharedEntry, HeldIsLocked, ArcStates
<1>5. MutualExclusion'
  <2>1. SUFFICES ASSUME NEW u \in Tasks, u # t, pc[u] = "holding",
                        key[u] = key[t]
                 PROVE  FALSE
    BY DEF LockInv, TypeOK, Acquire, MutualExclusion
  <2>2. arc[u] = arc[t]
    BY <2>1 DEF LockInv, SharedEntry, ArcStates, Acquire
  <2>3. QED
    BY <2>1, <2>2 DEF LockInv, HeldIsLocked, Acquire
<1>6. QED
  BY <1>1, <1>2, <1>3, <1>4, <1>5 DEF LockInv

LEMMA CancelKeepsLockInv ==
  ASSUME LockInv, NEW t \in Tasks, Cancel(t)
  PROVE  LockInv'
BY DEF LockInv, TypeOK, Cancel, SharedEntry, OneKeyPerMutex, HeldIsLocked,
       MutualExclusion, ArcStates, States

LEMMA UnlockKeepsLockInv ==
  ASSUME LockInv, NEW t \in Tasks, Unlock(t)
  PROVE  LockInv'
<1>1. TypeOK' /\ SharedEntry' /\ OneKeyPerMutex' /\ MutualExclusion'
  BY DEF LockInv, TypeOK, Unlock, SharedEntry, OneKeyPerMutex,
         MutualExclusion, ArcStates, States
<1>2. HeldIsLocked'
  <2>1. SUFFICES ASSUME NEW u \in Tasks, pc'[u] = "holding"
                 PROVE  locked'[arc'[u]]
    BY DEF HeldIsLocked
  <2>2. u # t /\ pc[u] = "holding" /\ arc'[u] = arc[u]
    BY <2>1 DEF LockInv, TypeOK, Unlock
  <2>3. key[u] # key[t]
    BY <2>2 DEF LockInv, MutualExclusion, Unlock
  <2>4. arc[u] # arc[t]
    BY <2>2, <2>3, KeyedLockAssumption
    DEF LockInv, TypeOK, SharedEntry, OneKeyPerMutex, ArcStates, Unlock
  <2>5. QED
    BY <2>2, <2>4 DEF LockInv, TypeOK, SharedEntry, HeldIsLocked, ArcStates,
                      Unlock
<1>3. QED
  BY <1>1, <1>2 DEF LockInv

LEMMA DropArcKeepsLockInv ==
  ASSUME LockInv, NEW t \in Tasks, DropArc(t)
  PROVE  LockInv'
BY DEF LockInv, TypeOK, DropArc, SharedEntry, OneKeyPerMutex, HeldIsLocked,
       MutualExclusion, ArcStates, States

LEMMA CleanKeepsLockInv ==
  ASSUME LockInv, NEW t \in Tasks, Clean(t)
  PROVE  LockInv'
<1>1. TypeOK'
  BY DEF LockInv, TypeOK, Clean, States, ArcStates
<1>2. SharedEntry'
  <2>1. SUFFICES ASSUME NEW u \in Tasks, u # t, pc[u] \in ArcStates
                 PROVE  table'[key[u]] = table[key[u]]
    BY DEF LockInv, TypeOK, Clean, SharedEntry, ArcStates
  <2>2. Alive(table[key[u]])
    BY <2>1 DEF LockInv, SharedEntry, Alive
  <2>3. QED
    BY <2>2 DEF LockInv, TypeOK, Clean
<1>3. OneKeyPerMutex'
  BY DEF LockInv, TypeOK, Clean, OneKeyPerMutex
<1>4. HeldIsLocked' /\ MutualExclusion'
  BY DEF LockInv, TypeOK, Clean, HeldIsLocked, MutualExclusion
<1>5. QED
  BY <1>1, <1>2, <1>3, <1>4 DEF LockInv

LEMMA LockInvInductive == LockInv /\ [Next]_vars => LockInv'
<1>1. SUFFICES ASSUME LockInv, [Next]_vars PROVE LockInv'
  OBVIOUS
<1>2. CASE UNCHANGED vars
  BY <1>1, <1>2
  DEF vars, LockInv, TypeOK, SharedEntry, OneKeyPerMutex, HeldIsLocked,
      MutualExclusion
<1>3. CASE Next
  <2>1. PICK t \in Tasks :
            \/ \E k \in Keys : Lookup(t, k)
            \/ Acquire(t)
            \/ Cancel(t)
            \/ Unlock(t)
            \/ DropArc(t)
            \/ Clean(t)
    BY <1>3 DEF Next
  <2>2. QED
    BY <1>1, <2>1, LookupKeepsLockInv, AcquireKeepsLockInv, CancelKeepsLockInv,
       UnlockKeepsLockInv, DropArcKeepsLockInv, CleanKeepsLockInv
<1>4. QED
  BY <1>1, <1>2, <1>3

LEMMA LockInvAlways == Spec => []LockInv
BY LockInvInit, LockInvInductive, PTL DEF Spec

-----------------------------------------------------------------------------
\* The table, the mutexes and the tasks keep their types.
THEOREM KeyedLockTypeOK == Spec => []TypeOK
<1>1. LockInv => TypeOK
  BY DEF LockInv
<1>2. QED
  BY <1>1, LockInvAlways, PTL

\* No two tasks hold the guard of the same stream.
THEOREM KeyedLockMutualExclusion == Spec => []MutualExclusion
<1>1. LockInv => MutualExclusion
  BY DEF LockInv
<1>2. QED
  BY <1>1, LockInvAlways, PTL

-----------------------------------------------------------------------------
LEMMA LookupKeepsNoDeadEntries ==
  ASSUME LockInv, NoDeadEntries, NEW t \in Tasks, NEW k \in Keys, Lookup(t, k)
  PROVE  NoDeadEntries'
<1>1. PICK m \in Mutexes :
          /\ EntryFor(k, m)
          /\ table' = [table EXCEPT ![k] = m]
          /\ arc' = [arc EXCEPT ![t] = m]
  BY DEF Lookup
<1>2. /\ pc[t] = "idle"
      /\ key' = [key EXCEPT ![t] = k]
      /\ pc' = [pc EXCEPT ![t] = "waiting"]
      /\ cancelled' = cancelled \ {k}
  BY DEF Lookup
<1> SUFFICES ASSUME NEW l \in Keys, table'[l] # NoMutex, ~ Alive(table[l])'
             PROVE  \/ l \in cancelled'
                    \/ \E u \in Tasks : pc'[u] = "dropped" /\ key'[u] = l
  BY DEF NoDeadEntries, Alive
<1>3. l # k
  BY <1>1 DEF LockInv, TypeOK, Alive
<1>4. table'[l] = table[l] /\ table[l] # NoMutex
  BY <1>1, <1>3 DEF LockInv, TypeOK
<1>5. arc[t] = NoMutex
  BY <1>2 DEF LockInv, TypeOK, ArcStates
<1>6. ~ Alive(table[l])
  BY <1>1, <1>4, <1>5 DEF LockInv, TypeOK, Alive
<1>7. CASE l \in cancelled
  BY <1>2, <1>3, <1>7
<1>8. CASE \E u \in Tasks : pc[u] = "dropped" /\ key[u] = l
  BY <1>2, <1>8 DEF LockInv, TypeOK
<1>9. QED
  BY <1>4, <1>6, <1>7, <1>8 DEF NoDeadEntries

LEMMA ArcStepKeepsNoDeadEntries ==
  ASSUME LockInv, NoDeadEntries, NEW t \in Tasks, Cancel(t) \/ DropArc(t)
  PROVE  NoDeadEntries'
<1> SUFFICES ASSUME NEW l \in Keys, table'[l] # NoMutex, ~ Alive(table[l])'
             PROVE  \/ l \in cancelled'
                    \/ \E u \in Tasks : pc'[u] = "dropped" /\ key'[u] = l
  BY DEF NoDeadEntries, Alive
<1>1. /\ table' = table /\ key' = key
      /\ cancelled \subseteq cancelled'
      /\ pc[t] \in ArcStates
      /\ arc' = [arc EXCEPT ![t] = NoMutex]
      /\ \A u \in Tasks : pc[u] = "dropped" => pc'[u] = "dropped"
  BY DEF Cancel, DropArc, ArcStates, LockInv, TypeOK
<1>2. CASE Alive(table[l])
  <2>1. PICK u \in Tasks : arc[u] = table[l]
    BY <1>2 DEF Alive
  <2>2. u = t
    BY <1>1, <2>1 DEF LockInv, TypeOK, Alive
  <2>3. table[key[t]] = table[l] /\ key[t] \in Keys
    BY <1>1, <2>1, <2>2 DEF LockInv, TypeOK, SharedEntry
  <2>4. key[t] = l
    BY <1>1, <2>3 DEF LockInv, OneKeyPerMutex
  <2>5. QED
    BY <2>4 DEF Cancel, DropArc, LockInv, TypeOK
<1>3. CASE ~ Alive(table[l])
  BY <1>1, <1>3 DEF NoDeadEntries
<1>4. QED
  BY <1>2, <1>3

LEMMA CleanKeepsNoDeadEntries ==
  ASSUME LockInv, NoDeadEntries, NEW t \in Tasks, Clean(t)
  PROVE  NoDeadEntries'
<1>1. /\ pc[t] = "dropped" /\ pc' = [pc EXCEPT ![t] = "idle"]
      /\ UNCHANGED <<arc, key, cancelled>>
      /\ key[t] \in Keys
  BY DEF Clean, LockInv, TypeOK
<1> SUFFICES ASSUME NEW l \in Keys, table'[l] # NoMutex, ~ Alive(table[l])'
             PROVE  \/ l \in cancelled'
                    \/ \E u \in Tasks : pc'[u] = "dropped" /\ key'[u] = l
  BY DEF NoDeadEntries, Alive
<1>2. l # key[t]
  BY <1>1 DEF Clean, LockInv, TypeOK, Alive
<1>3. table'[l] = table[l] /\ ~ Alive(table[l])
  BY <1>1, <1>2 DEF Clean, LockInv, TypeOK, Alive
<1>4. QED
  BY <1>1, <1>2, <1>3 DEF NoDeadEntries, LockInv, TypeOK

(***************************************************************************)
(* The table keeps no dead entry but one that a destructor is about to     *)
(* reach or a cancelled waiter left behind: the last Arc of a mutex goes   *)
(* in a destructor, before it looks at the count, or with a cancelled      *)
(* call, and an entry belongs to the key of whoever held that Arc.         *)
(***************************************************************************)
THEOREM KeyedLockNoDeadEntries == Spec => []NoDeadEntries
<1>1. Init => NoDeadEntries
  BY DEF Init, NoDeadEntries
<1>2. LockInv /\ NoDeadEntries /\ [Next]_vars => NoDeadEntries'
  <2> SUFFICES ASSUME LockInv, NoDeadEntries, [Next]_vars PROVE NoDeadEntries'
    OBVIOUS
  <2>1. CASE UNCHANGED vars
    BY <2>1 DEF vars, NoDeadEntries, Alive
  <2>2. ASSUME NEW t \in Tasks, Acquire(t) \/ Unlock(t)
        PROVE  NoDeadEntries'
    BY <2>2 DEF Acquire, Unlock, NoDeadEntries, Alive, LockInv, TypeOK
  <2>3. CASE Next
    <3>1. PICK t \in Tasks :
              \/ \E k \in Keys : Lookup(t, k)
              \/ Acquire(t)
              \/ Cancel(t)
              \/ Unlock(t)
              \/ DropArc(t)
              \/ Clean(t)
      BY <2>3 DEF Next
    <3>2. QED
      BY <2>2, <3>1, LookupKeepsNoDeadEntries, ArcStepKeepsNoDeadEntries,
         CleanKeepsNoDeadEntries
  <2>4. QED
    BY <2>1, <2>3
<1>3. QED
  BY <1>1, <1>2, LockInvAlways, PTL DEF Spec

-----------------------------------------------------------------------------
\* Who owns a key, read off the program counters.
LEMMA HolderIs ==
  ASSUME LockInv, NEW t \in Tasks, pc[t] = "holding"
  PROVE  Holder(key[t]) = t
BY DEF Holder, LockInv, MutualExclusion

LEMMA HolderNone ==
  ASSUME NEW k \in Keys, \A t \in Tasks : ~ (pc[t] = "holding" /\ key[t] = k)
  PROVE  Holder(k) = NoTask
BY DEF Holder

\* A step that moves no task into or out of the holding state changes no owner.
LEMMA HolderSame ==
  ASSUME NEW k \in Keys,
         \A t \in Tasks : (pc'[t] = "holding" /\ key'[t] = k)
                            <=> (pc[t] = "holding" /\ key[t] = k)
  PROVE  Holder(k)' = Holder(k)
BY DEF Holder

LEMMA StepImplementsKeyMutex ==
  ASSUME LockInv, LockInv', [Next]_vars
  PROVE  [Mutex!KMNext]_[k \in Keys |-> Holder(k)]
<1> DEFINE h == [k \in Keys |-> Holder(k)]
<1>1. ASSUME NEW t \in Tasks, NEW k \in Keys, key[t] = k, Acquire(t)
      PROVE  Mutex!KMAcquire(t, k)
  <2>1. pc[t] = "waiting" /\ pc' = [pc EXCEPT ![t] = "holding"] /\ key' = key
    BY <1>1 DEF Acquire
  <2>2. pc'[t] = "holding" /\ key'[t] = k
    BY <1>1, <2>1 DEF LockInv, TypeOK
  <2>3. \A u \in Tasks : ~ (pc[u] = "holding" /\ key[u] = k)
    BY <1>1, <2>1, <2>2 DEF LockInv, TypeOK, MutualExclusion
  <2>4. Holder(k) = NoTask
    BY <2>3, HolderNone
  <2>5. Holder(k)' = t
    BY <2>2 DEF Holder, LockInv, MutualExclusion
  <2>6. ASSUME NEW l \in Keys, l # k
        PROVE  Holder(l)' = Holder(l)
    BY <1>1, <2>1, <2>6, HolderSame DEF LockInv, TypeOK
  <2>7. QED
    BY <2>4, <2>5, <2>6 DEF Mutex!KMAcquire
<1>2. ASSUME NEW t \in Tasks, NEW k \in Keys, key[t] = k, Unlock(t)
      PROVE  Mutex!KMRelease(t, k)
  <2>1. pc[t] = "holding" /\ pc' = [pc EXCEPT ![t] = "unlocked"] /\ key' = key
    BY <1>2 DEF Unlock
  <2>2. Holder(k) = t
    BY <1>2, <2>1, HolderIs
  <2>3. \A u \in Tasks : ~ (pc'[u] = "holding" /\ key'[u] = k)
    BY <1>2, <2>1 DEF LockInv, TypeOK, MutualExclusion
  <2>4. Holder(k)' = NoTask
    BY <2>3 DEF Holder
  <2>5. ASSUME NEW l \in Keys, l # k
        PROVE  Holder(l)' = Holder(l)
    BY <1>2, <2>1, <2>5, HolderSame DEF LockInv, TypeOK
  <2>6. QED
    BY <2>2, <2>4, <2>5 DEF Mutex!KMRelease
<1>3. ASSUME NEW t \in Tasks,
             \/ \E k \in Keys : Lookup(t, k)
             \/ Cancel(t)
             \/ DropArc(t)
             \/ Clean(t)
      PROVE  h' = h
  <2>1. ASSUME NEW k \in Keys, NEW u \in Tasks
        PROVE  (pc'[u] = "holding" /\ key'[u] = k)
                  <=> (pc[u] = "holding" /\ key[u] = k)
    BY <1>3, ZenonT(60) DEF LockInv, TypeOK, Lookup, Cancel, DropArc, Clean
  <2>2. \A k \in Keys : Holder(k)' = Holder(k)
    BY <2>1, HolderSame
  <2>3. QED
    BY <2>2
<1>4. ASSUME UNCHANGED vars
      PROVE  h' = h
  BY <1>4 DEF vars, Holder
<1>5. CASE UNCHANGED vars
  BY <1>4, <1>5
<1>6. CASE Next
  <2>1. PICK t \in Tasks :
            \/ \E k \in Keys : Lookup(t, k)
            \/ Acquire(t)
            \/ Cancel(t)
            \/ Unlock(t)
            \/ DropArc(t)
            \/ Clean(t)
    BY <1>6 DEF Next
  <2>2. key[t] \in Keys
    BY DEF LockInv, TypeOK
  <2>3. QED
    BY <1>1, <1>2, <1>3, <2>1, <2>2 DEF Mutex!KMNext
<1>7. QED
  BY <1>5, <1>6

\* The table of weak references implements the plain lock per key.
THEOREM KeyedLockImplementsKeyMutex == Spec => ImplementsKeyMutex
<1>1. Init => Mutex!KMInit
  BY DEF Init, Mutex!KMInit, Holder
<1>2. LockInv /\ LockInv' /\ [Next]_vars
         => [Mutex!KMNext]_[k \in Keys |-> Holder(k)]
  BY StepImplementsKeyMutex
<1>3. QED
  BY <1>1, <1>2, LockInvAlways, PTL DEF Spec, ImplementsKeyMutex, Mutex!KMSpec

-----------------------------------------------------------------------------
(* The event bus *)

BusTypeOK ==
    /\ targets = [x \in DOMAIN targets |-> targets[x]]
    /\ DOMAIN targets \subseteq Watchable
    /\ nextId \in 0 .. MaxSubs
    /\ watches \in [Ids -> Watchable]
    /\ alive \subseteq 0 .. nextId - 1
    /\ chan \in [Ids -> Seq(Nat)]
    /\ got \in [Ids -> Seq(Nat)]
    /\ since \in [Ids -> 0 .. Len(log)]
    /\ log \in Seq(Changes)

\* An id that is yet to be given out has no channel.
Unborn == \A i \in Ids : i >= nextId => chan[i] = <<>> /\ got[i] = <<>>

BusInv == BusTypeOK /\ Unborn /\ MapIsWatchedTargets /\ NoGaps

\* NoGaps, of one subscription.
GapFree(i) ==
    /\ Len(chan[i]) <= Buffer + 1
    /\ \A m, n \in DOMAIN Seen(i) : m < n => Seen(i)[m] < Seen(i)[n]
    /\ ToSet(Seen(i)) \subseteq Wanted(i)
    /\ \A n \in Wanted(i) :
          i \in Senders(watches[i]) \/ (\E m \in ToSet(Seen(i)) : n < m)
              => n \in ToSet(Seen(i))

-----------------------------------------------------------------------------
(* Sequences *)

LEMMA AppendAtEnd ==
    ASSUME NEW s \in Seq(Nat), NEW t \in Seq(Nat), NEW x \in Nat
    PROVE  s \o Append(t, x) = Append(s \o t, x)
<1>1. <<x>> \in Seq(Nat) /\ s \o t \in Seq(Nat)
  BY ConcatProperties
<1>2. s \o (t \o <<x>>) = (s \o t) \o <<x>>
  BY <1>1, ConcatAssociative
<1>3. Append(t, x) = t \o <<x>> /\ Append(s \o t, x) = (s \o t) \o <<x>>
  BY <1>1, AppendIsConcat
<1> QED
  BY <1>2, <1>3

LEMMA HeadMoves ==
    ASSUME NEW s \in Seq(Nat), NEW t \in Seq(Nat), t # <<>>
    PROVE  Append(s, Head(t)) \o Tail(t) = s \o t
<1>1. Head(t) \in Nat /\ Tail(t) \in Seq(Nat) /\ <<Head(t)>> \in Seq(Nat)
  BY HeadTailProperties
<1>2. t = <<Head(t)>> \o Tail(t)
  BY <1>1
<1>3. Append(s, Head(t)) = s \o <<Head(t)>>
  BY <1>1, AppendIsConcat
<1>4. (s \o <<Head(t)>>) \o Tail(t) = s \o (<<Head(t)>> \o Tail(t))
  BY <1>1, ConcatAssociative
<1> QED
  BY <1>2, <1>3, <1>4

LEMMA Prefixed ==
    ASSUME NEW s \in Seq(Nat), NEW t \in Seq(Nat)
    PROVE  /\ s \o t \in Seq(Nat)
           /\ Len(s) \in Nat /\ Len(s \o t) \in Nat /\ Len(s) <= Len(s \o t)
           /\ \A m \in 1 .. Len(s) : (s \o t)[m] = s[m]
<1>1. Len(s) \in Nat /\ Len(t) \in Nat
  OBVIOUS
<1> QED
  BY <1>1, ConcatProperties

-----------------------------------------------------------------------------
(* The map of senders *)

\* Of a map in which each id is under what it watches, the id's senders.
LEMMA SendersAre ==
    ASSUME BusTypeOK, MapIsWatchedTargets, NEW x
    PROVE  /\ Senders(x) \subseteq alive
           /\ \A i \in Senders(x) : watches[i] = x
  BY DEF Senders, MapIsWatchedTargets

\* What remains of the map when some senders are removed.
LEMMA WithoutSenders ==
    ASSUME BusTypeOK, MapIsWatchedTargets, NEW cut,
           targets' = Watched([x \in DOMAIN targets |-> targets[x] \ cut]),
           alive' \subseteq alive, alive \ cut \subseteq alive', watches' = watches
    PROVE  /\ targets' = [x \in DOMAIN targets' |-> targets'[x]]
           /\ DOMAIN targets' \subseteq DOMAIN targets
           /\ \A x : Senders(x)' = Senders(x) \ cut
           /\ MapIsWatchedTargets'
<1> DEFINE map == [x \in DOMAIN targets |-> targets[x] \ cut]
           kept == {x \in DOMAIN map : map[x] # {}}
<1>1. targets' = [x \in kept |-> map[x]]
  BY DEF Watched
<1>2. /\ DOMAIN targets' = kept /\ kept \subseteq DOMAIN targets
      /\ \A x \in kept : targets'[x] = targets[x] \ cut
  BY <1>1
<1>3. targets' = [x \in DOMAIN targets' |-> targets'[x]]
  BY <1>1
<1>4. ASSUME NEW x PROVE Senders(x)' = Senders(x) \ cut
  <2>1. CASE x \in kept
    BY <1>2, <2>1 DEF Senders
  <2>2. CASE x \notin kept /\ x \in DOMAIN targets
    BY <1>2, <2>2 DEF Senders
  <2>3. CASE x \notin DOMAIN targets
    BY <1>2, <2>3 DEF Senders
  <2> QED
    BY <2>1, <2>2, <2>3
<1>5. MapIsWatchedTargets'
  <2>1. \A x \in DOMAIN targets' : targets'[x] # {}
    BY <1>2
  <2>2. \A x \in DOMAIN targets' : \A i \in targets'[x] : i \in alive' /\ watches'[i] = x
    BY <1>2 DEF MapIsWatchedTargets
  <2> QED
    BY <2>1, <2>2 DEF MapIsWatchedTargets
<1> QED
  BY <1>2, <1>3, <1>4, <1>5

\* Who gets a change: the senders whose target it touches.
LEMMA ReceiversAre ==
    ASSUME BusTypeOK, MapIsWatchedTargets, NEW c, NEW i
    PROVE  i \in UNION {Senders(x) : x \in TargetsOf(c)}
              <=> i \in Senders(watches[i]) /\ watches[i] \in TargetsOf(c)
  BY SendersAre

LEMMA TargetsWatchable ==
    ASSUME NEW c \in Changes
    PROVE  TargetsOf(c) \subseteq Watchable
  BY DEF Changes, TargetsOf, Watchable, All

-----------------------------------------------------------------------------
(* What one subscription sees *)

LEMMA SeenIsSeq ==
    ASSUME BusTypeOK, NEW i \in Ids
    PROVE  /\ Seen(i) \in Seq(Nat)
           /\ Wanted(i) \subseteq Nat
           /\ \A n \in Wanted(i) : n <= Len(log)
<1>1. chan[i] \in Seq(Nat) /\ got[i] \in Seq(Nat) /\ Len(log) \in Nat
  BY DEF BusTypeOK
<1> QED
  BY <1>1, ConcatProperties DEF Seen, Wanted

\* A step that shows it nothing new.
LEMMA SeenKept ==
    ASSUME BusTypeOK, NEW i \in Ids, GapFree(i),
           Seen(i)' = Seen(i), Wanted(i)' = Wanted(i),
           Len(chan'[i]) <= Buffer + 1,
           Senders(watches[i])' \subseteq Senders(watches[i]), watches'[i] = watches[i]
    PROVE  GapFree(i)'
  BY DEF GapFree

\* An event more, and the last one.
LEMMA SeenOneMore ==
    ASSUME BusTypeOK, NEW i \in Ids, GapFree(i),
           NEW n, n = Len(log) + 1,
           Seen(i)' = Append(Seen(i), n), Wanted(i)' = Wanted(i) \cup {n},
           Len(chan'[i]) <= Buffer + 1,
           i \in Senders(watches[i])
    PROVE  GapFree(i)'
<1>1. /\ Seen(i) \in Seq(Nat) /\ Len(Seen(i)) \in Nat /\ DOMAIN Seen(i) = 1 .. Len(Seen(i))
      /\ n \in Nat
      /\ \A m \in Wanted(i) : m < n
  BY SeenIsSeq DEF BusTypeOK
<1>2. /\ DOMAIN Seen(i)' = 1 .. Len(Seen(i)) + 1
      /\ Seen(i)'[Len(Seen(i)) + 1] = n
      /\ \A m \in 1 .. Len(Seen(i)) : Seen(i)'[m] = Seen(i)[m]
  BY <1>1, AppendProperties
<1>3. ToSet(Seen(i))' = ToSet(Seen(i)) \cup {n}
  BY <1>1, <1>2 DEF ToSet
<1>4. \A m \in DOMAIN Seen(i) : Seen(i)[m] < n
  BY <1>1 DEF GapFree, ToSet
<1>5. \A m, k \in DOMAIN Seen(i)' : m < k => Seen(i)'[m] < Seen(i)'[k]
  BY <1>1, <1>2, <1>4 DEF GapFree
<1>6. Wanted(i) \subseteq ToSet(Seen(i))
  BY DEF GapFree
<1> QED
  BY <1>3, <1>5, <1>6 DEF GapFree

\* An event it is cut off from.
LEMMA SeenNoMore ==
    ASSUME BusTypeOK, NEW i \in Ids, GapFree(i),
           Seen(i)' = Seen(i), Wanted(i)' \subseteq Wanted(i) \cup {Len(log) + 1},
           Wanted(i) \subseteq Wanted(i)',
           Len(chan'[i]) <= Buffer + 1,
           i \notin Senders(watches[i])', watches'[i] = watches[i]
    PROVE  GapFree(i)'
<1>1. \A m \in ToSet(Seen(i)) : m \in Nat /\ m <= Len(log)
  BY SeenIsSeq DEF GapFree
<1>2. \A m \in ToSet(Seen(i)) : ~(Len(log) + 1 < m)
  BY <1>1 DEF BusTypeOK
<1> QED
  BY <1>2 DEF GapFree

-----------------------------------------------------------------------------
(* Steps *)

LEMMA GapFreeAll == NoGaps <=> \A i \in 0 .. nextId - 1 : GapFree(i)
  BY DEF NoGaps, GapFree

LEMMA BusInvInit == BusInit => BusInv
<1> SUFFICES ASSUME BusInit PROVE BusInv
  OBVIOUS
<1> USE DEF BusInit
<1>1. BusTypeOK
  <2>1. All \in Watchable
    BY DEF All, Watchable
  <2>2. <<>> \in Seq(Nat) /\ <<>> \in Seq(Changes)
    BY EmptySeq
  <2>3. targets = [x \in DOMAIN targets |-> targets[x]] /\ DOMAIN targets = {}
    BY SMT
  <2> QED
    BY <2>1, <2>2, <2>3, EventBusAssumption DEF BusTypeOK
<1>2. Unborn /\ NoGaps
  BY DEF Unborn, NoGaps
<1>3. MapIsWatchedTargets
  BY DEF MapIsWatchedTargets
<1> QED
  BY <1>1, <1>2, <1>3 DEF BusInv

LEMMA SubscribeKeeps ==
    ASSUME BusInv, NEW x \in Watchable, Subscribe(x)
    PROVE  BusInv'
<1> USE DEF BusInv
<1>1. /\ nextId \in Ids /\ nextId \in Nat /\ nextId' = nextId + 1 /\ nextId' \in 0 .. MaxSubs
      /\ chan' = chan /\ got' = got /\ log' = log
      /\ watches' = [watches EXCEPT ![nextId] = x]
      /\ alive' = alive \cup {nextId}
      /\ since' = [since EXCEPT ![nextId] = Len(log)]
  BY EventBusAssumption DEF Subscribe, BusTypeOK, Ids
<1>2. /\ targets' = [y \in DOMAIN targets \cup {x} |->
                        IF y = x THEN Senders(x) \cup {nextId} ELSE targets[y]]
  BY DEF Subscribe
<1>3. \A y : y # x => Senders(y)' = Senders(y)
  BY <1>2 DEF Senders
<1>4. Senders(x)' = Senders(x) \cup {nextId}
  BY <1>2 DEF Senders
<1>5. BusTypeOK'
  <2>1. targets' = [y \in DOMAIN targets' |-> targets'[y]] /\ DOMAIN targets' \subseteq Watchable
    BY <1>2 DEF BusTypeOK
  <2>2. alive' \subseteq 0 .. nextId' - 1
    BY <1>1 DEF BusTypeOK
  <2>3. watches' \in [Ids -> Watchable] /\ since' \in [Ids -> 0 .. Len(log')]
    BY <1>1 DEF BusTypeOK
  <2> QED
    BY <1>1, <2>1, <2>2, <2>3 DEF BusTypeOK
<1>6. \A i \in alive : i # nextId /\ i \in Ids /\ watches'[i] = watches[i]
  BY <1>1, EventBusAssumption DEF BusTypeOK, Ids
<1>7. MapIsWatchedTargets'
  <2>1. \A y \in DOMAIN targets' : targets'[y] # {}
    BY <1>2 DEF MapIsWatchedTargets
  <2>2. watches'[nextId] = x
    BY <1>1 DEF BusTypeOK
  <2>3. \A i \in Senders(x)' : i \in alive' /\ watches'[i] = x
    BY <1>1, <1>4, <1>6, <2>2, SendersAre
  <2>4. ASSUME NEW y \in DOMAIN targets', y # x, NEW i \in targets'[y]
        PROVE  i \in alive' /\ watches'[i] = y
    BY <1>1, <1>2, <1>6, <2>4 DEF MapIsWatchedTargets
  <2>5. targets'[x] = Senders(x)'
    BY <1>2 DEF Senders
  <2> QED
    BY <2>1, <2>3, <2>4, <2>5 DEF MapIsWatchedTargets
<1>8. ASSUME NEW i \in 0 .. nextId - 1 PROVE GapFree(i)'
  <2>1. i \in Ids /\ i # nextId /\ GapFree(i)
    BY <1>1, GapFreeAll, EventBusAssumption DEF Ids
  <2>2. watches'[i] = watches[i] /\ since'[i] = since[i]
    BY <1>1, <2>1 DEF BusTypeOK
  <2>3. Seen(i)' = Seen(i) /\ Wanted(i)' = Wanted(i)
    BY <1>1, <2>2 DEF Seen, Wanted
  <2>4. i \in Senders(watches[i])' => i \in Senders(watches[i])
    BY <1>2, <2>1, <2>2 DEF Senders
  <2> QED
    BY <1>1, <2>1, <2>2, <2>3, <2>4 DEF GapFree
<1>9. PICK id : id = nextId
  OBVIOUS
<1>10. GapFree(id)'
  <2>1. chan'[id] = <<>> /\ got'[id] = <<>> /\ since'[id] = Len(log')
    BY <1>1, <1>9 DEF Unborn, BusTypeOK, Ids
  <2>2. Seen(id)' = <<>>
    BY <2>1, EmptySeq, ConcatEmptySeq DEF Seen
  <2>3. Wanted(id)' = {}
    BY <1>1, <2>1 DEF Wanted, BusTypeOK
  <2>4. Len(chan'[id]) <= Buffer + 1
    BY <2>1, EventBusAssumption
  <2>5. ToSet(Seen(id))' = {} /\ DOMAIN Seen(id)' = {}
    BY <2>2 DEF ToSet
  <2> QED
    BY <2>3, <2>4, <2>5 DEF GapFree
<1>12. NoGaps'
  <2>1. \A i \in 0 .. nextId' - 1 : i = id \/ i \in 0 .. nextId - 1
    BY <1>1, <1>9
  <2>2. \A i \in 0 .. nextId' - 1 : GapFree(i)'
    BY <1>8, <1>10, <2>1
  <2> QED
    BY <2>2 DEF NoGaps, GapFree
<1>11. Unborn'
  BY <1>1 DEF Unborn, Ids, BusTypeOK
<1> QED
  BY <1>5, <1>7, <1>12, <1>11

LEMMA PublishKeeps ==
    ASSUME BusInv, NEW c \in Changes, Publish(c)
    PROVE  BusInv'
<1> USE DEF BusInv
<1> DEFINE receivers == UNION {Senders(x) : x \in TargetsOf(c)}
           cut == {i \in receivers : Full(i)}
           n == Len(log) + 1
<1>1. /\ log' = Append(log, c)
      /\ targets' = Watched([x \in DOMAIN targets |-> targets[x] \ cut])
      /\ nextId' = nextId /\ watches' = watches /\ alive' = alive
      /\ got' = got /\ since' = since
  BY DEF Publish
<1>2. /\ Len(log) \in Nat /\ n \in Nat /\ log' \in Seq(Changes)
      /\ Len(log') = n /\ log'[n] = c
      /\ \A m \in 1 .. Len(log) : log'[m] = log[m]
  BY <1>1, AppendProperties DEF BusTypeOK
<1>3. chan' = [i \in Ids |-> IF i \in receivers \ cut THEN Append(chan[i], n) ELSE chan[i]]
  BY <1>2 DEF Publish
<1>4. \A i : i \in receivers <=> i \in Senders(watches[i]) /\ watches[i] \in TargetsOf(c)
  BY ReceiversAre
<1>5. receivers \subseteq alive
  BY <1>4, SendersAre
<1> HIDE DEF receivers
<1>6. /\ targets' = [x \in DOMAIN targets' |-> targets'[x]]
      /\ DOMAIN targets' \subseteq DOMAIN targets
      /\ \A x : Senders(x)' = Senders(x) \ cut
      /\ MapIsWatchedTargets'
  <2> HIDE DEF cut
  <2> QED
    BY <1>1, WithoutSenders
<1>7. BusTypeOK' /\ Unborn'
  <2>1. chan' \in [Ids -> Seq(Nat)]
    BY <1>2, <1>3, AppendProperties DEF BusTypeOK
  <2>2. \A i \in Ids : i >= nextId => i \notin receivers
    BY <1>5, EventBusAssumption DEF BusTypeOK, Ids
  <2>3. DOMAIN targets' \subseteq Watchable
    BY <1>6 DEF BusTypeOK
  <2>4. BusTypeOK'
    BY <1>1, <1>2, <1>6, <2>1, <2>3 DEF BusTypeOK
  <2>5. Unborn'
    BY <1>1, <1>3, <2>2 DEF Unborn
  <2> QED
    BY <2>4, <2>5
<1>8. ASSUME NEW i \in 0 .. nextId - 1 PROVE GapFree(i)'
  <2>1. i \in Ids /\ GapFree(i)
    BY GapFreeAll, EventBusAssumption DEF Ids, BusTypeOK
  <2>2. /\ got[i] \in Seq(Nat) /\ chan[i] \in Seq(Nat) /\ Len(chan[i]) \in Nat
        /\ Len(chan[i]) <= Buffer + 1
    BY <2>1 DEF BusTypeOK, GapFree
  <2>3. since[i] \in Nat /\ n > since[i]
    BY <1>2, <2>1 DEF BusTypeOK
  <2>4. Wanted(i)' = IF watches[i] \in TargetsOf(c) THEN Wanted(i) \cup {n} ELSE Wanted(i)
    <3>1. \A m : m \in 1 .. n <=> m \in 1 .. Len(log) \/ m = n
      BY <1>2
    <3> HIDE DEF n
    <3>2. \A m : m \in Wanted(i)' <=>
                     m \in 1 .. n /\ m > since[i] /\ watches[i] \in TargetsOf(log'[m])
      BY <1>1, <1>2 DEF Wanted
    <3>3. \A m : m \in Wanted(i)' <=>
                     \/ m \in Wanted(i)
                     \/ m = n /\ n > since[i] /\ watches[i] \in TargetsOf(c)
      BY <1>2, <3>1, <3>2 DEF Wanted
    <3> QED
      BY <2>3, <3>3
  <2>5. Senders(watches[i])' = Senders(watches[i]) \ cut
    BY <1>1, <1>6
  <2> HIDE DEF n
  <2>6. CASE i \in receivers \ cut
    <3>1. chan'[i] = Append(chan[i], n) /\ ~Full(i)
      BY <1>3, <2>1, <2>6
    <3>2. Len(chan'[i]) <= Buffer + 1
      BY <1>2, <2>2, <3>1, AppendProperties, EventBusAssumption DEF Full
    <3>3. Seen(i)' = Append(Seen(i), n)
      BY <1>1, <1>2, <2>2, <3>1, AppendAtEnd, ZenonT(60) DEF Seen
    <3>4. i \in Senders(watches[i]) /\ Wanted(i)' = Wanted(i) \cup {n}
      BY <1>4, <2>4, <2>6
    <3> QED
      BY <2>1, <3>2, <3>3, <3>4, SeenOneMore DEF n
  <2>7. CASE i \notin receivers \ cut
    <3>1. chan'[i] = chan[i]
      BY <1>3, <2>1, <2>7
    <3>2. Seen(i)' = Seen(i) /\ Len(chan'[i]) <= Buffer + 1
      BY <1>1, <2>2, <3>1 DEF Seen
    <3>3. CASE watches[i] \in TargetsOf(c)
      <4>1. i \notin Senders(watches[i])'
        BY <1>4, <2>5, <2>7, <3>3
      <4> QED
        BY <1>1, <2>1, <2>4, <3>2, <4>1, SeenNoMore DEF n
    <3>4. CASE watches[i] \notin TargetsOf(c)
      BY <1>1, <2>1, <2>4, <2>5, <3>2, <3>4, SeenKept
    <3> QED
      BY <3>3, <3>4
  <2> QED
    BY <2>6, <2>7
<1>9. NoGaps'
  BY <1>1, <1>8 DEF NoGaps, GapFree
<1> QED
  BY <1>6, <1>7, <1>9

LEMMA PollKeeps ==
    ASSUME BusInv, NEW i \in Ids, Poll(i)
    PROVE  BusInv'
<1> USE DEF BusInv
<1>1. /\ targets' = targets /\ nextId' = nextId /\ watches' = watches /\ alive' = alive
      /\ since' = since /\ log' = log /\ i \in alive
  BY DEF Poll
<1>2. MapIsWatchedTargets'
  BY <1>1 DEF MapIsWatchedTargets
<1>3. CASE UNCHANGED <<got, chan>>
  <2>1. BusTypeOK' /\ Unborn'
    BY <1>1, <1>3 DEF BusTypeOK, Unborn
  <2>2. NoGaps'
    BY <1>1, <1>3, ZenonT(60) DEF NoGaps, Seen, Wanted, Senders
  <2> QED
    BY <1>2, <2>1, <2>2
<1>4. CASE /\ chan[i] # <<>>
           /\ got' = [got EXCEPT ![i] = Append(@, Head(chan[i]))]
           /\ chan' = [chan EXCEPT ![i] = Tail(@)]
  <2>1. /\ got[i] \in Seq(Nat) /\ chan[i] \in Seq(Nat)
        /\ Head(chan[i]) \in Nat /\ Tail(chan[i]) \in Seq(Nat)
        /\ Len(Tail(chan[i])) = Len(chan[i]) - 1 /\ Len(chan[i]) \in Nat
    BY <1>4, HeadTailProperties DEF BusTypeOK
  <2>2. /\ got'[i] = Append(got[i], Head(chan[i])) /\ chan'[i] = Tail(chan[i])
        /\ \A j \in Ids \ {i} : got'[j] = got[j] /\ chan'[j] = chan[j]
    BY <1>4 DEF BusTypeOK
  <2>3. BusTypeOK'
    BY <1>1, <1>4, <2>1, AppendProperties DEF BusTypeOK
  <2>4. Unborn'
    <3>1. i < nextId
      BY <1>1, EventBusAssumption DEF BusTypeOK, Ids
    <3>2. ASSUME NEW j \in Ids, j >= nextId' PROVE chan'[j] = <<>> /\ got'[j] = <<>>
      <4>1. j # i /\ j >= nextId
        BY <1>1, <3>1, <3>2, EventBusAssumption DEF Ids, BusTypeOK
      <4> QED
        BY <2>2, <4>1 DEF Unborn
    <3> QED
      BY <3>2 DEF Unborn
  <2>5. Seen(i)' = Seen(i)
    <3>1. Append(got[i], Head(chan[i])) \o Tail(chan[i]) = got[i] \o chan[i]
      BY <1>4, <2>1, HeadMoves
    <3> QED
      BY <2>2, <3>1 DEF Seen
  <2>6. ASSUME NEW j \in 0 .. nextId - 1 PROVE GapFree(j)'
    <3>1. j \in Ids /\ GapFree(j)
      BY GapFreeAll, EventBusAssumption DEF Ids, BusTypeOK
    <3>2. Seen(j)' = Seen(j)
      <4>1. CASE j = i
        BY <2>5, <4>1
      <4>2. CASE j # i
        BY <2>2, <3>1, <4>2 DEF Seen
      <4> QED
        BY <4>1, <4>2
    <3>3. Len(chan'[j]) <= Buffer + 1
      <4>1. CASE j = i
        <5>1. Len(chan[i]) <= Buffer + 1 /\ chan'[j] = Tail(chan[i])
          BY <2>2, <3>1, <4>1 DEF GapFree
        <5> QED
          BY <2>1, <5>1, EventBusAssumption
      <4>2. CASE j # i
        BY <2>2, <3>1, <4>2 DEF GapFree
      <4> QED
        BY <4>1, <4>2
    <3> QED
      BY <1>1, <3>1, <3>2, <3>3, SeenKept DEF Wanted, Senders
  <2>7. NoGaps'
    BY <1>1, <2>6 DEF NoGaps, GapFree
  <2> QED
    BY <1>2, <2>3, <2>4, <2>7
<1> QED
  BY <1>3, <1>4 DEF Poll

LEMMA UnsubscribeKeeps ==
    ASSUME BusInv, NEW i \in Ids, Unsubscribe(i)
    PROVE  BusInv'
<1> USE DEF BusInv
<1>1. /\ targets' = Watched([x \in DOMAIN targets |-> targets[x] \ {i}])
      /\ alive' = alive \ {i} /\ chan' = [chan EXCEPT ![i] = <<>>]
      /\ nextId' = nextId /\ watches' = watches /\ got' = got
      /\ since' = since /\ log' = log /\ i \in alive
  BY DEF Unsubscribe
<1>2. /\ targets' = [x \in DOMAIN targets' |-> targets'[x]]
      /\ DOMAIN targets' \subseteq DOMAIN targets
      /\ \A x : Senders(x)' = Senders(x) \ {i}
      /\ MapIsWatchedTargets'
  BY <1>1, WithoutSenders
<1>3. /\ chan'[i] = <<>> /\ \A j \in Ids \ {i} : chan'[j] = chan[j]
      /\ chan' \in [Ids -> Seq(Nat)]
  BY <1>1, EmptySeq DEF BusTypeOK
<1>4. BusTypeOK'
  BY <1>1, <1>2, <1>3 DEF BusTypeOK
<1>5. Unborn'
  BY <1>1, <1>3 DEF Unborn
<1>6. ASSUME NEW j \in 0 .. nextId - 1 PROVE GapFree(j)'
  <2>1. j \in Ids /\ GapFree(j)
    BY GapFreeAll, EventBusAssumption DEF Ids, BusTypeOK
  <2>2. Wanted(j)' = Wanted(j) /\ Senders(watches[j])' = Senders(watches[j]) \ {i}
    BY <1>1, <1>2 DEF Wanted
  <2>3. CASE j # i
    <3>1. Seen(j)' = Seen(j) /\ chan'[j] = chan[j]
      BY <1>1, <1>3, <2>1, <2>3 DEF Seen
    <3> QED
      BY <1>1, <2>1, <2>2, <3>1, SeenKept DEF GapFree
  <2>4. CASE j = i
    <3>1. /\ got[j] \in Seq(Nat) /\ chan[j] \in Seq(Nat) /\ got'[j] = got[j]
          /\ chan'[j] = <<>> /\ Len(got[j]) \in Nat /\ Len(chan[j]) \in Nat
      BY <1>1, <1>3, <2>1, <2>4 DEF BusTypeOK
    <3>2. Seen(j)' = got[j]
      BY <3>1, ConcatEmptySeq DEF Seen
    <3>3. /\ Seen(j) \in Seq(Nat) /\ Len(got[j]) <= Len(Seen(j)) /\ Len(Seen(j)) \in Nat
          /\ \A m \in 1 .. Len(got[j]) : Seen(j)[m] = got[j][m]
      BY <3>1, Prefixed DEF Seen
    <3>4. ToSet(Seen(j)) = {Seen(j)[m] : m \in 1 .. Len(Seen(j))}
      BY <3>3 DEF ToSet
    <3>5. ToSet(Seen(j))' = {got[j][m] : m \in 1 .. Len(got[j])}
      BY <3>1, <3>2 DEF ToSet
    <3>6. ToSet(Seen(j))' \subseteq ToSet(Seen(j))
      <4>1. ASSUME NEW m \in 1 .. Len(got[j])
            PROVE  got[j][m] \in {Seen(j)[k] : k \in 1 .. Len(Seen(j))}
        <5>1. m \in 1 .. Len(Seen(j))
          BY <3>1, <3>3
        <5>2. got[j][m] = Seen(j)[m]
          BY <3>3
        <5> QED
          BY <5>1, <5>2
      <4> QED
        BY <3>4, <3>5, <4>1
    <3>7. \A m, k \in DOMAIN Seen(j)' : m < k => Seen(j)'[m] < Seen(j)'[k]
      <4>1. DOMAIN Seen(j)' = 1 .. Len(got[j]) /\ DOMAIN Seen(j) = 1 .. Len(Seen(j))
        BY <3>1, <3>2, <3>3
      <4>2. \A m \in 1 .. Len(got[j]) : m \in 1 .. Len(Seen(j)) /\ Seen(j)'[m] = Seen(j)[m]
        BY <3>1, <3>2, <3>3
      <4> QED
        BY <2>1, <4>1, <4>2 DEF GapFree
    <3>8. ASSUME NEW w \in Wanted(j), NEW m \in ToSet(Seen(j))', w < m
          PROVE  w \in ToSet(Seen(j))'
      <4>1. w \in ToSet(Seen(j))
        BY <2>1, <3>6, <3>8 DEF GapFree
      <4>2. PICK k \in 1 .. Len(Seen(j)) : w = Seen(j)[k]
        BY <3>4, <4>1
      <4>3. PICK l \in 1 .. Len(got[j]) : m = Seen(j)[l]
        BY <3>3, <3>5
      <4>4. k < l
        <5> SUFFICES ASSUME ~(k < l) PROVE FALSE
          OBVIOUS
        <5>1. Seen(j)[l] \in Nat /\ Seen(j)[k] \in Nat /\ l \in 1 .. Len(Seen(j))
          BY <3>1, <3>3, SMTT(30)
        <5>2. l = k \/ Seen(j)[l] < Seen(j)[k]
          BY <2>1, <3>3, <5>1 DEF GapFree
        <5> QED
          BY <3>8, <4>2, <4>3, <5>1, <5>2
      <4>5. k \in 1 .. Len(got[j])
        BY <3>1, <4>2, <4>3, <4>4
      <4> QED
        BY <3>3, <3>5, <4>2, <4>5
    <3>9. i \notin Senders(watches[j])'
      BY <2>2
    <3>10. Len(chan'[j]) <= Buffer + 1
      BY <3>1, EventBusAssumption
    <3> QED
      BY <2>1, <2>2, <2>4, <3>6, <3>7, <3>8, <3>9, <3>10 DEF GapFree
  <2> QED
    BY <2>3, <2>4
<1>7. NoGaps'
  BY <1>1, <1>6 DEF NoGaps, GapFree
<1> QED
  BY <1>2, <1>4, <1>5, <1>7

LEMMA BusInvStep == BusInv /\ [BusNext]_busVars => BusInv'
<1> SUFFICES ASSUME BusInv, [BusNext]_busVars PROVE BusInv'
  OBVIOUS
<1>1. CASE UNCHANGED busVars
  <2> USE <1>1 DEF busVars, BusInv
  <2>1. BusTypeOK'
    BY DEF BusTypeOK
  <2>2. Unborn' /\ MapIsWatchedTargets'
    BY DEF Unborn, MapIsWatchedTargets
  <2>3. NoGaps'
    BY ZenonT(60) DEF NoGaps, Seen, Wanted, Senders
  <2> QED
    BY <2>1, <2>2, <2>3
<1> QED
  BY <1>1, SubscribeKeeps, PublishKeeps, PollKeeps, UnsubscribeKeeps DEF BusNext

LEMMA BusInvAlways == BusSpec => []BusInv
  BY BusInvInit, BusInvStep, PTL DEF BusSpec

\* The state of the bus keeps its types.
THEOREM EventBusTypeOK == BusSpec => []BusTypeOK
<1>1. BusInv => BusTypeOK
  BY DEF BusInv
<1> QED
  BY <1>1, BusInvAlways, PTL

(***************************************************************************)
(* What a subscriber gets, and still has in its channel, is what was       *)
(* published for its target since it subscribed, in order, once each and   *)
(* without a gap; the channel keeps its bound.                             *)
(***************************************************************************)
THEOREM EventBusNoGaps == BusSpec => []NoGaps
<1>1. BusInv => NoGaps
  BY DEF BusInv
<1> QED
  BY <1>1, BusInvAlways, PTL

(***************************************************************************)
(* The map of senders holds exactly the targets somebody watches, each     *)
(* sender under its own: publish() and a subscription's destructor leave   *)
(* nothing behind.                                                         *)
(***************************************************************************)
THEOREM EventBusMapIsWatchedTargets == BusSpec => []MapIsWatchedTargets
<1>1. BusInv => MapIsWatchedTargets
  BY DEF BusInv
<1> QED
  BY <1>1, BusInvAlways, PTL

\* A step that takes the sender of one that stays.
LEMMA CutStep ==
    ASSUME BusInv, [BusNext]_busVars
    PROVE  \A i \in alive \cap alive' :
              i \in Senders(watches[i]) /\ i \notin Senders(watches[i])' => Full(i)
<1> SUFFICES ASSUME NEW i \in alive, i \in alive', i \in Senders(watches[i]),
                    i \notin Senders(watches[i])'
             PROVE  Full(i)
  OBVIOUS
<1> USE DEF BusInv
<1>1. CASE UNCHANGED <<targets, watches>>
  BY <1>1 DEF Senders
<1>2. ASSUME NEW x \in Watchable, Subscribe(x) PROVE FALSE
  <2>1. i # nextId /\ watches'[i] = watches[i]
    BY <1>2, EventBusAssumption DEF Subscribe, BusTypeOK, Ids
  <2> QED
    BY <1>2, <2>1 DEF Subscribe, Senders
<1>3. ASSUME NEW c \in Changes, Publish(c) PROVE Full(i)
  <2> DEFINE receivers == UNION {Senders(x) : x \in TargetsOf(c)}
             cut == {j \in receivers : Full(j)}
  <2>1. targets' = Watched([x \in DOMAIN targets |-> targets[x] \ cut])
        /\ alive' = alive /\ watches' = watches
    BY <1>3 DEF Publish
  <2> HIDE DEF cut
  <2>2. Senders(watches[i])' = Senders(watches[i]) \ cut
    BY <2>1, WithoutSenders
  <2> QED
    BY <2>2 DEF cut
<1>4. ASSUME NEW j \in Ids, Unsubscribe(j) PROVE FALSE
  <2>1. /\ targets' = Watched([x \in DOMAIN targets |-> targets[x] \ {j}])
        /\ alive' = alive \ {j} /\ watches' = watches
    BY <1>4 DEF Unsubscribe
  <2>2. Senders(watches[i])' = Senders(watches[i]) \ {j}
    BY <2>1, WithoutSenders
  <2> QED
    BY <2>1, <2>2
<1>5. ASSUME NEW j \in Ids, Poll(j) PROVE Full(i)
  <2>1. UNCHANGED <<targets, watches>>
    BY <1>5 DEF Poll
  <2> QED
    BY <1>1, <2>1
<1> QED
  BY <1>1, <1>2, <1>3, <1>4, <1>5 DEF BusNext, busVars

(***************************************************************************)
(* A subscription that is not dropped keeps its sender until an event      *)
(* finds its channel full, whatever the other subscriptions do.            *)
(***************************************************************************)
THEOREM EventBusOnlyLaggardsAreCut == BusSpec => OnlyLaggardsAreCut
<1>1. BusInv /\ [BusNext]_busVars =>
        [\A i \in alive \cap alive' :
            i \in Senders(watches[i]) /\ i \notin Senders(watches[i])' => Full(i)]_busVars
  BY CutStep
<1> QED
  BY <1>1, BusInvAlways, PTL DEF BusSpec, OnlyLaggardsAreCut

-----------------------------------------------------------------------------
(* Clocks of replicas that exchange entries *)

PeersTypeOK ==
    /\ hlc \in [Peers -> Timestamp]
    /\ stored \in [Peers -> Timestamp]
    /\ batches \in [Peers -> SUBSET Batches]
    /\ entries \in [Peers -> SUBSET Entries]
    /\ steps \in [Peers -> 0 .. MaxSteps]
    /\ crashes \in Nat

\* As far as the wall clock of p and the accepted skew go.
Window(p) == Raw([ms |-> LastReading(p) + MaxSkew, ctr |-> CounterMax])

WithinLead(p, t) == Raw(t) <= Window(p) + steps[p]

\* A restart loads the stored clock, which was a batch's before: the bound
\* has to hold of all three.
LeadInv ==
    \A p \in Peers :
        /\ WithinLead(p, hlc[p])
        /\ WithinLead(p, stored[p])
        /\ \A b \in batches[p] : WithinLead(p, b.clock)

\* The entries p has stored or is about to store.
AtHand(p) == entries[p] \cup {b.entry : b \in batches[p]}

\* Until somebody restarts, no clock is behind an entry at hand.
CausalInv ==
    crashes = 0 =>
        \A p \in Peers : \A e \in AtHand(p) : AtMost(e.ts, hlc[p]) /\ Before(e.seen, e.ts)

-----------------------------------------------------------------------------
(* Arithmetic of the packed timestamp *)

\* Multiplication by the width of the counter keeps the order.
LEMMA TimesWidth ==
    ASSUME NEW a \in Nat, NEW b \in Nat, a <= b
    PROVE  a * (CounterMax + 1) <= b * (CounterMax + 1)
<1> DEFINE w == CounterMax + 1
<1>1. w \in Nat
  BY HlcAssumption, SMT
<1>2. PICK d \in Nat : b = a + d
  <2>1. b - a \in Nat /\ b = a + (b - a)
    BY SMT
  <2> QED
    BY <2>1, Zenon
<1> HIDE DEF w
<1>3. b * w = a * w + d * w /\ a * w \in Nat /\ d * w \in Nat
  BY <1>1, <1>2, SMT
<1>4. a * w <= b * w
  BY <1>3, SMT
<1> QED
  BY <1>4 DEF w

\* A packed timestamp is a number.
LEMMA RawType ==
    \A t \in Timestamp : Raw(t) \in Nat
<1> SUFFICES ASSUME NEW t \in Timestamp PROVE Raw(t) \in Nat
  OBVIOUS
<1>1. t.ms \in Nat /\ t.ctr \in Nat /\ CounterMax + 1 \in Nat
  BY HlcAssumption, SMT DEF Timestamp
<1> DEFINE x == t.ms * (CounterMax + 1)
<1>2. x \in Nat
  BY <1>1, SMT
<1> HIDE DEF x
<1>3. x + t.ctr \in Nat
  BY <1>1, <1>2, SMT
<1> QED
  BY <1>3 DEF x, Raw

\* bump() adds one to the packed value, carry included.
LEMMA BumpIsOne ==
    ASSUME NEW t \in Timestamp, Bump(t) # Overflow
    PROVE  Raw(Bump(t)) = Raw(t) + 1
<1> DEFINE w == CounterMax + 1
<1>1. t.ms \in Nat /\ t.ctr \in 0 .. CounterMax /\ w \in Nat
  BY HlcAssumption, SMT DEF Timestamp
<1>2. (t.ms + 1) * w = t.ms * w + w /\ t.ms * w \in Nat
  <2> HIDE DEF w
  <2> QED
    BY <1>1, SMT
<1>3. CASE t.ctr = CounterMax
  <2>1. Bump(t) = [ms |-> t.ms + 1, ctr |-> 0]
    BY <1>3, Zenon DEF Bump, FromParts
  <2>2. Raw(Bump(t)) = (t.ms + 1) * w + 0
    <3>1. Bump(t).ms = t.ms + 1 /\ Bump(t).ctr = 0
      BY <2>1
    <3> QED
      BY <3>1, Zenon DEF Raw
  <2>3. Raw(t) = t.ms * w + CounterMax
    BY <1>3, Zenon DEF Raw
  <2> DEFINE x == t.ms * w
             y == (t.ms + 1) * w
  <2>4. x \in Nat /\ y = x + w /\ Raw(Bump(t)) = y + 0 /\ Raw(t) = x + CounterMax
    <3>1. x \in Nat /\ y = x + w
      BY <1>2
    <3> QED
      BY <2>2, <2>3, <3>1
  <2> HIDE DEF x, y
  <2> QED
    BY <2>4, HlcAssumption, SMT
<1>4. CASE t.ctr # CounterMax
  <2>1. Bump(t) = [ms |-> t.ms, ctr |-> t.ctr + 1]
    BY <1>4, Zenon DEF Bump, FromParts
  <2>2. Raw(Bump(t)) = t.ms * w + (t.ctr + 1)
    <3>1. Bump(t).ms = t.ms /\ Bump(t).ctr = t.ctr + 1
      BY <2>1
    <3> QED
      BY <3>1, Zenon DEF Raw
  <2>3. Raw(t) = t.ms * w + t.ctr
    BY Zenon DEF Raw
  <2> DEFINE x == t.ms * w
  <2>4. x \in Nat /\ Raw(Bump(t)) = x + (t.ctr + 1) /\ Raw(t) = x + t.ctr
    <3>1. x \in Nat
      BY <1>2
    <3> QED
      BY <2>2, <2>3, <3>1
  <2> HIDE DEF x
  <2> QED
    BY <1>1, <2>4, SMT
<1> QED
  BY <1>3, <1>4

\* A timestamp whose milliseconds are not ahead of the window is in it.
LEMMA InWindow ==
    ASSUME NEW p \in Peers, NEW t \in Timestamp,
           t.ms <= LastReading(p) + MaxSkew, LastReading(p) \in Nat
    PROVE  Raw(t) <= Window(p) /\ Window(p) \in Nat
<1> DEFINE m == LastReading(p) + MaxSkew
           w == CounterMax + 1
<1>1. t.ms \in Nat /\ t.ctr \in 0 .. CounterMax /\ m \in Nat /\ w \in Nat
  BY HlcAssumption, SMT DEF Timestamp
<1>2. t.ms * w <= m * w
  BY <1>1, TimesWidth
<1>3. Raw(t) = t.ms * w + t.ctr
  BY Zenon DEF Raw
<1>4. Window(p) = m * w + CounterMax
  BY Zenon DEF Raw, Window
<1> HIDE DEF m, w
<1>5. t.ms * w \in Nat /\ m * w \in Nat
  BY <1>1, SMT
<1> DEFINE x == t.ms * w
           y == m * w
<1>6. x \in Nat /\ y \in Nat /\ x <= y /\ Raw(t) = x + t.ctr /\ Window(p) = y + CounterMax
  BY <1>2, <1>3, <1>4, <1>5, Zenon
<1> HIDE DEF x, y
<1> QED
  BY <1>1, <1>6, HlcAssumption, SMT

\* The last reading is one, and no other is later.
LEMMA LastReadingIs ==
    ASSUME NEW p \in Peers
    PROVE  /\ LastReading(p) \in Nat
           /\ \A s \in ReadingsOf[p] : s \in Nat /\ s <= LastReading(p)
<1>1. ReadingsOf[p] \subseteq Nat
  BY HlcPeersAssumption, Zenon
<1>2. \E t \in ReadingsOf[p] : \A s \in ReadingsOf[p] : s <= t
  BY HlcPeersAssumption, Zenon
<1>3. LastReading(p) \in ReadingsOf[p] /\ \A s \in ReadingsOf[p] : s <= LastReading(p)
  BY <1>2, Zenon DEF LastReading
<1> QED
  BY <1>1, <1>3, Zenon

\* Of any timestamps one is the last: there are finitely many.
LEMMA LastTimestamp ==
    ASSUME NEW S \in SUBSET Timestamp, S # {}
    PROVE  \E t \in S : \A s \in S : AtMost(s, t)
<1> DEFINE Top == Raw([ms |-> MillisMax, ctr |-> CounterMax])
           Distance(t) == Top - Raw(t)
           Distances == {Distance(t) : t \in S}
<1>1. [ms |-> MillisMax, ctr |-> CounterMax] \in Timestamp
  BY HlcAssumption, SMT DEF Timestamp
<1>2. \A t \in S : AtMost(t, [ms |-> MillisMax, ctr |-> CounterMax])
  BY HlcAssumption, SMT DEF Timestamp, AtMost, Before
<1>3. \A t \in S : Raw(t) \in Nat /\ Raw(t) <= Top /\ Top \in Nat
  <2> SUFFICES ASSUME NEW t \in S PROVE Raw(t) \in Nat /\ Raw(t) <= Top /\ Top \in Nat
    OBVIOUS
  <2>1. t \in Timestamp
    OBVIOUS
  <2>2. Raw(t) \in Nat /\ Top \in Nat
    BY <1>1, <2>1, RawType
  <2>3. Raw(t) = Top \/ Raw(t) < Top
    BY <1>1, <1>2, <2>1, PackingKeepsOrder, Zenon DEF AtMost
  <2> HIDE DEF Top
  <2> QED
    BY <2>2, <2>3, SMT
<1> HIDE DEF Top
<1>4. Distances \subseteq Nat /\ Distances # {}
  <2>1. \A t \in S : Distance(t) \in Nat
    BY <1>3, SMT
  <2> QED
    BY <2>1, Zenon
<1>5. PICK n \in Distances : \A m \in Distances : n <= m
  <2> HIDE DEF Distances
  <2> DEFINE Less == OpToRel(<, Nat)
  <2>1. PICK n \in Distances : \A m \in Distances : <<m, n>> \notin Less
    BY <1>4, NatLessThanWellFounded, WFMin
  <2>2. \A m, k \in Nat : m < k => <<m, k>> \in Less
    BY DEF OpToRel
  <2> HIDE DEF Less
  <2>3. \A m \in Distances : n <= m
    <3> SUFFICES ASSUME NEW m \in Distances PROVE n <= m
      OBVIOUS
    <3>1. m \in Nat /\ n \in Nat /\ ~ (m < n)
      BY <1>4, <2>1, <2>2
    <3> QED
      BY <3>1
  <2> QED
    BY <2>3
<1>6. PICK t \in S : n = Distance(t)
  BY <1>5
<1>7. ASSUME NEW s \in S
      PROVE  AtMost(s, t)
  <2>1. Distance(t) <= Distance(s)
    BY <1>5, <1>6
  <2>2. ~ (Raw(t) < Raw(s))
    BY <1>3, <2>1, SMT
  <2>3. ~ Before(t, s)
    BY <2>2, PackingKeepsOrder
  <2> QED
    BY <2>3, AtMostOrBefore
<1> QED
  BY <1>7

\* The last entry seen is at hand, or none is.
LEMMA LastSeenIs ==
    ASSUME PeersTypeOK, NEW p \in Peers
    PROVE  /\ LastSeen(p) \in Timestamp
           /\ LastSeen(p) = ZeroTs \/ \E e \in entries[p] : LastSeen(p) = e.ts
<1> DEFINE S == {e.ts : e \in entries[p]} \cup {ZeroTs}
<1>1. S \in SUBSET Timestamp /\ S # {}
  BY ZeroIsLeast DEF PeersTypeOK, Entries
<1>2. \E t \in S : \A s \in S : AtMost(s, t)
  <2> HIDE DEF S
  <2> QED
    BY <1>1, LastTimestamp
<1>3. \E t \in S : \A e \in entries[p] : AtMost(e.ts, t)
  BY <1>2, Zenon
<1>4. LastSeen(p) \in S
  BY <1>3, Zenon DEF LastSeen
<1> QED
  BY <1>1, <1>4, Zenon

-----------------------------------------------------------------------------
(* What the steps do *)

\* The clock a call may move to.
Moves(p, next) ==
    \/ \E now \in ReadingsOf[p] : next = NextLocal(hlc[p], now)
    \/ \E q \in Peers : \E e \in entries[q], now \in ReadingsOf[p] :
          WithinSkew(now, e.ts) /\ next = NextAfter(hlc[p], e.ts)

\* A call moves the clock forward or leaves it, by at most one tick or into
\* the window.
LEMMA MoveEffect ==
    ASSUME PeersTypeOK, NEW p \in Peers, NEW next, Moves(p, next), next # Overflow
    PROVE  /\ next \in Timestamp
           /\ AtMost(hlc[p], next)
           /\ Raw(next) <= Raw(hlc[p]) + 1 \/ Raw(next) <= Window(p) + 1
<1>1. hlc[p] \in Timestamp /\ Raw(hlc[p]) \in Nat
  BY RawType, Zenon DEF PeersTypeOK
<1>2. ASSUME NEW now \in ReadingsOf[p], next = NextLocal(hlc[p], now)
      PROVE  /\ next \in Timestamp
             /\ AtMost(hlc[p], next)
             /\ Raw(next) <= Raw(hlc[p]) + 1 \/ Raw(next) <= Window(p) + 1
  <2>1. now \in Nat /\ now <= LastReading(p) /\ LastReading(p) \in Nat
    BY LastReadingIs, Zenon
  <2>2. next \in Timestamp /\ AtMost(hlc[p], next)
    BY <1>1, <1>2, <2>1, NextLocalAdvances, AtMostOrBefore, Zenon
  <2>3. CASE next = FromParts(now, 0)
    <3>1. next = [ms |-> now, ctr |-> 0]
      BY <2>3, Zenon DEF FromParts
    <3>2. next.ms <= LastReading(p) + MaxSkew
      BY <2>1, <3>1, HlcAssumption, SMT
    <3>3. Raw(next) <= Window(p) /\ Window(p) \in Nat
      BY <2>1, <2>2, <3>2, InWindow, Zenon
    <3>4. Raw(next) \in Nat
      BY <2>2, RawType, Zenon
    <3> QED
      BY <2>2, <3>3, <3>4, SMT
  <2>4. CASE next = Bump(hlc[p])
    <3>1. Raw(next) = Raw(hlc[p]) + 1
      BY <1>1, <2>4, BumpIsOne, Zenon
    <3> QED
      BY <1>1, <2>2, <3>1, SMT
  <2> QED
    BY <1>2, <2>3, <2>4, Zenon DEF NextLocal
<1>3. ASSUME NEW q \in Peers, NEW e \in entries[q], NEW now \in ReadingsOf[p],
             WithinSkew(now, e.ts), next = NextAfter(hlc[p], e.ts)
      PROVE  /\ next \in Timestamp
             /\ AtMost(hlc[p], next)
             /\ Raw(next) <= Raw(hlc[p]) + 1 \/ Raw(next) <= Window(p) + 1
  <2>1. e.ts \in Timestamp /\ Raw(e.ts) \in Nat
    BY RawType DEF PeersTypeOK, Entries
  <2>2. next \in Timestamp /\ AtMost(hlc[p], next)
    BY <1>1, <1>3, <2>1, NextAfterAdvances, Zenon
  <2>3. CASE next = hlc[p]
    BY <1>1, <2>2, <2>3, SMT
  <2>4. CASE next = Bump(e.ts)
    <3>1. Raw(next) = Raw(e.ts) + 1
      BY <2>1, <2>4, BumpIsOne, Zenon
    <3>2. now \in Nat /\ now <= LastReading(p) /\ LastReading(p) \in Nat
      BY LastReadingIs, Zenon
    <3>3. e.ts.ms \in Nat
      BY <2>1, HlcAssumption DEF Timestamp
    <3>4. e.ts.ms <= LastReading(p) + MaxSkew
      BY <1>3, <3>2, <3>3, HlcAssumption, SMT DEF WithinSkew
    <3>5. Raw(e.ts) <= Window(p) /\ Window(p) \in Nat
      BY <2>1, <3>2, <3>4, InWindow, Zenon
    <3> QED
      BY <2>1, <2>2, <3>1, <3>5, SMT
  <2> QED
    BY <1>3, <2>3, <2>4, Zenon DEF NextAfter
<1> QED
  BY <1>2, <1>3, Zenon DEF Moves

\* What Update() queues: the entry, and the new clock unless it is the old one.
Queued(p, next, entry) ==
    [entry |-> entry, clock |-> IF next = hlc[p] THEN ZeroTs ELSE next]

\* What a call queues is a batch.
LEMMA QueuedType ==
    ASSUME PeersTypeOK, NEW p \in Peers, NEW next \in Timestamp, NEW e \in Entries
    PROVE  Queued(p, next, e) \in Batches
BY ZeroIsLeast, Zenon DEF Queued, Batches

\* local_hlc() and observe_remote_hlc(), by what they have in common.
LEMMA CallEffect ==
    ASSUME PeersTypeOK, NEW p \in Peers, Local(p) \/ \E q \in Peers : Observe(p, q)
    PROVE  \E next \in Timestamp, e \in Entries :
              /\ Moves(p, next) /\ next # Overflow
              /\ \/ Before(hlc[p], next) /\ e.ts = next /\ e.seen = LastSeen(p)
                 \/ Before(e.ts, next) /\ \E q \in Peers : e \in entries[q]
              /\ hlc' = [hlc EXCEPT ![p] = next]
              /\ batches' = [batches EXCEPT ![p] = @ \cup {Queued(p, next, e)}]
              /\ steps' = [steps EXCEPT ![p] = @ + 1]
              /\ steps[p] < MaxSteps
              /\ UNCHANGED <<stored, entries, crashes>>
<1>0. hlc[p] \in Timestamp
  BY Zenon DEF PeersTypeOK
<1>1. CASE Local(p)
  <2>1. PICK now \in ReadingsOf[p] :
           Update(p, NextLocal(hlc[p], now),
                  [by |-> p, ts |-> NextLocal(hlc[p], now), seen |-> LastSeen(p)])
    BY <1>1, Zenon DEF Local
  <2> DEFINE next == NextLocal(hlc[p], now)
             e == [by |-> p, ts |-> next, seen |-> LastSeen(p)]
  <2>2. Moves(p, next) /\ next # Overflow
    BY <2>1, Zenon DEF Moves, Update
  <2>3. now \in Nat
    BY LastReadingIs, Zenon
  <2>4. next \in Timestamp /\ Before(hlc[p], next)
    BY <1>0, <2>2, <2>3, NextLocalAdvances, Zenon
  <2>5. e \in Entries /\ e.ts = next /\ e.seen = LastSeen(p)
    BY <2>4, LastSeenIs, Zenon DEF Entries
  <2>6. Update(p, next, e)
    BY <2>1, Zenon
  <2> HIDE DEF next, e
  <2> QED
    BY <2>2, <2>4, <2>5, <2>6, Zenon DEF Update, Queued
<1>2. ASSUME NEW q \in Peers, Observe(p, q)
      PROVE  \E next \in Timestamp, e \in Entries :
              /\ Moves(p, next) /\ next # Overflow
              /\ \/ Before(hlc[p], next) /\ e.ts = next /\ e.seen = LastSeen(p)
                 \/ Before(e.ts, next) /\ \E r \in Peers : e \in entries[r]
              /\ hlc' = [hlc EXCEPT ![p] = next]
              /\ batches' = [batches EXCEPT ![p] = @ \cup {Queued(p, next, e)}]
              /\ steps' = [steps EXCEPT ![p] = @ + 1]
              /\ steps[p] < MaxSteps
              /\ UNCHANGED <<stored, entries, crashes>>
  <2>1. PICK e \in entries[q], now \in ReadingsOf[p] :
           WithinSkew(now, e.ts) /\ Update(p, NextAfter(hlc[p], e.ts), e)
    BY <1>2, Zenon DEF Observe
  <2> DEFINE next == NextAfter(hlc[p], e.ts)
  <2>2. Moves(p, next) /\ next # Overflow
    BY <2>1, Zenon DEF Moves, Update
  <2>3. e \in Entries /\ e.ts \in Timestamp
    BY DEF PeersTypeOK, Entries
  <2>4. next \in Timestamp /\ Before(e.ts, next)
    BY <1>0, <2>2, <2>3, NextAfterAdvances, Zenon
  <2>5. Update(p, next, e)
    BY <2>1, Zenon
  <2> HIDE DEF next
  <2> QED
    BY <2>2, <2>3, <2>4, <2>5, Zenon DEF Update, Queued
<1> QED
  BY <1>1, <1>2, Zenon

\* A call is one of two, the rest ends one.
LEMMA Steps ==
    ASSUME [PeersNext]_peersVars
    PROVE  \/ UNCHANGED peersVars
           \/ \E p \in Peers :
                 \/ Local(p) \/ \E q \in Peers : Observe(p, q)
                 \/ Commit(p)
                 \/ Fail(p)
                 \/ Restart(p)
BY Zenon DEF PeersNext

-----------------------------------------------------------------------------
(* The invariant *)

LEMMA PeersTypeStep ==
    ASSUME PeersTypeOK, [PeersNext]_peersVars
    PROVE  PeersTypeOK'
<1>1. CASE UNCHANGED peersVars
  BY <1>1, Zenon DEF peersVars, PeersTypeOK
<1>2. ASSUME NEW p \in Peers, Local(p) \/ \E q \in Peers : Observe(p, q)
      PROVE  PeersTypeOK'
  <2>1. PICK next \in Timestamp, e \in Entries :
           /\ hlc' = [hlc EXCEPT ![p] = next]
           /\ batches' = [batches EXCEPT ![p] = @ \cup {Queued(p, next, e)}]
           /\ steps' = [steps EXCEPT ![p] = @ + 1]
           /\ steps[p] < MaxSteps
           /\ UNCHANGED <<stored, entries, crashes>>
    BY <1>2, CallEffect, ZenonT(60)
  <2>2. Queued(p, next, e) \in Batches
    BY QueuedType, Zenon
  <2>3. hlc' \in [Peers -> Timestamp] /\ batches' \in [Peers -> SUBSET Batches]
    BY <2>1, <2>2 DEF PeersTypeOK
  <2>4. steps' \in [Peers -> 0 .. MaxSteps]
    BY <2>1, HlcPeersAssumption DEF PeersTypeOK
  <2> QED
    BY <2>1, <2>3, <2>4, Zenon DEF PeersTypeOK
<1>3. ASSUME NEW p \in Peers, Commit(p)
      PROVE  PeersTypeOK'
  <2>1. PICK b \in batches[p] :
           /\ batches' = [batches EXCEPT ![p] = @ \ {b}]
           /\ stored' = [stored EXCEPT ![p] = Persist(@, b.clock)]
           /\ entries' = [entries EXCEPT ![p] = @ \cup {b.entry}]
           /\ UNCHANGED <<hlc, steps, crashes>>
    BY <1>3, Zenon DEF Commit
  <2>2. b.clock \in Timestamp /\ b.entry \in Entries
    BY DEF PeersTypeOK, Batches
  <2>3. Persist(stored[p], b.clock) \in Timestamp
    BY <2>2, Zenon DEF Persist, PeersTypeOK
  <2> QED
    BY <2>1, <2>2, <2>3 DEF PeersTypeOK
<1>4. ASSUME NEW p \in Peers, Fail(p)
      PROVE  PeersTypeOK'
  BY <1>4 DEF Fail, PeersTypeOK
<1>5. ASSUME NEW p \in Peers, Restart(p)
      PROVE  PeersTypeOK'
  BY <1>5 DEF Restart, PeersTypeOK
<1> QED
  BY <1>1, <1>2, <1>3, <1>4, <1>5, Steps, Zenon

\* The least timestamp is within every bound.
LEMMA ZeroWithin ==
    ASSUME NEW p \in Peers
    PROVE  Window(p) \in Nat /\ Raw(ZeroTs) <= Window(p)
<1>1. ZeroTs.ms <= LastReading(p) + MaxSkew /\ LastReading(p) \in Nat
  BY LastReadingIs, HlcAssumption, SMT DEF ZeroTs
<1> QED
  BY <1>1, ZeroIsLeast, InWindow, Zenon

\* More calls only widen the bound.
LEMMA LeadGrows ==
    ASSUME PeersTypeOK, NEW p \in Peers, NEW t \in Timestamp, WithinLead(p, t)
    PROVE  Raw(t) <= Window(p) + (steps[p] + 1)
<1>1. Raw(t) \in Nat
  BY RawType, Zenon
<1>2. steps[p] \in Nat
  BY HlcPeersAssumption DEF PeersTypeOK
<1>3. Window(p) \in Nat
  BY ZeroWithin, Zenon
<1> QED
  BY <1>1, <1>2, <1>3, SMT DEF WithinLead

LEMMA LeadStep ==
    ASSUME PeersTypeOK, LeadInv, [PeersNext]_peersVars
    PROVE  LeadInv'
<1>1. CASE UNCHANGED peersVars
  BY <1>1, Zenon DEF peersVars, LeadInv, WithinLead
<1>2. ASSUME NEW p \in Peers, Local(p) \/ \E q \in Peers : Observe(p, q)
      PROVE  LeadInv'
  <2>1. PICK next \in Timestamp, e \in Entries :
           /\ Moves(p, next) /\ next # Overflow
           /\ hlc' = [hlc EXCEPT ![p] = next]
           /\ batches' = [batches EXCEPT ![p] = @ \cup {Queued(p, next, e)}]
           /\ steps' = [steps EXCEPT ![p] = @ + 1]
           /\ UNCHANGED <<stored, entries, crashes>>
    BY <1>2, CallEffect, Zenon
  <2>2. /\ hlc'[p] = next /\ steps'[p] = steps[p] + 1
        /\ batches'[p] = batches[p] \cup {Queued(p, next, e)}
        /\ \A q \in Peers : q # p => /\ hlc'[q] = hlc[q] /\ steps'[q] = steps[q]
                                     /\ batches'[q] = batches[q]
    BY <2>1, Zenon DEF PeersTypeOK
  <2>3. Raw(next) <= Raw(hlc[p]) + 1 \/ Raw(next) <= Window(p) + 1
    BY <2>1, MoveEffect, Zenon
  <2>4. /\ hlc[p] \in Timestamp /\ stored[p] \in Timestamp
        /\ \A b \in batches[p] : b.clock \in Timestamp
        /\ steps[p] \in Nat /\ Raw(hlc[p]) \in Nat /\ Raw(next) \in Nat
        /\ Window(p) \in Nat /\ Raw(ZeroTs) \in Nat /\ Raw(ZeroTs) <= Window(p)
    BY RawType, ZeroWithin, ZeroIsLeast, HlcPeersAssumption DEF PeersTypeOK, Batches
  <2>5. Raw(hlc[p]) <= Window(p) + steps[p]
    BY Zenon DEF LeadInv, WithinLead
  <2>6. Raw(next) <= Window(p) + (steps[p] + 1)
    BY <2>3, <2>4, <2>5, SMT
  <2>7. Raw(ZeroTs) <= Window(p) + (steps[p] + 1)
    BY <2>4, SMT
  <2>8. Raw(Queued(p, next, e).clock) <= Window(p) + (steps[p] + 1)
    <3>1. Queued(p, next, e).clock = ZeroTs \/ Queued(p, next, e).clock = next
      BY Zenon DEF Queued
    <3> QED
      BY <2>6, <2>7, <3>1, Zenon
  <2>9. /\ Raw(stored[p]) <= Window(p) + (steps[p] + 1)
        /\ \A b \in batches[p] : Raw(b.clock) <= Window(p) + (steps[p] + 1)
    BY <2>4, LeadGrows, Zenon DEF LeadInv
  <2>10. /\ WithinLead(p, hlc[p])' /\ WithinLead(p, stored[p])'
         /\ \A b \in batches'[p] : WithinLead(p, b.clock)'
    BY <2>1, <2>2, <2>6, <2>8, <2>9, Zenon DEF WithinLead
  <2>11. ASSUME NEW q \in Peers, q # p
         PROVE  /\ WithinLead(q, hlc[q])' /\ WithinLead(q, stored[q])'
                /\ \A b \in batches'[q] : WithinLead(q, b.clock)'
    BY <2>1, <2>2, <2>11, Zenon DEF LeadInv, WithinLead
  <2> QED
    BY <2>10, <2>11, Zenon DEF LeadInv
<1>3. ASSUME NEW p \in Peers, Commit(p)
      PROVE  LeadInv'
  <2>1. PICK b \in batches[p] :
           /\ batches' = [batches EXCEPT ![p] = @ \ {b}]
           /\ stored' = [stored EXCEPT ![p] = Persist(@, b.clock)]
           /\ UNCHANGED <<hlc, steps>>
    BY <1>3, Zenon DEF Commit
  <2>2. stored'[p] \in {stored[p], b.clock}
    BY <2>1, Zenon DEF Persist, PeersTypeOK
  <2>3. \A q \in Peers : /\ batches'[q] \subseteq batches[q]
                         /\ q # p => stored'[q] = stored[q]
    BY <2>1, Zenon DEF PeersTypeOK
  <2>4. ASSUME NEW q \in Peers
        PROVE  Raw(stored'[q]) <= Window(q) + steps[q]
    <3>1. WithinLead(p, stored[p]) /\ WithinLead(p, b.clock) /\ WithinLead(q, stored[q])
      BY Zenon DEF LeadInv
    <3>2. CASE q = p
      <4>1. CASE stored'[p] = stored[p]
        BY <3>1, <3>2, <4>1, Zenon DEF WithinLead
      <4>2. CASE stored'[p] = b.clock
        BY <3>1, <3>2, <4>2, Zenon DEF WithinLead
      <4> QED
        BY <2>2, <4>1, <4>2, Zenon
    <3>3. CASE q # p
      BY <2>3, <3>1, <3>3, Zenon DEF WithinLead
    <3> QED
      BY <3>2, <3>3, Zenon
  <2>5. ASSUME NEW q \in Peers
        PROVE  /\ WithinLead(q, hlc[q])' /\ WithinLead(q, stored[q])'
               /\ \A c \in batches'[q] : WithinLead(q, c.clock)'
    <3>1. hlc' = hlc /\ steps' = steps /\ batches'[q] \subseteq batches[q]
      BY <2>1, <2>3, Zenon
    <3>2. WithinLead(q, hlc[q]) /\ \A c \in batches[q] : WithinLead(q, c.clock)
      BY Zenon DEF LeadInv
    <3> QED
      BY <2>4, <3>1, <3>2, Zenon DEF WithinLead
  <2> QED
    BY <2>5, Zenon DEF LeadInv
<1>4. ASSUME NEW p \in Peers, Fail(p)
      PROVE  LeadInv'
  <2>1. UNCHANGED <<hlc, stored, steps>> /\ \A q \in Peers : batches'[q] \subseteq batches[q]
    BY <1>4, Zenon DEF Fail, PeersTypeOK
  <2> QED
    BY <2>1, Zenon DEF LeadInv, WithinLead
<1>5. ASSUME NEW p \in Peers, Restart(p)
      PROVE  LeadInv'
  <2>1. /\ UNCHANGED <<stored, steps>>
        /\ \A q \in Peers : /\ hlc'[q] \in {hlc[q], stored[q]}
                            /\ batches'[q] \subseteq batches[q]
    BY <1>5, Zenon DEF Restart, PeersTypeOK
  <2> QED
    BY <2>1, Zenon DEF LeadInv, WithinLead
<1> QED
  BY <1>1, <1>2, <1>3, <1>4, <1>5, Steps, Zenon

\* What a call leaves of the entries at hand: the new one, stamped above or
\* copied from another replica's log.
LEMMA CausalStep ==
    ASSUME PeersTypeOK, CausalInv, [PeersNext]_peersVars
    PROVE  CausalInv'
<1>1. CASE UNCHANGED peersVars
  BY <1>1, Zenon DEF peersVars, CausalInv, AtHand
<1>2. ASSUME NEW p \in Peers, Local(p) \/ \E q \in Peers : Observe(p, q)
      PROVE  CausalInv'
  <2> SUFFICES ASSUME crashes' = 0, NEW r \in Peers, NEW f \in AtHand(r)'
               PROVE  AtMost(f.ts, hlc'[r]) /\ Before(f.seen, f.ts)
    BY Zenon DEF CausalInv
  <2>1. PICK next \in Timestamp, e \in Entries :
           /\ Moves(p, next) /\ next # Overflow
           /\ \/ Before(hlc[p], next) /\ e.ts = next /\ e.seen = LastSeen(p)
              \/ Before(e.ts, next) /\ \E q \in Peers : e \in entries[q]
           /\ hlc' = [hlc EXCEPT ![p] = next]
           /\ batches' = [batches EXCEPT ![p] = @ \cup {Queued(p, next, e)}]
           /\ UNCHANGED <<stored, entries, crashes>>
    BY <1>2, CallEffect, Zenon
  <2>2. crashes = 0 /\ AtMost(hlc[p], next) /\ hlc[p] \in Timestamp
    BY <2>1, MoveEffect, Zenon DEF PeersTypeOK
  <2>3. /\ hlc'[p] = next
        /\ batches'[p] = batches[p] \cup {Queued(p, next, e)}
        /\ \A q \in Peers : q # p => hlc'[q] = hlc[q] /\ batches'[q] = batches[q]
    BY <2>1, Zenon DEF PeersTypeOK
  <2>4. Queued(p, next, e).entry = e
    BY Zenon DEF Queued
  <2>5. f \in AtHand(r) \/ (r = p /\ f = e)
    BY <2>1, <2>3, <2>4 DEF AtHand
  <2>6. CASE f \in AtHand(r)
    <3>1. AtMost(f.ts, hlc[r]) /\ Before(f.seen, f.ts)
      BY <2>2, <2>6, Zenon DEF CausalInv
    <3>2. f.ts \in Timestamp
      BY <2>6 DEF AtHand, PeersTypeOK, Batches, Entries
    <3> QED
      BY <2>2, <2>3, <3>1, <3>2, AtMostTransitive, Zenon
  <2>7. CASE r = p /\ f = e
    <3>1. e.ts \in Timestamp
      BY Zenon DEF Entries
    <3>2. CASE Before(hlc[p], next) /\ e.ts = next /\ e.seen = LastSeen(p)
      <4>1. AtMost(LastSeen(p), hlc[p]) /\ LastSeen(p) \in Timestamp
        <5>1. \A g \in entries[p] : AtMost(g.ts, hlc[p])
          BY <2>2, Zenon DEF CausalInv, AtHand
        <5> QED
          BY <2>2, <5>1, LastSeenIs, ZeroIsLeast, Zenon
      <4>2. Before(LastSeen(p), next)
        BY <2>2, <3>2, <4>1, AtMostBefore, Zenon
      <4> QED
        BY <2>3, <2>7, <3>2, <4>2, AtMostReflexive, Zenon
    <3>3. CASE Before(e.ts, next) /\ \E q \in Peers : e \in entries[q]
      <4>1. Before(e.seen, e.ts)
        BY <2>2, <3>3, Zenon DEF CausalInv, AtHand
      <4> QED
        BY <2>3, <2>7, <3>1, <3>3, <4>1, AtMostOrBefore, Zenon
    <3> QED
      BY <2>1, <3>2, <3>3, Zenon
  <2> QED
    BY <2>5, <2>6, <2>7, Zenon
<1>3. ASSUME NEW p \in Peers, Commit(p) \/ Fail(p)
      PROVE  CausalInv'
  <2>1. PICK b \in batches[p] :
           /\ batches' = [batches EXCEPT ![p] = @ \ {b}]
           /\ entries' = entries \/ entries' = [entries EXCEPT ![p] = @ \cup {b.entry}]
           /\ UNCHANGED <<hlc, crashes>>
    BY <1>3, Zenon DEF Commit, Fail
  <2>2. ASSUME NEW q \in Peers
        PROVE  batches'[q] \subseteq batches[q] /\ entries'[q] \subseteq AtHand(q)
    <3>1. CASE q = p
      <4>1. batches'[p] = batches[p] \ {b} /\ entries'[p] \subseteq entries[p] \cup {b.entry}
        BY <2>1, Zenon DEF PeersTypeOK
      <4> QED
        BY <3>1, <4>1 DEF AtHand
    <3>2. CASE q # p
      <4>1. batches'[q] = batches[q] /\ entries'[q] = entries[q]
        BY <2>1, <3>2, Zenon DEF PeersTypeOK
      <4> QED
        BY <4>1 DEF AtHand
    <3> QED
      BY <3>1, <3>2
  <2>3. \A q \in Peers : AtHand(q)' \subseteq AtHand(q)
    BY <2>2 DEF AtHand
  <2> QED
    BY <2>1, <2>3, Zenon DEF CausalInv
<1>4. ASSUME NEW p \in Peers, Restart(p)
      PROVE  CausalInv'
  <2>1. crashes' # 0
    BY <1>4 DEF Restart, PeersTypeOK
  <2> QED
    BY <2>1, Zenon DEF CausalInv
<1> QED
  BY <1>1, <1>2, <1>3, <1>4, Steps, Zenon

LEMMA PeersInitHolds == PeersInit => PeersTypeOK /\ LeadInv /\ CausalInv
<1> SUFFICES ASSUME PeersInit PROVE PeersTypeOK /\ LeadInv /\ CausalInv
  OBVIOUS
<1>1. PeersTypeOK
  BY ZeroIsLeast, HlcPeersAssumption DEF PeersInit, PeersTypeOK
<1>2. LeadInv
  <2>1. \A p \in Peers : /\ hlc[p] = ZeroTs /\ stored[p] = ZeroTs /\ batches[p] = {}
                         /\ steps[p] = 0
    BY Zenon DEF PeersInit
  <2>2. \A p \in Peers : Raw(ZeroTs) <= Window(p) + 0
    <3> SUFFICES ASSUME NEW p \in Peers PROVE Raw(ZeroTs) <= Window(p) + 0
      OBVIOUS
    <3>1. Window(p) \in Nat /\ Raw(ZeroTs) <= Window(p)
      BY ZeroWithin, Zenon
    <3> QED
      BY <3>1, SMT
  <2> QED
    BY <2>1, <2>2, Zenon DEF LeadInv, WithinLead
<1>3. CausalInv
  BY DEF PeersInit, CausalInv, AtHand
<1> QED
  BY <1>1, <1>2, <1>3

LEMMA PeersAlways == PeersSpec => [](PeersTypeOK /\ LeadInv /\ CausalInv)
BY PeersInitHolds, PeersTypeStep, LeadStep, CausalStep, PTL DEF PeersSpec

-----------------------------------------------------------------------------
(***************************************************************************)
(* A replica's clock is ahead of its own wall clock by the accepted skew   *)
(* and one tick per call at most: whatever clocks the others have, however *)
(* entries travel between them, and over any number of restarts.           *)
(***************************************************************************)
THEOREM HlcPeersBoundedLead == PeersSpec => []BoundedLead
<1>1. LeadInv => BoundedLead
  BY Zenon DEF LeadInv, BoundedLead, WithinLead, Window
<1> QED
  BY <1>1, PeersAlways, PTL

(***************************************************************************)
(* As long as nobody restarts, an entry is above every entry its author    *)
(* had stored when it was stamped, although batches fail and commit in any *)
(* order: a clock in memory is never behind an entry at hand.              *)
(***************************************************************************)
THEOREM HlcPeersCausalUntilRestart == PeersSpec => []CausalUntilRestart
<1>1. CausalInv => CausalUntilRestart
  BY Zenon DEF CausalInv, CausalUntilRestart, CausalAcrossPeers, AtHand
<1> QED
  BY <1>1, PeersAlways, PTL

-----------------------------------------------------------------------------
(* The merge of table operations *)

\* What an upsert and a delete are made of.
LEMMA OpFields ==
    /\ \A op \in Ops : op.ts \in Times /\ op.ts \in Int /\ op.ts > 0
    /\ \A op \in Ops : op.kind = "upsert" =>
          DOMAIN op.sets \subseteq Columns /\ \A c \in DOMAIN op.sets : op.sets[c] \in Cells
    /\ \A op \in Ops : op.kind \in {"upsert", "delete"}
<1>1. \A op \in Ops : op.ts \in Times
  BY Zenon DEF Ops, Upserts, Deletes
<1>2. \A t \in Times : t \in Int /\ t > 0
  BY TableMergeAssumption, SMT
<1>3. ASSUME NEW op \in Ops, op.kind = "upsert"
      PROVE  DOMAIN op.sets \subseteq Columns /\ \A c \in DOMAIN op.sets : op.sets[c] \in Cells
  <2>1. op \notin Deletes
    BY <1>3, SMT DEF Deletes
  <2>2. op \in Upserts
    BY <1>3, <2>1, Zenon DEF Ops
  <2>3. PICK C \in SUBSET Columns : op.sets \in [C -> Cells]
    BY <2>2, Zenon DEF Upserts
  <2> QED
    BY <2>3, Zenon
<1>4. \A op \in Ops : op.kind \in {"upsert", "delete"}
  BY Zenon DEF Ops, Upserts, Deletes
<1> QED
  BY <1>1, <1>2, <1>3, <1>4, Zenon

\* What a row is made of.
LEMMA RowParts ==
    ASSUME NEW m \in PhysicalRows
    PROVE  /\ m.present \in BOOLEAN
           /\ m.up \in Times \cup {0} /\ m.up \in Int /\ m.up >= 0
           /\ m.del \in Times \cup {0} /\ m.del \in Int /\ m.del >= 0
           /\ m.val \in [Columns -> Cells]
           /\ m.lww \in [Columns -> Times \cup {0}]
           /\ \A c \in Columns :
                 m.val[c] \in Cells /\ m.lww[c] \in Int /\ m.lww[c] >= 0
<1>1. \A t \in Times \cup {0} : t \in Int /\ t >= 0
  BY TableMergeAssumption, SMT
<1>2. /\ m.present \in BOOLEAN
      /\ m.up \in Times \cup {0}
      /\ m.del \in Times \cup {0}
      /\ m.val \in [Columns -> Cells]
      /\ m.lww \in [Columns -> Times \cup {0}]
  BY Zenon DEF PhysicalRows
<1> QED
  BY <1>1, <1>2, Zenon

\* The greater of two timestamps.
LEMMA LaterIs ==
    \A s, t \in Int : Later(s, t) = IF s < t THEN t ELSE s
BY Zenon DEF Later

\* An upsert leaves a row.
LEMMA AfterUpsertType ==
    ASSUME NEW m \in PhysicalRows, NEW op \in Ops, op.kind = "upsert"
    PROVE  /\ AfterUpsert(m, op) \in PhysicalRows
           /\ AfterUpsert(m, op).present = TRUE
           /\ AfterUpsert(m, op).up = Later(m.up, op.ts)
           /\ AfterUpsert(m, op).del = m.del
           /\ \A c \in Columns :
                 /\ AfterUpsert(m, op).val[c] =
                       IF c \in DOMAIN op.sets /\ Wins(m, op, c) THEN op.sets[c] ELSE m.val[c]
                 /\ AfterUpsert(m, op).lww[c] =
                       IF c \in DOMAIN op.sets THEN Later(m.lww[c], op.ts) ELSE m.lww[c]
<1> DEFINE val == [c \in Columns |->
                      IF c \in DOMAIN op.sets /\ Wins(m, op, c) THEN op.sets[c] ELSE m.val[c]]
           lww == [c \in Columns |->
                      IF c \in DOMAIN op.sets THEN Later(m.lww[c], op.ts) ELSE m.lww[c]]
           up == Later(m.up, op.ts)
<1>1. val \in [Columns -> Cells]
  BY RowParts, OpFields, Zenon
<1>2. \A t \in Times \cup {0} : Later(t, op.ts) \in Times \cup {0}
  BY OpFields, Zenon DEF Later
<1>3. lww \in [Columns -> Times \cup {0}] /\ up \in Times \cup {0}
  BY <1>2, RowParts, Zenon
<1>4. AfterUpsert(m, op) = [m EXCEPT !.present = TRUE, !.up = up, !.val = val, !.lww = lww]
  BY Zenon DEF AfterUpsert
<1>5. /\ \A c \in Columns :
            val[c] = IF c \in DOMAIN op.sets /\ Wins(m, op, c) THEN op.sets[c] ELSE m.val[c]
      /\ \A c \in Columns :
            lww[c] = IF c \in DOMAIN op.sets THEN Later(m.lww[c], op.ts) ELSE m.lww[c]
  BY Zenon
<1>6. up = Later(m.up, op.ts)
  OBVIOUS
<1> HIDE DEF val, lww, up
<1> DEFINE n == [m EXCEPT !.present = TRUE, !.up = up, !.val = val, !.lww = lww]
<1>7. n \in PhysicalRows /\ n.present = TRUE /\ n.up = up /\ n.del = m.del /\ n.val = val /\ n.lww = lww
  BY <1>1, <1>3, Zenon DEF PhysicalRows
<1> HIDE DEF n
<1>8. AfterUpsert(m, op) = n
  BY <1>4, Zenon DEF n
<1> QED
  BY <1>5, <1>6, <1>7, <1>8, Zenon

\* A delete leaves a row.
LEMMA AfterDeleteType ==
    ASSUME NEW m \in PhysicalRows, NEW op \in Ops
    PROVE  /\ AfterDelete(m, op) \in PhysicalRows
           /\ AfterDelete(m, op).present = TRUE
           /\ AfterDelete(m, op).up = m.up
           /\ AfterDelete(m, op).del = Later(m.del, op.ts)
           /\ \A c \in Columns :
                 /\ AfterDelete(m, op).val[c] = IF m.lww[c] < op.ts THEN Null ELSE m.val[c]
                 /\ AfterDelete(m, op).lww[c] = IF m.lww[c] < op.ts THEN 0 ELSE m.lww[c]
<1> DEFINE val == [c \in Columns |-> IF m.lww[c] < op.ts THEN Null ELSE m.val[c]]
           lww == [c \in Columns |-> IF m.lww[c] < op.ts THEN 0 ELSE m.lww[c]]
           del == Later(m.del, op.ts)
<1>1. val \in [Columns -> Cells]
  BY RowParts, Zenon DEF Cells
<1>2. lww \in [Columns -> Times \cup {0}] /\ del \in Times \cup {0}
  BY RowParts, OpFields, Zenon DEF Later
<1>3. AfterDelete(m, op) = [m EXCEPT !.present = TRUE, !.del = del, !.val = val, !.lww = lww]
  BY Zenon DEF AfterDelete
<1>4. \A c \in Columns :
         /\ val[c] = IF m.lww[c] < op.ts THEN Null ELSE m.val[c]
         /\ lww[c] = IF m.lww[c] < op.ts THEN 0 ELSE m.lww[c]
  BY Zenon
<1>5. del = Later(m.del, op.ts)
  OBVIOUS
<1> HIDE DEF val, lww, del
<1> DEFINE n == [m EXCEPT !.present = TRUE, !.del = del, !.val = val, !.lww = lww]
<1>6. n \in PhysicalRows /\ n.present = TRUE /\ n.up = m.up /\ n.del = del /\ n.val = val /\ n.lww = lww
  BY <1>1, <1>2, Zenon DEF PhysicalRows
<1> HIDE DEF n
<1>7. AfterDelete(m, op) = n
  BY <1>3, Zenon DEF n
<1> QED
  BY <1>4, <1>5, <1>6, <1>7, Zenon

-----------------------------------------------------------------------------
(* The order of two writes *)

\* Two values are equal or one beats the other, never both.
LEMMA BeatsTotal ==
    \A v, w \in Cells :
        /\ v = w \/ Beats(v, w) \/ Beats(w, v)
        /\ ~ (Beats(v, w) /\ Beats(w, v))
        /\ ~ Beats(v, v)
<1> SUFFICES ASSUME NEW v \in Cells, NEW w \in Cells
             PROVE  /\ v = w \/ Beats(v, w) \/ Beats(w, v)
                    /\ ~ (Beats(v, w) /\ Beats(w, v))
                    /\ ~ Beats(v, v)
  OBVIOUS
<1>1. v = Null \/ v \in Int
  BY TableMergeAssumption, Zenon DEF Cells
<1>2. w = Null \/ w \in Int
  BY TableMergeAssumption, Zenon DEF Cells
<1> QED
  BY <1>1, <1>2, SMT DEF Beats

\* What beats a value beats all that the value beats.
LEMMA BeatsTransitive ==
    \A u, v, w \in Cells : Beats(u, v) /\ Beats(v, w) => Beats(u, w)
<1> SUFFICES ASSUME NEW u \in Cells, NEW v \in Cells, NEW w \in Cells,
                    Beats(u, v), Beats(v, w)
             PROVE  Beats(u, w)
  OBVIOUS
<1>1. \A x \in Cells : x = Null \/ x \in Int
  BY TableMergeAssumption, Zenon DEF Cells
<1> QED
  BY <1>1, SMT DEF Beats

\* Writes are ordered by timestamp, then by value.
LEMMA BelowAntisymmetric ==
    ASSUME NEW s \in Int, NEW t \in Int, NEW v \in Cells, NEW w \in Cells,
           Below(s, v, t, w), Below(t, w, s, v)
    PROVE  s = t /\ v = w
<1>1. s = t
  BY SMT DEF Below
<1>2. ~ (s < t) /\ ~ (t < s)
  BY <1>1, SMT
<1> QED
  BY <1>1, <1>2, BeatsTotal, Zenon DEF Below

LEMMA BelowTransitive ==
    ASSUME NEW r \in Int, NEW s \in Int, NEW t \in Int,
           NEW u \in Cells, NEW v \in Cells, NEW w \in Cells,
           Below(r, u, s, v), Below(s, v, t, w)
    PROVE  Below(r, u, t, w)
<1>1. r < t \/ (r = s /\ s = t)
  BY SMT DEF Below
<1>2. CASE r < t
  BY <1>2, Zenon DEF Below
<1>3. CASE r = s /\ s = t
  <2>1. ~ (r < s) /\ ~ (s < t)
    BY <1>3, SMT
  <2> QED
    BY <1>3, <2>1, BeatsTransitive, Zenon DEF Below
<1> QED
  BY <1>1, <1>2, <1>3, Zenon

\* A write that does not win is below what is there; one that wins, above.
LEMMA WinsOrBelow ==
    ASSUME NEW m \in PhysicalRows, NEW op \in Ops, op.kind = "upsert", NEW c \in DOMAIN op.sets
    PROVE  /\ ~ Wins(m, op, c) =>
                 Below(op.ts, op.sets[c], m.lww[c], m.val[c]) /\ Later(m.lww[c], op.ts) = m.lww[c]
           /\ Wins(m, op, c) =>
                 Below(m.lww[c], m.val[c], op.ts, op.sets[c]) /\ Later(m.lww[c], op.ts) = op.ts
           /\ m.lww[c] = 0 => Wins(m, op, c)
<1>1. /\ op.ts \in Int /\ op.ts > 0 /\ c \in Columns /\ op.sets[c] \in Cells
      /\ m.lww[c] \in Int /\ m.val[c] \in Cells
  BY OpFields, RowParts, Zenon
<1> DEFINE b == Beats(op.sets[c], m.val[c])
<1>2. \/ op.sets[c] = m.val[c]
      \/ b
      \/ Beats(m.val[c], op.sets[c])
  BY <1>1, BeatsTotal, Zenon
<1>3. CASE op.ts > m.lww[c]
  <2>1. m.lww[c] < op.ts /\ Wins(m, op, c)
    BY <1>1, <1>3, SMT DEF Wins
  <2> QED
    BY <2>1, Zenon DEF Below, Later
<1>4. CASE op.ts = m.lww[c]
  <2>1. ~ (m.lww[c] < op.ts) /\ ~ (op.ts > m.lww[c]) /\ m.lww[c] # 0
    BY <1>1, <1>4, SMT
  <2> QED
    BY <1>2, <1>4, <2>1, Zenon DEF Below, Later, Wins
<1>5. CASE op.ts < m.lww[c]
  <2>1. /\ ~ (m.lww[c] < op.ts) /\ ~ (op.ts > m.lww[c]) /\ op.ts # m.lww[c]
        /\ m.lww[c] # 0
    BY <1>1, <1>5, SMT
  <2> QED
    BY <1>5, <2>1, Zenon DEF Below, Later, Wins
<1> QED
  BY <1>1, <1>3, <1>4, <1>5, SMT

-----------------------------------------------------------------------------
(* A row is the merge of its operations *)

\* __deleted_ts is the timestamp of the last delete.
DelIsMax(m, S) ==
    /\ m.del = 0 \/ \E d \in S : d.kind = "delete" /\ d.ts = m.del
    /\ \A d \in S : d.kind = "delete" => d.ts <= m.del

\* __upsert_ts is the timestamp of some upsert, and not behind one that
\* stands.  (Of those that do not stand, some replicas have one, some not.)
UpCovers(m, S) ==
    /\ m.up = 0 \/ \E u \in S : u.kind = "upsert" /\ u.ts = m.up
    /\ \A u \in S : u.kind = "upsert" /\ m.del <= u.ts => u.ts <= m.up

(***************************************************************************)
(* The inductive invariant, of one row and the operations it has seen.  It *)
(* ties the row's own timestamps to the operations, which RowIsMerge does  *)
(* not mention but every statement compares with.                          *)
(***************************************************************************)
Merged(m, S) ==
    /\ S \subseteq Ops
    /\ m.present <=> S # {}
    /\ DelIsMax(m, S)
    /\ UpCovers(m, S)
    /\ \A c \in Columns : ColumnIsMerge(m, S, c)

\* An upsert stands iff it passes the statement's test of __deleted_ts.
LEMMA StandsIff ==
    ASSUME NEW m \in PhysicalRows, NEW S \in SUBSET Ops, DelIsMax(m, S),
           NEW u \in Ops, u.kind = "upsert"
    PROVE  Stands(u, S) <=> m.del <= u.ts
<1>1. u.ts \in Int /\ u.ts > 0 /\ m.del \in Int
  BY OpFields, RowParts, Zenon
<1>2. \A d \in S : d.ts \in Int
  BY OpFields, Zenon
<1>3. ASSUME Stands(u, S)
      PROVE  m.del <= u.ts
  <2>1. CASE m.del = 0
    BY <1>1, <2>1, SMT
  <2>2. CASE \E d \in S : d.kind = "delete" /\ d.ts = m.del
    BY <1>3, <2>2, Zenon DEF Stands
  <2> QED
    BY <2>1, <2>2, Zenon DEF DelIsMax
<1>4. ASSUME m.del <= u.ts
      PROVE  Stands(u, S)
  <2>1. \A d \in S : d.kind = "delete" => d.ts <= u.ts
    <3> SUFFICES ASSUME NEW d \in S, d.kind = "delete" PROVE d.ts <= u.ts
      OBVIOUS
    <3>1. d.ts <= m.del
      BY Zenon DEF DelIsMax
    <3> QED
      BY <1>1, <1>2, <1>4, <3>1, SMT
  <2> QED
    BY <2>1, Zenon DEF Stands
<1> QED
  BY <1>3, <1>4, Zenon

\* The writers of a column, by the row's __deleted_ts.
LEMMA WritersAre ==
    ASSUME NEW m \in PhysicalRows, NEW S \in SUBSET Ops, DelIsMax(m, S), NEW c
    PROVE  \A u : u \in Writers(S, c) <=>
               u \in S /\ u.kind = "upsert" /\ m.del <= u.ts /\ c \in DOMAIN u.sets
<1>1. ASSUME NEW u \in S
      PROVE  Stands(u, S) <=> u.kind = "upsert" /\ m.del <= u.ts
  <2>1. u \in Ops
    OBVIOUS
  <2>2. CASE u.kind = "upsert"
    BY <2>1, <2>2, StandsIff, Zenon
  <2>3. CASE u.kind # "upsert"
    BY <2>3, Zenon DEF Stands
  <2> QED
    BY <2>2, <2>3, Zenon
<1> QED
  BY <1>1, Zenon DEF Writers

\* The statement of an upsert merges it into the row.
LEMMA UpsertMerges ==
    ASSUME NEW m \in PhysicalRows, NEW S, Merged(m, S), NEW op \in Ops, op.kind = "upsert",
           NEW n, n = IF Upserted(m, op) THEN AfterUpsert(m, op) ELSE m,
           NEW T, T = S \cup {op}
    PROVE  Merged(n, T)
<1>0. /\ S \in SUBSET Ops /\ T \in SUBSET Ops /\ T # {}
      /\ op.ts \in Int /\ op.ts > 0
      /\ m.del \in Int /\ m.up \in Int /\ m.up >= 0 /\ m.del >= 0
      /\ \A u \in T : u.ts \in Int
      /\ \A c \in Columns : m.val[c] \in Cells /\ m.lww[c] \in Int
      /\ \A u \in T : u.kind = "upsert" => \A c \in DOMAIN u.sets : u.sets[c] \in Cells
      /\ DelIsMax(m, S)
  BY RowParts, OpFields, Zenon DEF Merged
<1>1. /\ n \in PhysicalRows
      /\ n.del = m.del
      /\ n.present = TRUE
      /\ n.up = IF Upserted(m, op) THEN Later(m.up, op.ts) ELSE m.up
  BY AfterUpsertType, RowParts, Zenon DEF Upserted
<1>2. ~ m.present => m.del = 0 /\ m.up = 0
  BY Zenon DEF Merged, DelIsMax, UpCovers
<1>3. Upserted(m, op) => m.del <= op.ts
  <2>1. CASE m.present
    BY <1>0, <2>1, SMT DEF Upserted
  <2>2. CASE ~ m.present
    BY <1>0, <1>2, <2>2, SMT
  <2> QED
    BY <2>1, <2>2, Zenon
<1>4. DelIsMax(n, T)
  <2>1. op.kind # "delete"
    BY Zenon
  <2> QED
    BY <1>1, <2>1, Zenon DEF Merged, DelIsMax
<1>5. UpCovers(n, T)
  <2>1. CASE Upserted(m, op) /\ m.up < op.ts
    <3>1. n.up = op.ts
      BY <1>1, <2>1, Zenon DEF Later
    <3>2. \A u \in S : u.kind = "upsert" /\ m.del <= u.ts => u.ts <= op.ts
      <4> SUFFICES ASSUME NEW u \in S, u.kind = "upsert", m.del <= u.ts
                   PROVE  u.ts <= op.ts
        OBVIOUS
      <4>1. u.ts <= m.up /\ u.ts \in Int
        BY <1>0, Zenon DEF Merged, UpCovers
      <4> QED
        BY <1>0, <2>1, <4>1, SMT
    <3>3. op.ts <= op.ts
      BY <1>0, SMT
    <3> QED
      BY <1>1, <3>1, <3>2, <3>3, Zenon DEF UpCovers
  <2>2. CASE ~ (Upserted(m, op) /\ m.up < op.ts)
    <3>1. n.up = m.up
      BY <1>1, <2>2, Zenon DEF Later
    <3>2. m.del <= op.ts => op.ts <= m.up
      <4>1. CASE Upserted(m, op)
        BY <1>0, <2>2, <4>1, SMT
      <4>2. CASE ~ Upserted(m, op)
        BY <1>0, <4>2, SMT DEF Upserted
      <4> QED
        BY <4>1, <4>2, Zenon
    <3> QED
      BY <1>1, <3>1, <3>2, Zenon DEF Merged, UpCovers
  <2> QED
    BY <2>1, <2>2, Zenon
<1>6. ASSUME NEW c \in Columns
      PROVE  ColumnIsMerge(n, T, c)
  <2> DEFINE W == Writers(S, c)
             X == Writers(T, c)
  <2>1. /\ \A u : u \in W <=> u \in S /\ u.kind = "upsert" /\ m.del <= u.ts /\ c \in DOMAIN u.sets
        /\ \A u : u \in X <=> u \in T /\ u.kind = "upsert" /\ m.del <= u.ts /\ c \in DOMAIN u.sets
    <3>1. \A u : u \in W <=> u \in S /\ u.kind = "upsert" /\ m.del <= u.ts /\ c \in DOMAIN u.sets
      BY <1>0, WritersAre, Zenon
    <3>2. \A u : u \in X <=> u \in T /\ u.kind = "upsert" /\ n.del <= u.ts /\ c \in DOMAIN u.sets
      BY <1>0, <1>1, <1>4, WritersAre, Zenon
    <3> QED
      BY <1>1, <3>1, <3>2, Zenon
  <2>2. ColumnIsMerge(m, S, c)
    BY Zenon DEF Merged
  <2>3. /\ m.val[c] \in Cells /\ m.lww[c] \in Int
        /\ \A u \in X : u.ts \in Int /\ u.sets[c] \in Cells
    BY <1>0, <2>1, Zenon
  <2>4. CASE m.del <= op.ts /\ c \in DOMAIN op.sets
    <3>1. X = W \cup {op}
      BY <2>1, <2>4, Zenon
    <3>2. /\ ~ Wins(m, op, c) =>
                Below(op.ts, op.sets[c], m.lww[c], m.val[c]) /\ Later(m.lww[c], op.ts) = m.lww[c]
          /\ Wins(m, op, c) =>
                Below(m.lww[c], m.val[c], op.ts, op.sets[c]) /\ Later(m.lww[c], op.ts) = op.ts
          /\ m.lww[c] = 0 => Wins(m, op, c)
      BY <2>4, WinsOrBelow, Zenon
    <3>3. CASE Wins(m, op, c)
      <4>1. Upserted(m, op)
        <5>1. op.ts >= m.del
          BY <1>0, <2>4, SMT
        <5> QED
          BY <2>4, <3>3, <5>1, Zenon DEF Upserted
      <4>2. n.val[c] = op.sets[c] /\ n.lww[c] = op.ts
        BY <2>4, <3>2, <3>3, <4>1, AfterUpsertType, Zenon
      <4>3. \A u \in W : Below(u.ts, u.sets[c], op.ts, op.sets[c])
        <5> SUFFICES ASSUME NEW u \in W
                     PROVE  Below(u.ts, u.sets[c], op.ts, op.sets[c])
          OBVIOUS
        <5>1. Below(u.ts, u.sets[c], m.lww[c], m.val[c])
          BY <2>2, Zenon DEF ColumnIsMerge
        <5>2. u \in X /\ op \in X
          BY <3>1, Zenon
        <5>3. /\ u.ts \in Int /\ op.ts \in Int /\ m.lww[c] \in Int
              /\ u.sets[c] \in Cells /\ op.sets[c] \in Cells /\ m.val[c] \in Cells
          BY <2>3, <5>2, Zenon
        <5>4. Below(m.lww[c], m.val[c], op.ts, op.sets[c])
          BY <3>2, <3>3, Zenon
        <5> HIDE DEF W, X
        <5> QED
          BY <5>1, <5>3, <5>4, BelowTransitive, SMT
      <4>4. Below(op.ts, op.sets[c], op.ts, op.sets[c])
        BY Zenon DEF Below
      <4> QED
        BY <3>1, <4>2, <4>3, <4>4, Zenon DEF ColumnIsMerge
    <3>4. CASE ~ Wins(m, op, c)
      <4>1. n.val[c] = m.val[c] /\ n.lww[c] = m.lww[c]
        <5>1. CASE Upserted(m, op)
          <6>1. n = AfterUpsert(m, op)
            BY <5>1, Zenon
          <6>2. /\ AfterUpsert(m, op).val[c] =
                      IF c \in DOMAIN op.sets /\ Wins(m, op, c) THEN op.sets[c] ELSE m.val[c]
                /\ AfterUpsert(m, op).lww[c] =
                      IF c \in DOMAIN op.sets THEN Later(m.lww[c], op.ts) ELSE m.lww[c]
            BY AfterUpsertType
          <6>3. Later(m.lww[c], op.ts) = m.lww[c]
            BY <3>2, <3>4, Zenon
          <6> QED
            BY <2>4, <3>4, <6>1, <6>2, <6>3, Zenon
        <5>2. CASE ~ Upserted(m, op)
          BY <5>2, Zenon
        <5> QED
          BY <5>1, <5>2, Zenon
      <4>2. W # {}
        BY <2>2, <3>2, <3>4, Zenon DEF ColumnIsMerge
      <4> QED
        BY <2>2, <3>1, <3>2, <3>4, <4>1, <4>2, Zenon DEF ColumnIsMerge
    <3> QED
      BY <3>3, <3>4, Zenon
  <2>5. CASE ~ (m.del <= op.ts /\ c \in DOMAIN op.sets)
    <3>1. X = W
      BY <2>1, <2>5, Zenon
    <3>2. n.val[c] = m.val[c] /\ n.lww[c] = m.lww[c]
      BY <1>3, <2>5, AfterUpsertType, Zenon
    <3> QED
      BY <2>2, <3>1, <3>2, Zenon DEF ColumnIsMerge
  <2> QED
    BY <2>4, <2>5, Zenon
<1> QED
  BY <1>0, <1>1, <1>4, <1>5, <1>6, Zenon DEF Merged

\* The statement of a delete merges it into the row.
LEMMA DeleteMerges ==
    ASSUME NEW m \in PhysicalRows, NEW S, Merged(m, S), NEW op \in Ops, op.kind = "delete",
           NEW n, n = IF ~ m.present \/ op.ts > m.del THEN AfterDelete(m, op) ELSE m,
           NEW T, T = S \cup {op}
    PROVE  Merged(n, T)
<1>0. /\ S \in SUBSET Ops /\ T \in SUBSET Ops /\ T # {}
      /\ op.ts \in Int /\ op.ts > 0
      /\ m.del \in Int /\ m.up \in Int /\ m.up >= 0 /\ m.del >= 0
      /\ \A u \in T : u.ts \in Int
      /\ \A c \in Columns : m.val[c] \in Cells /\ m.lww[c] \in Int
      /\ DelIsMax(m, S)
  BY RowParts, OpFields, Zenon DEF Merged
<1>1. CASE ~ m.present \/ op.ts > m.del
  <2>1. ~ m.present => m.del = 0
    BY Zenon DEF Merged, DelIsMax
  <2>2. m.del < op.ts
    BY <1>0, <1>1, <2>1, SMT
  <2>3. n = AfterDelete(m, op)
    BY <1>1, Zenon
  <2>4. n \in PhysicalRows /\ n.present = TRUE /\ n.up = m.up /\ n.del = op.ts
    BY <2>2, <2>3, AfterDeleteType, Zenon DEF Later
  <2>5. DelIsMax(n, T)
    <3>1. \A d \in S : d.kind = "delete" => d.ts <= op.ts
      <4> SUFFICES ASSUME NEW d \in S, d.kind = "delete" PROVE d.ts <= op.ts
        OBVIOUS
      <4>1. d.ts <= m.del /\ d.ts \in Int
        BY <1>0, Zenon DEF Merged, DelIsMax
      <4> QED
        BY <1>0, <2>2, <4>1, SMT
    <3>2. op.ts <= op.ts
      BY <1>0, SMT
    <3> QED
      BY <2>4, <3>1, <3>2, Zenon DEF DelIsMax
  <2>6. \A t \in Int : op.ts <= t => m.del <= t
    BY <1>0, <2>2, SMT
  <2>7. UpCovers(n, T)
    <3>1. op.kind # "upsert"
      BY Zenon
    <3> QED
      BY <1>0, <2>4, <2>6, <3>1, Zenon DEF Merged, UpCovers
  <2>8. ASSUME NEW c \in Columns
        PROVE  ColumnIsMerge(n, T, c)
    <3> DEFINE W == Writers(S, c)
               X == Writers(T, c)
    <3>1. \A u : u \in W <=> u \in S /\ u.kind = "upsert" /\ m.del <= u.ts /\ c \in DOMAIN u.sets
      BY <1>0, WritersAre, Zenon
    <3>2. \A u : u \in X <=> u \in T /\ u.kind = "upsert" /\ n.del <= u.ts /\ c \in DOMAIN u.sets
      <4>1. n \in PhysicalRows /\ T \in SUBSET Ops
        BY <1>0, <2>4, Zenon
      <4> QED
        BY <2>5, <4>1, WritersAre, SMT
    <3>3. \A u : u \in X <=> u \in W /\ op.ts <= u.ts
      <4>1. op.kind # "upsert"
        BY Zenon
      <4> QED
        BY <1>0, <2>4, <2>6, <3>1, <3>2, <4>1, Zenon
    <3>4. ColumnIsMerge(m, S, c)
      BY Zenon DEF Merged
    <3>5. /\ n.val[c] = IF m.lww[c] < op.ts THEN Null ELSE m.val[c]
          /\ n.lww[c] = IF m.lww[c] < op.ts THEN 0 ELSE m.lww[c]
      <4>1. /\ AfterDelete(m, op).val[c] = IF m.lww[c] < op.ts THEN Null ELSE m.val[c]
            /\ AfterDelete(m, op).lww[c] = IF m.lww[c] < op.ts THEN 0 ELSE m.lww[c]
        BY AfterDeleteType
      <4> QED
        BY <2>3, <4>1, Zenon
    <3>6. \A u \in W : u.ts \in Int /\ u.ts <= m.lww[c]
      <4> SUFFICES ASSUME NEW u \in W PROVE u.ts \in Int /\ u.ts <= m.lww[c]
        OBVIOUS
      <4>1. u.ts \in Int /\ m.lww[c] \in Int
        BY <1>0, <3>1, Zenon
      <4>2. u.ts < m.lww[c] \/ u.ts = m.lww[c]
        BY <3>4, Zenon DEF ColumnIsMerge, Below
      <4> QED
        BY <4>1, <4>2, SMT
    <3> HIDE DEF W, X
    <3>7. CASE m.lww[c] < op.ts
      <4>1. X = {}
        <5> SUFFICES ASSUME NEW u \in X PROVE FALSE
          BY Zenon
        <5>1. u \in W /\ op.ts <= u.ts
          BY <3>3, Zenon
        <5>2. u.ts \in Int /\ u.ts <= m.lww[c] /\ m.lww[c] \in Int
          BY <1>0, <3>6, <5>1, Zenon
        <5> QED
          BY <1>0, <3>7, <5>1, <5>2, SMT
      <4> QED
        BY <3>5, <3>7, <4>1, Zenon DEF ColumnIsMerge, X
    <3>8. CASE ~ (m.lww[c] < op.ts)
      <4>1. n.val[c] = m.val[c] /\ n.lww[c] = m.lww[c]
        BY <3>5, <3>8, Zenon
      <4>2. m.lww[c] # 0
        BY <1>0, <3>8, SMT
      <4>3. PICK u \in W : m.lww[c] = u.ts /\ m.val[c] = u.sets[c]
        BY <3>4, <4>2, Zenon DEF ColumnIsMerge, W
      <4>4. u \in X
        <5>1. op.ts <= u.ts
          BY <1>0, <3>8, <4>3, SMT
        <5> QED
          BY <3>3, <5>1, Zenon
      <4>5. \A w \in X : Below(w.ts, w.sets[c], m.lww[c], m.val[c])
        BY <3>3, <3>4, Zenon DEF ColumnIsMerge, W
      <4> QED
        BY <4>1, <4>3, <4>4, <4>5, Zenon DEF ColumnIsMerge, X
    <3> QED
      BY <3>7, <3>8, Zenon
  <2> QED
    BY <1>0, <2>4, <2>5, <2>7, <2>8, Zenon DEF Merged
<1>2. CASE ~ (~ m.present \/ op.ts > m.del)
  <2>1. n = m /\ m.present /\ op.ts <= m.del
    BY <1>0, <1>2, SMT
  <2>2. DelIsMax(n, T)
    BY <2>1, Zenon DEF Merged, DelIsMax
  <2>3. op.kind # "upsert"
    BY Zenon
  <2>4. UpCovers(n, T)
    BY <2>1, <2>3, Zenon DEF Merged, UpCovers
  <2>5. ASSUME NEW c \in Columns
        PROVE  ColumnIsMerge(n, T, c)
    <3>1. \A u : u \in Writers(S, c) <=> u \in S /\ u.kind = "upsert" /\ m.del <= u.ts /\ c \in DOMAIN u.sets
      BY <1>0, WritersAre, Zenon
    <3>2. \A u : u \in Writers(T, c) <=> u \in T /\ u.kind = "upsert" /\ m.del <= u.ts /\ c \in DOMAIN u.sets
      <4>1. n \in PhysicalRows /\ T \in SUBSET Ops
        BY <1>0, <2>1, Zenon
      <4>2. \A u : u \in Writers(T, c) <=> u \in T /\ u.kind = "upsert" /\ n.del <= u.ts /\ c \in DOMAIN u.sets
        BY <2>2, <4>1, WritersAre, SMT
      <4> QED
        BY <2>1, <4>2, Zenon
    <3>3. Writers(T, c) = Writers(S, c)
      <4>1. \A u : u \in Writers(T, c) <=> u \in Writers(S, c)
        BY <2>3, <3>1, <3>2, Zenon
      <4> QED
        BY <4>1, Zenon
    <3>4. ColumnIsMerge(m, S, c) /\ n = m
      BY <2>1, Zenon DEF Merged
    <3>5. ColumnIsMerge(m, T, c)
      BY <3>3, <3>4, Zenon DEF ColumnIsMerge
    <3> QED
      BY <3>4, <3>5, Zenon
  <2> QED
    BY <1>0, <2>1, <2>2, <2>4, <2>5, Zenon DEF Merged
<1> QED
  BY <1>1, <1>2, Zenon

-----------------------------------------------------------------------------
(* The invariant of the replicas *)

MergeInv ==
    /\ MergeTypeOK
    /\ \A r \in Replicas : Merged(row[r], applied[r])

LEMMA InitMerge == MergeInit => MergeInv
<1> SUFFICES ASSUME MergeInit PROVE MergeInv
  OBVIOUS
<1> USE DEF MergeInit
<1>1. NoRow \in PhysicalRows
  <2>1. [c \in Columns |-> Null] \in [Columns -> Cells]
    BY Zenon DEF Cells
  <2>2. [c \in Columns |-> 0] \in [Columns -> Times \cup {0}]
    BY Zenon
  <2> QED
    BY <2>1, <2>2, Zenon DEF NoRow, PhysicalRows
<1>2. NoEvent \in Events
  BY Zenon DEF NoEvent, Events
<1>3. MergeTypeOK
  BY <1>1, <1>2, Zenon DEF MergeTypeOK
<1>4. Merged(NoRow, {})
  <2>1. /\ NoRow.present = FALSE /\ NoRow.up = 0 /\ NoRow.del = 0
        /\ \A c \in Columns : NoRow.val[c] = Null /\ NoRow.lww[c] = 0
    BY Zenon DEF NoRow
  <2>2. \A c \in Columns : ColumnIsMerge(NoRow, {}, c)
    BY <2>1, Zenon DEF ColumnIsMerge, Writers
  <2> QED
    BY <2>1, <2>2, Zenon DEF Merged, DelIsMax, UpCovers
<1> QED
  BY <1>3, <1>4, Zenon DEF MergeInv

\* One operation on one replica: the row it leaves merges the operation in.
LEMMA OneOperation ==
    ASSUME MergeInv, NEW r \in Replicas, NEW op \in Ops,
           Upsert(r, op) \/ Delete(r, op)
    PROVE  \E n \in PhysicalRows, e \in Events :
              /\ row' = [row EXCEPT ![r] = n]
              /\ event' = [event EXCEPT ![r] = e]
              /\ Merged(n, applied[r] \cup {op})
<1> DEFINE m == row[r]
<1>1. m \in PhysicalRows /\ Merged(m, applied[r]) /\ row = [row EXCEPT ![r] = m]
  BY Zenon DEF MergeInv, MergeTypeOK
<1>2. NoEvent \in Events
  BY Zenon DEF NoEvent, Events
<1>3. CASE Upsert(r, op)
  <2> DEFINE n == IF Upserted(m, op) THEN AfterUpsert(m, op) ELSE m
             e == IF Upserted(m, op)
                  THEN [kind |-> "upsert", cols |-> Reported(AfterUpsert(m, op), op)]
                  ELSE NoEvent
  <2>1. op.kind = "upsert"
    BY <1>3, Zenon DEF Upsert
  <2>2. row' = [row EXCEPT ![r] = n] /\ event' = [event EXCEPT ![r] = e]
    <3>1. CASE Upserted(m, op)
      BY <1>3, <3>1, Zenon DEF Upsert
    <3>2. CASE ~ Upserted(m, op)
      BY <1>1, <1>3, <3>2, Zenon DEF Upsert
    <3> QED
      BY <3>1, <3>2, Zenon
  <2>3. n \in PhysicalRows
    BY <1>1, <2>1, AfterUpsertType, Zenon
  <2>4. e \in Events
    <3>1. Reported(AfterUpsert(m, op), op) \in SUBSET Named
      BY Zenon DEF Reported
    <3> QED
      BY <1>2, <3>1, Zenon DEF Events
  <2>5. Merged(n, applied[r] \cup {op})
    BY <1>1, <2>1, UpsertMerges, Zenon
  <2> HIDE DEF n, e
  <2> QED
    BY <2>2, <2>3, <2>4, <2>5, Zenon
<1>4. CASE Delete(r, op)
  <2> DEFINE n == IF ~ m.present \/ op.ts > m.del THEN AfterDelete(m, op) ELSE m
             e == IF ~ m.present \/ op.ts > m.del THEN DeleteEvent(m) ELSE NoEvent
  <2>1. op.kind = "delete"
    BY <1>4, Zenon DEF Delete
  <2>2. row' = [row EXCEPT ![r] = n] /\ event' = [event EXCEPT ![r] = e]
    <3>1. CASE ~ m.present \/ op.ts > m.del
      BY <1>4, <3>1, Zenon DEF Delete
    <3>2. CASE ~ (~ m.present \/ op.ts > m.del)
      BY <1>1, <1>4, <3>2, Zenon DEF Delete
    <3> QED
      BY <3>1, <3>2, Zenon
  <2>3. n \in PhysicalRows
    BY <1>1, AfterDeleteType, Zenon
  <2>4. e \in Events
    BY <1>2, Zenon DEF Events, DeleteEvent
  <2>5. Merged(n, applied[r] \cup {op})
    BY <1>1, <2>1, DeleteMerges, Zenon
  <2> HIDE DEF n, e
  <2> QED
    BY <2>2, <2>3, <2>4, <2>5, Zenon
<1> QED
  BY <1>3, <1>4, Zenon

LEMMA StepMerge == MergeInv /\ [MergeNext]_mergeVars => MergeInv'
<1> SUFFICES ASSUME MergeInv, [MergeNext]_mergeVars PROVE MergeInv'
  OBVIOUS
<1>1. CASE MergeNext
  <2>1. PICK r \in Replicas, op \in Ops :
           /\ applied' = [applied EXCEPT ![r] = @ \cup {op}]
           /\ Upsert(r, op) \/ Delete(r, op)
    BY <1>1, Zenon DEF MergeNext
  <2>2. PICK n \in PhysicalRows, e \in Events :
           /\ row' = [row EXCEPT ![r] = n]
           /\ event' = [event EXCEPT ![r] = e]
           /\ Merged(n, applied[r] \cup {op})
    BY <2>1, OneOperation, Zenon
  <2>3. MergeTypeOK
    BY Zenon DEF MergeInv
  <2>4. row' \in [Replicas -> PhysicalRows] /\ event' \in [Replicas -> Events]
    BY <2>2, <2>3, Zenon DEF MergeTypeOK
  <2>5. applied[r] \cup {op} \in SUBSET Ops
    BY <2>3, Zenon DEF MergeTypeOK
  <2>6. applied' \in [Replicas -> SUBSET Ops]
    BY <2>1, <2>3, <2>5, Zenon DEF MergeTypeOK
  <2>7. ASSUME NEW q \in Replicas
        PROVE  Merged(row'[q], applied'[q])
    <3>1. CASE q = r
      BY <2>1, <2>2, <2>3, <3>1, Zenon DEF MergeTypeOK
    <3>2. CASE q # r
      <4>1. row'[q] = row[q] /\ applied'[q] = applied[q]
        BY <2>1, <2>2, <2>3, <3>2, Zenon DEF MergeTypeOK
      <4> QED
        BY <4>1, Zenon DEF MergeInv
    <3> QED
      BY <3>1, <3>2, Zenon
  <2> QED
    BY <2>4, <2>6, <2>7, Zenon DEF MergeInv, MergeTypeOK
<1>2. CASE UNCHANGED mergeVars
  BY <1>2, Zenon DEF MergeInv, MergeTypeOK, mergeVars
<1> QED
  BY <1>1, <1>2, Zenon

LEMMA AlwaysMerged == MergeSpec => []MergeInv
BY InitMerge, StepMerge, PTL DEF MergeSpec

-----------------------------------------------------------------------------
(* The theorems *)

\* Rows, events and operations keep their form, whatever order they come in.
THEOREM TableMergeTypeOK == MergeSpec => []MergeTypeOK
<1>1. MergeInv => MergeTypeOK
  BY Zenon DEF MergeInv
<1> QED
  BY <1>1, AlwaysMerged, PTL

\* A row is visible iff an upsert of its operations stands.
LEMMA VisibleIff ==
    ASSUME NEW m \in PhysicalRows, NEW S, Merged(m, S)
    PROVE  Visible(m) <=> \E u \in S : Stands(u, S)
<1>0. /\ S \in SUBSET Ops /\ DelIsMax(m, S) /\ m.up \in Int /\ m.del \in Int
      /\ m.up >= 0 /\ m.del >= 0
  BY RowParts, Zenon DEF Merged
<1>1. ASSUME NEW u \in S, Stands(u, S)
      PROVE  Visible(m)
  <2>1. u \in Ops /\ u.kind = "upsert"
    BY <1>0, <1>1, Zenon DEF Stands
  <2>2. m.del <= u.ts /\ u.ts \in Int
    BY <1>0, <1>1, <2>1, StandsIff, OpFields, Zenon
  <2>3. u.ts <= m.up
    BY <2>1, <2>2, Zenon DEF Merged, UpCovers
  <2>4. m.up >= m.del
    BY <1>0, <2>2, <2>3, SMT
  <2>5. m.present
    BY Zenon DEF Merged
  <2> QED
    BY <2>4, <2>5, Zenon DEF Visible
<1>2. ASSUME Visible(m)
      PROVE  \E u \in S : Stands(u, S)
  <2>1. m.present /\ m.del <= m.up
    BY <1>0, <1>2, SMT DEF Visible
  <2>2. CASE m.up = 0
    \* Then nothing was deleted either, so the row has no operation.
    <3>1. m.del = 0
      BY <1>0, <2>1, <2>2, SMT
    <3>2. PICK o \in S : TRUE
      BY <2>1, Zenon DEF Merged
    <3>3. o \in Ops /\ o.ts \in Int /\ o.ts > 0 /\ o.kind \in {"upsert", "delete"}
      BY <1>0, OpFields, Zenon
    <3>4. o.kind # "delete"
      <4> SUFFICES ASSUME o.kind = "delete" PROVE FALSE
        BY Zenon
      <4>1. o.ts <= 0
        BY <1>0, <3>1, Zenon DEF DelIsMax
      <4> QED
        BY <3>3, <4>1, SMT
    <3>5. o.kind = "upsert" /\ m.del <= o.ts
      <4>1. m.del <= o.ts
        BY <3>1, <3>3, SMT
      <4> QED
        BY <3>3, <3>4, <4>1, Zenon
    <3> QED
      BY <1>0, <3>3, <3>5, StandsIff, Zenon
  <2>3. CASE \E u \in S : u.kind = "upsert" /\ u.ts = m.up
    <3>1. PICK u \in S : u.kind = "upsert" /\ u.ts = m.up
      BY <2>3, Zenon
    <3>2. u \in Ops /\ m.del <= u.ts
      BY <1>0, <2>1, <3>1, Zenon
    <3> QED
      BY <1>0, <3>1, <3>2, StandsIff, Zenon
  <2> QED
    BY <2>2, <2>3, Zenon DEF Merged, UpCovers
<1> QED
  BY <1>1, <1>2, Zenon

(***************************************************************************)
(* For any replicas, columns, values and timestamps, and however the       *)
(* operations are ordered and repeated: a row is visible iff an upsert     *)
(* stands, and each column holds the greatest write that stands.           *)
(***************************************************************************)
THEOREM TableRowIsMerge == MergeSpec => []RowIsMerge
<1>1. MergeInv => RowIsMerge
  <2> SUFFICES ASSUME MergeInv, NEW r \in Replicas
               PROVE  /\ Visible(row[r]) <=> \E u \in applied[r] : Stands(u, applied[r])
                      /\ \A c \in Columns : ColumnIsMerge(row[r], applied[r], c)
    BY Zenon DEF RowIsMerge
  <2>1. row[r] \in PhysicalRows /\ Merged(row[r], applied[r])
    BY Zenon DEF MergeInv, MergeTypeOK
  <2>2. Visible(row[r]) <=> \E u \in applied[r] : Stands(u, applied[r])
    BY <2>1, VisibleIff, Zenon
  <2> QED
    BY <2>1, <2>2, Zenon DEF Merged
<1> QED
  BY <1>1, AlwaysMerged, PTL

\* The operations determine a column's value.
LEMMA ColumnDetermined ==
    ASSUME NEW m \in PhysicalRows, NEW n \in PhysicalRows, NEW S \in SUBSET Ops, NEW c \in Columns,
           ColumnIsMerge(m, S, c), ColumnIsMerge(n, S, c)
    PROVE  m.val[c] = n.val[c]
<1>1. CASE Writers(S, c) = {}
  BY <1>1, Zenon DEF ColumnIsMerge
<1>2. CASE Writers(S, c) # {}
  <2>1. PICK u \in Writers(S, c) : m.lww[c] = u.ts /\ m.val[c] = u.sets[c]
    BY <1>2, Zenon DEF ColumnIsMerge
  <2>2. PICK w \in Writers(S, c) : n.lww[c] = w.ts /\ n.val[c] = w.sets[c]
    BY <1>2, Zenon DEF ColumnIsMerge
  <2>3. Below(n.lww[c], n.val[c], m.lww[c], m.val[c])
    BY <1>2, <2>2, Zenon DEF ColumnIsMerge
  <2>4. Below(m.lww[c], m.val[c], n.lww[c], n.val[c])
    BY <1>2, <2>1, Zenon DEF ColumnIsMerge
  <2>5. /\ m.lww[c] \in Int /\ n.lww[c] \in Int
        /\ m.val[c] \in Cells /\ n.val[c] \in Cells
    BY RowParts, Zenon
  <2> QED
    BY <2>3, <2>4, <2>5, BelowAntisymmetric, SMT
<1> QED
  BY <1>1, <1>2, Zenon

(***************************************************************************)
(* Replicas that have applied the same operations show the same row, for   *)
(* any values of the constants.                                            *)
(***************************************************************************)
THEOREM TableConverged == MergeSpec => []Converged
<1>1. MergeInv => Converged
  <2> SUFFICES ASSUME MergeInv, NEW r \in Replicas, NEW s \in Replicas,
                      applied[r] = applied[s]
               PROVE  View(row[r]) = View(row[s])
    BY Zenon DEF Converged
  <2> DEFINE m == row[r]
             n == row[s]
             S == applied[r]
  <2>1. /\ m \in PhysicalRows /\ n \in PhysicalRows /\ S \in SUBSET Ops
        /\ Merged(m, S) /\ Merged(n, S)
    BY Zenon DEF MergeInv, MergeTypeOK
  <2> HIDE DEF m, n, S
  <2>2. Visible(m) <=> Visible(n)
    BY <2>1, VisibleIff, Zenon
  <2>3. \A c \in Columns : m.val[c] = n.val[c]
    <3> SUFFICES ASSUME NEW c \in Columns PROVE m.val[c] = n.val[c]
      OBVIOUS
    <3>1. ColumnIsMerge(m, S, c) /\ ColumnIsMerge(n, S, c)
      BY <2>1, Zenon DEF Merged
    <3> QED
      BY <2>1, <3>1, ColumnDetermined, SMT
  <2>4. m.val \in [Columns -> Cells] /\ n.val \in [Columns -> Cells]
    BY <2>1, RowParts, Zenon
  <2>5. m.val = n.val
    <3>1. m.val = [c \in Columns |-> m.val[c]] /\ n.val = [c \in Columns |-> n.val[c]]
      BY <2>4, Zenon
    <3>2. [c \in Columns |-> m.val[c]] = [c \in Columns |-> n.val[c]]
      BY <2>3, Zenon
    <3> QED
      BY <3>1, <3>2, Zenon
  <2>6. View(m) = View(n)
    <3>1. CASE Visible(m)
      BY <2>2, <2>5, <3>1, Zenon DEF View
    <3>2. CASE ~ Visible(m)
      BY <2>2, <3>2, Zenon DEF View
    <3> QED
      BY <3>1, <3>2, Zenon
  <2> QED
    BY <2>6, Zenon DEF m, n
<1> QED
  BY <1>1, AlwaysMerged, PTL

-----------------------------------------------------------------------------
(* What the events say *)

\* A cell the view hides holds nothing: what was written before the delete
\* is cleared, so an upsert that makes the row visible brings nothing back.
LEMMA HiddenIsEmpty ==
    ASSUME NEW m \in PhysicalRows, NEW S, Merged(m, S), ~ Visible(m), NEW c \in Columns
    PROVE  m.val[c] = Null
<1>1. ~ \E u \in S : Stands(u, S)
  BY VisibleIff, Zenon
<1>2. Writers(S, c) = {}
  BY <1>1, Zenon DEF Writers
<1> QED
  BY <1>2, Zenon DEF Merged, ColumnIsMerge

\* An upsert that goes through leaves a row that is there.
LEMMA UpsertShows ==
    ASSUME NEW m \in PhysicalRows, NEW S, Merged(m, S), NEW op \in Ops, op.kind = "upsert",
           Upserted(m, op)
    PROVE  Visible(AfterUpsert(m, op))
<1>0. /\ op.ts \in Int /\ op.ts > 0
      /\ m.del \in Int /\ m.up \in Int
  BY RowParts, OpFields, Zenon
<1>1. ~ m.present => m.del = 0
  BY Zenon DEF Merged, DelIsMax
<1>2. m.del <= op.ts
  <2>1. CASE m.present
    BY <1>0, <2>1, SMT DEF Upserted
  <2>2. CASE ~ m.present
    BY <1>0, <1>1, <2>2, SMT
  <2> QED
    BY <2>1, <2>2, Zenon
<1>3. Later(m.up, op.ts) >= m.del
  BY <1>0, <1>2, SMT DEF Later
<1> QED
  BY <1>3, AfterUpsertType, Zenon DEF Visible

\* A column it changed is among those it reports.
LEMMA ChangeReported ==
    ASSUME NEW m \in PhysicalRows, NEW op \in Ops, op.kind = "upsert", NEW c \in Named,
           AfterUpsert(m, op).val[c] # m.val[c]
    PROVE  c \in Reported(AfterUpsert(m, op), op)
<1>0. c \in Columns
  BY TableMergeAssumption, Zenon
<1>1. c \in DOMAIN op.sets /\ Wins(m, op, c) /\ AfterUpsert(m, op).val[c] = op.sets[c]
  BY <1>0, AfterUpsertType, Zenon
<1>2. AfterUpsert(m, op).lww[c] = op.ts
  <2>1. Later(m.lww[c], op.ts) = op.ts
    BY <1>1, WinsOrBelow, Zenon
  <2> QED
    BY <1>0, <1>1, <2>1, AfterUpsertType, Zenon
<1> QED
  BY <1>1, <1>2, Zenon DEF Reported

\* What one operation shows and says, on the replica that applies it.
LEMMA OperationTells ==
    ASSUME MergeInv, NEW r \in Replicas, NEW op \in Ops,
           Upsert(r, op) \/ Delete(r, op)
    PROVE  /\ \A q \in Replicas : q # r => row'[q] = row[q] /\ event'[q] = event[q]
           /\ event'[r].kind = "none" => row'[r] = row[r]
           /\ event'[r].kind = "upsert" =>
                 /\ op.kind = "upsert"
                 /\ Upserted(row[r], op)
                 /\ row'[r] = AfterUpsert(row[r], op)
                 /\ event'[r].cols = Reported(AfterUpsert(row[r], op), op)
<1>1. row \in [Replicas -> PhysicalRows] /\ event \in [Replicas -> Events]
  BY Zenon DEF MergeInv, MergeTypeOK
<1>2. CASE op.kind = "upsert" /\ Upserted(row[r], op) /\ Upsert(r, op)
  <2>1. /\ row' = [row EXCEPT ![r] = AfterUpsert(row[r], op)]
        /\ event' = [event EXCEPT
                        ![r] = [kind |-> "upsert",
                                cols |-> Reported(AfterUpsert(row[r], op), op)]]
    BY <1>2, Zenon DEF Upsert
  <2>2. "upsert" # "none"
    OBVIOUS
  <2> QED
    BY <1>1, <1>2, <2>1, <2>2, Zenon
<1>3. CASE Delete(r, op) /\ event' = [event EXCEPT ![r] = DeleteEvent(row[r])]
  <2>1. /\ event'[r].kind = "delete"
        /\ "delete" # "none" /\ "delete" # "upsert"
        /\ \A q \in Replicas : q # r => row'[q] = row[q] /\ event'[q] = event[q]
    BY <1>1, <1>3, Zenon DEF Delete, DeleteEvent
  <2> QED
    BY <2>1, Zenon
<1>4. CASE UNCHANGED row /\ event' = [event EXCEPT ![r] = NoEvent]
  <2>1. event'[r].kind = "none" /\ "none" # "upsert"
    BY <1>1, <1>4, Zenon DEF NoEvent
  <2> QED
    BY <1>1, <1>4, <2>1, Zenon
<1> QED
  BY <1>2, <1>3, <1>4, Zenon DEF Upsert, Delete

(***************************************************************************)
(* Watchers learn of every change they can see, for any values of the      *)
(* constants.  That an upsert reports each column it changed in the view,  *)
(* on a row it makes visible again, rests on the invariant: there a delete *)
(* left no value behind.                                                   *)
(***************************************************************************)
THEOREM TableEventsTellChanges == MergeSpec => EventsTellChanges
<1> DEFINE Told(r) ==
               /\ View(row[r])' # View(row[r]) => event'[r].kind # "none"
               /\ (event'[r].kind = "upsert" /\ row'[r] # row[r]) =>
                     /\ Visible(row'[r])
                     /\ \A c \in Named :
                           View(row[r])'.val[c] # View(row[r]).val[c] => c \in event'[r].cols
<1>1. ASSUME MergeInv, MergeNext, NEW q \in Replicas
      PROVE  Told(q)
  <2>1. PICK r \in Replicas, op \in Ops : Upsert(r, op) \/ Delete(r, op)
    BY <1>1, Zenon DEF MergeNext
  <2>2. /\ \A p \in Replicas : p # r => row'[p] = row[p] /\ event'[p] = event[p]
        /\ event'[r].kind = "none" => row'[r] = row[r]
        /\ event'[r].kind = "upsert" =>
              /\ op.kind = "upsert"
              /\ Upserted(row[r], op)
              /\ row'[r] = AfterUpsert(row[r], op)
              /\ event'[r].cols = Reported(AfterUpsert(row[r], op), op)
    BY <1>1, <2>1, OperationTells, Zenon
  <2>3. row[r] \in PhysicalRows /\ Merged(row[r], applied[r])
    BY <1>1, Zenon DEF MergeInv, MergeTypeOK
  <2>4. row'[q] = row[q] => View(row[q])' = View(row[q])
    BY Zenon DEF View, Visible
  <2>5. CASE q # r
    BY <2>2, <2>4, <2>5, Zenon
  <2>6. ASSUME event'[r].kind = "upsert"
        PROVE  /\ Visible(row'[r])
               /\ \A c \in Named :
                     View(row[r])'.val[c] # View(row[r]).val[c] => c \in event'[r].cols
    <3> DEFINE m == row[r]
               n == AfterUpsert(row[r], op)
    <3>1. Visible(n) /\ row'[r] = n /\ op.kind = "upsert"
      BY <2>2, <2>3, <2>6, UpsertShows, Zenon
    <3>2. \A c \in Columns : View(row[r])'.val[c] = n.val[c]
      BY <3>1, Zenon DEF View, Visible
    <3>3. \A c \in Columns : View(row[r]).val[c] = m.val[c]
      <4>1. CASE Visible(m)
        BY <4>1, Zenon DEF View
      <4>2. CASE ~ Visible(m)
        <5>1. \A c \in Columns : m.val[c] = Null
          BY <2>3, <4>2, HiddenIsEmpty, Zenon
        <5> QED
          BY <4>2, <5>1, Zenon DEF View
      <4> QED
        BY <4>1, <4>2, Zenon
    <3>4. Named \subseteq Columns
      BY TableMergeAssumption, Zenon
    <3> QED
      BY <2>2, <2>3, <2>6, <3>1, <3>2, <3>3, <3>4, ChangeReported, Zenon
  <2>7. CASE q = r
    BY <2>2, <2>4, <2>6, <2>7, Zenon
  <2> QED
    BY <2>5, <2>7, Zenon
<1>2. MergeInv /\ [MergeNext]_mergeVars => [\A r \in Replicas : Told(r)]_mergeVars
  BY <1>1, Zenon
<1> QED
  BY <1>2, AlwaysMerged, PTL DEF MergeSpec, EventsTellChanges

(***************************************************************************)
(* A column an event reports shows the value this operation gave it.       *)
(***************************************************************************)
THEOREM TableReportsAreTrue == MergeSpec => ReportsAreTrue
<1> DEFINE True(r) ==
               \A u \in applied'[r] \ applied[r] :
                   event'[r].kind = "upsert" =>
                       \A c \in event'[r].cols : View(row'[r]).val[c] = u.sets[c]
<1>1. ASSUME MergeInv, MergeNext, NEW q \in Replicas
      PROVE  True(q)
  <2>1. PICK r \in Replicas, op \in Ops :
           /\ applied' = [applied EXCEPT ![r] = @ \cup {op}]
           /\ Upsert(r, op) \/ Delete(r, op)
    BY <1>1, Zenon DEF MergeNext
  <2>2. applied \in [Replicas -> SUBSET Ops]
    BY <1>1, Zenon DEF MergeInv, MergeTypeOK
  <2>3. CASE q # r
    <3>1. applied'[q] = applied[q]
      BY <2>1, <2>2, <2>3, Zenon
    <3> QED
      BY <3>1, Zenon
  <2>4. ASSUME q = r, NEW u \in applied'[q] \ applied[q], event'[q].kind = "upsert",
               NEW c \in event'[q].cols
        PROVE  View(row'[q]).val[c] = u.sets[c]
    <3>1. u = op
      BY <2>1, <2>2, <2>4, Zenon
    <3>2. /\ op.kind = "upsert"
          /\ Upserted(row[r], op)
          /\ row'[q] = AfterUpsert(row[r], op)
          /\ event'[q].cols = Reported(AfterUpsert(row[r], op), op)
      BY <1>1, <2>1, <2>4, OperationTells, Zenon
    <3>3. row[r] \in PhysicalRows /\ Merged(row[r], applied[r])
      BY <1>1, Zenon DEF MergeInv, MergeTypeOK
    <3>4. Visible(row'[q])
      BY <3>2, <3>3, UpsertShows, Zenon
    <3>5. row'[q].val[c] = op.sets[c]
      BY <2>4, <3>2, Zenon DEF Reported
    <3> QED
      BY <3>1, <3>4, <3>5, Zenon DEF View
  <2> QED
    BY <2>3, <2>4, Zenon
<1>2. MergeInv /\ [MergeNext]_mergeVars => [\A r \in Replicas : True(r)]_mergeVars
  BY <1>1, Zenon
<1> QED
  BY <1>2, AlwaysMerged, PTL DEF MergeSpec, ReportsAreTrue

=============================================================================
