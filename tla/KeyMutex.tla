------------------------------ MODULE KeyMutex ------------------------------
(***************************************************************************)
(* What a per-stream lock promises: at most one task owns a key, keys do   *)
(* not disturb each other.  KeyedLock implements this with a table of weak *)
(* references; Replica is written against it.                              *)
(***************************************************************************)
CONSTANTS Tasks, Keys, NoTask

VARIABLE holder    \* holder[k] is the task that owns k, or NoTask

KMInit == holder = [k \in Keys |-> NoTask]

KMAcquire(t, k) ==
    /\ holder[k] = NoTask
    /\ holder' = [holder EXCEPT ![k] = t]

KMRelease(t, k) ==
    /\ holder[k] = t
    /\ holder' = [holder EXCEPT ![k] = NoTask]

KMNext == \E t \in Tasks, k \in Keys : KMAcquire(t, k) \/ KMRelease(t, k)

KMSpec == KMInit /\ [][KMNext]_holder

=============================================================================
