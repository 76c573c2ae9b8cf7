------------------------------ MODULE HlcPeers ------------------------------
(***************************************************************************)
(* The hybrid clocks of several replicas that exchange entries             *)
(* (ubiquisync-sql, src/replica/hlc.rs): local_hlc() stamps an entry,      *)
(* observe_remote_hlc() merges the timestamp of another replica's, and     *)
(* both queue the new clock into the batch that stores the entry.          *)
(*                                                                         *)
(* Abstractions.  The compare-exchange loop of update_hlc() is one step    *)
(* here; Replica has it in full.  No code calls observe_remote_hlc() yet:  *)
(* that the batch it is given stores the entry, and that batches of        *)
(* different streams are open at once, as they are in exec(), is external. *)
(* A call that fails, for skew or overflow, changes nothing.               *)
(***************************************************************************)
EXTENDS Hlc, FiniteSets

CONSTANTS
    Peers,
    ReadingsOf,    \* ReadingsOf[p]: what WallTime::now() may return to p
    MaxSteps,      \* bound: calls per replica
    MaxCrashes     \* bound: crashes in all

ASSUME HlcPeersAssumption ==
    /\ ReadingsOf \in [Peers -> SUBSET Nat]
    /\ \A p \in Peers : \E t \in ReadingsOf[p] : \A s \in ReadingsOf[p] : s <= t
    /\ MaxSteps \in Nat
    /\ MaxCrashes \in Nat

VARIABLES
    hlc,         \* hlc[p]: the AtomicU64
    stored,      \* stored[p]: the row of __replica_hlc
    batches,     \* batches[p]: batches assembled and not committed
    entries,     \* entries[p]: the entries p has stored
    steps,       \* steps[p]: calls made
    crashes

peersVars == <<hlc, stored, batches, entries, steps, crashes>>

\* seen is history: the last timestamp in the author's log when the entry was
\* stamped.
Entries == [by : Peers, ts : Timestamp, seen : Timestamp]

\* clock is ZeroTs, below every stored clock, if none is queued.
Batches == [entry : Entries, clock : Timestamp]

PeersInit ==
    /\ hlc = [p \in Peers |-> ZeroTs]
    /\ stored = [p \in Peers |-> ZeroTs]
    /\ batches = [p \in Peers |-> {}]
    /\ entries = [p \in Peers |-> {}]
    /\ steps = [p \in Peers |-> 0]
    /\ crashes = 0

-----------------------------------------------------------------------------
\* update_hlc() with next as f's result: a clock that stays as it is is not
\* queued.
Update(p, next, entry) ==
    /\ next # Overflow
    /\ steps[p] < MaxSteps
    /\ steps' = [steps EXCEPT ![p] = @ + 1]
    /\ hlc' = [hlc EXCEPT ![p] = next]
    /\ batches' = [batches EXCEPT
                      ![p] = @ \cup {[entry |-> entry,
                                      clock |-> IF next = hlc[p] THEN ZeroTs ELSE next]}]
    /\ UNCHANGED <<stored, entries, crashes>>

LastSeen(p) ==
    CHOOSE t \in {e.ts : e \in entries[p]} \cup {ZeroTs} : \A e \in entries[p] : AtMost(e.ts, t)

\* local_hlc(), for an entry of its own.
Local(p) ==
    \E now \in ReadingsOf[p] :
        LET next == NextLocal(hlc[p], now)
        IN  Update(p, next, [by |-> p, ts |-> next, seen |-> LastSeen(p)])

\* observe_remote_hlc(), for an entry another replica has stored.  The lock
\* of its stream keeps a second call from working on the same entry.
Observe(p, q) ==
    \E e \in entries[q] \ entries[p], now \in ReadingsOf[p] :
        /\ \A b \in batches[p] : b.entry # e
        /\ WithinSkew(now, e.ts)
        /\ Update(p, NextAfter(hlc[p], e.ts), e)

\* persist_hlc(): the stored clock moves forward only.
Persist(old, ts) == IF Before(old, ts) THEN ts ELSE old

Commit(p) ==
    \E b \in batches[p] :
        /\ batches' = [batches EXCEPT ![p] = @ \ {b}]
        /\ stored' = [stored EXCEPT ![p] = Persist(@, b.clock)]
        /\ entries' = [entries EXCEPT ![p] = @ \cup {b.entry}]
        /\ UNCHANGED <<hlc, steps, crashes>>

\* The database or a later step of the call reports an error.
Fail(p) ==
    \E b \in batches[p] :
        /\ batches' = [batches EXCEPT ![p] = @ \ {b}]
        /\ UNCHANGED <<hlc, stored, entries, steps, crashes>>

\* The process ends and opens its database again: load_hlc().
Restart(p) ==
    /\ crashes < MaxCrashes
    /\ crashes' = crashes + 1
    /\ hlc' = [hlc EXCEPT ![p] = stored[p]]
    /\ batches' = [batches EXCEPT ![p] = {}]
    /\ UNCHANGED <<stored, entries, steps>>

PeersNext ==
    \E p \in Peers :
        \/ Local(p)
        \/ \E q \in Peers : Observe(p, q)
        \/ Commit(p)
        \/ Fail(p)
        \/ Restart(p)

PeersSpec == PeersInit /\ [][PeersNext]_peersVars

-----------------------------------------------------------------------------
(* Properties *)

(***************************************************************************)
(* Causal across replicas: an entry is above every entry its author had    *)
(* stored when it was stamped, so an edit made after seeing another wins,  *)
(* whatever the wall clocks read (as the protocol document says, where it  *)
(* explains the clock).                                                    *)
(***************************************************************************)
CausalAcrossPeers ==
    \A p \in Peers : \A e \in entries[p] : Before(e.seen, e.ts)

(***************************************************************************)
(* It holds as long as nobody restarts.  After a restart it may not: a     *)
(* call that finds the clock moved by another call queues no clock, so its *)
(* entry may be stored when the clock above it is not.                     *)
(***************************************************************************)
CausalUntilRestart == crashes = 0 => CausalAcrossPeers

LastReading(p) == CHOOSE t \in ReadingsOf[p] : \A s \in ReadingsOf[p] : s <= t

(***************************************************************************)
(* No replica can drag another's clock away: a clock is ahead of what its  *)
(* own wall clock has read by the accepted skew and one tick per call at   *)
(* most, whatever the others' clocks read.                                 *)
(***************************************************************************)
BoundedLead ==
    \A p \in Peers :
        Raw(hlc[p]) <= Raw([ms |-> LastReading(p) + MaxSkew, ctr |-> CounterMax]) + steps[p]

=============================================================================
