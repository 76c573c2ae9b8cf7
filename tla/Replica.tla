------------------------------ MODULE Replica ------------------------------
(***************************************************************************)
(* A replica writing its own streams (ubiquisync-sql, src/replica):        *)
(* concurrent exec() calls, the shared clock, the database they commit to, *)
(* and the process crashing and opening the database again.                *)
(*                                                                         *)
(* One exec() call takes the lock of its stream, reads (or inserts) the    *)
(* stream's row, draws a timestamp from the clock all streams share,       *)
(* lets the reducer prepare, and commits one batch: the clock, the         *)
(* segment, the row's new head and the reducer's statements.  The lock is  *)
(* kept until the change event is out.                                     *)
(*                                                                         *)
(* Abstractions.  An entry is its timestamp: the payload, user id and      *)
(* signature ride along.  A chain hash is the sequence of entries it       *)
(* commits to, so its length is the size kept beside it.  A batch either   *)
(* commits whole or not at all (DbBatch).  The lock is KeyMutex, which     *)
(* KeyedLock implements.  commit_err is set and cleared by code that does  *)
(* not exist yet (ingestion of other peers' logs); Stall and Resume stand  *)
(* for it, and exec() is modelled as it reacts to it.                      *)
(***************************************************************************)
EXTENDS Hlc, Sequences

CONSTANTS
    Tasks,         \* concurrent callers of exec()
    Containers,    \* the containers written: one stream each
    NoTask,
    Readings,      \* what WallTime::now() may return, at any time
    MaxCalls,      \* bound: exec() calls per task
    MaxCrashes     \* bound: crashes

ASSUME ReplicaAssumption ==
    /\ NoTask \notin Tasks
    /\ Containers # {}
    /\ Readings \subseteq Nat
    /\ MaxCalls \in Nat
    /\ MaxCrashes \in Nat

VARIABLES
    \* the database
    streams,     \* rows of __replica_streams; the index is the row id
    segments,    \* rows of __replica_segments
    clock,       \* the row of __replica_hlc; no row reads as ZeroTs
    applied,     \* applied[c]: operations of c that are in the tables, in order
    \* the process
    up,
    hlc,         \* the AtomicU64
    holder,      \* stream_locks
    pc, loc,     \* where each call is, and its local variables
    \* what others have seen
    events,      \* events[c]: change events published for stream c
    calls, crashes

dbVars == <<streams, segments, clock, applied>>
vars == <<streams, segments, clock, applied, up, hlc, holder, pc, loc,
          events, calls, crashes>>

States == {"idle", "lock", "select", "insert", "stamp", "swap", "prepare",
           "commit", "post", "panic"}

Row == [ctn : Containers, head : Seq(Timestamp), commit : Nat, stalled : BOOLEAN]

Segment == [stream : Nat, start : Nat, end : Nat, entry : Timestamp]

\* ctn: the stream; id, head, stalled: its row as read under the lock;
\* last, now: what the compare-exchange loop works with; ts: the result.
Locals == [ctn : Containers, id : Nat, head : Seq(Timestamp), stalled : BOOLEAN,
           last : Timestamp, now : Nat, ts : Timestamp]

NoLocals == [ctn |-> CHOOSE c \in Containers : TRUE, id |-> 0, head |-> <<>>,
             stalled |-> FALSE, last |-> ZeroTs, now |-> 0, ts |-> ZeroTs]

NewRow(c) == [ctn |-> c, head |-> <<>>, commit |-> 0, stalled |-> FALSE]

RowsOf(c) == {i \in DOMAIN streams : streams[i].ctn = c}

Init ==
    /\ streams = <<>>
    /\ segments = {}
    /\ clock = ZeroTs
    /\ applied = [c \in Containers |-> <<>>]
    /\ up = TRUE
    /\ hlc = ZeroTs
    /\ holder = [c \in Containers |-> NoTask]
    /\ pc = [t \in Tasks |-> "idle"]
    /\ loc = [t \in Tasks |-> NoLocals]
    /\ events = [c \in Containers |-> <<>>]
    /\ calls = [t \in Tasks |-> 0]
    /\ crashes = 0

-----------------------------------------------------------------------------
(* exec() *)

Goto(t, state) == pc' = [pc EXCEPT ![t] = state]

\* The call ends, however it does: the guard and the batch are dropped.
Leave(t, state) ==
    /\ Goto(t, state)
    /\ loc' = [loc EXCEPT ![t] = NoLocals]
    /\ holder' = [holder EXCEPT ![loc[t].ctn] = IF @ = t THEN NoTask ELSE @]

Start(t, c) ==
    /\ up
    /\ pc[t] = "idle"
    /\ calls[t] < MaxCalls
    /\ Goto(t, "lock")
    /\ loc' = [loc EXCEPT ![t].ctn = c]
    /\ calls' = [calls EXCEPT ![t] = @ + 1]
    /\ UNCHANGED <<dbVars, up, hlc, holder, events, crashes>>

\* Mutant of LockStream: calls of one stream run side by side.
LockNothing(t) ==
    /\ pc[t] = "lock"
    /\ Goto(t, "select")
    /\ UNCHANGED <<dbVars, up, hlc, holder, loc, events, calls, crashes>>

LockStream(t) ==
    /\ pc[t] = "lock"
    /\ holder[loc[t].ctn] = NoTask
    /\ holder' = [holder EXCEPT ![loc[t].ctn] = t]
    /\ Goto(t, "select")
    /\ UNCHANGED <<dbVars, up, hlc, loc, events, calls, crashes>>

\* The row is read into the call's locals.
Enter(t, i) ==
    loc' = [loc EXCEPT ![t].id = i,
                       ![t].head = streams'[i].head,
                       ![t].stalled = streams'[i].stalled]

\* A stream that is not held back must have committed its whole log.
Consistent(r) == r.stalled \/ r.commit = Len(r.head)

\* Two rows run into todo!(), an inconsistent one into an internal error.
SelectStream(t) ==
    /\ pc[t] = "select"
    /\ UNCHANGED streams
    /\ \/ /\ RowsOf(loc[t].ctn) = {}
          /\ Goto(t, "insert")
          /\ UNCHANGED <<loc, holder>>
       \/ \E i \in RowsOf(loc[t].ctn) :
             IF RowsOf(loc[t].ctn) # {i} THEN Leave(t, "panic")
             ELSE IF ~ Consistent(streams[i]) THEN Leave(t, "idle")
             ELSE /\ Goto(t, "stamp")
                  /\ Enter(t, i)
                  /\ UNCHANGED holder
    /\ UNCHANGED <<segments, clock, applied, up, hlc, events, calls, crashes>>

\* A statement of its own, committed at once and before the batch exists.
InsertStream(t) ==
    /\ pc[t] = "insert"
    /\ streams' = Append(streams, NewRow(loc[t].ctn))
    /\ Enter(t, Len(streams) + 1)
    /\ Goto(t, "stamp")
    /\ UNCHANGED <<segments, clock, applied, up, hlc, holder, events, calls,
                   crashes>>

\* local_hlc(): read the wall clock, then load the atomic.
ReadClock(t) ==
    /\ pc[t] = "stamp"
    /\ \E now \in Readings :
          loc' = [loc EXCEPT ![t].now = now, ![t].last = hlc]
    /\ Goto(t, "swap")
    /\ UNCHANGED <<dbVars, up, hlc, holder, events, calls, crashes>>

\* Mutant of SwapSucceeds: a plain store instead of the compare-exchange.
SwapAlwaysSucceeds(t) == TRUE

\* compare_exchange finds the value this call loaded.
SwapSucceeds(t) == hlc = loc[t].last

\* Mutant of Reload: the failed exchange's value is thrown away.
ReloadForgotten(t) == UNCHANGED loc

\* A failed exchange reports the current value.
Reload(t) == loc' = [loc EXCEPT ![t].last = hlc]

\* One round of update_hlc(): another stream may have moved the clock.
SwapClock(t) ==
    LET next == NextLocal(loc[t].last, loc[t].now) IN
    /\ pc[t] = "swap"
    /\ \/ /\ next = Overflow
          /\ Leave(t, "idle")
          /\ UNCHANGED hlc
       \/ /\ next # Overflow
          /\ SwapSucceeds(t)
          /\ hlc' = next
          /\ loc' = [loc EXCEPT ![t].ts = next]
          /\ Goto(t, IF loc[t].stalled THEN "commit" ELSE "prepare")
          /\ UNCHANGED holder
       \/ /\ next # Overflow
          /\ ~ SwapSucceeds(t)
          /\ Reload(t)
          /\ UNCHANGED <<hlc, holder, pc>>
    /\ UNCHANGED <<dbVars, up, events, calls, crashes>>

\* Mutant of Prepare: the event goes out before the batch is committed.
PrepareAndPublish(t) ==
    /\ pc[t] = "prepare"
    /\ events' = [events EXCEPT ![loc[t].ctn] = Append(@, loc[t].ts)]
    /\ Goto(t, "commit")
    /\ UNCHANGED <<dbVars, up, hlc, holder, loc, calls, crashes>>

Prepare(t) ==
    /\ pc[t] = "prepare"
    /\ Goto(t, "commit")
    /\ UNCHANGED <<dbVars, up, hlc, holder, loc, events, calls, crashes>>

\* Mutant of PersistClock: the conflict clause has no WHERE.
PersistClockAlways(ts) == clock' = ts

\* persist_hlc(): the stored clock moves forward only.
PersistClock(ts) == clock' = IF Before(clock, ts) THEN ts ELSE clock

SegmentOf(i, head, ts) ==
    [stream |-> i, start |-> Len(head), end |-> Len(head) + 1, entry |-> ts]

\* The primary key of __replica_segments admits the new row.
SegmentKeyFree(i, head) ==
    \A s \in segments : ~ (s.stream = i /\ s.end = Len(head) + 1)

\* Mutant of RowAfter: a stalled stream records its segment only.
RowAfterHeadForgotten(r, l) ==
    IF l.stalled THEN r
    ELSE LET head == Append(l.head, l.ts)
         IN [r EXCEPT !.head = head, !.commit = Len(head)]

\* Mutant of RowAfter: commit_size follows head_size while stalled, too.
RowAfterCommitAlways(r, l) ==
    LET head == Append(l.head, l.ts)
    IN [r EXCEPT !.head = head, !.commit = Len(head)]

\* The stream's row once the call's entry is in its chain.
RowAfter(r, l) ==
    LET head == Append(l.head, l.ts)
    IN [r EXCEPT !.head = head, !.commit = IF l.stalled THEN @ ELSE Len(head)]

CommitBatch(t) ==
    LET l == loc[t] IN
    /\ pc[t] = "commit"
    /\ SegmentKeyFree(l.id, l.head)
    /\ PersistClock(l.ts)
    /\ segments' = segments \cup {SegmentOf(l.id, l.head, l.ts)}
    /\ streams' = [streams EXCEPT ![l.id] = RowAfter(@, l)]
    /\ applied' = [applied EXCEPT
                      ![l.ctn] = IF l.stalled THEN @ ELSE Append(@, l.ts)]
    /\ Goto(t, "post")
    /\ UNCHANGED <<up, hlc, holder, loc, events, calls, crashes>>

\* post_apply() and the end of exec().  Whether there is an event depends on
\* the rows the statement changed and on the table having a name.
PostApply(t) ==
    /\ pc[t] = "post"
    /\ \/ /\ ~ loc[t].stalled
          /\ events' = [events EXCEPT ![loc[t].ctn] = Append(@, loc[t].ts)]
       \/ UNCHANGED events
    /\ Leave(t, "idle")
    /\ UNCHANGED <<dbVars, up, hlc, calls, crashes>>

\* The database, the signer or the reducer reports an error, the batch runs
\* into a constraint, or the caller drops the future while it waits.
Abandon(t) ==
    /\ pc[t] \in {"lock", "select", "insert", "prepare", "commit"}
    /\ Leave(t, "idle")
    /\ UNCHANGED <<dbVars, up, hlc, events, calls, crashes>>

-----------------------------------------------------------------------------
(* The process and its environment. *)

Crash ==
    /\ up
    /\ crashes < MaxCrashes
    /\ crashes' = crashes + 1
    /\ up' = FALSE
    /\ hlc' = ZeroTs
    /\ holder' = [c \in Containers |-> NoTask]
    /\ pc' = [t \in Tasks |-> "idle"]
    /\ loc' = [t \in Tasks |-> NoLocals]
    /\ UNCHANGED <<dbVars, events, calls>>

\* Mutant of Open: the clock starts from zero.
OpenAtZero ==
    /\ ~ up
    /\ up' = TRUE
    /\ hlc' = ZeroTs
    /\ UNCHANGED <<dbVars, holder, pc, loc, events, calls, crashes>>

\* Replica::new() on the same database.
Open ==
    /\ ~ up
    /\ up' = TRUE
    /\ hlc' = clock
    /\ UNCHANGED <<dbVars, holder, pc, loc, events, calls, crashes>>

\* External: the stream must wait for something before it may commit.
Stall(c) ==
    /\ up
    /\ holder[c] = NoTask
    /\ \E i \in RowsOf(c) :
          /\ ~ streams[i].stalled
          /\ streams' = [streams EXCEPT ![i].stalled = TRUE]
    /\ UNCHANGED <<segments, clock, applied, up, hlc, holder, pc, loc, events,
                   calls, crashes>>

\* External: the entries held back are applied and the stream goes on.
Resume(c) ==
    /\ up
    /\ holder[c] = NoTask
    /\ \E i \in RowsOf(c) :
          /\ streams[i].stalled
          /\ streams' = [streams EXCEPT ![i].stalled = FALSE,
                                        ![i].commit = Len(streams[i].head)]
          /\ applied' = [applied EXCEPT ![c] = streams[i].head]
    /\ UNCHANGED <<segments, clock, up, hlc, holder, pc, loc, events, calls,
                   crashes>>

-----------------------------------------------------------------------------
Step(t) ==
    \/ LockStream(t)
    \/ SelectStream(t)
    \/ InsertStream(t)
    \/ ReadClock(t)
    \/ SwapClock(t)
    \/ Prepare(t)
    \/ CommitBatch(t)
    \/ PostApply(t)

Next ==
    \/ \E t \in Tasks :
          \/ \E c \in Containers : Start(t, c)
          \/ Step(t)
          \/ Abandon(t)
    \/ \E c \in Containers : Stall(c) \/ Resume(c)
    \/ Crash
    \/ Open

Spec == Init /\ [][Next]_vars

\* The executor polls every call that can go on, and the application opens
\* its database after a crash.  Errors and stalls need not happen.
FairSpec == Spec /\ WF_vars(Open) /\ \A t \in Tasks : WF_vars(Step(t))

-----------------------------------------------------------------------------
(* Properties *)

TypeOK ==
    /\ streams \in Seq(Row)
    /\ segments \subseteq Segment
    /\ clock \in Timestamp
    /\ applied \in [Containers -> Seq(Timestamp)]
    /\ up \in BOOLEAN
    /\ hlc \in Timestamp
    /\ holder \in [Containers -> Tasks \cup {NoTask}]
    /\ pc \in [Tasks -> States]
    /\ loc \in [Tasks -> Locals]
    /\ events \in [Containers -> Seq(Timestamp)]
    /\ calls \in [Tasks -> 0 .. MaxCalls]
    /\ crashes \in 0 .. MaxCrashes

(***************************************************************************)
(* A container never gets a second stream row, although nothing in the     *)
(* schema forbids it and the row is inserted outside the batch: the lock   *)
(* spans the look for the row and its insertion, and a crash or an error   *)
(* between that insertion and the batch leaves an empty row that the next  *)
(* call continues.  exec() has no answer to two rows but todo!().          *)
(***************************************************************************)
OneRowPerStream ==
    \A i, j \in DOMAIN streams : streams[i].ctn = streams[j].ctn => i = j

(***************************************************************************)
(* The stored segments are exactly the entries the row's head hash commits *)
(* to: they tile [0, head_size) without a gap or an overlap, whatever      *)
(* batches failed or were cut off by a crash.                              *)
(***************************************************************************)
ChainIntact ==
    segments = UNION {
        {[stream |-> i, start |-> k - 1, end |-> k, entry |-> streams[i].head[k]] :
            k \in DOMAIN streams[i].head} : i \in DOMAIN streams}

(***************************************************************************)
(* No two committed entries of the replica have one timestamp, be they in  *)
(* one stream or two, from before a crash or after it.  The LWW merge      *)
(* relies on it: one peer's own writes never meet in a tie.                *)
(***************************************************************************)
TimestampsUnique ==
    \A i, j \in DOMAIN streams :
        \A k \in DOMAIN streams[i].head, l \in DOMAIN streams[j].head :
            streams[i].head[k] = streams[j].head[l] => i = j /\ k = l

(***************************************************************************)
(* The stored clock is never behind a committed entry, although streams    *)
(* draw their timestamps in one order and commit them in another.  So the  *)
(* clock a restart loads stamps above everything the log holds.            *)
(***************************************************************************)
ClockCovers ==
    \A i \in DOMAIN streams : \A k \in DOMAIN streams[i].head :
        AtMost(streams[i].head[k], clock)

LogOf(c) ==
    IF RowsOf(c) = {} THEN <<>>
    ELSE streams[CHOOSE i \in RowsOf(c) : TRUE].head

(***************************************************************************)
(* The tables hold the operations of a stream up to its commit_size, and   *)
(* that is its whole log unless the stream is held back: no operation is   *)
(* in the log and not in the tables, or the other way round.               *)
(***************************************************************************)
TablesMatchLog ==
    /\ \A i \in DOMAIN streams :
          LET r == streams[i] IN
          /\ r.commit <= Len(r.head)
          /\ ~ r.stalled => r.commit = Len(r.head)
          /\ applied[r.ctn] = SubSeq(r.head, 1, r.commit)
    /\ \A c \in Containers : RowsOf(c) = {} => applied[c] = <<>>

(***************************************************************************)
(* Watchers see the changes of a stream in the order the log has them, and *)
(* none that did not commit.  The event goes out after the batch, so this  *)
(* needs the lock to be kept until then.                                   *)
(***************************************************************************)
EventsFollowLog ==
    \A c \in Containers :
        /\ \A k \in DOMAIN events[c] : \E i \in DOMAIN applied[c] : events[c][k] = applied[c][i]
        /\ \A k, l \in DOMAIN events[c] : k < l => Before(events[c][k], events[c][l])

(***************************************************************************)
(* Every exec() call returns: the compare-exchange loop ends, no lock is   *)
(* kept by a call that is over.                                            *)
(***************************************************************************)
EveryCallReturns ==
    \A t \in Tasks : pc[t] = "lock" ~> pc[t] \in {"idle", "panic"}

(***************************************************************************)
(* The replica implements the abstract log of OpLog.                       *)
(***************************************************************************)
Log == INSTANCE OpLog WITH log <- [c \in Containers |-> LogOf(c)]

ImplementsOpLog == Log!OLSpec

=============================================================================
