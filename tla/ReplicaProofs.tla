--------------------------- MODULE ReplicaProofs ---------------------------
(***************************************************************************)
(* Safety of the replica for any number of callers, streams, calls and     *)
(* crashes, any wall clock and any width of the timestamp.                 *)
(***************************************************************************)
EXTENDS Replica, HlcProofs

-----------------------------------------------------------------------------
(* Sequences and records *)

\* What an update of one element does to a sequence.
LEMMA SeqUpdate ==
    ASSUME NEW S, NEW s \in Seq(S), NEW i \in DOMAIN s, NEW v \in S
    PROVE  /\ [s EXCEPT ![i] = v] \in Seq(S)
           /\ DOMAIN [s EXCEPT ![i] = v] = DOMAIN s
           /\ \A j \in DOMAIN s : [s EXCEPT ![i] = v][j] = IF j = i THEN v ELSE s[j]
<1>1. [s EXCEPT ![i] = v] \in Seq(S)
  BY SMT
<1> QED
  BY <1>1, Zenon

\* What Append does to a sequence.
LEMMA SeqAppend ==
    ASSUME NEW S, NEW s \in Seq(S), NEW v \in S
    PROVE  /\ Append(s, v) \in Seq(S)
           /\ Len(s) \in Nat
           /\ Len(Append(s, v)) = Len(s) + 1
           /\ DOMAIN s = 1 .. Len(s)
           /\ DOMAIN Append(s, v) = 1 .. Len(s) + 1
           /\ Append(s, v)[Len(s) + 1] = v
           /\ \A j \in DOMAIN s : j # Len(s) + 1 /\ Append(s, v)[j] = s[j]
BY SMT

\* The types of a call's locals.
LEMMA LocalsFields ==
    ASSUME NEW l \in Locals
    PROVE  /\ l.ctn \in Containers
           /\ l.id \in Nat
           /\ l.head \in Seq(Timestamp)
           /\ l.stalled \in BOOLEAN
           /\ l.last \in Timestamp
           /\ l.now \in Nat
           /\ l.ts \in Timestamp
BY Zenon DEF Locals

\* The types of a stream's row.
LEMMA RowFields ==
    ASSUME NEW r \in Row
    PROVE  /\ r.ctn \in Containers
           /\ r.head \in Seq(Timestamp)
           /\ r.commit \in Nat
           /\ r.stalled \in BOOLEAN
BY Zenon DEF Row

\* The locals a call starts and ends with are well typed.
LEMMA NoLocalsType == NoLocals \in Locals
<1>1. (CHOOSE c \in Containers : TRUE) \in Containers
  BY ReplicaAssumption, Zenon
<1> QED
  BY <1>1, ZeroIsLeast, SMT DEF NoLocals, Locals

-----------------------------------------------------------------------------
(* What the steps do to the parts of the state *)

\* However a call ends, it ends alone: the others keep their locals, and
\* their locks.
LEMMA LeaveEffect ==
    ASSUME TypeOK, NEW t \in Tasks, NEW s \in States, Leave(t, s)
    PROVE  /\ pc' \in [Tasks -> States]
           /\ loc' \in [Tasks -> Locals]
           /\ holder' \in [Containers -> Tasks \cup {NoTask}]
           /\ pc'[t] = s
           /\ \A u \in Tasks : u # t => pc'[u] = pc[u] /\ loc'[u] = loc[u]
           /\ \A c \in Containers : holder[c] # t => holder'[c] = holder[c]
<1>1. pc' \in [Tasks -> States]
  BY Zenon DEF TypeOK, Leave, Goto
<1>2. loc' \in [Tasks -> Locals]
  BY NoLocalsType, Zenon DEF TypeOK, Leave
<1>3. holder' \in [Containers -> Tasks \cup {NoTask}]
  BY Zenon DEF TypeOK, Leave
<1>4. pc'[t] = s
  BY Zenon DEF TypeOK, Leave, Goto
<1>5. \A u \in Tasks : u # t => pc'[u] = pc[u] /\ loc'[u] = loc[u]
  BY Zenon DEF TypeOK, Leave, Goto
<1>6. \A c \in Containers : holder[c] # t => holder'[c] = holder[c]
  BY Zenon DEF TypeOK, Leave
<1> QED
  BY <1>1, <1>2, <1>3, <1>4, <1>5, <1>6, Zenon

\* A step from state to state moves one call.
LEMMA GotoEffect ==
    ASSUME TypeOK, NEW t \in Tasks, NEW s \in States, Goto(t, s)
    PROVE  /\ pc' \in [Tasks -> States]
           /\ pc'[t] = s
           /\ \A u \in Tasks : u # t => pc'[u] = pc[u]
BY Zenon DEF TypeOK, Goto

\* Reading a row sets three of the call's locals.
LEMMA EnterEffect ==
    ASSUME TypeOK, NEW t \in Tasks, NEW i \in Nat, streams'[i] \in Row, Enter(t, i)
    PROVE  /\ loc' \in [Tasks -> Locals]
           /\ loc'[t].id = i
           /\ loc'[t].head = streams'[i].head
           /\ loc'[t].stalled = streams'[i].stalled
           /\ loc'[t].ctn = loc[t].ctn
           /\ \A u \in Tasks : u # t => loc'[u] = loc[u]
<1>1. loc \in [Tasks -> Locals]
  BY Zenon DEF TypeOK
<1>2. streams'[i].head \in Seq(Timestamp) /\ streams'[i].stalled \in BOOLEAN
  BY Zenon DEF Row
<1> QED
  BY <1>1, <1>2, ZenonT(60) DEF Enter, Locals

\* The row an entry leaves behind.
LEMMA RowAfterEffect ==
    ASSUME NEW r \in Row, NEW l \in Locals
    PROVE  /\ RowAfter(r, l) \in Row
           /\ RowAfter(r, l).ctn = r.ctn
           /\ RowAfter(r, l).head = Append(l.head, l.ts)
           /\ RowAfter(r, l).stalled = r.stalled
<1> DEFINE h == Append(l.head, l.ts)
           n == IF l.stalled THEN r.commit ELSE Len(h)
<1>1. h \in Seq(Timestamp) /\ Len(h) \in Nat
  BY LocalsFields, SMT
<1>2. n \in Nat
  BY <1>1, RowFields, Zenon
<1>3. RowAfter(r, l) = [r EXCEPT !.head = h, !.commit = n]
  BY Zenon DEF RowAfter
<1> HIDE DEF h, n
<1>4. /\ [r EXCEPT !.head = h, !.commit = n] \in Row
      /\ [r EXCEPT !.head = h, !.commit = n].ctn = r.ctn
      /\ [r EXCEPT !.head = h, !.commit = n].head = h
      /\ [r EXCEPT !.head = h, !.commit = n].stalled = r.stalled
  BY <1>1, <1>2, Zenon DEF Row
<1> QED
  BY <1>3, <1>4, Zenon DEF h

\* The exchange yields a timestamp above the one it replaces.
LEMMA SwapEffect ==
    ASSUME TypeOK, NEW t \in Tasks,
           NextLocal(loc[t].last, loc[t].now) # Overflow
    PROVE  /\ NextLocal(loc[t].last, loc[t].now) \in Timestamp
           /\ Before(loc[t].last, NextLocal(loc[t].last, loc[t].now))
<1>1. loc[t] \in Locals
  BY Zenon DEF TypeOK
<1>2. loc[t].last \in Timestamp /\ loc[t].now \in Nat
  BY <1>1, LocalsFields, Zenon
<1> QED
  BY <1>2, NextLocalAdvances, Zenon

\* The insertion adds an empty row behind the others.
LEMMA InsertEffect ==
    ASSUME TypeOK, NEW t \in Tasks, InsertStream(t)
    PROVE  LET c == loc[t].ctn
               n == Len(streams) + 1
           IN  /\ NewRow(c) \in Row /\ NewRow(c).ctn = c /\ NewRow(c).head = <<>>
               /\ n \in Nat
               /\ n \notin DOMAIN streams
               /\ DOMAIN streams' = DOMAIN streams \cup {n}
               /\ streams'[n] = NewRow(c)
               /\ \A i \in DOMAIN streams : streams'[i] = streams[i]
<1> DEFINE c == loc[t].ctn
           n == Len(streams) + 1
<1>0. streams \in Seq(Row)
  BY Zenon DEF TypeOK
<1>1. NewRow(c) \in Row /\ NewRow(c).ctn = c /\ NewRow(c).head = <<>>
  <2>1. c \in Containers
    BY LocalsFields, Zenon DEF TypeOK
  <2>2. <<>> \in Seq(Timestamp) /\ 0 \in Nat
    BY SMT
  <2> QED
    BY <2>1, <2>2, Zenon DEF NewRow, Row
<1>2. streams' = Append(streams, NewRow(c))
  BY Zenon DEF InsertStream
<1>3. 1 .. n = (1 .. Len(streams)) \cup {n} /\ n \in Nat
  BY <1>0, SMT
<1>4. /\ DOMAIN streams = 1 .. Len(streams)
      /\ DOMAIN streams' = 1 .. n
      /\ streams'[n] = NewRow(c)
      /\ \A i \in DOMAIN streams : i # n /\ streams'[i] = streams[i]
  BY <1>0, <1>1, <1>2, SeqAppend
<1> QED
  BY <1>1, <1>3, <1>4, Zenon

-----------------------------------------------------------------------------
(* Types *)

\* The names of the states are the states.
LEMMA StateNames ==
    /\ "idle" \in States /\ "lock" \in States /\ "select" \in States
    /\ "insert" \in States /\ "stamp" \in States /\ "swap" \in States
    /\ "prepare" \in States /\ "commit" \in States /\ "post" \in States
    /\ "panic" \in States
BY Zenon DEF States

\* Every step keeps the types.
LEMMA TypeStep ==
    ASSUME TypeOK, [Next]_vars
    PROVE  TypeOK'
<1>0. /\ streams \in Seq(Row)
      /\ segments \subseteq Segment
      /\ clock \in Timestamp
      /\ applied \in [Containers -> Seq(Timestamp)]
      /\ up \in BOOLEAN
      /\ hlc \in Timestamp
      /\ holder \in [Containers -> Tasks \cup {NoTask}]
      /\ pc \in [Tasks -> States]
      /\ loc \in [Tasks -> Locals]
      /\ events \in [Containers -> Seq(Timestamp)]
      /\ calls \in [Tasks -> 0 .. MaxCalls]
      /\ crashes \in 0 .. MaxCrashes
  BY Zenon DEF TypeOK
<1>1. CASE UNCHANGED vars
  BY <1>0, <1>1, Zenon DEF vars, TypeOK
<1>2. ASSUME NEW t \in Tasks, NEW c \in Containers, Start(t, c)
      PROVE  TypeOK'
  <2>1. pc' \in [Tasks -> States]
    BY <1>2, GotoEffect, StateNames, Zenon DEF Start
  <2>2. loc' \in [Tasks -> Locals]
    BY <1>0, <1>2, Zenon DEF Start, Locals
  <2>3. calls' \in [Tasks -> 0 .. MaxCalls]
    <3>1. calls[t] + 1 \in 0 .. MaxCalls
      BY <1>0, <1>2, ReplicaAssumption, SMT DEF Start
    <3> QED
      BY <1>0, <1>2, <3>1, Zenon DEF Start
  <2> QED
    BY <1>0, <1>2, <2>1, <2>2, <2>3, Zenon DEF Start, dbVars, TypeOK
<1>3. ASSUME NEW t \in Tasks, LockStream(t)
      PROVE  TypeOK'
  <2>1. pc' \in [Tasks -> States]
    BY <1>3, GotoEffect, StateNames, Zenon DEF LockStream
  <2>2. holder' \in [Containers -> Tasks \cup {NoTask}]
    BY <1>0, <1>3, Zenon DEF LockStream
  <2> QED
    BY <1>0, <1>3, <2>1, <2>2, Zenon DEF LockStream, dbVars, TypeOK
<1>4. ASSUME NEW t \in Tasks, SelectStream(t)
      PROVE  TypeOK'
  <2>1. /\ pc' \in [Tasks -> States]
        /\ loc' \in [Tasks -> Locals]
        /\ holder' \in [Containers -> Tasks \cup {NoTask}]
    <3>1. CASE Goto(t, "insert") /\ UNCHANGED <<loc, holder>>
      BY <1>0, <3>1, GotoEffect, StateNames, Zenon
    <3>2. CASE Leave(t, "panic") \/ Leave(t, "idle")
      BY <3>2, LeaveEffect, StateNames, Zenon
    <3>3. ASSUME NEW i \in RowsOf(loc[t].ctn), Goto(t, "stamp"), Enter(t, i),
                 UNCHANGED holder
          PROVE  /\ pc' \in [Tasks -> States]
                 /\ loc' \in [Tasks -> Locals]
                 /\ holder' \in [Containers -> Tasks \cup {NoTask}]
      <4>1. i \in DOMAIN streams
        BY <3>3, Zenon DEF RowsOf
      <4>2. i \in Nat /\ streams[i] \in Row
        BY <1>0, <4>1, SMT
      <4>3. streams'[i] \in Row
        BY <1>4, <4>2, Zenon DEF SelectStream
      <4> QED
        BY <1>0, <3>3, <4>2, <4>3, GotoEffect, StateNames, EnterEffect, Zenon
    <3> QED
      BY <1>4, <3>1, <3>2, <3>3, Zenon DEF SelectStream
  <2> QED
    BY <1>0, <1>4, <2>1, Zenon DEF SelectStream, TypeOK
<1>5. ASSUME NEW t \in Tasks, InsertStream(t)
      PROVE  TypeOK'
  <2>1. NewRow(loc[t].ctn) \in Row
    <3>1. loc[t].ctn \in Containers
      BY <1>0, LocalsFields, Zenon
    <3>2. <<>> \in Seq(Timestamp) /\ 0 \in Nat
      BY SMT
    <3> QED
      BY <3>1, <3>2, Zenon DEF NewRow, Row
  <2>2. /\ streams' \in Seq(Row)
        /\ Len(streams) + 1 \in Nat
        /\ streams'[Len(streams) + 1] \in Row
    <3>1. streams' = Append(streams, NewRow(loc[t].ctn))
      BY <1>5, Zenon DEF InsertStream
    <3> QED
      BY <1>0, <2>1, <3>1, SeqAppend, SMT
  <2>3. loc' \in [Tasks -> Locals]
    BY <1>5, <2>2, EnterEffect, Zenon DEF InsertStream
  <2>4. pc' \in [Tasks -> States]
    BY <1>5, GotoEffect, StateNames, Zenon DEF InsertStream
  <2> QED
    BY <1>0, <1>5, <2>2, <2>3, <2>4, Zenon DEF InsertStream, TypeOK
<1>6. ASSUME NEW t \in Tasks, ReadClock(t)
      PROVE  TypeOK'
  <2>1. pc' \in [Tasks -> States]
    BY <1>6, GotoEffect, StateNames, Zenon DEF ReadClock
  <2>2. loc' \in [Tasks -> Locals]
    <3>1. PICK now \in Readings :
             loc' = [loc EXCEPT ![t].now = now, ![t].last = hlc]
      BY <1>6, Zenon DEF ReadClock
    <3>2. now \in Nat
      BY ReplicaAssumption, Zenon
    <3> QED
      BY <1>0, <3>1, <3>2, ZenonT(60) DEF Locals
  <2> QED
    BY <1>0, <1>6, <2>1, <2>2, Zenon DEF ReadClock, dbVars, TypeOK
<1>7. ASSUME NEW t \in Tasks, SwapClock(t)
      PROVE  TypeOK'
  <2> DEFINE next == NextLocal(loc[t].last, loc[t].now)
  <2>1. next # Overflow => next \in Timestamp
    BY SwapEffect, Zenon
  <2>2. CASE Leave(t, "idle") /\ UNCHANGED hlc
    BY <1>0, <1>7, <2>2, LeaveEffect, StateNames, Zenon DEF SwapClock, dbVars, TypeOK
  <2>3. CASE /\ next # Overflow
             /\ hlc' = next
             /\ loc' = [loc EXCEPT ![t].ts = next]
             /\ Goto(t, IF loc[t].stalled THEN "commit" ELSE "prepare")
             /\ UNCHANGED holder
    <3>1. pc' \in [Tasks -> States]
      BY <2>3, GotoEffect, StateNames, Zenon
    <3>2. loc' \in [Tasks -> Locals]
      BY <1>0, <2>1, <2>3, Zenon DEF Locals
    <3> QED
      BY <1>0, <1>7, <2>1, <2>3, <3>1, <3>2, Zenon DEF SwapClock, dbVars, TypeOK
  <2>4. CASE Reload(t) /\ UNCHANGED <<hlc, holder, pc>>
    <3>1. loc' \in [Tasks -> Locals]
      BY <1>0, <2>4, Zenon DEF Reload, Locals
    <3> QED
      BY <1>0, <1>7, <2>4, <3>1, Zenon DEF SwapClock, dbVars, TypeOK
  <2> QED
    BY <1>7, <2>2, <2>3, <2>4, Zenon DEF SwapClock
<1>8. ASSUME NEW t \in Tasks, Prepare(t)
      PROVE  TypeOK'
  <2>1. pc' \in [Tasks -> States]
    BY <1>8, GotoEffect, StateNames, Zenon DEF Prepare
  <2> QED
    BY <1>0, <1>8, <2>1, Zenon DEF Prepare, dbVars, TypeOK
<1>9. ASSUME NEW t \in Tasks, CommitBatch(t)
      PROVE  TypeOK'
  <2> DEFINE l == loc[t]
  <2>1. /\ l \in Locals
        /\ l.ts \in Timestamp
        /\ l.head \in Seq(Timestamp)
        /\ l.id \in Nat
        /\ l.ctn \in Containers
    BY <1>0, LocalsFields, Zenon
  <2>2. streams' \in Seq(Row)
    <3>1. streams' = [streams EXCEPT ![l.id] = RowAfter(streams[l.id], l)]
      BY <1>9, Zenon DEF CommitBatch
    <3>2. CASE l.id \in DOMAIN streams
      <4>1. streams[l.id] \in Row
        BY <1>0, <3>2, SMT
      <4>2. RowAfter(streams[l.id], l) \in Row
        BY <2>1, <4>1, RowAfterEffect, Zenon
      <4> QED
        BY <1>0, <3>1, <3>2, <4>2, SeqUpdate, Zenon
    <3>3. CASE l.id \notin DOMAIN streams
      <4>1. streams' = [i \in DOMAIN streams |-> streams[i]]
        BY <3>1, <3>3, Zenon
      <4>2. streams = [i \in DOMAIN streams |-> streams[i]]
        BY <1>0, SMT
      <4> QED
        BY <1>0, <4>1, <4>2, Zenon
    <3> QED
      BY <3>2, <3>3, Zenon
  <2>3. SegmentOf(l.id, l.head, l.ts) \in Segment
    <3>1. Len(l.head) \in Nat /\ Len(l.head) + 1 \in Nat
      BY <2>1, SMT
    <3> QED
      BY <2>1, <3>1, Zenon DEF SegmentOf, Segment
  <2>4. segments' \subseteq Segment
    BY <1>0, <1>9, <2>3, Zenon DEF CommitBatch
  <2>5. clock' \in Timestamp
    BY <1>0, <1>9, <2>1, Zenon DEF CommitBatch, PersistClock
  <2>6. applied' \in [Containers -> Seq(Timestamp)]
    <3>1. applied[l.ctn] \in Seq(Timestamp)
      BY <1>0, <2>1, Zenon
    <3>2. Append(applied[l.ctn], l.ts) \in Seq(Timestamp)
      BY <2>1, <3>1, SeqAppend, Zenon
    <3> QED
      BY <1>0, <1>9, <3>1, <3>2, Zenon DEF CommitBatch
  <2>7. pc' \in [Tasks -> States]
    BY <1>9, GotoEffect, StateNames, Zenon DEF CommitBatch
  <2> QED
    BY <1>0, <1>9, <2>2, <2>4, <2>5, <2>6, <2>7, Zenon DEF CommitBatch, TypeOK
<1>10. ASSUME NEW t \in Tasks, PostApply(t)
       PROVE  TypeOK'
  <2>1. loc[t].ts \in Timestamp /\ loc[t].ctn \in Containers
    BY <1>0, LocalsFields, Zenon
  <2>2. Append(events[loc[t].ctn], loc[t].ts) \in Seq(Timestamp)
    <3>1. events[loc[t].ctn] \in Seq(Timestamp)
      BY <1>0, <2>1, Zenon
    <3> QED
      BY <2>1, <3>1, SeqAppend, Zenon
  <2>3. events' \in [Containers -> Seq(Timestamp)]
    BY <1>0, <1>10, <2>2, Zenon DEF PostApply
  <2> QED
    BY <1>0, <1>10, <2>3, LeaveEffect, StateNames, Zenon DEF PostApply, dbVars, TypeOK
<1>11. ASSUME NEW t \in Tasks, Abandon(t)
       PROVE  TypeOK'
  BY <1>0, <1>11, LeaveEffect, StateNames, Zenon DEF Abandon, dbVars, TypeOK
<1>12. ASSUME NEW c \in Containers, Stall(c)
       PROVE  TypeOK'
  <2>1. PICK i \in RowsOf(c) : streams' = [streams EXCEPT ![i].stalled = TRUE]
    BY <1>12, Zenon DEF Stall
  <2>2. i \in DOMAIN streams
    BY <2>1, Zenon DEF RowsOf
  <2>3. streams[i] \in Row
    BY <1>0, <2>2, SMT
  <2>4. [streams[i] EXCEPT !.stalled = TRUE] \in Row
    BY <2>3, Zenon DEF Row
  <2>5. streams' = [streams EXCEPT ![i] = [streams[i] EXCEPT !.stalled = TRUE]]
    BY <2>1, Zenon
  <2>6. streams' \in Seq(Row)
    BY <1>0, <2>2, <2>4, <2>5, SeqUpdate, Zenon
  <2> QED
    BY <1>0, <1>12, <2>6, Zenon DEF Stall, TypeOK
<1>13. ASSUME NEW c \in Containers, Resume(c)
       PROVE  TypeOK'
  <2>1. PICK i \in RowsOf(c) :
           /\ streams' = [streams EXCEPT ![i].stalled = FALSE,
                                         ![i].commit = Len(streams[i].head)]
           /\ applied' = [applied EXCEPT ![c] = streams[i].head]
    BY <1>13, Zenon DEF Resume
  <2>2. i \in DOMAIN streams
    BY <2>1, Zenon DEF RowsOf
  <2>3. streams[i] \in Row
    BY <1>0, <2>2, SMT
  <2>4. streams[i].head \in Seq(Timestamp) /\ Len(streams[i].head) \in Nat
    BY <2>3, RowFields, SMT
  <2> DEFINE r == [streams[i] EXCEPT !.stalled = FALSE, !.commit = Len(streams[i].head)]
  <2>5. r \in Row
    BY <2>3, <2>4, Zenon DEF Row
  <2>6. streams' = [streams EXCEPT ![i] = r]
    BY <2>1, Zenon
  <2>7. streams' \in Seq(Row)
    BY <1>0, <2>2, <2>5, <2>6, SeqUpdate, Zenon
  <2>8. applied' \in [Containers -> Seq(Timestamp)]
    BY <1>0, <2>1, <2>4, Zenon
  <2> QED
    BY <1>0, <1>13, <2>7, <2>8, Zenon DEF Resume, TypeOK
<1>14. CASE Crash
  <2>1. loc' \in [Tasks -> Locals]
    BY <1>14, NoLocalsType, Zenon DEF Crash
  <2>2. pc' \in [Tasks -> States]
    BY <1>14, StateNames, Zenon DEF Crash
  <2>3. holder' \in [Containers -> Tasks \cup {NoTask}]
    BY <1>14, Zenon DEF Crash
  <2>4. crashes' \in 0 .. MaxCrashes
    BY <1>0, <1>14, ReplicaAssumption, SMT DEF Crash
  <2>5. hlc' \in Timestamp /\ up' \in BOOLEAN
    BY <1>14, ZeroIsLeast, Zenon DEF Crash
  <2> QED
    BY <1>0, <1>14, <2>1, <2>2, <2>3, <2>4, <2>5, Zenon DEF Crash, dbVars, TypeOK
<1>15. CASE Open
  BY <1>0, <1>15, Zenon DEF Open, dbVars, TypeOK
<1> QED
  BY <1>1, <1>2, <1>3, <1>4, <1>5, <1>6, <1>7, <1>8, <1>9, <1>10, <1>11,
     <1>12, <1>13, <1>14, <1>15, Zenon DEF Next, Step

(***************************************************************************)
(* Every variable keeps its type; in particular no step, however the wall  *)
(* clock behaves, leaves a timestamp outside its range in the clock, in a  *)
(* row or in a segment.                                                    *)
(***************************************************************************)
THEOREM ReplicaTypeOK == Spec => []TypeOK
<1>1. Init => TypeOK
  <2> SUFFICES ASSUME Init PROVE TypeOK
    OBVIOUS
  <2>1. loc \in [Tasks -> Locals]
    BY NoLocalsType, Zenon DEF Init
  <2>2. pc \in [Tasks -> States]
    BY StateNames, Zenon DEF Init
  <2>3. <<>> \in Seq(Timestamp) /\ <<>> \in Seq(Row)
    BY SMT
  <2>4. 0 \in 0 .. MaxCalls /\ 0 \in 0 .. MaxCrashes
    BY ReplicaAssumption, SMT
  <2> QED
    BY <2>1, <2>2, <2>3, <2>4, ZeroIsLeast, Zenon DEF Init, TypeOK
<1> QED
  BY <1>1, TypeStep, PTL DEF Spec

-----------------------------------------------------------------------------
(* One row per stream *)

\* A call that is past the lock and not yet over.
Held == {"select", "insert", "stamp", "swap", "prepare", "commit", "post"}

\* A call that has read its row and not yet written it.
Rowed == {"stamp", "swap", "prepare", "commit"}

\* The call holds the lock of its stream.
Owns(t) == pc[t] \in Held => holder[loc[t].ctn] = t

\* What the call knows of the database is still so.
Sees(t) ==
    /\ pc[t] = "insert" => \A i \in DOMAIN streams : streams[i].ctn # loc[t].ctn
    /\ pc[t] \in Rowed =>
          /\ loc[t].id \in DOMAIN streams
          /\ streams[loc[t].id].ctn = loc[t].ctn
          /\ streams[loc[t].id].head = loc[t].head
          /\ streams[loc[t].id].stalled = loc[t].stalled

(***************************************************************************)
(* The inductive invariant.  OneRowPerStream alone is not inductive: that  *)
(* an insertion makes no second row rests on the look for the row that     *)
(* preceded it, and on the lock nobody else could pass since.              *)
(***************************************************************************)
WriterInv ==
    /\ OneRowPerStream
    /\ \A t \in Tasks : Owns(t) /\ Sees(t)

\* Two calls past the lock write two streams.
LEMMA HeldApart ==
    ASSUME WriterInv, NEW t \in Tasks, NEW u \in Tasks, t # u,
           pc[t] \in Held, pc[u] \in Held
    PROVE  loc[t].ctn # loc[u].ctn
BY Zenon DEF WriterInv, Owns

\* A step of one call that leaves the rows and the locks of others alone
\* keeps the invariant if it keeps it for that call.
LEMMA WriterFrame ==
    ASSUME TypeOK, WriterInv, NEW t \in Tasks,
           UNCHANGED streams,
           \A u \in Tasks : u # t => pc'[u] = pc[u] /\ loc'[u] = loc[u],
           \A c \in Containers :
               holder[c] # t /\ holder[c] # NoTask => holder'[c] = holder[c],
           Owns(t)', Sees(t)'
    PROVE  WriterInv'
<1>1. OneRowPerStream'
  BY Zenon DEF WriterInv, OneRowPerStream
<1>2. ASSUME NEW u \in Tasks, u # t
      PROVE  Owns(u)' /\ Sees(u)'
  <2>1. loc[u].ctn \in Containers /\ u # NoTask
    BY LocalsFields, ReplicaAssumption, Zenon DEF TypeOK
  <2>2. Owns(u) /\ Sees(u)
    BY Zenon DEF WriterInv
  <2>3. Owns(u)'
    BY <1>2, <2>1, <2>2, Zenon DEF Owns
  <2>4. Sees(u)'
    BY <1>2, <2>2, Zenon DEF Sees
  <2> QED
    BY <2>3, <2>4, Zenon
<1> QED
  BY <1>1, <1>2, Zenon DEF WriterInv

\* The states in which a call has something to lose.
LEMMA HeldStates ==
    /\ Rowed \subseteq Held
    /\ "idle" \notin Held /\ "lock" \notin Held /\ "panic" \notin Held
    /\ "insert" \in Held /\ "insert" \notin Rowed
    /\ "select" \in Held /\ "select" \notin Rowed /\ "select" # "insert"
    /\ "stamp" \in Rowed /\ "swap" \in Rowed /\ "prepare" \in Rowed /\ "commit" \in Rowed
    /\ "stamp" # "insert" /\ "swap" # "insert" /\ "prepare" # "insert" /\ "commit" # "insert"
    /\ "post" \in Held /\ "post" \notin Rowed /\ "post" # "insert"
    /\ "idle" # "insert" /\ "lock" # "insert" /\ "panic" # "insert"
BY SMT DEF Held, Rowed

\* A call that ends has nothing to lose.
LEMMA WriterLeave ==
    ASSUME TypeOK, WriterInv, NEW t \in Tasks, NEW s \in {"idle", "panic"},
           Leave(t, s), UNCHANGED streams
    PROVE  WriterInv'
<1>1. s \in States
  BY StateNames, Zenon
<1>2. /\ pc'[t] = s
      /\ \A u \in Tasks : u # t => pc'[u] = pc[u] /\ loc'[u] = loc[u]
      /\ \A c \in Containers : holder[c] # t => holder'[c] = holder[c]
  BY <1>1, LeaveEffect, Zenon
<1>3. pc'[t] \notin Held /\ pc'[t] # "insert" /\ pc'[t] \notin Rowed
  BY <1>2, HeldStates, Zenon
<1>4. Owns(t)' /\ Sees(t)'
  BY <1>3, Zenon DEF Owns, Sees
<1> QED
  BY <1>2, <1>4, WriterFrame, Zenon

\* A call that goes on within the lock, with its row unchanged.
LEMMA WriterGoesOn ==
    ASSUME TypeOK, WriterInv, NEW t \in Tasks, NEW s \in {"swap", "prepare", "commit"},
           pc[t] \in Rowed, pc'[t] = s,
           loc'[t].ctn = loc[t].ctn, loc'[t].id = loc[t].id,
           loc'[t].head = loc[t].head, loc'[t].stalled = loc[t].stalled,
           \A u \in Tasks : u # t => pc'[u] = pc[u] /\ loc'[u] = loc[u],
           UNCHANGED <<streams, holder>>
    PROVE  WriterInv'
<1>1. Owns(t) /\ Sees(t) /\ pc[t] \in Held
  BY HeldStates, Zenon DEF WriterInv
<1>2. pc'[t] \in Held /\ pc'[t] \in Rowed /\ pc'[t] # "insert"
  BY HeldStates, Zenon
<1>3. Owns(t)'
  BY <1>1, Zenon DEF Owns
<1>4. Sees(t)'
  BY <1>1, <1>2, Zenon DEF Sees
<1> QED
  BY <1>3, <1>4, WriterFrame, Zenon

\* Every step keeps the invariant.
LEMMA WriterStep ==
    ASSUME TypeOK, WriterInv, [Next]_vars
    PROVE  WriterInv'
<1>0. /\ streams \in Seq(Row)
      /\ holder \in [Containers -> Tasks \cup {NoTask}]
      /\ pc \in [Tasks -> States]
      /\ loc \in [Tasks -> Locals]
  BY Zenon DEF TypeOK
<1>1. CASE UNCHANGED vars
  BY <1>1, Zenon DEF vars, WriterInv, OneRowPerStream, Owns, Sees
<1>2. ASSUME NEW t \in Tasks, NEW c \in Containers, Start(t, c)
      PROVE  WriterInv'
  <2>1. /\ pc'[t] = "lock"
        /\ \A u \in Tasks : u # t => pc'[u] = pc[u] /\ loc'[u] = loc[u]
    BY <1>0, <1>2, Zenon DEF Start, Goto
  <2>2. Owns(t)' /\ Sees(t)'
    BY <2>1, HeldStates, Zenon DEF Owns, Sees
  <2> QED
    BY <1>2, <2>1, <2>2, WriterFrame, Zenon DEF Start, dbVars
<1>3. ASSUME NEW t \in Tasks, LockStream(t)
      PROVE  WriterInv'
  <2>1. /\ pc'[t] = "select"
        /\ \A u \in Tasks : u # t => pc'[u] = pc[u] /\ loc'[u] = loc[u]
    BY <1>0, <1>3, Zenon DEF LockStream, Goto
  <2>2. loc'[t] = loc[t] /\ loc[t].ctn \in Containers
    BY <1>0, <1>3, LocalsFields, Zenon DEF LockStream
  <2>3. /\ holder'[loc[t].ctn] = t
        /\ \A c \in Containers : holder[c] # NoTask => holder'[c] = holder[c]
    BY <1>0, <1>3, <2>2, Zenon DEF LockStream
  <2>4. Owns(t)' /\ Sees(t)'
    BY <2>1, <2>2, <2>3, HeldStates, Zenon DEF Owns, Sees
  <2> QED
    BY <1>3, <2>1, <2>3, <2>4, WriterFrame, Zenon DEF LockStream, dbVars
<1>4. ASSUME NEW t \in Tasks, SelectStream(t)
      PROVE  WriterInv'
  <2>0. holder[loc[t].ctn] = t /\ UNCHANGED streams
    BY <1>4, HeldStates, Zenon DEF SelectStream, WriterInv, Owns
  <2>1. CASE Leave(t, "panic") \/ Leave(t, "idle")
    BY <2>0, <2>1, WriterLeave, Zenon
  <2>2. CASE /\ RowsOf(loc[t].ctn) = {}
             /\ Goto(t, "insert")
             /\ UNCHANGED <<loc, holder>>
    <3>1. /\ pc'[t] = "insert"
          /\ \A u \in Tasks : u # t => pc'[u] = pc[u] /\ loc'[u] = loc[u]
      BY <1>0, <2>2, Zenon DEF Goto
    <3>2. \A i \in DOMAIN streams : streams[i].ctn # loc[t].ctn
      BY <2>2, Zenon DEF RowsOf
    <3>3. Owns(t)' /\ Sees(t)'
      BY <2>0, <2>2, <3>1, <3>2, HeldStates, Zenon DEF Owns, Sees
    <3> QED
      BY <2>0, <2>2, <3>1, <3>3, WriterFrame, Zenon
  <2>3. ASSUME NEW i \in RowsOf(loc[t].ctn), Goto(t, "stamp"), Enter(t, i),
               UNCHANGED holder
        PROVE  WriterInv'
    <3>1. i \in DOMAIN streams /\ streams[i].ctn = loc[t].ctn
      BY <2>3, Zenon DEF RowsOf
    <3>2. i \in Nat /\ streams'[i] \in Row
      BY <1>0, <2>0, <3>1, SMT
    <3>3. /\ loc'[t].id = i
          /\ loc'[t].head = streams'[i].head
          /\ loc'[t].stalled = streams'[i].stalled
          /\ loc'[t].ctn = loc[t].ctn
          /\ \A u \in Tasks : u # t => loc'[u] = loc[u]
      BY <2>3, <3>2, EnterEffect, Zenon
    <3>4. /\ pc'[t] = "stamp"
          /\ \A u \in Tasks : u # t => pc'[u] = pc[u]
      BY <1>0, <2>3, Zenon DEF Goto
    <3>5. Owns(t)'
      BY <2>0, <2>3, <3>3, Zenon DEF Owns
    <3>6. Sees(t)'
      BY <2>0, <3>1, <3>3, <3>4, HeldStates, Zenon DEF Sees
    <3> QED
      BY <2>0, <2>3, <3>3, <3>4, <3>5, <3>6, WriterFrame, Zenon
  <2> QED
    BY <1>4, <2>1, <2>2, <2>3, Zenon DEF SelectStream
<1>5. ASSUME NEW t \in Tasks, InsertStream(t)
      PROVE  WriterInv'
  <2> DEFINE c == loc[t].ctn
             n == Len(streams) + 1
  <2>1. c \in Containers /\ pc[t] = "insert" /\ pc[t] \in Held
    BY <1>0, <1>5, LocalsFields, HeldStates, Zenon DEF InsertStream
  <2>2. holder[c] = t /\ \A i \in DOMAIN streams : streams[i].ctn # c
    BY <2>1, Zenon DEF WriterInv, Owns, Sees
  <2>3. NewRow(c) \in Row /\ NewRow(c).ctn = c
    BY <1>5, InsertEffect, Zenon
  <2>4. /\ n \in Nat
        /\ n \notin DOMAIN streams
        /\ DOMAIN streams' = DOMAIN streams \cup {n}
        /\ streams'[n] = NewRow(c)
        /\ \A i \in DOMAIN streams : streams'[i] = streams[i]
    BY <1>5, InsertEffect, Zenon
  <2>5. /\ loc'[t].id = n
        /\ loc'[t].head = streams'[n].head
        /\ loc'[t].stalled = streams'[n].stalled
        /\ loc'[t].ctn = c
        /\ \A u \in Tasks : u # t => loc'[u] = loc[u]
    BY <1>5, <2>3, <2>4, EnterEffect, Zenon DEF InsertStream
  <2>6. /\ pc'[t] = "stamp"
        /\ \A u \in Tasks : u # t => pc'[u] = pc[u]
        /\ holder' = holder
    BY <1>0, <1>5, Zenon DEF InsertStream, Goto
  <2> HIDE DEF n, c
  <2>7. OneRowPerStream'
    <3> SUFFICES ASSUME NEW i \in DOMAIN streams', NEW j \in DOMAIN streams',
                        streams'[i].ctn = streams'[j].ctn
                 PROVE  i = j
      BY Zenon DEF OneRowPerStream
    <3>1. CASE i \in DOMAIN streams /\ j \in DOMAIN streams
      BY <2>4, <3>1, Zenon DEF WriterInv, OneRowPerStream
    <3>2. CASE i = n \/ j = n
      BY <2>2, <2>3, <2>4, <3>2, Zenon
    <3> QED
      BY <2>4, <3>1, <3>2, Zenon
  <2>8. Owns(t)' /\ Sees(t)'
    <3>1. Owns(t)'
      BY <2>2, <2>5, <2>6, Zenon DEF Owns
    <3>2. Sees(t)'
      BY <2>3, <2>4, <2>5, <2>6, HeldStates, Zenon DEF Sees
    <3> QED
      BY <3>1, <3>2, Zenon
  <2>9. ASSUME NEW u \in Tasks, u # t
        PROVE  Owns(u)' /\ Sees(u)'
    <3>1. Owns(u) /\ Sees(u) /\ pc'[u] = pc[u] /\ loc'[u] = loc[u]
      BY <2>5, <2>6, <2>9, Zenon DEF WriterInv
    <3>2. Owns(u)'
      BY <2>6, <3>1, Zenon DEF Owns
    <3>3. pc[u] = "insert" => loc[u].ctn # c
      BY <2>1, <2>9, HeldApart, HeldStates, Zenon DEF c
    <3>4. Sees(u)'
      BY <2>3, <2>4, <3>1, <3>3, Zenon DEF Sees
    <3> QED
      BY <3>2, <3>4, Zenon
  <2> QED
    BY <2>7, <2>8, <2>9, Zenon DEF WriterInv
<1>6. ASSUME NEW t \in Tasks, ReadClock(t)
      PROVE  WriterInv'
  <2>1. PICK now \in Readings :
           loc' = [loc EXCEPT ![t].now = now, ![t].last = hlc]
    BY <1>6, Zenon DEF ReadClock
  <2>2. /\ loc'[t].ctn = loc[t].ctn /\ loc'[t].id = loc[t].id
        /\ loc'[t].head = loc[t].head /\ loc'[t].stalled = loc[t].stalled
        /\ \A u \in Tasks : u # t => loc'[u] = loc[u]
    BY <1>0, <2>1, Zenon DEF Locals
  <2>3. /\ pc[t] \in Rowed
        /\ pc'[t] = "swap"
        /\ \A u \in Tasks : u # t => pc'[u] = pc[u]
    BY <1>0, <1>6, HeldStates, Zenon DEF ReadClock, Goto
  <2> QED
    BY <1>6, <2>2, <2>3, WriterGoesOn, Zenon DEF ReadClock, dbVars
<1>7. ASSUME NEW t \in Tasks, SwapClock(t)
      PROVE  WriterInv'
  <2> DEFINE next == NextLocal(loc[t].last, loc[t].now)
  <2>1. pc[t] \in Rowed /\ UNCHANGED streams /\ pc[t] = "swap"
    BY <1>7, HeldStates, Zenon DEF SwapClock, dbVars
  <2>2. CASE Leave(t, "idle")
    BY <2>1, <2>2, WriterLeave, Zenon
  <2>3. CASE /\ loc' = [loc EXCEPT ![t].ts = next]
             /\ Goto(t, IF loc[t].stalled THEN "commit" ELSE "prepare")
             /\ UNCHANGED holder
    <3> HIDE DEF next
    <3>1. /\ loc'[t].ctn = loc[t].ctn /\ loc'[t].id = loc[t].id
          /\ loc'[t].head = loc[t].head /\ loc'[t].stalled = loc[t].stalled
          /\ \A u \in Tasks : u # t => loc'[u] = loc[u]
      BY <1>0, <2>3, Zenon DEF Locals
    <3>2. /\ pc'[t] \in {"prepare", "commit"}
          /\ \A u \in Tasks : u # t => pc'[u] = pc[u]
      BY <1>0, <2>3, Zenon DEF Goto
    <3> QED
      BY <2>1, <2>3, <3>1, <3>2, WriterGoesOn, Zenon
  <2>4. CASE Reload(t) /\ UNCHANGED <<hlc, holder, pc>>
    <3>1. /\ loc'[t].ctn = loc[t].ctn /\ loc'[t].id = loc[t].id
          /\ loc'[t].head = loc[t].head /\ loc'[t].stalled = loc[t].stalled
          /\ \A u \in Tasks : u # t => loc'[u] = loc[u]
      BY <1>0, <2>4, Zenon DEF Reload, Locals
    <3> QED
      BY <2>1, <2>4, <3>1, WriterGoesOn, Zenon
  <2> QED
    BY <1>7, <2>2, <2>3, <2>4, Zenon DEF SwapClock
<1>8. ASSUME NEW t \in Tasks, Prepare(t)
      PROVE  WriterInv'
  <2>1. /\ pc[t] \in Rowed
        /\ pc'[t] = "commit"
        /\ \A u \in Tasks : u # t => pc'[u] = pc[u]
    BY <1>0, <1>8, HeldStates, Zenon DEF Prepare, Goto
  <2> QED
    BY <1>8, <2>1, WriterGoesOn, Zenon DEF Prepare, dbVars
<1>9. ASSUME NEW t \in Tasks, CommitBatch(t)
      PROVE  WriterInv'
  <2> DEFINE l == loc[t]
  <2>1. /\ l \in Locals /\ pc[t] \in Held /\ pc[t] \in Rowed
        /\ pc'[t] = "post" /\ loc' = loc /\ holder' = holder
        /\ \A u \in Tasks : u # t => pc'[u] = pc[u]
    BY <1>0, <1>9, HeldStates, Zenon DEF CommitBatch, Goto
  <2>2. l.id \in DOMAIN streams /\ streams[l.id].ctn = l.ctn
    BY <2>1, Zenon DEF WriterInv, Sees
  <2>3. streams[l.id] \in Row
    BY <1>0, <2>2, SMT
  <2>4. /\ DOMAIN streams' = DOMAIN streams
        /\ streams'[l.id] = RowAfter(streams[l.id], l)
        /\ \A i \in DOMAIN streams : i # l.id => streams'[i] = streams[i]
    <3>1. streams' = [streams EXCEPT ![l.id] = RowAfter(streams[l.id], l)]
      BY <1>9, Zenon DEF CommitBatch
    <3>2. RowAfter(streams[l.id], l) \in Row
      BY <2>1, <2>3, RowAfterEffect, Zenon
    <3> QED
      BY <1>0, <2>2, <3>1, <3>2, SeqUpdate, Zenon
  <2>5. streams'[l.id].ctn = l.ctn
    <3>1. RowAfter(streams[l.id], l).ctn = streams[l.id].ctn
      BY <2>1, <2>3, RowAfterEffect, Zenon
    <3> QED
      BY <2>2, <2>4, <3>1, Zenon
  <2> HIDE DEF l
  <2>6. \A i \in DOMAIN streams : streams'[i].ctn = streams[i].ctn
    BY <2>2, <2>4, <2>5, Zenon
  <2>7. OneRowPerStream'
    BY <2>4, <2>6, Zenon DEF WriterInv, OneRowPerStream
  <2>8. Owns(t)' /\ Sees(t)'
    BY <2>1, HeldStates, Zenon DEF WriterInv, Owns, Sees
  <2>9. ASSUME NEW u \in Tasks, u # t
        PROVE  Owns(u)' /\ Sees(u)'
    <3>1. Owns(u) /\ Sees(u) /\ pc'[u] = pc[u] /\ loc'[u] = loc[u]
      BY <2>1, <2>9, Zenon DEF WriterInv
    <3>2. Owns(u)'
      BY <2>1, <3>1, Zenon DEF Owns
    <3>3. pc[u] = "insert" => pc[u] \in Held
      BY HeldStates, Zenon
    <3>4. pc[u] \in Rowed => loc[u].id # l.id
      <4>1. pc[u] \in Rowed => loc[u].ctn # l.ctn
        BY <2>1, <2>9, HeldApart, HeldStates, Zenon DEF l
      <4> QED
        BY <2>2, <3>1, <4>1, Zenon DEF Sees
    <3>5. Sees(u)'
      BY <2>4, <2>6, <3>1, <3>4, Zenon DEF Sees
    <3> QED
      BY <3>2, <3>5, Zenon
  <2> QED
    BY <2>7, <2>8, <2>9, Zenon DEF WriterInv
<1>10. ASSUME NEW t \in Tasks, PostApply(t)
       PROVE  WriterInv'
  BY <1>10, WriterLeave, Zenon DEF PostApply, dbVars
<1>11. ASSUME NEW t \in Tasks, Abandon(t)
       PROVE  WriterInv'
  BY <1>11, WriterLeave, Zenon DEF Abandon, dbVars
<1>12. ASSUME NEW c \in Containers, NEW i \in RowsOf(c), NEW r \in Row,
              holder[c] = NoTask, r.ctn = streams[i].ctn,
              streams' = [streams EXCEPT ![i] = r],
              UNCHANGED <<pc, loc, holder>>
       PROVE  WriterInv'
  <2>1. i \in DOMAIN streams /\ streams[i].ctn = c
    BY <1>12, Zenon DEF RowsOf
  <2>2. /\ DOMAIN streams' = DOMAIN streams
        /\ streams'[i] = r
        /\ \A j \in DOMAIN streams : j # i => streams'[j] = streams[j]
    BY <1>0, <1>12, <2>1, SeqUpdate, Zenon
  <2>3. \A j \in DOMAIN streams : streams'[j].ctn = streams[j].ctn
    BY <1>12, <2>2, Zenon
  <2>4. OneRowPerStream'
    BY <2>2, <2>3, Zenon DEF WriterInv, OneRowPerStream
  <2>5. ASSUME NEW u \in Tasks
        PROVE  Owns(u)' /\ Sees(u)'
    <3>1. Owns(u) /\ Sees(u) /\ pc'[u] = pc[u] /\ loc'[u] = loc[u]
      BY <1>12, Zenon DEF WriterInv
    <3>2. Owns(u)'
      BY <1>12, <3>1, Zenon DEF Owns
    <3>3. pc[u] \in Rowed => loc[u].id # i
      BY <1>12, <2>1, <3>1, HeldStates, ReplicaAssumption, Zenon DEF Owns, Sees
    <3>4. Sees(u)'
      BY <2>2, <2>3, <3>1, <3>3, Zenon DEF Sees
    <3> QED
      BY <3>2, <3>4, Zenon
  <2> QED
    BY <2>4, <2>5, Zenon DEF WriterInv
<1>13. ASSUME NEW c \in Containers, Stall(c)
       PROVE  WriterInv'
  <2>1. PICK i \in RowsOf(c) : streams' = [streams EXCEPT ![i].stalled = TRUE]
    BY <1>13, Zenon DEF Stall
  <2>2. streams[i] \in Row
    BY <1>0, SMT DEF RowsOf
  <2> DEFINE r == [streams[i] EXCEPT !.stalled = TRUE]
  <2>3. r \in Row /\ r.ctn = streams[i].ctn
    BY <2>2, Zenon DEF Row
  <2>4. streams' = [streams EXCEPT ![i] = r]
    BY <2>1, Zenon
  <2> QED
    BY <1>12, <1>13, <2>3, <2>4, Zenon DEF Stall
<1>14. ASSUME NEW c \in Containers, Resume(c)
       PROVE  WriterInv'
  <2>1. PICK i \in RowsOf(c) :
           streams' = [streams EXCEPT ![i].stalled = FALSE,
                                      ![i].commit = Len(streams[i].head)]
    BY <1>14, Zenon DEF Resume
  <2>2. streams[i] \in Row
    BY <1>0, SMT DEF RowsOf
  <2>3. Len(streams[i].head) \in Nat
    BY <2>2, RowFields, SMT
  <2> DEFINE r == [streams[i] EXCEPT !.stalled = FALSE, !.commit = Len(streams[i].head)]
  <2>4. r \in Row /\ r.ctn = streams[i].ctn
    BY <2>2, <2>3, Zenon DEF Row
  <2>5. streams' = [streams EXCEPT ![i] = r]
    BY <2>1, Zenon
  <2> QED
    BY <1>12, <1>14, <2>4, <2>5, Zenon DEF Resume
<1>15. CASE Crash
  <2>1. \A t \in Tasks : pc'[t] = "idle"
    BY <1>15, Zenon DEF Crash
  <2>2. OneRowPerStream'
    BY <1>15, Zenon DEF Crash, dbVars, WriterInv, OneRowPerStream
  <2> QED
    BY <2>1, <2>2, HeldStates, Zenon DEF WriterInv, Owns, Sees
<1>16. CASE Open
  BY <1>16, Zenon DEF Open, dbVars, WriterInv, OneRowPerStream, Owns, Sees
<1> QED
  BY <1>1, <1>2, <1>3, <1>4, <1>5, <1>6, <1>7, <1>8, <1>9, <1>10, <1>11,
     <1>13, <1>14, <1>15, <1>16, Zenon DEF Next, Step

\* The invariant holds of every reachable state.
LEMMA WriterAlways == Spec => [](TypeOK /\ WriterInv)
<1>1. Init => WriterInv
  <2> SUFFICES ASSUME Init PROVE WriterInv
    OBVIOUS
  <2>1. DOMAIN streams = {}
    BY SMT DEF Init
  <2>2. \A t \in Tasks : pc[t] = "idle"
    BY Zenon DEF Init
  <2> QED
    BY <2>1, <2>2, HeldStates, Zenon DEF WriterInv, OneRowPerStream, Owns, Sees
<1> QED
  BY <1>1, WriterStep, ReplicaTypeOK, PTL DEF Spec

(***************************************************************************)
(* However many calls write one container, fail in between or are cut off  *)
(* by a crash, it has at most one stream row: exec() never meets the two   *)
(* rows it has no answer to.                                               *)
(***************************************************************************)
THEOREM ReplicaOneRowPerStream == Spec => []OneRowPerStream
<1>1. WriterInv => OneRowPerStream
  BY Zenon DEF WriterInv
<1> QED
  BY <1>1, WriterAlways, PTL

-----------------------------------------------------------------------------
(***************************************************************************)
(* The timestamps.  Streams draw them in one order and commit them in      *)
(* another, batches fail, the process crashes, and still no two committed  *)
(* entries share one and the stored clock is behind none.                  *)
(***************************************************************************)

\* A call that has drawn its timestamp and not yet committed it.
Drawn == {"prepare", "commit"}

\* A drawn timestamp is not ahead of the clock, and not in the log.
Fresh(t) ==
    pc[t] \in Drawn =>
        /\ AtMost(loc[t].ts, hlc)
        /\ \A i \in DOMAIN streams : \A k \in DOMAIN streams[i].head :
              streams[i].head[k] # loc[t].ts

\* Two calls have not drawn the same timestamp.
Apart(t, u) ==
    pc[t] \in Drawn /\ pc[u] \in Drawn /\ t # u => loc[t].ts # loc[u].ts

(***************************************************************************)
(* The inductive invariant: what is stored is not ahead of the clock in    *)
(* memory, so that the next timestamp is ahead of all that is stored; and  *)
(* what is drawn and not yet stored is accounted for call by call.  A      *)
(* process that is down runs no call, so the clock a restart loads need    *)
(* only cover what was committed.                                          *)
(***************************************************************************)
ClockInv ==
    /\ ClockCovers
    /\ TimestampsUnique
    /\ up => AtMost(clock, hlc)
    /\ ~ up => \A t \in Tasks : pc[t] = "idle"
    /\ \A t \in Tasks : Fresh(t)
    /\ \A t, u \in Tasks : Apart(t, u)

\* The entries in the streams are all entries of before, in their places.
NothingLogged ==
    \A i \in DOMAIN streams' : \A k \in DOMAIN streams'[i].head :
        /\ i \in DOMAIN streams
        /\ k \in DOMAIN streams[i].head
        /\ streams'[i].head[k] = streams[i].head[k]

\* The states of a call that has drawn a timestamp.
LEMMA DrawnStates ==
    /\ Drawn \subseteq Rowed
    /\ "idle" \notin Drawn /\ "lock" \notin Drawn /\ "select" \notin Drawn
    /\ "insert" \notin Drawn /\ "stamp" \notin Drawn /\ "swap" \notin Drawn
    /\ "post" \notin Drawn /\ "panic" \notin Drawn
    /\ "prepare" \in Drawn /\ "commit" \in Drawn
    /\ "prepare" # "idle" /\ "commit" # "idle" /\ "swap" # "idle" /\ "lock" # "idle"
    /\ "select" # "idle" /\ "insert" # "idle" /\ "stamp" # "idle" /\ "post" # "idle"
BY SMT DEF Drawn, Rowed

\* Entries and drawn timestamps are timestamps.
LEMMA EntryType ==
    ASSUME TypeOK
    PROVE  /\ \A i \in DOMAIN streams : streams[i] \in Row
           /\ \A i \in DOMAIN streams : \A k \in DOMAIN streams[i].head :
                 streams[i].head[k] \in Timestamp
           /\ \A t \in Tasks : loc[t].ts \in Timestamp
           /\ clock \in Timestamp
           /\ hlc \in Timestamp
<1>1. \A i \in DOMAIN streams : streams[i] \in Row
  BY SMT DEF TypeOK
<1>2. \A i \in DOMAIN streams : streams[i].head \in Seq(Timestamp)
  BY <1>1, RowFields, Zenon
<1>3. \A s \in Seq(Timestamp) : \A k \in DOMAIN s : s[k] \in Timestamp
  BY SMT
<1>4. \A t \in Tasks : loc[t].ts \in Timestamp
  BY LocalsFields, Zenon DEF TypeOK
<1> QED
  BY <1>1, <1>2, <1>3, <1>4, Zenon DEF TypeOK

\* A step that logs nothing keeps what is said of the entries.
LEMMA LogFrame ==
    ASSUME ClockInv, NothingLogged, UNCHANGED clock
    PROVE  ClockCovers' /\ TimestampsUnique'
<1>1. ClockCovers'
  BY Zenon DEF ClockInv, ClockCovers, NothingLogged
<1>2. TimestampsUnique'
  <2> SUFFICES ASSUME NEW i \in DOMAIN streams', NEW j \in DOMAIN streams',
                      NEW k \in DOMAIN streams'[i].head,
                      NEW m \in DOMAIN streams'[j].head,
                      streams'[i].head[k] = streams'[j].head[m]
               PROVE  i = j /\ k = m
    BY Zenon DEF TimestampsUnique
  <2>1. /\ i \in DOMAIN streams /\ k \in DOMAIN streams[i].head
        /\ streams'[i].head[k] = streams[i].head[k]
    BY Zenon DEF NothingLogged
  <2>2. /\ j \in DOMAIN streams /\ m \in DOMAIN streams[j].head
        /\ streams'[j].head[m] = streams[j].head[m]
    BY Zenon DEF NothingLogged
  <2>3. streams[i].head[k] = streams[j].head[m]
    BY <2>1, <2>2, Zenon
  <2> HIDE DEF NothingLogged
  <2>4. TimestampsUnique
    BY Zenon DEF ClockInv
  <2> QED
    BY <2>1, <2>2, <2>3, <2>4, SMT DEF TimestampsUnique
<1> QED
  BY <1>1, <1>2, Zenon

\* A drawn timestamp stays fresh in a step that logs and draws nothing.
LEMMA FreshFrame ==
    ASSUME NEW u \in Tasks, Fresh(u), NothingLogged, UNCHANGED hlc,
           pc'[u] \in Drawn => pc[u] \in Drawn /\ loc'[u].ts = loc[u].ts
    PROVE  Fresh(u)'
<1> SUFFICES ASSUME pc'[u] \in Drawn
             PROVE  /\ AtMost(loc'[u].ts, hlc')
                    /\ \A i \in DOMAIN streams' : \A k \in DOMAIN streams'[i].head :
                          streams'[i].head[k] # loc'[u].ts
  BY Zenon DEF Fresh
<1>1. /\ AtMost(loc[u].ts, hlc)
      /\ \A i \in DOMAIN streams : \A k \in DOMAIN streams[i].head :
            streams[i].head[k] # loc[u].ts
  BY Zenon DEF Fresh
<1>2. loc'[u].ts = loc[u].ts
  OBVIOUS
<1>3. AtMost(loc'[u].ts, hlc')
  BY <1>1, <1>2, Zenon
<1>4. ASSUME NEW i \in DOMAIN streams', NEW k \in DOMAIN streams'[i].head
      PROVE  streams'[i].head[k] # loc'[u].ts
  <2>1. /\ i \in DOMAIN streams /\ k \in DOMAIN streams[i].head
        /\ streams'[i].head[k] = streams[i].head[k]
    BY <1>4, Zenon DEF NothingLogged
  <2> QED
    BY <1>1, <1>2, <2>1, Zenon
<1> QED
  BY <1>3, <1>4, Zenon

\* A step that neither logs nor draws, nor moves a clock.
LEMMA ClockFrame ==
    ASSUME ClockInv, UNCHANGED <<up, clock, hlc>>, NothingLogged,
           ~ up' => \A u \in Tasks : pc'[u] = "idle",
           \A u \in Tasks :
               pc'[u] \in Drawn => pc[u] \in Drawn /\ loc'[u].ts = loc[u].ts
    PROVE  ClockInv'
<1>1. ClockCovers' /\ TimestampsUnique'
  BY LogFrame, Zenon
<1>3. ASSUME NEW u \in Tasks
      PROVE  Fresh(u)'
  <2>1. Fresh(u)
    BY Zenon DEF ClockInv
  <2> QED
    BY <2>1, FreshFrame, Zenon
<1>4. ASSUME NEW u \in Tasks, NEW v \in Tasks
      PROVE  Apart(u, v)'
  BY <1>4, Zenon DEF ClockInv, Apart
<1>5. up' => AtMost(clock, hlc)'
  BY Zenon DEF ClockInv
<1> QED
  BY <1>1, <1>3, <1>4, <1>5, Zenon DEF ClockInv

\* A call that ends draws and logs nothing.
LEMMA ClockLeave ==
    ASSUME TypeOK, ClockInv, up, up', NEW t \in Tasks, NEW s \in {"idle", "panic"},
           Leave(t, s), UNCHANGED <<streams, clock, hlc>>
    PROVE  ClockInv'
<1>1. s \in States /\ s \notin Drawn
  BY StateNames, DrawnStates, Zenon
<1>2. /\ pc'[t] = s
      /\ \A u \in Tasks : u # t => pc'[u] = pc[u] /\ loc'[u] = loc[u]
  BY <1>1, LeaveEffect, Zenon
<1>3. NothingLogged
  BY Zenon DEF NothingLogged
<1> QED
  BY <1>1, <1>2, <1>3, ClockFrame, Zenon

\* The exchange succeeds: the clock moves ahead of all that is stored or
\* drawn, and the call owns the value it moved to.
LEMMA ClockDraw ==
    ASSUME TypeOK, ClockInv, up, up', NEW t \in Tasks, NEW next \in Timestamp,
           Before(hlc, next), hlc' = next, loc'[t].ts = next,
           \A u \in Tasks : u # t => pc'[u] = pc[u] /\ loc'[u] = loc[u],
           UNCHANGED <<streams, clock>>
    PROVE  ClockInv'
<1>0. /\ hlc \in Timestamp /\ clock \in Timestamp
      /\ \A i \in DOMAIN streams : \A k \in DOMAIN streams[i].head :
            streams[i].head[k] \in Timestamp
      /\ \A u \in Tasks : loc[u].ts \in Timestamp
  BY EntryType, Zenon
<1>1. AtMost(clock, hlc)
  BY Zenon DEF ClockInv
<1>2. \A s \in Timestamp : AtMost(s, hlc) => AtMost(s, next) /\ s # next
  BY <1>0, AtMostBefore, AtMostOrBefore, ZenonT(60)
<1>3. \A i \in DOMAIN streams : \A k \in DOMAIN streams[i].head :
          AtMost(streams[i].head[k], hlc)
  BY <1>0, <1>1, AtMostTransitive, Zenon DEF ClockInv, ClockCovers
<1>4. ClockCovers' /\ TimestampsUnique'
  BY LogFrame, Zenon DEF NothingLogged
<1>5. AtMost(clock, hlc)'
  BY <1>0, <1>1, <1>2, Zenon
<1>6. Fresh(t)'
  <2>1. AtMost(next, next)
    BY AtMostReflexive, Zenon
  <2> QED
    BY <1>0, <1>2, <1>3, <2>1, Zenon DEF Fresh
<1>7. ASSUME NEW u \in Tasks, u # t
      PROVE  Fresh(u)' /\ Apart(t, u)' /\ Apart(u, t)'
  <2>1. pc'[u] = pc[u] /\ loc'[u] = loc[u] /\ Fresh(u) /\ loc[u].ts \in Timestamp
    BY <1>0, <1>7, Zenon DEF ClockInv
  <2>2. pc[u] \in Drawn => AtMost(loc[u].ts, next) /\ loc[u].ts # next
    BY <1>2, <2>1, Zenon DEF Fresh
  <2> QED
    BY <2>1, <2>2, Zenon DEF Fresh, Apart
<1>8. ASSUME NEW u \in Tasks, NEW v \in Tasks, u # t, v # t
      PROVE  Apart(u, v)'
  BY <1>8, Zenon DEF ClockInv, Apart
<1>9. Apart(t, t)'
  BY Zenon DEF Apart
<1> QED
  BY <1>4, <1>5, <1>6, <1>7, <1>8, <1>9, Zenon DEF ClockInv

\* The batch commits: one entry is added, and the stored clock covers it.
LEMMA ClockCommit ==
    ASSUME TypeOK, WriterInv, ClockInv, up, NEW t \in Tasks, CommitBatch(t)
    PROVE  ClockInv'
<1> DEFINE l == loc[t]
           ts == loc[t].ts
           i0 == loc[t].id
           k0 == Len(loc[t].head) + 1
<1>0. /\ hlc \in Timestamp /\ clock \in Timestamp /\ ts \in Timestamp
      /\ \A i \in DOMAIN streams : \A k \in DOMAIN streams[i].head :
            streams[i].head[k] \in Timestamp
      /\ streams \in Seq(Row) /\ l \in Locals /\ pc \in [Tasks -> States]
  BY EntryType, Zenon DEF TypeOK
<1>1. /\ pc[t] \in Drawn /\ pc[t] \in Rowed
      /\ hlc' = hlc /\ up' = up /\ loc' = loc
      /\ pc'[t] = "post"
      /\ \A u \in Tasks : u # t => pc'[u] = pc[u]
      /\ clock' = IF Before(clock, ts) THEN ts ELSE clock
  BY <1>0, DrawnStates, Zenon DEF CommitBatch, Goto, PersistClock
<1>2. i0 \in DOMAIN streams /\ streams[i0].head = l.head
  BY <1>1, Zenon DEF WriterInv, Sees
<1>3. streams[i0] \in Row
  BY <1>2, EntryType, Zenon
<1>4. l.head \in Seq(Timestamp)
  BY <1>0, LocalsFields, Zenon
<1>5. /\ DOMAIN streams' = DOMAIN streams
      /\ streams'[i0].head = Append(l.head, ts)
      /\ \A i \in DOMAIN streams : i # i0 => streams'[i] = streams[i]
  <2>1. streams' = [streams EXCEPT ![i0] = RowAfter(streams[i0], l)]
    BY Zenon DEF CommitBatch
  <2>2. /\ RowAfter(streams[i0], l) \in Row
        /\ RowAfter(streams[i0], l).head = Append(l.head, ts)
    BY <1>0, <1>3, RowAfterEffect, Zenon
  <2> QED
    BY <1>0, <1>2, <2>1, <2>2, SeqUpdate, Zenon
<1>6. /\ DOMAIN Append(l.head, ts) = DOMAIN l.head \cup {k0}
      /\ k0 \notin DOMAIN l.head
      /\ Append(l.head, ts)[k0] = ts
      /\ \A k \in DOMAIN l.head : Append(l.head, ts)[k] = l.head[k]
  BY <1>0, <1>4, SMT
<1> HIDE DEF l, ts, i0, k0
\* An entry is either the new one or one of before.
<1>7. \A i \in DOMAIN streams' : \A k \in DOMAIN streams'[i].head :
         \/ i = i0 /\ k = k0 /\ streams'[i].head[k] = ts
         \/ /\ i \in DOMAIN streams
            /\ k \in DOMAIN streams[i].head
            /\ streams'[i].head[k] = streams[i].head[k]
  BY <1>2, <1>5, <1>6, Zenon
<1>8. AtMost(ts, hlc) /\ AtMost(clock, hlc) /\ Fresh(t)
  BY <1>1, Zenon DEF ClockInv, Fresh, ts
<1>9. \A i \in DOMAIN streams : \A k \in DOMAIN streams[i].head :
         streams[i].head[k] # ts
  BY <1>1, <1>8, Zenon DEF Fresh, ts
<1>10. AtMost(ts, clock') /\ AtMost(clock, clock') /\ AtMost(clock', hlc)
  BY <1>0, <1>1, <1>8, AtMostReflexive, AtMostOrBefore, Zenon
<1>11. ClockCovers'
  <2>1. clock' \in Timestamp
    BY <1>0, <1>1, Zenon
  <2>2. \A i \in DOMAIN streams : \A k \in DOMAIN streams[i].head :
           AtMost(streams[i].head[k], clock')
    BY <1>0, <1>10, <2>1, AtMostTransitive, Zenon DEF ClockInv, ClockCovers
  <2> QED
    BY <1>7, <1>10, <2>2, Zenon DEF ClockCovers
<1>12. TimestampsUnique'
  <2> SUFFICES ASSUME NEW i \in DOMAIN streams', NEW j \in DOMAIN streams',
                      NEW k \in DOMAIN streams'[i].head,
                      NEW m \in DOMAIN streams'[j].head,
                      streams'[i].head[k] = streams'[j].head[m]
               PROVE  i = j /\ k = m
    BY Zenon DEF TimestampsUnique
  <2>1. CASE i = i0 /\ k = k0 /\ streams'[i].head[k] = ts
    BY <1>7, <1>9, <2>1, ZenonT(60)
  <2>2. CASE j = i0 /\ m = k0 /\ streams'[j].head[m] = ts
    BY <1>7, <1>9, <2>2, ZenonT(60)
  <2>3. CASE /\ i \in DOMAIN streams /\ k \in DOMAIN streams[i].head
             /\ streams'[i].head[k] = streams[i].head[k]
             /\ j \in DOMAIN streams /\ m \in DOMAIN streams[j].head
             /\ streams'[j].head[m] = streams[j].head[m]
    <3>1. streams[i].head[k] = streams[j].head[m] /\ TimestampsUnique
      BY <2>3, Zenon DEF ClockInv
    <3> QED
      BY <2>3, <3>1, SMT DEF TimestampsUnique
  <2> QED
    BY <1>7, <2>1, <2>2, <2>3, Zenon
<1>13. ASSUME NEW u \in Tasks
       PROVE  Fresh(u)'
  <2>1. CASE u = t
    BY <1>1, <2>1, DrawnStates, Zenon DEF Fresh
  <2>2. CASE u # t
    <3>1. pc'[u] = pc[u] /\ Fresh(u) /\ Apart(u, t)
      BY <1>1, <2>2, Zenon DEF ClockInv
    <3>2. pc[u] \in Drawn => loc[u].ts # ts
      BY <1>1, <2>2, <3>1, Zenon DEF Apart, ts
    <3> QED
      BY <1>1, <1>7, <3>1, <3>2, Zenon DEF Fresh
  <2> QED
    BY <2>1, <2>2, Zenon
<1>14. ASSUME NEW u \in Tasks, NEW v \in Tasks
       PROVE  Apart(u, v)'
  <2>1. Apart(u, v)
    BY Zenon DEF ClockInv
  <2>2. \A w \in Tasks : pc'[w] \in Drawn => pc[w] \in Drawn
    BY <1>1, DrawnStates, Zenon
  <2> QED
    BY <1>1, <2>1, <2>2, Zenon DEF Apart
<1> QED
  BY <1>1, <1>10, <1>11, <1>12, <1>13, <1>14, Zenon DEF ClockInv

\* Every step keeps the invariant.
LEMMA ClockStep ==
    ASSUME TypeOK, WriterInv, ClockInv, [Next]_vars
    PROVE  ClockInv'
<1>0. /\ streams \in Seq(Row)
      /\ pc \in [Tasks -> States]
      /\ loc \in [Tasks -> Locals]
  BY Zenon DEF TypeOK
<1>a. \A t \in Tasks : pc[t] # "idle" => up
  BY Zenon DEF ClockInv
<1>b. streams' = streams => NothingLogged
  BY Zenon DEF NothingLogged
<1>1. CASE UNCHANGED vars
  BY <1>a, <1>b, <1>1, ClockFrame, Zenon DEF vars
<1>2. ASSUME NEW t \in Tasks, NEW s \in States \ Drawn, Goto(t, s),
             \A u \in Tasks : u # t => loc'[u] = loc[u],
             NothingLogged, up, up', UNCHANGED <<clock, hlc>>
      PROVE  ClockInv'
  <2>1. /\ pc'[t] = s
        /\ \A u \in Tasks : u # t => pc'[u] = pc[u]
    BY <1>2, GotoEffect, Zenon
  <2> QED
    BY <1>2, <2>1, ClockFrame, Zenon
<1>3. ASSUME NEW t \in Tasks, NEW c \in Containers, Start(t, c)
      PROVE  ClockInv'
  <2>1. \A u \in Tasks : u # t => loc'[u] = loc[u]
    BY <1>0, <1>3, Zenon DEF Start
  <2> QED
    BY <1>b, <1>2, <1>3, <2>1, StateNames, DrawnStates, Zenon DEF Start, dbVars
<1>4. ASSUME NEW t \in Tasks, LockStream(t)
      PROVE  ClockInv'
  <2>1. up
    BY <1>a, <1>4, DrawnStates, Zenon DEF LockStream
  <2> QED
    BY <1>b, <1>2, <1>4, <2>1, StateNames, DrawnStates, Zenon DEF LockStream, dbVars
<1>5. ASSUME NEW t \in Tasks, SelectStream(t)
      PROVE  ClockInv'
  <2>1. up /\ up' /\ UNCHANGED <<streams, clock, hlc>>
    BY <1>a, <1>5, DrawnStates, Zenon DEF SelectStream
  <2>2. CASE Leave(t, "panic") \/ Leave(t, "idle")
    BY <2>1, <2>2, ClockLeave, Zenon
  <2>3. CASE Goto(t, "insert") /\ UNCHANGED loc
    BY <1>b, <1>2, <2>1, <2>3, StateNames, DrawnStates, Zenon
  <2>4. ASSUME NEW i \in RowsOf(loc[t].ctn), Goto(t, "stamp"), Enter(t, i)
        PROVE  ClockInv'
    <3>1. \A u \in Tasks : u # t => loc'[u] = loc[u]
      BY <1>0, <2>4, Zenon DEF Enter
    <3> QED
      BY <1>b, <1>2, <2>1, <2>4, <3>1, StateNames, DrawnStates, Zenon
  <2> QED
    BY <1>5, <2>2, <2>3, <2>4, Zenon DEF SelectStream
<1>6. ASSUME NEW t \in Tasks, InsertStream(t)
      PROVE  ClockInv'
  <2>1. up /\ up' /\ UNCHANGED <<clock, hlc>>
    BY <1>a, <1>6, DrawnStates, Zenon DEF InsertStream
  <2>2. \A u \in Tasks : u # t => loc'[u] = loc[u]
    BY <1>0, <1>6, Zenon DEF InsertStream, Enter
  <2>3. NothingLogged
    <3> DEFINE c == loc[t].ctn
               n == Len(streams) + 1
    <3>1. /\ NewRow(c).head = <<>>
          /\ DOMAIN streams' = DOMAIN streams \cup {n}
          /\ streams'[n] = NewRow(c)
          /\ \A i \in DOMAIN streams : streams'[i] = streams[i]
      BY <1>6, InsertEffect, Zenon
    <3>2. DOMAIN streams'[n].head = {}
      BY <3>1, SMT
    <3> HIDE DEF n, c
    <3> QED
      BY <3>1, <3>2, Zenon DEF NothingLogged
  <2> QED
    BY <1>2, <1>6, <2>1, <2>2, <2>3, StateNames, DrawnStates, Zenon DEF InsertStream
<1>7. ASSUME NEW t \in Tasks, ReadClock(t)
      PROVE  ClockInv'
  <2>1. up
    BY <1>a, <1>7, DrawnStates, Zenon DEF ReadClock
  <2>2. \A u \in Tasks : u # t => loc'[u] = loc[u]
    BY <1>0, <1>7, Zenon DEF ReadClock
  <2> QED
    BY <1>b, <1>2, <1>7, <2>1, <2>2, StateNames, DrawnStates, Zenon DEF ReadClock, dbVars
<1>8. ASSUME NEW t \in Tasks, SwapClock(t)
      PROVE  ClockInv'
  <2> DEFINE next == NextLocal(loc[t].last, loc[t].now)
  <2>1. pc[t] = "swap" /\ up /\ up' /\ UNCHANGED <<streams, clock>>
    BY <1>a, <1>8, DrawnStates, Zenon DEF SwapClock, dbVars
  <2>2. CASE Leave(t, "idle") /\ UNCHANGED hlc
    BY <2>1, <2>2, ClockLeave, Zenon
  <2>3. CASE /\ next # Overflow
             /\ SwapSucceeds(t)
             /\ hlc' = next
             /\ loc' = [loc EXCEPT ![t].ts = next]
             /\ Goto(t, IF loc[t].stalled THEN "commit" ELSE "prepare")
    <3>1. next \in Timestamp /\ Before(hlc, next)
      BY <2>3, SwapEffect, Zenon DEF SwapSucceeds
    <3> HIDE DEF next
    <3>2. loc'[t].ts = next
      BY <1>0, <2>3, Zenon DEF Locals
    <3>3. \A u \in Tasks : u # t => pc'[u] = pc[u] /\ loc'[u] = loc[u]
      BY <1>0, <2>3, Zenon DEF Goto
    <3> QED
      BY <2>1, <2>3, <3>1, <3>2, <3>3, ClockDraw, Zenon
  <2>4. CASE Reload(t) /\ UNCHANGED <<hlc, holder, pc>>
    <3>1. \A u \in Tasks : u # t => loc'[u] = loc[u]
      BY <1>0, <2>4, Zenon DEF Reload
    <3>2. \A u \in Tasks : pc'[u] \in Drawn => u # t /\ pc[u] \in Drawn
      BY <2>1, <2>4, DrawnStates, Zenon
    <3> QED
      BY <1>b, <2>1, <2>4, <3>1, <3>2, ClockFrame, Zenon
  <2> QED
    BY <1>8, <2>2, <2>3, <2>4, Zenon DEF SwapClock
<1>9. ASSUME NEW t \in Tasks, Prepare(t)
      PROVE  ClockInv'
  <2>1. up /\ up' /\ UNCHANGED <<streams, clock, hlc, loc>>
    BY <1>a, <1>9, DrawnStates, Zenon DEF Prepare, dbVars
  <2>2. \A u \in Tasks : pc'[u] \in Drawn => pc[u] \in Drawn
    BY <1>0, <1>9, DrawnStates, Zenon DEF Prepare, Goto
  <2> QED
    BY <1>b, <2>1, <2>2, ClockFrame, Zenon
<1>10. ASSUME NEW t \in Tasks, CommitBatch(t)
       PROVE  ClockInv'
  BY <1>a, <1>10, DrawnStates, ClockCommit, Zenon DEF CommitBatch
<1>11. ASSUME NEW t \in Tasks, PostApply(t)
       PROVE  ClockInv'
  BY <1>a, <1>11, DrawnStates, ClockLeave, Zenon DEF PostApply, dbVars
<1>12. ASSUME NEW t \in Tasks, Abandon(t)
       PROVE  ClockInv'
  <2>1. up
    BY <1>a, <1>12, DrawnStates, Zenon DEF Abandon
  <2> QED
    BY <1>12, <2>1, ClockLeave, Zenon DEF Abandon, dbVars
<1>13. ASSUME NEW c \in Containers, NEW i \in RowsOf(c), NEW r \in Row,
              r.head = streams[i].head, streams' = [streams EXCEPT ![i] = r],
              up, up', UNCHANGED <<pc, loc, clock, hlc>>
       PROVE  ClockInv'
  <2>1. i \in DOMAIN streams
    BY <1>13, Zenon DEF RowsOf
  <2>2. /\ DOMAIN streams' = DOMAIN streams
        /\ streams'[i] = r
        /\ \A j \in DOMAIN streams : j # i => streams'[j] = streams[j]
    BY <1>0, <1>13, <2>1, SeqUpdate, Zenon
  <2>3. NothingLogged
    BY <1>13, <2>2, Zenon DEF NothingLogged
  <2> QED
    BY <1>13, <2>3, ClockFrame, Zenon
<1>14. ASSUME NEW c \in Containers, Stall(c)
       PROVE  ClockInv'
  <2>1. PICK i \in RowsOf(c) : streams' = [streams EXCEPT ![i].stalled = TRUE]
    BY <1>14, Zenon DEF Stall
  <2>2. streams[i] \in Row
    BY EntryType, Zenon DEF RowsOf
  <2> DEFINE r == [streams[i] EXCEPT !.stalled = TRUE]
  <2>3. r \in Row /\ r.head = streams[i].head
    BY <2>2, Zenon DEF Row
  <2>4. streams' = [streams EXCEPT ![i] = r]
    BY <2>1, Zenon
  <2> QED
    BY <1>13, <1>14, <2>3, <2>4, Zenon DEF Stall
<1>15. ASSUME NEW c \in Containers, Resume(c)
       PROVE  ClockInv'
  <2>1. PICK i \in RowsOf(c) :
           streams' = [streams EXCEPT ![i].stalled = FALSE,
                                      ![i].commit = Len(streams[i].head)]
    BY <1>15, Zenon DEF Resume
  <2>2. streams[i] \in Row
    BY EntryType, Zenon DEF RowsOf
  <2>3. Len(streams[i].head) \in Nat
    BY <2>2, RowFields, SMT
  <2> DEFINE r == [streams[i] EXCEPT !.stalled = FALSE, !.commit = Len(streams[i].head)]
  <2>4. r \in Row /\ r.head = streams[i].head
    BY <2>2, <2>3, Zenon DEF Row
  <2>5. streams' = [streams EXCEPT ![i] = r]
    BY <2>1, Zenon
  <2> QED
    BY <1>13, <1>15, <2>4, <2>5, Zenon DEF Resume
<1>16. CASE Crash
  <2>1. /\ \A t \in Tasks : pc'[t] = "idle"
        /\ ~ up'
        /\ UNCHANGED <<streams, clock>>
    BY <1>16, Zenon DEF Crash, dbVars
  <2>2. ClockCovers' /\ TimestampsUnique'
    BY <1>b, <2>1, LogFrame, Zenon
  <2> QED
    BY <2>1, <2>2, DrawnStates, Zenon DEF ClockInv, Fresh, Apart
<1>17. CASE Open
  <2>1. /\ \A t \in Tasks : pc'[t] = "idle"
        /\ up'
        /\ hlc' = clock
        /\ UNCHANGED <<streams, clock>>
    BY <1>17, Zenon DEF Open, dbVars, ClockInv
  <2>2. ClockCovers' /\ TimestampsUnique'
    BY <1>b, <2>1, LogFrame, Zenon
  <2>3. AtMost(clock, hlc)'
    BY <2>1, EntryType, AtMostReflexive, Zenon
  <2> QED
    BY <2>1, <2>2, <2>3, DrawnStates, Zenon DEF ClockInv, Fresh, Apart
<1> QED
  BY <1>1, <1>3, <1>4, <1>5, <1>6, <1>7, <1>8, <1>9, <1>10, <1>11, <1>12,
     <1>14, <1>15, <1>16, <1>17, Zenon DEF Next, Step

\* The invariant holds of every reachable state.
LEMMA ClockAlways == Spec => []ClockInv
<1>1. Init => ClockInv
  <2> SUFFICES ASSUME Init PROVE ClockInv
    OBVIOUS
  <2>1. DOMAIN streams = {}
    BY SMT DEF Init
  <2>2. up = TRUE /\ clock = hlc /\ \A t \in Tasks : pc[t] = "idle"
    BY Zenon DEF Init
  <2> QED
    BY <2>1, <2>2, DrawnStates, Zenon
       DEF ClockInv, ClockCovers, TimestampsUnique, Fresh, Apart, AtMost
<1> QED
  BY <1>1, ClockStep, WriterAlways, PTL DEF Spec

(***************************************************************************)
(* No two committed entries of a replica carry one timestamp, whatever the *)
(* wall clock reads, whichever batches fail and whenever it restarts.      *)
(***************************************************************************)
THEOREM ReplicaTimestampsUnique == Spec => []TimestampsUnique
<1>1. ClockInv => TimestampsUnique
  BY Zenon DEF ClockInv
<1> QED
  BY <1>1, ClockAlways, PTL

(***************************************************************************)
(* The stored clock covers every committed entry, so a restarted replica   *)
(* stamps above its whole log.                                             *)
(***************************************************************************)
THEOREM ReplicaClockCovers == Spec => []ClockCovers
<1>1. ClockInv => ClockCovers
  BY Zenon DEF ClockInv
<1> QED
  BY <1>1, ClockAlways, PTL

-----------------------------------------------------------------------------
(***************************************************************************)
(* The log: segments and rows, and what the tables and the watchers got.   *)
(* A batch writes a segment, the row's head and the tables at once, from   *)
(* the head its call read some awaits earlier; Sees is why that head is    *)
(* still the row's.                                                        *)
(***************************************************************************)

\* Row i becomes r, the others stay.
RowSet(i, r) ==
    /\ DOMAIN streams' = DOMAIN streams
    /\ streams'[i] = r
    /\ \A j \in DOMAIN streams : j # i => streams'[j] = streams[j]

\* c had no row and has an empty one.
RowAdded(c) ==
    \E n \in Nat \ DOMAIN streams :
        /\ DOMAIN streams' = DOMAIN streams \cup {n}
        /\ streams'[n] = NewRow(c)
        /\ \A j \in DOMAIN streams : streams'[j] = streams[j] /\ streams[j].ctn # c

\* One entry is added to row i, and unless it is held back to the tables.
Committed(i, r, ts) ==
    /\ RowSet(i, r)
    /\ r.ctn = streams[i].ctn
    /\ r.stalled = streams[i].stalled
    /\ r.head = Append(streams[i].head, ts)
    /\ r.commit = IF r.stalled THEN streams[i].commit ELSE Len(r.head)
    /\ segments' = segments \cup {SegmentOf(i, streams[i].head, ts)}
    /\ applied' = [applied EXCEPT ![r.ctn] = IF r.stalled THEN @ ELSE Append(@, ts)]

\* The row's entries that were held back reach the tables.
Resumed(i, r) ==
    /\ RowSet(i, r)
    /\ r.ctn = streams[i].ctn
    /\ r.head = streams[i].head
    /\ r.commit = Len(r.head)
    /\ applied' = [applied EXCEPT ![r.ctn] = r.head]
    /\ UNCHANGED segments

\* The row is held back from now on.
Stalled(i, r) ==
    /\ RowSet(i, r)
    /\ r.ctn = streams[i].ctn
    /\ r.head = streams[i].head
    /\ r.commit = streams[i].commit
    /\ r.stalled = TRUE
    /\ UNCHANGED <<segments, applied>>

\* What a step may do to the log.
LogStep ==
    \/ UNCHANGED <<streams, segments, applied>>
    \/ \E c \in Containers : RowAdded(c) /\ UNCHANGED <<segments, applied>>
    \/ \E i \in DOMAIN streams, r \in Row : Stalled(i, r) \/ Resumed(i, r)
    \/ \E t \in Tasks : /\ CommitBatch(t)
                        /\ loc[t].id \in DOMAIN streams
                        /\ \E r \in Row : Committed(loc[t].id, r, loc[t].ts)

\* commit_size follows the head unless the stream is held back.
LEMMA RowAfterCommit ==
    ASSUME NEW r \in Row, NEW l \in Locals
    PROVE  RowAfter(r, l).commit = IF l.stalled THEN r.commit ELSE Len(Append(l.head, l.ts))
BY Zenon DEF RowAfter, Row

LEMMA CommitEffect ==
    ASSUME TypeOK, WriterInv, NEW t \in Tasks, CommitBatch(t)
    PROVE  /\ loc[t].id \in DOMAIN streams
           /\ streams[loc[t].id].ctn = loc[t].ctn
           /\ streams[loc[t].id].head = loc[t].head
           /\ \E r \in Row : Committed(loc[t].id, r, loc[t].ts)
<1> DEFINE l == loc[t]
           r == RowAfter(streams[l.id], l)
<1>0. streams \in Seq(Row) /\ l \in Locals
  BY Zenon DEF TypeOK
<1>1. /\ l.id \in DOMAIN streams
      /\ streams[l.id].ctn = l.ctn
      /\ streams[l.id].head = l.head
      /\ streams[l.id].stalled = l.stalled
  BY HeldStates, Zenon DEF CommitBatch, WriterInv, Sees
<1>2. streams[l.id] \in Row
  BY <1>0, <1>1, SMT
<1>3. /\ r \in Row
      /\ r.ctn = streams[l.id].ctn
      /\ r.head = Append(l.head, l.ts)
      /\ r.stalled = streams[l.id].stalled
      /\ r.commit = IF l.stalled THEN streams[l.id].commit ELSE Len(Append(l.head, l.ts))
  BY <1>0, <1>2, RowAfterEffect, RowAfterCommit, Zenon
<1>4. streams' = [streams EXCEPT ![l.id] = r]
  BY Zenon DEF CommitBatch
<1>5. /\ segments' = segments \cup {SegmentOf(l.id, l.head, l.ts)}
      /\ applied' = [applied EXCEPT ![l.ctn] = IF l.stalled THEN @ ELSE Append(@, l.ts)]
  BY Zenon DEF CommitBatch
<1> HIDE DEF r, l
<1>6. RowSet(l.id, r)
  BY <1>0, <1>1, <1>3, <1>4, SeqUpdate, Zenon DEF RowSet
<1>7. Committed(l.id, r, l.ts)
  BY <1>1, <1>3, <1>5, <1>6, Zenon DEF Committed
<1> QED
  BY <1>1, <1>3, <1>7, Zenon DEF l

LEMMA LogSteps ==
    ASSUME TypeOK, WriterInv, [Next]_vars
    PROVE  LogStep
<1>0. streams \in Seq(Row)
  BY Zenon DEF TypeOK
<1>1. ASSUME NEW t \in Tasks, InsertStream(t)
      PROVE  LogStep
  <2>1. loc[t].ctn \in Containers
    BY LocalsFields, Zenon DEF TypeOK
  <2>2. \A i \in DOMAIN streams : streams[i].ctn # loc[t].ctn
    BY <1>1, Zenon DEF InsertStream, WriterInv, Sees
  <2>3. RowAdded(loc[t].ctn)
    BY <1>1, <2>2, InsertEffect, Zenon DEF RowAdded
  <2> QED
    BY <1>1, <2>1, <2>3, Zenon DEF InsertStream, LogStep
<1>2. ASSUME NEW t \in Tasks, CommitBatch(t)
      PROVE  LogStep
  BY <1>2, CommitEffect, Zenon DEF LogStep
<1>3. ASSUME NEW c \in Containers, Stall(c)
      PROVE  LogStep
  <2>1. PICK i \in RowsOf(c) : streams' = [streams EXCEPT ![i].stalled = TRUE]
    BY <1>3, Zenon DEF Stall
  <2>2. i \in DOMAIN streams
    BY Zenon DEF RowsOf
  <2>3. streams[i] \in Row
    BY <1>0, <2>2, SMT
  <2> DEFINE r == [streams[i] EXCEPT !.stalled = TRUE]
  <2>4. /\ r \in Row /\ r.ctn = streams[i].ctn /\ r.head = streams[i].head
        /\ r.commit = streams[i].commit /\ r.stalled = TRUE
    BY <2>3, Zenon DEF Row
  <2>5. streams' = [streams EXCEPT ![i] = r]
    BY <2>1, Zenon
  <2> HIDE DEF r
  <2>6. RowSet(i, r)
    BY <1>0, <2>2, <2>4, <2>5, SeqUpdate, Zenon DEF RowSet
  <2>7. Stalled(i, r)
    BY <1>3, <2>4, <2>6, Zenon DEF Stall, Stalled
  <2> QED
    BY <2>2, <2>4, <2>7, Zenon DEF LogStep
<1>4. ASSUME NEW c \in Containers, Resume(c)
      PROVE  LogStep
  <2>1. PICK i \in RowsOf(c) :
           /\ streams' = [streams EXCEPT ![i].stalled = FALSE,
                                         ![i].commit = Len(streams[i].head)]
           /\ applied' = [applied EXCEPT ![c] = streams[i].head]
    BY <1>4, Zenon DEF Resume
  <2>2. i \in DOMAIN streams /\ streams[i].ctn = c
    BY Zenon DEF RowsOf
  <2>3. streams[i] \in Row
    BY <1>0, <2>2, SMT
  <2>4. Len(streams[i].head) \in Nat
    BY <2>3, RowFields, SMT
  <2> DEFINE r == [streams[i] EXCEPT !.stalled = FALSE, !.commit = Len(streams[i].head)]
  <2>5. /\ r \in Row /\ r.ctn = streams[i].ctn /\ r.head = streams[i].head
        /\ r.commit = Len(streams[i].head)
    BY <2>3, <2>4, Zenon DEF Row
  <2>6. streams' = [streams EXCEPT ![i] = r]
    BY <2>1, Zenon
  <2> HIDE DEF r
  <2>7. RowSet(i, r)
    BY <1>0, <2>2, <2>5, <2>6, SeqUpdate, Zenon DEF RowSet
  <2>8. Resumed(i, r)
    BY <1>4, <2>1, <2>2, <2>5, <2>7, Zenon DEF Resume, Resumed
  <2> QED
    BY <2>2, <2>5, <2>8, Zenon DEF LogStep
<1>5. ASSUME NEW t \in Tasks,
             \/ LockStream(t) \/ SelectStream(t) \/ ReadClock(t) \/ SwapClock(t)
             \/ Prepare(t) \/ PostApply(t) \/ Abandon(t)
             \/ \E c \in Containers : Start(t, c)
      PROVE  UNCHANGED <<streams, segments, applied>>
  BY <1>5, Zenon DEF LockStream, SelectStream, ReadClock, SwapClock, Prepare, PostApply,
     Abandon, Start, dbVars
<1>6. Crash \/ Open \/ UNCHANGED vars => UNCHANGED <<streams, segments, applied>>
  BY Zenon DEF Crash, Open, vars, dbVars
<1> QED
  BY <1>1, <1>2, <1>3, <1>4, <1>5, <1>6, Zenon DEF Next, Step, LogStep

-----------------------------------------------------------------------------
(* The segments are the chain *)

\* The segment of the entry x that has k entries under it, itself included.
EntrySegment(i, k, x) == [stream |-> i, start |-> k - 1, end |-> k, entry |-> x]

SegmentsOf(rows) ==
    UNION {{EntrySegment(i, k, rows[i].head[k]) : k \in DOMAIN rows[i].head} :
              i \in DOMAIN rows}

\* s is the segment of some entry.
OfEntry(s, rows) ==
    \E i \in DOMAIN rows : \E k \in DOMAIN rows[i].head : s = EntrySegment(i, k, rows[i].head[k])

SegmentsInv == segments = SegmentsOf(streams)

LEMMA SegmentsAre == \A rows, s : s \in SegmentsOf(rows) <=> OfEntry(s, rows)
<1> SUFFICES ASSUME NEW rows, NEW s
             PROVE  s \in SegmentsOf(rows) <=> OfEntry(s, rows)
  OBVIOUS
<1> DEFINE S(i) == {EntrySegment(i, k, rows[i].head[k]) : k \in DOMAIN rows[i].head}
<1>1. s \in SegmentsOf(rows) <=> \E i \in DOMAIN rows : s \in S(i)
  <2>1. SegmentsOf(rows) = UNION {S(i) : i \in DOMAIN rows}
    BY DEF SegmentsOf
  <2> HIDE DEF S
  <2> QED
    BY <2>1, SMT
<1>2. \A i \in DOMAIN rows :
         s \in S(i) <=> \E k \in DOMAIN rows[i].head : s = EntrySegment(i, k, rows[i].head[k])
  OBVIOUS
<1> QED
  BY <1>1, <1>2, Zenon DEF OfEntry

\* Entries that stay where they are keep their segments.
LEMMA SegmentsGrow ==
    ASSUME NEW rows, NEW rows2,
           \A i \in DOMAIN rows : \A k \in DOMAIN rows[i].head :
               /\ i \in DOMAIN rows2
               /\ k \in DOMAIN rows2[i].head
               /\ rows2[i].head[k] = rows[i].head[k]
    PROVE  \A s : s \in SegmentsOf(rows) => s \in SegmentsOf(rows2)
<1> SUFFICES ASSUME NEW s, s \in SegmentsOf(rows)
             PROVE  s \in SegmentsOf(rows2)
  OBVIOUS
<1>1. OfEntry(s, rows)
  BY SegmentsAre, Zenon
<1>2. OfEntry(s, rows2)
  BY <1>1, Zenon DEF OfEntry
<1> QED
  BY <1>2, SegmentsAre, Zenon

\* Rows with the same heads have the same segments.
LEMMA SameHeads ==
    ASSUME NEW rows, NEW rows2, DOMAIN rows2 = DOMAIN rows,
           \A i \in DOMAIN rows : rows2[i].head = rows[i].head
    PROVE  SegmentsOf(rows2) = SegmentsOf(rows)
<1>1. \A s : s \in SegmentsOf(rows) => s \in SegmentsOf(rows2)
  <2>1. \A i \in DOMAIN rows : \A k \in DOMAIN rows[i].head :
           /\ i \in DOMAIN rows2
           /\ k \in DOMAIN rows2[i].head
           /\ rows2[i].head[k] = rows[i].head[k]
    BY Zenon
  <2> QED
    BY <2>1, SegmentsGrow, Zenon
<1>2. \A s : s \in SegmentsOf(rows2) => s \in SegmentsOf(rows)
  <2>1. \A i \in DOMAIN rows2 : \A k \in DOMAIN rows2[i].head :
           /\ i \in DOMAIN rows
           /\ k \in DOMAIN rows[i].head
           /\ rows[i].head[k] = rows2[i].head[k]
    BY Zenon
  <2> QED
    BY <2>1, SegmentsGrow, Zenon
<1> QED
  BY <1>1, <1>2, Zenon

LEMMA ChainStep ==
    ASSUME TypeOK, WriterInv, SegmentsInv, [Next]_vars
    PROVE  SegmentsInv'
<1>1. CASE UNCHANGED <<streams, segments, applied>>
  BY <1>1, Zenon DEF SegmentsInv
<1>2. ASSUME NEW c \in Containers, RowAdded(c), UNCHANGED <<segments, applied>>
      PROVE  SegmentsInv'
  <2>1. PICK n \in Nat \ DOMAIN streams :
           /\ DOMAIN streams' = DOMAIN streams \cup {n}
           /\ streams'[n] = NewRow(c)
           /\ \A j \in DOMAIN streams : streams'[j] = streams[j]
    BY <1>2, Zenon DEF RowAdded
  <2>2. DOMAIN streams'[n].head = {}
    <3>1. NewRow(c).head = <<>>
      BY Zenon DEF NewRow
    <3>2. streams'[n].head = <<>>
      BY <2>1, <3>1, Zenon
    <3> QED
      BY <3>2, SMT
  <2>3. \A s : s \in SegmentsOf(streams) => s \in SegmentsOf(streams')
    <3>1. \A i \in DOMAIN streams : \A k \in DOMAIN streams[i].head :
             /\ i \in DOMAIN streams'
             /\ k \in DOMAIN streams'[i].head
             /\ streams'[i].head[k] = streams[i].head[k]
      BY <2>1, Zenon
    <3> QED
      BY <3>1, SegmentsGrow, Zenon
  <2>4. \A s : s \in SegmentsOf(streams') => s \in SegmentsOf(streams)
    <3>1. ASSUME NEW i \in DOMAIN streams', NEW k \in DOMAIN streams'[i].head
          PROVE  /\ i \in DOMAIN streams
                 /\ k \in DOMAIN streams[i].head
                 /\ streams[i].head[k] = streams'[i].head[k]
      <4>1. i # n
        BY <2>2, Zenon
      <4> QED
        BY <2>1, <4>1, Zenon
    <3> QED
      BY <3>1, SegmentsGrow, Zenon
  <2> QED
    BY <1>2, <2>3, <2>4, Zenon DEF SegmentsInv
<1>3. ASSUME NEW i \in DOMAIN streams, NEW r \in Row, Stalled(i, r) \/ Resumed(i, r)
      PROVE  SegmentsInv'
  <2>1. /\ DOMAIN streams' = DOMAIN streams
        /\ \A j \in DOMAIN streams : streams'[j].head = streams[j].head
        /\ segments' = segments
    BY <1>3, Zenon DEF Stalled, Resumed, RowSet
  <2> QED
    BY <2>1, SameHeads, Zenon DEF SegmentsInv
<1>4. ASSUME NEW i \in DOMAIN streams, NEW r \in Row, NEW ts \in Timestamp,
             Committed(i, r, ts)
      PROVE  SegmentsInv'
  <2> DEFINE h == streams[i].head
             n == Len(h) + 1
  <2>1. streams[i] \in Row
    BY SMT DEF TypeOK
  <2>2. h \in Seq(Timestamp)
    BY <2>1, RowFields, Zenon
  <2>3. /\ n \in Nat /\ n - 1 = Len(h)
        /\ DOMAIN Append(h, ts) = DOMAIN h \cup {n}
        /\ n \notin DOMAIN h
        /\ Append(h, ts)[n] = ts
        /\ \A k \in DOMAIN h : Append(h, ts)[k] = h[k]
    <3> HIDE DEF h
    <3> QED
      BY <2>2, SMT
  <2>4. SegmentOf(i, h, ts) = EntrySegment(i, n, ts)
    BY <2>3, Zenon DEF SegmentOf, EntrySegment
  <2>5. /\ DOMAIN streams' = DOMAIN streams
        /\ streams'[i].head = Append(h, ts)
        /\ \A j \in DOMAIN streams : j # i => streams'[j] = streams[j]
        /\ segments' = segments \cup {EntrySegment(i, n, ts)}
    BY <1>4, <2>4, Zenon DEF Committed, RowSet
  <2>6. ASSUME NEW s
        PROVE  s \in SegmentsOf(streams')
                  <=> s \in SegmentsOf(streams) \/ s = EntrySegment(i, n, ts)
    <3> HIDE DEF n
    <3>1. ASSUME s \in SegmentsOf(streams')
          PROVE  s \in SegmentsOf(streams) \/ s = EntrySegment(i, n, ts)
      <4>0. OfEntry(s, streams')
        BY <3>1, SegmentsAre, Zenon
      <4>1. PICK j \in DOMAIN streams' : \E k \in DOMAIN streams'[j].head :
               s = EntrySegment(j, k, streams'[j].head[k])
        BY <4>0, Zenon DEF OfEntry
      <4>2. PICK k \in DOMAIN streams'[j].head : s = EntrySegment(j, k, streams'[j].head[k])
        BY <4>1, Zenon
      <4>3. CASE j = i /\ k = n
        BY <2>3, <2>5, <4>2, <4>3, Zenon
      <4>4. CASE ~ (j = i /\ k = n)
        <5>1. /\ j \in DOMAIN streams /\ k \in DOMAIN streams[j].head
              /\ streams'[j].head[k] = streams[j].head[k]
          BY <2>3, <2>5, <4>4, Zenon
        <5>2. OfEntry(s, streams)
          BY <4>2, <5>1, Zenon DEF OfEntry
        <5> QED
          BY <5>2, SegmentsAre, Zenon
      <4> QED
        BY <4>3, <4>4, Zenon
    <3>2. ASSUME s \in SegmentsOf(streams)
          PROVE  s \in SegmentsOf(streams')
      <4>1. \A j \in DOMAIN streams : \A k \in DOMAIN streams[j].head :
               /\ j \in DOMAIN streams'
               /\ k \in DOMAIN streams'[j].head
               /\ streams'[j].head[k] = streams[j].head[k]
        BY <2>3, <2>5, Zenon
      <4> QED
        BY <3>2, <4>1, SegmentsGrow, Zenon
    <3>3. EntrySegment(i, n, ts) \in SegmentsOf(streams')
      <4>1. n \in DOMAIN streams'[i].head /\ streams'[i].head[n] = ts /\ i \in DOMAIN streams'
        BY <2>3, <2>5, Zenon
      <4>2. OfEntry(EntrySegment(i, n, ts), streams')
        BY <4>1, Zenon DEF OfEntry
      <4> QED
        BY <4>2, SegmentsAre, Zenon
    <3> QED
      BY <3>1, <3>2, <3>3, Zenon
  <2>7. \A s : s \in segments' <=> s \in SegmentsOf(streams')
    BY <2>5, <2>6, Zenon DEF SegmentsInv
  <2> QED
    BY <2>7, Zenon DEF SegmentsInv
<1>5. ASSUME NEW t \in Tasks
      PROVE  loc[t].ts \in Timestamp
  BY EntryType, Zenon
<1> QED
  BY <1>1, <1>2, <1>3, <1>4, <1>5, LogSteps, Zenon DEF LogStep

(***************************************************************************)
(* The segments stored are the entries the heads commit to, for any number *)
(* of calls, streams and crashes.                                          *)
(***************************************************************************)
THEOREM ReplicaChainIntact == Spec => []ChainIntact
<1>1. Init => SegmentsInv
  <2> SUFFICES ASSUME Init PROVE SegmentsInv
    OBVIOUS
  <2>1. DOMAIN streams = {} /\ segments = {}
    BY SMT DEF Init
  <2>2. \A s : s \notin SegmentsOf(streams)
    BY <2>1, SegmentsAre, Zenon DEF OfEntry
  <2> QED
    BY <2>1, <2>2, Zenon DEF SegmentsInv
<1>2. SegmentsInv => ChainIntact
  BY DEF ChainIntact, SegmentsInv, SegmentsOf, EntrySegment
<1> QED
  BY <1>1, <1>2, ChainStep, WriterAlways, PTL DEF Spec

-----------------------------------------------------------------------------
(* The tables hold what the log says *)

\* Prefixes of a log, and of the log with one more entry.
LEMMA LogPrefix ==
    ASSUME NEW S, NEW s \in Seq(S)
    PROVE  SubSeq(s, 1, Len(s)) = s
BY SMT

LEMMA LogPrefixEntries ==
    ASSUME NEW S, NEW s \in Seq(S), NEW n \in Nat, n <= Len(s)
    PROVE  \A k \in DOMAIN SubSeq(s, 1, n) : k \in DOMAIN s /\ SubSeq(s, 1, n)[k] = s[k]
BY SMT

LEMMA LogPrefixAppend ==
    ASSUME NEW S, NEW s \in Seq(S), NEW x \in S, NEW n \in 0 .. Len(s)
    PROVE  /\ SubSeq(Append(s, x), 1, n) = SubSeq(s, 1, n)
           /\ Append(SubSeq(s, 1, Len(s)), x) = SubSeq(Append(s, x), 1, Len(s) + 1)
BY SMT

\* The row and the tables of its container agree.
Matches(r) ==
    /\ r.commit <= Len(r.head)
    /\ ~ r.stalled => r.commit = Len(r.head)
    /\ applied[r.ctn] = SubSeq(r.head, 1, r.commit)

LEMMA TablesMatchLogRows ==
    TablesMatchLog <=> /\ \A i \in DOMAIN streams : Matches(streams[i])
                       /\ \A c \in Containers :
                             (\A i \in DOMAIN streams : streams[i].ctn # c) => applied[c] = <<>>
<1>1. \A c \in Containers : RowsOf(c) = {} <=> \A i \in DOMAIN streams : streams[i].ctn # c
  BY Zenon DEF RowsOf
<1> QED
  BY <1>1, Zenon DEF TablesMatchLog, Matches

\* One row and the tables of its container change together.
LEMMA TablesFrame ==
    ASSUME TypeOK, WriterInv, TablesMatchLog,
           NEW i \in DOMAIN streams, NEW r \in Row, NEW x,
           RowSet(i, r), r.ctn = streams[i].ctn,
           applied' = [applied EXCEPT ![r.ctn] = x],
           r.commit <= Len(r.head), ~ r.stalled => r.commit = Len(r.head),
           x = SubSeq(r.head, 1, r.commit)
    PROVE  TablesMatchLog'
<1>0. /\ applied \in [Containers -> Seq(Timestamp)]
      /\ r.ctn \in Containers
      /\ \A j \in DOMAIN streams : streams[j].ctn \in Containers
  BY EntryType, RowFields, Zenon DEF TypeOK
<1>1. Matches(r)'
  BY <1>0, Zenon DEF Matches
<1>2. \A j \in DOMAIN streams : j # i => streams[j].ctn # r.ctn
  BY Zenon DEF WriterInv, OneRowPerStream
<1>3. ASSUME NEW j \in DOMAIN streams
      PROVE  Matches(streams[j])'
  <2>1. CASE j = i
    BY <1>1, <2>1, Zenon DEF RowSet
  <2>2. CASE j # i
    <3>1. applied'[streams[j].ctn] = applied[streams[j].ctn] /\ streams'[j] = streams[j]
      BY <1>0, <1>2, <2>2, Zenon DEF RowSet
    <3>2. Matches(streams[j])
      BY TablesMatchLogRows, Zenon
    <3> QED
      BY <3>1, <3>2, Zenon DEF Matches
  <2> QED
    BY <2>1, <2>2, Zenon
<1>4. ASSUME NEW c \in Containers, \A j \in DOMAIN streams' : streams'[j].ctn # c
      PROVE  applied'[c] = <<>>
  <2>1. c # r.ctn /\ \A j \in DOMAIN streams : streams[j].ctn # c
    BY <1>4, Zenon DEF RowSet
  <2> QED
    BY <1>0, <2>1, TablesMatchLogRows, Zenon
<1>5. DOMAIN streams' = DOMAIN streams
  BY Zenon DEF RowSet
<1> QED
  BY <1>3, <1>4, <1>5, Zenon DEF TablesMatchLog, Matches, RowsOf

LEMMA TablesStep ==
    ASSUME TypeOK, WriterInv, TablesMatchLog, [Next]_vars
    PROVE  TablesMatchLog'
<1>0. applied \in [Containers -> Seq(Timestamp)]
  BY Zenon DEF TypeOK
<1>1. CASE UNCHANGED <<streams, segments, applied>>
  BY <1>1, Zenon DEF TablesMatchLog, RowsOf
<1>2. ASSUME NEW c \in Containers, RowAdded(c), UNCHANGED <<segments, applied>>
      PROVE  TablesMatchLog'
  <2>1. PICK n \in Nat \ DOMAIN streams :
           /\ DOMAIN streams' = DOMAIN streams \cup {n}
           /\ streams'[n] = NewRow(c)
           /\ \A j \in DOMAIN streams : streams'[j] = streams[j] /\ streams[j].ctn # c
    BY <1>2, Zenon DEF RowAdded
  <2>2. applied[c] = <<>>
    BY <2>1, TablesMatchLogRows, Zenon
  <2>3. Matches(NewRow(c))
    <3>1. /\ NewRow(c).ctn = c /\ NewRow(c).head = <<>>
          /\ NewRow(c).commit = 0 /\ NewRow(c).stalled = FALSE
      BY Zenon DEF NewRow
    <3>2. Len(<<>>) = 0 /\ SubSeq(<<>>, 1, 0) = <<>> /\ 0 <= 0
      BY SMT
    <3> QED
      BY <2>2, <3>1, <3>2, Zenon DEF Matches
  <2>4. \A j \in DOMAIN streams : Matches(streams[j])
    BY TablesMatchLogRows, Zenon
  <2>5. \A j \in DOMAIN streams' : Matches(streams[j])'
    BY <1>2, <2>1, <2>3, <2>4, Zenon DEF Matches
  <2>6. ASSUME NEW d \in Containers, \A j \in DOMAIN streams' : streams'[j].ctn # d
        PROVE  applied'[d] = <<>>
    <3>1. \A j \in DOMAIN streams : streams[j].ctn # d
      BY <2>1, <2>6, Zenon
    <3> QED
      BY <1>2, <3>1, TablesMatchLogRows, Zenon
  <2> QED
    BY <2>5, <2>6, Zenon DEF TablesMatchLog, Matches, RowsOf
<1>3. ASSUME NEW i \in DOMAIN streams, NEW r \in Row, Stalled(i, r)
      PROVE  TablesMatchLog'
  <2>1. Matches(streams[i])
    BY TablesMatchLogRows, Zenon
  <2>2. r.ctn \in Containers
    BY RowFields, Zenon
  <2>3. applied' = [applied EXCEPT ![r.ctn] = applied[r.ctn]]
    BY <1>0, <1>3, <2>2, Zenon DEF Stalled
  <2>4. applied[r.ctn] = SubSeq(r.head, 1, r.commit) /\ r.commit <= Len(r.head)
    BY <1>3, <2>1, Zenon DEF Stalled, Matches
  <2> QED
    BY <1>3, <2>3, <2>4, TablesFrame, Zenon DEF Stalled
<1>4. ASSUME NEW i \in DOMAIN streams, NEW r \in Row, Resumed(i, r)
      PROVE  TablesMatchLog'
  <2>1. /\ Len(r.head) <= Len(r.head)
        /\ r.head = SubSeq(r.head, 1, Len(r.head))
    <3>1. r.head \in Seq(Timestamp)
      BY RowFields, Zenon
    <3> QED
      BY <3>1, LogPrefix, SMT
  <2> QED
    BY <1>4, <2>1, TablesFrame, Zenon DEF Resumed
<1>5. ASSUME NEW i \in DOMAIN streams, NEW r \in Row, NEW ts \in Timestamp,
             Committed(i, r, ts)
      PROVE  TablesMatchLog'
  <2> DEFINE h == streams[i].head
             n == streams[i].commit
             x == IF r.stalled THEN applied[r.ctn] ELSE Append(applied[r.ctn], ts)
  <2>1. h \in Seq(Timestamp) /\ n \in Nat /\ r.ctn \in Containers
    BY EntryType, RowFields, Zenon
  <2>2. /\ n <= Len(h)
        /\ ~ r.stalled => n = Len(h)
        /\ applied[r.ctn] = SubSeq(h, 1, n)
    <3>1. Matches(streams[i])
      BY TablesMatchLogRows, Zenon
    <3> QED
      BY <1>5, <3>1, Zenon DEF Committed, Matches
  <2>3. r.head = Append(h, ts) /\ r.commit = IF r.stalled THEN n ELSE Len(r.head)
    BY <1>5, Zenon DEF Committed
  <2>4. applied' = [applied EXCEPT ![r.ctn] = x]
    <3>1. applied' = [applied EXCEPT ![r.ctn] = IF r.stalled THEN @ ELSE Append(@, ts)]
      BY <1>5, Zenon DEF Committed
    <3>2. CASE r.stalled
      <4>1. x = applied[r.ctn]
        BY <3>2, Zenon
      <4> QED
        BY <3>1, <3>2, <4>1, Zenon
    <3>3. CASE ~ r.stalled
      <4>1. x = Append(applied[r.ctn], ts)
        BY <3>3, Zenon
      <4> QED
        BY <3>1, <3>3, <4>1, Zenon
    <3> QED
      BY <3>2, <3>3, Zenon
  <2>5. RowSet(i, r) /\ r.ctn = streams[i].ctn
    BY <1>5, Zenon DEF Committed
  <2> HIDE DEF h, n, x
  <2>6. Len(r.head) = Len(h) + 1 /\ Len(h) \in Nat
    <3>1. Len(Append(h, ts)) = Len(h) + 1 /\ Len(h) \in Nat
      BY <2>1, SMT
    <3> QED
      BY <2>3, <3>1, Zenon
  <2>7. CASE r.stalled
    <3>1. x = SubSeq(r.head, 1, r.commit)
      <4>1. n \in 0 .. Len(h)
        BY <2>1, <2>2, <2>6, SMT
      <4>2. SubSeq(Append(h, ts), 1, n) = SubSeq(h, 1, n)
        BY <2>1, <4>1, LogPrefixAppend, Zenon
      <4> QED
        BY <2>2, <2>3, <2>7, <4>2, Zenon DEF x
    <3>2. r.commit <= Len(r.head)
      BY <2>1, <2>2, <2>3, <2>6, <2>7, SMT
    <3> QED
      BY <2>4, <2>5, <2>7, <3>1, <3>2, TablesFrame, Zenon
  <2>8. CASE ~ r.stalled
    <3>1. x = SubSeq(r.head, 1, r.commit)
      <4>1. Len(h) \in 0 .. Len(h)
        BY <2>6, SMT
      <4>2. Append(SubSeq(h, 1, Len(h)), ts) = SubSeq(Append(h, ts), 1, Len(h) + 1)
        BY <2>1, <4>1, LogPrefixAppend, Zenon
      <4> QED
        BY <2>2, <2>3, <2>6, <2>8, <4>2, Zenon DEF x
    <3>2. r.commit <= Len(r.head) /\ r.commit = Len(r.head)
      BY <2>3, <2>6, <2>8, SMT
    <3> QED
      BY <2>4, <2>5, <2>8, <3>1, <3>2, TablesFrame, Zenon
  <2> QED
    BY <2>7, <2>8, Zenon
<1>6. ASSUME NEW t \in Tasks
      PROVE  loc[t].ts \in Timestamp
  BY EntryType, Zenon
<1> QED
  BY <1>1, <1>2, <1>3, <1>4, <1>5, <1>6, LogSteps, Zenon DEF LogStep

LEMMA TablesAlways == Spec => [](TypeOK /\ WriterInv /\ TablesMatchLog)
<1>1. Init => TablesMatchLog
  <2> SUFFICES ASSUME Init PROVE TablesMatchLog
    OBVIOUS
  <2>1. DOMAIN streams = {} /\ \A c \in Containers : applied[c] = <<>>
    BY SMT DEF Init
  <2> QED
    BY <2>1, Zenon DEF TablesMatchLog
<1> QED
  BY <1>1, TablesStep, WriterAlways, PTL DEF Spec

(***************************************************************************)
(* The tables hold the operations of every stream up to its commit_size,   *)
(* and all of its log unless the stream is held back.                      *)
(***************************************************************************)
THEOREM ReplicaTablesMatchLog == Spec => []TablesMatchLog
BY TablesAlways, PTL

-----------------------------------------------------------------------------
(* The watchers *)

\* Of a call that is past its draw: what it is going to publish is ahead of
\* what the watchers of its stream have, and in the tables once it committed.
Pending(t) ==
    /\ pc[t] \in Drawn \cup {"post"} =>
          \A k \in DOMAIN events[loc[t].ctn] : Before(events[loc[t].ctn][k], loc[t].ts)
    /\ pc[t] = "post" /\ ~ loc[t].stalled =>
          \E k \in DOMAIN applied[loc[t].ctn] : applied[loc[t].ctn][k] = loc[t].ts

(***************************************************************************)
(* The inductive invariant: besides what was published, what is about to   *)
(* be.                                                                     *)
(***************************************************************************)
EventInv ==
    /\ EventsFollowLog
    /\ \A t \in Tasks : Pending(t)

\* What is in the tables stays there.
AppliedKept ==
    \A c \in Containers : \A k \in DOMAIN applied[c] :
        \E m \in DOMAIN applied'[c] : applied'[c][m] = applied[c][k]

LEMMA AppliedKeeps ==
    ASSUME TypeOK, WriterInv, TablesMatchLog, [Next]_vars
    PROVE  AppliedKept
<1>0. applied \in [Containers -> Seq(Timestamp)]
  BY Zenon DEF TypeOK
<1>1. ASSUME UNCHANGED applied
      PROVE  AppliedKept
  BY <1>1, Zenon DEF AppliedKept
<1>2. ASSUME NEW c \in Containers, NEW x,
             applied' = [applied EXCEPT ![c] = x],
             \A k \in DOMAIN applied[c] : k \in DOMAIN x /\ x[k] = applied[c][k]
      PROVE  AppliedKept
  <2> SUFFICES ASSUME NEW d \in Containers, NEW k \in DOMAIN applied[d]
               PROVE  \E m \in DOMAIN applied'[d] : applied'[d][m] = applied[d][k]
    BY Zenon DEF AppliedKept
  <2>1. applied'[d] = IF d = c THEN x ELSE applied[d]
    BY <1>0, <1>2, Zenon
  <2> QED
    BY <1>2, <2>1, Zenon
<1>3. ASSUME NEW i \in DOMAIN streams, NEW r \in Row, Resumed(i, r)
      PROVE  AppliedKept
  <2>1. r.ctn \in Containers /\ r.head \in Seq(Timestamp) /\ streams[i].commit \in Nat
    BY EntryType, RowFields, Zenon
  <2>2. /\ applied[r.ctn] = SubSeq(r.head, 1, streams[i].commit)
        /\ streams[i].commit <= Len(r.head)
    <3>1. Matches(streams[i])
      BY TablesMatchLogRows, Zenon
    <3> QED
      BY <1>3, <3>1, Zenon DEF Resumed, Matches
  <2> DEFINE h == r.head
             n == streams[i].commit
  <2>3. \A k \in DOMAIN SubSeq(h, 1, n) : k \in DOMAIN h /\ SubSeq(h, 1, n)[k] = h[k]
    <3> HIDE DEF h, n
    <3>1. h \in Seq(Timestamp) /\ n \in Nat /\ n <= Len(h)
      BY <2>1, <2>2, Zenon DEF h, n
    <3> QED
      BY <3>1, LogPrefixEntries, Zenon
  <2>4. applied[r.ctn] = SubSeq(h, 1, n) /\ applied' = [applied EXCEPT ![r.ctn] = h]
    BY <1>3, <2>2, Zenon DEF Resumed
  <2> HIDE DEF h, n
  <2>5. \A k \in DOMAIN applied[r.ctn] : k \in DOMAIN h /\ h[k] = applied[r.ctn][k]
    BY <2>3, <2>4, Zenon
  <2> QED
    BY <1>2, <2>1, <2>4, <2>5, Zenon
<1>4. ASSUME NEW i \in DOMAIN streams, NEW r \in Row, NEW ts \in Timestamp,
             Committed(i, r, ts)
      PROVE  AppliedKept
  <2>1. r.ctn \in Containers /\ applied[r.ctn] \in Seq(Timestamp)
    BY <1>0, RowFields, Zenon
  <2>2. CASE r.stalled
    <3>1. applied' = [applied EXCEPT ![r.ctn] = applied[r.ctn]]
      BY <1>4, <2>2, Zenon DEF Committed
    <3> QED
      BY <1>2, <2>1, <3>1, Zenon
  <2>3. CASE ~ r.stalled
    <3>1. applied' = [applied EXCEPT ![r.ctn] = Append(applied[r.ctn], ts)]
      BY <1>4, <2>3, Zenon DEF Committed
    <3>2. \A k \in DOMAIN applied[r.ctn] :
             /\ k \in DOMAIN Append(applied[r.ctn], ts)
             /\ Append(applied[r.ctn], ts)[k] = applied[r.ctn][k]
      <4>1. \A s \in Seq(Timestamp) : \A k \in DOMAIN s :
               k \in DOMAIN Append(s, ts) /\ Append(s, ts)[k] = s[k]
        BY SMT
      <4> QED
        BY <2>1, <4>1, Zenon
    <3> QED
      BY <1>2, <2>1, <3>1, <3>2, ZenonT(60)
  <2> QED
    BY <2>2, <2>3, Zenon
<1>5. ASSUME NEW t \in Tasks
      PROVE  loc[t].ts \in Timestamp
  BY EntryType, Zenon
<1> QED
  BY <1>1, <1>3, <1>4, <1>5, LogSteps, Zenon DEF LogStep, Stalled

\* What was published is in the tables, so in the log, and not ahead of the
\* clock.
LEMMA EventsCovered ==
    ASSUME TypeOK, WriterInv, ClockInv, TablesMatchLog, EventInv, up,
           NEW c \in Containers, NEW k \in DOMAIN events[c]
    PROVE  events[c][k] \in Timestamp /\ AtMost(events[c][k], hlc)
<1>1. PICK m \in DOMAIN applied[c] : events[c][k] = applied[c][m]
  BY Zenon DEF EventInv, EventsFollowLog
<1>2. RowsOf(c) # {}
  <2>1. applied[c] = <<>> => DOMAIN applied[c] = {}
    BY SMT
  <2> QED
    BY <1>1, <2>1, Zenon DEF TablesMatchLog
<1>3. PICK i \in DOMAIN streams : streams[i].ctn = c
  BY <1>2, Zenon DEF RowsOf
<1>4. streams[i].head \in Seq(Timestamp) /\ streams[i].commit \in Nat
  BY EntryType, RowFields, Zenon
<1>5. /\ applied[c] = SubSeq(streams[i].head, 1, streams[i].commit)
      /\ streams[i].commit <= Len(streams[i].head)
  BY <1>3, TablesMatchLogRows, Zenon DEF Matches
<1>6. m \in DOMAIN streams[i].head /\ streams[i].head[m] = applied[c][m]
  BY <1>4, <1>5, LogPrefixEntries, ZenonT(60)
<1>7. /\ events[c][k] \in Timestamp /\ clock \in Timestamp /\ hlc \in Timestamp
      /\ AtMost(events[c][k], clock) /\ AtMost(clock, hlc)
  BY <1>1, <1>6, EntryType, Zenon DEF ClockInv, ClockCovers
<1> QED
  BY <1>7, AtMostTransitive, Zenon

\* A step that publishes nothing and draws nothing.
LEMMA EventFrame ==
    ASSUME EventInv, AppliedKept, UNCHANGED events, TypeOK,
           \A u \in Tasks : pc'[u] \in Drawn \cup {"post"} =>
               /\ pc[u] \in Drawn \cup {"post"}
               /\ pc'[u] = "post" => pc[u] = "post"
               /\ loc'[u] = loc[u]
    PROVE  EventInv'
<1>1. EventsFollowLog'
  <2> SUFFICES ASSUME NEW c \in Containers
               PROVE  /\ \A k \in DOMAIN events[c] :
                            \E i \in DOMAIN applied'[c] : events[c][k] = applied'[c][i]
                      /\ \A k, l \in DOMAIN events[c] : k < l => Before(events[c][k], events[c][l])
    BY Zenon DEF EventsFollowLog
  <2> QED
    BY ZenonT(60) DEF EventInv, EventsFollowLog, AppliedKept
<1>2. ASSUME NEW u \in Tasks
      PROVE  Pending(u)'
  <2>0. Pending(u) /\ loc[u].ctn \in Containers
    BY LocalsFields, Zenon DEF EventInv, TypeOK
  <2>1. CASE pc'[u] \in Drawn \cup {"post"}
    <3>1. loc'[u] = loc[u] /\ events' = events
      BY <2>1, Zenon
    <3>2. \A k \in DOMAIN events[loc[u].ctn] : Before(events[loc[u].ctn][k], loc[u].ts)
      BY <2>0, <2>1, Zenon DEF Pending
    <3>3. pc'[u] = "post" /\ ~ loc[u].stalled =>
             \E k \in DOMAIN applied'[loc[u].ctn] : applied'[loc[u].ctn][k] = loc[u].ts
      BY <2>0, <2>1, Zenon DEF Pending, AppliedKept
    <3> QED
      BY <3>1, <3>2, <3>3, Zenon DEF Pending
  <2>2. CASE pc'[u] \notin Drawn \cup {"post"}
    BY <2>2, Zenon DEF Pending
  <2> QED
    BY <2>1, <2>2, Zenon
<1> QED
  BY <1>1, <1>2, Zenon DEF EventInv

\* States in which nothing is drawn.
LEMMA PendingStates ==
    /\ \A s \in {"idle", "lock", "select", "insert", "stamp", "swap", "panic"} :
          s \notin Drawn \cup {"post"}
    /\ "prepare" \in Drawn \cup {"post"} /\ "commit" \in Drawn \cup {"post"}
    /\ "post" \in Drawn \cup {"post"}
    /\ "prepare" # "post" /\ "commit" # "post" /\ "swap" # "post" /\ "idle" # "post"
    /\ Drawn \cup {"post"} \subseteq Held
BY SMT DEF Drawn, Held

LEMMA EventStep ==
    ASSUME TypeOK, WriterInv, ClockInv, TablesMatchLog, EventInv, [Next]_vars
    PROVE  EventInv'
<1>0. /\ loc \in [Tasks -> Locals] /\ pc \in [Tasks -> States]
      /\ events \in [Containers -> Seq(Timestamp)]
      /\ AppliedKept
  BY AppliedKeeps, Zenon DEF TypeOK
<1>1. CASE UNCHANGED vars
  BY <1>0, <1>1, EventFrame, Zenon DEF vars
<1>2. ASSUME NEW t \in Tasks,
             NEW s \in {"idle", "lock", "select", "insert", "stamp", "swap", "panic"},
             pc'[t] = s,
             \A u \in Tasks : u # t => pc'[u] = pc[u] /\ loc'[u] = loc[u],
             UNCHANGED events
      PROVE  EventInv'
  <2>1. \A u \in Tasks : pc'[u] \in Drawn \cup {"post"} => u # t
    BY <1>2, PendingStates, Zenon
  <2> QED
    BY <1>0, <1>2, <2>1, EventFrame, Zenon
<1>3. ASSUME NEW t \in Tasks, NEW s \in States, Goto(t, s)
      PROVE  pc'[t] = s /\ \A u \in Tasks : u # t => pc'[u] = pc[u]
  BY <1>3, GotoEffect, Zenon
<1>4. ASSUME NEW t \in Tasks, NEW s \in {"idle", "panic"}, Leave(t, s), UNCHANGED events
      PROVE  EventInv'
  <2>1. s \in States
    BY StateNames, Zenon
  <2>2. /\ pc'[t] = s
        /\ \A u \in Tasks : u # t => pc'[u] = pc[u] /\ loc'[u] = loc[u]
    BY <1>4, <2>1, LeaveEffect, Zenon
  <2> QED
    BY <1>2, <1>4, <2>2, Zenon
<1>5. ASSUME NEW t \in Tasks, NEW c \in Containers, Start(t, c)
      PROVE  EventInv'
  <2>1. \A u \in Tasks : u # t => loc'[u] = loc[u]
    BY <1>0, <1>5, Zenon DEF Start
  <2> QED
    BY <1>2, <1>3, <1>5, <2>1, StateNames, Zenon DEF Start
<1>6. ASSUME NEW t \in Tasks, LockStream(t)
      PROVE  EventInv'
  BY <1>2, <1>3, <1>6, StateNames, Zenon DEF LockStream
<1>7. ASSUME NEW t \in Tasks, SelectStream(t)
      PROVE  EventInv'
  <2>1. CASE Leave(t, "panic") \/ Leave(t, "idle")
    BY <1>4, <1>7, <2>1, Zenon DEF SelectStream
  <2>2. CASE Goto(t, "insert") /\ UNCHANGED loc
    BY <1>2, <1>3, <1>7, <2>2, StateNames, Zenon DEF SelectStream
  <2>3. ASSUME NEW i \in RowsOf(loc[t].ctn), Goto(t, "stamp"), Enter(t, i)
        PROVE  EventInv'
    <3>1. \A u \in Tasks : u # t => loc'[u] = loc[u]
      BY <1>0, <2>3, Zenon DEF Enter
    <3> QED
      BY <1>2, <1>3, <1>7, <2>3, <3>1, StateNames, Zenon DEF SelectStream
  <2> QED
    BY <1>7, <2>1, <2>2, <2>3, Zenon DEF SelectStream
<1>8. ASSUME NEW t \in Tasks, InsertStream(t)
      PROVE  EventInv'
  <2>1. \A u \in Tasks : u # t => loc'[u] = loc[u]
    BY <1>0, <1>8, Zenon DEF InsertStream, Enter
  <2> QED
    BY <1>2, <1>3, <1>8, <2>1, StateNames, Zenon DEF InsertStream
<1>9. ASSUME NEW t \in Tasks, ReadClock(t)
      PROVE  EventInv'
  <2>1. \A u \in Tasks : u # t => loc'[u] = loc[u]
    BY <1>0, <1>9, Zenon DEF ReadClock
  <2> QED
    BY <1>2, <1>3, <1>9, <2>1, StateNames, Zenon DEF ReadClock
<1>10. ASSUME NEW t \in Tasks, SwapClock(t)
       PROVE  EventInv'
  <2> DEFINE next == NextLocal(loc[t].last, loc[t].now)
  <2>1. pc[t] = "swap" /\ up /\ UNCHANGED <<events, streams, segments, applied>>
    BY <1>10, DrawnStates, Zenon DEF SwapClock, dbVars, ClockInv
  <2>2. CASE Leave(t, "idle")
    BY <1>4, <2>1, <2>2, Zenon
  <2>3. CASE /\ next # Overflow
             /\ SwapSucceeds(t)
             /\ hlc' = next
             /\ loc' = [loc EXCEPT ![t].ts = next]
             /\ Goto(t, IF loc[t].stalled THEN "commit" ELSE "prepare")
    <3>1. next \in Timestamp /\ Before(hlc, next)
      BY <2>3, SwapEffect, Zenon DEF SwapSucceeds
    <3> HIDE DEF next
    <3>2. loc'[t].ts = next /\ loc'[t].ctn = loc[t].ctn
      BY <1>0, <2>3, Zenon DEF Locals
    <3>3. \A u \in Tasks : u # t => pc'[u] = pc[u] /\ loc'[u] = loc[u]
      BY <1>0, <2>3, Zenon DEF Goto
    <3>4. pc'[t] \in {"commit", "prepare"}
      BY <1>0, <2>3, Zenon DEF Goto
    <3>5. Pending(t)'
      <4>1. loc[t].ctn \in Containers /\ hlc \in Timestamp
        BY <1>0, LocalsFields, EntryType, Zenon
      <4>2. \A k \in DOMAIN events[loc[t].ctn] : Before(events[loc[t].ctn][k], next)
        BY <2>1, <3>1, <4>1, EventsCovered, AtMostBefore, Zenon
      <4>3. pc'[t] # "post"
        BY <3>4, PendingStates, Zenon
      <4> QED
        BY <2>1, <3>2, <4>2, <4>3, Zenon DEF Pending
    <3>6. ASSUME NEW u \in Tasks, u # t
          PROVE  Pending(u)'
      BY <2>1, <3>3, <3>6, ZenonT(60) DEF EventInv, Pending
    <3>7. EventsFollowLog'
      BY <2>1, Zenon DEF EventInv, EventsFollowLog
    <3> QED
      BY <3>5, <3>6, <3>7, Zenon DEF EventInv
  <2>4. CASE Reload(t) /\ UNCHANGED <<hlc, holder, pc>>
    <3>1. \A u \in Tasks : u # t => loc'[u] = loc[u]
      BY <1>0, <2>4, Zenon DEF Reload
    <3> QED
      BY <1>2, <2>1, <2>4, <3>1, Zenon
  <2> QED
    BY <1>10, <2>2, <2>3, <2>4, Zenon DEF SwapClock
<1>11. ASSUME NEW t \in Tasks, Prepare(t)
       PROVE  EventInv'
  <2>1. /\ pc'[t] = "commit" /\ pc[t] = "prepare" /\ UNCHANGED <<loc, events>>
        /\ \A u \in Tasks : u # t => pc'[u] = pc[u]
    BY <1>3, <1>11, StateNames, Zenon DEF Prepare
  <2>2. \A u \in Tasks : pc'[u] \in Drawn \cup {"post"} =>
           /\ pc[u] \in Drawn \cup {"post"}
           /\ pc'[u] = "post" => pc[u] = "post"
           /\ loc'[u] = loc[u]
    BY <2>1, PendingStates, Zenon
  <2> QED
    BY <1>0, <2>1, <2>2, EventFrame, Zenon
<1>12. ASSUME NEW t \in Tasks, CommitBatch(t)
       PROVE  EventInv'
  <2>1. /\ pc'[t] = "post" /\ pc[t] = "commit" /\ UNCHANGED <<loc, events>>
        /\ \A u \in Tasks : u # t => pc'[u] = pc[u]
    BY <1>3, <1>12, StateNames, Zenon DEF CommitBatch
  <2>2. loc[t].ctn \in Containers
    BY <1>0, LocalsFields, Zenon
  <2>3. applied' = [applied EXCEPT
                       ![loc[t].ctn] = IF loc[t].stalled THEN @ ELSE Append(@, loc[t].ts)]
    BY <1>12, Zenon DEF CommitBatch
  <2>4. Pending(t)'
    <3>1. Pending(t)
      BY Zenon DEF EventInv
    <3>2. \A k \in DOMAIN events[loc[t].ctn] : Before(events[loc[t].ctn][k], loc[t].ts)
      BY <2>1, <3>1, PendingStates, Zenon DEF Pending
    <3>3. ASSUME ~ loc[t].stalled
          PROVE  \E k \in DOMAIN applied'[loc[t].ctn] : applied'[loc[t].ctn][k] = loc[t].ts
      <4>1. applied[loc[t].ctn] \in Seq(Timestamp) /\ loc[t].ts \in Timestamp
        BY <2>2, EntryType, Zenon DEF TypeOK
      <4>2. applied'[loc[t].ctn] = Append(applied[loc[t].ctn], loc[t].ts)
        BY <2>2, <2>3, <3>3, Zenon DEF TypeOK
      <4> DEFINE a == applied[loc[t].ctn]
                 n == Len(applied[loc[t].ctn]) + 1
      <4>3. n \in DOMAIN Append(a, loc[t].ts) /\ Append(a, loc[t].ts)[n] = loc[t].ts
        <5> HIDE DEF a
        <5> QED
          BY <4>1, SMT DEF a
      <4> HIDE DEF a, n
      <4>4. n \in DOMAIN applied'[loc[t].ctn] /\ applied'[loc[t].ctn][n] = loc[t].ts
        BY <4>2, <4>3, Zenon DEF a
      <4> QED
        BY <4>4, Zenon
    <3> QED
      BY <2>1, <3>2, <3>3, Zenon DEF Pending
  <2>5. ASSUME NEW u \in Tasks, u # t
        PROVE  Pending(u)'
    <3>1. Pending(u) /\ loc[u].ctn \in Containers
      BY <1>0, LocalsFields, Zenon DEF EventInv
    <3> QED
      BY <1>0, <2>1, <2>5, <3>1, Zenon DEF Pending, AppliedKept
  <2>6. EventsFollowLog'
    <3> SUFFICES ASSUME NEW c \in Containers
                 PROVE  /\ \A k \in DOMAIN events[c] :
                              \E i \in DOMAIN applied'[c] : events[c][k] = applied'[c][i]
                        /\ \A k, l \in DOMAIN events[c] :
                              k < l => Before(events[c][k], events[c][l])
      BY <2>1, Zenon DEF EventsFollowLog
    <3>1. \A k \in DOMAIN events[c] : \E i \in DOMAIN applied[c] : events[c][k] = applied[c][i]
      BY Zenon DEF EventInv, EventsFollowLog
    <3>2. \A k \in DOMAIN events[c] : \E i \in DOMAIN applied'[c] : events[c][k] = applied'[c][i]
      <4> SUFFICES ASSUME NEW k \in DOMAIN events[c]
                   PROVE  \E i \in DOMAIN applied'[c] : events[c][k] = applied'[c][i]
        OBVIOUS
      <4>1. PICK i \in DOMAIN applied[c] : events[c][k] = applied[c][i]
        BY <3>1, Zenon
      <4>2. PICK m \in DOMAIN applied'[c] : applied'[c][m] = applied[c][i]
        BY <1>0, Zenon DEF AppliedKept
      <4>3. events[c][k] = applied'[c][m]
        BY <4>1, <4>2, Zenon
      <4> QED
        BY <4>3, Zenon
    <3>3. \A k, l \in DOMAIN events[c] : k < l => Before(events[c][k], events[c][l])
      BY Zenon DEF EventInv, EventsFollowLog
    <3> QED
      BY <3>2, <3>3, Zenon
  <2> QED
    BY <2>4, <2>5, <2>6, Zenon DEF EventInv
<1>13. ASSUME NEW t \in Tasks, PostApply(t)
       PROVE  EventInv'
  <2>1. CASE UNCHANGED events
    BY <1>4, <1>13, <2>1, Zenon DEF PostApply
  <2>2. CASE /\ ~ loc[t].stalled
             /\ events' = [events EXCEPT ![loc[t].ctn] = Append(@, loc[t].ts)]
    <3> DEFINE c == loc[t].ctn
               e == events[loc[t].ctn]
               ts == loc[t].ts
               n == Len(events[loc[t].ctn]) + 1
    <3>1. /\ pc[t] = "post" /\ UNCHANGED applied
          /\ c \in Containers /\ e \in Seq(Timestamp) /\ ts \in Timestamp
      BY <1>0, <1>13, LocalsFields, EntryType, Zenon DEF PostApply, dbVars
    <3>2. /\ pc'[t] = "idle"
          /\ \A u \in Tasks : u # t => pc'[u] = pc[u] /\ loc'[u] = loc[u]
      BY <1>13, StateNames, LeaveEffect, Zenon DEF PostApply
    <3>3. /\ \A k \in DOMAIN e : Before(e[k], ts)
          /\ \E k \in DOMAIN applied[c] : applied[c][k] = ts
      <4>1. Pending(t)
        BY Zenon DEF EventInv
      <4> QED
        BY <2>2, <3>1, <4>1, PendingStates, Zenon DEF Pending
    <3>4. /\ events'[c] = Append(e, ts)
          /\ \A d \in Containers : d # c => events'[d] = events[d]
      BY <1>0, <2>2, <3>1, Zenon
    <3>5. EventsFollowLog
      BY Zenon DEF EventInv
    <3> HIDE DEF c, e, ts, n
    <3>6. /\ DOMAIN Append(e, ts) = DOMAIN e \cup {n}
          /\ n \notin DOMAIN e
          /\ Append(e, ts)[n] = ts
          /\ \A k \in DOMAIN e : Append(e, ts)[k] = e[k] /\ k < n /\ ~ n < k
          /\ ~ n < n
      BY <3>1, SMTT(40) DEF n, e
    <3>7. ASSUME NEW d \in Containers
          PROVE  /\ \A k \in DOMAIN events'[d] :
                       \E i \in DOMAIN applied'[d] : events'[d][k] = applied'[d][i]
                 /\ \A k, l \in DOMAIN events'[d] :
                       k < l => Before(events'[d][k], events'[d][l])
      <4>0. /\ \A k \in DOMAIN events[d] : \E i \in DOMAIN applied[d] : events[d][k] = applied[d][i]
            /\ \A k, l \in DOMAIN events[d] : k < l => Before(events[d][k], events[d][l])
            /\ applied' = applied
        BY <3>1, <3>5, Zenon DEF EventsFollowLog
      <4>1. CASE d # c
        <5>1. events'[d] = events[d]
          BY <3>4, <4>1, Zenon
        <5> QED
          BY <4>0, <5>1, Zenon
      <4>2. CASE d = c
        <5>0. events[d] = e /\ events'[d] = Append(e, ts)
          BY <3>4, <4>2, Zenon DEF e, c
        <5>1. \A k \in DOMAIN Append(e, ts) : \E i \in DOMAIN applied[d] : Append(e, ts)[k] = applied[d][i]
          <6> SUFFICES ASSUME NEW k \in DOMAIN Append(e, ts)
                       PROVE  \E i \in DOMAIN applied[d] : Append(e, ts)[k] = applied[d][i]
            OBVIOUS
          <6>1. CASE k = n
            <7>1. PICK i \in DOMAIN applied[c] : applied[c][i] = ts
              BY <3>3, Zenon
            <7>2. i \in DOMAIN applied[d] /\ Append(e, ts)[k] = applied[d][i]
              BY <3>6, <4>2, <6>1, <7>1, Zenon
            <7> QED
              BY <7>2, Zenon
          <6>2. CASE k # n
            <7>1. k \in DOMAIN events[d] /\ Append(e, ts)[k] = events[d][k]
              BY <3>6, <5>0, <6>2, Zenon
            <7> QED
              BY <4>0, <7>1, Zenon
          <6> QED
            BY <6>1, <6>2, Zenon
        <5>2. ASSUME NEW k \in DOMAIN Append(e, ts), NEW l \in DOMAIN Append(e, ts), k < l
              PROVE  Before(Append(e, ts)[k], Append(e, ts)[l])
          <6>1. CASE l = n
            BY <3>3, <3>6, <5>2, <6>1, Zenon
          <6>2. CASE l # n
            <7>1. l \in DOMAIN e /\ k # n
              BY <3>6, <5>2, <6>2, Zenon
            <7> QED
              BY <3>6, <4>0, <5>0, <5>2, <7>1, Zenon
          <6> QED
            BY <6>1, <6>2, Zenon
        <5> QED
          BY <4>0, <5>0, <5>1, <5>2, ZenonT(60)
      <4> QED
        BY <4>1, <4>2, Zenon
    <3>a. EventsFollowLog'
      BY <3>7, Zenon DEF EventsFollowLog
    <3>8. Pending(t)'
      BY <3>2, PendingStates, Zenon DEF Pending
    <3>9. ASSUME NEW u \in Tasks, u # t
          PROVE  Pending(u)'
      <4>1. /\ pc'[u] = pc[u] /\ loc'[u] = loc[u] /\ Pending(u)
            /\ loc[u].ctn \in Containers
        BY <1>0, <3>2, <3>9, LocalsFields, Zenon DEF EventInv
      <4>2. CASE pc[u] \in Drawn \cup {"post"}
        <5>1. loc[u].ctn # c
          BY <3>1, <3>9, <4>2, HeldApart, PendingStates, Zenon DEF c
        <5> QED
          BY <3>1, <3>4, <4>1, <5>1, Zenon DEF Pending
      <4>3. CASE pc[u] \notin Drawn \cup {"post"}
        BY <4>1, <4>3, Zenon DEF Pending
      <4> QED
        BY <4>2, <4>3, Zenon
    <3> QED
      BY <3>a, <3>8, <3>9, Zenon DEF EventInv
  <2> QED
    BY <1>13, <2>1, <2>2, Zenon DEF PostApply
<1>14. ASSUME NEW t \in Tasks, Abandon(t)
       PROVE  EventInv'
  BY <1>4, <1>14, Zenon DEF Abandon
<1>15. ASSUME \E c \in Containers : Stall(c) \/ Resume(c)
       PROVE  EventInv'
  <2>1. UNCHANGED <<pc, loc, events>>
    BY <1>15, Zenon DEF Stall, Resume
  <2> QED
    BY <1>0, <2>1, EventFrame, Zenon
<1>16. CASE Crash \/ Open
  <2>1. UNCHANGED events /\ \A u \in Tasks : pc'[u] = "idle" \/ UNCHANGED <<pc, loc>>
    BY <1>16, Zenon DEF Crash, Open
  <2> QED
    BY <1>0, <2>1, PendingStates, EventFrame, Zenon
<1> QED
  BY <1>1, <1>5, <1>6, <1>7, <1>8, <1>9, <1>10, <1>11, <1>12, <1>13, <1>14,
     <1>15, <1>16, Zenon DEF Next, Step

LEMMA EventAlways == Spec => []EventInv
<1>1. Init => EventInv
  <2> SUFFICES ASSUME Init PROVE EventInv
    OBVIOUS
  <2>1. DOMAIN <<>> = {}
    BY SMT
  <2>2. /\ \A c \in Containers : events[c] = <<>>
        /\ \A t \in Tasks : pc[t] = "idle"
    BY Zenon DEF Init
  <2>3. \A c \in Containers : DOMAIN events[c] = {}
    BY <2>1, <2>2, Zenon
  <2> QED
    BY <2>2, <2>3, PendingStates, Zenon DEF EventInv, EventsFollowLog, Pending
<1> QED
  BY <1>1, EventStep, TablesAlways, ClockAlways, PTL DEF Spec

(***************************************************************************)
(* Watchers get the changes of a stream in the order of its log, and none  *)
(* that is not in the tables, for any number of calls and crashes.         *)
(***************************************************************************)
THEOREM ReplicaEventsFollowLog == Spec => []EventsFollowLog
<1>1. EventInv => EventsFollowLog
  BY Zenon DEF EventInv
<1> QED
  BY <1>1, EventAlways, PTL

-----------------------------------------------------------------------------
(* The replica is an operation log *)

\* What a call has drawn is above all of its stream.
Above(t) ==
    pc[t] \in Drawn => \A k \in DOMAIN loc[t].head : Before(loc[t].head[k], loc[t].ts)

AboveInv == \A t \in Tasks : Above(t)

\* A step that draws nothing.
LEMMA AboveFrame ==
    ASSUME AboveInv,
           \A u \in Tasks : pc'[u] \in Drawn => pc[u] \in Drawn /\ loc'[u] = loc[u]
    PROVE  AboveInv'
<1> SUFFICES ASSUME NEW u \in Tasks, pc'[u] \in Drawn
             PROVE  \A k \in DOMAIN loc'[u].head : Before(loc'[u].head[k], loc'[u].ts)
  BY Zenon DEF AboveInv, Above
<1>1. Above(u) /\ pc[u] \in Drawn /\ loc'[u] = loc[u]
  BY Zenon DEF AboveInv
<1> QED
  BY <1>1, Zenon DEF Above

LEMMA AboveStep ==
    ASSUME TypeOK, WriterInv, ClockInv, AboveInv, [Next]_vars
    PROVE  AboveInv'
<1>0. loc \in [Tasks -> Locals] /\ pc \in [Tasks -> States]
  BY Zenon DEF TypeOK
<1>1. ASSUME NEW t \in Tasks, NEW s \in States \ Drawn, Goto(t, s),
             \A u \in Tasks : u # t => loc'[u] = loc[u]
      PROVE  AboveInv'
  <2>1. pc'[t] = s /\ \A u \in Tasks : u # t => pc'[u] = pc[u]
    BY <1>1, GotoEffect, Zenon
  <2> QED
    BY <1>1, <2>1, AboveFrame, Zenon
<1>2. ASSUME NEW t \in Tasks, NEW s \in {"idle", "panic"}, Leave(t, s)
      PROVE  AboveInv'
  <2>1. s \in States /\ s \notin Drawn
    BY StateNames, DrawnStates, Zenon
  <2>2. /\ pc'[t] = s
        /\ \A u \in Tasks : u # t => pc'[u] = pc[u] /\ loc'[u] = loc[u]
    BY <1>2, <2>1, LeaveEffect, Zenon
  <2> QED
    BY <2>1, <2>2, AboveFrame, Zenon
<1>3. ASSUME NEW t \in Tasks, SwapClock(t)
      PROVE  AboveInv'
  <2> DEFINE next == NextLocal(loc[t].last, loc[t].now)
  <2>1. pc[t] = "swap" /\ up
    BY <1>3, DrawnStates, Zenon DEF SwapClock, ClockInv
  <2>2. CASE Leave(t, "idle")
    BY <1>2, <2>2, Zenon
  <2>3. CASE /\ next # Overflow
             /\ SwapSucceeds(t)
             /\ loc' = [loc EXCEPT ![t].ts = next]
             /\ Goto(t, IF loc[t].stalled THEN "commit" ELSE "prepare")
    <3>1. next \in Timestamp /\ Before(hlc, next)
      BY <2>3, SwapEffect, Zenon DEF SwapSucceeds
    <3> HIDE DEF next
    <3>2. loc'[t].ts = next /\ loc'[t].head = loc[t].head
      BY <1>0, <2>3, Zenon DEF Locals
    <3>3. \A u \in Tasks : u # t => pc'[u] = pc[u] /\ loc'[u] = loc[u]
      BY <1>0, <2>3, Zenon DEF Goto
    <3>4. ASSUME NEW k \in DOMAIN loc[t].head
          PROVE  Before(loc[t].head[k], next)
      <4>1. /\ loc[t].id \in DOMAIN streams
            /\ streams[loc[t].id].head = loc[t].head
        BY <2>1, HeldStates, Zenon DEF WriterInv, Sees
      <4>2. /\ loc[t].head[k] \in Timestamp
            /\ AtMost(loc[t].head[k], clock)
            /\ AtMost(clock, hlc)
        BY <2>1, <4>1, EntryType, Zenon DEF ClockInv, ClockCovers
      <4>3. clock \in Timestamp /\ hlc \in Timestamp
        BY EntryType, Zenon
      <4>4. AtMost(loc[t].head[k], hlc)
        BY <4>2, <4>3, AtMostTransitive, Zenon
      <4> QED
        BY <3>1, <4>2, <4>3, <4>4, AtMostBefore, Zenon
    <3>5. Above(t)'
      BY <3>2, <3>4, Zenon DEF Above
    <3>6. ASSUME NEW u \in Tasks, u # t
          PROVE  Above(u)'
      BY <3>3, <3>6, Zenon DEF AboveInv, Above
    <3> QED
      BY <3>5, <3>6, Zenon DEF AboveInv
  <2>4. CASE Reload(t) /\ UNCHANGED pc
    <3>1. \A u \in Tasks : u # t => loc'[u] = loc[u]
      BY <1>0, <2>4, Zenon DEF Reload
    <3>2. \A u \in Tasks : pc'[u] \in Drawn => u # t /\ pc[u] \in Drawn
      BY <2>1, <2>4, DrawnStates, Zenon
    <3> QED
      BY <3>1, <3>2, AboveFrame, Zenon
  <2> QED
    BY <1>3, <2>2, <2>3, <2>4, Zenon DEF SwapClock
<1>4. ASSUME NEW t \in Tasks, NEW c \in Containers, Start(t, c)
      PROVE  AboveInv'
  <2>1. \A u \in Tasks : u # t => loc'[u] = loc[u]
    BY <1>0, <1>4, Zenon DEF Start
  <2> QED
    BY <1>1, <1>4, <2>1, StateNames, DrawnStates, Zenon DEF Start
<1>5. ASSUME NEW t \in Tasks, SelectStream(t)
      PROVE  AboveInv'
  <2>1. CASE Leave(t, "panic") \/ Leave(t, "idle")
    BY <1>2, <2>1, Zenon
  <2>2. CASE Goto(t, "insert") /\ UNCHANGED loc
    BY <1>1, <2>2, StateNames, DrawnStates, Zenon
  <2>3. ASSUME NEW i \in RowsOf(loc[t].ctn), Goto(t, "stamp"), Enter(t, i)
        PROVE  AboveInv'
    <3>1. \A u \in Tasks : u # t => loc'[u] = loc[u]
      BY <1>0, <2>3, Zenon DEF Enter
    <3> QED
      BY <1>1, <2>3, <3>1, StateNames, DrawnStates, Zenon
  <2> QED
    BY <1>5, <2>1, <2>2, <2>3, Zenon DEF SelectStream
<1>6. ASSUME NEW t \in Tasks, InsertStream(t) \/ ReadClock(t)
      PROVE  AboveInv'
  <2>1. \A u \in Tasks : u # t => loc'[u] = loc[u]
    BY <1>0, <1>6, Zenon DEF InsertStream, ReadClock, Enter
  <2> QED
    BY <1>1, <1>6, <2>1, StateNames, DrawnStates, Zenon DEF InsertStream, ReadClock
<1>7. ASSUME NEW t \in Tasks, LockStream(t) \/ CommitBatch(t)
      PROVE  AboveInv'
  BY <1>1, <1>7, StateNames, DrawnStates, Zenon DEF LockStream, CommitBatch
<1>8. ASSUME NEW t \in Tasks, Prepare(t)
      PROVE  AboveInv'
  <2>1. pc[t] = "prepare" /\ UNCHANGED loc /\ \A u \in Tasks : u # t => pc'[u] = pc[u]
    BY <1>8, GotoEffect, StateNames, Zenon DEF Prepare
  <2>2. \A u \in Tasks : pc'[u] \in Drawn => pc[u] \in Drawn /\ loc'[u] = loc[u]
    BY <2>1, DrawnStates, Zenon
  <2> QED
    BY <2>2, AboveFrame, Zenon
<1>9. ASSUME NEW t \in Tasks, PostApply(t) \/ Abandon(t)
      PROVE  AboveInv'
  BY <1>2, <1>9, Zenon DEF PostApply, Abandon
<1>10. ASSUME UNCHANGED vars \/ Open \/ \E c \in Containers : Stall(c) \/ Resume(c)
       PROVE  AboveInv'
  <2>1. UNCHANGED <<pc, loc>>
    BY <1>10, Zenon DEF vars, Open, Stall, Resume
  <2> QED
    BY <2>1, AboveFrame, Zenon
<1>11. CASE Crash
  <2>1. \A u \in Tasks : pc'[u] \notin Drawn
    BY <1>11, DrawnStates, Zenon DEF Crash
  <2> QED
    BY <2>1, AboveFrame, Zenon
<1> QED
  BY <1>3, <1>4, <1>5, <1>6, <1>7, <1>8, <1>9, <1>10, <1>11, Zenon DEF Next, Step

LEMMA AboveAlways == Spec => []AboveInv
<1>1. Init => AboveInv
  BY DrawnStates, Zenon DEF Init, AboveInv, Above
<1> QED
  BY <1>1, AboveStep, WriterAlways, ClockAlways, PTL DEF Spec

\* The log of c in given rows; LogOf(c) is the one in the rows there are.
LogIn(rows, c) ==
    IF {i \in DOMAIN rows : rows[i].ctn = c} = {} THEN <<>>
    ELSE rows[CHOOSE i \in {i \in DOMAIN rows : rows[i].ctn = c} : TRUE].head

LEMMA LogInRows ==
    ASSUME NEW rows, NEW c,
           \A i, j \in DOMAIN rows : rows[i].ctn = rows[j].ctn => i = j
    PROVE  /\ \A i \in DOMAIN rows : rows[i].ctn = c => LogIn(rows, c) = rows[i].head
           /\ (\A i \in DOMAIN rows : rows[i].ctn # c) => LogIn(rows, c) = <<>>
<1> DEFINE own == {i \in DOMAIN rows : rows[i].ctn = c}
           k == CHOOSE i \in own : TRUE
<1>1. ASSUME NEW i \in DOMAIN rows, rows[i].ctn = c
      PROVE  LogIn(rows, c) = rows[i].head
  <2>1. i \in own
    BY <1>1, Zenon
  <2>2. k \in own
    BY <2>1, Zenon
  <2>3. k = i
    BY <1>1, <2>2, Zenon
  <2>4. LogIn(rows, c) = rows[k].head
    BY <2>1, Zenon DEF LogIn
  <2> QED
    BY <2>3, <2>4, Zenon
<1>2. ASSUME \A i \in DOMAIN rows : rows[i].ctn # c
      PROVE  LogIn(rows, c) = <<>>
  <2>1. own = {}
    BY <1>2, Zenon
  <2> QED
    BY <2>1, Zenon DEF LogIn
<1> QED
  BY <1>1, <1>2, Zenon

\* The logs before and after a step.
LogsNow == [c \in Containers |-> LogIn(streams, c)]
LogsNext == [c \in Containers |-> LogIn(streams', c)]

\* What a step does to the logs and the tables.
LEMMA LogMoves ==
    ASSUME TypeOK, WriterInv, ClockInv, TablesMatchLog, AboveInv, [Next]_vars
    PROVE  \/ LogsNext = LogsNow /\ UNCHANGED applied
           \/ \E c \in Containers :
                 /\ LogsNext = LogsNow
                 /\ applied' = [applied EXCEPT ![c] = LogsNow[c]]
           \/ \E c \in Containers, ts \in Timestamp :
                 /\ \A d \in Containers : \A k \in DOMAIN LogsNow[d] : LogsNow[d][k] # ts
                 /\ \A k \in DOMAIN LogsNow[c] : Before(LogsNow[c][k], ts)
                 /\ LogsNext = [LogsNow EXCEPT ![c] = Append(LogsNow[c], ts)]
                 /\ \/ /\ applied[c] = LogsNow[c]
                       /\ applied' = [applied EXCEPT ![c] = Append(applied[c], ts)]
                    \/ UNCHANGED applied
<1>0. /\ applied \in [Containers -> Seq(Timestamp)]
      /\ \A i, j \in DOMAIN streams : streams[i].ctn = streams[j].ctn => i = j
  BY Zenon DEF TypeOK, WriterInv, OneRowPerStream
<1>1. \A i, j \in DOMAIN streams' : streams'[i].ctn = streams'[j].ctn => i = j
  <2>1. WriterInv'
    BY WriterStep
  <2> QED
    BY <2>1, Zenon DEF WriterInv, OneRowPerStream
<1>a. \A c : \A i \in DOMAIN streams : streams[i].ctn = c => LogIn(streams, c) = streams[i].head
  BY <1>0, LogInRows, Zenon
<1>b. \A c : \A i \in DOMAIN streams' : streams'[i].ctn = c => LogIn(streams', c) = streams'[i].head
  BY <1>1, LogInRows, Zenon
<1>2. CASE UNCHANGED <<streams, segments, applied>>
  BY <1>2, Zenon DEF LogsNow, LogsNext
<1>3. ASSUME NEW i \in DOMAIN streams, NEW r \in Row, RowSet(i, r), r.ctn = streams[i].ctn
      PROVE  LogsNext = [LogsNow EXCEPT ![r.ctn] = r.head] /\ LogsNow[r.ctn] = streams[i].head
  <2>1. r.ctn \in Containers
    BY RowFields, Zenon
  <2>2. LogIn(streams', r.ctn) = r.head /\ LogIn(streams, r.ctn) = streams[i].head
    BY <1>a, <1>b, <1>3, Zenon DEF RowSet
  <2>3. ASSUME NEW c \in Containers, c # r.ctn
        PROVE  LogIn(streams', c) = LogIn(streams, c)
    <3>1. CASE \E j \in DOMAIN streams : streams[j].ctn = c
      <4>1. PICK j \in DOMAIN streams : streams[j].ctn = c
        BY <3>1, Zenon
      <4>2. j # i /\ streams'[j] = streams[j] /\ j \in DOMAIN streams'
        BY <1>3, <2>3, <4>1, Zenon DEF RowSet
      <4>3. LogIn(streams', c) = streams'[j].head /\ LogIn(streams, c) = streams[j].head
        BY <1>a, <1>b, <4>1, <4>2, Zenon
      <4> QED
        BY <4>2, <4>3, Zenon
    <3>2. CASE \A j \in DOMAIN streams : streams[j].ctn # c
      <4>1. \A j \in DOMAIN streams' : streams'[j].ctn # c
        BY <1>3, <2>3, <3>2, Zenon DEF RowSet
      <4> QED
        BY <1>0, <1>1, <3>2, <4>1, LogInRows, Zenon
    <3> QED
      BY <3>1, <3>2, Zenon
  <2> QED
    BY <2>1, <2>2, <2>3, Zenon DEF LogsNow, LogsNext
<1>4. ASSUME NEW c \in Containers, RowAdded(c), UNCHANGED applied
      PROVE  LogsNext = LogsNow
  <2>1. PICK n \in Nat \ DOMAIN streams :
           /\ DOMAIN streams' = DOMAIN streams \cup {n}
           /\ streams'[n] = NewRow(c)
           /\ \A j \in DOMAIN streams : streams'[j] = streams[j] /\ streams[j].ctn # c
    BY <1>4, Zenon DEF RowAdded
  <2>2. NewRow(c).ctn = c /\ NewRow(c).head = <<>>
    BY Zenon DEF NewRow
  <2>3. ASSUME NEW d \in Containers
        PROVE  LogIn(streams', d) = LogIn(streams, d)
    <3>1. CASE d = c
      <4>1. LogIn(streams, d) = <<>>
        BY <1>0, <2>1, <3>1, LogInRows, Zenon
      <4>2. n \in DOMAIN streams' /\ streams'[n].ctn = d /\ streams'[n].head = <<>>
        BY <2>1, <2>2, <3>1, Zenon
      <4>3. LogIn(streams', d) = streams'[n].head
        BY <1>1, <4>2, LogInRows, Zenon
      <4> QED
        BY <4>1, <4>2, <4>3, Zenon
    <3>2. CASE d # c /\ \E j \in DOMAIN streams : streams[j].ctn = d
      <4>1. PICK j \in DOMAIN streams : streams[j].ctn = d
        BY <3>2, Zenon
      <4>2. streams'[j] = streams[j] /\ j \in DOMAIN streams'
        BY <2>1, Zenon
      <4>3. LogIn(streams', d) = streams'[j].head /\ LogIn(streams, d) = streams[j].head
        BY <1>a, <1>b, <4>1, <4>2, Zenon
      <4> QED
        BY <4>2, <4>3, Zenon
    <3>3. CASE d # c /\ \A j \in DOMAIN streams : streams[j].ctn # d
      <4>1. \A j \in DOMAIN streams' : streams'[j].ctn # d
        BY <2>1, <2>2, <3>3, Zenon
      <4> QED
        BY <1>0, <1>1, <3>3, <4>1, LogInRows, Zenon
    <3> QED
      BY <3>1, <3>2, <3>3, Zenon
  <2> QED
    BY <2>3, Zenon DEF LogsNow, LogsNext
<1>5. ASSUME NEW i \in DOMAIN streams, NEW r \in Row, Stalled(i, r)
      PROVE  LogsNext = LogsNow /\ UNCHANGED applied
  <2>1. /\ LogsNext = [LogsNow EXCEPT ![r.ctn] = LogsNow[r.ctn]]
        /\ UNCHANGED applied
    <3>1. RowSet(i, r) /\ r.ctn = streams[i].ctn /\ r.head = streams[i].head /\ UNCHANGED applied
      BY <1>5, Zenon DEF Stalled
    <3>2. LogsNext = [LogsNow EXCEPT ![r.ctn] = r.head] /\ LogsNow[r.ctn] = streams[i].head
      BY <1>3, <3>1, Zenon
    <3> QED
      BY <3>1, <3>2, Zenon
  <2> QED
    BY <2>1, Zenon DEF LogsNow, LogsNext
<1>6. ASSUME NEW i \in DOMAIN streams, NEW r \in Row, Resumed(i, r)
      PROVE  /\ LogsNext = LogsNow
             /\ applied' = [applied EXCEPT ![r.ctn] = LogsNow[r.ctn]]
             /\ r.ctn \in Containers
  <2>1. /\ LogsNext = [LogsNow EXCEPT ![r.ctn] = LogsNow[r.ctn]]
        /\ applied' = [applied EXCEPT ![r.ctn] = LogsNow[r.ctn]]
    BY <1>3, <1>6, ZenonT(60) DEF Resumed
  <2> QED
    BY <2>1, RowFields, Zenon DEF LogsNow, LogsNext
<1>7. ASSUME NEW t \in Tasks, CommitBatch(t), NEW r \in Row,
             loc[t].id \in DOMAIN streams, Committed(loc[t].id, r, loc[t].ts)
      PROVE  /\ r.ctn \in Containers /\ loc[t].ts \in Timestamp
             /\ \A d \in Containers : \A k \in DOMAIN LogsNow[d] : LogsNow[d][k] # loc[t].ts
             /\ \A k \in DOMAIN LogsNow[r.ctn] : Before(LogsNow[r.ctn][k], loc[t].ts)
             /\ LogsNext = [LogsNow EXCEPT ![r.ctn] = Append(LogsNow[r.ctn], loc[t].ts)]
             /\ \/ /\ applied[r.ctn] = LogsNow[r.ctn]
                   /\ applied' = [applied EXCEPT ![r.ctn] = Append(applied[r.ctn], loc[t].ts)]
                \/ UNCHANGED applied
  <2> DEFINE ts == loc[t].ts
             i == loc[t].id
  <2>1. pc[t] = "commit" /\ pc[t] \in Drawn /\ pc[t] \in Rowed
    BY <1>7, DrawnStates, HeldStates, Zenon DEF CommitBatch
  <2>2. /\ r.ctn \in Containers /\ ts \in Timestamp
        /\ streams[i] \in Row
    BY <1>7, RowFields, EntryType, Zenon
  <2>3. /\ LogsNext = [LogsNow EXCEPT ![r.ctn] = r.head]
        /\ LogsNow[r.ctn] = streams[i].head
        /\ r.head = Append(streams[i].head, ts)
    BY <1>3, <1>7, Zenon DEF Committed
  <2>4. ASSUME NEW d \in Containers, NEW k \in DOMAIN LogsNow[d]
        PROVE  LogsNow[d][k] # ts
    <3>1. LogsNow[d] = LogIn(streams, d)
      BY Zenon DEF LogsNow
    <3>2. PICK j \in DOMAIN streams : streams[j].ctn = d
      <4>1. DOMAIN <<>> = {}
        BY SMT
      <4>2. LogIn(streams, d) # <<>>
        BY <2>4, <3>1, <4>1, Zenon
      <4> QED
        BY <1>0, <4>2, LogInRows, Zenon
    <3>3. LogsNow[d] = streams[j].head
      BY <1>0, <3>1, <3>2, LogInRows, Zenon
    <3>4. Fresh(t)
      BY Zenon DEF ClockInv
    <3> QED
      BY <2>1, <2>4, <3>3, <3>4, Zenon DEF Fresh
  <2>5. \A k \in DOMAIN LogsNow[r.ctn] : Before(LogsNow[r.ctn][k], ts)
    <3>1. Above(t) /\ streams[i].head = loc[t].head
      BY <1>7, CommitEffect, Zenon DEF AboveInv
    <3> QED
      BY <2>1, <2>3, <3>1, Zenon DEF Above
  <2>6. CASE r.stalled
    <3>1. applied' = [applied EXCEPT ![r.ctn] = applied[r.ctn]]
      BY <1>7, <2>6, Zenon DEF Committed
    <3>2. UNCHANGED applied
      BY <1>0, <2>2, <3>1, Zenon
    <3> QED
      BY <2>2, <2>3, <2>4, <2>5, <3>2, Zenon
  <2>7. CASE ~ r.stalled
    <3>1. applied' = [applied EXCEPT ![r.ctn] = Append(applied[r.ctn], ts)]
      BY <1>7, <2>7, Zenon DEF Committed
    <3>2. applied[r.ctn] = LogsNow[r.ctn]
      <4>1. Matches(streams[i])
        BY <1>7, TablesMatchLogRows, Zenon
      <4>2. /\ streams[i].commit = Len(streams[i].head)
            /\ applied[r.ctn] = SubSeq(streams[i].head, 1, streams[i].commit)
        BY <1>7, <2>7, <4>1, Zenon DEF Committed, Matches
      <4>3. SubSeq(streams[i].head, 1, Len(streams[i].head)) = streams[i].head
        BY <2>2, RowFields, LogPrefix, Zenon
      <4> QED
        BY <2>3, <4>2, <4>3, Zenon
    <3> QED
      BY <2>2, <2>3, <2>4, <2>5, <3>1, <3>2, Zenon
  <2> QED
    BY <2>6, <2>7, Zenon
<1>8. LogStep
  BY LogSteps
<1>9. CASE \E c \in Containers : RowAdded(c) /\ UNCHANGED <<segments, applied>>
  BY <1>4, <1>9, Zenon
<1>10. CASE \E i \in DOMAIN streams, r \in Row : Stalled(i, r) \/ Resumed(i, r)
  BY <1>5, <1>6, <1>10, Zenon
<1>11. CASE \E t \in Tasks : /\ CommitBatch(t)
                             /\ loc[t].id \in DOMAIN streams
                             /\ \E r \in Row : Committed(loc[t].id, r, loc[t].ts)
  BY <1>7, <1>11, Zenon
<1> QED
  BY <1>2, <1>8, <1>9, <1>10, <1>11, Zenon DEF LogStep

\* The refinement mapping takes the logs to the logs.
LEMMA LogIsMapped ==
    /\ [c \in Containers |-> LogOf(c)] = LogsNow
    /\ [c \in Containers |-> LogOf(c)]' = LogsNext
<1>1. \A c \in Containers : LogOf(c) = LogIn(streams, c)
  BY Zenon DEF LogOf, RowsOf, LogIn
<1>2. \A c \in Containers : LogOf(c)' = LogIn(streams', c)
  BY Zenon DEF LogOf, RowsOf, LogIn
<1>3. [c \in Containers |-> LogOf(c)] = LogsNow
  BY <1>1, Zenon DEF LogsNow
<1>4. [c \in Containers |-> LogOf(c)]' = LogsNext
  BY <1>2, Zenon DEF LogsNext
<1> QED
  BY <1>3, <1>4

LEMMA LogMapsStep ==
    ASSUME TypeOK, WriterInv, ClockInv, TablesMatchLog, AboveInv, [Next]_vars
    PROVE  [Log!OLNext]_<<[c \in Containers |-> LogOf(c)], applied>>
<1>1. CASE LogsNext = LogsNow /\ UNCHANGED applied
  BY <1>1, LogIsMapped, Zenon
<1>2. ASSUME NEW c \in Containers, LogsNext = LogsNow,
             applied' = [applied EXCEPT ![c] = LogsNow[c]]
      PROVE  Log!OLNext
  <2>1. Log!OLCatchUp(c)
    BY <1>2, LogIsMapped, Zenon DEF Log!OLCatchUp
  <2> QED
    BY <2>1, Zenon DEF Log!OLNext
<1>3. ASSUME NEW c \in Containers, NEW ts \in Timestamp,
             \A d \in Containers : \A k \in DOMAIN LogsNow[d] : LogsNow[d][k] # ts,
             \A k \in DOMAIN LogsNow[c] : Before(LogsNow[c][k], ts),
             LogsNext = [LogsNow EXCEPT ![c] = Append(LogsNow[c], ts)],
             \/ /\ applied[c] = LogsNow[c]
                /\ applied' = [applied EXCEPT ![c] = Append(applied[c], ts)]
             \/ UNCHANGED applied
      PROVE  Log!OLNext
  <2>1. ts \notin Log!Used
    BY <1>3, LogIsMapped, SMT DEF Log!Used
  <2>2. Log!OLAppend(c, ts)
    BY <1>3, <2>1, LogIsMapped, Zenon DEF Log!OLAppend, Log!Before, Before
  <2>3. ts \in Log!Timestamp
    BY Zenon DEF Log!Timestamp, Timestamp
  <2> QED
    BY <2>2, <2>3, Zenon DEF Log!OLNext
<1> QED
  BY <1>1, <1>2, <1>3, LogMoves, Zenon

(***************************************************************************)
(* A replica is an operation log: an entry is appended and takes effect in *)
(* one step, above all of its stream and unlike any other entry, for any   *)
(* number of concurrent calls, failures and restarts.                      *)
(***************************************************************************)
THEOREM ReplicaImplementsOpLog == Spec => ImplementsOpLog
<1>1. Init => Log!OLInit
  <2> SUFFICES ASSUME Init PROVE Log!OLInit
    OBVIOUS
  <2>1. \A c \in Containers : LogOf(c) = <<>>
    <3>1. DOMAIN streams = {}
      BY SMT DEF Init
    <3> QED
      BY <3>1, Zenon DEF LogOf, RowsOf
  <2>2. applied = [c \in Containers |-> <<>>]
    BY Zenon DEF Init
  <2> QED
    BY <2>1, <2>2, Zenon DEF Log!OLInit
<1>2. TypeOK /\ WriterInv /\ ClockInv /\ TablesMatchLog /\ AboveInv /\ [Next]_vars
         => [Log!OLNext]_<<[c \in Containers |-> LogOf(c)], applied>>
  BY LogMapsStep
<1> QED
  BY <1>1, <1>2, TablesAlways, ClockAlways, AboveAlways, PTL
     DEF Spec, ImplementsOpLog, Log!OLSpec

=============================================================================
