---------------------------- MODULE ReplicaTables ----------------------------
(***************************************************************************)
(* The statements a replica runs on its own tables, when it opens and when *)
(* it saves, and what each does to the database (ubiquisync-sql,           *)
(* src/replica/schema.rs, init.rs, hlc.rs, exec.rs; src/db/schema.rs).     *)
(*                                                                         *)
(* A database is a record: the tables that exist, the rows of peers with   *)
(* the last id given out, the row of hlc (0: none), and the keys of        *)
(* segments.  Cryptography is symbolic: a peer id is what was hashed, a    *)
(* signature names its key and what was signed.                            *)
(***************************************************************************)
EXTENDS Integers, Sequences

\* None, where there may be a call, an answer or a task.
Nothing == <<>>

TableNames == <<"peers", "streams", "segments", "hlc">>

EmptyStore == [tables |-> {}, peers |-> {}, lastId |-> 0, clock |-> 0, segments |-> {}]

-----------------------------------------------------------------------------
(* Statements *)

CreateTable(name) == [is |-> "create", table |-> name]
SelectSelf == [is |-> "select_self", table |-> "peers"]
SelectClock == [is |-> "select_clock", table |-> "hlc"]
InsertPeer(entry) == [is |-> "insert_peer", table |-> "peers", entry |-> entry]
SaveClock(ts) == [is |-> "save_clock", table |-> "hlc", ts |-> ts]
InsertSegment(key) == [is |-> "insert_segment", table |-> "segments", key |-> key]

IsDml(s) == s.is \in {"insert_peer", "save_clock", "insert_segment"}

ReadOnly(s) == s.is \in {"select_self", "select_clock"}

-----------------------------------------------------------------------------
(* What a statement does *)

\* The database after it, how many rows it wrote and which it returned.
Done(store, count, rows) == [ok |-> TRUE, store |-> store, count |-> count, rows |-> rows]

Rejected(store) == [ok |-> FALSE, store |-> store, count |-> 0, rows |-> <<>>]

\* CREATE TABLE IF NOT EXISTS
Created(store, s) == Done([store EXCEPT !.tables = @ \cup {s.table}], 0, <<>>)

SELF_DB_ID == 1

SelfSelected(store) ==
    LET self == {p \in store.peers : p.id = SELF_DB_ID}
    IN  Done(store, 0, IF self = {} THEN <<>> ELSE <<(CHOOSE p \in self : TRUE).entry>>)

\* Mutant of PeerUnique: the table was created without UNIQUE.
PeerAnyhow(store, entry) == TRUE

\* UNIQUE(peer_id)
PeerUnique(store, entry) == \A p \in store.peers : p.entry.peer # entry.peer

\* AUTOINCREMENT, RETURNING id
PeerInserted(store, s) ==
    LET id == store.lastId + 1
    IN  IF PeerUnique(store, s.entry)
        THEN Done([store EXCEPT !.peers = @ \cup {[id |-> id, entry |-> s.entry]}, !.lastId = id],
                  1, <<id>>)
        ELSE Rejected(store)

\* ON CONFLICT DO UPDATE ... WHERE the clock moves forward
ClockSaved(store, s) ==
    IF s.ts > store.clock THEN Done([store EXCEPT !.clock = s.ts], 1, <<>>)
    ELSE Done(store, 0, <<>>)

SegmentInserted(store, s) ==
    IF s.key \in store.segments THEN Rejected(store)
    ELSE Done([store EXCEPT !.segments = @ \cup {s.key}], 1, <<>>)

ClockSelected(store) == Done(store, 0, IF store.clock = 0 THEN <<>> ELSE <<store.clock>>)

\* Any statement but the first kind needs its table.
Ran(store, s) ==
    CASE s.is = "create" -> Created(store, s)
      [] s.is # "create" /\ s.table \notin store.tables -> Rejected(store)
      [] s.is = "select_self" /\ s.table \in store.tables -> SelfSelected(store)
      [] s.is = "select_clock" /\ s.table \in store.tables -> ClockSelected(store)
      [] s.is = "insert_peer" /\ s.table \in store.tables -> PeerInserted(store, s)
      [] s.is = "save_clock" /\ s.table \in store.tables -> ClockSaved(store, s)
      [] s.is = "insert_segment" /\ s.table \in store.tables -> SegmentInserted(store, s)

\* One statement more, unless one has been rejected.
RanNext(acc, s) ==
    LET ran == Ran(acc.store, s)
    IN  IF ~acc.ok \/ ~ran.ok THEN [acc EXCEPT !.ok = FALSE]
        ELSE [ok |-> TRUE, store |-> ran.store,
              results |-> Append(acc.results, [count |-> ran.count, rows |-> ran.rows])]

\* RanFirst(...)[n]: the first n of them, one after the other.
RanFirst(store, statements) ==
    LET first[n \in 0 .. Len(statements)] ==
            IF n = 0 THEN [ok |-> TRUE, store |-> store, results |-> <<>>]
            ELSE RanNext(first[n - 1], statements[n])
    IN  first

RanAll(store, statements) == RanFirst(store, statements)[Len(statements)]

=============================================================================
