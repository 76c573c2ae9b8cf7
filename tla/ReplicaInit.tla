----------------------------- MODULE ReplicaInit -----------------------------
(***************************************************************************)
(* Opening a replica (ubiquisync-sql, src/replica/init.rs, schema.rs,      *)
(* hlc.rs; ubiquisync-core, src/init.rs) on a SQLite database: by several  *)
(* tasks that share a handle of it, by another process, with the           *)
(* credentials of its peer or of another, and again after a crash.         *)
(*                                                                         *)
(* An application id, a signing key and a wrapping key make up who opens.  *)
(* A replica that is open saves now and then, and hands on queries; what   *)
(* it saves and why is Replica's.                                          *)
(***************************************************************************)
EXTENDS SqliteDb

CONSTANTS
    Credentials,    \* who opens: records of app, sign, wrap
    Clocks, Keys,   \* what is saved: timestamps and keys of segments
    MaxOpens,       \* bound: calls of Replica::new(), by each task
    MaxCalls,       \* bound: calls of an open replica, by each task
    MaxFaults       \* bound: failures, panics, crashes and calls dropped

ASSUME ReplicaInitAssumption ==
    /\ MaxOpens \in Nat /\ MaxCalls \in Nat /\ MaxFaults \in Nat
    /\ Clocks \subseteq Nat \ {0}
    /\ Nothing \notin Credentials

VARIABLES
    pc,         \* what a task waits for, or whether its replica is open
    me,         \* me[t]: the credentials t opened with
    self,       \* self[t]: self_id of t's replica
    opens, calls, faults

clients == <<pc, me, self>>
bounds == <<opens, calls, faults>>
vars == <<dbVars, clients, bounds>>

Init ==
    /\ DbInit
    /\ pc = [t \in Tasks |-> "closed"]
    /\ me = [t \in Tasks |-> Nothing]
    /\ self = [t \in Tasks |-> Nothing]
    /\ opens = [t \in Tasks |-> 0]
    /\ calls = [t \in Tasks |-> 0]
    /\ faults = 0

-----------------------------------------------------------------------------
(* InitEntry *)

\* The hash of the application id and of the commitment.
PeerId(app, commitment) == [app |-> app, commitment |-> commitment]

\* create()
EntryOf(c) ==
    LET commitment == [sign |-> c.sign, wrap |-> c.wrap]
        peer == PeerId(c.app, commitment)
    IN  [peer |-> peer, commitment |-> commitment, signature |-> [by |-> c.sign, of |-> peer]]

\* verify()
Verifies(e, app) ==
    /\ e.peer = PeerId(app, e.commitment)
    /\ e.signature = [by |-> e.commitment.sign, of |-> e.peer]

-----------------------------------------------------------------------------
(* Replica::new() *)

Ask(t, mode, statements) ==
    /\ answer' = [answer EXCEPT ![t] = Nothing]
    /\ request' = [request EXCEPT ![t] = [mode |-> mode, statements |-> statements]]

Take(t) == answer' = [answer EXCEPT ![t] = Nothing] /\ UNCHANGED request

GoTo(t, where) == pc' = [pc EXCEPT ![t] = where]

AnsweredAt(t, where) == pc[t] = where /\ answer[t] # Nothing

Rows(t) == answer[t].results[1].rows

Opened(t, peer) ==
    /\ Take(t)
    /\ GoTo(t, "open")
    /\ self' = [self EXCEPT ![t] = peer]

\* "failed" by the database, or "refused" by new().
GivenUp(t, how) == Take(t) /\ GoTo(t, how) /\ UNCHANGED self

Start(t) ==
    /\ pc[t] = "closed"
    /\ owner = ProcessOf[t]
    /\ opens[t] < MaxOpens
    /\ opens' = [opens EXCEPT ![t] = @ + 1]
    /\ \E c \in Credentials : me' = [me EXCEPT ![t] = c]
    /\ Ask(t, "batch", [i \in DOMAIN TableNames |-> CreateTable(TableNames[i])])
    /\ GoTo(t, "schema")
    /\ UNCHANGED <<connection, store, self, calls, faults>>

LoadHlc(t) ==
    /\ AnsweredAt(t, "schema")
    /\ IF answer[t].ok
       THEN Ask(t, "query", <<SelectClock>>) /\ GoTo(t, "clock") /\ UNCHANGED self
       ELSE GivenUp(t, "failed")
    /\ UNCHANGED <<connection, store, me, bounds>>

LookUp(t) ==
    /\ AnsweredAt(t, "clock")
    /\ IF answer[t].ok
       THEN Ask(t, "query", <<SelectSelf>>) /\ GoTo(t, "self") /\ UNCHANGED self
       ELSE GivenUp(t, "failed")
    /\ UNCHANGED <<connection, store, me, bounds>>

\* The peer of the database is the caller's.
Own(t, e) ==
    /\ Verifies(e, me[t].app)
    /\ e.commitment.sign = me[t].sign
    /\ e.commitment.wrap = me[t].wrap

Identify(t) ==
    /\ AnsweredAt(t, "self")
    /\ IF ~answer[t].ok
       THEN GivenUp(t, "failed")
       ELSE IF Rows(t) = <<>>
       THEN Ask(t, "exec", <<InsertPeer(EntryOf(me[t]))>>) /\ GoTo(t, "insert") /\ UNCHANGED self
       ELSE IF Own(t, Rows(t)[1])
       THEN Opened(t, Rows(t)[1].peer)
       ELSE GivenUp(t, "refused")
    /\ UNCHANGED <<connection, store, me, bounds>>

\* Mutant of Inserted: any id will do.
InsertedAnywhere(t) ==
    /\ AnsweredAt(t, "insert")
    /\ IF answer[t].ok THEN Opened(t, EntryOf(me[t]).peer) ELSE GivenUp(t, "failed")
    /\ UNCHANGED <<connection, store, me, bounds>>

\* Another task may have inserted its own since LookUp.
Inserted(t) ==
    /\ AnsweredAt(t, "insert")
    /\ IF ~answer[t].ok
       THEN GivenUp(t, "failed")
       ELSE IF Rows(t)[1] = SELF_DB_ID
       THEN Opened(t, EntryOf(me[t]).peer)
       ELSE GivenUp(t, "refused")
    /\ UNCHANGED <<connection, store, me, bounds>>

-----------------------------------------------------------------------------
(* An open replica *)

\* The batch of an exec(), or of an observed timestamp; two of one stream may
\* bring the same key.  And a query that is a write.
Use(t) ==
    /\ pc[t] = "open"
    /\ calls[t] < MaxCalls
    /\ calls' = [calls EXCEPT ![t] = @ + 1]
    /\ \/ \E ts \in Clocks, k \in Keys : Ask(t, "batch", <<SaveClock(ts), InsertSegment(k)>>)
       \/ \E k \in Keys : Ask(t, "query", <<InsertSegment(k)>>)
    /\ GoTo(t, "using")
    /\ UNCHANGED <<connection, store, me, self, opens, faults>>

Used(t) ==
    /\ AnsweredAt(t, "using")
    /\ Take(t)
    /\ GoTo(t, "open")
    /\ UNCHANGED <<connection, store, me, self, bounds>>

Forget(tasks) ==
    /\ pc' = [t \in Tasks |-> IF t \in tasks THEN "closed" ELSE pc[t]]
    /\ me' = [t \in Tasks |-> IF t \in tasks THEN Nothing ELSE me[t]]
    /\ self' = [t \in Tasks |-> IF t \in tasks THEN Nothing ELSE self[t]]

Close(t) ==
    /\ pc[t] \in {"open", "failed", "refused"}
    /\ Forget({t})
    /\ UNCHANGED <<dbVars, bounds>>

-----------------------------------------------------------------------------
(* What goes wrong *)

Fault == faults < MaxFaults /\ faults' = faults + 1 /\ UNCHANGED <<opens, calls>>

CallFails(t) == Fail(t) /\ Fault /\ UNCHANGED clients

TaskPanics(t) == Panic(t) /\ Fault /\ Forget({t})

\* The caller drops the future, which waits for no call of the database.
Drop(t) ==
    /\ answer[t] # Nothing
    /\ Take(t)
    /\ Fault /\ Forget({t})
    /\ UNCHANGED <<connection, store>>

Crash(p) == ProcessEnds(p) /\ Fault /\ Forget({t \in Tasks : ProcessOf[t] = p})

Open(p) == OpenFile(p) /\ UNCHANGED <<clients, bounds>>

Run(t) == DbStep(t) /\ UNCHANGED <<clients, bounds>>

Go(t) == LoadHlc(t) \/ LookUp(t) \/ Identify(t) \/ Inserted(t) \/ Used(t)

Next ==
    \/ \E t \in Tasks :
          \/ Start(t) \/ Go(t) \/ Use(t) \/ Close(t)
          \/ Run(t) \/ CallFails(t) \/ TaskPanics(t) \/ Drop(t)
    \/ \E p \in Processes : Open(p) \/ Crash(p)

Spec == Init /\ [][Next]_vars

-----------------------------------------------------------------------------
(* Properties *)

(***************************************************************************)
(* A database is one peer's: every replica that is open on it has the id   *)
(* its first row of peers names, and was opened with the keys and for the  *)
(* application that id was made of - although two tasks may both have      *)
(* found no row and both have inserted theirs.                             *)
(***************************************************************************)
OneIdentity ==
    \A t \in Tasks : pc[t] \in {"open", "using"} =>
        \E p \in store.peers :
            p.id = SELF_DB_ID /\ p.entry = EntryOf(me[t]) /\ self[t] = p.entry.peer

(***************************************************************************)
(* The peer of a database is never turned away from it: new() refuses, for *)
(* another reason than an error of the database, only who is not the peer  *)
(* of its first row, and there is such a row.  No failure, crash or lost   *)
(* race before leaves the database without an owner.                       *)
(***************************************************************************)
RefusedForCause ==
    \A t \in Tasks : pc[t] = "refused" =>
        \E p \in store.peers : p.id = SELF_DB_ID /\ p.entry # EntryOf(me[t])

(***************************************************************************)
(* Calls of several tasks, batches that fail at any statement, panics,     *)
(* poisoned locks and crashes: each call is all or nothing at one instant, *)
(* and its counts are its own.                                             *)
(***************************************************************************)
ImplementsAtomicDb == Promise!Spec

=============================================================================
