------------------------- MODULE ReplicaInitProofs -------------------------
(***************************************************************************)
(* Whoever opens a database, how often, at the same time and with whatever *)
(* failures: it belongs to one peer (ReplicaInit).                         *)
(*                                                                         *)
(* The invariant says what a task may assume at each point of new(): that  *)
(* what it was told of the first row stays true, because rows of peers are *)
(* only ever added, and that the row it added is there.  A batch works on  *)
(* a copy of the database, so the copy must agree on the peers.            *)
(*                                                                         *)
(* And that the backend keeps its promise to run calls one at a time       *)
(* (AtomicDb): halfway through a batch, the copy and the results collected *)
(* are those of the statements run so far, in a row, on the store.         *)
(***************************************************************************)
EXTENDS ReplicaInit, WellFoundedInduction, TLAPS

-----------------------------------------------------------------------------
(* The database *)

Entries == {EntryOf(c) : c \in Credentials}

Names == {"peers", "streams", "segments", "hlc"}

Store == [tables : SUBSET Names, peers : SUBSET [id : Nat, entry : Entries],
          lastId : Nat, clock : Nat, segments : SUBSET Keys]

\* Ids and peer ids are unique, and the first row comes first.
PeersOk(db) ==
    /\ \A p \in db.peers : p.id \in 1 .. db.lastId
    /\ \A p, q \in db.peers : p.id = q.id \/ p.entry.peer = q.entry.peer => p = q
    /\ db.lastId > 0 => \E p \in db.peers : p.id = SELF_DB_ID

\* What a batch may consist of.
BatchStatements ==
    [is : {"create"}, table : Names]
        \cup [is : {"save_clock"}, table : {"hlc"}, ts : Clocks]
        \cup [is : {"insert_segment"}, table : {"segments"}, key : Keys]

DatabaseOk ==
    /\ store \in Store /\ work \in Store
    /\ PeersOk(store)
    /\ holder # Nothing => work.peers = store.peers /\ work.lastId = store.lastId
    /\ changes \in Nat
    /\ done \in Seq([count : Nat, rows : {<<>>}])

-----------------------------------------------------------------------------
(* The tasks *)

Places == {"closed", "schema", "clock", "self", "insert", "open", "using", "failed", "refused"}

MapsOk ==
    /\ pc \in [Tasks -> Places]
    /\ me \in [Tasks -> Credentials \cup {Nothing}]
    /\ self = [t \in Tasks |-> self[t]]
    /\ request = [t \in Tasks |-> request[t]]
    /\ answer = [t \in Tasks |-> answer[t]]

Batch(r) == r.mode = "batch" /\ r.statements \in Seq(BatchStatements)

\* What t has asked for.
Asked(t) ==
    \/ pc[t] = "schema" /\ Batch(request[t])
    \/ pc[t] = "clock" /\ request[t] = [mode |-> "query", statements |-> <<SelectClock>>]
    \/ pc[t] = "self" /\ request[t] = [mode |-> "query", statements |-> <<SelectSelf>>]
    \/ /\ pc[t] = "insert"
       /\ request[t] = [mode |-> "exec", statements |-> <<InsertPeer(EntryOf(me[t]))>>]
    \/ pc[t] = "using" /\ Batch(request[t])
    \/ /\ pc[t] = "using"
       /\ \E k \in Keys : request[t] = [mode |-> "query", statements |-> <<InsertSegment(k)>>]

\* What t was told is still so.
Told(t) ==
    /\ pc[t] = "self" =>
          \/ Rows(t) = <<>>
          \/ \E p \in store.peers : p.id = SELF_DB_ID /\ Rows(t) = <<p.entry>>
    /\ pc[t] = "insert" =>
          \E p \in store.peers : Rows(t) = <<p.id>> /\ p.entry = EntryOf(me[t])

Owner(t) ==
    \E p \in store.peers :
        p.id = SELF_DB_ID /\ p.entry = EntryOf(me[t]) /\ self[t] = p.entry.peer

Stranger(t) == \E p \in store.peers : p.id = SELF_DB_ID /\ p.entry # EntryOf(me[t])

TaskOk(t) ==
    /\ pc[t] # "closed" => me[t] \in Credentials
    /\ answer[t] # Nothing => request[t] = Nothing
    /\ request[t] # Nothing => Asked(t)
    /\ answer[t] # Nothing /\ answer[t].ok => Told(t)
    /\ pc[t] \in {"open", "using"} => Owner(t)
    /\ pc[t] = "refused" => Stranger(t)

IInv == DatabaseOk /\ MapsOk /\ \A t \in Tasks : TaskOk(t)

-----------------------------------------------------------------------------
(* Statements *)

LEMMA EmptyStoreOk == EmptyStore \in Store /\ PeersOk(EmptyStore)
  BY DEF EmptyStore, Store, PeersOk

\* No statement of a batch touches the peers.
LEMMA BatchStatement ==
    ASSUME NEW db \in Store, NEW s \in BatchStatements
    PROVE  /\ Ran(db, s).store \in Store
           /\ Ran(db, s).store.peers = db.peers
           /\ Ran(db, s).store.lastId = db.lastId
           /\ Ran(db, s).count \in Nat
           /\ Ran(db, s).rows = <<>>
<1> USE DEF Store, Done, Rejected
<1>1. CASE s \in [is : {"create"}, table : Names]
  <2>1. Ran(db, s) = Created(db, s)
    BY <1>1 DEF Ran
  <2> QED
    BY <1>1, <2>1 DEF Created
<1>2. CASE s \in [is : {"save_clock"}, table : {"hlc"}, ts : Clocks]
  <2>1. Ran(db, s) = Rejected(db) \/ Ran(db, s) = ClockSaved(db, s)
    BY <1>2 DEF Ran
  <2> QED
    BY <1>2, <2>1, ReplicaInitAssumption DEF ClockSaved
<1>3. CASE s \in [is : {"insert_segment"}, table : {"segments"}, key : Keys]
  <2>1. Ran(db, s) = Rejected(db) \/ Ran(db, s) = SegmentInserted(db, s)
    BY <1>3 DEF Ran
  <2> QED
    BY <1>3, <2>1 DEF SegmentInserted
<1> QED
  BY <1>1, <1>2, <1>3 DEF BatchStatements

\* A new row of peers is one more, with its own id and entry.
LEMMA PeerStatement ==
    ASSUME NEW db \in Store, PeersOk(db), NEW e \in Entries
    PROVE  LET ran == Ran(db, InsertPeer(e))
           IN  /\ ran.store \in Store
               /\ PeersOk(ran.store)
               /\ db.peers \subseteq ran.store.peers
               /\ ran.count \in Nat
               /\ ran.ok => \E p \in ran.store.peers : ran.rows = <<p.id>> /\ p.entry = e
<1> DEFINE s == InsertPeer(e)
           ran == Ran(db, s)
           row == [id |-> db.lastId + 1, entry |-> e]
           new == [db EXCEPT !.peers = @ \cup {row}, !.lastId = db.lastId + 1]
<1>1. s.entry = e /\ (ran = Rejected(db) \/ ran = PeerInserted(db, s))
  BY DEF Ran, InsertPeer
<1>2. CASE ran = Rejected(db)
  <2>1. ran.store = db /\ ran.count = 0 /\ ran.ok = FALSE
    BY <1>2 DEF Rejected
  <2> HIDE DEF ran
  <2> QED
    BY <2>1 DEF ran
<1>3. CASE PeerUnique(db, e) /\ ran = Done(new, 1, <<db.lastId + 1>>)
  <2>1. new \in Store /\ new.peers = db.peers \cup {row} /\ new.lastId = db.lastId + 1
    <3>1. db.lastId \in Nat /\ db.peers \in SUBSET [id : Nat, entry : Entries]
      BY DEF Store
    <3>2. row \in [id : Nat, entry : Entries] /\ db.lastId + 1 \in Nat
      BY <3>1
    <3>3. db.peers \cup {row} \in SUBSET [id : Nat, entry : Entries]
      BY <3>1, <3>2
    <3> HIDE DEF row
    <3> QED
      BY <3>2, <3>3 DEF Store
  <2>2. \A p \in new.peers : p.id \in 1 .. new.lastId
    BY <2>1 DEF PeersOk, Store
  <2>3. \A p \in db.peers : p.id # row.id /\ p.entry.peer # row.entry.peer
    BY <1>3 DEF PeersOk, Store, PeerUnique
  <2>4. \A p, q \in new.peers : p.id = q.id \/ p.entry.peer = q.entry.peer => p = q
    BY <2>1, <2>3 DEF PeersOk
  <2>5. \E p \in new.peers : p.id = SELF_DB_ID
    <3>1. CASE db.lastId = 0
      <4>1. row \in new.peers /\ row.id = 1
        BY <2>1, <3>1
      <4> QED
        BY <4>1 DEF SELF_DB_ID
    <3>2. CASE db.lastId # 0
      <4>1. db.lastId > 0
        BY <3>2 DEF Store
      <4>2. \E p \in db.peers : p.id = SELF_DB_ID
        BY <4>1 DEF PeersOk
      <4> QED
        BY <2>1, <4>2
    <3> QED
      BY <3>1, <3>2
  <2>6. PeersOk(new)
    BY <2>2, <2>4, <2>5 DEF PeersOk
  <2>7. /\ ran.store = new /\ ran.count = 1
        /\ ran.rows = <<row.id>> /\ row \in new.peers /\ row.entry = e
    BY <1>3, <2>1 DEF Done
  <2>8. db.peers \subseteq new.peers
    BY <2>1
  <2> HIDE DEF new, row, ran
  <2> QED
    BY <2>1, <2>6, <2>7, <2>8 DEF ran
<1>4. PeerUnique(db, e) => PeerInserted(db, s) = Done(new, 1, <<db.lastId + 1>>)
  BY <1>1 DEF PeerInserted
<1>5. ~PeerUnique(db, e) => PeerInserted(db, s) = Rejected(db)
  BY <1>1 DEF PeerInserted
<1> QED
  BY <1>1, <1>2, <1>3, <1>4, <1>5

\* Selecting changes nothing; what is found is the first row.
LEMMA SelectStatement ==
    ASSUME NEW db \in Store
    PROVE  /\ Ran(db, SelectSelf).store = db
           /\ Ran(db, SelectSelf).ok =>
                 \/ Ran(db, SelectSelf).rows = <<>>
                 \/ \E p \in db.peers : /\ p.id = SELF_DB_ID
                                        /\ Ran(db, SelectSelf).rows = <<p.entry>>
           /\ Ran(db, SelectClock).store = db
<1>1. Ran(db, SelectSelf) = Rejected(db) \/ Ran(db, SelectSelf) = SelfSelected(db)
  BY DEF Ran, SelectSelf
<1>2. Ran(db, SelectClock) = Rejected(db) \/ Ran(db, SelectClock) = ClockSelected(db)
  BY DEF Ran, SelectClock
<1>3. Rejected(db).store = db /\ ~Rejected(db).ok
  BY DEF Rejected
<1>4. ClockSelected(db).store = db /\ SelfSelected(db).store = db
  BY DEF ClockSelected, SelfSelected, Done
<1>5. \/ SelfSelected(db).rows = <<>>
      \/ \E p \in db.peers : p.id = SELF_DB_ID /\ SelfSelected(db).rows = <<p.entry>>
  BY DEF SelfSelected, Done
<1> QED
  BY <1>1, <1>2, <1>3, <1>4, <1>5

-----------------------------------------------------------------------------
(* Steps of one task *)

\* What the others see of a step of t: nothing but new rows of peers.
Only(t) ==
    /\ store.peers \subseteq store'.peers
    /\ \A u \in Tasks \ {t} :
          /\ pc'[u] = pc[u] /\ me'[u] = me[u] /\ self'[u] = self[u]
          /\ request'[u] = request[u] /\ answer'[u] = answer[u]

LEMMA MapExcept ==
    ASSUME NEW f, f = [u \in Tasks |-> f[u]], NEW t \in Tasks, NEW v,
           NEW g, g = [f EXCEPT ![t] = v]
    PROVE  /\ g = [u \in Tasks |-> g[u]]
           /\ g[t] = v
           /\ \A u \in Tasks \ {t} : g[u] = f[u]
  OBVIOUS

LEMMA TaskKept ==
    ASSUME NEW u \in Tasks, TaskOk(u), store.peers \subseteq store'.peers,
           pc'[u] = pc[u], me'[u] = me[u], self'[u] = self[u],
           request'[u] = request[u], answer'[u] = answer[u]
    PROVE  TaskOk(u)'
<1>1. Asked(u) => Asked(u)'
  BY DEF Asked, Batch
<1>2. Told(u) => Told(u)'
  BY DEF Told, Rows
<1>3. Owner(u) => Owner(u)'
  BY DEF Owner
<1>4. Stranger(u) => Stranger(u)'
  BY DEF Stranger
<1> QED
  BY <1>1, <1>2, <1>3, <1>4 DEF TaskOk

LEMMA OneTask ==
    ASSUME IInv, NEW t \in Tasks, Only(t), DatabaseOk', MapsOk', TaskOk(t)'
    PROVE  IInv'
<1>1. \A u \in Tasks \ {t} : TaskOk(u)'
  BY TaskKept DEF IInv, Only
<1> QED
  BY <1>1 DEF IInv

\* A step of a client leaves the database alone.
LEMMA ClientStep ==
    ASSUME IInv, UNCHANGED <<connection, store>>
    PROVE  DatabaseOk' /\ store.peers \subseteq store'.peers
  BY DEF IInv, DatabaseOk, connection, PeersOk

LEMMA AskDoes ==
    ASSUME MapsOk, NEW t \in Tasks, NEW mode, NEW statements, Ask(t, mode, statements)
    PROVE  /\ request' = [u \in Tasks |-> request'[u]]
           /\ answer' = [u \in Tasks |-> answer'[u]]
           /\ request'[t] = [mode |-> mode, statements |-> statements]
           /\ answer'[t] = Nothing
           /\ \A u \in Tasks \ {t} : request'[u] = request[u] /\ answer'[u] = answer[u]
  BY MapExcept DEF Ask, MapsOk

LEMMA TakeDoes ==
    ASSUME MapsOk, NEW t \in Tasks, Take(t)
    PROVE  /\ request' = [u \in Tasks |-> request'[u]]
           /\ answer' = [u \in Tasks |-> answer'[u]]
           /\ request' = request /\ answer'[t] = Nothing
           /\ \A u \in Tasks \ {t} : answer'[u] = answer[u]
  BY MapExcept DEF Take, MapsOk

LEMMA ReplyDoes ==
    ASSUME MapsOk, NEW t \in Tasks, NEW how, Reply(t, how)
    PROVE  /\ request' = [u \in Tasks |-> request'[u]]
           /\ answer' = [u \in Tasks |-> answer'[u]]
           /\ request'[t] = Nothing /\ answer'[t] = how
           /\ \A u \in Tasks \ {t} : request'[u] = request[u] /\ answer'[u] = answer[u]
  BY MapExcept DEF Reply, MapsOk

LEMMA GoToDoes ==
    ASSUME MapsOk, NEW t \in Tasks, NEW where \in Places, GoTo(t, where)
    PROVE  /\ pc' \in [Tasks -> Places]
           /\ pc'[t] = where
           /\ \A u \in Tasks \ {t} : pc'[u] = pc[u]
  BY DEF GoTo, MapsOk

-----------------------------------------------------------------------------
(* Replica::new() *)

LEMMA StartOk ==
    ASSUME IInv, NEW t \in Tasks, Start(t)
    PROVE  IInv'
<1>1. MapsOk /\ TaskOk(t)
  BY DEF IInv
<1>2. DatabaseOk' /\ store.peers \subseteq store'.peers
  BY ClientStep DEF Start
<1>3. PICK c \in Credentials : me' = [me EXCEPT ![t] = c]
  BY DEF Start
<1>4. /\ me' \in [Tasks -> Credentials \cup {Nothing}]
      /\ me'[t] \in Credentials
      /\ \A u \in Tasks \ {t} : me'[u] = me[u]
  BY <1>1, <1>3 DEF MapsOk
<1> DEFINE creates == [i \in DOMAIN TableNames |-> CreateTable(TableNames[i])]
<1>5. Ask(t, "batch", creates) /\ GoTo(t, "schema") /\ self' = self
  BY DEF Start
<1>6. creates \in Seq(BatchStatements)
  <2>1. TableNames \in Seq(Names) /\ Len(TableNames) = 4
    BY DEF TableNames, Names
  <2>2. \A name \in Names : CreateTable(name) \in BatchStatements
    BY DEF CreateTable, BatchStatements
  <2>3. DOMAIN TableNames = 1 .. 4 /\ \A i \in 1 .. 4 : TableNames[i] \in Names
    BY DEF TableNames, Names
  <2>4. creates \in [1 .. 4 -> BatchStatements]
    BY <2>2, <2>3
  <2> QED
    BY <2>4
<1> HIDE DEF creates
<1>7. /\ request' = [u \in Tasks |-> request'[u]]
      /\ answer' = [u \in Tasks |-> answer'[u]]
      /\ request'[t] = [mode |-> "batch", statements |-> creates]
      /\ answer'[t] = Nothing
      /\ \A u \in Tasks \ {t} : request'[u] = request[u] /\ answer'[u] = answer[u]
  BY <1>1, <1>5, AskDoes
<1>8. /\ pc' \in [Tasks -> Places]
      /\ pc'[t] = "schema"
      /\ \A u \in Tasks \ {t} : pc'[u] = pc[u]
  BY <1>1, <1>5, GoToDoes DEF Places
<1>9. MapsOk' /\ Only(t)
  BY <1>1, <1>2, <1>4, <1>5, <1>7, <1>8 DEF MapsOk, Only
<1>10. Batch(request'[t])
  BY <1>6, <1>7 DEF Batch
<1>11. Asked(t)'
  BY <1>8, <1>10 DEF Asked
<1>12. TaskOk(t)'
  BY <1>4, <1>7, <1>8, <1>11 DEF TaskOk
<1> QED
  BY <1>2, <1>9, <1>12, OneTask

\* A question after an answer.
LEMMA AskNext ==
    ASSUME IInv, NEW t \in Tasks, me[t] \in Credentials,
           NEW mode, NEW statements, NEW where \in Places \ {"closed", "open", "using", "refused"},
           Ask(t, mode, statements), GoTo(t, where),
           UNCHANGED <<connection, store, me, self>>,
           Asked(t)'
    PROVE  IInv'
<1>1. MapsOk
  BY DEF IInv
<1>2. DatabaseOk' /\ store.peers \subseteq store'.peers
  BY ClientStep
<1>3. MapsOk' /\ Only(t)
  BY <1>1, <1>2, AskDoes, GoToDoes DEF MapsOk, Only
<1>4. pc'[t] = where /\ answer'[t] = Nothing
  BY <1>1, AskDoes, GoToDoes
<1>5. TaskOk(t)'
  BY <1>4 DEF TaskOk
<1> QED
  BY <1>2, <1>3, <1>5, OneTask

\* An end of new().
LEMMA EndNext ==
    ASSUME IInv, NEW t \in Tasks, me[t] \in Credentials, request[t] = Nothing,
           NEW where \in {"open", "failed", "refused"},
           Take(t), GoTo(t, where),
           UNCHANGED <<connection, store, me>>,
           self' = [u \in Tasks |-> self'[u]],
           \A u \in Tasks \ {t} : self'[u] = self[u],
           where = "open" => Owner(t)',
           where = "refused" => Stranger(t)'
    PROVE  IInv'
<1>1. MapsOk /\ where \in Places
  BY DEF IInv, Places
<1>2. DatabaseOk' /\ store.peers \subseteq store'.peers
  BY ClientStep
<1>3. /\ pc' \in [Tasks -> Places]
      /\ \A u \in Tasks \ {t} : pc'[u] = pc[u] /\ answer'[u] = answer[u]
  BY <1>1, TakeDoes, GoToDoes
<1>6. MapsOk' /\ Only(t)
  BY <1>1, <1>2, <1>3, TakeDoes DEF MapsOk, Only
<1>4. pc'[t] = where /\ answer'[t] = Nothing /\ request'[t] = Nothing /\ me'[t] = me[t]
  BY <1>1, TakeDoes, GoToDoes
<1>5. TaskOk(t)'
  BY <1>4 DEF TaskOk
<1> QED
  BY <1>2, <1>6, <1>5, OneTask

\* Where a task that has an answer stands.
LEMMA AtAnswer ==
    ASSUME IInv, NEW t \in Tasks, NEW where \in Places \ {"closed"}, AnsweredAt(t, where)
    PROVE  /\ MapsOk /\ pc[t] = where /\ me[t] \in Credentials /\ request[t] = Nothing
           /\ answer[t].ok => Told(t)
  BY DEF IInv, TaskOk, AnsweredAt

LEMMA GivenUpOk ==
    ASSUME IInv, NEW t \in Tasks, NEW where \in Places \ {"closed"}, AnsweredAt(t, where),
           NEW how \in {"failed", "refused"}, GivenUp(t, how),
           UNCHANGED <<connection, store, me, bounds>>,
           how = "refused" => Stranger(t)
    PROVE  IInv'
<1>1. MapsOk /\ me[t] \in Credentials /\ request[t] = Nothing
  BY AtAnswer
<1>2. Take(t) /\ GoTo(t, how) /\ self' = self /\ store' = store /\ me' = me
  BY DEF GivenUp
<1>3. Stranger(t) => Stranger(t)'
  BY <1>2 DEF Stranger
<1>4. self' = [u \in Tasks |-> self'[u]]
  BY <1>1, <1>2 DEF MapsOk
<1> QED
  BY <1>1, <1>2, <1>3, <1>4, EndNext

LEMMA OpenedOk ==
    ASSUME IInv, NEW t \in Tasks, NEW where \in Places \ {"closed"}, AnsweredAt(t, where),
           NEW peer, Opened(t, peer),
           UNCHANGED <<connection, store, me, bounds>>,
           \E p \in store.peers :
               p.id = SELF_DB_ID /\ p.entry = EntryOf(me[t]) /\ peer = p.entry.peer
    PROVE  IInv'
<1>1. MapsOk /\ me[t] \in Credentials /\ request[t] = Nothing
  BY AtAnswer
<1>2. Take(t) /\ GoTo(t, "open") /\ self' = [self EXCEPT ![t] = peer]
  BY DEF Opened
<1>3. /\ self' = [u \in Tasks |-> self'[u]]
      /\ self'[t] = peer
      /\ \A u \in Tasks \ {t} : self'[u] = self[u]
  BY <1>1, <1>2, MapExcept DEF MapsOk
<1>4. Owner(t)'
  BY <1>3 DEF Owner
<1> QED
  BY <1>1, <1>2, <1>3, <1>4, EndNext

LEMMA LoadHlcOk ==
    ASSUME IInv, NEW t \in Tasks, LoadHlc(t)
    PROVE  IInv'
<1>1. AnsweredAt(t, "schema") /\ UNCHANGED <<connection, store, me, bounds>>
  BY DEF LoadHlc
<1>2. MapsOk /\ me[t] \in Credentials
  BY <1>1, AtAnswer DEF Places
<1>3. CASE GivenUp(t, "failed")
  BY <1>1, <1>3, GivenUpOk DEF Places
<1>4. CASE Ask(t, "query", <<SelectClock>>) /\ GoTo(t, "clock") /\ UNCHANGED self
  <2>1. Asked(t)'
    BY <1>2, <1>4, AskDoes, GoToDoes DEF Asked, Places
  <2> QED
    BY <1>1, <1>2, <1>4, <2>1, AskNext DEF Places
<1> QED
  BY <1>3, <1>4 DEF LoadHlc

LEMMA LookUpOk ==
    ASSUME IInv, NEW t \in Tasks, LookUp(t)
    PROVE  IInv'
<1>1. AnsweredAt(t, "clock") /\ UNCHANGED <<connection, store, me, bounds>>
  BY DEF LookUp
<1>2. MapsOk /\ me[t] \in Credentials
  BY <1>1, AtAnswer DEF Places
<1>3. CASE GivenUp(t, "failed")
  BY <1>1, <1>3, GivenUpOk DEF Places
<1>4. CASE Ask(t, "query", <<SelectSelf>>) /\ GoTo(t, "self") /\ UNCHANGED self
  <2>1. Asked(t)'
    BY <1>2, <1>4, AskDoes, GoToDoes DEF Asked, Places
  <2> QED
    BY <1>1, <1>2, <1>4, <2>1, AskNext DEF Places
<1> QED
  BY <1>3, <1>4 DEF LookUp

\* An entry is the caller's own iff it was made of the caller's credentials.
LEMMA OwnEntry ==
    ASSUME NEW t \in Tasks, me[t] \in Credentials, NEW e \in Entries
    PROVE  Own(t, e) <=> e = EntryOf(me[t])
<1>1. PICK c \in Credentials : e = EntryOf(c)
  BY DEF Entries
<1>2. Own(t, EntryOf(me[t]))
  BY DEF Own, Verifies, EntryOf, PeerId
<1>3. ASSUME Own(t, e) PROVE e = EntryOf(me[t])
  <2>1. /\ e.commitment = [sign |-> c.sign, wrap |-> c.wrap]
        /\ e.peer = [app |-> c.app, commitment |-> e.commitment]
    BY <1>1 DEF EntryOf, PeerId
  <2>2. c.sign = me[t].sign /\ c.wrap = me[t].wrap
    BY <1>3, <2>1 DEF Own
  <2>3. c.app = me[t].app
    BY <1>3, <2>1 DEF Own, Verifies, PeerId
  <2> QED
    BY <1>1, <2>2, <2>3 DEF EntryOf, PeerId
<1> QED
  BY <1>2, <1>3

LEMMA IdentifyOk ==
    ASSUME IInv, NEW t \in Tasks, Identify(t)
    PROVE  IInv'
<1>1. AnsweredAt(t, "self") /\ UNCHANGED <<connection, store, me, bounds>>
  BY DEF Identify
<1>2. /\ MapsOk /\ pc[t] = "self" /\ me[t] \in Credentials
      /\ answer[t].ok => Told(t)
  BY <1>1, AtAnswer DEF Places
<1>3. CASE GivenUp(t, "failed")
  BY <1>1, <1>3, GivenUpOk DEF Places
<1>4. CASE /\ Ask(t, "exec", <<InsertPeer(EntryOf(me[t]))>>)
           /\ GoTo(t, "insert") /\ UNCHANGED self
  <2>1. Asked(t)'
    BY <1>1, <1>2, <1>4, AskDoes, GoToDoes DEF Asked, Places
  <2> QED
    BY <1>1, <1>2, <1>4, <2>1, AskNext DEF Places
<1>5. CASE answer[t].ok /\ Rows(t) # <<>>
  <2>1. PICK p \in store.peers : p.id = SELF_DB_ID /\ Rows(t) = <<p.entry>>
    BY <1>2, <1>5 DEF Told
  <2>2. Rows(t)[1] = p.entry /\ p.entry \in Entries
    BY <2>1 DEF IInv, DatabaseOk, Store
  <2>3. CASE Own(t, p.entry) /\ Opened(t, p.entry.peer)
    BY <1>1, <1>2, <2>1, <2>2, <2>3, OwnEntry, OpenedOk DEF Places
  <2>4. CASE ~Own(t, p.entry) /\ GivenUp(t, "refused")
    <3>1. Stranger(t)
      BY <1>2, <2>1, <2>2, <2>4, OwnEntry DEF Stranger
    <3> QED
      BY <1>1, <2>4, <3>1, GivenUpOk DEF Places
  <2> QED
    BY <1>5, <2>2, <2>3, <2>4 DEF Identify
<1> QED
  BY <1>3, <1>4, <1>5 DEF Identify

\* Two rows of one peer there are not: who is not first is not the first row's.
LEMMA InsertedOk ==
    ASSUME IInv, NEW t \in Tasks, Inserted(t)
    PROVE  IInv'
<1>1. AnsweredAt(t, "insert") /\ UNCHANGED <<connection, store, me, bounds>>
  BY DEF Inserted
<1>2. /\ MapsOk /\ pc[t] = "insert" /\ me[t] \in Credentials
      /\ answer[t].ok => Told(t)
  BY <1>1, AtAnswer DEF Places
<1>3. CASE GivenUp(t, "failed")
  BY <1>1, <1>3, GivenUpOk DEF Places
<1>4. CASE answer[t].ok
  <2>1. PICK p \in store.peers : Rows(t) = <<p.id>> /\ p.entry = EntryOf(me[t])
    BY <1>2, <1>4 DEF Told
  <2>2. Rows(t)[1] = p.id
    BY <2>1
  <2>3. CASE p.id = SELF_DB_ID /\ Opened(t, EntryOf(me[t]).peer)
    BY <1>1, <2>1, <2>3, OpenedOk DEF Places
  <2>4. CASE p.id # SELF_DB_ID /\ GivenUp(t, "refused")
    <3>1. PeersOk(store) /\ store \in Store
      BY DEF IInv, DatabaseOk
    <3>2. store.lastId > 0
      BY <3>1 DEF PeersOk, Store
    <3>3. PICK q \in store.peers : q.id = SELF_DB_ID
      BY <3>1, <3>2 DEF PeersOk
    <3>4. q.entry.peer # p.entry.peer
      BY <2>4, <3>1, <3>3 DEF PeersOk
    <3>5. Stranger(t)
      BY <2>1, <3>3, <3>4 DEF Stranger
    <3> QED
      BY <1>1, <2>4, <3>5, GivenUpOk DEF Places
  <2> QED
    BY <1>4, <2>2, <2>3, <2>4 DEF Inserted
<1> QED
  BY <1>3, <1>4 DEF Inserted

-----------------------------------------------------------------------------
(* An open replica *)

LEMMA UseOk ==
    ASSUME IInv, NEW t \in Tasks, Use(t)
    PROVE  IInv'
<1>1. MapsOk /\ TaskOk(t) /\ pc[t] = "open"
  BY DEF IInv, Use
<1>2. /\ GoTo(t, "using") /\ UNCHANGED <<connection, store, me, self>>
  BY DEF Use
<1>3. DatabaseOk' /\ store.peers \subseteq store'.peers
  BY <1>2, ClientStep
<1>4. me'[t] \in Credentials /\ Owner(t)'
  BY <1>1, <1>2 DEF TaskOk, Owner
<1>5. /\ pc' \in [Tasks -> Places]
      /\ pc'[t] = "using"
      /\ \A u \in Tasks \ {t} : pc'[u] = pc[u]
  BY <1>1, <1>2, GoToDoes DEF Places
<1>6. ASSUME NEW mode, NEW statements, Ask(t, mode, statements),
             \/ mode = "batch" /\ statements \in Seq(BatchStatements)
             \/ mode = "query" /\ \E k \in Keys : statements = <<InsertSegment(k)>>
      PROVE  IInv'
  <2>1. /\ request' = [u \in Tasks |-> request'[u]]
        /\ answer' = [u \in Tasks |-> answer'[u]]
        /\ request'[t] = [mode |-> mode, statements |-> statements]
        /\ answer'[t] = Nothing
        /\ \A u \in Tasks \ {t} : request'[u] = request[u] /\ answer'[u] = answer[u]
    BY <1>1, <1>6, AskDoes
  <2>2. MapsOk' /\ Only(t)
    BY <1>1, <1>2, <1>3, <1>5, <2>1 DEF MapsOk, Only
  <2>3. Asked(t)'
    BY <1>5, <1>6, <2>1 DEF Asked, Batch
  <2>4. TaskOk(t)'
    BY <1>4, <1>5, <2>1, <2>3 DEF TaskOk
  <2> QED
    BY <1>3, <2>2, <2>4, OneTask
<1>7. ASSUME NEW ts \in Clocks, NEW k \in Keys
      PROVE  <<SaveClock(ts), InsertSegment(k)>> \in Seq(BatchStatements)
  <2>1. SaveClock(ts) \in BatchStatements /\ InsertSegment(k) \in BatchStatements
    BY DEF SaveClock, InsertSegment, BatchStatements
  <2> QED
    BY <2>1
<1>8. CASE \E ts \in Clocks, k \in Keys : Ask(t, "batch", <<SaveClock(ts), InsertSegment(k)>>)
  BY <1>6, <1>7, <1>8
<1>9. CASE \E k \in Keys : Ask(t, "query", <<InsertSegment(k)>>)
  BY <1>6, <1>9
<1> QED
  BY <1>8, <1>9 DEF Use

LEMMA UsedOk ==
    ASSUME IInv, NEW t \in Tasks, Used(t)
    PROVE  IInv'
<1>1. /\ AnsweredAt(t, "using") /\ Take(t) /\ GoTo(t, "open")
      /\ UNCHANGED <<connection, store, me, self>>
  BY DEF Used
<1>2. MapsOk /\ TaskOk(t) /\ pc[t] = "using"
  BY <1>1 DEF IInv, AnsweredAt
<1>3. me[t] \in Credentials /\ request[t] = Nothing /\ Owner(t)
  BY <1>1, <1>2 DEF TaskOk, AnsweredAt
<1>4. Owner(t)'
  BY <1>1, <1>3 DEF Owner
<1>5. self' = [u \in Tasks |-> self'[u]]
  BY <1>1, <1>2 DEF MapsOk
<1> QED
  BY <1>1, <1>3, <1>4, <1>5, EndNext

\* Who is forgotten starts over.
LEMMA ForgetDoes ==
    ASSUME MapsOk, NEW gone \in SUBSET Tasks, Forget(gone)
    PROVE  /\ pc' \in [Tasks -> Places]
           /\ me' \in [Tasks -> Credentials \cup {Nothing}]
           /\ self' = [t \in Tasks |-> self'[t]]
           /\ \A t \in gone : pc'[t] = "closed"
           /\ \A t \in Tasks \ gone : pc'[t] = pc[t] /\ me'[t] = me[t] /\ self'[t] = self[t]
  BY DEF Forget, MapsOk, Places

LEMMA ForgetOk ==
    ASSUME IInv, NEW gone \in SUBSET Tasks, Forget(gone), DatabaseOk',
           store' = store,
           request' = [t \in Tasks |-> request'[t]],
           answer' = [t \in Tasks |-> answer'[t]],
           \A t \in gone : request'[t] = Nothing,
           \A t \in Tasks \ gone : request'[t] = request[t] /\ answer'[t] = answer[t]
    PROVE  IInv'
<1>1. MapsOk
  BY DEF IInv
<1>2. MapsOk'
  BY <1>1, ForgetDoes DEF MapsOk
<1>3. ASSUME NEW t \in gone PROVE TaskOk(t)'
  <2>1. pc'[t] = "closed" /\ request'[t] = Nothing
    BY <1>1, ForgetDoes
  <2> QED
    BY <2>1 DEF TaskOk, Told
<1>4. ASSUME NEW t \in Tasks \ gone PROVE TaskOk(t)'
  <2>1. pc'[t] = pc[t] /\ me'[t] = me[t] /\ self'[t] = self[t]
    BY <1>1, ForgetDoes
  <2> QED
    BY <2>1, TaskKept DEF IInv
<1> QED
  BY <1>2, <1>3, <1>4 DEF IInv

LEMMA CloseOk ==
    ASSUME IInv, NEW t \in Tasks, Close(t)
    PROVE  IInv'
<1>1. MapsOk /\ TaskOk(t)
  BY DEF IInv
<1>2. /\ pc[t] \in {"open", "failed", "refused"} /\ Forget({t})
      /\ connection' = connection /\ store' = store /\ request' = request /\ answer' = answer
  BY DEF Close, dbVars
<1>3. request[t] = Nothing
  BY <1>1, <1>2 DEF TaskOk, Asked
<1>4. DatabaseOk'
  BY <1>2, ClientStep
<1> QED
  BY <1>1, <1>2, <1>3, <1>4, ForgetOk DEF MapsOk

LEMMA DropOk ==
    ASSUME IInv, NEW t \in Tasks, Drop(t)
    PROVE  IInv'
<1>1. MapsOk /\ TaskOk(t)
  BY DEF IInv
<1>2. /\ answer[t] # Nothing /\ Take(t) /\ Forget({t})
      /\ connection' = connection /\ store' = store
  BY DEF Drop
<1>3. request[t] = Nothing
  BY <1>1, <1>2 DEF TaskOk
<1>4. DatabaseOk'
  BY <1>2, ClientStep
<1>5. /\ request' = [u \in Tasks |-> request'[u]]
      /\ answer' = [u \in Tasks |-> answer'[u]]
      /\ request' = request
      /\ \A u \in Tasks \ {t} : answer'[u] = answer[u]
  BY <1>1, <1>2, TakeDoes
<1> QED
  BY <1>2, <1>3, <1>4, <1>5, ForgetOk

-----------------------------------------------------------------------------
(* The database *)

\* An answer to t: TaskOk(t) afterwards is what the answer has to say.
LEMMA ReplyOk ==
    ASSUME IInv, NEW t \in Tasks, NEW how, Reply(t, how), UNCHANGED clients,
           DatabaseOk', store.peers \subseteq store'.peers,
           how.ok => Told(t)'
    PROVE  IInv'
<1>1. MapsOk /\ TaskOk(t) /\ UNCHANGED <<pc, me, self>>
  BY DEF IInv, clients
<1>2. /\ request' = [u \in Tasks |-> request'[u]]
      /\ answer' = [u \in Tasks |-> answer'[u]]
      /\ request'[t] = Nothing /\ answer'[t] = how
      /\ \A u \in Tasks \ {t} : request'[u] = request[u] /\ answer'[u] = answer[u]
  BY <1>1, ReplyDoes
<1>3. MapsOk' /\ Only(t)
  BY <1>1, <1>2 DEF MapsOk, Only
<1>4. /\ pc[t] \in {"open", "using"} => Owner(t)'
      /\ pc[t] = "refused" => Stranger(t)'
  BY <1>1 DEF TaskOk, Owner, Stranger
<1>5. TaskOk(t)'
  BY <1>1, <1>2, <1>4 DEF TaskOk
<1> QED
  BY <1>3, <1>5, OneTask

LEMMA ErrorOk ==
    ASSUME IInv, NEW t \in Tasks, Reply(t, Error), UNCHANGED clients, DatabaseOk', store' = store
    PROVE  IInv'
<1>1. ~Error.ok
  BY DEF Error
<1> QED
  BY <1>1, ReplyOk

\* A transaction that ends without COMMIT leaves no trace.
LEMMA RollBackOk ==
    ASSUME IInv, RollBack, store' = store, changes' = changes
    PROVE  DatabaseOk'
<1>1. EmptyStore \in Store
  BY EmptyStoreOk
<1>2. <<>> \in Seq([count : Nat, rows : {<<>>}])
  OBVIOUS
<1> QED
  BY <1>1, <1>2 DEF RollBack, IInv, DatabaseOk, PeersOk

LEMMA ExecuteOk ==
    ASSUME IInv, NEW t \in Tasks, Execute(t), UNCHANGED clients
    PROVE  IInv'
<1> DEFINE s == request[t].statements[1]
           ran == Ran(store, s)
           how == Ok(<<ResultOf(s, ran)>>)
<1>1. /\ DatabaseOk /\ MapsOk /\ TaskOk(t)
      /\ store \in Store /\ PeersOk(store) /\ changes \in Nat
  BY DEF IInv, DatabaseOk
<1>2. /\ holder = Nothing /\ UNCHANGED <<holder, work, done>>
      /\ request[t] # Nothing /\ request[t].mode \in {"exec", "query"}
      /\ UNCHANGED <<pc, me, self>>
  BY DEF Execute, Called, clients
<1>3. ASSUME Reply(t, Error), UNCHANGED <<store, changes>>
      PROVE  IInv'
  <2>1. DatabaseOk'
    BY <1>1, <1>2, <1>3 DEF DatabaseOk, PeersOk
  <2> QED
    BY <1>3, <2>1, ErrorOk
<1>4. ASSUME ran.ok, ran.count \in Nat, ran.store \in Store, PeersOk(ran.store),
             store.peers \subseteq ran.store.peers,
             store' = ran.store, changes' = ChangesAfter(s, ran), Reply(t, how),
             Told(t)'
      PROVE  IInv'
  <2>1. changes' \in Nat
    BY <1>1, <1>4 DEF ChangesAfter
  <2>2. DatabaseOk'
    BY <1>1, <1>2, <1>4, <2>1 DEF DatabaseOk, PeersOk
  <2> QED
    BY <1>4, <2>2, ReplyOk
<1>5. \/ Reply(t, Error) /\ UNCHANGED <<store, changes>>
      \/ /\ ran.ok /\ ~(request[t].mode = "query" /\ ~ReadOnly(s))
         /\ store' = ran.store /\ changes' = ChangesAfter(s, ran) /\ Reply(t, how)
  BY DEF Execute
<1>6. how.results[1].rows = ran.rows
  BY DEF Ok, ResultOf
<1>7. Reply(t, how) => answer'[t] = how /\ Rows(t)' = ran.rows
  BY <1>1, <1>6, ReplyDoes DEF Rows
<1> HIDE DEF s, ran, how
<1>8. Asked(t)
  BY <1>1, <1>2 DEF TaskOk
<1>9. CASE pc[t] = "clock" /\ request[t] = [mode |-> "query", statements |-> <<SelectClock>>]
  <2>1. s = SelectClock /\ ran = Ran(store, SelectClock)
    BY <1>9 DEF s, ran
  <2>2. ran.store = store
    BY <1>1, <2>1, SelectStatement
  <2>3. Told(t)'
    BY <1>2, <1>9 DEF Told
  <2>4. ~IsDml(s)
    BY <2>1 DEF SelectClock, IsDml
  <2>5. DatabaseOk' \/ store' # ran.store \/ changes' # ChangesAfter(s, ran)
    BY <1>1, <1>2, <2>2, <2>4 DEF DatabaseOk, PeersOk, ChangesAfter
  <2> QED
    BY <1>3, <1>5, <2>2, <2>3, <2>5, ReplyOk
<1>10. CASE pc[t] = "self" /\ request[t] = [mode |-> "query", statements |-> <<SelectSelf>>]
  <2>1. s = SelectSelf /\ ran = Ran(store, SelectSelf)
    BY <1>10 DEF s, ran
  <2>2. /\ ran.store = store
        /\ ran.ok => \/ ran.rows = <<>>
                     \/ \E p \in store.peers : p.id = SELF_DB_ID /\ ran.rows = <<p.entry>>
    BY <1>1, <2>1, SelectStatement
  <2>3. ran.ok /\ Reply(t, how) /\ store' = ran.store => Told(t)'
    BY <1>2, <1>7, <1>10, <2>2 DEF Told
  <2>4. ~IsDml(s)
    BY <2>1 DEF SelectSelf, IsDml
  <2>5. DatabaseOk' \/ store' # ran.store \/ changes' # ChangesAfter(s, ran)
    BY <1>1, <1>2, <2>2, <2>4 DEF DatabaseOk, PeersOk, ChangesAfter
  <2> QED
    BY <1>3, <1>5, <2>2, <2>3, <2>5, ReplyOk
<1>11. CASE /\ pc[t] = "insert"
            /\ request[t] = [mode |-> "exec", statements |-> <<InsertPeer(EntryOf(me[t]))>>]
  <2>1. EntryOf(me[t]) \in Entries
    BY <1>1, <1>11 DEF TaskOk, Entries
  <2>2. s = InsertPeer(EntryOf(me[t])) /\ ran = Ran(store, InsertPeer(EntryOf(me[t])))
    BY <1>11 DEF s, ran
  <2>3. /\ ran.store \in Store /\ PeersOk(ran.store)
        /\ store.peers \subseteq ran.store.peers
        /\ ran.count \in Nat
        /\ ran.ok => \E p \in ran.store.peers :
                        ran.rows = <<p.id>> /\ p.entry = EntryOf(me[t])
    BY <1>1, <2>1, <2>2, PeerStatement
  <2>4. ran.ok /\ Reply(t, how) /\ store' = ran.store => Told(t)'
    BY <1>2, <1>7, <1>11, <2>3 DEF Told
  <2> QED
    BY <1>3, <1>4, <1>5, <2>3, <2>4
<1>12. CASE \E k \in Keys : request[t] = [mode |-> "query", statements |-> <<InsertSegment(k)>>]
  <2>1. request[t].mode = "query" /\ ~ReadOnly(s)
    BY <1>12 DEF s, InsertSegment, ReadOnly
  <2> QED
    BY <1>3, <1>5, <2>1
<1>13. ~Batch(request[t])
  BY <1>2 DEF Batch
<1> QED
  BY <1>8, <1>9, <1>10, <1>11, <1>12, <1>13 DEF Asked

\* A step that no task sees.
LEMMA QuietOk ==
    ASSUME IInv, DatabaseOk', UNCHANGED <<store, request, answer, clients>>
    PROVE  IInv'
<1>1. UNCHANGED <<pc, me, self>> /\ MapsOk
  BY DEF clients, IInv
<1>2. MapsOk'
  BY <1>1 DEF MapsOk
<1>3. \A t \in Tasks : TaskOk(t)'
  BY <1>1, TaskKept DEF IInv
<1> QED
  BY <1>2, <1>3 DEF IInv

LEMMA BeginOk ==
    ASSUME IInv, NEW t \in Tasks, Begin(t), UNCHANGED clients
    PROVE  IInv'
<1>1. DatabaseOk /\ UNCHANGED <<store, changes>>
  BY DEF IInv, Begin
<1>2. CASE Reply(t, Error) /\ UNCHANGED <<holder, work, done>>
  <2>1. DatabaseOk'
    BY <1>1, <1>2 DEF DatabaseOk, PeersOk
  <2> QED
    BY <1>1, <1>2, <2>1, ErrorOk
<1>3. CASE work' = store /\ done' = <<>> /\ UNCHANGED <<request, answer>>
  <2>1. <<>> \in Seq([count : Nat, rows : {<<>>}])
    OBVIOUS
  <2>2. DatabaseOk'
    BY <1>1, <1>3, <2>1 DEF DatabaseOk, PeersOk
  <2> QED
    BY <1>1, <1>3, <2>2, QuietOk
<1> QED
  BY <1>2, <1>3 DEF Begin

LEMMA StatementOk ==
    ASSUME IInv, NEW t \in Tasks, Statement(t), UNCHANGED clients
    PROVE  IInv'
<1> DEFINE s == Upcoming(t)
           ran == Ran(work, s)
<1>1. /\ DatabaseOk /\ TaskOk(t) /\ holder = t /\ holder # Nothing /\ store' = store
      /\ Called(t, {"batch"}) /\ Len(done) < Len(request[t].statements)
  BY SqliteDbAssumption DEF IInv, Statement
<1>2. Batch(request[t])
  <2>1. Asked(t)
    BY <1>1 DEF Called, TaskOk
  <2>2. request[t].mode = "batch"
    BY <1>1 DEF Called
  <2>3. \A statements : /\ request[t] # [mode |-> "query", statements |-> statements]
                       /\ request[t] # [mode |-> "exec", statements |-> statements]
    BY <2>2
  <2> QED
    BY <2>1, <2>3, Zenon DEF Asked
<1>3. s \in BatchStatements
  <2>1. Len(done) \in Nat
    BY <1>1 DEF DatabaseOk
  <2> QED
    BY <1>1, <1>2, <2>1 DEF Batch, Upcoming
<1>4. /\ ran.store \in Store
      /\ ran.store.peers = work.peers
      /\ ran.store.lastId = work.lastId
      /\ ran.count \in Nat
      /\ ran.rows = <<>>
  BY <1>1, <1>3, BatchStatement DEF DatabaseOk
<1>5. \/ /\ work' = ran.store /\ done' = Append(done, ResultOf(s, ran))
         /\ changes' = ChangesAfter(s, ran)
         /\ UNCHANGED <<holder, request, answer>>
      \/ RollBack /\ Reply(t, Error) /\ UNCHANGED changes
  BY DEF Statement
<1> HIDE DEF s, ran
<1>6. CASE /\ work' = ran.store /\ done' = Append(done, ResultOf(s, ran))
           /\ changes' = ChangesAfter(s, ran)
           /\ UNCHANGED <<holder, request, answer>>
  <2>1. ChangesAfter(s, ran) \in Nat
    BY <1>1, <1>4 DEF ChangesAfter, DatabaseOk
  <2>2. ResultOf(s, ran) \in [count : Nat, rows : {<<>>}]
    BY <1>4, <2>1 DEF ResultOf
  <2>3. done' \in Seq([count : Nat, rows : {<<>>}])
    BY <1>1, <1>6, <2>2 DEF DatabaseOk
  <2>4. DatabaseOk'
    BY <1>1, <1>4, <1>6, <2>1, <2>3 DEF DatabaseOk, PeersOk
  <2> QED
    BY <1>1, <1>6, <2>4, QuietOk
<1>7. CASE RollBack /\ Reply(t, Error) /\ UNCHANGED changes
  <2>1. DatabaseOk'
    BY <1>1, <1>7, RollBackOk
  <2> QED
    BY <1>1, <1>7, <2>1, ErrorOk
<1> QED
  BY <1>5, <1>6, <1>7

LEMMA CommitOk ==
    ASSUME IInv, NEW t \in Tasks, Commit(t), UNCHANGED clients
    PROVE  IInv'
<1>1. /\ DatabaseOk /\ TaskOk(t) /\ holder = t /\ holder # Nothing
      /\ Called(t, {"batch"})
      /\ store' = work /\ Reply(t, Ok(done)) /\ RollBack /\ UNCHANGED changes
  BY SqliteDbAssumption DEF IInv, Commit
<1>2. work.peers = store.peers /\ work.lastId = store.lastId
  BY <1>1 DEF DatabaseOk
<1>3. EmptyStore \in Store /\ <<>> \in Seq([count : Nat, rows : {<<>>}])
  BY EmptyStoreOk
<1>4. DatabaseOk'
  BY <1>1, <1>2, <1>3 DEF DatabaseOk, PeersOk, RollBack
<1>5. pc[t] \in {"schema", "using"}
  BY <1>1 DEF TaskOk, Asked, Called
<1>6. Told(t)'
  BY <1>5 DEF Told, clients
<1> QED
  BY <1>1, <1>2, <1>4, <1>6, ReplyOk

LEMMA FailOk ==
    ASSUME IInv, NEW t \in Tasks, Fail(t), UNCHANGED clients
    PROVE  IInv'
<1>1. Reply(t, Error) /\ RollBack /\ UNCHANGED <<store, changes>>
  BY DEF Fail
<1> QED
  BY <1>1, RollBackOk, ErrorOk

LEMMA TaskPanicsOk ==
    ASSUME IInv, NEW t \in Tasks, TaskPanics(t)
    PROVE  IInv'
<1>1. /\ MapsOk /\ RollBack /\ UNCHANGED <<store, changes, answer>> /\ Forget({t})
      /\ request' = [request EXCEPT ![t] = Nothing]
  BY DEF IInv, TaskPanics, Panic
<1>2. /\ request' = [u \in Tasks |-> request'[u]]
      /\ request'[t] = Nothing
      /\ \A u \in Tasks \ {t} : request'[u] = request[u]
  BY <1>1, MapExcept DEF MapsOk
<1>3. answer' = [u \in Tasks |-> answer'[u]]
  BY <1>1 DEF MapsOk
<1>4. DatabaseOk'
  BY <1>1, RollBackOk
<1> QED
  BY <1>1, <1>2, <1>3, <1>4, ForgetOk

LEMMA CrashOk ==
    ASSUME IInv, NEW p \in Processes, Crash(p)
    PROVE  IInv'
<1> DEFINE gone == {t \in Tasks : ProcessOf[t] = p}
<1>1. /\ RollBack /\ UNCHANGED <<store, changes>> /\ Forget(gone)
      /\ request' = [t \in Tasks |-> IF ProcessOf[t] = p THEN Nothing ELSE request[t]]
      /\ answer' = [t \in Tasks |-> IF ProcessOf[t] = p THEN Nothing ELSE answer[t]]
  BY DEF Crash, ProcessEnds
<1>2. /\ request' = [t \in Tasks |-> request'[t]]
      /\ answer' = [t \in Tasks |-> answer'[t]]
      /\ \A t \in gone : request'[t] = Nothing
      /\ \A t \in Tasks \ gone : request'[t] = request[t] /\ answer'[t] = answer[t]
  BY <1>1
<1>3. DatabaseOk'
  BY <1>1, RollBackOk
<1> HIDE DEF gone
<1>4. gone \in SUBSET Tasks
  BY DEF gone
<1> QED
  BY <1>1, <1>2, <1>3, <1>4, ForgetOk

LEMMA OpenOk ==
    ASSUME IInv, NEW p \in Processes, Open(p)
    PROVE  IInv'
<1>1. changes' = 0 /\ UNCHANGED <<store, holder, work, done, request, answer, clients>>
  BY DEF Open, OpenFile
<1>2. DatabaseOk'
  BY <1>1 DEF IInv, DatabaseOk, PeersOk
<1> QED
  BY <1>1, <1>2, QuietOk

-----------------------------------------------------------------------------
(* Theorems *)

LEMMA InitOk == Init => IInv
<1> SUFFICES ASSUME Init PROVE IInv
  OBVIOUS
<1> USE DEF Init, DbInit
<1>1. DatabaseOk
  <2>1. EmptyStore \in Store /\ PeersOk(EmptyStore) /\ <<>> \in Seq([count : Nat, rows : {<<>>}])
    BY EmptyStoreOk
  <2> QED
    BY <2>1 DEF DatabaseOk
<1>2. MapsOk
  BY DEF MapsOk, Places
<1>3. \A t \in Tasks : TaskOk(t)
  BY DEF TaskOk
<1> QED
  BY <1>1, <1>2, <1>3 DEF IInv

LEMMA NextOk == IInv /\ [Next]_vars => IInv'
<1> SUFFICES ASSUME IInv, [Next]_vars PROVE IInv'
  OBVIOUS
<1>1. ASSUME NEW t \in Tasks, Start(t) \/ Go(t) \/ Use(t) \/ Close(t) PROVE IInv'
  BY <1>1, StartOk, LoadHlcOk, LookUpOk, IdentifyOk, InsertedOk, UsedOk, UseOk, CloseOk DEF Go
<1>2. ASSUME NEW t \in Tasks, Run(t) PROVE IInv'
  BY <1>2, ExecuteOk, BeginOk, StatementOk, CommitOk DEF Run, DbStep
<1>3. ASSUME NEW t \in Tasks, CallFails(t) \/ TaskPanics(t) \/ Drop(t) PROVE IInv'
  BY <1>3, FailOk, TaskPanicsOk, DropOk DEF CallFails
<1>4. ASSUME NEW p \in Processes, Open(p) \/ Crash(p) PROVE IInv'
  BY <1>4, OpenOk, CrashOk
<1>5. CASE UNCHANGED vars
  <2>1. UNCHANGED <<connection, store, request, answer, clients>>
    BY <1>5 DEF vars, dbVars
  <2>2. DatabaseOk'
    BY <2>1, ClientStep
  <2> QED
    BY <2>1, <2>2, QuietOk
<1> QED
  BY <1>1, <1>2, <1>3, <1>4, <1>5 DEF Next

LEMMA AlwaysOk == Spec => []IInv
  BY InitOk, NextOk, PTL DEF Spec

(***************************************************************************)
(* Whatever the tasks, processes, credentials and failures: a replica that *)
(* is open is the peer of the database's first row.                        *)
(***************************************************************************)
THEOREM ReplicaInitOneIdentity == Spec => []OneIdentity
<1>1. IInv => OneIdentity
  BY DEF IInv, TaskOk, Owner, OneIdentity
<1> QED
  BY <1>1, AlwaysOk, PTL

(***************************************************************************)
(* new() refuses nobody but who is not the peer of the first row; to have  *)
(* lost the race for that row, or to have crashed before, is no cause.     *)
(***************************************************************************)
THEOREM ReplicaInitRefusedForCause == Spec => []RefusedForCause
<1>1. IInv => RefusedForCause
  BY DEF IInv, TaskOk, Stranger, RefusedForCause
<1> QED
  BY <1>1, AlwaysOk, PTL

-----------------------------------------------------------------------------
(* Statements one after the other *)

LEMMA ByInduction ==
    ASSUME NEW S, 0 \in S, \A n \in Nat : n \in S => n + 1 \in S
    PROVE  Nat \subseteq S
<1> DEFINE Left == Nat \ S
           Less == OpToRel(<, Nat)
<1> SUFFICES ASSUME Left # {} PROVE FALSE
  OBVIOUS
<1>1. \A m, k \in Nat : m < k => <<m, k>> \in Less
  BY DEF OpToRel
<1>2. PICK n \in Left : \A m \in Left : <<m, n>> \notin Less
  <2> HIDE DEF Left
  <2>1. Left \subseteq Nat
    BY DEF Left
  <2> QED
    BY <2>1, NatLessThanWellFounded, WFMin
<1> HIDE DEF Less
<1>3. n \in Nat /\ n # 0 /\ n - 1 \in Nat /\ n - 1 < n
  OBVIOUS
<1>4. n - 1 \in S
  BY <1>1, <1>2, <1>3
<1>5. (n - 1) + 1 \in S
  BY <1>3, <1>4
<1> QED
  BY <1>3, <1>5

\* What RanFirst is defined by has a solution.
LEMMA RanFirstIs ==
    ASSUME NEW db, NEW statements, Len(statements) \in Nat
    PROVE  /\ Promise!RanFirst(db, statements)[0] = [ok |-> TRUE, store |-> db, results |-> <<>>]
           /\ \A n \in 1 .. Len(statements) :
                 Promise!RanFirst(db, statements)[n] =
                    Promise!RanNext(Promise!RanFirst(db, statements)[n - 1], statements[n])
<1> DEFINE base == [ok |-> TRUE, store |-> db, results |-> <<>>]
           Body(g, n) == IF n = 0 THEN base ELSE Promise!RanNext(g[n - 1], statements[n])
           Solves(g, m) == g = [n \in 0 .. m |-> Body(g, n)]
           S == {m \in Nat : \E g : Solves(g, m)}
<1> HIDE DEF base
<1>1. 0 \in S
  <2> DEFINE g == [n \in 0 .. 0 |-> base]
  <2>1. Solves(g, 0)
    OBVIOUS
  <2> QED
    BY <2>1
<1>2. ASSUME NEW m \in Nat, m \in S PROVE m + 1 \in S
  <2>1. PICK g : Solves(g, m)
    BY <1>2
  <2> DEFINE last == Promise!RanNext(g[m], statements[m + 1])
             h == [n \in 0 .. m + 1 |-> IF n = m + 1 THEN last ELSE g[n]]
  <2> HIDE DEF last
  <2>2. \A n \in 0 .. m + 1 : n # 0 => h[n - 1] = g[n - 1]
    OBVIOUS
  <2>3. \A n \in 0 .. m : g[n] = Body(g, n)
    BY <2>1
  <2>4. \A n \in 0 .. m + 1 : h[n] = Body(h, n)
    <3> SUFFICES ASSUME NEW n \in 0 .. m + 1 PROVE h[n] = Body(h, n)
      OBVIOUS
    <3>1. CASE n = m + 1
      BY <2>2, <3>1 DEF last
    <3>2. CASE n # m + 1
      <4>1. n \in 0 .. m /\ h[n] = g[n]
        BY <3>2
      <4> QED
        BY <2>2, <2>3, <4>1
    <3> QED
      BY <3>1, <3>2
  <2>5. Solves(h, m + 1)
    <3>1. h = [n \in 0 .. m + 1 |-> h[n]]
      OBVIOUS
    <3> HIDE DEF h
    <3> QED
      BY <2>4, <3>1
  <2> HIDE DEF h, Solves
  <2> QED
    BY <2>5
<1>3. Len(statements) \in S
  <2> HIDE DEF S
  <2> QED
    BY <1>1, <1>2, ByInduction
<1> DEFINE first == Promise!RanFirst(db, statements)
<1>4. first = CHOOSE g : Solves(g, Len(statements))
  BY DEF Promise!RanFirst, base
<1>5. Solves(first, Len(statements))
  <2> HIDE DEF first, Solves
  <2>1. \E g : Solves(g, Len(statements))
    BY <1>3
  <2> QED
    BY <1>4, <2>1
<1>6. \A n \in 0 .. Len(statements) : first[n] = Body(first, n)
  <2> HIDE DEF first
  <2> QED
    BY <1>5
<1>7. first[0] = base
  BY <1>6
<1>8. \A n \in 1 .. Len(statements) : first[n] = Promise!RanNext(first[n - 1], statements[n])
  <2> HIDE DEF first
  <2> QED
    BY <1>6
<1> QED
  BY <1>7, <1>8 DEF base

-----------------------------------------------------------------------------
(* The promise's statements are these *)

LEMMA SameStatements ==
    /\ \A db, s : Promise!Ran(db, s) = Ran(db, s)
    /\ \A s : Promise!IsDml(s) <=> IsDml(s)
    /\ \A s : Promise!ReadOnly(s) <=> ReadOnly(s)
    /\ Promise!EmptyStore = EmptyStore
    /\ Promise!Nothing = Nothing
<1>1. ASSUME NEW db PROVE Promise!Rejected(db) = Rejected(db)
  BY DEF Promise!Rejected, Rejected
<1>2. ASSUME NEW db, NEW n, NEW rows PROVE Promise!Done(db, n, rows) = Done(db, n, rows)
  BY DEF Promise!Done, Done
<1>3. ASSUME NEW db, NEW s PROVE Promise!Created(db, s) = Created(db, s)
  BY <1>2 DEF Promise!Created, Created
<1>4. ASSUME NEW db PROVE Promise!SelfSelected(db) = SelfSelected(db)
  BY <1>2 DEF Promise!SelfSelected, SelfSelected, Promise!SELF_DB_ID, SELF_DB_ID
<1>5. ASSUME NEW db, NEW s PROVE Promise!PeerInserted(db, s) = PeerInserted(db, s)
  BY <1>1, <1>2 DEF Promise!PeerInserted, PeerInserted, Promise!PeerUnique, PeerUnique
<1>6. ASSUME NEW db, NEW s PROVE Promise!ClockSaved(db, s) = ClockSaved(db, s)
  BY <1>2 DEF Promise!ClockSaved, ClockSaved
<1>7. ASSUME NEW db, NEW s PROVE Promise!SegmentInserted(db, s) = SegmentInserted(db, s)
  BY <1>1, <1>2 DEF Promise!SegmentInserted, SegmentInserted
<1>8. ASSUME NEW db PROVE Promise!ClockSelected(db) = ClockSelected(db)
  BY <1>2 DEF Promise!ClockSelected, ClockSelected
<1>9. ASSUME NEW db, NEW s PROVE Promise!Ran(db, s) = Ran(db, s)
  BY <1>1, <1>3, <1>4, <1>5, <1>6, <1>7, <1>8 DEF Promise!Ran, Ran
<1>10. /\ \A s : Promise!IsDml(s) <=> IsDml(s)
       /\ \A s : Promise!ReadOnly(s) <=> ReadOnly(s)
       /\ Promise!EmptyStore = EmptyStore
       /\ Promise!Nothing = Nothing
  BY DEF Promise!IsDml, IsDml, Promise!ReadOnly, ReadOnly, Promise!EmptyStore, EmptyStore,
         Promise!Nothing, Nothing
<1> QED
  BY <1>9, <1>10

\* One more statement that is not rejected.
LEMMA RanNextIs ==
    ASSUME NEW acc, acc.ok, NEW s
    PROVE  /\ Ran(acc.store, s).ok =>
                 Promise!RanNext(acc, s) =
                    [ok |-> TRUE, store |-> Ran(acc.store, s).store,
                     results |-> Append(acc.results, [count |-> Ran(acc.store, s).count,
                                                      rows |-> Ran(acc.store, s).rows])]
  BY SameStatements DEF Promise!RanNext

-----------------------------------------------------------------------------
(* What is asked *)

LEMMA WhatIsAsked ==
    ASSUME IInv, NEW t \in Tasks, request[t] # Nothing
    PROVE  \/ Batch(request[t])
           \/ \E s : \E mode \in {"exec", "query"} : request[t] = [mode |-> mode, statements |-> <<s>>]
<1>1. Asked(t)
  BY DEF IInv, TaskOk
<1> QED
  BY <1>1 DEF Asked

LEMMA BatchAsked ==
    ASSUME IInv, NEW t \in Tasks, Called(t, {"batch"})
    PROVE  request[t].statements \in Seq(BatchStatements)
<1>1. request[t] # Nothing /\ request[t].mode = "batch"
  BY DEF Called
<1>2. CASE Batch(request[t])
  BY <1>2 DEF Batch
<1>3. ASSUME NEW s, NEW mode \in {"exec", "query"},
             request[t] = [mode |-> mode, statements |-> <<s>>]
      PROVE  FALSE
  BY <1>1, <1>3
<1> QED
  BY <1>1, <1>2, <1>3, WhatIsAsked

LEMMA SingleAsked ==
    ASSUME IInv, NEW t \in Tasks, Called(t, {"exec", "query"})
    PROVE  \E s : request[t].statements = <<s>>
<1>1. request[t] # Nothing /\ request[t].mode # "batch"
  BY DEF Called
<1>2. CASE Batch(request[t])
  BY <1>1, <1>2 DEF Batch
<1>3. ASSUME NEW s, NEW mode \in {"exec", "query"},
             request[t] = [mode |-> mode, statements |-> <<s>>]
      PROVE  request[t].statements = <<s>>
  BY <1>3
<1> QED
  BY <1>1, <1>2, <1>3, WhatIsAsked

-----------------------------------------------------------------------------
(* A batch that is running *)

Results == [count : Nat, rows : {<<>>}]

\* The first statements of the batch have given these results.
GaveResults(statements, ran, results) ==
    /\ ran.results \in Seq(Results) /\ Len(ran.results) = Len(results)
    /\ \A i \in 1 .. Len(results) :
          IsDml(statements[i]) => results[i].count = ran.results[i].count

\* The batch has come as far as its first statements go, from what is
\* committed, which nobody changes meanwhile.
Halfway(t) ==
    LET statements == request[t].statements
        ran == Promise!RanFirst(store, statements)[Len(done)]
    IN  /\ Called(t, {"batch"})
        /\ Len(done) <= Len(statements)
        /\ ran.ok /\ ran.store = work
        /\ GaveResults(statements, ran, done)

BatchOk == holder # Nothing => holder \in Tasks /\ Halfway(holder)

LEMMA BatchUndone ==
    ASSUME holder' = Nothing
    PROVE  BatchOk'
  BY DEF BatchOk

LEMMA BatchKept ==
    ASSUME IInv, BatchOk, UNCHANGED <<store, holder, work, done>>,
           \A u \in Tasks : request[u] # Nothing => request'[u] = request[u]
    PROVE  BatchOk'
<1> SUFFICES ASSUME holder' # Nothing PROVE holder' \in Tasks /\ Halfway(holder)'
  BY DEF BatchOk
<1>1. PICK t \in Tasks : t = holder /\ Halfway(t)
  BY DEF BatchOk
<1>2. request'[t] = request[t]
  BY <1>1 DEF Halfway, Called
<1>3. Halfway(t)'
  BY <1>1, <1>2 DEF Halfway, Called
<1> QED
  BY <1>1, <1>3 DEF Halfway, Called

\* A step of a task that is waiting for no call of the database.
LEMMA BatchOfAnother ==
    ASSUME IInv, BatchOk, UNCHANGED <<connection, store>>, NEW t \in Tasks,
           request[t] = Nothing, \A u \in Tasks \ {t} : request'[u] = request[u]
    PROVE  BatchOk'
  BY BatchKept DEF connection

LEMMA BeginBatch ==
    ASSUME IInv, NEW t \in Tasks, Begin(t)
    PROVE  BatchOk'
<1>1. CASE poisoned
  BY <1>1, BatchUndone DEF Begin
<1>2. CASE ~poisoned
  <2>1. /\ holder' = t /\ work' = store /\ done' = <<>> /\ store' = store
        /\ request' = request /\ Called(t, {"batch"})
    BY <1>2 DEF Begin
  <2> DEFINE statements == request[t].statements
  <2>2. Len(statements) \in Nat
    BY <2>1, BatchAsked
  <2>3. Promise!RanFirst(store, statements)[0] = [ok |-> TRUE, store |-> store, results |-> <<>>]
    BY <2>2, RanFirstIs
  <2>4. <<>> \in Seq(Results) /\ Len(<<>>) = 0
    OBVIOUS
  <2>5. GaveResults(statements, Promise!RanFirst(store, statements)[0], <<>>)
    BY <2>3, <2>4 DEF GaveResults
  <2>6. Halfway(t)'
    <3>1. Called(t, {"batch"})'
      BY <2>1 DEF Called
    <3>2. request'[t].statements = statements /\ Len(done') = 0
      BY <2>1, <2>4
    <3>3. Promise!RanFirst(store', statements)[Len(done')] = Promise!RanFirst(store, statements)[0]
      BY <2>1, <3>2
    <3> HIDE DEF statements
    <3> QED
      BY <2>1, <2>2, <2>3, <2>5, <3>1, <3>2, <3>3 DEF Halfway
  <2> QED
    BY <2>1, <2>6 DEF BatchOk
<1> QED
  BY <1>1, <1>2

LEMMA StatementBatch ==
    ASSUME IInv, BatchOk, NEW t \in Tasks, Statement(t)
    PROVE  BatchOk'
<1> DEFINE statements == request[t].statements
           s == Upcoming(t)
           n == Len(done)
           ran == Ran(work, s)
           before == Promise!RanFirst(store, statements)[n]
           after == Promise!RanFirst(store, statements)[n + 1]
<1>1. CASE ~ran.ok
  BY <1>1, BatchUndone DEF Statement, RollBack
<1>2. CASE ran.ok
  <2>1. /\ work' = ran.store /\ done' = Append(done, ResultOf(s, ran))
        /\ Called(t, {"batch"}) /\ holder = t /\ n < Len(statements)
        /\ UNCHANGED <<holder, request, store>>
    BY <1>2 DEF Statement
  <2>2. /\ statements \in Seq(BatchStatements) /\ Len(statements) \in Nat
        /\ done \in Seq(Results) /\ n \in Nat /\ work \in Store /\ changes \in Nat
    BY <2>1, BatchAsked DEF IInv, DatabaseOk, Results
  <2>3. s = statements[n + 1] /\ s \in BatchStatements /\ n + 1 \in 1 .. Len(statements)
    BY <2>1, <2>2 DEF Upcoming
  <2>4. Halfway(t)
    BY <2>1, SqliteDbAssumption DEF BatchOk
  <2>5. /\ before.ok /\ before.store = work /\ GaveResults(statements, before, done)
    BY <2>4 DEF Halfway
  <2> DEFINE given == [count |-> ran.count, rows |-> ran.rows]
  <2>6. given \in Results
    BY <2>2, <2>3, BatchStatement DEF Results
  <2>7. after = Promise!RanNext(before, s)
    <3> HIDE DEF n, statements
    <3>1. \A i \in 1 .. Len(statements) :
             Promise!RanFirst(store, statements)[i] =
                Promise!RanNext(Promise!RanFirst(store, statements)[i - 1], statements[i])
      BY <2>2, RanFirstIs
    <3>2. (n + 1) - 1 = n
      BY <2>2
    <3> QED
      BY <2>3, <3>1, <3>2
  <2>8. after = [ok |-> TRUE, store |-> ran.store, results |-> Append(before.results, given)]
    BY <1>2, <2>5, <2>7, RanNextIs
  <2> HIDE DEF given, before, after, ran, s, statements
  <2>9. IsDml(s) => ResultOf(s, ran).count = given.count
    BY DEF ResultOf, ChangesAfter, given
  <2>10. /\ Len(done') = n + 1 /\ done'[n + 1] = ResultOf(s, ran)
         /\ \A i \in 1 .. n : done'[i] = done[i]
    BY <2>1, <2>2
  <2>11. /\ before.results \in Seq(Results) /\ Len(before.results) = n
         /\ \A i \in 1 .. n : IsDml(statements[i]) => done[i].count = before.results[i].count
    BY <2>5 DEF GaveResults
  <2>12. /\ after.results \in Seq(Results) /\ Len(after.results) = n + 1
         /\ after.results[n + 1] = given
         /\ \A i \in 1 .. n : after.results[i] = before.results[i]
    BY <2>2, <2>6, <2>8, <2>11
  <2>13. GaveResults(statements, after, done')
    <3>1. \A i \in 1 .. n + 1 : i = n + 1 \/ i \in 1 .. n
      BY <2>2
    <3> QED
      BY <2>3, <2>9, <2>10, <2>11, <2>12, <3>1 DEF GaveResults
  <2>14. after.ok /\ after.store = work'
    BY <2>1, <2>8
  <2>15. n + 1 <= Len(statements)
    BY <2>1, <2>2
  <2>16. Halfway(t)'
    BY <2>1, <2>10, <2>13, <2>14, <2>15 DEF Halfway, Called, after, statements, GaveResults
  <2> QED
    BY <2>1, <2>16 DEF BatchOk
<1> QED
  BY <1>1, <1>2

-----------------------------------------------------------------------------
(* Every step is one of the promise, or none *)

PromiseStep == [Promise!Next]_(Promise!vars)

LEMMA Stutters ==
    ASSUME UNCHANGED <<store, request, answer>>
    PROVE  PromiseStep
  BY DEF PromiseStep, Promise!vars

\* A task takes its answer, and may make a call.
LEMMA Proceeds ==
    ASSUME NEW t \in Tasks, request[t] = Nothing, store' = store,
           answer' = [answer EXCEPT ![t] = Nothing],
           \/ request' = request
           \/ \E call : request' = [request EXCEPT ![t] = call],
           MapsOk
    PROVE  PromiseStep
<1>1. request' = request \/ request' = [request EXCEPT ![t] = request'[t]]
  BY DEF MapsOk
<1>2. Promise!Proceed(t)
  BY <1>1, SameStatements DEF Promise!Proceed
<1> QED
  BY <1>2 DEF Promise!Next, PromiseStep

LEMMA AnsweredIs ==
    ASSUME NEW t \in Tasks, MapsOk, request[t] # Nothing, NEW how, how # Nothing, Reply(t, how)
    PROVE  Promise!Answered(t) /\ answer'[t] = how
<1>1. answer'[t] = how
  BY DEF Reply, MapsOk
<1> QED
  BY <1>1, SameStatements DEF Promise!Answered, Reply

LEMMA Refuses ==
    ASSUME NEW t \in Tasks, MapsOk, request[t] # Nothing, Reply(t, Error), store' = store
    PROVE  PromiseStep
<1>1. Error # Nothing /\ ~Error.ok
  BY DEF Error, Nothing
<1>2. Promise!Refuse(t)
  BY <1>1, AnsweredIs DEF Promise!Refuse
<1> QED
  BY <1>2 DEF Promise!Next, PromiseStep

LEMMA Loses ==
    ASSUME NEW gone \in SUBSET Tasks,
           request' = [t \in Tasks |-> IF t \in gone THEN Nothing ELSE request[t]],
           answer' = [t \in Tasks |-> IF t \in gone THEN Nothing ELSE answer[t]],
           store' = store
    PROVE  PromiseStep
<1>1. Promise!Lose(gone)
  BY SameStatements DEF Promise!Lose
<1> QED
  BY <1>1 DEF Promise!Next, PromiseStep

\* All the statements of a call have run, and these are the results.
LEMMA Applies ==
    ASSUME NEW t \in Tasks, MapsOk, request[t] # Nothing, NEW results,
           Reply(t, Ok(results)),
           NEW statements, statements = request[t].statements, Len(statements) \in Nat,
           DOMAIN statements = 1 .. Len(statements),
           request[t].mode = "query" => \A i \in DOMAIN statements : ReadOnly(statements[i]),
           NEW ran, ran = Promise!RanFirst(store, statements)[Len(statements)],
           ran.ok, store' = ran.store, DOMAIN results = DOMAIN statements,
           \A i \in DOMAIN statements :
              /\ results[i].rows = ran.results[i].rows
              /\ IsDml(statements[i]) => results[i].count = ran.results[i].count
    PROVE  PromiseStep
<1>1. Ok(results) # Nothing /\ Ok(results).ok /\ Ok(results).results = results
  BY DEF Ok, Nothing
<1>2. Promise!Answered(t) /\ answer'[t] = Ok(results)
  BY <1>1, AnsweredIs
<1>3. Promise!RanAll(store, statements) = ran
  BY DEF Promise!RanAll
<1>4. Promise!Apply(t)
  BY <1>1, <1>2, <1>3, SameStatements DEF Promise!Apply
<1> QED
  BY <1>4 DEF Promise!Next, PromiseStep

\* What a task does with an answer, or without one.
LEMMA ClientProceeds ==
    ASSUME IInv, BatchOk, NEW t \in Tasks, request[t] = Nothing, UNCHANGED <<connection, store>>,
           Take(t) \/ \E mode, statements : Ask(t, mode, statements)
    PROVE  PromiseStep /\ BatchOk'
<1>1. MapsOk
  BY DEF IInv
<1>2. CASE Take(t)
  <2>1. PromiseStep
    BY <1>1, <1>2, Proceeds DEF Take
  <2>2. request' = request
    BY <1>2 DEF Take
  <2> QED
    BY <2>1, <2>2, BatchOfAnother
<1>3. ASSUME NEW mode, NEW statements, Ask(t, mode, statements) PROVE PromiseStep /\ BatchOk'
  <2>1. PromiseStep
    BY <1>1, <1>3, Proceeds DEF Ask
  <2>2. \A u \in Tasks \ {t} : request'[u] = request[u]
    BY <1>1, <1>3, AskDoes
  <2> QED
    BY <2>1, <2>2, BatchOfAnother
<1> QED
  BY <1>2, <1>3

LEMMA ClientSteps ==
    ASSUME IInv, BatchOk, NEW t \in Tasks,
           Start(t) \/ Go(t) \/ Use(t) \/ Close(t) \/ Drop(t)
    PROVE  PromiseStep /\ BatchOk'
<1>1. TaskOk(t)
  BY DEF IInv
<1>2. ASSUME NEW where, AnsweredAt(t, where) PROVE request[t] = Nothing
  BY <1>1, <1>2 DEF TaskOk, AnsweredAt
<1>3. CASE Start(t)
  <2>1. request[t] = Nothing
    BY <1>1, <1>3 DEF TaskOk, Asked, Start
  <2> QED
    BY <1>3, <2>1, ClientProceeds DEF Start
<1>4. CASE LoadHlc(t)
  BY <1>2, <1>4, ClientProceeds DEF LoadHlc, GivenUp
<1>5. CASE LookUp(t)
  BY <1>2, <1>5, ClientProceeds DEF LookUp, GivenUp
<1>6. CASE Identify(t)
  BY <1>2, <1>6, ClientProceeds DEF Identify, GivenUp, Opened
<1>7. CASE Inserted(t)
  BY <1>2, <1>7, ClientProceeds DEF Inserted, GivenUp, Opened
<1>8. CASE Used(t)
  BY <1>2, <1>8, ClientProceeds DEF Used
<1>9. CASE Use(t)
  <2>1. request[t] = Nothing
    BY <1>1, <1>9 DEF TaskOk, Asked, Use
  <2>2. \E mode, statements : Ask(t, mode, statements)
    BY <1>9 DEF Use
  <2>3. UNCHANGED <<connection, store>>
    BY <1>9 DEF Use
  <2> QED
    BY <2>1, <2>2, <2>3, ClientProceeds
<1>10. CASE Close(t)
  <2>1. UNCHANGED <<connection, store, request, answer>>
    BY <1>10 DEF Close, dbVars
  <2> QED
    BY <2>1, Stutters, BatchKept DEF connection
<1>11. CASE Drop(t)
  <2>1. request[t] = Nothing
    BY <1>1, <1>11 DEF TaskOk, Drop
  <2> QED
    BY <1>11, <2>1, ClientProceeds DEF Drop
<1> QED
  BY <1>3, <1>4, <1>5, <1>6, <1>7, <1>8, <1>9, <1>10, <1>11 DEF Go

\* One statement, run by itself.
LEMMA RanAlone ==
    ASSUME NEW db, NEW statements, NEW s, Len(statements) = 1, statements[1] = s
    PROVE  Promise!RanFirst(db, statements)[1] =
              Promise!RanNext([ok |-> TRUE, store |-> db, results |-> <<>>], s)
<1> DEFINE F == Promise!RanFirst(db, statements)
<1>1. Len(statements) \in Nat
  OBVIOUS
<1>2. /\ F[0] = [ok |-> TRUE, store |-> db, results |-> <<>>]
      /\ \A n \in 1 .. Len(statements) : F[n] = Promise!RanNext(F[n - 1], statements[n])
  BY <1>1, RanFirstIs
<1> HIDE DEF F
<1>3. 1 \in 1 .. Len(statements) /\ 1 - 1 = 0
  OBVIOUS
<1>4. F[1] = Promise!RanNext(F[1 - 1], statements[1])
  BY <1>2, <1>3
<1>5. F[1] = Promise!RanNext(F[0], s)
  BY <1>3, <1>4
<1>6. F[1] = Promise!RanNext([ok |-> TRUE, store |-> db, results |-> <<>>], s)
  BY <1>2, <1>5
<1> QED
  BY <1>6 DEF F

\* A single statement the database ran is what the promise applies.
LEMMA AppliesAlone ==
    ASSUME NEW t \in Tasks, MapsOk, request[t] # Nothing,
           NEW s, NEW statements, statements = request[t].statements,
           DOMAIN statements = {1}, Len(statements) = 1, statements[1] = s,
           request[t].mode = "query" => ReadOnly(s),
           NEW ran, ran = Ran(store, s), ran.ok, store' = ran.store,
           NEW result, result.rows = ran.rows, IsDml(s) => result.count = ran.count,
           Reply(t, Ok(<<result>>))
    PROVE  PromiseStep
<1>1. PICK base : base = [ok |-> TRUE, store |-> store, results |-> <<>>]
  OBVIOUS
<1>2. PICK given : given = [count |-> ran.count, rows |-> ran.rows]
  OBVIOUS
<1>3. PICK all : all = Promise!RanFirst(store, statements)[Len(statements)]
  OBVIOUS
<1>4. PICK results : results = <<result>>
  OBVIOUS
<1>5. base.ok /\ base.store = store /\ base.results = <<>>
  BY <1>1
<1>6. all = Promise!RanNext(base, s)
  BY <1>1, <1>3, RanAlone
<1>7. all = [ok |-> TRUE, store |-> ran.store, results |-> Append(<<>>, given)]
  BY <1>2, <1>5, <1>6, RanNextIs
<1>8. all.ok /\ store' = all.store /\ all.results[1] = given
  BY <1>7
<1>9. given.rows = ran.rows /\ given.count = ran.count
  BY <1>2
<1>10. DOMAIN results = {1} /\ results[1] = result
  BY <1>4
<1>11. /\ Len(statements) \in Nat /\ DOMAIN statements = 1 .. Len(statements)
       /\ DOMAIN results = DOMAIN statements /\ \A i \in DOMAIN statements : i = 1
  BY <1>10
<1>12. \A i \in DOMAIN statements :
          /\ results[i].rows = all.results[i].rows
          /\ IsDml(statements[i]) => results[i].count = all.results[i].count
  BY <1>8, <1>9, <1>10, <1>11
<1>13. request[t].mode = "query" => \A i \in DOMAIN statements : ReadOnly(statements[i])
  BY <1>11
<1>14. Reply(t, Ok(results))
  BY <1>4
<1>15. Ok(results) # Nothing /\ Ok(results).ok /\ Ok(results).results = results
  BY DEF Ok, Nothing
<1>16. Promise!Answered(t) /\ answer'[t] = Ok(results)
  BY <1>14, <1>15, AnsweredIs
<1>17. Promise!RanAll(store, statements) = all
  BY <1>3 DEF Promise!RanAll
<1>18. Promise!Apply(t)
  BY <1>8, <1>11, <1>12, <1>13, <1>15, <1>16, <1>17, SameStatements DEF Promise!Apply
<1> QED
  BY <1>18 DEF Promise!Next, PromiseStep

LEMMA ExecuteStep ==
    ASSUME IInv, NEW t \in Tasks, Execute(t)
    PROVE  PromiseStep
<1>1. MapsOk /\ Called(t, {"exec", "query"}) /\ request[t] # Nothing
  BY DEF IInv, Execute, Called
<1>2. PICK s : s = request[t].statements[1]
  OBVIOUS
<1>3. PICK ran : ran = Ran(store, s)
  OBVIOUS
<1>4. CASE ~ran.ok \/ (request[t].mode = "query" /\ ~ReadOnly(s))
  BY <1>1, <1>2, <1>3, <1>4, Refuses DEF Execute
<1>5. CASE ran.ok /\ (request[t].mode = "query" => ReadOnly(s))
  <2>1. /\ store' = ran.store /\ Reply(t, Ok(<<ResultOf(s, ran)>>))
    BY <1>2, <1>3, <1>5 DEF Execute
  <2>2. PICK statements : statements = request[t].statements
    OBVIOUS
  <2>3. statements = <<request[t].statements[1]>>
    BY <1>1, <2>2, SingleAsked
  <2>4. Len(statements) = 1 /\ statements[1] = s /\ DOMAIN statements = {1}
    BY <1>2, <2>3
  <2>5. PICK result : result = ResultOf(s, ran)
    OBVIOUS
  <2>6. result.rows = ran.rows /\ (IsDml(s) => result.count = ran.count)
    BY <2>5 DEF ResultOf, ChangesAfter
  <2>7. Reply(t, Ok(<<result>>))
    BY <2>1, <2>5
  <2> QED
    BY <1>1, <1>3, <1>5, <2>1, <2>2, <2>4, <2>6, <2>7, AppliesAlone
<1> QED
  BY <1>4, <1>5

LEMMA CommitStep ==
    ASSUME IInv, BatchOk, NEW t \in Tasks, Commit(t)
    PROVE  PromiseStep
<1> DEFINE statements == request[t].statements
           all == Promise!RanFirst(store, statements)[Len(statements)]
<1>1. /\ MapsOk /\ Called(t, {"batch"}) /\ request[t] # Nothing /\ request[t].mode = "batch"
      /\ holder = t /\ Len(done) = Len(statements) /\ store' = work /\ Reply(t, Ok(done))
  BY DEF IInv, Commit, Called
<1>2. Halfway(t)
  BY <1>1, SqliteDbAssumption DEF BatchOk
<1>3. statements \in Seq(BatchStatements) /\ done \in Seq(Results)
  BY <1>1, BatchAsked DEF IInv, DatabaseOk, Results
<1>4. /\ DOMAIN statements = 1 .. Len(statements) /\ DOMAIN done = DOMAIN statements
      /\ Len(statements) \in Nat
  BY <1>1, <1>3
<1>5. all.ok /\ all.store = work /\ GaveResults(statements, all, done)
  BY <1>1, <1>2 DEF Halfway
<1> HIDE DEF all, statements
<1>6. \A i \in DOMAIN statements : done[i].rows = all.results[i].rows
  <2>1. all.results \in Seq(Results) /\ Len(all.results) = Len(done)
    BY <1>5 DEF GaveResults
  <2>2. \A i \in DOMAIN statements : done[i] \in Results /\ all.results[i] \in Results
    BY <1>1, <1>3, <1>4, <2>1
  <2>3. \A r \in Results : r.rows = <<>>
    BY DEF Results
  <2> QED
    BY <2>2, <2>3
<1>7. \A i \in DOMAIN statements : IsDml(statements[i]) => done[i].count = all.results[i].count
  BY <1>1, <1>4, <1>5 DEF GaveResults
<1> QED
  BY <1>1, <1>4, <1>5, <1>6, <1>7, Applies DEF all, statements

LEMMA DbSteps ==
    ASSUME IInv, BatchOk, NEW t \in Tasks, Run(t) \/ CallFails(t)
    PROVE  PromiseStep /\ BatchOk'
<1>1. MapsOk
  BY DEF IInv
<1>2. CASE Execute(t)
  <2>1. holder' = Nothing
    BY <1>2 DEF Execute
  <2> QED
    BY <1>2, <2>1, ExecuteStep, BatchUndone
<1>3. CASE Begin(t)
  <2>1. PromiseStep
    BY <1>1, <1>3, Refuses, Stutters DEF Begin, Called
  <2> QED
    BY <1>3, <2>1, BeginBatch
<1>4. CASE Statement(t)
  <2>1. PromiseStep
    BY <1>1, <1>4, Refuses, Stutters DEF Statement, Called
  <2> QED
    BY <1>4, <2>1, StatementBatch
<1>5. CASE Commit(t)
  <2>1. holder' = Nothing
    BY <1>5 DEF Commit, RollBack
  <2> QED
    BY <1>5, <2>1, CommitStep, BatchUndone
<1>6. CASE Fail(t)
  <2>1. holder' = Nothing /\ request[t] # Nothing /\ Reply(t, Error) /\ store' = store
    BY <1>6 DEF Fail, RollBack
  <2> QED
    BY <1>1, <2>1, Refuses, BatchUndone
<1> QED
  BY <1>2, <1>3, <1>4, <1>5, <1>6 DEF Run, DbStep, CallFails

LEMMA LostSteps ==
    ASSUME IInv
    PROVE  /\ \A t \in Tasks : TaskPanics(t) => PromiseStep /\ BatchOk'
           /\ \A p \in Processes : Crash(p) => PromiseStep /\ BatchOk'
<1>1. MapsOk
  BY DEF IInv
<1>2. ASSUME NEW t \in Tasks, TaskPanics(t) PROVE PromiseStep /\ BatchOk'
  <2>1. /\ holder' = Nothing /\ request' = [request EXCEPT ![t] = Nothing]
        /\ answer' = answer /\ store' = store /\ request[t] # Nothing
    BY <1>2 DEF TaskPanics, Panic, RollBack
  <2>2. answer[t] = Nothing
    BY <2>1 DEF IInv, TaskOk
  <2>3. request' = [u \in Tasks |-> IF u \in {t} THEN Nothing ELSE request[u]]
    BY <1>1, <2>1 DEF MapsOk
  <2>4. answer' = [u \in Tasks |-> IF u \in {t} THEN Nothing ELSE answer[u]]
    BY <1>1, <2>1, <2>2 DEF MapsOk
  <2> QED
    BY <2>1, <2>3, <2>4, Loses, BatchUndone
<1>3. ASSUME NEW p \in Processes, Crash(p) PROVE PromiseStep /\ BatchOk'
  <2> DEFINE gone == {t \in Tasks : ProcessOf[t] = p}
  <2>1. /\ holder' = Nothing /\ store' = store
        /\ request' = [t \in Tasks |-> IF ProcessOf[t] = p THEN Nothing ELSE request[t]]
        /\ answer' = [t \in Tasks |-> IF ProcessOf[t] = p THEN Nothing ELSE answer[t]]
    BY <1>3 DEF Crash, ProcessEnds, RollBack
  <2>2. /\ request' = [t \in Tasks |-> IF t \in gone THEN Nothing ELSE request[t]]
        /\ answer' = [t \in Tasks |-> IF t \in gone THEN Nothing ELSE answer[t]]
    BY <2>1
  <2> HIDE DEF gone
  <2>3. gone \in SUBSET Tasks
    BY DEF gone
  <2> QED
    BY <2>1, <2>2, <2>3, Loses, BatchUndone
<1> QED
  BY <1>2, <1>3

LEMMA EveryStep ==
    ASSUME IInv, BatchOk, [Next]_vars
    PROVE  PromiseStep /\ BatchOk'
<1>1. CASE UNCHANGED vars
  <2>1. UNCHANGED <<connection, store, request, answer>>
    BY <1>1 DEF vars, dbVars
  <2> QED
    BY <2>1, Stutters, BatchKept DEF connection
<1>2. ASSUME NEW p \in Processes, Open(p) PROVE PromiseStep /\ BatchOk'
  <2>1. UNCHANGED <<store, holder, work, done, request, answer>>
    BY <1>2 DEF Open, OpenFile
  <2> QED
    BY <2>1, Stutters, BatchKept
<1> QED
  BY <1>1, <1>2, ClientSteps, DbSteps, LostSteps DEF Next

(***************************************************************************)
(* Any number of tasks and processes, batches that fail at any statement,  *)
(* panics, poisoned locks and crashes: each call of the SQLite backend is  *)
(* all or nothing at one instant, with its own results.                    *)
(***************************************************************************)
THEOREM ReplicaInitImplementsAtomicDb == Spec => ImplementsAtomicDb
<1>1. Init => Promise!Init /\ BatchOk
  BY SameStatements DEF Init, DbInit, Promise!Init, BatchOk
<1>2. IInv /\ BatchOk /\ [Next]_vars => PromiseStep /\ BatchOk'
  BY EveryStep
<1> QED
  BY <1>1, <1>2, AlwaysOk, PTL DEF Spec, ImplementsAtomicDb, Promise!Spec, PromiseStep

=============================================================================
