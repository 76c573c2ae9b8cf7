------------------------- MODULE SchemaGuardProofs -------------------------
(***************************************************************************)
(* The locks of the tables reducer do what they are there for, for any     *)
(* callers, operations and columns, and whatever columns other builds have *)
(* added to the table: a statement meets the schema it was generated from, *)
(* and the database refuses no call (SchemaGuard).                         *)
(*                                                                         *)
(* Neither follows from one lock.  Nobody reads or alters the schema       *)
(* before the map has it, the map gets it while one task has the map to    *)
(* itself, and from then on it changes only under the table's write guard, *)
(* which excludes everyone between generating a statement and running it.  *)
(***************************************************************************)
EXTENDS SchemaGuard, SequenceTheorems, FiniteSetTheorems, TLAPS

-----------------------------------------------------------------------------
(* The invariant *)

Reading == {"scan", "apply", "commit", "post"}

\* Before a call has the table from the map.
Outside == {"idle", "find", "make", "describe", "create"}

TypesOk ==
    /\ pc \in [Tasks -> States]
    /\ op = [t \in Tasks |-> op[t]]
    /\ sqlCols = [t \in Tasks |-> sqlCols[t]]
    /\ result = [t \in Tasks |-> result[t]]
    /\ toAdd \in [Tasks -> SUBSET Columns]
    /\ queue \in Seq([task : Tasks, mode : {"read", "write"}])
    /\ mapHolder \in Tasks \cup {NoTask}
    /\ writer \in Tasks \cup {NoTask}
    /\ \A t \in Tasks : pc[t] # "idle" => op[t] \in Work

LocksOk ==
    /\ readers = {t \in Tasks : pc[t] \in Reading}
    /\ \A t \in Tasks : pc[t] = "alter" <=> writer = t
    /\ writer # NoTask => readers = {}
    /\ \A t \in Tasks : pc[t] \in {"describe", "create"} <=> mapHolder = t
    /\ mapHolder # NoTask => ~cached
    /\ ~cached => \A t \in Tasks : pc[t] \in Outside

\* Whoever is in the queue waits, at one place of it.
QueueOk ==
    /\ \A i \in DOMAIN queue : pc[queue[i].task] = "waiting"
    /\ \A i, j \in DOMAIN queue : queue[i].task = queue[j].task => i = j
    /\ \A i \in DOMAIN queue :
          queue[i].mode = "write" => Needs(op[queue[i].task]) \subseteq known \cup toAdd[queue[i].task]

\* A table as create_table() and ensure_column() leave it, and what others
\* have added.
Built(found) ==
    /\ found.pk = TableWith({}).pk
    /\ found.cols = TableWith(ColumnsOf(found)).cols \cup {col \in found.cols : col.name \notin OwnNames}
    /\ found = [pk |-> found.pk, cols |-> found.cols]

SchemaOk ==
    /\ table = NoTable \/ Built(table)
    /\ cached => Built(table) /\ known = ColumnsOf(table)
    /\ \A t \in Tasks : pc[t] = "create" => table = NoTable

StatementsOk ==
    /\ \A t \in Tasks : pc[t] = "commit" => sqlCols[t] = known
    /\ \A t \in Tasks : pc[t] \in {"apply", "commit"} => Needs(op[t]) \subseteq known
    /\ \A t \in Tasks : pc[t] \in {"upgrade", "alter"} => Needs(op[t]) \subseteq known \cup toAdd[t]
    /\ \A t \in Tasks : result[t] # "error"

IInv == TypesOk /\ LocksOk /\ QueueOk /\ SchemaOk /\ StatementsOk

-----------------------------------------------------------------------------
(* The physical table *)

LEMMA NamesDiffer ==
    ASSUME NEW c, NEW d
    PROVE  /\ ColName(c) # UpsertTs /\ ColName(c) # DeletedTs
           /\ LwwName(c) # UpsertTs /\ LwwName(c) # DeletedTs
           /\ UpsertTs # DeletedTs
           /\ ColName(c) # LwwName(d)
           /\ ColName(c) = ColName(d) => c = d
           /\ LwwName(c) = LwwName(d) => c = d
<1>1. Len(ColName(c)) = 2 /\ Len(LwwName(c)) = 2 /\ Len(UpsertTs) = 1 /\ Len(DeletedTs) = 1
  BY DEF ColName, LwwName, UpsertTs, DeletedTs
<1>2. /\ ColName(c)[1] = "col" /\ LwwName(d)[1] = "lww"
      /\ ColName(c)[2] = c /\ ColName(d)[2] = d /\ LwwName(c)[2] = c /\ LwwName(d)[2] = d
      /\ UpsertTs[1] = "__upsert_ts" /\ DeletedTs[1] = "__deleted_ts"
  BY DEF ColName, LwwName, UpsertTs, DeletedTs
<1>3. "col" # "lww" /\ "__upsert_ts" # "__deleted_ts"
  OBVIOUS
<1> QED
  BY <1>1, <1>2, <1>3

\* The columns of several value columns.
LEMMA InPairs ==
    ASSUME NEW S, NEW x
    PROVE  x \in Pairs(S) <=> \E c \in S : x \in Pair(c)
<1>1. ASSUME NEW c \in S, x \in Pair(c) PROVE x \in Pairs(S)
  <2>1. Pair(c) \in {Pair(d) : d \in S}
    OBVIOUS
  <2> QED
    BY <1>1, <2>1 DEF Pairs
<1>2. ASSUME x \in Pairs(S) PROVE \E c \in S : x \in Pair(c)
  <2>1. PICK pair \in {Pair(d) : d \in S} : x \in pair
    BY <1>2 DEF Pairs
  <2> QED
    BY <2>1
<1> QED
  BY <1>1, <1>2

LEMMA PairsSplit ==
    ASSUME NEW A, NEW B
    PROVE  Pairs(A \cup B) = Pairs(A) \cup Pairs(B)
  BY InPairs

\* The columns of a table that is created with some value columns.
LEMMA Created ==
    ASSUME NEW C \in SUBSET Columns, NEW col
    PROVE  col \in TableWith(C).cols <=>
              \/ col = NotNull(UpsertTs, "integer")
              \/ col = NotNull(DeletedTs, "integer")
              \/ \E c \in C : col = Nullable(ColName(c), DbType(TypeOf[c]))
              \/ \E c \in C : col = NotNull(LwwName(c), "integer")
  BY InPairs DEF TableWith, Pair

LEMMA NamesOf ==
    ASSUME NEW name, NEW type
    PROVE  /\ NotNull(name, type).name = name /\ Nullable(name, type).name = name
           /\ NotNull(name, type).type = Affinity(type) /\ Nullable(name, type).type = Affinity(type)
           /\ NotNull(name, type).nullable = FALSE /\ Nullable(name, type).nullable = TRUE
  BY DEF NotNull, Nullable

LEMMA CreatedNames ==
    ASSUME NEW C \in SUBSET Columns, NEW col \in TableWith(C).cols
    PROVE  \/ col.name = UpsertTs \/ col.name = DeletedTs
           \/ \E c \in C : col.name = ColName(c) \/ col.name = LwwName(c)
<1>1. CASE col = NotNull(UpsertTs, "integer") \/ col = NotNull(DeletedTs, "integer")
  <2>1. /\ NotNull(UpsertTs, "integer").name = UpsertTs
        /\ NotNull(DeletedTs, "integer").name = DeletedTs
    BY DEF NotNull
  <2> QED
    BY <1>1, <2>1, Zenon
<1>2. CASE \E c \in C : col = Nullable(ColName(c), DbType(TypeOf[c]))
  <2>1. PICK c \in C : col = Nullable(ColName(c), DbType(TypeOf[c]))
    BY <1>2
  <2> QED
    BY <2>1, NamesOf
<1>3. CASE \E c \in C : col = NotNull(LwwName(c), "integer")
  <2>1. PICK c \in C : col = NotNull(LwwName(c), "integer")
    BY <1>3
  <2> QED
    BY <2>1, NamesOf
<1> QED
  BY <1>1, <1>2, <1>3, Created

\* Whatever has been added to such a table, its value columns are read back.
LEMMA BuiltFrom ==
    ASSUME NEW C \in SUBSET Columns, NEW F, \A col \in F : col.name \notin OwnNames,
           NEW tab, tab = [pk |-> TableWith({}).pk, cols |-> TableWith(C).cols \cup F]
    PROVE  ColumnsOf(tab) = C /\ Built(tab)
<1>1. \A col \in TableWith(C).cols : col.name \in OwnNames
  <2> SUFFICES ASSUME NEW col \in TableWith(C).cols PROVE col.name \in OwnNames
    OBVIOUS
  <2>1. \/ col.name = UpsertTs \/ col.name = DeletedTs
        \/ \E c \in C : col.name = ColName(c) \/ col.name = LwwName(c)
    BY CreatedNames
  <2> QED
    BY <2>1, Zenon DEF OwnNames
<1>2. \A c \in C : ColName(c) \in Names(tab.cols)
  <2> SUFFICES ASSUME NEW c \in C PROVE ColName(c) \in Names(tab.cols)
    OBVIOUS
  <2> DEFINE col == Nullable(ColName(c), DbType(TypeOf[c]))
  <2>1. col \in TableWith(C).cols
    BY Created, Zenon
  <2>2. col \in tab.cols /\ col.name = ColName(c)
    BY <2>1, NamesOf
  <2> QED
    BY <2>2, Zenon DEF Names
<1>3. ASSUME NEW c \in Columns, ColName(c) \in Names(tab.cols) PROVE c \in C
  <2>1. PICK col \in tab.cols : col.name = ColName(c)
    BY <1>3, Zenon DEF Names
  <2>2. ColName(c) \in OwnNames
    BY Zenon DEF OwnNames
  <2>3. col \in TableWith(C).cols
    BY <2>1, <2>2
  <2> QED
    BY <2>1, <2>3, CreatedNames, NamesDiffer
<1>4. ColumnsOf(tab) = C
  BY <1>2, <1>3 DEF ColumnsOf
<1>5. {col \in tab.cols : col.name \notin OwnNames} = F
  BY <1>1
<1> QED
  BY <1>4, <1>5 DEF Built

\* And the other way round.
LEMMA BuiltIs ==
    ASSUME NEW tab, Built(tab)
    PROVE  /\ ColumnsOf(tab) \in SUBSET Columns
           /\ \E F : /\ \A col \in F : col.name \notin OwnNames
                    /\ tab = [pk |-> TableWith({}).pk, cols |-> TableWith(ColumnsOf(tab)).cols \cup F]
<1> DEFINE F == {col \in tab.cols : col.name \notin OwnNames}
<1>1. \A col \in F : col.name \notin OwnNames
  OBVIOUS
<1>2. tab = [pk |-> TableWith({}).pk, cols |-> TableWith(ColumnsOf(tab)).cols \cup F]
  BY DEF Built
<1> QED
  BY <1>1, <1>2 DEF ColumnsOf

LEMMA ColsAdded ==
    ASSUME NEW tab, Built(tab), NEW more
    PROVE  [tab EXCEPT !.cols = @ \cup more] = [pk |-> tab.pk, cols |-> tab.cols \cup more]
<1>1. \A pk, cols : [[pk |-> pk, cols |-> cols] EXCEPT !.cols = @ \cup more]
                        = [pk |-> pk, cols |-> cols \cup more]
  OBVIOUS
<1>2. tab = [pk |-> tab.pk, cols |-> tab.cols]
  BY DEF Built
<1> QED
  BY <1>1, <1>2, Zenon

LEMMA TableCreated ==
    ASSUME NEW C \in SUBSET Columns
    PROVE  Built(TableWith(C)) /\ ColumnsOf(TableWith(C)) = C
<1>1. TableWith(C) = [pk |-> TableWith({}).pk, cols |-> TableWith(C).cols \cup {}]
  BY DEF TableWith
<1> QED
  BY <1>1, BuiltFrom

\* A column that is not known can be added.
LEMMA ColumnAdded ==
    ASSUME NEW tab, Built(tab), NEW c \in Columns \ ColumnsOf(tab)
    PROVE  /\ CanAdd(tab, c)
           /\ Built(WithColumn(tab, c))
           /\ ColumnsOf(WithColumn(tab, c)) = ColumnsOf(tab) \cup {c}
<1> DEFINE C == ColumnsOf(tab)
<1>1. C \in SUBSET Columns
  BY BuiltIs
<1>2. PICK F : /\ \A col \in F : col.name \notin OwnNames
               /\ tab = [pk |-> TableWith({}).pk, cols |-> TableWith(C).cols \cup F]
  BY BuiltIs
<1> HIDE DEF C
<1>3. CanAdd(tab, c)
  <2>1. \A name \in Names(Pair(c)) : name = ColName(c) \/ name = LwwName(c)
    <3>1. \A col \in Pair(c) : col.name = ColName(c) \/ col.name = LwwName(c)
      <4>1. /\ Nullable(ColName(c), DbType(TypeOf[c])).name = ColName(c)
            /\ NotNull(LwwName(c), "integer").name = LwwName(c)
        BY DEF NotNull, Nullable
      <4> QED
        BY <4>1, Zenon DEF Pair
    <3> QED
      BY <3>1, Zenon DEF Names
  <2>2. ASSUME NEW col \in tab.cols PROVE col.name # ColName(c) /\ col.name # LwwName(c)
    <3>1. CASE col \in F
      <4>1. ColName(c) \in OwnNames /\ LwwName(c) \in OwnNames
        BY Zenon DEF OwnNames
      <4> QED
        BY <1>2, <3>1, <4>1
    <3>2. CASE col \in TableWith(C).cols
      <4>1. c \notin C
        BY DEF C
      <4>2. \/ col.name = UpsertTs \/ col.name = DeletedTs
            \/ \E d \in C : col.name = ColName(d) \/ col.name = LwwName(d)
        BY <1>1, <3>2, CreatedNames
      <4> QED
        BY <4>1, <4>2, NamesDiffer
    <3> QED
      BY <1>2, <3>1, <3>2
  <2>3. \A name \in Names(tab.cols) : name # ColName(c) /\ name # LwwName(c)
    BY <2>2, Zenon DEF Names
  <2> QED
    BY <2>1, <2>3, Zenon DEF CanAdd
<1>4. WithColumn(tab, c) = [pk |-> TableWith({}).pk, cols |-> TableWith(C \cup {c}).cols \cup F]
  <2>1. TableWith(C \cup {c}).cols = TableWith(C).cols \cup Pair(c)
    <3>1. Pairs(C \cup {c}) = Pairs(C) \cup Pair(c)
      BY InPairs
    <3> QED
      BY <3>1 DEF TableWith
  <2>2. tab.pk = TableWith({}).pk /\ tab.cols = TableWith(C).cols \cup F
    BY <1>2
  <2>3. tab.cols \cup Pair(c) = TableWith(C \cup {c}).cols \cup F
    BY <2>1, <2>2
  <2>4. WithColumn(tab, c) = [pk |-> tab.pk, cols |-> tab.cols \cup Pair(c)]
    BY ColsAdded, Zenon DEF WithColumn
  <2> QED
    BY <2>2, <2>3, <2>4
<1>5. C \cup {c} \in SUBSET Columns
  BY <1>1
<1>6. ColumnsOf(WithColumn(tab, c)) = C \cup {c} /\ Built(WithColumn(tab, c))
  BY <1>2, <1>4, <1>5, BuiltFrom
<1> QED
  BY <1>3, <1>6 DEF C

\* Another build adds columns.
LEMMA OthersAdded ==
    ASSUME NEW tab, Built(tab), NEW others \in Foreign
    PROVE  Built([tab EXCEPT !.cols = @ \cup others])
<1> DEFINE new == [tab EXCEPT !.cols = @ \cup others]
<1>1. ColumnsOf(tab) \in SUBSET Columns
  BY BuiltIs
<1>2. PICK F : /\ \A col \in F : col.name \notin OwnNames
               /\ tab = [pk |-> TableWith({}).pk, cols |-> TableWith(ColumnsOf(tab)).cols \cup F]
  BY BuiltIs
<1>3. \A col \in others : col.name \notin OwnNames
  <2>1. Names(others) \cap OwnNames = {}
    BY SchemaGuardAssumption
  <2>2. \A col \in others : col.name \in Names(others)
    BY Zenon DEF Names
  <2> QED
    BY <2>1, <2>2
<1>4. tab.pk = TableWith({}).pk /\ tab.cols = TableWith(ColumnsOf(tab)).cols \cup F
  BY <1>2
<1>5. new = [pk |-> tab.pk, cols |-> tab.cols \cup others]
  BY ColsAdded
<1>6. tab.cols \cup others = TableWith(ColumnsOf(tab)).cols \cup (F \cup others)
  BY <1>4
<1>7. \A col \in F \cup others : col.name \notin OwnNames
  BY <1>2, <1>3
<1>8. new = [pk |-> TableWith({}).pk, cols |-> TableWith(ColumnsOf(tab)).cols \cup (F \cup others)]
  BY <1>4, <1>5, <1>6
<1> QED
  BY <1>1, <1>7, <1>8, BuiltFrom

LEMMA TypesAccepted == \A type \in Types : Accepts(type, Affinity(DbType(type)))
<1> SUFFICES ASSUME NEW type \in Types PROVE Accepts(type, Affinity(DbType(type)))
  OBVIOUS
<1>1. /\ DbType("bytes") = "blob" /\ DbType("text") = "text"
      /\ DbType("i64") = "integer" /\ DbType("uuid") = "uuid"
  BY Zenon DEF DbType
<1>2. /\ Affinity("blob") = "blob" /\ Affinity("text") = "text"
      /\ Affinity("integer") = "integer" /\ Affinity("uuid") = "blob"
  BY DEF Affinity
<1>3. type \in {"bytes", "text", "i64", "uuid"}
  BY DEF Types
<1> QED
  BY <1>1, <1>2, <1>3 DEF Accepts

\* Such a table passes every check of new_from_db_descriptor().
LEMMA BuiltRecognised ==
    ASSUME NEW tab, Built(tab)
    PROVE  Recognised(tab)
<1> DEFINE C == ColumnsOf(tab)
<1>1. C \in SUBSET Columns
  BY BuiltIs
<1>2. PICK F : /\ \A col \in F : col.name \notin OwnNames
               /\ tab = [pk |-> TableWith({}).pk, cols |-> TableWith(C).cols \cup F]
  BY BuiltIs
<1>3. tab.pk = TableWith({}).pk /\ tab.cols = TableWith(C).cols \cup F
  BY <1>2
<1> HIDE DEF C
<1>4. KeyOk(tab)
  <2>1. tab.pk = [i \in DOMAIN KeyTypes |-> NotNull(KeyName(i), DbType(KeyTypes[i]))]
    BY <1>3 DEF TableWith
  <2>2. Len(tab.pk) = Len(KeyTypes)
    BY <2>1, PhysicalTableAssumption
  <2>3. ASSUME NEW i \in DOMAIN KeyTypes
        PROVE  Accepts(KeyTypes[i], tab.pk[i].type) /\ ~tab.pk[i].nullable /\ tab.pk[i].name = KeyName(i)
    <3>1. KeyTypes[i] \in Types
      BY PhysicalTableAssumption
    <3>2. tab.pk[i] = NotNull(KeyName(i), DbType(KeyTypes[i]))
      BY <2>1
    <3>3. /\ tab.pk[i].name = KeyName(i)
          /\ tab.pk[i].type = Affinity(DbType(KeyTypes[i]))
          /\ tab.pk[i].nullable = FALSE
      BY <3>2 DEF NotNull
    <3> QED
      BY <3>1, <3>3, TypesAccepted
  <2> QED
    BY <2>2, <2>3 DEF KeyOk
<1>5. ASSUME NEW name \in {UpsertTs, DeletedTs} PROVE TimestampOk(tab, name)
  <2>1. NotNull(name, "integer") \in tab.cols
    BY <1>1, <1>3, Created
  <2>2. /\ NotNull(name, "integer").name = name
        /\ NotNull(name, "integer").type = "integer"
        /\ ~NotNull(name, "integer").nullable
    BY DEF NotNull, Affinity
  <2> QED
    BY <2>1, <2>2 DEF TimestampOk
<1>6. ASSUME NEW c \in Columns PROVE ColumnOk(tab, c)
  <2> SUFFICES ASSUME NEW col \in tab.cols, col.name = ColName(c)
               PROVE  /\ Accepts(TypeOf[c], col.type) /\ col.nullable
                      /\ \E lww \in tab.cols :
                            lww.name = LwwName(c) /\ lww.type = "integer" /\ ~lww.nullable
    BY DEF ColumnOk
  <2>1. ColName(c) \in OwnNames
    BY Zenon DEF OwnNames
  <2>2. col \in TableWith(C).cols
    BY <1>2, <1>3, <2>1
  <2>3. PICK d \in C : \/ col = Nullable(ColName(d), DbType(TypeOf[d]))
                       \/ col = NotNull(LwwName(d), "integer")
    <3>1. col # NotNull(UpsertTs, "integer") /\ col # NotNull(DeletedTs, "integer")
      BY NamesDiffer DEF NotNull
    <3> QED
      BY <1>1, <2>2, <3>1, Created
  <2>4. col # NotNull(LwwName(d), "integer")
    BY NamesDiffer DEF NotNull
  <2>5. col = Nullable(ColName(d), DbType(TypeOf[d]))
    BY <2>3, <2>4
  <2>6. c = d
    BY <2>5, NamesDiffer DEF Nullable
  <2>7. Accepts(TypeOf[c], col.type) /\ col.nullable
    <3>1. TypeOf[c] \in Types
      BY PhysicalTableAssumption
    <3>2. col.type = Affinity(DbType(TypeOf[c])) /\ col.nullable = TRUE
      BY <2>5, <2>6 DEF Nullable
    <3> QED
      BY <3>1, <3>2, TypesAccepted
  <2>8. NotNull(LwwName(c), "integer") \in tab.cols
    BY <1>1, <1>3, <2>3, <2>6, Created
  <2>9. /\ NotNull(LwwName(c), "integer").name = LwwName(c)
        /\ NotNull(LwwName(c), "integer").type = "integer"
        /\ ~NotNull(LwwName(c), "integer").nullable
    BY DEF NotNull, Affinity
  <2> QED
    BY <2>7, <2>8, <2>9
<1> QED
  BY <1>4, <1>5, <1>6 DEF Recognised

\* new_named() finds nothing to object to, and adds what is missing.
LEMMA Declarable ==
    ASSUME NEW tab, Built(tab)
    PROVE  CanDeclare(tab, Named) /\ Built(Declare(tab, Named))
<1> DEFINE C == ColumnsOf(tab)
           new == Named \ C
<1>1. C \in SUBSET Columns /\ new \in SUBSET Columns
  BY BuiltIs, SchemaGuardAssumption
<1>2. PICK F : /\ \A col \in F : col.name \notin OwnNames
               /\ tab = [pk |-> TableWith({}).pk, cols |-> TableWith(C).cols \cup F]
  BY BuiltIs
<1>3. CanDeclare(tab, Named)
  BY <1>1, BuiltRecognised, ColumnAdded DEF CanDeclare
<1>4. Declare(tab, Named) = [pk |-> TableWith({}).pk, cols |-> TableWith(C \cup new).cols \cup F]
  <2>1. tab.pk = TableWith({}).pk /\ tab.cols = TableWith(C).cols \cup F
    BY <1>2
  <2>2. Pairs(C \cup new) = Pairs(C) \cup Pairs(new)
    BY PairsSplit
  <2>3. TableWith(C \cup new).cols = TableWith(C).cols \cup Pairs(new)
    BY <2>2 DEF TableWith
  <2>4. tab.cols \cup Pairs(new) = TableWith(C \cup new).cols \cup F
    BY <2>1, <2>3
  <2>5. Declare(tab, Named) = [pk |-> tab.pk, cols |-> tab.cols \cup Pairs(new)]
    BY ColsAdded, Zenon DEF Declare
  <2> QED
    BY <2>1, <2>4, <2>5
<1>5. C \cup new \in SUBSET Columns
  BY <1>1
<1> HIDE DEF C, new
<1> QED
  BY <1>2, <1>3, <1>4, <1>5, BuiltFrom

-----------------------------------------------------------------------------
(* Parts of steps *)

LEMMA Moves ==
    ASSUME TypesOk, NEW t \in Tasks, NEW where \in States, GoTo(t, where)
    PROVE  /\ pc' \in [Tasks -> States]
           /\ pc'[t] = where
           /\ \A u \in Tasks \ {t} : pc'[u] = pc[u]
  BY DEF TypesOk, GoTo

LEMMA InQueue ==
    ASSUME TypesOk
    PROVE  \A i \in DOMAIN queue : queue[i].task \in Tasks
<1> DEFINE Waiter == [task : Tasks, mode : {"read", "write"}]
<1>1. \A waiter \in Waiter : waiter.task \in Tasks
  OBVIOUS
<1>2. queue \in Seq(Waiter)
  BY DEF TypesOk
<1> HIDE DEF Waiter
<1>3. \A i \in DOMAIN queue : queue[i] \in Waiter
  BY <1>2
<1> QED
  BY <1>1, <1>3

LEMMA QueueKept ==
    ASSUME TypesOk, QueueOk, UNCHANGED queue,
           \A u \in Tasks : pc[u] = "waiting" =>
               pc'[u] = "waiting" /\ op'[u] = op[u] /\ toAdd'[u] = toAdd[u],
           queue = <<>> \/ known \subseteq known'
    PROVE  QueueOk'
<1>1. \A i \in DOMAIN queue : queue[i].task \in Tasks
  BY InQueue
<1>2. \A i \in DOMAIN queue : pc'[queue[i].task] = "waiting"
  BY <1>1 DEF QueueOk
<1>3. ASSUME NEW i \in DOMAIN queue, queue[i].mode = "write"
      PROVE  Needs(op'[queue[i].task]) \subseteq known' \cup toAdd'[queue[i].task]
  <2>1. known \subseteq known'
    BY <1>3
  <2>2. Needs(op[queue[i].task]) \subseteq known \cup toAdd[queue[i].task]
    BY <1>3 DEF QueueOk
  <2>3. op'[queue[i].task] = op[queue[i].task] /\ toAdd'[queue[i].task] = toAdd[queue[i].task]
    BY <1>1 DEF QueueOk
  <2> QED
    BY <2>1, <2>2, <2>3
<1> QED
  BY <1>2, <1>3 DEF QueueOk

LEMMA Queued ==
    ASSUME TypesOk, QueueOk, NEW t \in Tasks, pc[t] # "waiting",
           NEW mode \in {"read", "write"}, Ask(t, mode),
           UNCHANGED <<op, toAdd>>, queue = <<>> \/ known \subseteq known',
           mode = "write" => Needs(op[t]) \subseteq known' \cup toAdd[t]
    PROVE  /\ QueueOk'
           /\ queue' \in Seq([task : Tasks, mode : {"read", "write"}])
           /\ GoTo(t, "waiting")
<1> DEFINE new == [task |-> t, mode |-> mode]
<1>1. queue \in Seq([task : Tasks, mode : {"read", "write"}]) /\ queue' = Append(queue, new)
  BY DEF TypesOk, Ask
<1>2. new \in [task : Tasks, mode : {"read", "write"}] /\ new.task = t /\ new.mode = mode
  OBVIOUS
<1> HIDE DEF new
<1>3. /\ queue' \in Seq([task : Tasks, mode : {"read", "write"}])
      /\ Len(queue') = Len(queue) + 1
      /\ queue'[Len(queue) + 1] = new
      /\ \A i \in DOMAIN queue : queue'[i] = queue[i]
      /\ DOMAIN queue' = 1 .. Len(queue) + 1
      /\ DOMAIN queue = 1 .. Len(queue)
      /\ Len(queue) \in Nat
  BY <1>1, <1>2
<1>4. GoTo(t, "waiting") /\ "waiting" \in States
  BY DEF Ask, States
<1>5. \A i \in DOMAIN queue : queue[i].task \in Tasks \ {t}
  BY InQueue DEF QueueOk
<1>6. \A i \in DOMAIN queue' : i \in DOMAIN queue \/ i = Len(queue) + 1
  BY <1>3
<1>7. /\ pc'[t] = "waiting"
      /\ \A u \in Tasks \ {t} : pc'[u] = pc[u]
  BY <1>4, Moves
<1>8. \A i \in DOMAIN queue' : pc'[queue'[i].task] = "waiting"
  BY <1>2, <1>3, <1>5, <1>6, <1>7 DEF QueueOk
<1>9. \A i, j \in DOMAIN queue' : queue'[i].task = queue'[j].task => i = j
  BY <1>2, <1>3, <1>5, <1>6 DEF QueueOk
<1>10. \A i \in DOMAIN queue' :
          queue'[i].mode = "write" =>
              Needs(op'[queue'[i].task]) \subseteq known' \cup toAdd'[queue'[i].task]
  <2> SUFFICES ASSUME NEW i \in DOMAIN queue', queue'[i].mode = "write"
               PROVE  Needs(op[queue'[i].task]) \subseteq known' \cup toAdd[queue'[i].task]
    OBVIOUS
  <2>1. CASE i = Len(queue) + 1
    BY <1>2, <1>3, <2>1
  <2>2. CASE i \in DOMAIN queue
    <3>1. known \subseteq known'
      BY <2>2
    <3>2. Needs(op[queue[i].task]) \subseteq known \cup toAdd[queue[i].task]
      BY <1>3, <2>2 DEF QueueOk
    <3> QED
      BY <1>3, <2>2, <3>1, <3>2
  <2> QED
    BY <1>6, <2>1, <2>2
<1> QED
  BY <1>3, <1>4, <1>8, <1>9, <1>10 DEF QueueOk

\* As long as the map has no table nobody is past it.
LEMMA NobodyInside ==
    ASSUME IInv, ~cached
    PROVE  /\ \A t \in Tasks : pc[t] \in Outside
           /\ queue = <<>> /\ readers = {} /\ writer = NoTask
<1>1. \A t \in Tasks : pc[t] \in Outside
  BY DEF IInv, LocksOk
<1>2. queue = <<>>
  <2>1. \A i \in DOMAIN queue : queue[i].task \in Tasks /\ pc[queue[i].task] = "waiting"
    BY InQueue DEF IInv, QueueOk
  <2>2. DOMAIN queue = {}
    BY <1>1, <2>1 DEF Outside
  <2> QED
    BY <2>2 DEF IInv, TypesOk
<1>3. readers = {} /\ writer = NoTask
  BY <1>1 DEF IInv, TypesOk, LocksOk, Reading, Outside
<1> QED
  BY <1>1, <1>2, <1>3

-----------------------------------------------------------------------------
(* Steps *)

LEMMA CallOk ==
    ASSUME IInv, NEW t \in Tasks, Call(t)
    PROVE  IInv'
<1>1. /\ pc[t] = "idle" /\ GoTo(t, "find")
      /\ op' = [op EXCEPT ![t] = op'[t]] /\ op'[t] \in Work
      /\ UNCHANGED <<table, cached, known, mapHolder, readers, writer, queue, toAdd, sqlCols, result>>
  BY DEF Call, IInv, TypesOk, db, cache, locks
<1>2. /\ pc' \in [Tasks -> States] /\ pc'[t] = "find"
      /\ \A u \in Tasks \ {t} : pc'[u] = pc[u]
  BY <1>1, Moves DEF IInv, States
<1>3. TypesOk'
  BY <1>1, <1>2 DEF IInv, TypesOk
<1>4. LocksOk'
  BY <1>1, <1>2 DEF IInv, TypesOk, LocksOk, Reading, Outside
<1>5. QueueOk'
  <2>1. \A u \in Tasks \ {t} : op'[u] = op[u]
    BY <1>1 DEF IInv, TypesOk
  <2> QED
    BY <1>1, <1>2, <2>1, QueueKept DEF IInv
<1>6. SchemaOk'
  BY <1>1, <1>2 DEF IInv, SchemaOk
<1>7. StatementsOk'
  BY <1>1, <1>2 DEF IInv, TypesOk, StatementsOk
<1> QED
  BY <1>3, <1>4, <1>5, <1>6, <1>7 DEF IInv

LEMMA UpgradeOk ==
    ASSUME IInv, NEW t \in Tasks, Upgrade(t)
    PROVE  IInv'
<1>1. /\ pc[t] = "upgrade" /\ Ask(t, "write")
      /\ UNCHANGED <<table, cached, known, mapHolder, readers, writer, op, toAdd, sqlCols, result>>
  BY DEF Upgrade, db, cache, locals
<1>2. /\ pc' \in [Tasks -> States] /\ pc'[t] = "waiting"
      /\ \A u \in Tasks \ {t} : pc'[u] = pc[u]
      /\ QueueOk' /\ queue' \in Seq([task : Tasks, mode : {"read", "write"}])
  <2>1. Needs(op[t]) \subseteq known' \cup toAdd[t]
    BY <1>1 DEF IInv, StatementsOk
  <2>2. QueueOk' /\ queue' \in Seq([task : Tasks, mode : {"read", "write"}]) /\ GoTo(t, "waiting")
    BY <1>1, <2>1, Queued DEF IInv
  <2> QED
    BY <2>2, Moves DEF IInv, States
<1>3. TypesOk'
  BY <1>1, <1>2 DEF IInv, TypesOk
<1>4. LocksOk'
  BY <1>1, <1>2 DEF IInv, TypesOk, LocksOk, Reading, Outside
<1>5. QueueOk'
  BY <1>2
<1>6. SchemaOk'
  BY <1>1, <1>2 DEF IInv, SchemaOk
<1>7. StatementsOk'
  BY <1>1, <1>2 DEF IInv, TypesOk, StatementsOk
<1> QED
  BY <1>3, <1>4, <1>5, <1>6, <1>7 DEF IInv

LEMMA DowngradeOk ==
    ASSUME IInv, NEW t \in Tasks, Downgrade(t)
    PROVE  IInv'
<1>1. /\ pc[t] = "alter" /\ toAdd[t] = {} /\ GoTo(t, "apply")
      /\ writer' = NoTask /\ readers' = readers \cup {t}
      /\ UNCHANGED <<table, cached, known, mapHolder, queue, op, toAdd, sqlCols, result>>
  BY DEF Downgrade, db, cache, locals
<1>2. /\ pc' \in [Tasks -> States] /\ pc'[t] = "apply"
      /\ \A u \in Tasks \ {t} : pc'[u] = pc[u]
  BY <1>1, Moves DEF IInv, States
<1>3. TypesOk'
  BY <1>1, <1>2 DEF IInv, TypesOk
<1>4. LocksOk'
  <2>1. writer = t /\ cached /\ readers = {} /\ mapHolder = NoTask
    BY <1>1, SchemaGuardAssumption DEF IInv, TypesOk, LocksOk, Outside
  <2>2. readers' = {u \in Tasks : pc'[u] \in Reading}
    BY <1>1, <1>2, <2>1 DEF IInv, LocksOk, Reading
  <2>3. \A u \in Tasks : pc'[u] # "alter"
    BY <1>2, <2>1 DEF IInv, LocksOk
  <2> QED
    BY <1>1, <1>2, <2>1, <2>2, <2>3, SchemaGuardAssumption DEF IInv, LocksOk
<1>5. QueueOk'
  BY <1>1, <1>2, QueueKept DEF IInv
<1>6. SchemaOk'
  BY <1>1, <1>2 DEF IInv, SchemaOk
<1>7. StatementsOk'
  BY <1>1, <1>2 DEF IInv, TypesOk, StatementsOk
<1> QED
  BY <1>3, <1>4, <1>5, <1>6, <1>7 DEF IInv

LEMMA ApplyOk ==
    ASSUME IInv, NEW t \in Tasks, Apply(t)
    PROVE  IInv'
<1>1. /\ pc[t] = "apply" /\ GoTo(t, "commit")
      /\ sqlCols' = [sqlCols EXCEPT ![t] = known]
      /\ UNCHANGED <<table, cached, known, mapHolder, readers, writer, queue, op, toAdd, result>>
  BY DEF Apply, db, cache, locks
<1>2. /\ pc' \in [Tasks -> States] /\ pc'[t] = "commit"
      /\ \A u \in Tasks \ {t} : pc'[u] = pc[u]
  BY <1>1, Moves DEF IInv, States
<1>3. TypesOk'
  BY <1>1, <1>2 DEF IInv, TypesOk
<1>4. LocksOk'
  BY <1>1, <1>2 DEF IInv, TypesOk, LocksOk, Reading, Outside
<1>5. QueueOk'
  BY <1>1, <1>2, QueueKept DEF IInv
<1>6. SchemaOk'
  BY <1>1, <1>2 DEF IInv, SchemaOk
<1>7. StatementsOk'
  BY <1>1, <1>2 DEF IInv, TypesOk, StatementsOk
<1> QED
  BY <1>3, <1>4, <1>5, <1>6, <1>7 DEF IInv

LEMMA PostApplyOk ==
    ASSUME IInv, NEW t \in Tasks, PostApply(t)
    PROVE  IInv'
<1>1. /\ pc[t] = "post" /\ GoTo(t, "idle")
      /\ readers' = readers \ {t} /\ result' = [result EXCEPT ![t] = "ok"]
      /\ UNCHANGED <<table, cached, known, mapHolder, writer, queue, op, toAdd, sqlCols>>
  BY DEF PostApply, Return, db, cache, locals
<1>2. /\ pc' \in [Tasks -> States] /\ pc'[t] = "idle"
      /\ \A u \in Tasks \ {t} : pc'[u] = pc[u]
  BY <1>1, Moves DEF IInv, States
<1>3. TypesOk'
  BY <1>1, <1>2 DEF IInv, TypesOk
<1>4. LocksOk'
  BY <1>1, <1>2 DEF IInv, TypesOk, LocksOk, Reading, Outside
<1>5. QueueOk'
  BY <1>1, <1>2, QueueKept DEF IInv
<1>6. SchemaOk'
  BY <1>1, <1>2 DEF IInv, SchemaOk
<1>7. StatementsOk'
  BY <1>1, <1>2 DEF IInv, TypesOk, StatementsOk
<1> QED
  BY <1>3, <1>4, <1>5, <1>6, <1>7 DEF IInv

\* t queues for the table's lock, which the map has from now on.
LEMMA WaitOk ==
    ASSUME IInv, NEW t \in Tasks, pc[t] \in Outside, pc[t] # "idle", Ask(t, "read"),
           mapHolder \in {t, NoTask}, mapHolder' = NoTask,
           cached', Built(table'), known' = ColumnsOf(table'),
           ~cached \/ UNCHANGED <<table, known>>,
           UNCHANGED <<readers, writer, op, toAdd, sqlCols, result>>
    PROVE  IInv'
<1>1. queue = <<>> \/ known \subseteq known'
  BY NobodyInside
<1>2. QueueOk' /\ queue' \in Seq([task : Tasks, mode : {"read", "write"}]) /\ GoTo(t, "waiting")
  BY <1>1, Queued DEF IInv, Outside
<1>3. /\ pc' \in [Tasks -> States] /\ pc'[t] = "waiting"
      /\ \A u \in Tasks \ {t} : pc'[u] = pc[u]
  BY <1>2, Moves DEF IInv, States
<1>4. TypesOk'
  BY <1>2, <1>3 DEF IInv, TypesOk
<1>5. \A u \in Tasks : pc'[u] \notin {"describe", "create"}
  BY <1>3, SchemaGuardAssumption DEF IInv, LocksOk
<1>6. LocksOk'
  <2>1. readers' = {u \in Tasks : pc'[u] \in Reading}
    BY <1>3 DEF IInv, LocksOk, Reading, Outside
  <2>2. \A u \in Tasks : pc'[u] = "alter" <=> writer' = u
    BY <1>3 DEF IInv, LocksOk, Outside
  <2> QED
    BY <1>5, <2>1, <2>2, SchemaGuardAssumption DEF IInv, LocksOk
<1>7. SchemaOk'
  BY <1>5 DEF IInv, SchemaOk
<1>8. StatementsOk'
  <2>1. \A u \in Tasks : pc'[u] \in {"apply", "commit", "upgrade", "alter"} =>
            pc'[u] = pc[u] /\ UNCHANGED known
    BY <1>3, NobodyInside DEF Outside
  <2> QED
    BY <2>1 DEF IInv, StatementsOk
<1> QED
  BY <1>2, <1>4, <1>6, <1>7, <1>8 DEF IInv

\* t stays outside and takes or has the map.
LEMMA StayOk ==
    ASSUME IInv, NEW t \in Tasks, pc[t] \in Outside, pc[t] # "idle", ~cached,
           NEW where \in {"make", "describe", "create"}, GoTo(t, where),
           \/ where = "make" /\ pc[t] = "find" /\ UNCHANGED mapHolder
           \/ where # "make" /\ mapHolder \in {t, NoTask} /\ mapHolder' = t,
           where = "create" => table = NoTable,
           UNCHANGED <<table, cached, known, readers, writer, queue, op, toAdd, sqlCols, result>>
    PROVE  IInv'
<1>1. /\ pc' \in [Tasks -> States] /\ pc'[t] = where
      /\ \A u \in Tasks \ {t} : pc'[u] = pc[u]
  BY Moves DEF IInv, States
<1>2. TypesOk'
  BY <1>1 DEF IInv, TypesOk
<1>3. LocksOk'
  <2>1. readers' = {u \in Tasks : pc'[u] \in Reading}
    BY <1>1 DEF IInv, LocksOk, Reading, Outside
  <2>2. \A u \in Tasks : pc'[u] = "alter" <=> writer' = u
    BY <1>1 DEF IInv, LocksOk, Outside
  <2>3. \A u \in Tasks : pc'[u] \in {"describe", "create"} <=> mapHolder' = u
    BY <1>1, SchemaGuardAssumption DEF IInv, LocksOk
  <2>4. \A u \in Tasks : pc'[u] \in Outside
    BY <1>1 DEF IInv, LocksOk, Outside
  <2> QED
    BY <2>1, <2>2, <2>3, <2>4 DEF IInv, LocksOk
<1>4. QueueOk'
  BY <1>1, QueueKept DEF IInv, Outside
<1>5. SchemaOk'
  BY <1>1 DEF IInv, SchemaOk
<1>6. StatementsOk'
  BY <1>1 DEF IInv, StatementsOk
<1> QED
  BY <1>2, <1>3, <1>4, <1>5, <1>6 DEF IInv

LEMMA FindOk ==
    ASSUME IInv, NEW t \in Tasks, Find(t)
    PROVE  IInv'
<1>1. /\ pc[t] = "find" /\ mapHolder = NoTask
      /\ \/ cached /\ Ask(t, "read")
         \/ ~cached /\ GoTo(t, "make") /\ UNCHANGED queue
      /\ UNCHANGED <<table, cached, known, mapHolder, readers, writer, op, toAdd, sqlCols, result>>
  BY DEF Find, db, cache, locals
<1>2. CASE cached /\ Ask(t, "read")
  <2>1. Built(table') /\ known' = ColumnsOf(table')
    BY <1>1, <1>2 DEF IInv, SchemaOk
  <2> QED
    BY <1>1, <1>2, <2>1, WaitOk DEF Outside
<1>3. CASE ~cached /\ GoTo(t, "make") /\ UNCHANGED queue
  BY <1>1, <1>3, StayOk DEF Outside
<1> QED
  BY <1>1, <1>2, <1>3

LEMMA LockMapOk ==
    ASSUME IInv, NEW t \in Tasks, LockMap(t)
    PROVE  IInv'
<1>1. /\ pc[t] = "make" /\ mapHolder = NoTask
      /\ \/ cached /\ Ask(t, "read") /\ UNCHANGED mapHolder
         \/ ~cached /\ mapHolder' = t /\ GoTo(t, "describe") /\ UNCHANGED queue
      /\ UNCHANGED <<table, cached, known, readers, writer, op, toAdd, sqlCols, result>>
  BY DEF LockMap, db, cache, locals
<1>2. CASE cached /\ Ask(t, "read") /\ UNCHANGED mapHolder
  <2>1. Built(table') /\ known' = ColumnsOf(table')
    BY <1>1, <1>2 DEF IInv, SchemaOk
  <2> QED
    BY <1>1, <1>2, <2>1, WaitOk DEF Outside
<1>3. CASE ~cached /\ mapHolder' = t /\ GoTo(t, "describe") /\ UNCHANGED queue
  BY <1>1, <1>3, StayOk DEF Outside
<1> QED
  BY <1>1, <1>2, <1>3

LEMMA DescribeOk ==
    ASSUME IInv, NEW t \in Tasks, Describe(t)
    PROVE  IInv'
<1>1. /\ pc[t] = "describe" /\ mapHolder = t /\ ~cached
      /\ UNCHANGED <<table, readers, writer, op, toAdd, sqlCols>>
  BY SchemaGuardAssumption DEF IInv, LocksOk, Describe, db, locals
<1>2. CASE table = NoTable
  <2>1. GoTo(t, "create") /\ UNCHANGED <<cached, known, mapHolder, queue, result>>
    BY <1>2 DEF Describe, cache
  <2> QED
    BY <1>1, <1>2, <2>1, StayOk DEF Outside
<1>3. CASE table # NoTable
  <2>1. Built(table) /\ Recognised(table)
    BY <1>3, BuiltRecognised DEF IInv, SchemaOk
  <2>2. /\ mapHolder' = NoTask /\ cached' /\ known' = ColumnsOf(table)
        /\ Ask(t, "read") /\ UNCHANGED result
    BY <1>3, <2>1 DEF Describe
  <2> QED
    BY <1>1, <2>1, <2>2, WaitOk DEF Outside
<1> QED
  BY <1>2, <1>3

LEMMA CreateOk ==
    ASSUME IInv, NEW t \in Tasks, Create(t)
    PROVE  IInv'
<1>1. /\ pc[t] = "create" /\ mapHolder = t /\ ~cached /\ table = NoTable
      /\ UNCHANGED <<readers, writer, op, toAdd, sqlCols>>
  BY SchemaGuardAssumption DEF IInv, LocksOk, SchemaOk, Create, locals
<1>2. /\ mapHolder' = NoTask /\ table' = TableWith({}) /\ cached' /\ known' = {}
      /\ Ask(t, "read") /\ UNCHANGED result
  BY <1>1 DEF Create
<1>3. Built(table') /\ known' = ColumnsOf(table')
  BY <1>2, TableCreated
<1> QED
  BY <1>1, <1>2, <1>3, WaitOk DEF Outside

LEMMA QueueServed ==
    ASSUME TypesOk, QueueOk, NEW t \in Tasks, queue # <<>>, Head(queue).task = t,
           queue' = Tail(queue), UNCHANGED <<known, op, toAdd>>,
           \A u \in Tasks \ {t} : pc'[u] = pc[u]
    PROVE  QueueOk' /\ queue' \in Seq([task : Tasks, mode : {"read", "write"}])
<1>1. /\ queue \in Seq([task : Tasks, mode : {"read", "write"}]) /\ Len(queue) \in Nat
      /\ Len(queue) > 0
  BY DEF TypesOk
<1>2. /\ queue' \in Seq([task : Tasks, mode : {"read", "write"}])
      /\ DOMAIN queue' = 1 .. Len(queue) - 1
      /\ \A i \in DOMAIN queue' : i + 1 \in DOMAIN queue /\ queue'[i] = queue[i + 1]
  BY <1>1
<1>3. 1 \in DOMAIN queue /\ queue[1].task = t
  BY <1>1
<1>4. \A i \in DOMAIN queue' : queue[i + 1].task \in Tasks \ {t}
  <2> SUFFICES ASSUME NEW i \in DOMAIN queue' PROVE queue[i + 1].task \in Tasks \ {t}
    OBVIOUS
  <2>1. i + 1 # 1 /\ i + 1 \in DOMAIN queue
    BY <1>2
  <2> QED
    BY <1>3, <2>1, InQueue DEF QueueOk
<1>5. \A i \in DOMAIN queue' : pc'[queue'[i].task] = "waiting"
  BY <1>2, <1>4 DEF QueueOk
<1>6. \A i, j \in DOMAIN queue' : queue'[i].task = queue'[j].task => i = j
  BY <1>2 DEF QueueOk
<1>7. \A i \in DOMAIN queue' :
          queue'[i].mode = "write" => Needs(op[queue'[i].task]) \subseteq known \cup toAdd[queue'[i].task]
  BY <1>2 DEF QueueOk
<1> QED
  BY <1>2, <1>5, <1>6, <1>7 DEF QueueOk

LEMMA ServeOk ==
    ASSUME IInv, NEW t \in Tasks, Serve(t)
    PROVE  IInv'
<1>1. /\ queue # <<>> /\ Head(queue).task = t /\ writer = NoTask /\ queue' = Tail(queue)
      /\ UNCHANGED <<table, cached, known, mapHolder, op, toAdd, sqlCols, result>>
  BY DEF Serve, db, cache, locals
<1>2. 1 \in DOMAIN queue /\ queue[1] = Head(queue)
  BY <1>1 DEF IInv, TypesOk
<1>3. pc[t] = "waiting"
  BY <1>1, <1>2 DEF IInv, QueueOk
<1>4. cached /\ mapHolder = NoTask
  BY <1>3 DEF IInv, TypesOk, LocksOk, Outside
<1>5. CASE Head(queue).mode = "read" /\ readers' = readers \cup {t} /\ GoTo(t, "scan") /\ UNCHANGED writer
  <2>1. /\ pc' \in [Tasks -> States] /\ pc'[t] = "scan"
        /\ \A u \in Tasks \ {t} : pc'[u] = pc[u]
    BY <1>5, Moves DEF IInv, States
  <2>2. QueueOk' /\ queue' \in Seq([task : Tasks, mode : {"read", "write"}])
    BY <1>1, <2>1, QueueServed DEF IInv
  <2>3. TypesOk'
    BY <1>1, <1>3, <1>5, <2>1, <2>2 DEF IInv, TypesOk
  <2>4. LocksOk'
    BY <1>1, <1>3, <1>4, <1>5, <2>1 DEF IInv, LocksOk, Reading
  <2>5. SchemaOk'
    BY <1>1, <2>1 DEF IInv, SchemaOk
  <2>6. StatementsOk'
    BY <1>1, <2>1 DEF IInv, StatementsOk
  <2> QED
    BY <2>2, <2>3, <2>4, <2>5, <2>6 DEF IInv
<1>6. CASE Head(queue).mode = "write" /\ readers = {} /\ writer' = t /\ GoTo(t, "alter") /\ UNCHANGED readers
  <2>1. /\ pc' \in [Tasks -> States] /\ pc'[t] = "alter"
        /\ \A u \in Tasks \ {t} : pc'[u] = pc[u]
    BY <1>6, Moves DEF IInv, States
  <2>2. QueueOk' /\ queue' \in Seq([task : Tasks, mode : {"read", "write"}])
    BY <1>1, <2>1, QueueServed DEF IInv
  <2>3. TypesOk'
    BY <1>1, <1>3, <1>6, <2>1, <2>2 DEF IInv, TypesOk
  <2>4. LocksOk'
    <3>1. \A u \in Tasks : pc[u] # "alter"
      BY <1>1, SchemaGuardAssumption DEF IInv, LocksOk
    <3> QED
      BY <1>1, <1>3, <1>4, <1>6, <2>1, <3>1 DEF IInv, LocksOk, Reading
  <2>5. SchemaOk'
    BY <1>1, <2>1 DEF IInv, SchemaOk
  <2>6. Needs(op[t]) \subseteq known \cup toAdd[t]
    BY <1>1, <1>2, <1>6 DEF IInv, QueueOk
  <2>7. StatementsOk'
    BY <1>1, <2>1, <2>6 DEF IInv, StatementsOk
  <2> QED
    BY <2>2, <2>3, <2>4, <2>5, <2>7 DEF IInv
<1> QED
  BY <1>5, <1>6 DEF Serve

LEMMA NeedsColumns ==
    ASSUME NEW o \in Work
    PROVE  Needs(o) \subseteq Columns
  BY SchemaGuardAssumption DEF Needs

LEMMA ScanOk ==
    ASSUME IInv, NEW t \in Tasks, Scan(t)
    PROVE  IInv'
<1> DEFINE missing == Needs(op[t]) \ known
<1>1. /\ pc[t] = "scan"
      /\ \/ missing = {} /\ GoTo(t, "apply") /\ UNCHANGED <<readers, toAdd>>
         \/ /\ readers' = readers \ {t}
            /\ toAdd' = [toAdd EXCEPT ![t] = missing]
            /\ GoTo(t, "upgrade")
      /\ UNCHANGED <<table, cached, known, mapHolder, writer, queue, op, sqlCols, result>>
  BY DEF Scan, db, cache
<1>2. missing \in SUBSET Columns
  BY <1>1, NeedsColumns DEF IInv, TypesOk
<1>3. CASE missing = {} /\ GoTo(t, "apply") /\ UNCHANGED <<readers, toAdd>>
  <2>1. /\ pc' \in [Tasks -> States] /\ pc'[t] = "apply"
        /\ \A u \in Tasks \ {t} : pc'[u] = pc[u]
    BY <1>3, Moves DEF IInv, States
  <2>2. TypesOk'
    BY <1>1, <1>3, <2>1 DEF IInv, TypesOk
  <2>3. LocksOk'
    BY <1>1, <1>3, <2>1 DEF IInv, LocksOk, Reading, Outside
  <2>4. QueueOk'
    BY <1>1, <1>3, <2>1, QueueKept DEF IInv
  <2>5. SchemaOk'
    BY <1>1, <2>1 DEF IInv, SchemaOk
  <2>6. StatementsOk'
    BY <1>1, <1>3, <2>1 DEF IInv, StatementsOk
  <2> QED
    BY <2>2, <2>3, <2>4, <2>5, <2>6 DEF IInv
<1>4. CASE readers' = readers \ {t} /\ toAdd' = [toAdd EXCEPT ![t] = missing] /\ GoTo(t, "upgrade")
  <2>1. /\ pc' \in [Tasks -> States] /\ pc'[t] = "upgrade"
        /\ \A u \in Tasks \ {t} : pc'[u] = pc[u]
    BY <1>4, Moves DEF IInv, States
  <2>2. /\ toAdd' \in [Tasks -> SUBSET Columns]
        /\ toAdd'[t] = missing
        /\ \A u \in Tasks \ {t} : toAdd'[u] = toAdd[u]
    BY <1>2, <1>4 DEF IInv, TypesOk
  <2>3. TypesOk'
    BY <1>1, <2>1, <2>2 DEF IInv, TypesOk
  <2>4. LocksOk'
    BY <1>1, <1>4, <2>1 DEF IInv, LocksOk, Reading, Outside
  <2>5. QueueOk'
    BY <1>1, <2>1, <2>2, QueueKept DEF IInv
  <2>6. SchemaOk'
    BY <1>1, <2>1 DEF IInv, SchemaOk
  <2>7. StatementsOk'
    BY <1>1, <2>1, <2>2 DEF IInv, StatementsOk
  <2> QED
    BY <2>3, <2>4, <2>5, <2>6, <2>7 DEF IInv
<1> QED
  BY <1>1, <1>3, <1>4

\* The table's schema may change: t has it to itself.
LEMMA AlterOk ==
    ASSUME IInv, NEW t \in Tasks, Alter(t)
    PROVE  IInv'
<1>1. /\ pc[t] = "alter" /\ writer = t /\ readers = {} /\ cached
      /\ UNCHANGED <<cached, mapHolder, readers, queue, op, sqlCols>>
  BY SchemaGuardAssumption DEF IInv, LocksOk, Outside, Alter
<1>2. Built(table) /\ known = ColumnsOf(table)
  BY <1>1 DEF IInv, SchemaOk
<1>3. PICK c \in toAdd[t] :
          /\ toAdd' = [toAdd EXCEPT ![t] = @ \ {c}]
          /\ IF c \in known
             THEN UNCHANGED <<table, known, pc, writer, result>>
             ELSE IF ~CanAdd(table, c)
             THEN Return(t, "error") /\ writer' = NoTask /\ UNCHANGED <<table, known>>
             ELSE /\ table' = WithColumn(table, c)
                  /\ known' = known \cup {c}
                  /\ UNCHANGED <<pc, writer, result>>
  BY DEF Alter
<1>4. c \in Columns
  BY <1>3 DEF IInv, TypesOk
<1>5. /\ UNCHANGED <<pc, writer, result>>
      /\ Built(table') /\ known' = ColumnsOf(table')
      /\ known' = known \cup {c}
  <2>1. CASE c \in known
    BY <1>2, <1>3, <2>1
  <2>2. CASE c \notin known
    <3>1. /\ CanAdd(table, c) /\ Built(WithColumn(table, c))
          /\ ColumnsOf(WithColumn(table, c)) = known \cup {c}
      BY <1>2, <1>4, <2>2, ColumnAdded
    <3> QED
      BY <1>3, <2>2, <3>1
  <2> QED
    BY <2>1, <2>2
<1>6. /\ toAdd' \in [Tasks -> SUBSET Columns]
      /\ toAdd'[t] = toAdd[t] \ {c}
      /\ \A u \in Tasks \ {t} : toAdd'[u] = toAdd[u]
  BY <1>3 DEF IInv, TypesOk
<1>7. TypesOk'
  BY <1>1, <1>5, <1>6 DEF IInv, TypesOk
<1>8. LocksOk'
  BY <1>1, <1>5 DEF IInv, LocksOk
<1>9. QueueOk'
  BY <1>1, <1>5, <1>6, QueueKept DEF IInv
<1>10. SchemaOk'
  <2>1. \A u \in Tasks : pc[u] # "create"
    BY <1>1, SchemaGuardAssumption DEF IInv, LocksOk
  <2> QED
    BY <1>1, <1>5, <2>1 DEF IInv, SchemaOk
<1>11. StatementsOk'
  <2>1. \A u \in Tasks : pc[u] \notin {"apply", "commit"}
    BY <1>1 DEF IInv, LocksOk, Reading
  <2>2. \A u \in Tasks : pc[u] \in {"upgrade", "alter"} => Needs(op[u]) \subseteq known' \cup toAdd'[u]
    BY <1>5, <1>6 DEF IInv, StatementsOk
  <2> QED
    BY <1>1, <1>5, <2>1, <2>2 DEF IInv, StatementsOk
<1> QED
  BY <1>7, <1>8, <1>9, <1>10, <1>11 DEF IInv

LEMMA CommitOk ==
    ASSUME IInv, NEW t \in Tasks, Commit(t)
    PROVE  IInv'
<1>1. /\ pc[t] = "commit" /\ cached
      /\ UNCHANGED <<table, cached, known, mapHolder, writer, queue, op, toAdd, sqlCols>>
  BY DEF IInv, LocksOk, Outside, Commit, cache, locals
<1>2. Needs(op[t]) \subseteq ColumnsOf(table)
  BY <1>1 DEF IInv, SchemaOk, StatementsOk
<1>3. GoTo(t, "post") /\ UNCHANGED <<readers, result>>
  BY <1>2 DEF Commit
<1>4. /\ pc' \in [Tasks -> States] /\ pc'[t] = "post"
      /\ \A u \in Tasks \ {t} : pc'[u] = pc[u]
  BY <1>3, Moves DEF IInv, States
<1>5. TypesOk'
  BY <1>1, <1>3, <1>4 DEF IInv, TypesOk
<1>6. LocksOk'
  BY <1>1, <1>3, <1>4 DEF IInv, LocksOk, Reading, Outside
<1>7. QueueOk'
  BY <1>1, <1>4, QueueKept DEF IInv
<1>8. SchemaOk'
  BY <1>1, <1>4 DEF IInv, SchemaOk
<1>9. StatementsOk'
  BY <1>1, <1>3, <1>4 DEF IInv, StatementsOk
<1> QED
  BY <1>5, <1>6, <1>7, <1>8, <1>9 DEF IInv

LEMMA QueueLeft ==
    ASSUME TypesOk, QueueOk, NEW t \in Tasks, LeaveQueue(t), UNCHANGED <<known, op, toAdd>>,
           \A u \in Tasks \ {t} : pc'[u] = pc[u]
    PROVE  QueueOk' /\ queue' \in Seq([task : Tasks, mode : {"read", "write"}])
<1> DEFINE Waiter == [task : Tasks, mode : {"read", "write"}]
<1>1. queue \in Seq(Waiter) /\ Len(queue) \in Nat
  BY DEF TypesOk
<1>2. CASE (\A i \in DOMAIN queue : queue[i].task # t) /\ UNCHANGED queue
  <2>1. \A i \in DOMAIN queue : queue[i].task \in Tasks \ {t}
    BY <1>2, InQueue
  <2> QED
    BY <1>1, <1>2, <2>1 DEF QueueOk
<1>3. ASSUME NEW k \in DOMAIN queue, queue[k].task = t,
             queue' = SubSeq(queue, 1, k - 1) \o SubSeq(queue, k + 1, Len(queue))
      PROVE  QueueOk' /\ queue' \in Seq(Waiter)
  <2> DEFINE from(i) == IF i < k THEN i ELSE i + 1
  <2> HIDE DEF Waiter
  <2>1. /\ queue' \in Seq(Waiter)
        /\ DOMAIN queue' = 1 .. Len(queue) - 1
        /\ \A i \in DOMAIN queue' : queue'[i] = queue[from(i)]
    <3> DEFINE before == SubSeq(queue, 1, k - 1)
               after == SubSeq(queue, k + 1, Len(queue))
    <3>1. k \in 1 .. Len(queue)
      BY <1>1
    <3>2. /\ before \in Seq(Waiter) /\ Len(before) = k - 1
          /\ \A i \in 1 .. k - 1 : before[i] = queue[i]
      BY <1>1, <3>1
    <3>3. /\ after \in Seq(Waiter) /\ Len(after) = Len(queue) - k
          /\ \A i \in 1 .. Len(queue) - k : after[i] = queue[i + k]
      BY <1>1, <3>1
    <3>4. queue' = before \o after
      BY <1>3
    <3> HIDE DEF before, after
    <3>5. queue' \in Seq(Waiter) /\ DOMAIN queue' = 1 .. Len(queue) - 1
      BY <1>1, <3>1, <3>2, <3>3, <3>4
    <3>6. ASSUME NEW i \in 1 .. Len(queue) - 1, i < k PROVE queue'[i] = queue[from(i)]
      <4>1. queue'[i] = before[i]
        BY <1>1, <3>1, <3>2, <3>3, <3>4, <3>6
      <4> QED
        BY <3>1, <3>2, <3>6, <4>1
    <3>7. ASSUME NEW i \in 1 .. Len(queue) - 1, ~(i < k) PROVE queue'[i] = queue[from(i)]
      <4>1. queue'[i] = after[i - Len(before)]
        <5>1. /\ Len(before) \in Nat /\ Len(after) \in Nat
              /\ i \in 1 .. Len(before) + Len(after) /\ i > Len(before)
          BY <1>1, <3>1, <3>2, <3>3, <3>7
        <5> QED
          BY <3>2, <3>3, <3>4, <5>1, ConcatProperties, SMTT(40)
      <4>2. i - Len(before) = i + 1 - k /\ i + 1 - k \in 1 .. Len(queue) - k
        BY <1>1, <3>1, <3>2, <3>7
      <4>3. after[i + 1 - k] = queue[(i + 1 - k) + k]
        BY <3>3, <4>2
      <4>4. (i + 1 - k) + k = i + 1
        BY <1>1, <3>1
      <4> QED
        BY <3>7, <4>1, <4>2, <4>3, <4>4
    <3> QED
      BY <3>5, <3>6, <3>7
  <2>2. \A i \in DOMAIN queue' : from(i) \in DOMAIN queue \ {k}
    BY <1>1, <1>3, <2>1, SMTT(40)
  <2>3. \A i, j \in DOMAIN queue' : from(i) = from(j) => i = j
    BY <1>1, <1>3, <2>1, SMTT(40)
  <2> HIDE DEF from
  <2>4. \A i \in DOMAIN queue' : queue[from(i)].task \in Tasks \ {t}
    BY <1>3, <2>2, InQueue DEF QueueOk
  <2>5. \A i \in DOMAIN queue' : pc'[queue'[i].task] = "waiting"
    BY <2>1, <2>2, <2>4 DEF QueueOk
  <2>6. \A i, j \in DOMAIN queue' : queue'[i].task = queue'[j].task => i = j
    BY <2>1, <2>2, <2>3 DEF QueueOk
  <2>7. \A i \in DOMAIN queue' :
            queue'[i].mode = "write" => Needs(op[queue'[i].task]) \subseteq known \cup toAdd[queue'[i].task]
    BY <2>1, <2>2 DEF QueueOk
  <2> QED
    BY <2>1, <2>5, <2>6, <2>7 DEF QueueOk
<1> QED
  BY <1>2, <1>3 DEF LeaveQueue

\* Whatever t holds is given up at once.
LEMMA AbandonOk ==
    ASSUME IInv, NEW t \in Tasks, Abandon(t)
    PROVE  IInv'
<1>1. /\ pc[t] # "idle" /\ GoTo(t, "idle") /\ result' = [result EXCEPT ![t] = "abandoned"]
      /\ mapHolder' = (IF mapHolder = t THEN NoTask ELSE mapHolder)
      /\ readers' = readers \ {t}
      /\ writer' = (IF writer = t THEN NoTask ELSE writer)
      /\ LeaveQueue(t)
      /\ UNCHANGED <<table, cached, known, op, toAdd, sqlCols>>
  BY DEF Abandon, Return, db, cache, locals
<1>2. /\ pc' \in [Tasks -> States] /\ pc'[t] = "idle"
      /\ \A u \in Tasks \ {t} : pc'[u] = pc[u]
  BY <1>1, Moves DEF IInv, States
<1>3. QueueOk' /\ queue' \in Seq([task : Tasks, mode : {"read", "write"}])
  BY <1>1, <1>2, QueueLeft DEF IInv
<1>4. TypesOk'
  BY <1>1, <1>2, <1>3 DEF IInv, TypesOk
<1>5. LocksOk'
  <2>1. readers' = {u \in Tasks : pc'[u] \in Reading}
    BY <1>1, <1>2 DEF IInv, LocksOk, Reading
  <2>2. \A u \in Tasks : pc'[u] = "alter" <=> writer' = u
    BY <1>1, <1>2, SchemaGuardAssumption DEF IInv, LocksOk
  <2>3. \A u \in Tasks : pc'[u] \in {"describe", "create"} <=> mapHolder' = u
    BY <1>1, <1>2, SchemaGuardAssumption DEF IInv, LocksOk
  <2>4. writer' # NoTask => readers' = {}
    BY <1>1 DEF IInv, LocksOk
  <2>5. /\ mapHolder' # NoTask => ~cached'
        /\ ~cached' => \A u \in Tasks : pc'[u] \in Outside
    BY <1>1, <1>2 DEF IInv, LocksOk, Outside
  <2> QED
    BY <2>1, <2>2, <2>3, <2>4, <2>5 DEF LocksOk
<1>6. SchemaOk'
  BY <1>1, <1>2 DEF IInv, SchemaOk
<1>7. StatementsOk'
  BY <1>1, <1>2 DEF IInv, TypesOk, StatementsOk
<1> QED
  BY <1>3, <1>4, <1>5, <1>6, <1>7 DEF IInv

\* A table that is recognised, and to which what is declared can be added.
LEMMA OpenOk ==
    ASSUME NEW found, found = NoTable \/ Built(found), NEW declares \in BOOLEAN
    PROVE  /\ ~Refused(found, declares)
           /\ Open(found, declares) =>
                  /\ table' = NoTable \/ Built(table')
                  /\ cached' => Built(table') /\ known' = ColumnsOf(table')
<1>1. Named \in SUBSET Columns
  BY SchemaGuardAssumption
<1>2. Built(found) => CanDeclare(found, Named) /\ Built(Declare(found, Named))
  BY Declarable
<1>3. Built(TableWith(Named)) /\ ColumnsOf(TableWith(Named)) = Named
  BY <1>1, TableCreated
<1> QED
  BY <1>2, <1>3 DEF Refused, Open

LEMMA CrashOk ==
    ASSUME IInv, Crash, declared \in BOOLEAN
    PROVE  IInv' /\ declared' \in BOOLEAN
<1>1. /\ mapHolder' = NoTask /\ readers' = {} /\ writer' = NoTask /\ queue' = <<>>
      /\ pc' = [u \in Tasks |-> "idle"]
      /\ UNCHANGED <<op, toAdd, sqlCols>>
  BY DEF Crash, locals
<1>2. PICK declares \in {declared, TRUE},
           found \in IF table = NoTable THEN {table}
                    ELSE {[table EXCEPT !.cols = @ \cup others] : others \in Foreign} :
          /\ declared' = declares
          /\ IF Refused(found, declares)
             THEN result' = [u \in Tasks |-> "error"] /\ UNCHANGED <<table, cache>>
             ELSE Open(found, declares) /\ result' = [u \in Tasks |-> "abandoned"]
  BY DEF Crash
<1>3. found = NoTable \/ Built(found)
  BY <1>2, OthersAdded DEF IInv, SchemaOk
<1>4. declares \in BOOLEAN
  OBVIOUS
<1>5. /\ table' = NoTable \/ Built(table')
      /\ cached' => Built(table') /\ known' = ColumnsOf(table')
      /\ result' = [u \in Tasks |-> "abandoned"]
  BY <1>2, <1>3, <1>4, OpenOk
<1>6. TypesOk'
  BY <1>1, <1>5 DEF IInv, TypesOk, States
<1>7. LocksOk'
  BY <1>1, SchemaGuardAssumption DEF LocksOk, Reading, Outside
<1>8. QueueOk'
  BY <1>1 DEF QueueOk
<1>9. SchemaOk'
  BY <1>1, <1>5 DEF SchemaOk
<1>10. StatementsOk'
  BY <1>1, <1>5 DEF StatementsOk
<1> QED
  BY <1>2, <1>4, <1>6, <1>7, <1>8, <1>9, <1>10 DEF IInv

-----------------------------------------------------------------------------
(* Theorems *)

Safe == IInv /\ declared \in BOOLEAN

LEMMA InitOk == Init => Safe
<1> SUFFICES ASSUME Init PROVE IInv /\ declared \in BOOLEAN
  BY DEF Safe
<1>1. /\ table = (IF Declared THEN TableWith(Named) ELSE NoTable)
      /\ declared = Declared /\ cached = Declared /\ known = ColumnsOf(table)
      /\ mapHolder = NoTask /\ readers = {} /\ writer = NoTask /\ queue = <<>>
      /\ pc = [u \in Tasks |-> "idle"]
      /\ op \in [Tasks -> {CHOOSE o \in Work : TRUE}]
      /\ toAdd = [u \in Tasks |-> {}]
      /\ sqlCols = [u \in Tasks |-> {}]
      /\ result = [u \in Tasks |-> "ok"]
  BY DEF Init
<1>2. Named \in SUBSET Columns /\ Declared \in BOOLEAN
  BY SchemaGuardAssumption
<1>3. Built(TableWith(Named))
  BY <1>2, TableCreated
<1>4. TypesOk
  BY <1>1 DEF TypesOk, States
<1>5. LocksOk
  BY <1>1, SchemaGuardAssumption DEF LocksOk, Reading, Outside
<1>6. QueueOk
  BY <1>1 DEF QueueOk
<1>7. SchemaOk
  BY <1>1, <1>2, <1>3 DEF SchemaOk
<1>8. StatementsOk
  BY <1>1 DEF StatementsOk
<1> QED
  BY <1>1, <1>2, <1>4, <1>5, <1>6, <1>7, <1>8 DEF IInv

LEMMA StepOk ==
    ASSUME IInv, NEW t \in Tasks, Call(t) \/ Step(t) \/ Abandon(t)
    PROVE  IInv' /\ UNCHANGED declared
<1>1. IInv'
  BY CallOk, FindOk, LockMapOk, DescribeOk, CreateOk, ServeOk, ScanOk, UpgradeOk, AlterOk,
     DowngradeOk, ApplyOk, CommitOk, PostApplyOk, AbandonOk DEF Step
<1>2. UNCHANGED declared
  BY DEF Step, Call, Find, LockMap, Describe, Create, Serve, Scan, Upgrade, Alter, Downgrade,
         Apply, Commit, PostApply, Abandon, db
<1> QED
  BY <1>1, <1>2

LEMMA NextOk == Safe /\ [Next]_vars => Safe'
<1> SUFFICES ASSUME IInv, declared \in BOOLEAN, [Next]_vars PROVE IInv' /\ declared' \in BOOLEAN
  BY DEF Safe
<1>1. CASE UNCHANGED vars
  <2>1. UNCHANGED <<table, declared, cached, known, mapHolder, readers, writer, queue, pc,
                    op, toAdd, sqlCols, result>>
    BY <1>1 DEF vars, db, cache, locks, locals
  <2> QED
    BY <2>1 DEF IInv, TypesOk, LocksOk, QueueOk, SchemaOk, StatementsOk
<1>2. ASSUME NEW t \in Tasks, Call(t) \/ Step(t) \/ Abandon(t) PROVE IInv' /\ declared' \in BOOLEAN
  <2>1. IInv' /\ UNCHANGED declared
    BY <1>2, StepOk
  <2> QED
    BY <2>1
<1>3. CASE Crash
  BY <1>3, CrashOk
<1> QED
  BY <1>1, <1>2, <1>3 DEF Next

LEMMA AlwaysOk == Spec => []Safe
  BY InitOk, NextOk, PTL DEF Spec

(***************************************************************************)
(* When a statement runs the table has the columns it was generated from   *)
(* and no others: for any callers, columns and operations, and whatever    *)
(* fails, is dropped or crashes.                                           *)
(***************************************************************************)
THEOREM SchemaGuardSchemaFrozen == Spec => []SchemaFrozen
<1>1. Safe => SchemaFrozen
  <2> SUFFICES ASSUME IInv, NEW t \in Tasks, pc[t] = "commit" PROVE sqlCols[t] = ColumnsOf(table)
    BY DEF Safe, SchemaFrozen
  <2>1. cached
    BY DEF IInv, LocksOk, Outside
  <2> QED
    BY <2>1 DEF IInv, SchemaOk, StatementsOk
<1> QED
  BY <1>1, AlwaysOk, PTL

(***************************************************************************)
(* No call is refused by the database, and no table is taken for another's *)
(* or found to be damaged, whatever columns other builds have added.       *)
(***************************************************************************)
THEOREM SchemaGuardCallsSucceed == Spec => []CallsSucceed
<1>1. Safe => CallsSucceed
  BY DEF Safe, IInv, StatementsOk, CallsSucceed
<1> QED
  BY <1>1, AlwaysOk, PTL

-----------------------------------------------------------------------------
(* The statements merge the row as TableMerge says *)

(***************************************************************************)
(* A column the table does not have reads as its defaults, so that a       *)
(* delete that clears the columns there are clears them all.               *)
(***************************************************************************)
RowOk ==
    /\ row \in T!PhysicalRows
    /\ \A c \in Columns \ ColumnsOf(table) : row.val[c] = Null /\ row.lww[c] = 0
    /\ applied \in SUBSET Work

LEMMA MoreColumns ==
    ASSUME NEW tab, NEW new, tab.cols \subseteq new.cols
    PROVE  ColumnsOf(tab) \subseteq ColumnsOf(new)
  BY DEF ColumnsOf, Names

LEMMA ColumnsPlus ==
    ASSUME NEW tab, Built(tab), NEW more
    PROVE  ColumnsOf(tab) \subseteq ColumnsOf([tab EXCEPT !.cols = @ \cup more])
<1> DEFINE new == [tab EXCEPT !.cols = @ \cup more]
<1>1. new.cols = tab.cols \cup more
  BY ColsAdded
<1> HIDE DEF new
<1>2. ColumnsOf(tab) \subseteq ColumnsOf(new)
  BY <1>1, MoreColumns
<1> QED
  BY <1>2 DEF new

LEMMA NoColumns == ColumnsOf(NoTable) = {}
  BY DEF ColumnsOf, Names, NoTable

\* Nobody takes a column away, other builds included.
LEMMA ColumnsStay ==
    ASSUME IInv, [Next]_vars
    PROVE  ColumnsOf(table) \subseteq ColumnsOf(table)'
<1>1. CASE UNCHANGED table
  BY <1>1 DEF ColumnsOf
<1>2. ASSUME NEW t \in Tasks, Create(t) PROVE ColumnsOf(table) \subseteq ColumnsOf(table)'
  <2>1. table = NoTable \/ table' = table
    BY <1>2 DEF Create
  <2> QED
    BY <1>1, <2>1, NoColumns
<1>3. ASSUME NEW t \in Tasks, Alter(t) PROVE ColumnsOf(table) \subseteq ColumnsOf(table)'
  <2>1. Built(table)
    BY <1>3 DEF IInv, LocksOk, Outside, SchemaOk, Alter
  <2>2. \/ UNCHANGED table
        \/ \E c \in toAdd[t] : table' = WithColumn(table, c)
    BY <1>3, Zenon DEF Alter
  <2>3. ASSUME NEW c, table' = WithColumn(table, c)
        PROVE  ColumnsOf(table) \subseteq ColumnsOf(table)'
    <3>1. table' = [table EXCEPT !.cols = @ \cup Pair(c)]
      BY <2>3, Zenon DEF WithColumn
    <3>2. ColumnsOf(table) \subseteq ColumnsOf(table')
      BY <2>1, <3>1, ColumnsPlus
    <3> QED
      BY <3>2 DEF ColumnsOf
  <2> QED
    BY <1>1, <2>2, <2>3
<1>4. CASE Crash
  <2>1. PICK declares \in {declared, TRUE},
             found \in IF table = NoTable THEN {table}
                      ELSE {[table EXCEPT !.cols = @ \cup others] : others \in Foreign} :
            IF Refused(found, declares) THEN UNCHANGED table ELSE Open(found, declares)
    BY <1>4, Zenon DEF Crash
  <2>2. CASE table = NoTable \/ UNCHANGED table
    BY <1>1, <2>2, NoColumns
  <2>3. CASE table # NoTable /\ ~Refused(found, declares)
    <3>1. PICK others \in Foreign : found = [table EXCEPT !.cols = @ \cup others]
      BY <2>3
    <3>2. Built(table) /\ Built(found) /\ ColumnsOf(table) \subseteq ColumnsOf(found)
      BY <2>3, <3>1, OthersAdded, ColumnsPlus DEF IInv, SchemaOk
    <3>3. ColumnsOf(found) \subseteq ColumnsOf(table')
      <4>1. CASE found = NoTable
        BY <4>1, NoColumns
      <4>2. CASE table' = found
        BY <4>2
      <4>3. CASE table' = Declare(found, Named)
        BY <3>2, <4>3, ColumnsPlus DEF Declare
      <4> QED
        BY <2>1, <2>3, <4>1, <4>2, <4>3 DEF Open
    <3>4. ColumnsOf(table') = ColumnsOf(table)'
      BY DEF ColumnsOf
    <3> QED
      BY <3>2, <3>3, <3>4
  <2> QED
    BY <2>1, <2>2, <2>3
<1>5. ASSUME NEW t \in Tasks, Call(t) \/ Step(t) \/ Abandon(t), ~Create(t), ~Alter(t)
      PROVE  UNCHANGED table
  BY <1>5 DEF Step, Call, Find, LockMap, Describe, Serve, Scan, Upgrade, Downgrade, Apply,
              Commit, PostApply, Abandon, db
<1>6. CASE UNCHANGED vars
  BY <1>1, <1>6 DEF vars, db
<1>7. ASSUME NEW t \in Tasks, Call(t) \/ Step(t) \/ Abandon(t)
      PROVE  ColumnsOf(table) \subseteq ColumnsOf(table)'
  <2>1. CASE Create(t)
    BY <1>2, <2>1
  <2>2. CASE Alter(t)
    BY <1>3, <2>2
  <2>3. CASE ~Create(t) /\ ~Alter(t)
    BY <1>1, <1>5, <1>7, <2>3
  <2> QED
    BY <2>1, <2>2, <2>3
<1> QED
  BY <1>4, <1>6, <1>7 DEF Next

LEMMA WorkFields ==
    ASSUME NEW o \in Work
    PROVE  /\ o.ts \in Times /\ o.kind \in {"upsert", "delete"}
           /\ o.kind = "upsert" => \A c \in DOMAIN o.sets : o.sets[c] \in T!Cells
<1>1. o \in T!Upserts \/ o \in T!Deletes
  BY WorkAssumption, Zenon DEF T!Ops
<1>2. CASE o \in T!Deletes
  BY <1>2, Zenon DEF T!Deletes
<1>3. CASE o \in T!Upserts
  <2>1. /\ o.ts \in Times /\ o.kind = "upsert"
        /\ o.sets \in UNION {[C -> T!Cells] : C \in SUBSET Columns}
    BY <1>3, Zenon DEF T!Upserts
  <2>2. PICK C \in SUBSET Columns : o.sets \in [C -> T!Cells]
    BY <2>1, Zenon
  <2> QED
    BY <2>1, <2>2, Zenon
<1> QED
  BY <1>1, <1>2, <1>3

LEMMA RowFields ==
    ASSUME NEW m \in T!PhysicalRows
    PROVE  /\ m.up \in Times \cup {0} /\ m.del \in Times \cup {0}
           /\ m.val \in [Columns -> T!Cells] /\ m.lww \in [Columns -> Times \cup {0}]
  BY Zenon DEF T!PhysicalRows

LEMMA LaterTime ==
    ASSUME NEW s \in Times \cup {0}, NEW t \in Times \cup {0}
    PROVE  T!Later(s, t) \in Times \cup {0}
  BY Zenon DEF T!Later

\* What the table cannot hold there is nothing of to clear.
LEMMA DeletedIsAll ==
    ASSUME RowOk, NEW o \in Work
    PROVE  /\ T!AfterDelete(row, o) \in T!PhysicalRows
           /\ \A c \in Columns \ ColumnsOf(table) :
                 T!AfterDelete(row, o).val[c] = Null /\ T!AfterDelete(row, o).lww[c] = 0
           /\ Deleted(row, o, ColumnsOf(table)) = T!AfterDelete(row, o)
<1> DEFINE val == [c \in Columns |-> IF row.lww[c] < o.ts THEN Null ELSE row.val[c]]
           lww == [c \in Columns |-> IF row.lww[c] < o.ts THEN 0 ELSE row.lww[c]]
           del == T!Later(row.del, o.ts)
           gone == [row EXCEPT !.present = TRUE, !.del = del, !.val = val, !.lww = lww]
           cols == ColumnsOf(table)
<1>1. T!AfterDelete(row, o) = gone
  BY Zenon DEF T!AfterDelete
<1>2. row \in T!PhysicalRows /\ \A c \in Columns \ cols : row.val[c] = Null /\ row.lww[c] = 0
  BY Zenon DEF RowOk
<1>3. \A c \in Columns \ cols : val[c] = Null /\ lww[c] = 0 /\ row.val[c] = Null /\ row.lww[c] = 0
  BY <1>2
<1>4. /\ [c \in Columns |-> IF c \in cols THEN val[c] ELSE row.val[c]] = val
      /\ [c \in Columns |-> IF c \in cols THEN lww[c] ELSE row.lww[c]] = lww
  <2>1. \A c \in Columns :
            /\ (IF c \in cols THEN val[c] ELSE row.val[c]) = val[c]
            /\ (IF c \in cols THEN lww[c] ELSE row.lww[c]) = lww[c]
    BY <1>3
  <2>2. val = [c \in Columns |-> val[c]] /\ lww = [c \in Columns |-> lww[c]]
    OBVIOUS
  <2> HIDE DEF val, lww, cols
  <2> QED
    BY <2>1, <2>2, Zenon
<1>5. /\ val \in [Columns -> T!Cells] /\ lww \in [Columns -> Times \cup {0}]
      /\ del \in Times \cup {0}
  <2>1. /\ \A c \in Columns : row.val[c] \in T!Cells /\ row.lww[c] \in Times \cup {0}
        /\ Null \in T!Cells /\ o.ts \in Times \cup {0} /\ row.del \in Times \cup {0}
    BY <1>2, RowFields, WorkFields, Zenon DEF T!Cells
  <2> QED
    BY <2>1, LaterTime, Zenon
<1> HIDE DEF val, lww, del, cols
<1>6. gone \in T!PhysicalRows /\ gone.val = val /\ gone.lww = lww
  BY <1>2, <1>5, Zenon DEF T!PhysicalRows
<1> HIDE DEF gone
<1>7. Deleted(row, o, cols) = [gone EXCEPT !.val = val, !.lww = lww]
  BY <1>1, <1>4, <1>6, Zenon DEF Deleted
<1>8. [gone EXCEPT !.val = val, !.lww = lww] = gone
  <2> DEFINE same == [gone EXCEPT !.val = val, !.lww = lww]
  <2>1. /\ same \in T!PhysicalRows /\ same.present = gone.present /\ same.up = gone.up
        /\ same.del = gone.del /\ same.val = gone.val /\ same.lww = gone.lww
    BY <1>5, <1>6, Zenon DEF T!PhysicalRows
  <2> HIDE DEF same
  <2>2. same = gone
    BY <1>6, <2>1 DEF T!PhysicalRows
  <2> QED
    BY <2>2 DEF same
<1> QED
  BY <1>1, <1>3, <1>6, <1>7, <1>8, Zenon DEF cols

LEMMA UpsertOk ==
    ASSUME RowOk, NEW o \in Work, o.kind = "upsert", Needs(o) \subseteq ColumnsOf(table)
    PROVE  /\ T!AfterUpsert(row, o) \in T!PhysicalRows
           /\ \A c \in Columns \ ColumnsOf(table) :
                 T!AfterUpsert(row, o).val[c] = Null /\ T!AfterUpsert(row, o).lww[c] = 0
<1> DEFINE val == [c \in Columns |->
                      IF c \in DOMAIN o.sets /\ T!Wins(row, o, c) THEN o.sets[c] ELSE row.val[c]]
           lww == [c \in Columns |->
                      IF c \in DOMAIN o.sets THEN T!Later(row.lww[c], o.ts) ELSE row.lww[c]]
           up == T!Later(row.up, o.ts)
           after == [row EXCEPT !.present = TRUE, !.up = up, !.val = val, !.lww = lww]
<1>1. T!AfterUpsert(row, o) = after
  BY Zenon DEF T!AfterUpsert
<1>2. row \in T!PhysicalRows /\ \A c \in Columns \ ColumnsOf(table) : row.val[c] = Null /\ row.lww[c] = 0
  BY Zenon DEF RowOk
<1>3. DOMAIN o.sets \subseteq ColumnsOf(table)
  BY DEF Needs
<1>4. \A c \in Columns \ ColumnsOf(table) : val[c] = Null /\ lww[c] = 0
  BY <1>2, <1>3
<1>5. /\ val \in [Columns -> T!Cells] /\ lww \in [Columns -> Times \cup {0}]
      /\ up \in Times \cup {0}
  <2>1. /\ \A c \in Columns : row.val[c] \in T!Cells /\ row.lww[c] \in Times \cup {0}
        /\ o.ts \in Times \cup {0} /\ row.up \in Times \cup {0}
        /\ \A c \in DOMAIN o.sets : o.sets[c] \in T!Cells
    BY <1>2, RowFields, WorkFields, Zenon
  <2> QED
    BY <2>1, LaterTime, Zenon
<1> HIDE DEF val, lww, up
<1>6. after \in T!PhysicalRows /\ after.val = val /\ after.lww = lww
  BY <1>2, <1>5, Zenon DEF T!PhysicalRows
<1> QED
  BY <1>1, <1>4, <1>6, Zenon

\* The operation is one of those that T may issue.
LEMMA MayIssue ==
    ASSUME NEW o \in Work, NEW S \in SUBSET Work
    PROVE  o \in S \/ Cardinality(S) < Cardinality(Work)
<1> SUFFICES ASSUME o \notin S PROVE Cardinality(S) < Cardinality(Work)
  OBVIOUS
<1>1. IsFiniteSet(Work)
  BY WorkAssumption
<1>2. /\ IsFiniteSet(S) /\ Cardinality(S) <= Cardinality(Work)
      /\ Cardinality(Work) = Cardinality(S) => Work = S
  BY <1>1, FS_Subset
<1>3. Cardinality(Work) # Cardinality(S)
  BY <1>2
<1>4. Cardinality(Work) \in Nat /\ Cardinality(S) \in Nat
  BY <1>1, <1>2, FS_CardinalityType
<1> QED
  BY <1>2, <1>3, <1>4

\* TableMerge counts as SchemaGuard does.
LEMMA SameCardinality == \A S : T!Cardinality(S) = Cardinality(S)
  BY Zenon DEF T!Cardinality, Cardinality

LEMMA IssuedIs == T!Issued = applied
<1>1. [r \in {"self"} |-> applied]["self"] = applied
  OBVIOUS
<1> QED
  BY <1>1 DEF T!Issued

\* TableMerge's row, event and history, seen from here.
LEMMA Mapped ==
    ASSUME NEW x, NEW y
    PROVE  /\ [r \in {"self"} |-> x]["self"] = x
           /\ [r \in {"self"} |-> y] = [[r \in {"self"} |-> x] EXCEPT !["self"] = y]
  OBVIOUS

LEMMA CommitMerges ==
    ASSUME IInv, RowOk, NEW t \in Tasks, Commit(t)
    PROVE  RowOk' /\ T!MergeNext
<1> DEFINE o == op[t]
<1>1. /\ o \in Work /\ UNCHANGED table /\ Needs(o) \subseteq ColumnsOf(table)
      /\ sqlCols[t] = ColumnsOf(table)
  BY DEF IInv, TypesOk, LocksOk, Outside, SchemaOk, StatementsOk, Commit
<1>2. /\ applied' = applied \cup {o}
      /\ IF o.kind = "upsert" THEN RunUpsert(o) ELSE RunDelete(o, ColumnsOf(table))
  BY <1>1 DEF Commit
<1> HIDE DEF o
<1>3. o \in T!Ops /\ o.kind \in {"upsert", "delete"}
  BY <1>1, WorkFields, WorkAssumption
<1>4. ColumnsOf(table)' = ColumnsOf(table)
  BY <1>1 DEF ColumnsOf
<1>5. applied' \in SUBSET Work
  BY <1>1, <1>2 DEF RowOk
<1>6. o \in T!Issued \/ Cardinality(T!Issued) < Cardinality(Work)
  BY <1>1, IssuedIs, MayIssue DEF RowOk
<1>7. [r \in {"self"} |-> applied]'
        = [[r \in {"self"} |-> applied] EXCEPT !["self"] = @ \cup {o}]
  BY <1>2
<1>8. ASSUME T!Upsert("self", o) \/ T!Delete("self", o) PROVE T!MergeNext
  <2>1. "self" \in {"self"}
    OBVIOUS
  <2> QED
    BY <1>3, <1>6, <1>7, <1>8, <2>1, SameCardinality, Zenon DEF T!MergeNext
<1>9. CASE o.kind = "upsert"
  <2>1. RunUpsert(o)
    BY <1>2, <1>9
  <2>2. T!Upsert("self", o)
    BY <1>9, <2>1, Mapped DEF RunUpsert, T!Upsert
  <2>3. row' = row \/ row' = T!AfterUpsert(row, o)
    BY <2>1 DEF RunUpsert
  <2>4. RowOk'
    BY <1>1, <1>4, <1>5, <1>9, <2>3, UpsertOk DEF RowOk
  <2> QED
    BY <1>8, <2>2, <2>4, Zenon
<1>10. CASE o.kind = "delete"
  <2>1. RunDelete(o, ColumnsOf(table))
    BY <1>2, <1>10
  <2>2. T!Delete("self", o)
    BY <1>1, <1>10, <2>1, DeletedIsAll, Mapped DEF RunDelete, T!Delete
  <2>3. row' = row \/ row' = T!AfterDelete(row, o)
    BY <1>1, <2>1, DeletedIsAll DEF RunDelete
  <2>4. RowOk'
    BY <1>1, <1>4, <1>5, <2>3, DeletedIsAll DEF RowOk
  <2> QED
    BY <1>8, <2>2, <2>4, Zenon
<1> QED
  BY <1>3, <1>9, <1>10

LEMMA MergeStep ==
    ASSUME IInv, RowOk, [Next]_vars
    PROVE  RowOk' /\ [T!MergeNext]_(T!mergeVars)
<1>1. CASE UNCHANGED <<row, event, applied>>
  <2>1. RowOk'
    BY <1>1, ColumnsStay DEF RowOk
  <2> QED
    BY <1>1, <2>1 DEF T!mergeVars
<1>2. ASSUME NEW t \in Tasks, Commit(t) PROVE RowOk' /\ [T!MergeNext]_(T!mergeVars)
  BY <1>2, CommitMerges
<1>3. ASSUME NEW t \in Tasks, Call(t) \/ Step(t) \/ Abandon(t), ~Commit(t)
      PROVE  UNCHANGED <<row, event, applied>>
  BY <1>3 DEF Step, Call, Find, LockMap, Describe, Create, Serve, Scan, Upgrade, Alter,
              Downgrade, Apply, PostApply, Abandon, db
<1>4. CASE Crash
  BY <1>1, <1>4 DEF Crash
<1>5. CASE UNCHANGED vars
  BY <1>1, <1>5 DEF vars, db
<1>6. ASSUME NEW t \in Tasks, Call(t) \/ Step(t) \/ Abandon(t)
      PROVE  RowOk' /\ [T!MergeNext]_(T!mergeVars)
  <2>1. CASE Commit(t)
    BY <1>2, <2>1
  <2>2. CASE ~Commit(t)
    BY <1>1, <1>3, <1>6, <2>2
  <2> QED
    BY <2>1, <2>2
<1> QED
  BY <1>4, <1>5, <1>6 DEF Next

(***************************************************************************)
(* With any number of callers, columns that come while they work, dropped  *)
(* calls and crashes, the statements merge the row as TableMerge says: a   *)
(* delete clears what the table holds, although it was generated earlier.  *)
(***************************************************************************)
THEOREM SchemaGuardImplementsTableMerge == Spec => ImplementsTableMerge
<1>1. Init => RowOk /\ T!MergeInit
  <2> SUFFICES ASSUME Init PROVE RowOk /\ T!MergeInit
    OBVIOUS
  <2>1. row = T!NoRow /\ event = T!NoEvent /\ applied = {}
    BY DEF Init
  <2>2. T!NoRow \in T!PhysicalRows
    BY Zenon DEF T!NoRow, T!PhysicalRows, T!Cells
  <2>3. \A c \in Columns : T!NoRow.val[c] = Null /\ T!NoRow.lww[c] = 0
    BY DEF T!NoRow
  <2> QED
    BY <2>1, <2>2, <2>3 DEF RowOk, T!MergeInit
<1>2. Safe /\ RowOk /\ [Next]_vars => RowOk' /\ [T!MergeNext]_(T!mergeVars)
  BY MergeStep DEF Safe
<1>3. Spec => [](Safe /\ RowOk)
  BY <1>1, <1>2, InitOk, NextOk, PTL DEF Spec
<1> QED
  BY <1>1, <1>2, <1>3, PTL DEF Spec, ImplementsTableMerge, T!MergeSpec

=============================================================================
