# Ubiquisync in TLA+

TLA+ models of ubiquisync, TLC configurations that check them on small instances, and
theorems about them that TLAPS proves for every instance. Paths such as
`ubiquisync-sql/src/replica/exec.rs` are relative to `crates/`.

Contents: [the system](#the-system), [inventory](#inventory),
[modules](#modules-and-the-code), [runs](#runs), [fairness](#fairness),
[theorems](#theorems), [where code and documents
differ](#where-code-and-documents-differ), [what is left out](#what-is-left-out),
[plan](#plan).

## The system

A *replica* is a library inside an application. It keeps append-only *streams* (one log
per peer and container) in a SQL database, stamps each entry with a *hybrid logical
clock*, binds the entries of a stream in a *hash chain*, and materialises their
operations into SQL tables with a last-writer-wins merge. *Change events* of the tables
go to subscribers. For other peers the logs are cut into signed *segments*, gathered in
*packs*, and published in a shared directory.

    application ── exec() ──> Replica ── lock ──> KeyedLock        (per stream)
                                 │── local_hlc() ─> Hlc            (one per replica)
                                 │── prepare/apply/post_apply ──> tables reducer
                                 │── one batch ──> database        (clock, segment,
                                 │                                  head, rows)
                                 └── publish ──> event bus ──> subscriptions

    log entries ── hash chain, cipher ──> segments ── join ──> packs ──> directory
                                                                  ^
                                   other peers list, read, verify ┘

Calls of one replica run concurrently as asynchronous tasks on any number of threads.
What they share is the table of stream locks, the clock (an `AtomicU64`), the reducer's
cached schema (behind read-write locks), the event bus (behind a mutex) and the
database. The process may end anywhere; what is left is the database and the shared
directory. Ingestion of other peers' entries is designed (`docs/ctl-design.md`) and not
written: `observe_remote_hlc`, `commit_err`, `PackStore` and `join_segments` have no
caller in the repository yet.

## Inventory

| Component | State | Operations | Hard about it | Correct if |
|---|---|---|---|---|
| Hybrid clock: `ubiquisync-core/src/hlc/mod.rs`, `ubiquisync-sql/src/replica/hlc.rs` | the `AtomicU64`, one database row | `local_hlc`, `observe_remote_hlc`, `load_hlc` | compare-and-swap loop; the stored clock follows when the batch commits; carry and overflow; a remote clock that is wrong | timestamps are never reused, across restarts; an entry is above what its author had stored; the lead over the wall clock is bounded |
| Keyed stream lock: `…/replica/stream_lock.rs` | map from key to a weak mutex | `lock`, guard's destructor, dropped futures | the destructor unlocks, drops and cleans up in three steps | one holder per key; every waiter served; the map does not leak |
| Local writes: `…/replica/exec.rs`, `schema.rs` | stream and segment rows | `exec` | a row inserted before the batch; locals read before an await; errors and crashes anywhere; the stalled-commit path | one row per stream; segments are the chain; tables hold the log's operations; events follow the log |
| Opening: `…/replica/init.rs`, `ubiquisync-core/src/init.rs` | identity row, tables | `Replica::new` | look, then insert: tasks that share a handle, another process, crashes and failures between | one identity; its owner is never turned away; the clock continues |
| Tables merge: `ubiquisync-tables/src/reducer/upsert.rs`, `delete.rs` | table rows | upsert, delete, their events | conditional SQL, ties, tombstones, operations late and repeated | the row is a function of the set of operations; events tell exactly what changed |
| Tables schema: `…/reducer/mod.rs`, `schema.rs`, `physical_schema.rs` | cached tables and columns, two levels of locks | find, recognise or create a table, add columns, guard | look before lock, lock upgrade, guard held across a commit, dropped calls; columns an earlier or another build made | SQL meets the schema it was generated from; no DDL collides; no deadlock |
| Event bus: `ubiquisync-core/src/event.rs`, `ubiquisync-tables/src/watch.rs` | senders per target, channels | subscribe, publish, poll, drop | cutting off in the middle of a fan-out; destructors | a stream is what was published, or a prefix and its end; the map does not leak |
| Log chain and segments: `ubiquisync-core/src/log/*` | none; the formats are the state | encrypt, hash, sign, encode, verify, join | cipher in force carried along, left out of headers where implied; signatures drop out | any packaging verifies under the author's signature and holds the author's entries |
| Packs and file remote: `ubiquisync-core/src/pack/{store,remote,filename,header}.rs` | files | write, list, read, delete | two files per pack, no locks, crashes, readers in between | a listed pack is complete; what was published stays readable |
| Pack builder: `…/pack/builder.rs` | a header and a body being built | add segments, build | offsets against the body, chain hash per container | each descriptor finds its segment |
| Validation, codecs, identifiers, column types | none | conversions | boundaries, canonical forms | decode inverts encode; what is accepted is canonical |
| SQL layer and SQLite: `ubiquisync-sql/src/db/*`, `ubiquisync-sqlite/src/lib.rs` | a file lock, a connection behind a mutex | single statements, batches, queries, describing a table, values of columns | `changes()` read after a statement; a statement that fails half way through a batch; a poisoned mutex | a call takes effect at one instant or not at all, its counts are its own; values read are those written |
| Postgres | – | – | a stub | – |
| Cryptography | none | primitives | – | assumed: injective hashes, unforgeable signatures |
| Macros, store, umbrella crate, benches, test support | none | wrappers | – | – |

`PROJECT.json` lists these with their files, and the hazards of the code with the line
where each bites.

## Modules and the code

**`Hlc`** (operators) is `hlc/mod.rs`: `FromParts`, `Bump` (with the carry),
`NextLocal`, `NextAfter`, and `WithinSkew` of `replica/hlc.rs`. The code packs a
timestamp in one integer; the module keeps the parts apart and `HlcProofs` shows that
both orders are one. `Overflow` is the error value.

**`KeyedLock`** is `stream_lock.rs` with the weak table, `Arc` counts and the destructor
in its three steps: `Unlock` and `DropArc` are what happens when the inner guard is
taken out, `Clean` is the look at `strong_count` under the table's mutex. `Lookup` is
the synchronous half of `lock()`, `Acquire` the await, `Cancel` a dropped future. It
implements **`KeyMutex`**, one plain lock per key.

**`Replica`** is `exec()` and what it calls, one action per stretch between two points
where another task may run: `LockStream`, `SelectStream`, `InsertStream` (a statement of
its own, committed at once), `ReadClock` and `SwapClock` (one round of `update_hlc`'s
loop; a spurious failure of `compare_exchange_weak` is a stutter), `Prepare`,
`CommitBatch`, `PostApply`. `Abandon` is any error or dropped future, `Crash` and `Open`
the process. The lock is `KeyMutex` and the clock is `Hlc`, so this module composes the
three. A chain hash is the sequence of entries under it. It implements **`OpLog`**:
append-only logs whose timestamps never repeat and whose operations reach the tables in
order.

One reducer has one container id (`ubiquisync-tables/src/codec.rs:34`), so the calls of
one table store all queue for one stream's lock; two streams mean two reducers, or a
later use of several containers. The model allows several.

**`HlcPeers`** composes the clocks of several replicas that exchange entries: `Local`,
`Observe`, then `Commit` or `Fail` of the batch in any order, `Restart`.

**`TableMerge`** is the SQL of `apply_upsert` and `apply_delete` as a state change of
one row (`Upserted` is the `ON CONFLICT … WHERE`, `AfterUpsert` the `SET` clauses,
`Reported` the `RETURNING`), the events of `post_upsert` and `post_delete`, and the
view. Replicas apply any operations in any order, with repetitions. The reference
definition (`ColumnIsMerge`, `Stands`) does not mention the statements: a column holds
the greatest write that no delete is newer than.

**`SchemaGuard`** is what `prepare()`, `apply()` and `post_apply()` do to the cached
schema: the map's lock and the table's first-come-first-served read-write lock, looking
for the table (`Describe`), creating it, upgrading to a write lock for missing columns,
generating SQL from the columns known (`Apply`), running it (`Commit`), releasing the
guard. After a crash, `Open` is the next run: the same build or one that declares the
table by name (`new_named`), and meanwhile another build may have added columns. It
*uses* `TableMerge`'s operators through `INSTANCE` for what a statement does and
implements `TableMerge`'s specification. Its `event` is what the statement's result
amounts to; the code publishes it only for a declared table.

**`PhysicalTable`** (operators) is the table behind it: `physical_schema.rs`,
`col_type.rs` and `describe_table()`. A table is its key columns in order and the set of
the others; `TableWith` and `WithColumn` are the DDL, `Affinity` what SQLite then
reports, `Recognised` what `new_from_db_descriptor()` accepts.

**`ReplicaInit`** is `Replica::new()`, one action per database call it awaits (`Start`,
`LoadHlc`, `LookUp`, `Identify`, `Inserted`), for tasks that share a handle, tasks of
another process, and callers who bring other keys or another application. An open
replica goes on to save and to query (`Use`). It extends **`SqliteDb`**, the backend of
`ubiquisync-sqlite`: the exclusive lock on the file, the connection's mutex and its
poisoning, a batch as a transaction with one step per statement, `changes()` after each
statement. What statements do to the replica's tables is **`ReplicaTables`**
(operators): `schema.rs` and the SQL of `init.rs`, `hlc.rs`, `exec.rs`. It implements
**`AtomicDb`**, what the traits `Db` and `DbBatch` promise and every other module
assumes of a batch.

**`EventBus`** is `event.rs` and `ChangeEvent::targets` of `watch.rs`. Publish,
subscribe and the destructor run under one mutex and are one step each.

**`LogChain`** (operators) is `log/hash.rs`, `cipher.rs` and `verify.rs` with symbolic
cryptography: a chain hash is the sequence of what was hashed, a ciphertext names its
key and place, and decrypting it otherwise gives `Noise`. The loops over the entries of
a log are one, `Along`, with a turn for each (`One…`). **`SegmentChain`** adds
`segment.rs` and `segment/join.rs` and the actors: an author who writes, rotates keys,
signs and cuts segments, and holders who repackage, join and expunge.

**`PackStore`** is `pack/store.rs`, `remote.rs` and `dedupe_pack_files`: each file a
temporary one that is renamed, body before header when writing, header before body when
deleting, a listing that passes one name at a time, and reads in between. An error or a
crash may come before any of these steps. When a pack may go is the condition the
comment in `header.rs` gives for garbage collection; the safety delay it asks for is
left out, so the result does not depend on it.

**`PackBuilder`** is the builder: its state is the header's lists and the body so far,
its one action `add_container_segments()` with its two failures, after which what was
joined stays in the body; `BuildHeader` is `build()`. What was asked of it is a history
variable. Nothing calls the builder yet, so any call may come next.

**`Formats`** writes one operation, payload, segment, pack header, commitment or row of
a table of the replica, or builds a pack (`PackBuilder`), damages it on its way, and
reads it. Below it are operators only: **`Wire`** is `codec/writer.rs`, `reader.rs` and
`varint.rs` (a writer is the bytes written; a reader the value read, what is left, and
whether it failed; its first definitions are the sets of values that the types of the
code hold); **`OpFormat`** the operation codec, identifiers and validation of
`ubiquisync-tables`; **`LogFormat`** entries, segment headers and `CommitErr`;
**`PackFormat`** pack headers and the commitment of `init.rs`; **`RowFormat`** rows as
cells: what `BindableValue` binds, what the declared type of a column makes of it, and
what the row types of `schema.rs` read back. The author's actions have the code's checks
as guards: what `exec()` refuses to encode or to validate is not written, nor a
commitment of another version. The action `AddToPack` is the builder's, and `Build`
writes its header. `Change` is the damage: a byte overwritten or inserted, or the end
cut off, or a cell that holds something else.

`ConcurrencyProofs` (lock, bus, peers' clocks, table merge), `HlcProofs`,
`ReplicaProofs`, `ReplicaInitProofs`, `SchemaGuardProofs`, `SegmentAndPackProofs`,
`CodecProofs` and `FormatsProofs` hold the theorems. `HlcPeers` and `TableMerge` name
their specifications `PeersSpec` and `MergeSpec`, since one proof module extends them
both. Every `MC…` module gives the constants of one run. In the modules, an operator
preceded by "Mutant of X" is a plausible bug in X: it is not used by the specification,
and substituting it for X makes the property named in `PROJECT.json` fail.

## Runs

Every run is `tlc -config MCX.cfg MCX.tla`. Sizes are distinct states.

| Run | Bounds | States | What it shows |
|---|---|---|---|
| `keyed_lock` | 3 tasks, 2 calls each, 2 keys, 3 allocations | 147,001 | `MutualExclusion`; `NoDeadEntries`: the table keeps no dead entry but one a destructor is about to reach or a cancelled waiter left; `EveryWaiterServed`; implements `KeyMutex` |
| `replica` | 3 calls, 2 streams, 1 crash, clock range 2×2 | 198,254 | `OneRowPerStream`, `ChainIntact`, `TimestampsUnique`, `ClockCovers`, `TablesMatchLog`, `EventsFollowLog`, `EveryCallReturns`; implements `OpLog` |
| `hlc_peers` | 2 replicas, 3 calls each, 1 restart, one clock beyond the window | 321,350 | `BoundedLead`, `CausalUntilRestart` |
| `hlc_peers_restart` | the same | violation | `CausalAcrossPeers` fails after a restart |
| `table_merge` | 2 replicas, 3 different operations, repeated at will, 2 columns, 2 values and NULL, 2 timestamps | 441,891 | `RowIsMerge`, `EventsTellChanges`, `ReportsAreTrue` |
| `table_merge_tie` | 1 replica, 2 operations | violation | `DeletionBeatsWrite` fails |
| `schema_guard` | 3 calls, 3 operations, 2 columns, a table that is undeclared at first, 1 abort or crash, a foreign column after it | 227,176 | `SchemaFrozen`, `CallsSucceed`, `EveryCallReturns`; implements `TableMerge` |
| `replica_init` | 3 tasks in 2 processes, 3 credentials, 2 openings each, 1 call each, 1 failure, panic, dropped call or crash | 1,025,516 | `OneIdentity`, `RefusedForCause`; implements `AtomicDb` |
| `event_bus` | 2 subscriptions, 4 events, 2 rows, buffer 1 (+1) | 207,019 | `NoGaps`, `MapIsWatchedTargets`, `OnlyLaggardsAreCut`, `LaggardsAreTold` |
| `segment_chain` | 4 entries, 2 keys, 3 segments, 1 expunged op | 143,760 | `HeldVerifies`, `EntriesKept`, `ClaimsChecked`, `JoinFollowsTheLog` |
| `pack_store` | 4 packs (2 originals, 2 compactions), 1 error, 1 crash, 1 reader | 980,252 | `BodyBehindHeader`, `PublishedStaysReadable`, `MissMeansSuperseded` |
| `formats` | bytes of 4 bits, numbers of 10, two calls of the builder; two changes up to 5 bytes, one up to 24; one cell of a row | 40,757 | `WrittenIsRead`, `ReadIsWritten`, `DamageIsNoticed`, `SegmentsFound`, `OpChecksAgree` |

Type invariants are in no run: those of `KeyedLock`, `Replica`, `TableMerge` and
`PackStore` are proved, and the others are part of the invariants the proofs rest on.
`TableConverged` (replicas that applied the same operations show the same row) is proved
and follows from `RowIsMerge`.

Why these bounds are enough to be interesting:

- *`keyed_lock`*: the dangerous moment takes a task in its destructor, one waiting on
  the old entry and one looking up. That is three tasks; two calls let a task come back
  to an entry it left. An allocation may be used again as soon as nothing refers to it.
- *`replica`*: three calls put two on one stream and one on another, so that timestamps
  are drawn in one order and committed in the other; one crash comes at any point of any
  call; the clock range has two counters per millisecond, so that carry and overflow
  happen. A stall may come before, between and after them. The bound `MaxCalls = 1` is
  per task; a task that returns is a fresh one for the replica.
- *`hlc_peers`*: the far clock is beyond the window (2 against 4 with a window of 1) and
  reads right at times, so that acceptance and refusal both occur.
- *`table_merge`*: three operations are a write, a delete and a later write, or three
  ties; two columns have one write win in one and lose in the other; a column without a
  name is one that events must not report.
- *`schema_guard`*: the three operations are a delete, a write that the delete is newer
  than, and a newer write of another column. The delete has to clear a column that is
  added while it is being prepared. The key is of a UUID and an integer and the columns
  are bytes and a UUID, so that a type is created as one thing and described as another.
  One abort or crash is enough to find the table with no, one or two of the columns, and
  a column that is none of the program's, at the next run.
- *`replica_init`*: two tasks that both find no identity need one process; the third
  meets the exclusive lock. The credentials are a peer, the same with a new wrapping key
  (the peer id differs, the signing key does not), and another application of the same
  keys. Two openings let everyone come back to a database somebody owns. One key of a
  segment makes the second `Use` fail half way through its batch. There is no symmetry,
  because the run checks a temporal property.
- *`segment_chain`*: four entries are enough for op, key, op, key, for a signature
  between a key change and an op, and for two key changes in a segment that itself
  starts with one; three segments for a join in the middle of a chain. `ClaimsChecked`
  quantifies over false headers inside the formula, so these need no states. One payload
  is enough because entries differ by their place.
- *`pack_store`*: two packs, a compaction of both into a later generation of one
  (superseding by name and by list at once) and a further generation; a reader that
  takes one name at a time meets all of it half done.
- *`formats`*: every width is a constant, and the code's arithmetic depends on none of
  them: a varint of at most three bytes, whose last has all its bits, has the same
  boundaries as one of nine (7 | 8, 63 | 64, 1023), and identifiers of one count bit
  have the same layout as those of two. The values written are at the boundaries: least
  and greatest integers, empty and full fields, every variant; the bytes that damage
  brings are the tags, a count, and a continuation that adds nothing.

`CHECK_DEADLOCK FALSE` is set in every run: bounded calls, entries and events end, and
so the system may stop; that nobody is blocked is what the liveness properties state.
Symmetry is used only in the safety runs `table_merge` (replicas) and `segment_chain`
(keys).

## Fairness

- `KeyedLock`, `Replica`: weak fairness of the next step of each call. The executor
  polls a task that was woken, and a database call returns. No call has to be made, and
  no error, cancellation or crash has to happen. `Acquire` is only weakly fair: a waiter
  is served because the calls that compete with it are finitely many, and the module
  says so where it states the property.
- `SchemaGuard` assumes less: while some call can go on, one does.
- `Replica`: weak fairness of `Open`, since an application whose process ended opens its
  database again; without it a call interrupted by a crash is over anyway.
- `EventBus`: weak fairness of `Poll`: a subscriber keeps polling its stream, or drops
  it. Nobody has to publish.
- `HlcPeers`, `TableMerge`, `ReplicaInit`, `SegmentChain`, `PackStore`, `Formats` state
  safety only and need none.

## Theorems

The proofs are for any values of the constants that satisfy the assumptions named in the
modules (`KeyedLockAssumption`, `EventBusAssumption`, `HlcAssumption`,
`HlcPeersAssumption`, `ReplicaAssumption`, `TableMergeAssumption`,
`PhysicalTableAssumption`, `SchemaGuardAssumption`, `WorkAssumption`,
`SqliteDbAssumption`, `ReplicaInitAssumption`, `LogChainAssumption`,
`PackStoreAssumption`, `PackBuilderAssumption`, `WireAssumption`, `OpFormatAssumption`,
`LogFormatAssumption`, `FormatsAssumption`): bounds are naturals, the placeholders are
no members of the sets they stand beside, values are integers; each peer's wall clock
has a last reading; operations name columns that exist and are finitely many; a column
another build added has none of this build's names; peer ids are byte arrays of one
length; for packs that a compaction holds what it supersedes and that no two packs share
a reference and a generation; and for the formats that what is written is of the types
of the code and in memory (no more of anything than `usize` counts), that a byte can
hold every tag, and that a table id has room for its types.

- **`ConcurrencyProofs`**, the lock: `KeyedLockTypeOK`, `KeyedLockMutualExclusion`,
  `KeyedLockNoDeadEntries`, `KeyedLockImplementsKeyMutex`. Mutual exclusion says nothing
  of the table, so it is not inductive. `LockInv` adds `SharedEntry`: the mutex a call
  keeps alive is the one the table has for its key. The table gives an entry up only if
  no call keeps it alive, so all calls of a key meet at one mutex. The refinement
  follows: the abstract holder changes only in `Acquire` and `Unlock`. `NoDeadEntries`
  is inductive beside `LockInv`: who drops the last reference is about to clean up. The
  bus: `EventBusTypeOK`, `EventBusNoGaps`, `EventBusMapIsWatchedTargets`,
  `EventBusOnlyLaggardsAreCut`. That the senders found under an event's targets are
  those of the subscriptions it is meant for is `MapIsWatchedTargets`; `NoGaps` needs
  it, since what reaches a channel is what was meant for it only if no sender is missing
  or under another's target, and it needs that an id not given out yet has an empty
  channel (`Unborn`). Neither asks how long a stream is or how large a buffer. The
  clocks: `HlcPeersBoundedLead`, `HlcPeersCausalUntilRestart`. A step of the clock adds
  exactly one to the packed integer, carry included, so the lead is counted in calls.
  `LeadInv` bounds the clock in memory, the stored one and those of batches not yet
  committed, since a restart turns the last into the first; `CausalInv` speaks of the
  entries at hand, stored or about to be. The merge: `TableMergeTypeOK`,
  `TableRowIsMerge`, `TableConverged`, `TableEventsTellChanges`, `TableReportsAreTrue`.
  `Merged` says of a row and a set of operations that the tombstone is the set's last
  delete, that `__upsert_ts` covers the upserts that stand, and that each column is the
  greatest write that stands. Every statement keeps it, whichever branch its condition
  takes, and it determines what the view shows. Two replicas may differ in
  `__upsert_ts`, and nothing a query sees depends on that. The two theorems on events
  rest on one more fact that `Merged` gives: a hidden row is empty, so a row that comes
  back brings nothing with it that the event did not name.
- **`HlcProofs`**: `NextLocalAdvances`, `NextAfterAdvances`, `PackingKeepsOrder`, for
  every width of the two fields.
- **`ReplicaProofs`**, in five parts, each on the ones before. `ReplicaTypeOK`,
  `ReplicaOneRowPerStream`: the insertion makes no second row because nobody passed the
  lock since the call looked: `WriterInv` says that a call past the lock owns it
  (`Owns`) and that what it read of its row is still so (`Sees`).
  `ReplicaTimestampsUnique`, `ReplicaClockCovers`: `ClockInv` accounts for what is drawn
  and not committed: not ahead of the clock in memory, in no log, and different call by
  call; and what is stored is not ahead of the clock in memory. A crash forgets the
  calls and the clock at once, so the stored clock need only cover what was committed.
  `ReplicaChainIntact`, `ReplicaTablesMatchLog`: to the stored rows every step does one
  of four things (`LogStep`: a row is added, held back, resumed, or gets an entry), and
  `Sees` makes the head a call extends the head that is stored. Segments are then a
  function of the heads (`SegmentsInv`), and what a row has committed is what the tables
  hold (`Matches`). `ReplicaEventsFollowLog`: `EventInv` adds what is about to be
  published (`Pending`): ahead of what watchers have, and in the tables once the batch
  has committed. `ReplicaImplementsOpLog`: `AboveInv` says that a timestamp that was
  drawn is above its own stream; with `ClockInv` it is one that no log has, which is
  what `OpLog` asks of an append. `LogMoves` is the mapping step by step.
- **`SchemaGuardProofs`**: `SchemaGuardSchemaFrozen`, `SchemaGuardCallsSucceed`,
  `SchemaGuardImplementsTableMerge`. The first two do not follow from one lock.
  `LocksOk` says that nobody is past the map before the table is cached, that one task
  has the map while it looks for the table, and that from then on the schema changes
  only under the write guard, which excludes everyone between generating a statement and
  running it. `QueueOk` says that a waiter is in the queue once and an upgrade still
  covers its columns when it is served. `Built` is the table's shape: this build's
  columns in their pairs, and foreign ones, which is what makes every table that is
  found recognisable. The refinement needs `RowOk` besides: a column the table does not
  have reads as its defaults, and nobody takes a column away, so that a delete that
  clears the columns it was generated from clears all there is.
- **`ReplicaInitProofs`**: `ReplicaInitOneIdentity`, `ReplicaInitRefusedForCause`. Rows
  of peers are only added, their ids are never reused, so what a task was told of the
  first row stays true (`Told`). A batch commits a copy of the database taken when it
  began; the copy agrees on the peers (`DatabaseOk`), because no other call runs
  meanwhile and no batch writes them. `ReplicaInitImplementsAtomicDb`: half way through
  a batch, the copy and the results collected are those of its first statements, run in
  a row on the store (`RanFirst`), and nobody changes the store meanwhile. A commit is
  then the promise's one step, and so is the statement of a single call; everything else
  (statements of a batch, roll-backs, waiting, poisoning, an owner that dies) is none.
- **`SegmentAndPackProofs`**, segments: `SegmentsVerify`, `SegmentsKeepEntries`,
  `SegmentClaimsChecked`, `SegmentsJoin`. What can be read from a segment is no
  invariant to go on with, since the next action makes another segment of it. `SegInv`
  says what a segment *is*: there are entries `g` that lead from the chain and cipher at
  its start to those at its end (`Leads`), it is a package of them (`Packaged`), and
  they are the author's but for what was expunged (`Kept`); and from every place in the
  log its entries lead to every later one (`LogOk`). Repackaging makes the other package
  of the same `g`. Joining concatenates, and drops signatures, which lead nowhere
  (`LeadsConcat`, `LeadsUnsigned`). Expunging puts an op's hash in its place, which
  leads to the same chain (`ExpungedOne`), and no other segment has that index
  (`ElsewhereIs`). That a header may leave a cipher out rests on `FirstCipher`: what
  comes before a change of the key does not matter. That it cannot lie rests on
  `LastLink`: each link names the cipher then in force. The loops are recursive
  functions on `0 .. Len(entries)`, and the lemmas on them go by induction over the
  length, as a fact about a set of numbers (`ByInduction`). `SegInv` quantifies over all
  entries, so TLC does not evaluate it; it checks the four consequences. The builder:
  `BuilderSegmentsFound`. That every descriptor finds its bytes is kept by later
  additions, successful or not, because none points behind the end of the body
  (`Located`), which `SegmentsFound` does not say; `BuilderInv` adds it. The order of
  the peers is that of their ids from the first byte that differs: any two differ
  somewhere (`FirstDifference`), so a new peer has one place in the list
  (`LastBeforeIs`, `OrderedInserted`). Packs: `PackStoreTypeOK`,
  `PackStoreBodyBehindHeader`, `PackStorePublishedStaysReadable`,
  `PackStoreMissMeansSuperseded`. `PackInv` keeps writing and deleting apart (only
  published packs are listed, only unpublished ones are written) and carries from the
  decision to delete to the removal of the header that another listed pack covers the
  one that goes. From covered to *readable* there may be any number of generations;
  `LastGeneration` finds the last one by well-founded induction. `ReaderInv` adds that
  what a reader has listed was published, so that what it misses is covered.

- **`CodecProofs`**: what the formats of the core are, for any widths. A *code* is the
  function from a type's values to their bytes, and `Parsed(o, code, s)` says what
  reading `s` has to come out as: if a value's bytes are in front, this value and the
  bytes behind them, else failure. This one statement says that what was written is
  read, that nothing else is accepted, and that no value's bytes begin another's
  (`ParsedUnique`). Each reader is shown `Parsed` for the code of its type. First the
  numbers: repeated division gives the digits, the digits give the number back and no
  others do (`NumberOfQuotients`, `QuotientsOfNumber`), and a varint ends at its first
  byte without the high bit, which is where minimality comes in (`ReadVarParsed`). Then
  the ways of composing: values behind each other (`BehindParsed`, one step for each
  value of a tuple), a value turned into another or refused (`IntoParsed`,
  `CheckedParsed`), lists behind their count (`VecParsed`), lists to the end of the
  bytes (`ToEndParsed`), options and tagged unions (`OptionParsed`, `TagParsed`).
  Entries, segments and pack headers are compositions of these.
- **`FormatsProofs`**: `FilesAreReadBack`, `FilesHaveOneForm`, `PackDamageIsNoticed`,
  `DecodedOpsAreValid`, the four invariants of `Formats` on bytes. The other codes are
  the status of a stream, commitments, operations and the cells of rows; then each kind
  of file is one code with one reader (`KindsAre`), and what is left are consequences: a
  value of the code is read back, bytes that are read are those of the value, the
  message that is signed (name, peer, topic and header one behind the other) has one
  reading, and what the decoder accepts is what `Validate` accepts but for a column
  named twice. A commitment is read from its front (`SplitsPrefix`), since a later minor
  version may continue it. The inductive invariant `FormatsInv` says that a file holds a
  value that its code has bytes for, and these bytes as long as nothing damaged it, and
  that the builder keeps to its types, in which lists grow with its calls
  (`BuilderTyped`): without it nothing says that a pack's header can be written. TLC
  checked `FormatsInv` on the instance of `formats` before it was proved. Damage is not
  bounded in the proof: the properties hold for any bytes at all.

Only model-checked is liveness: `EveryWaiterServed`, `EveryCallReturns` of `Replica` and
`SchemaGuard`, `LaggardsAreTold`. It is out of the provers' reach, as is `ENABLED`. The
two properties that fail (`CausalAcrossPeers`, `DeletionBeatsWrite`) are refuted by
their runs.

The provers cannot instantiate an induction theorem that takes a predicate. An induction
is done where a definition is a function on numbers: the numbers for which the claim
holds are a set, it has 0, and with each number the next, so it has all (`ByInduction`,
from the well-foundedness of `<`). What the formats define by recursion (powers, digits,
lists read one element after the other) is a function on `0 .. n`; that such a function
exists is itself shown that way, once for all of them, with the steps given as a
function instead of an operator (`RecursionIs`). For the same reason codes are
functions: a lemma about lists can then be stated for any code of the elements, where it
could not be for any reader and writer. `Wire` defines its powers itself, since the
provers know nothing of `^`.

## Where code and documents differ

1. **Ties** (`table_merge_tie`). `protocol/log-entries.md:46` says that a deletion beats
   a write of the same timestamp. The statements and the view let the write win. All
   replicas do, so they converge.
2. **Causality after a restart** (`hlc_peers_restart`). `observe_remote_hlc` stores no
   clock if it need not move the one in memory, though that one may rest on a batch that
   has not committed. After a crash, the replica can stamp an entry below one it has
   stored (`log-entries.md:39` says strictly newer). It waits for a caller: nothing
   ingests remote entries yet.

Remarks that no run shows:

- A delete older than the row's last upsert advances the tombstone and is published as a
  deletion of a row that stays visible (`watch.rs:20` says "was soft-deleted").
  `EventsTellChanges` asks of events what holds: that nothing changes without one.
- A panic inside a batch poisons the connection's mutex: `commit()` is an error from
  then on, while single statements and queries take the mutex all the same. An open
  replica can go on reading; none can be opened on that handle, since `create_tables` is
  a batch.
- A table that has the lww column of a value column but not the value column is
  recognised, and adding the pair then fails. No build of this repository makes one: the
  pair is added in one transaction. `SchemaGuardAssumption` excludes it.
- `self_db_id` is 1 because SQLite gives the first row that id and a failed insertion
  uses none up. Identity columns of Postgres are not transactional: a failed first
  insertion would leave a database that nobody can open. That backend is a stub.
- Nothing prevents two replicas of one peer on clones of one handle. They would have a
  lock table each.
- `log-entries.md:40` says of a refused entry that one of the two clocks is wrong. With
  three clocks, each within the window of the next, an entry that its author stamped
  after an accepted one of the first clock is refused by the reader, though neither of
  the two clocks is wrong.
- `protocol/tables.md` gives a column's identifier three bits of type, of which the
  values 5 to 7 are to be refused, a type in which the greater value wins, and key types
  in another order. `id.rs` and `col_type.rs` have two bits, no such type, and every
  byte is a valid identifier (a test says so).
- The documents speak of 48 bits of milliseconds; the code has 47 (the sign bit of a SQL
  integer is kept free).

## What is left out

- *Bytes*: text beyond ASCII, compression and its limits, the text of file names and of
  identifiers. `Formats` keeps the compressed payload as bytes that stand for
  themselves; the other modules take the conversions to be inverse and injective, which
  is what `FormatsProofs` proves of them.
- *Cryptography*: assumed ideal; also that a message has one signature, which is not so
  for ECDSA (`DamageIsNoticed` then speaks of everything but the signature).
- *The database*: SQLite itself is the small database of `ReplicaTables`: a transaction
  is all or nothing, and a database survives the process. The modules other than
  `ReplicaInit` take a batch as one step, which is what its refinement of `AtomicDb`
  shows. The text of SQL, quoting and the DDL macros are not modelled; the Postgres
  crate is a stub.
- *`head_err` and forks*: `exec()` stops in `todo!()`; the model reaches the same place
  and stops, and `ReplicaOneRowPerStream` shows that the replica's own writes never do.
- *Files*: a rename is atomic, a completed write survives. Deletion that stops after the
  header leaves a body that no listing names: space lost, never a wrong read. Two
  concurrent writes of one file within a millisecond share their temporary name; the
  model lets one task write.
- *The view of a table*: its text; what it shows is `TableMerge`'s `View`.
- *The file sync tables* (`fs_sync_schema.rs`): created, and not used by any operation
  yet.
- *Macros, tests, benches*: no state of their own. The tests were read as statements of
  intent.

## Plan

Built: everything above, that is every component with code that keeps state. Next:

1. **Remote ingestion**, once it is written: `observe_remote_hlc`, `commit_err` and the
   segments meet in one handler, and `Stall`, `Resume`, `HlcPeers`, `SegmentChain` and
   `PackStore` are the parts to compose.
2. **Listing topics and peers** of the file remote, and two writers of one directory, if
   a caller comes to need them: today nothing calls `PackStore`.
