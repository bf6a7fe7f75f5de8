# TLA+ verification of Hamstergres

Hamstergres is a PostgreSQL sharding gateway. The *Proxy* accepts PostgreSQL
clients, parses and routes their SQL and runs it on *Burrows* (PostgreSQL
shards) over *Tunnels* (pooled connections). The *Nest* (etcd) holds what the
Proxies of a fleet share: the schema registry, the topology catalog and the
global ID sequence. This directory holds TLA+ models of the parts whose
correctness depends on the order of events or on data that takes many forms, the
TLC runs that check them on small instances, and TLAPS proofs of the most
important properties for every instance.

`PROJECT.json` lists the components, runs, mutants, hazards and theorems, and
maps every definition to the lines it models. PostgreSQL and etcd are external:
they are modelled from how the code uses them.

## The system and its parts

| Part | Code (`internal/`) | Modules |
| --- | --- | --- |
| Transactions, two-phase commit, atomic fleet DDL | `proxy/server.go`, `backend/backend.go` | `TransactionCoordinator`, `AtomicCommit`, `TransactionCoordinatorProofs` |
| Schema barrier, fleet write gate, pool limit | `proxy/server.go`, `backend/backend.go` | `SchemaBarrier`, `SchemaBarrierProofs` |
| DDL classification, temporary relations | `proxy/server.go`, `ddl/normalize.go` | `SessionCatalog`, `SessionCatalogProofs` |
| Extended query protocol | `proxy/server.go`, `backend/backend.go` | `ExtendedProtocol`, `ExtendedProtocolProofs` |
| COPY: session, row router, merged output | `proxy/server.go`, `copyrouter/copy.go` | `CopyFormat`, `CopySession`, `CopySessionProofs` |
| SQL router and query routing | `router/router.go`, `proxy/server.go`, `backend/backend.go` | `KeyValues`, `Routing` |
| Tunnel pool, session state, statement cache | `backend/backend.go`, `proxy/server.go` | `TunnelPool`, `TunnelPoolProofs` |
| Nest metadata: registry, topology, start, refresh | `nest/*.go`, `topology/catalog.go`, `backend/backend.go` | `NestMetadata`, `NestMetadataProofs` |
| Global ID sequence | `nest/sequence.go` | `SequenceStore`, `GlobalSequence`, `SequenceStoreProofs` |

How they meet. A frontend message first passes the schema barrier
(`SchemaBarrier`), which may refresh the registry from the Burrows and publish it
to the Nest (`NestMetadata`). DDL is classified (`SessionCatalog`): durable DDL
takes the gate and is committed in two phases, temporary DDL only touches the
session's own Tunnels. A statement is routed (`Routing`), an INSERT without a key
takes one from the sequence (`SequenceStore`), and the session acquires Tunnels
from the pools (`TunnelPool`). The exchange is a simple Query or a cycle of
extended messages (`ExtendedProtocol`), or a COPY (`CopySession`). COMMIT runs
`commitTwoPhase` when several Burrows were written (`TransactionCoordinator`).

Each module takes what the others establish as a set of outcomes. In
`SchemaBarrier` a two-phase commit succeeds, fails or stays in doubt; in
`TransactionCoordinator` a routed statement goes to any set of Burrows; in
`Routing` statements run one at a time; in `NestMetadata` a refresh is the Nest
requests it makes.

## The modules

**TransactionCoordinator.** One frontend session and the fleet. `transaction`,
`transactionFailed`, `mutated` and `writeParticipants` are fields of
`extendedState`; `tx`, `dirty`, `saved` and `fate` are PostgreSQL's side, per
Burrow. A command has one of the replies ok, error, lost (the Tunnel broke first)
and unacked (executed, the answer lost), or is unsent. A transaction command is
one action, because an exchange is read to its end before the handler goes on.
`commitTwoPhase` is one action per command (`EndReader`, `Prepare`, `Undo`,
`CommitPrepared`), so failures, a disconnect or a crash fall between any two.
`AtomicCommit` is its promise: work commits on one Burrow only when all other work
is prepared, and nothing is discarded after that.

**SchemaBarrier.** The sessions of one Proxy around `schemaRefreshPending`,
`schemaRefreshMu`, `fleetWriteGate` and the pool. Schemas are version numbers.
`pc` follows a goroutine through the barrier, the gate, the pool, the exchange,
the commit and the refresh; an operator may resolve DDL left in doubt.

**SessionCatalog.** What `extendedState` believes about temporary relations
(`tmp`, `snapshots`), beside PostgreSQL's catalog `pg` with search path,
dependencies, savepoints and ON COMMIT DROP. `Query` is `handleSessionQuery` of a
batch of DDL: it is classified statement by statement against a working copy of
the list, refused when it mixes kinds, run, and remembered. All Burrows run the
same DDL, so one catalog stands for all.

**ExtendedProtocol.** `serveQueries` for Parse, Bind, Describe, Execute, Close,
Flush and Sync with the request held back in `state.pending`. `tunnel` is
PostgreSQL's side: portals, dropping messages after an error until Sync, answers
not yet read. A Bind or Describe that is exchanged first has its statement parsed by
`materializeStatement`: when all Tunnels take the Parse nothing the model tracks
changes, and `MaterializeFails` is the other case. `answers` and `ran` record what
the client was told and what ran.

**CopyFormat, CopySession.** `CopyFormat` has the record scanners and stream
routers of `copy.go` beside reference definitions of what PostgreSQL reads
(`PgRows`, `PgEnds`) and, with COPY ... WHERE, keeps (`PgStores`). Bytes are a
handful of tokens that the scanners tell apart.
`CopySession` is a COPY from its Query to ReadyForQuery, with frames cut anywhere.

**KeyValues, Routing.** `KeyValues` has the spellings of key values, the router's
canonical forms and PostgreSQL's input, casts, assignment and equality. `Routing`
plans statements as `router.Prepare`, `Analyze` and `routePlan` do and runs them on
`fleet`, a database per Burrow, and on `ideal`, one PostgreSQL. `alone` makes the
hash arbitrary: it names the one key value in a vshard of its own, so any two
canonical values are told apart by some initial state.

**TunnelPool.** One Burrow's connections and the sessions multiplexed over them:
pinning, recorded settings and their replay, reset or destruction on release, and
`Manager.prepared`. `ideal` is the connection a frontend would have to itself.

**NestMetadata.** Two records of the Nest and the Proxies that run `New` and
`RefreshSchema` over them, a Nest request per action. A placement is named by its
origin and the Burrows it spans.

**SequenceStore.** `Next` as a read and a compare-and-swap whose transaction
travels apart from its caller, so it can be applied after the caller gave up.
`GlobalSequence` is the atomic counter it implements.

## The runs

| Run | Instance | What it checks |
| --- | --- | --- |
| `transactions` | 3 Burrows, broken Tunnels, disconnects, crashes; simple and extended clients, chaining, pinned or not | `NeverMixed`, `CommitAnswerIsTrue`, `NoLeftoverBlock`; refinement of `AtomicCommit`; `AbandonedSessionEnds`, `CommitReturns` |
| `commit_after_error` (violation) | 2 Burrows, no faults | `NeverMixed` when the client commits after a failed statement |
| `global_ids` | 2 callers, 2 attempts, 3 IDs | `IInv`, `NeverReturnedTwice`, `AboveCallStart`, `ContentionIsReal`; refinement of `GlobalSequence`; `CallsEnd` |
| `schema_barrier` | 2 sessions, 3 pool connections, 1 DDL | `StaleRoutingIsFenced`, `RoutesFresh`, `FleetDDLIsSerial`; `MessagesAnswered` |
| `pool_deadlock` (violation) | 2 sessions, 2 pool connections | `DDLIsPublished` when sessions hold the whole pool |
| `nest_metadata` | 2 Proxies with different Burrows, 2 tables, 2 DDL, 1 move, 1 fault | `PlacementAgreement`, `ServesWhatItKnows`, `LegacyPlacementSurvives`; action property `NothingOverwritten` |
| `tunnel_pool` | 2 sessions, 2 connections, 1 statement | `PoolIsClean`, `Transparency`, `CacheSound` |
| `extended_protocol` | 2 Burrows, 4 messages before Sync, errors and lost Tunnels | `AnswersInOrder`, `RanAsAsked`, `TunnelsInStep`; `CyclesEnd` |
| `copy` | 2 Burrows, streams of all formats up to a few rows, all cuts | `RowsReachTheirOwner`, `UnusableCommitsNothing`, `RoutingKeepsUp`, `DrainedWhenReady`, `ErrorAfterCommitIsTheBurrows`, `ErrorFailsTransaction`, `OneOutputStream` |
| `copy_unread` (violation) | COPY TO, a Burrow fails | `NoAnswerLeftUnread` |
| `routing` | 2 Burrows, 6 key schemas, 4 deployments, 2 rows | `OneTable`, `AnswersAsOne`, `SamePlan` |
| `session_catalog` | 3 names, 2 relations, 1 savepoint, batches of up to 2 statements | `TracksTemporaries`, `OrderedWhenDurable`, `RegistryIsCurrent` |

### Bounds

- *transactions*: three Burrows are the fewest with one prepared, one being
  prepared and one not reached. Any set is covered by the theorems.
- *global_ids*: two callers and an orphaned transaction are enough for two writers
  to meet; `MaxID` = 3 is reached, which is the overflow check of the code, and
  `MaxAttempts` = 2 is reached by real contention.
- *schema_barrier*: one DDL and two sessions already interleave commit, refresh and
  routing. `FleetOrdered = FALSE` (one Burrow), more sessions and more DDL are left
  to the theorems, which have no bounds.
- *nest_metadata*: two Proxies meet in every order, a fault falls between any two
  requests, and the second DDL meets what the first left. More of each is left to
  the theorems.
- *tunnel_pool*: a connection is always handed from one session to the other. One
  session has a startup parameter and the other has not.
- *extended_protocol*: four messages fit Bind, Describe, Execute and one that
  forces them out; a second cycle follows the first (`MaxCycles` counts the cycles
  after the first), so that what the first leaves behind is met. Longer cycles, more
  Burrows and several portals are left to the theorems.
- *copy*: streams include quotes that open anywhere, doubled quotes, embedded
  newlines, end-of-data lines with and without rows behind them, headers, envelopes
  and truncations, and a COPY whose WHERE keeps one of its rows.
- *routing*: two rows and two Burrows are the fewest with a wrong owner; each
  statement is checked in every reachable state, through both protocols. A read whose
  WITH clause deletes is among the statements where unsharded tables have one copy.
- *session_catalog*: three names are a table, its index and the name either is
  renamed to, or a temporary and a durable relation with one name and another.
  Names are symmetric.

`copy`, `copy_unread`, `extended_protocol` and `pool_deadlock` switch off the
deadlock check: a finished COPY, a client that has sent its cycles and the deadlock
that is itself the finding are ends of these models.

### Fairness

- *TransactionCoordinator*: weak fairness of the steps of `commitTwoPhase` (a
  goroutine that is running runs on; each command ends with an answer or a broken
  Tunnel) and of the end of a session whose frontend is gone, where cancelling the
  session's context sets the deadline of its Tunnels (`watchCancellation`).
  Nothing is assumed of clients. A Burrow that neither answers nor breaks the
  connection is outside the assumption.
- *SequenceStore*: weak fairness of each caller's steps, with giving up as an
  alternative to reading, and of etcd answering a transaction that is waited for.
- *SchemaBarrier*: strong fairness per session. Go's mutex, channels and the
  connection pool are first-come-first-served, so a session that waits again and
  again gets its turn. Clients end their transactions, by a COMMIT or
  ROLLBACK that succeeds at last or by leaving, a refresh that is tried again and
  again succeeds once, and an operator resolves prepared DDL.
- *ExtendedProtocol*: the Proxy handles what it has read, and the client ends its
  cycle with Sync.

### Mutants

Every property of a passing run has a mutant in its module: a dropped guard, a
forgotten reset, a wrong order, as a slip in the code would make it. With the
mutant in place of the definition it mutates, TLC finds the property violated.

## The proofs

TLAPS checks them with Z3, Zenon and LS4. Each follows one inductive invariant,
with a lemma per action.

**SequenceStoreProofs** (`SequenceAssumption`: bounds are naturals). `IInv` is
`TypeOK`, `Faithful` and `OneOwner`. Uniqueness alone is not inductive: one must
know that a transaction under way, waited for or orphaned, asks for the successor
of what its caller read and can only succeed while the key has not moved since
(`Knows`, by mod_revision). Then a value that is owned (allocated and not yet
returned, or returned) is at most `kv.value` and has one owner. From it follow
`Uniqueness`, `Monotonicity`, `Contention` and `Refinement`: every step maps to a
step of `GlobalSequence` or stutters.

**TransactionCoordinatorProofs** (`CoordinatorAssumption`, and `Disciplined`:
two-phase commit is on, and clients neither commit after an error, nor nest BEGIN,
nor write by statements that `recordWriteParticipants` takes for reads; the code is
not atomic without it, see below). `NeverMixed` needs to know what
the loops of `commitTwoPhase` have done (`Committing`: which participants are
prepared, which are still to come, that nothing is discarded in the commit loop),
that the session knows every Burrow with work before it begins (`Working`,
`Restorable`, `Copying`), that nothing is left to lose after the first commit
(`Decided`) and that later transactions find nothing of it (`Forgotten`, `Quiet`,
`Closed`). `Invariance`, `Atomicity` and `Tidiness` hold for any set of Burrows.
`Candour` is `CommitAnswerIsTrue`; besides `IInv` it needs `Told`, which says that
each Burrow the commit loop has passed is committed, since the answer is sent only
after the loop's last Burrow. `Refinement` is `ImplementsAtomicCommit`: the lemmas
show for each command what it may do to work and fate on a Burrow, and that each
change is a step that `AtomicCommit` allows.

**SchemaBarrierProofs** (`BarrierAssumption`). `IInv` is `TypeOK`, `Mutex` (who
holds the mutex, and that the flag is up meanwhile), `Fenced` (what a refresh has
read is at least every commit whose flag it may lower), `Fresh` and `Gated`. From
it `Fencing`, `Freshness` and `Serialization`, for any sessions and pool size.

**TunnelPoolProofs** (`PoolAssumption`, and `Careful`: the clients of the
disagreements below are left out). The properties are almost inductive; what they
lack is that a connection has one session and that the session's flags tell what
its frontend did (`Coherent`): whatever cannot be replayed pins the session,
whatever the reset leaves behind marks the connection for DISCARD or destruction.
From it `PoolStaysClean`, `MultiplexingIsTransparent` and `CacheStaysSound`.

**NestMetadataProofs** (`NestAssumption`; no assumption on clients or faults). The
properties speak of Nest and of Proxies that serve, and are not inductive, because
a Proxy acts on what it read some requests ago. `IInv` adds for every Proxy (`Own`)
that the catalog it has read is Nest's or an earlier one with the same bootstrap
distribution, and Nest's own if the revisions agree (`PastRead`: this is what
compare-and-swap needs); what it holds when it gets to each request (`Reached`); and
that while there is no catalog whoever may create one holds the v3 owner map
(`Inherits`). From it `Agreement`, `Completeness`, `Migration` and the action
property `NoLostWrite`, for any Proxies, tables, configurations and bounds.

**ExtendedProtocolProofs** (`ProtocolAssumption`, and `Ordinary`: the client makes a
new request only when none is held back and reuses no portal that the Proxy's own
Sync closed, PostgreSQL refuses nothing after that Sync, no Burrow has a statement
that the pool forgot, and a Tunnel can be opened when it is needed; the other cases
are disagreements below). Errors and broken Tunnels are included.
`RanAsAsked` and `AnswersInOrder` compare two histories that differ while a request
is held back. `Accounted` names the difference: what the client asked for is what
was answered, then what `state.pending` will give, then what the message in hand
will give, and the same for what ran on each Burrow. That needs to know that what is
held back is the client's last Bind (`Holding`), that portals in the Proxy, in
PostgreSQL and in the client's mind agree (`Known`, `InFlight`), that after an error
nothing is held back (`Failing`), and that a Tunnel is out of step only while a
failure waits for its Sync (`Steady`). From it `AsAsked`, `InOrderAnswers`, `InStep`
and `NeverHangs`, for any Burrows, portals, routes and length of cycles. That the
first of the Burrows asked exists comes from the well-ordering of the naturals in
`WellFoundedInduction`.

**SessionCatalogProofs** (`CatalogAssumption`, and `Orderly`: clients may rename,
create with AS and hide DROP as they like, and keep clear of the other disagreements
below; `Currency` needs clients without any, `Client = {}`). `IInv` says that the
whole list, with its ON COMMIT DROP marks and the tables its indexes belong to, is a
function of PostgreSQL's catalog (`Mirrors`), that the catalog is one PostgreSQL can
have (`Sound`), that each savepoint's snapshot mirrors the catalog PostgreSQL goes
back to (`Stacked`), and that a transaction with fleet DDL has touched nothing
temporary (`OneKind`). The list alone is not inductive: what a DROP or a commit takes
from it depends on the parents and marks. The argument goes up in three steps. For
each kind of statement, what PostgreSQL makes of the catalog and what
`rememberTemporaryStatement` makes of the list agree (`StatementFollows`). Outside a
transaction the Proxy applies ON COMMIT DROP after every statement and PostgreSQL
once, at the end of the batch; the list after either is the same because dropping
what is marked commutes with remembering a statement (`IndexCommutes`,
`RenameCommutes`, `DropCommutes`), except where IF NOT EXISTS meets a marked table,
which is how that disagreement was found. An induction over the statements of a batch
(`BatchMirrored`) then gives `Tracking`, `Ordering` and, with `Registered`,
`Currency`, for any names, batches of any length and any depth of savepoints. The
induction, over sets of naturals, is derived from `WFMin` of `WellFoundedInduction`.

**CopySessionProofs** (`CopyAssumption`; no assumption on statements, data or
faults). `IInv` adds to the properties what each Tunnel is doing while the COPY runs
(`AtWork`: no answer is due in COPY FROM, and in COPY TO the Burrows before `at` are
done). Then an abort drains whatever it finds, and a completion is read from every
Burrow unless a Tunnel is lost, since the reads stop only there (`NoneLost`). From it
`Draining` (`DrainedWhenReady`), `Answering` (exactly one ReadyForQuery, however the
COPY ends) and `Failing` (`ErrorFailsTransaction`: a COPY error that leaves a Burrow
failed or a Tunnel lost fails the transaction). The errors of the Proxy's own checks,
of row counts and of merged output, leave no Burrow failed, and the code does not fail
the transaction on them. `Burrows` is `1 .. 2` here, as in the model.

What is only model-checked: liveness under fairness (`AbandonedSessionEnds`,
`CommitReturns`, `CallsEnd`, `MessagesAnswered`, `CyclesEnd`), which with ENABLED is
out of the prover's reach; what the COPY scanners compute (`RowsReachTheirOwner`,
`UnusableCommitsNothing`, `RoutingKeepsUp`, `ErrorAfterCommitIsTheBurrows`,
`OneOutputStream`), which needs induction over the data; and everything about routing,
whose plans use RECURSIVE operators, about which tlapm cannot reason.

## Where the code disagrees with its documentation

Three disagreements are runs that TLC violates, with findings in `PROJECT.json`.
The others were met while modelling. Each is behind a `Client` or `Faults` option,
a set of requests or a property that no passing run lists; a small cfg that turns
it on, or checks the property named, reproduces it. What the passing runs and the
theorems show is true of clients that keep clear of them. Where no option or
property is named, the behaviour was read in the code and is outside the models.

### Transactions (`TransactionCoordinator`)

- COMMIT after a failed statement: the other Burrows commit their part (run
  `commit_after_error`; `server.go:2326`, `README.md:351`).
- A write whose first keyword is not INSERT, UPDATE, DELETE or MERGE (WITH, EXPLAIN
  ANALYZE, EXECUTE, CALL) does not make its Burrow a participant, nor does DDL on a
  single Burrow. Beside two recorded participants it is rolled back with the readers,
  the others commit and the client is told COMMIT; alone it leaves the transaction to
  a one-phase COMMIT (option `unrecorded`: `NeverMixed` and `CommitAnswerIsTrue`;
  `server.go:2758`, 2591, `README.md:351`).
- BEGIN inside a transaction clears `writeParticipants`, so a later COMMIT is not
  two-phase (option `beginInTransaction`; `server.go:2790`, `README.md:348`).
- An extended COMMIT whose `commitTwoPhase` fails leaves `state.transaction` true,
  and the ROLLBACK that follows is acknowledged although a Burrow has committed or
  still holds the work prepared (`RollbackUndoes`; `server.go:1780`,
  `architecture.md:100`).
- A one-phase COMMIT that fails is answered with status `I` while
  `state.transaction` stays true (`StatusIsTruthful`; `server.go:2334`,
  `postgresql-compatibility.md:78`).
- COMMIT AND CHAIN by two-phase commit starts no new transaction
  (`ChainContinues`; `server.go:2531`, `connection-pooling.md:133`).
- A disconnect or broken Tunnel during the undo loop leaves prepared transactions
  (`NothingLeftPrepared`; `server.go:2602`, `architecture.md:75`).
- A session in a transaction whose Tunnel broke answers Sync with an error and no
  ReadyForQuery (`SyncIsAnswered`; `server.go:1490`, comment at 3961: "the frontend
  receives ReadyForQuery only in response to its later Sync message").

### Schema barrier and Nest (`SchemaBarrier`, `NestMetadata`)

- When open transactions and the DDL session hold the whole pool, the refresh waits
  for a connection and the statements that would release one wait for the refresh
  (run `pool_deadlock`; `server.go:1460`,
  `architecture.md:290`).
- DDL that an operator commits after the refresh that looked for it is not noticed
  (`DDLNeverMissed`; `server.go:1463`, `README.md:417`).
- Two Proxies that replace the registry from the same read give one revision to two
  schemas: the put is unconditional (`MonotonicRevision`; `registry.go:85`,
  `architecture.md:196`).
- After a crash between the commit of DDL and the end of its refresh the next start
  is refused (`backend.go:1294`), and after a refresh that fails behind its registry
  put with the DDL undone, `schemaUnchanged` ends later refreshes early
  (`StartupAccepted`; `backend.go:1289`, `README.md:417`).
- Outside the model: a put that timed out and is applied late (`registry.go:146`),
  and the clock condition of `ValidateTransition` (`catalog.go:375`).

### DDL and temporary relations (`SessionCatalog`)

- Durable CREATE or VIEW under the name of a temporary relation runs without
  gate, two-phase commit or refresh (`shadow`; `server.go:3283`, comment at 2886).
- `CREATE TABLE pg_temp.x` without TEMP (`unmarked`; `server.go:3350`), temporary
  views, sequences and unnamed indexes (`view`) are not remembered; `CREATE TEMP
  TABLE IF NOT EXISTS x ... ON COMMIT DROP` over an existing `x` marks it as
  dropped at commit, and IF NOT EXISTS behind `CREATE TEMP TABLE x ... ON COMMIT
  DROP` in one batch outside a transaction puts `x` back on the list although the
  batch's commit drops it (`guard`; `server.go:3394`). CREATE INDEX IF NOT EXISTS of
  an index, or another relation, that exists makes it the table's index on the list,
  and dropping the table drops it from the list (`guard`; `server.go:3407`).
- COMMIT of a failed transaction is applied to the list as a commit
  (`commitFailed`; `server.go:2812`).
- Temporary and durable DDL in one transaction: PREPARE is refused, and the
  failure path restores neither the list nor `schemaDirty` (`both`;
  `server.go:2497`).
- RENAME (`rename`), CREATE TABLE AS (`as`) and SET SCHEMA of durable tables do not
  refresh the registry, and a batch that begins with CREATE or ALTER hides a later
  DROP (`hidden`; `ddl/normalize.go:23`, `server.go:783`, `README.md:417`).

### Extended protocol (`ExtendedProtocol`)

- A second Bind sent before the Sync of the first request goes to PostgreSQL at
  once, because `state.pending` is taken; the first Bind's parameters run for both
  Executes, or one Execute is overwritten, and the client is told of success
  (option `pipeline`, `RanAsAsked`; `server.go:389`, 449,
  `postgresql-compatibility.md:62`).
- After Close or Describe forced a batch out, answers follow an error before Sync
  (`NothingAfterError`; `server.go:403`).
- `materializeStatement` goes on after a Parse refused with 42P05, as a duplicate,
  but PostgreSQL drops what follows until Sync: the Bind or Describe is never
  answered and the handler waits for ever. A Burrow has a statement that the pool
  does not know after a DEALLOCATE or DISCARD TEMP, which forget all statements of
  the connections (fault `forgotten`, `CyclesEnd`; `server.go:920`, comment at 921:
  "so duplicate Parse is idempotent").
- A Tunnel that cannot be opened for a later target ends the send loops of
  `flushPendingExtended` and `exchange` with the earlier targets' answers unread and
  no Tunnel broken: the next exchange takes them for its own, or the Tunnel goes
  back to the pool with them (fault `unsent`, `TunnelsInStep`; `server.go:1567`,
  1942, `architecture.md:119`).
- A Tunnel lost during an exchange leaves the other's answer unread
  (`NoAnswerLeftUnread`; `server.go:1943`, `architecture.md:119`), and one lost
  during Sync gives an error without ReadyForQuery.
- `syncConsumed` is stale after Flush and another request (`lateError`); a portal
  used after the Proxy's own Sync is gone (`reuse`).

### COPY (`CopyFormat`, `CopySession`)

- A COPY TO that fails on one Burrow releases the Tunnels of later Burrows with
  output unread (run `copy_unread`).
- The row limit is applied to what stays buffered, so a longer row that arrives
  whole passes (`RowLimitHolds`; `copy.go:481`, `README.md:370`).
- COPY (query) TO is planned as text without options, so several headers or
  envelopes reach the client (`OneOutputStream` with `QueryRequests`;
  `copy.go:70`, comment at 306); a text HEADER on output is not stripped either
  (`copy.go:325`).
- A COPY that one Burrow refuses leaves the others in COPY mode (`server.go:1055`).
- A CSV header with a quote inside an unquoted field is cut differently from
  PostgreSQL.
- COPY FROM ... WHERE is accepted, and so are rows behind a `\.` line; PostgreSQL
  stores fewer rows than the Proxy counted, and the COPY is answered with a row count
  error after every Burrow has committed, or in a transaction that it does not fail
  (`ErrorAfterCommitIsTheBurrows` and `ErrorFailsTransaction` say where that can
  happen; `server.go:1381`, 1406, `copy.go:534`, `README.md:366`). A refused COPY plan
  does not fail the transaction either.

### Tunnel pool (`TunnelPool`)

- RESET ALL after SQL PREPARE or LISTEN unpins the session and forgets
  `discardPrepared`, so the prepared statement reaches the pool (`resetAll`;
  `server.go:3762`, `connection-pooling.md`: "requires full prepared-state cleanup
  before the physical connection can be reused").
- RESET of a startup parameter, or RESET ALL or DISCARD ALL while pinned, goes to
  the default of the DSN and not to the startup value (`reset`).
- A stateless DEALLOCATE releases its connection before the cache is invalidated
  (`deallocate`); `SELECT 1; DEALLOCATE ALL` does not invalidate it at all.
- DEALLOCATE or DISCARD of another session makes a checked-out connection unknown;
  the Parse sent again is refused as a duplicate and relayed, and `MarkPrepared`
  then makes the cache partial (`CacheExact`; comments at `server.go:921` and
  `backend.go:714`).

### Routing (`KeyValues`, `Routing`)

- A float key `-0` is canonicalised differently from `0`, and type modifiers
  (`numeric(p,s)`, `varchar(n)`, `char(n)`) of columns and casts are ignored
  (`architecture.md`, about line 260: "The Proxy canonicalizes equivalent typed
  values before hashing").
- A number given to a text key (`1e2`, `+5`, `-0`) and a numeric or float cast to
  text (`1.50::numeric::text`) are hashed differently from what PostgreSQL stores.
  Adding such expressions to `Exprs("text")` of `MCRouting` shows it.
- Parse plans with the placeholder `0`, so parameterised writes on tables with a
  uuid key are refused (`server.go:307`, 803; `architecture.md`, about line 244:
  "Simple and extended-query execution use the same plan.").
- A binary parameter of unknown type is taken as raw bytes: bytes that are digits are
  routed as the number they spell, to a Burrow that is not the value's
  (`Mistaken` of `MCRouting` in place of its statements, `SamePlan`; `server.go:851`,
  `router.go:697`).
- A read whose WITH clause writes to an unsharded table is planned as a read, and in
  replicated mode changes one copy (`Mistaken`, `OneTable`, `AnswersAsOne`;
  `router.go:216`, `architecture.md:239`: "writes reach all routable Burrows").
- An aggregate that is not on the router's list of names, such as a user-defined one,
  is scattered and its partial results are returned as rows (`Mistaken`,
  `AnswersAsOne`; `router.go:904`, `architecture.md:67`).
- Writes to unsharded tables that read or change sharded ones run on each Burrow's
  own rows or only on the primary (`server.go:2694`, `README.md:327`). Reads in a
  batch of several statements skip `scatterError` and are merged (`router.go:60`).
- Copies of a replicated unsharded table diverge when autocommit writes run
  concurrently or fail on one Burrow, and row counts are summed over the copies
  (`backend.go:1468`).

## What the models leave out

- *TransactionCoordinator* has one session: sessions meet in PostgreSQL's locks
  only. The Tunnels of a pinned session never break while its frontend is there: one
  that lives on after a transport failure reads stale responses from its other
  Tunnels, which is `ExtendedProtocol`'s subject.
- *ExtendedProtocol* is outside explicit transactions. A write that fails on an open
  Tunnel counts as a lost answer.
- *SchemaBarrier* has one Proxy and one pool; schema contents and the messages of
  the two-phase commit belong to other modules.
- *SessionCatalog* has simple Query batches, without DISCARD ALL, SELECT INTO and
  EXPLAIN ANALYZE. The gate is `SchemaBarrier`'s.
- *TunnelPool* has one Burrow. Errors of COMMIT are `TransactionCoordinator`'s and
  lost Tunnels and `materializeStatement` `ExtendedProtocol`'s; the
  `standard_conforming_strings` hook is left out. An Execute is one action: an
  `Invalidate` that falls inside it has the effect of one before or after it.
- *Routing* runs one statement at a time and has no expressions beyond those that
  route. The hash is arbitrary, and collations are deterministic. Float,
  boolean and uuid keys, type modifiers, temporary relations and the parser's fallback are left out.
- *CopyFormat* has one-token fields and a row limit of a few tokens, also on output.
- *NestMetadata* has placements instead of vshard arrays, and schema contents are
  the set of tables.

## Not modelled

- *Connection start*: the startup packet, the refusal of SSLRequest, and
  CancelRequest, which ends the connection, are straight-line I/O.
- *`topology.Validate`, `ValidateTransition`* and the checks of registry values are
  predicates over one value. `NestMetadata` has those parts of them that decide
  between two writers. No code drives the life cycle of Burrows (joining, draining,
  removed) that the transition rules speak of.
- *`ddl.Normalize`'s rewriting of columns* is text over the SQL parser's tree; which
  batches it recognises is in `SessionCatalog`.
- *Configuration and process start and stop*: one file is read and validated, and
  the parts are wired together, before anything runs.
- *PostgreSQL compatibility report*: an offline comparison of test output.
- *Statistics, status server, command line, tracing*: they observe, and nothing
  else reads them to decide anything.
- *Nest storage maintenance*: deletes and compacts a disposable test namespace; the
  Proxy never calls it.

## Running

    tlc -workers 2 -config MCTransactionCoordinator.cfg MCTransactionCoordinator
    tlapm TransactionCoordinatorProofs.tla

Each cfg belongs to the module whose name it begins with. The runs take up to
about three minutes each on two cores.
