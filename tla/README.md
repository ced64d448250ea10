# Verification of CDBQuery

TLA+ models of the CDBQuery database framework (a connection pool and a query
facade over MySQL, PostgreSQL and SQLite), the TLC runs that check them on
small instances, and TLAPS proofs of their main properties for every number of
threads, connections, pools and borrowers and every limit and bound. Paths below
are relative to the repository's root; the C++ sources are in `src/sqlConnPool`
and `include`.

## 1. The system

| Component | State it keeps | Operations | Module |
| --- | --- | --- | --- |
| `CDBConnPool` | `m_idleConns`, `m_busyConns`, `m_connRealNum`, `m_connMinNum`, `m_connMaxNum`, `m_mutex` | constructor, `getDBconnect`, `freeDBconnect`, `setConnNum`, destructor | `ConnPool` |
| `CDBPool` and globals | `g_mapPools`, `g_defPool`; per object `m_pool`, credentials, stored limits | constructors, setters, `setLinkCount`, `create`, `clear` | `PoolRegistry` |
| `CDBQuery` | `m_pool`, `m_dbConn` | three constructors, destructor, forwarding calls | `PoolRegistry`; the session modules |
| MySQL driver (`CDBMysqlConnect`) | handle, `m_isPage`, `m_stmt`, `m_sqlbind`, `m_binCount`, `m_sql` | connect, test, prepare, bind, exec, query, paging, `clearQuery` | `MysqlSession` |
| MySQL result set | `m_pQuery`, `m_curRow`, `m_data`, `m_pTmp`, counters | `reset` (two), `clear`, `next`, getters | `MysqlSession` |
| `CDBConnect`, `CDBResultSet` | counters of a result set | `begin`, `commit`, `rollback`, `addBindValues`, `size`; the promise of `query` and `next` | the session modules; `RowCursor` |
| PostgreSQL driver (`CDBPgsqlConnect`) | handle, `m_sql` | connect, test, prepare, exec, query, `clearQuery` | `PgsqlSession` |
| PostgreSQL result set | `m_pQuery`, counters | `reset`, `clear`, `next`, getters | `PgsqlSession` |
| SQLite driver (`CDBSQLiteConnect`) | `m_dbHandle`, `m_statement`, `m_sql` | connect, disconnect, prepare, bind, exec, query, `clearQuery` | `SqliteSession` |
| SQLite result set | `m_data`, `m_pTmp`, counters | `callback`, `reset`, `clear`, `next`, getters | `SqliteSession` |
| `CDBObject`, `CDBTypeUserInfo`, `common`, `statuscode` | values | conversions | not modelled |
| SQLite amalgamation, client headers, `lib/` | - | - | third party |

How they interact. A program makes a `CDBPool` and calls `create(name)`, which
opens a `CDBConnPool` and publishes it in `g_mapPools` and, if it is the first,
in `g_defPool`. Each `CDBQuery` looks a pool up (by default, name or `CDBPool`)
and borrows one connection with `getDBconnect(true)`; its destructor returns the
connection with `freeDBconnect`, which calls the driver's `clearQuery`. All
calls between go straight to the driver. Threads share the pool (one mutex), the
globals (no lock) and, one after another, the connections.

What is hard about it:

* **Interleaving.** `getDBconnect` holds the mutex across network calls;
  `setConnNum` takes no mutex; the globals are read and written statement by
  statement, with no lock.
* **Partial failure.** A connect may fail at creation or after a failed test,
  in the middle of the locked part; `prepare` and the prepared query fail half
  way; a pool may fail in its constructor.
* **Limits.** The count is adjusted by hand on every path, the limit test
  compares for equality, the shrink test mixes list sizes and the count.
* **State that outlives its owner.** What one borrower leaves in a connection
  meets the next one; `m_pool` pointers outlive `clear`; parameters are bound
  by address; a SQLite statement outlives the `prepare` that replaces it.
* **One interface, three drivers.** `query` and `next` promise the same rows for
  all of them, while the result set is a handle that is fetched from (MySQL), a
  handle that is indexed (PostgreSQL) or a copy (MySQL prepared, SQLite).
* **Progress.** Callers poll every 100 ms with no queue.

Correctness, per component: the pool never loses, shares or miscounts a
connection, keeps its limits, hands out working connections and answers
waiting callers; the globals never point at a deleted pool, and `create`'s
success means a usable pool; a connection shows a borrower its own rows, each
once, keeps statement and parameter array consistent, leaks no result handle,
and carries nothing over.

## 2. Modules

### ConnPool

One `CDBConnPool` and its client threads. `idle`, `busy`, `real`, `minNum`,
`maxNum`, `mutex` are the members; `pc`, `cur` and `waits` are each thread's
place in the code, its `pConn` and its `is_wait`; `held` are the connections
its live `CDBQuery` objects own; `link` is what a connection's client handle is
worth. A connection id is reused after it was deleted, as a heap address is.

| Code (`CDBConnPool.cpp`) | Actions |
| --- | --- |
| constructor loop 46-55, early return 48-51 | `CtorOpen`, `CtorFail` |
| destructor 59-72, of a pool that failed | `Destroy` |
| `getDBconnect` to the lock | `GetCall` |
| lock, idle one found 117-124 | `GetIdle` |
| lock, at the limit 127-130; sleep and retry or give up 130-135 | `GetFull`, `Wake` |
| lock, creation 137-144 | `GetGrow`, then `OpenOk` or `OpenFail` |
| test 148, hand out 165 | `TestPass` |
| test failed, disconnect, connect 148-162 | `TestFail`, then `RetryOk` or `RetryFail` |
| `freeDBconnect` 169-189 | `FreeCall`, then `FreeShrink` or `FreeKeep` |
| `setConnNum` 107-111, two unlocked writes | `SetMin`, `SetMax` |
| the server, the client library | `Drop`, `Notice` |

Code between `lock()` and the first network call or `unlock()` touches only
data the mutex guards, so it is one step; each network call made under the
mutex ends in a step of its own. `setConnNum`'s writes can fall between any two
steps. `PingsServer` selects the driver's connection test: `mysql_ping`, or
PostgreSQL's `PQstatus`, which reads a cached status.

Two of the properties say what a caller of `getDBconnect` gets. With the MySQL
test it works at that moment (`HandedOutLive`); with either driver it is at
least not known to be broken (`HandedOutUsable`). It is made to wait only when
`CDBQuery` objects hold `maxNum` connections (`NoNeedlessWait`): no connection
that was put back, failed or deleted still counts against those who wait.

`ConnLease` is the abstract contract: connections exist, are free or taken, and
each is leased to at most one client; a new one is opened only when none is
free; one is closed only by its lessee's return. It has no lists, count, mutex
or health test. `ImplementsLease` instantiates it with the refinement mapping
open = idle and busy connections, taken = busy, lease = held. What clients can
rely on follows from the contract alone and is proved there: a connection
passes from one client to another only through the pool, and is closed only as
its one client returns it.

### PoolRegistry

`g_mapPools` (`reg`, with `Absent` for no entry and `Null` for a stored
nullptr), `g_defPool`, the `CDBPool` and the `CDBQuery` objects. One thread
administers (`create`, `clear`, `setLinkCount`), with every read or write of a
global as a step of its own; other threads construct and destroy `CDBQuery`
objects meanwhile. The default constructor reads `g_defPool` for `m_pool` and
again to connect, and that is two steps. Deleted pool objects stay visible as
"deleted" so that a stale pointer is recognised. `getDBconnect` is reduced to
its answer, a connection of that pool or nullptr: what happens inside is
`ConnPool`'s subject.

Obligations of the callers, stated as named guards: `SomePool` (README.md:10, a
pool is created before `CDBQuery()` is used), `Quiesced` and `Clearing` (nobody
constructs a query during `clear`, or holds one on the pool that goes away: the
code cannot protect such a caller, `clear` deletes the pool). A run without
them would only show that `delete` frees.

`PoolLifetime` is the abstract contract: a pool object is built once and deleted
at most once, a client is given one pool, while it is live, its connection comes
from that pool, and a pool is deleted only when no client has it. It has no
names, default, limits or administering thread. `ImplementsLifetime` instantiates
it with the refinement mapping life = `state`, conn = `qconn`, and uses =
`UsedBy`: the pool in `m_pool` of a `CDBQuery` that is being constructed or
exists.

### MysqlSession

One `CDBMysqlConnect` with its result set, and the `CDBQuery` objects that
borrow it one after another; that they do not overlap is `ConnPool`'s
`Ownership` and `NoDirectHandover`. `page` is `m_isPage` together with who set it; `stmt`, `binds`,
`binCount`, `sql` are the members for prepared statements, `bound` is what
`mysql_stmt_bind_param` copied; `rs` is `CDBMysqlResultSet` (two modes: direct
results fetched from a `MYSQL_RES`, prepared results copied into `m_data`);
`tx` is the server's open transaction. `given`, `nb`, `seen` and `open` are
history: the values the caller meant, how far it has bound, what `next()` told
it, and the `MYSQL_RES` objects not freed. The server and libmysqlclient are
external: a statement succeeds or fails, the connection drops, the client
reconnects by itself (`MYSQL_OPT_RECONNECT`) and then knows neither transaction
nor prepared statements. Callers go on with a statement only when `prepare`
returned 0 and bind all parameters in ascending order, as `addBindValues` and
the example program do. `exec` has no action: direct or prepared, it changes
none of these variables (`CDBMysqlConnect.cpp:154-180`, 235-257), and rows and
counts of its answer are not modelled; the transaction statements it runs are
`Begin` and `Finish`.

### RowCursor

What `CDBConnect.h:102-125` promises of `query` and `next`, whichever driver is
behind it, in six actions: a connection is taken and left, a statement is
answered or not, `next` gives a row or the end. An answer replaces the one
before; its rows come once and in order; `false` comes exactly after the last;
a statement that fails gives no rows of its own (the old answer stays, or is
emptied, and both happen in the drivers); a connection that changes hands takes
no answer along. Each session module instantiates it (`Cursor`), with `Position`
as the number of rows given and the row the getters read as `row`, and has the
contract as the property `ImplementsCursor`. What a caller's loop over `next`
relies on (rows in order from the first, the end after the last, no row of a
replaced answer, nothing left for the next borrower) is proved from the contract
alone, once for the three drivers.

### SqliteSession

One `CDBSQLiteConnect` with its result set. `handle`, `stmt`, `sql` are
`m_dbHandle`, `m_statement`, `m_sql`; `rs` has `m_data`, `m_nRowCount`,
`m_nRowIndex` and `m_pTmp`; `unfinal` are the statements the handle still knows,
`args` what SQLite has bound. `given`, `denied`, `nb`, `accepted`, `last`,
`told` are history: the value the caller last passed for each placeholder,
whatever the call returned; the placeholders whose last call returned an error;
how far the caller has come in this round of binding; whether any `prepare`
succeeded; the holder's last answer and what `next()` said of it. `args` follows
the code and `given` the caller, so they part wherever a value does not arrive.

| Code (`CDBSQLiteConnect.cpp`, `CDBSQLiteResultSet.cpp`) | Actions |
| --- | --- |
| `connctionTest`, `clearQuery`, destructor with `disconnect` | `Borrow`, `GiveBack`, `Delete` (`Closed`) |
| direct query, `callback`, `reset(nullptr)` | `QueryOk`, `QueryFail` (`Clear`, `Appended`, `Count`) |
| `query("")`, `reset(sqlite3_stmt*)` | `RunOk`, `RunNone` |
| `exec("")` | `Exec` |
| `prepare`, `addBindValue` | `Prepare`, `AddBindValue`, `AddRefused` (`Meant`) |
| `next` | `NextRow` (`HasNext`, `Advance`) |
| `begin`, `commit`, `rollback` | `Begin`, `Finish` |

SQLite is external and in the process: the handle never drops, a statement that
was stepped refuses new arguments until it is reset, a refused prepare stores
null, and `sqlite3_close` refuses while a statement is not finalised. Three
switches name what the passing run leaves out: `Again` (a prepared query may
follow another answer of the same `CDBQuery`), `StepsFail` (a step may fail
after the first row; the code takes that for the end of the answer) and
`Rebinds` set to `FALSE` (a caller may run a statement again after `exec`
without binding it anew; `exec` has wiped the arguments and tells nobody, and
TLC then finds `ArgumentsArrive` violated). Callers do not look at what
`addBindValue` returns, as the example program does not (README.md:96-103): a
refused call counts for them like any other, and the statement then runs with
the argument it had before. `ArgumentsArrive` says that this happens only where
the call returned an error (`CDBConnect.h:180-182`).

### PgsqlSession

One `CDBPgsqlConnect` with its result set. `handle` is `m_pPsql` with what libpq
knows of the server, `names` the statement names the server session has,
`rs` has `m_pQuery`, `m_nRowCount`, `m_nRowIndex`, and `open` are the `PGresult`
objects not freed.

| Code (`CDBPgsqlConnect.cpp`, `CDBPgsqlResultSet.cpp`) | Actions |
| --- | --- |
| `connctionTest`, `disconnect` and `connect` after a failed test | `Borrow`, `BorrowRepaired`, `BorrowFail` |
| `clearQuery`, destructor | `GiveBack`, `Delete` (`Cleared`, `Freed`) |
| direct query, `reset` | `QueryOk` (`Shown`), `QueryFail` |
| direct statement, `begin`, `commit`, `rollback` | `ExecSql` |
| `prepare`, `exec("")`, `query("")` | `Prepare`, `ExecPrepared`, `QueryPrepared` (`PrepareName`) |
| `next`, getters | `NextRow`, `ReadRow` |

What the translation shows and a run cannot: after an answered prepared query
nothing is defined, because `query` frees the result it has just stored
(`CDBPgsqlConnect.cpp:243`; with `Prepared = TRUE` TLC finds `ResultOwned`
violated there); a second prepared query on a connection is refused, because the
name is taken; `addBindValue` writes through arrays that nothing allocates and a
failed INSERT reads a field of an empty result, so no state follows either.
`isEnd` of all result sets returns true while rows are left, the opposite of
`CDBConnect.h:110-111`; it changes nothing and is not modelled.

### MC modules and seeded defects

`MCConnPool`, `MCPoolRegistry`, `MCMysqlSession`, `MCSqliteSession` and
`MCPgsqlSession` give the constants their values. Each component module has a
section "Seeded defects": definitions with a plausible slip (a missing unlock, a
connection left in the busy list, a forgotten free), used by no specification.
For every property of a passing run one of them makes TLC find that property
violated.

## 3. Runs

| Run | Instance | Result |
| --- | --- | --- |
| `ConnPool_safety` | 3 threads, 3 connections, start limits 2..2, `setLinkCount` (2,3) or (3,3), up to 2 connections per thread, MySQL test; a call that would lower the maximum is excluded (`ACTION_CONSTRAINT Raising`, the step form of `RaisingSpec`); about 99 000 states | all 11 properties hold |
| `ConnPool_live` | 3 threads, 2 connections, limits 1..2, 1 per thread, PostgreSQL test; about 30 000 states | 3 liveness properties and `HandedOutUsable` hold |
| `ConnPool_lowered` | maximum lowered from 2 to 1 | `CreateRespectsMax` violated |
| `PoolRegistry_known` | 2 names, 3 pool objects, 2 `CDBPool`, 2 `CDBQuery`; 574 000 states | all 8 invariants and `ImplementsLifetime` hold |
| `PoolRegistry_unknown` | names nobody created may be used | `CreatedIsUsable` violated |
| `MysqlSession_reuse` | 2 borrowers, 3 statements, 2 rows, 2 parameters; 265 000 states | all 6 invariants and `ImplementsCursor` hold |
| `MysqlSession_carried` | the same, 2 statements | `SessionOwn` violated |
| `MysqlSession_argument` | arguments may be temporaries | `ArgumentsArrive` violated |
| `SqliteSession_reuse` | 2 borrowers, 4 statements, 2 rows, 2 parameters; 330 000 states | all 4 invariants and `ImplementsCursor` hold |
| `SqliteSession_again` | 3 statements, prepared queries after each other | `SizeExact` violated |
| `SqliteSession_lost` | 3 statements, the connection is deleted | `HandleClosed` violated |
| `PgsqlSession_direct` | 2 borrowers, 4 statements, 2 rows, no answered prepared query; 2 400 states | both invariants and `ImplementsCursor` hold |

What the violations show (each quoted with its line in `PROJECT.json`):

* `m_connRealNum == m_connMaxNum` is the only limit test. Lowering the maximum
  under the count makes the pool unbounded.
* `CDBQuery("typo")` stores nullptr under "typo"; `create("typo")` later returns
  0 and creates nothing.
* `clearQuery` clears the result set only: an uncommitted `BEGIN`, a paging
  flag, a prepared statement and the last row object reach the next borrower,
  whose statements then run in a foreign transaction.
* `addBindValue` keeps the argument's address; the README's own example binds
  literals and runs the statement in the next line.
* A second prepared query of a `CDBQuery` on SQLite appends its rows to the
  first one's and `size()` counts both: only direct queries clear.
* SQLite's `disconnect` closes the handle before it finalises the statement, and
  `prepare` forgets the statement before: a connection that ever prepared one is
  deleted with its handle still open, and with the transaction its last borrower
  did not end.

`HandedOutLive` depends on the driver. PostgreSQL's test returns `PQstatus`,
which does not change when the server goes away, so README.md:9's promise that
connections are checked first does not hold there: that test is the seeded
`PassLinksCached`, and with `PingsServer = FALSE` in `ConnPool_safety.cfg` TLC
finds the property violated.

`LimitsKept` stops short of a minimum of 0 (ignored by `create`, applied by
`setLinkCount` after it) and of the six-argument constructor, whose limits are
uninitialised and are applied when both happen to be positive. A MySQL prepared query that fails in a
`mysql_stmt_` call returns 1, which `CDBConnect.h:105` documents as one row;
`RunFail` leaves return values out.

**Bounds.** Three threads are enough for every pattern the pool has: one inside
the lock, one between its reads, one to compete; three connections exercise
growth, shrinking and a full pool, since limits, list sizes and the factor 3 of
the shrink test all occur with counts 0 to 3 (the shrink test is true from one
idle connection and none busy). `NestLimit` 2 lets a thread hold and wait. Names are two, so that
`clear` has another pool to promote; three pool objects allow one to be deleted
and recreated under a name. Two borrowers and three statements give a
connection a past, an old answer, a failed statement and a new one; two rows
tell "next" from "first" and "last"; two parameters tell "last" from "all". Four
statements on SQLite allow prepare, run, a second prepare and a direct query by
two borrowers.
Symmetry is used in runs without liveness
only.

**Fairness** (`ConnPool!Fairness`, used by `ConnPool_live`). A step made under
the mutex ends: connect and ping have timeouts (`CDBMysqlConnect.cpp:55-58`) or
fail with the socket. `Sleep(100)` ends. A `CDBQuery` is destroyed some day,
because it is a scoped object. Acquiring the mutex is strongly fair: a thread
that finds it free again and again gets it once, since every holder leaves the
lock for network-free code or `Sleep`. `GetCall`, `Drop` and `setLinkCount` are
not fair: nobody has to call, and nothing has to fail. `NestLimit` is 1: with
two connections per thread the callers can deadlock each other by holding one
and waiting for another, which no pool without timeouts prevents (with
`NestLimit` 2 TLC finds `PoolServes` violated). Even with this
fairness an individual waiting caller may lose every race for a returned
connection while new callers keep coming; so `PoolServes` says that somebody is
answered for ever, and `WaitersAnswered` that everybody is once new callers
cease.

Deadlock checking is on in every run: the pool and the sessions have an explicit
end (`Gone`), and the registry never ends.

## 4. Proofs

Eight modules hold theorems: one proof module per component, which `EXTENDS` the
component and `TLAPS`, and the three contracts (`ConnLease`, `RowCursor`,
`PoolLifetime`), each of which proves its own consequences. Every leaf is
checked, and no proof uses a bound: users, threads, pools, rows and statements
are any sets and naturals that satisfy the components' assumptions.

### The contracts

| Module | Theorem | Statement |
| --- | --- | --- |
| `ConnLease` | `LeasesSound` | no two clients have the same connection, and none a closed one |
| | `HandoverThroughPool` | no step moves a connection from one client to another |
| | `ClosedByLastClient` | a connection is closed only by its last client's return, or with the pool |
| `RowCursor` | `RowsInOrder` | an answer's rows come from the first on, one by one |
| | `EndsAfterLast` | `next` turns false after the last row and not before |
| | `AnswersStayGone` | a replaced answer never comes back |
| | `RowsOfAnswer` | the row the getters read is one of the answer there is |
| | `NothingLeftBehind` | a connection nobody has keeps no answer |
| `PoolLifetime` | `UsesAreLive` | a client's pool is live |
| | `PoolsKept` | a client keeps its pool, and its connection's pool, to the end |

Each rests on one invariant of the contract (`LeaseInv`, `CursorInv`, `LifeInv`).
A component inherits them through `INSTANCE`: its refinement theorem gives
`Spec => Contract!Spec`, and the contract's theorem, instantiated with the same
mapping, the rest. So `NoDirectHandover` and `OnlyReturnedClosed` hold of the
connection lists, `QueriesKeepPools` of the globals, and `NextInOrder`,
`EndsAfterLast`, `RowsOfAnswer` and `NothingLeftBehind` of each driver, without a
second invariant over its handles, modes and counters. `NoDirectHandover` is also
what allows the session modules to have their borrowers one after another.

### ConnPoolProofs

For every set of threads and connections, every limit pair and every nesting
bound that satisfies `NullAssumption` and `LimitAssumption` (null values are no
threads or connections; limits are naturals, minimum not above maximum, initial
minimum positive; all three hold in the code by construction or by the test in
`setLinkCount`), TLAPS checks

| Theorem | Statement |
| --- | --- |
| `TypeCorrect` | `Spec => []TypeOK` |
| `MutexDiscipline` | `Spec => []MutexHeldInside` |
| `ExclusiveOwnership` | `Spec => []Ownership` |
| `CountExact` | `Spec => []CountsMatch` |
| `HandlesHeld` | `Spec => []HeldHaveHandle` |
| `NoNeedlessGrowth` | `Spec => GrowOnlyWhenNoneIdle` |
| `ShrinkStops` | `Spec => []FloorKept` |
| `CapHolds` | `RaisingSpec => []WithinMax` |
| `CreateWithinMax` | `RaisingSpec => CreateRespectsMax` |
| `WaitsOnlyWhenFull` | `Spec => NoNeedlessWait` |
| `HandOutWorks` | `Spec => HandedOutLive`, where `PingsServer` |
| `HandOutUsable` | `Spec => HandedOutUsable` |
| `PoolImplementsLease` | `Spec => ImplementsLease` |
| `NoDirectHandover` | `Spec => Lease!ThroughPool` |
| `OnlyReturnedClosed` | `Spec => Lease!ClosedByLast` |

The argument. `StepCases` splits a step into its actions once, for all proofs.
`TInv` strengthens the type invariant by what a thread's place implies about
its `cur`; it is needed because `cur[t]` is used as a connection wherever the
code dereferences `pConn`. The mutex discipline follows from each return path's
`mutex' = NoThread`. Ownership is inductive only together with both: a
connection under test belongs to the lock holder and to nobody's `held`, so
each list operation moves one connection between exactly two owners. This is
stated once in three lemmas (`TakeOne`, `GiveOne`, `KeepAll`) on distinct
sequences and disjoint sets. `CountExact` then rests on ownership, because
`m_busyConns.remove` lowers the size by one only if the connection was there.
`FloorKept`, `WithinMax` and `GrowOnlyWhenNoneIdle` need invariants of their own
about the pending second write of `setConnNum`, a thread that has passed the
limit test, and a thread that creates on an empty idle list. The refinement
proof maps each action to one of the contract's or to a stutter.

`CreateWithinMax` needs callers who only raise the maximum (`RaisingSpec`) and
`HandOutWorks` a test that asks the server; `ConnPool_lowered` and the mutant
`PassLinksCached` show that neither holds without. Both hand-out theorems split
on the only two steps that let `held` grow, a test that passed and a
reconnection that worked. `WaitsOnlyWhenFull` is counting: a thread that finds
the pool at the limit found the mutex free, so no connection is under test,
the busy list is exactly what `CDBQuery` objects hold (`BusyHeld`), the idle list
is empty, and `CountExact` turns the count into the number of those.

### PoolRegistryProofs

| Theorem | Statement | Assumes |
| --- | --- | --- |
| `TypeCorrect` | `Spec => []TypeOK` | |
| `GlobalsSound` | `Spec => []NoDanglingGlobal` | |
| `NothingLost` | `Spec => []NoPoolLost` | |
| `QueriesUseLivePools` | `Spec => []QueryPoolAlive` | |
| `ConnectionsReturn` | `Spec => []ConnFromOwnPool` | |
| `LimitsAreKept` | `Spec => []LimitsKept` | |
| `DefaultFound` | `Spec => []NoWildQuery` | `~UnknownNames` |
| `CreatedUsable` | `Spec => []CreatedIsUsable` | `~UnknownNames` |
| `RegistryImplementsLifetime` | `Spec => ImplementsLifetime` | |
| `QueriesKeepPools` | `Spec => Lifetime!PoolKept` | |

The inductive invariant has four parts, each with a step lemma. `GlobalsInv`
says what each place in `create` and `clear` knows: the pool in hand is not
under any name, the default is not null once `insert` is reached, the pool about
to be deleted is no longer the default. `UsesInv` adds what a `CDBQuery` between
its two reads of `g_defPool` relies on: `qpool[q] = defPool`, because no `clear`
may overlap and `create` sets the default only when it is null. `LimitsInv`
follows limits through `CDBPool`, a pool under construction and a live pool:
each `CDBPool` has a pool of its own, and expected limits are either stored or
applied. `KnownInv` needs that nobody looks up an unknown name, and is kept apart.

The refinement proof (`LifetimeMaps`) has two halves. `PoolSteps` maps the
administering thread: the step that deletes is a `Retire`, because `UsesInv`
leaves no `CDBQuery` on the pool in hand, and all its other steps on the globals
are a `Build`, a `Built` or stutters. `UserSteps` maps the constructors and the
destructor: the read of a global is an `Enter`, because `GlobalsInv` makes what
it finds live; the `getDBconnect` that follows, on the second read of `g_defPool`
in the default constructor, is a `Borrow` from the pool of the first read.

### MysqlSessionProofs, SqliteSessionProofs, PgsqlSessionProofs

| Module | Theorem | Statement | Assumes |
| --- | --- | --- | --- |
| MySQL | `TypeCorrect` | `Spec => []TypeOK` | |
| | `NothingLeaks` | `Spec => []NoResultLeak` | |
| | `RowsAreOwn` | `Spec => []NoForeignRows` | |
| | `StatementsMatch` | `Spec => []StatementConsistent` | |
| | `RowsInOrder` | `Spec => []CursorExact` | |
| | `ArgumentsKept` | `Spec => []ArgumentsArrive` | `~Temporaries` |
| | `SessionImplementsCursor` | `Spec => ImplementsCursor` | |
| | `NextInOrder`, `EndsAfterLast` | `Spec => Cursor!InOrder`, `Cursor!EndAfterLast` | |
| SQLite | `TypeCorrect` | `Spec => []TypeOK` | |
| | `StatementsSound` | `Spec => []StatementSound` | |
| | `ArgumentsKept` | `Spec => []ArgumentsArrive` | `Rebinds` |
| | `UnpreparedClosed` | `Spec => []ClosedUnprepared` | |
| | `SizesExact` | `Spec => []SizeExact` | `Regular` |
| | `SessionImplementsCursor` | `Spec => ImplementsCursor` | `Regular` |
| | `NextInOrder`, `EndsAfterLast` | `Spec => Cursor!InOrder`, `Cursor!EndAfterLast` | `Regular` |
| | `AnswersWhole` | `Spec => []AnswerAtEnd` | `~StepsFail` |
| PostgreSQL | `TypeCorrect` | `Spec => []TypeOK` | |
| | `ResultsOwned` | `Spec => []ResultOwned` | `~Prepared` |
| | `SessionImplementsCursor` | `Spec => ImplementsCursor` | `~Prepared` |
| | `NextInOrder`, `EndsAfterLast` | `Spec => Cursor!InOrder`, `Cursor!EndAfterLast` | `~Prepared` |

`Regular` is `~Again /\ ~StepsFail`. Each assumption is what a violation run, the
passing run with that switch turned (`Rebinds`, `StepsFail`), or the code's own
undefined behaviour shows to be needed. `StmtInv` and `ResultInv`
are the two halves of the MySQL and SQLite invariants, because the
statement's arguments and the rows of the answer can be followed apart. For MySQL the
row counter means something different per mode, and `ResultInv` ties it to what
`next()` has told (`seen`); for SQLite and PostgreSQL `CursorInv` does so with
`last` and `told`. `StmtInv` of SQLite says that the
placeholders bound in this round hold what the caller means or were refused
(`BoundSoFar`): `nb`, which a refused call moves on and `exec` sets back, is what
ties the two together while a statement is bound, run and bound again. It also
carries that `unfinal` is empty exactly while no prepare has succeeded, from which
`ClosedUnprepared` follows at `Delete`. The
refinement proofs map `Borrow`, `GiveBack`, the answers, the failures and
`NextRow` to the contract's actions and all else to stutters.

Two theorems say what is left of a property that a violation run refutes.
`AnswersWhole` allows prepared queries after one another, where `SizeExact`
fails (`SqliteSession_again`): the rows of the last answer are nevertheless all
there, in order, at the end of `m_data`, so the only harm is that older rows come
first. `TidyCallersApart` (MySQL) assumes borrowers who end their transaction and
switch paging off before they return a connection (`TidySpec`): then a holder's
connection has no foreign transaction and no foreign paging flag, whatever drops
and reconnections do, which is the first half of the `SessionOwn` that
`MysqlSession_carried` violates.

Only model-checked: `MutexFreed`, `PoolServes` and `WaitersAnswered`, since TLAPS
handles neither fairness nor ENABLED. Four of the six properties that violation
runs refute (`CreateRespectsMax`, `CreatedIsUsable`, MySQL's `ArgumentsArrive`,
`SizeExact`) are theorems under the assumption the run drops; of the other two
parts are: of `SessionOwn` the one above, of `HandleClosed` the connections that
never prepared a statement (`UnpreparedClosed`).

## 5. Not modelled, and why

* The destructor of a pool with live borrowers: excluded by `Quiesced`.
* Data races proper (two threads inside `std::map`, torn integers): the models
  interleave statements; a race inside one is undefined and has no step.
  `m_connMinNum` and `m_connMaxNum` are aligned ints, read and written whole.
* Field conversions, error texts, logging, the charset and platform branches;
  so a NULL column (`CDBSQLiteResultSet.cpp:37`, `CDBMysqlResultSet.cpp:85`) and
  values that overflow an `int` do not show.
* `mysql_library_init` and `mysql_library_end`, which a failed connect calls
  while other connections are open, escaping, and `pagingCount`'s query.
* PostgreSQL's parameters: `addBindValue` writes through `m_param` and its
  companions, which nothing allocates.
* `CDBObject`, `CDBTypeUserInfo`, `common`, `statuscode`: values and text.
* The vendored `sqlite3.c`, `sqlite3.h` and the MySQL and PostgreSQL client
  headers, more than 260 000 of the tree's lines. They are third-party code; the
  models state what this code relies on of them as external actions. The
  framework itself has about 3 000 lines of C++ source.

## 6. Plan

1. `ConnPool`, `ConnLease`, `PoolRegistry`, `PoolLifetime`, the three sessions,
   `RowCursor`, and the proofs of all of them. Done.
2. The row buffers of `reset(MYSQL_STMT*)`: allocation, reuse between rows, the
   leak on its early return, NULL fields.
3. `setLinkCount` through `CDBPool` composed with `ConnPool`'s limits, and the
   library initialisation that several pools share.
4. Integer conversions of insert ids and row counts (width 32 from 64).
