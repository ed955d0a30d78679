# yamlq, specified and checked in TLA+

yamlq runs the SQL views described in YAML files. A Python client (`cli/yamlq`)
talks HTTP to a Go gateway (`db-gateway`) that owns the database pools. This
directory holds TLA+ modules for the parts of the program where something can
go wrong that a test hardly reaches, TLC configurations that check them on small
instances, and TLAPS proofs for every instance. Paths below are relative to the
repository (`src/` here); line numbers are those of the modelled commit.

`PROJECT.json` lists the components, the runs, the mutants that show each
property can fail, the source lines of every definition, the hazards and the
theorems. This file says what it all means.

1. [The system](#1-the-system)
2. [The modules](#2-the-modules)
3. [The runs](#3-the-runs)
4. [The proofs](#4-the-proofs)
5. [Where code and documents disagree](#5-where-code-and-documents-disagree)
6. [What is not modelled](#6-what-is-not-modelled)
7. [Plan](#7-plan)

## 1. The system

```
 cmd_run / TUI ── Gateway object ──HTTP──> server.go handlers ──> conn.Manager ──> databases
   (cli.py,        (gateway.py)              (server.go)          (manager.go,
   tui/app.py)          │                                          query.go, errs)
                        └─ spawns, finds, stops ─> main.go, serve.go <─ discovery files
```

| component | state | operations | who else touches it |
|---|---|---|---|
| connection manager (`conn/manager.go`) | two maps of pools, `globalSem`, `querySem`; a queue, a context and a worker per pool; the reaper and its stop channel | OpenConn, SubmitQuery, CloseConn, CloseAll, Ping, StartReaper, StopReaper | every HTTP handler goroutine, the workers, the reaper, two shutdown paths |
| query execution (`conn/query.go`, `errs/errors.go`) | one answer being read, its deadline | executeOne, Classify | the worker; `database/sql` closes the rows from a goroutine of its own |
| HTTP server (`server/server.go`) | auth token, shutdown function | /connect /query /close /ping /shutdown | one goroutine per request |
| process life cycle (`main.go`, `serve.go`) | listener, discovery files, signal channel, `envFilesWritten` | run, writeEnvFile, cleanupEnvFile | other gateways write the same files; /shutdown and a signal may come at once |
| gateway client (`gateway.py`) | address, token, `_owned`, child process | start, connect, query, close, stop, serve | atexit, Ctrl+C; view threads share it |
| command line run (`cli.py`) | connection handles with a lock, thread pool, results | cmd_run, _run_view, _ConnHandle.get | view threads, session timeout, Ctrl+C |
| terminal UI (`tui/app.py`) | panes, results, one connection cache per fetch | fetch workers, paging, parameter dialogs | worker threads and the UI thread |
| SQL dialect (`dialect/`) | none | placeholder rewriting, pagination | executeOne chooses between them |
| view loader (`parser.py`) | the views loaded so far | load_views, render_sql, check_views | cmd_run, cmd_check, both user interfaces |
| renderer, converters | none | cells and tables | the converters serve both user interfaces, the lookup of a column is written twice |
| drivers (`driver/`) | constant registry | DSN rewriting | |
| daemon script (`scripts/yamlq-gateway.sh`) | PID file | start, stop, status | |

What is hard in this system:

* *Interleaving in the manager.* `m.mu` is released around everything slow:
  dialing, pinging, queries, sends to a full queue. Between looking a pool up
  and using it the pool may be closed, replaced by one with the same key, or
  reaped. Two openers of one database race, and one has to undo its work.
* *Resources.* Two semaphores are taken and given back on many paths, one of
  them (`<-m.globalSem` in closeLocked, manager.go:217) with the lock held: a
  missing token would stop the gateway.
* *Timeouts against answers.* The query deadline against rows arriving, the two
  seconds of OpenConn, the session timeout, the five seconds of `stop`.
* *Two of everything at shutdown.* A signal and POST /shutdown start the same
  sequence in two goroutines.
* *Files as messages between processes.* Gateways write, truncate and remove
  the discovery files clients are about to read.
* *Failures halfway.* Lost connections, killed processes, clients that crash,
  HTTP requests nobody answers but somebody serves.
* *Sharing nobody locks.* The fetch workers of the user interface share the
  gateway's pools, the threads of a worker a dictionary of connection ids.
* *One rule, two places.* Parameters, columns and closing are decided by
  different code in the command line and the user interface, binds by different
  code for each style of driver.

## 2. The modules

| module | models | lines |
|---|---|---|
| `PoolRegistry` | what the manager promises its clients: one pool per driver+DSN, a capacity, ids used once | abstract |
| `ConnManager` | `conn/manager.go` and the handlers of `server/server.go` | manager.go, server.go 75-151 |
| `QueryExec` | one call of executeOne, with `errs.Classify` | query.go, errs/errors.go |
| `CliRun` | one run of the command line client, against `PoolRegistry` as its gateway | cli.py 72-213 |
| `TuiApp` | one run of the terminal user interface, against `PoolRegistry` as its gateway | tui/app.py, cli.py 216-221 |
| `ViewRun` | what an invocation makes of its YAML files: views, parameters, the text for each driver, cells | parser.py 79-189, cli.py 61-85, 133-155, 240-281, app.py 225-228, 282-292 |
| `SqlText` | the text of a query: render_sql and both placeholder rewriters, and a reference that does not scan | parser.py 171-178, dialect/ |
| `Cells` | enum_map, converters, and the lookup of a column's configuration | converters.py, renderer.py 87-123, app.py 113-135 |
| `Positions` | a filtered list: the elements at a set of positions, in their order | parser.py 164 |
| `GatewayLife` | gateway processes, discovery files, and clients that find, spawn and stop them | main.go, serve.go, gateway.py |
| `PoolRegistryProofs`, `ConnManagerProofs`, `QueryExecProofs`, `CliRunProofs`, `TuiAppProofs`, `SqlTextProofs`, `ViewRunProofs`, `GatewayLifeProofs` | theorems about the module each is named after | |
| `MCConnManager`, `MCCliRun`, `MCTuiApp`, `MCViewRun`, `MCGatewayLife` | instances for TLC | |

How they compose: `ConnManager` *implements* `PoolRegistry` (property
`RegistrySpec`, checked and proved), and `CliRun` and `TuiApp` *use*
`PoolRegistry` in the place of the manager, so what is shown of the clients holds
with the real manager behind it. `ViewRun` is the data the two leave out: which
views they get, and what is in the queries and the answers; it is built from the
operators of `SqlText` and `Cells`. `ConnManager` lets a query end in any of the ways of `Outcome`, which
`QueryExec` details. `GatewayLife` leaves out the pools: what StopReaper and
CloseAll do at the end of a process is in `ConnManager` (its stoppers).

### ConnManager

One action per critical section of `m.mu` or per step between two blocking
operations. Connection ids are the values of `m.nextID`.

| code | actions |
|---|---|
| OpenConn (65-96), dial (98-158) | `Connect`, `TakeSlot`, `NoSlot`, `LookHit`, `LookMiss`, `GiveUp`, `DialFail`, `DialLost`, `DropDuplicate`, `Register` |
| consumeQueries (160-175), executeOne | `WorkerExit`, `WorkerTake`, `AcquireQuerySem`, `ExecStart`, `ExecEnd` |
| SubmitQuery (177-206), handleQuery | `Submit`, `Enqueue`, `TakeResult`, `SeeDone` |
| closeLocked (208-218) | `CloseLocked`, used by `CloseConn`, `CloseAll`, `ReapScan`, `RetireDead` |
| Ping (239-247) | `Ping`, `PingEnd` |
| reaper (249-332) | `Tick`, `ReapScan`, `ProbeOk`, `ProbeFail`, `RetireDead`, `ReaperExit` |
| StopReaper, CloseAll (220-237, 280-289) | `StopReaper`, `JoinReaper`, `CloseAll` |
| writeJSON (server.go 180-184) | `WriteReply` |

Abstractions, each of which a reader should agree with:

* A task is named by the handler that submitted it. A handler that gave up on a
  closed pool may leave its task in the dead queue and go on; it never queues on
  that pool again, because a closed id is never looked up successfully.
* closeLocked deletes, cancels, closes `done`, closes the DB and frees the slot
  under `m.mu`: one step. `db.Close` does not disturb a query in flight; a query
  that starts on a closed DB ends in `db_error`.
* `Deliver` merges `<-m.querySem` (deferred) with the send to the one-place
  result channel, which never blocks.
* `LastActive` is only compared with half and all of the idle timeout, so time
  is `age`, in halves. It is read and written under `m.mu`.
* The two seconds of OpenConn may be over at any moment an opener polls.
* A dial or ping may take for ever: `db.Ping` has no timeout.
* A ping in flight while its pool is closed may still succeed.

### QueryExec

A row is its number, so `rows` is a count. `Expire` (the deadline) and
`CloseRows` (`database/sql` noticing it) are steps of their own and come between
any two statements of the loop. `NextClosed` and `NextBroken` are the two ways
`rows.Next()` returns false early; executeOne never calls `rows.Err()`. SQL
rewriting before the query and the HTTP page arguments are not part of it.

### CliRun

The main thread (`connect`, `collect`, `join`, `close`, `exited`), a thread pool
of `min(groups, 10)` workers that take views, and `_ConnHandle` with its lock.
Requests are sent in one step and answered in another. A `/connect` that times
out at the client may still be served (`ConnectUnanswered`). In attached mode
the gateway has other clients and a reaper (`Others`), any of which may close
any pool; a gateway spawned for the run (`owned`, chosen at the start) closes
pools only when Ctrl+C reached it as well. The thread of a view in `Prompting` sits in
`input()` until the user answers (`Input`), with a worker of the pool to itself. The project requires Python 3.11, where the TimeoutError of
`as_completed` is the builtin one that cmd_run catches.

### TuiApp

The event loop runs one handler after the other, so `Mount`, `Submit`, `Deliver`
(`_update_pane`), `NextPage` and `PrevPage` are single steps. A view whose
parameters are all known belongs to the worker of the batch "ready"; one that
needs input gets a dialog and then a worker to itself ("dialog"). Two dialogs
would bear the same widget id, which Textual refuses (`Mount`). A thread of a
worker tests the dictionary (`Lookup`), asks the gateway (`Connect`), writes
(`Store`) and reads (`Use`) it in separate steps, because nothing locks it, and
then queries. Once its threads are done the worker closes what the dictionary
names if `is_owned()` (`MayClose`, `CloseOne`). The app may quit, or crash on
`n` before there is a table, at any moment; `app.run()` returns while workers
are still at it, and `gw.stop()` follows (`Stop`). That is wider than the code:
asyncio.run joins the threads of its executor first, as far as they end.

Some results cannot be shown (`Unshowable`): two columns of one name are one key
twice for `add_column` (app.py:119), and rows in pages of zero are divided by zero
(app.py:139; parser.py:127 takes any `page_size`). `_build_table` then raises in the
event loop, `call_from_thread` raises again in the worker, outside its try statement
(app.py:265), and the results still to come are not delivered (`DeliverFails`). The
with block waits for the other threads, and the failed worker ends the app
(`WorkerFailed`), which is what Textual does with every failed worker unless it is
told otherwise; Textual is external. A `page_size` that is no number fails in the
same way as two columns of one name.

Page and table: `page` survives, `total_pages` is what `_build_table` last set,
and the rows shown are computed from both (`PageRows`). `page_size` is any integer;
below zero Python's slices and its rounded division give pages nobody would expect,
which `Bound` and `TotalPages` describe and no property speaks of.

### ViewRun, SqlText and Cells

An input is one way to call the program and the answer the database will give.
load_views is a state machine over files and entries, because the order matters:
`LoadEntry` removes the view a duplicate key overrides and appends the new one,
and `BadEntry` ends the run wherever it strikes. `Select` is the choice by
`--views` and `enable`. `Prepare` computes the text and the values of each query,
`Execute` what the driver is given, `Show` the cells.

A text is a sequence of quotes, question marks, placeholders and other
characters. `Scan` is the loop both rewriters share, character by character,
with its one-character lookahead for escaped quotes. The reference definitions
(`InLiteral`, `Numbered`) say where a literal is by counting the quotes before,
and what number a bind must have by counting the placeholders before.

The list comprehensions of the code (`LoadEntry`, `Select`, the columns with a
field, the names of the placeholders) are `Kept` of `Positions`. It says what
SelectSeq says, but by a set of positions and their ranks instead of a recursion,
so that theorems can speak of it.

A value of a parameter is known by its source (`override`, `default`, `typed`,
`blank`). A value of a cell has a type and a text; texts are literals by kind and
number, so that 1, 1.0, true, "1" and "1.0" are as equal and as different as
they are in Python.

### GatewayLife

A gateway spawned by a client bears the client's name; `Resident` ones were
started with `yamlq serve`; clients in `Daemon` spawn theirs with
YAMLQ_GATEWAY_DAEMON=1 and leave it behind. `os.WriteFile` is two steps
(truncate, write); a file removed between them stays gone. Discovery is
`exists`, then `read_text`, then the token check, then the ping, with other
processes running in between. The goroutine of main and the one /shutdown
starts (`main` and those of `Hook`) run the shutdown sequence independently; the first
to finish ends the process with the others in the middle. Each POST /shutdown starts
one goroutine more (server.go:155-157). `os.Remove` may fail, and nobody looks
(main.go:154): `kept` are the files that stay. `Interrupted` says what a
signal does at each point of `run`: before `signal.Notify` it kills. Ctrl+C
reaches the client and the gateway it spawned, which share a process group;
clients are killed without their atexit functions in `CrashClient`.

`target` is `_base_url`. `start` sets it to the gateway found (gateway.py:82), and
`_spawn_gateway` to the one spawned only after its port has been read
(gateway.py:118-124). A client whose start is cut short before that, by Ctrl+C or
because the gateway failed, still runs `stop` at its exit: place `abort`. Its
/shutdown goes to the gateway found, if there was one, and its own is waited for
and killed. A KeyboardInterrupt in `stop` itself passes both except clauses, and
nothing is killed (`CtrlC` to `crashed`).

## 3. The runs

All passing runs check the whole state space of the instance, with deadlock
checking on. Times are for two cores. `conn_serve`, `cli_run`, `tui_fetch` and
`life_clients` also check `IInv`, the inductive invariant the proofs of their
modules use (section 4); the type invariant is one of its parts. `ViewRun` has an
`IInv` too, of which `views` checks the part a user would see.

| run | instance | states | shows |
|---|---|---|---|
| `conn_open` | 2 databases, 2 slots, 2 clients, 1 query slot, queue of 1, at most 3 pools opened | 1.25 M with symmetry, 1-2 min | the safety of the manager under racing opens, closes, queries and pings, and that it implements `PoolRegistry` |
| `conn_answers` | 1 database, 2 clients, 2 pools | 25 k, 40 s | liveness of requests, workers and openers |
| `conn_serve` | 1 database, 1 client, reaper, 2 shutdowns at once | 116 k, 75 s | the inductive invariant; the reaper closes what is idle and nothing else; shutdown ends |
| `conn_dead_pool` | 1 pool, reaper | violation | a dead pool stays |
| `query_rows` | 0 to 5 rows, limit 3 | 356 | what a result says of itself is true; queries return |
| `query_cut_short` | the same | violation | an answer cut short looks whole |
| `cli_run` | 3 views, 2 databases, 2 views ask for a parameter; own gateway with 1 Ctrl+C, or attached | 336 k, 90 s | own pools closed after the last thread, shared ones never, a row for every view, the run ends if the user answers |
| `cli_independent` | own gateway | violation | one view's failed connect hides the others |
| `tui_fetch` | 2 views on 1 or 2 databases, with and without dialogs, own gateway or attached, page_size 2 and 0 | 681 k, 2 min | no worker disturbs its own threads, shared pools stay, no pane is left loading, paging shows every row |
| `views` | 4 families of inputs, see the bounds | 92 k, 75 s | the last definition wins, every bind gets its value, cells show what is configured |
| `life_clients` | 2 clients (one spawns a resident gateway with a token), 2 files, one goroutine for /shutdown per process | 308 k, 2 min | gateways end with their owners, resident ones stay, files go with gateways, clients hold the right token |
| `life_foreign` | 2 resident gateways | violation | a gateway removes the file of another |

### Properties, by the hazard they are for

*Manager, safety.* `SlotAccounting`: tokens in `globalSem` are the registered
pools plus the openers that dial, so closeLocked never blocks with the lock held.
`RegistryConsistent`: the two maps agree, one pool per key, although two openers
may both have dialed. `LiveOrClosed`: every pool ever registered is in the map
or torn down, exactly one of the two (a second `close(done)` would panic).
`QuerySlotAccounting`, `WorkerPerPool`: no query slot wears off, an open pool has
its worker. `TaskInOnePlace`: a waiting request has its task in the queue, in
the worker's hands or in its result channel, once. `RepliesTrue`: "not found" is
said only of closed pools, and the loser of the race gets the winner's id.
`OnlyStaleReaped`: what is idle for half the timeout is probed, not closed.

*Manager, liveness.* `QueryAnswered` under pool closing, `WorkerEnds`,
`OpenerLeavesLoop`, `IdlePoolReaped` (the reaper's own pings must not count as
activity), `StopEnds` with two stoppers and a reaper anywhere in its pass.

*Queries.* `TruncatedHonest` at the limit (exactly the limit is whole, one more
is truncated), `WholeWhenUndisturbed`, `TimeoutIffLate` (what decides whether
the client repeats a query), `QueryReturns` with a silent database.

*Runs.* `OwnedRunCleansUp`: views that lost a connection open new pools from
their threads; closing comes after all of them. `EveryViewHasItsRow`,
`AttachedKeepsPools`. `RunEnds`: no thread waits for a lock nobody releases, also
when a reconnect fails with the lock held or Ctrl+C comes; if the user answers the
prompts, for `input()` has no timeout, and the with block waits for it also after the
session timeout.

*User interface.* `SoleWorkerKeepsPool`: the threads of a worker race for the
dictionary, and still none of them is told that its pool does not exist, unless
another worker closed it; `PoolOfSoleWorkerClosed`: and although they overwrite
each other's entries, nothing is left open. Both rest on /connect being
idempotent. Both exempt databases that two workers use, where the code gives no
such guarantee (section 5). `AttachedTuiKeepsPools`.
`EveryPaneFilled`: whatever fails in fetching a view, its pane gets an error and the
others get theirs; a result that cannot be shown ends the app, but leaves no pane of
a running one loading for ever. `PagesCoverRows`: no row is out of reach and no page
empty, with page_size above zero or without paging.

*Files, texts and cells.* `LastDefinitionWins`: what a run executes is what the
last definitions say, in their order. `BindsAsSaid`: for a text that keeps the
README's rule (no placeholder in a literal), whichever way the driver counts,
the i-th bind is the i-th placeholder, literals with question marks and escaped
quotes are left alone, and the value at that place is what the user said of the
parameter of that name. `CellsAsConfigured`: equal numbers look alike under an
enum_map however the file or the database wrote them, a value the map does not
name is shown as it is, and a column name in the wrong case finds its own column
and no other.

*Processes.* `OwnedGatewayGone`: a client that ends by itself or by Ctrl+C at
any point leaves no gateway of its own, also when /shutdown came before
SetShutdownFunc or a request keeps the gateway from draining. `NoStaleFile`: no
discovery file names a gateway that shut down in order, with both sequences
racing. `FilesGoFirst`: the files go although draining may never end.
`ClientAuthorised`: a token picked up from a stale file is given to the gateway
spawned next. `DaemonOutlivesClients`: no client's `stop` shuts a resident
gateway down, except that of a client that found it, had no answer to its ping, and
was cut short before it had read the port of the gateway it spawned instead: there
the code does shut it down (section 5). (Ctrl+C in the terminal that spawned a
resident gateway reaches it, too; so does a signal or /shutdown sent to it on purpose.
The property is about what clients do by ending.)

### Bounds, and why they are enough

* `MaxConnID` bounds the pools opened in a behaviour; its only guard is in
  `Register`. Three allow a pool, its closing, its successor under the same key,
  and a pool of the other key; what the reaper or a worker holds of an old pool
  can meet the new one. The theorems hold for every `MaxConnID`.
* Two handlers are two racing openers, or an opener and a closer, or two
  queriers of a one-place queue. Every conflict in the manager is between two
  goroutines; further ones wait.
* `GlobalMaxOpen` is as large as the databases in `conn_open`, and smaller than
  the pools wanted during a race (both openers hold a slot while one pool
  results), so `limit_reached` happens. It is 1 in the other runs.
* `MaxRowsPerQuery` 3 with up to 5 rows has answers shorter, exactly at, and
  longer than the limit.
* Two views of one database share a handle, its lock and its queue; the third
  has another worker. `MaxInterrupts` is 1 for a run with its own gateway, where
  Ctrl+C matters to the pools, and 0 for an attached one; a second Ctrl+C ends the
  interpreter.
* `tui_fetch` has two views on one database (one worker with two threads, or two
  workers that share a database) and on two (`GroupMaps`). Three rows in pages of
  two have a last page that is not full and no row is the empty table; the other view
  has a page_size of zero, with no row and with one (`RowCounts`). Unpaged views and
  the other sizes are left to the theorem.
* `views` varies one thing at a time: (1) two files of up to two of two keys, each
  sound, disabled, or faulty in one of three ways, for all commands and selections;
  (2) texts of up to four pieces of five kinds (five of four kinds) for the three
  styles of driver: the shortest with an escaped quote and a placeholder on either
  side of a literal; (3) two declared parameters and one undeclared, one placed
  twice, with every default and up to two `--param`; (4) all kinds of values under
  every converter and five enum maps, and up to three columns whose names fold
  together. What one family varies does not enter the definitions another is
  about: files know nothing of texts, texts nothing of values, cells neither.
* One client with its own gateway and one leaving a resident gateway give the
  first a gateway to find in either file, in the environment, dead or alive.
  Both work in the same directory, which is the case with conflicts.
* `Hook` bounds the goroutines /shutdown starts in one process: one in
  `life_clients`, beside the one of main, and two in `life_foreign`. The theorems hold
  for any number.
* `Prompting` has a view of each database, so that both workers of the pool may sit in
  `input()` while a view of the first database is queued.

### Fairness, and why the code justifies it

*ConnManager.* Weak fairness for the steps of each goroutine. Strong fairness
for `AcquireQuerySem` (blocked senders of a Go channel are served in order),
`GiveUp` (the two seconds run out whatever the semaphore looks like meanwhile)
and `ReaperExit` (a select with several ready cases picks at random). None for
the end of a dial or ping (no timeout), none for new requests or for a
shutdown, which only goes on once it has begun.
*QueryExec.* The deadline passes and `database/sql` notices; `QueryContext`
returns once its context has expired. The database owes nothing before that.
*CliRun.* Every request has a client-side timeout, so threads move on by themselves
(`OwnStep`). Taking the lock is strongly fair. Neither the session timeout nor Ctrl+C is
owed, nor an answer to a prompt: `Input` has no fairness, and `RunEnds` has the answers
as its premise.
*TuiApp.* Threads and `call_from_thread` go on, for the same reason, and a failed
worker ends the app. Nothing is owed by the user: no key, no answer to a dialog.
*GatewayLife.* Goroutines and clients go on. Not owed: the end of a run,
`Drained` (`httpServer.Shutdown(context.Background())` waits for ever for a
request that does not end), signals, crashes.

## 4. The proofs

`tlapm` checks all of them with no assumption but the named ASSUMEs of the
modules, which TLC evaluates in the runs:

* ConnManager: the capacities are positive, ids are not keys, `None` is neither
  of them nor a handler nor the outcome of a query, the set of handlers is finite;
* QueryExec: the two bounds are naturals;
* CliRun: finitely many views, at least one, each with a database; `None` is none
  of them;
* TuiApp: the same, a page_size is an integer, row counts are naturals, `None` is
  no connection id;
* ViewRun: an input is well formed: files, columns, parameters and texts are
  sequences (of any length), a style is one of the three, a default is set, false or
  missing, a cell is of one of JSON's types, and a whole number prints as one;
* GatewayLife: resident gateways are not clients, main is no goroutine of /shutdown,
  every process has a directory,
  and `None` and the contents of an empty file are not processes.

PoolRegistry assumes nothing; its theorems say of their constants that the
capacity is a natural and `None` is not an id.

| theorem | says |
|---|---|
| `PoolRegistryProofs`: `PoolsDistinct`, `CapacityKept`, `IdsNeverReused` | what the registry promises: one pool per database and none that was closed, the capacity, ids used once |
| `ConnManagerProofs`: `Invariance`, `TypeCorrect` | `Spec => []IInv`, and the types |
| `SlotsAccounted`, `OnePoolPerKey`, `NoPoolForgotten`, `QuerySlotsAccounted`, `PoolsServed`, `RepliesAreTrue`, `TasksNeverLost` | the seven invariants of `conn_open`, for any number of databases, clients, pools, slots and places |
| `ReaperSparesTheBusy` | `OnlyStaleReaped` of `conn_serve` |
| `ProbeClosesNothing` | a failed probe closes no pool (section 5), in any configuration |
| `ImplementsRegistry` | `Spec => RegistrySpec`: the manager implements `PoolRegistry` |
| `QueryExecProofs`: `Invariance`, `TruncationIsHonest`, `UndisturbedIsWhole`, `TimeoutsAreTimeouts` | the invariants of `query_rows`, for answers of any length and any limit |
| `CliRunProofs`: `Invariance`, `TypeCorrect`, `OwnedPoolsClosed`, `RowsComplete` | the invariants of `cli_run`, for any views, databases and number of interrupts |
| `RefreshesExclude` | one thread of a database reconnects at a time |
| `AttachedClosesNothing` | `AttachedKeepsPools` |
| `UsesRegistry` | what the run, and whoever shares its gateway, does to the pools is a behaviour of `PoolRegistry` |
| `TuiAppProofs`: `Invariance`, `TypeCorrect`, `PoolsOutliveThreads`, `WorkersCleanUp`, `PagesComplete` | the invariants of `tui_fetch`, for any views, databases, rows and page_size; `PagesComplete` says that paging is complete for a page_size above zero, and that a result with rows gets no table for zero |
| `AttachedClosesNothing`, `UsesRegistry` | the same two as for CliRun |
| `SqlTextProofs`: `RewritersCount` | what a driver of any style is given for a regular text of any length is the text with its placeholders numbered |
| `ViewRunProofs`: `Invariance`, `OverridesWin`, `BindsFollowPlaceholders`, `CellsShowConfiguration` | the invariants of `views`, for any files, definitions, texts, parameters, columns and values |
| `GatewayLifeProofs`: `Invariance`, `TypeCorrect`, `OwnersCleanUp`, `FilesGoWithGateways`, `ClientsAuthorised` | the invariants of `life_clients`, for any number of gateways, clients and files |
| `ResidentsStay` | `DaemonOutlivesClients`, with its exception |

None of the invariants is inductive alone. In each module `IInv` is the
conjunction that is, in named parts; TLC checks it, and each proof has one lemma
for the initial state, one for each group of actions, and one per property.

*ConnManager.* The slot count needs the maps to agree (closing must remove as many
pools as it frees slots) and the exact set of dialing handlers; `RepliesTrue`
needs to know what an opener that lost the race carries between `DialLost` and
its answer (`RequestConsistent`); both need that pools once registered are
`1..nextID` (`LiveOrClosed`). The proof first says what any step can do to the
registry (`RegistrySteps`) and to the query state (`QuerySteps`), so that each
conjunct is proved over a handful of cases instead of thirty actions;
`RequestStep` argues about one handler at a time. Cardinalities go through
`FiniteSetTheorems`.

That a task is in one place needs `TasksConsistent`: if a pool holds a task of a
handler, in its queue or in its worker's hands, the handler awaits it there or the
pool is closed. A handler that saw its pool closed may leave its task behind, and
this is why its next task never meets the old one: the lookup of a closed id fails,
so the next pool is another. `OnePlace` turns the count of places in
`TaskInOnePlace` into three statements that exclude each other, which `PlacedStep`
carries through the steps; `AppendQueues` and `TailQueues` say what a send and a
receive do to the positions in a queue.

For the refinement, every step of the manager is mapped to an Open, a Close of some
pools, or a stutter, using the invariant for the capacity (`SlotAccounting`) and
for fresh ids (`LiveOrClosed`).

*QueryExec.* `InvWhileReading` adds what the loop keeps true between statements:
the limit is not passed and a row in hand is one the database has.

*CliRun.* That own pools are closed at the end rests on two facts of different
times: a thread exists only when its handle is in the list that the finally block
goes through (`HandlesKnowPools`, first part), and as long as nothing went wrong
every pool of the gateway is the one its handle names (second part), also when a
thread reconnects while the main thread waits. That needs the lock: a reconnecting
thread alone writes `conn_id` (`LockConsistent`). `Undisturbed` lists what the
property exempts. For the rows, `RowsConsistent` says which views have a thread and
`MainConsistent` how far the main thread is.

*TuiApp.* Threads overwrite each other's entries, so the proof says what every id
anywhere can be: the pool of its database or one that is closed (`ConnsNamed`).
Together with `IdsUnique` of PoolRegistry, a close with an entry of one database
cannot hit the pool of another. While threads of a database's only worker run,
what they hold is its pool (`SoleThreadsConnected`), since only the worker itself
closes and it waits for them; and a pool it has to close is in the dictionary or
about to be stored there (`SolePoolsKept`). `PanesConsistent` ties `total_pages` to
the rows shown; the lemmas `PageCount` and `PagesCover` are the arithmetic of
the rounded division for a page_size above zero, including the empty result and the
last, shorter page; `PageNumber` says where there is a number of pages at all.

*GatewayLife.* `FilesAccounted` is the heart: a file that names a running gateway is
in its list, and in what each of its two cleanups still has to remove. It holds
because the list is complete before anything can start a cleanup
(`WritesComeFirst`), so neither sequence can miss a file the other does not have.
`OwnersStop` says that only a client that owns a gateway goes to stop one, and
`StartedOnce` whom it talks to: the gateway it found, which was started, until it has
read the port of its own, and its own from then on. `TokensSent` says that the token it
read is the one its session sends.

*UsesRegistry.* Both clients change the pools of the gateway only as PoolRegistry
allows, so what is proved of them with PoolRegistry holds with any implementation
of it, and `ImplementsRegistry` says that the manager is one.

*SqlText.* That the scan is right for texts of every length is an induction over
the text. The induction theorems of the library take an operator and are out of
reach, but `FiniteSetTheorems` says that strict inclusion of finite sets is well
founded; from this comes `LeastElement` (a set of naturals has a least element),
from that `SetInduction`. Recursive functions are met the same way: `ScannedStates`
shows by induction that a function with the equations of `Scan` exists for every
length, so the one `Scan` chooses has them. `ScanCorrect` is the invariant of the
loop: what is written is the numbered text so far, `n` is the placeholders met,
`inStr` the parity of the quotes met, except between the two quotes of an escaped
pair, where `skip` says which of them has been written. `ScanStepCorrect` keeps it for
each kind of character; the limit of RewritePositional never bites, because it is the
number of placeholders (`NamesInOrder`). `Rank` and `Nth`, the numbering of a set of
positions, are inverse and grow (`PositionRanked`, `NthGrows`), which is all the proofs
need of filtered lists (`KeptElements`).

*ViewRun.* `LastDefinitionWins` speaks of a run that is about to start; what holds
while files are read is `LatestLoaded`: the views are those definitions read so far
that none read later overrides, in the order of their places. An entry becomes the
latest of its key and changes nothing for the other keys (`LatestNext`), which fits
removing the view it overrides and appending at the end. `ReadSound` says where
load_views is, and that nothing it has passed was faulty; when all is read, the
latest definitions are the last ones (`AllRead`). `Computed` says that texts, values and
cells are computed from the views, so that the other two properties are facts about
the operators. For binds: `QuerySent` (positions of values, sources of values) and
`RewritersCount`. For cells: `ExactRuleFound` and `FoldedRuleFound` say which column a
name finds (the first of its spelling is among those that fold alike, so a folded
search never ends with another name's column), and `KeyNames` that the key a value is
looked up by is the only one that names it, and is unique.

*Only model-checked.* Liveness is beyond the prover: `QueryAnswered`, `WorkerEnds`,
`OpenerLeavesLoop`, `IdlePoolReaped`, `StopEnds`, `QueryReturns`, `RunEnds`,
`EveryPaneFilled` and `FilesGoFirst`. Every other property of a passing run is a
theorem.

## 5. Where code and documents disagree

With a run that shows it:

* **A dead pool is not retired** (`conn_dead_pool`). After a failed probe
  reapOnce looks up `m.conns[mc.key]` (manager.go:318), but `conns` is indexed by
  connection id. The comment at 250-252 promises the pool is retired. It is so in
  every configuration (`ProbeClosesNothing`): no failed probe ever closes a pool.
* **An answer cut short looks whole** (`query_cut_short`). If the deadline
  passes inside `rows.Next()` the loop ends without error and without
  `truncated`; ADR-003 line 35 promises the rows so far *and* QUERY_TIMEOUT.
* **Views are not independent** (`cli_independent`). An exception of
  `handle.get()` that is not GatewayError (a requests timeout) leaves cmd_run
  with the other views' rows unrendered; ADR-003 line 49.
* **A gateway removes another's discovery file** (`life_foreign`). The list
  `envFilesWritten` has paths, and cleanupEnvFile does not look at their
  contents; main.go:106-108 and main_test.go:145 promise otherwise.

Met while modelling, without a run of their own:

* LastActive is set when a query starts (query.go:29-31), so the reaper closes a
  pool whose one query runs longer than the idle timeout, though the comment at
  manager.go:252 speaks of idle pools.
* After CONNECTION_LOST the refresh calls /connect, which is idempotent and
  returns the same pool, since nobody closed it: the "dead pool is transparently
  rebuilt" of cli.py:94-97 happens only for CONNECTION_NOT_FOUND.
* After the session timeout unfinished views have no row at all (cli.py:190);
  ADR-003 line 36 says they are marked failed.
* Each fetch worker of the user interface closes, with an owned gateway, the pools
  in its own dictionary (app.py:269-274). If a view with a dialog uses the same
  database as another view, the worker that is done first closes the pool under
  the other, whose view shows CONNECTION_NOT_FOUND and is not tried again, or
  leaves open the pool the other opened anew. That is why `SoleWorkerKeepsPool`
  and `PoolOfSoleWorkerClosed` speak of databases of one worker only.
* `n` on a pane that is loading or shows an error reads `total_pages`, which only
  `_build_table` sets (app.py:165-167), and ends the whole app with an
  AttributeError. E2E_TEST_PLAN.md:541-542 says that such a pane shows it is loading
  until its table comes, and :557 that an error leaves the other tabs alone.
* A resident gateway can be shut down by a client that does not own it. If it is too
  busy to answer the ping in two seconds, the client spawns a gateway of its own and
  sets `_owned`; if it is cut short before it has read the port, its `stop` posts to
  the resident gateway, whose address and token it still has (gateway.py:82-87, 95,
  118-124, 168). The docstring of is_owned says that such clients must not
  (gateway.py:129-133). `DaemonOutlivesClients` exempts this case and no other.
* In the user interface one view's result can keep the others' from their panes
  (`Unshowable`, section 2), although ADR-003:49-54 says that views are independent,
  and it ends the app.
* Two views that need input get two dialogs with one widget id (app.py:246), which
  Textual refuses: the app ends at its start (E2E_TEST_PLAN.md:663-671 tries one).
* A dialog hides what the user has already said: it shows every parameter of its
  view, not only the missing ones, starts from the default instead of `--param`,
  from nothing if the default is false (such as 0), and what it shows overrides
  `--param` (app.py:55, 282). README.md:68 says of `--param` that it overrides
  defaults. `Hidden` in `ViewRun` names these cases.
* `--param` for a name that the view does not declare is ignored, and a placeholder
  that is not declared is bound to the empty string without a warning
  (parser.py:177). Of a parameter declared twice the last declaration counts, which
  `BindsAsSaid` says; the user interface cannot show a dialog for such a view,
  because two inputs would bear one widget id (app.py:53-57).
* The user interface does not fold the case of column names (app.py:117), though
  the comment at renderer.py:87-89 says that matching must.
* enum_map keys that YAML reads as booleans or as 1.0 become "True" and "1.0",
  which `_enum_key` never produces for a number (parser.py:76, converters.py:91).
* `yamlq` without arguments ends with an AttributeError: the namespace has no
  `config_opt` (cli.py:46, 278), though the user interface has a text for this
  case (app.py:214).
* A faulty definition stops the run also when a later file overrides it, because
  definitions are parsed before they are replaced (parser.py:166).
* `yamlq serve --conn-idle-timeout 0` means "disabled", but gateway.py:147 then
  omits the flag and the gateway uses 600 seconds.
* The 30 minute reclaim of ADR-002:37 and ADR-003:19 does not exist: only `serve`
  starts a reaper (serve.go:38-40), and nothing ends an orphaned gateway.

## 6. What is not modelled

* The daemon script is planned (section 7).
* `WrapPagination` and the page arguments of /query: every call in this repository
  sends page 0, for which the text is returned as it is.
* Comments and quoted identifiers in SQL: the rewriters know only single quotes,
  and a text with an apostrophe in either is outside what `Regular` describes.
* In YAML files: the same key twice within one file (the parser keeps the last),
  a `view:` section that is no mapping or an `sql` that is no string (both raise
  AttributeError).
* In the user interface: labels, tabs, status line and style; a dialog submitted
  twice before it is removed. Textual itself is external.
* Table layout, themes, DSN labels, number and date formatting beyond "converted".
* Driver registry and DSN rewriting: constant tables and wording.
* HTTP parsing, authentication apart from the token comparison, static pages.
* Port reuse: a discovery file of a dead gateway may lead to another program on
  the same port; in the model the ping to a dead gateway fails.
* Deadlines of HTTP clients as such: no handler looks at `r.Context()`, so the
  manager never learns that a client has gone. Its handlers go on as the model's
  do, and to the client it is one of the exceptions of CliRun and TuiApp.
* KeyboardInterrupt in the few instructions between Popen and atexit.register.
* What several threads in `input()` do to each other's text on the terminal.
* `database/sql` and the drivers are external: modelled by the outcomes the code
  distinguishes.

## 7. Plan

Done: all the modules of section 2, and proofs of every safety property the runs
check. Next:

1. The daemon script as further actions of GatewayLife: a PID file beside the
   discovery file, and a `stop` that removes both whoever wrote them.
2. Action properties of ViewRun, CliRun and GatewayLife that the invariants do not
   say, such as that a definition once overridden never comes back.
3. A refinement between ViewRun and the clients: the views a run starts with are
   those CliRun and TuiApp are given.
