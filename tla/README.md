# Liquid Stool AP: specifications

Liquid Stool AP puts an HTTP server (Free Pascal) in front of the embedded
database Stoolap, and ships a command line client, a Python SDK and a Node-RED
node for it. This directory holds TLA+ models of its core, the TLC
configurations that check them on small instances, and TLAPS proofs about them
for every value of the constants. Paths below are relative to the repository.

    tlc -config HandlePool.cfg MCHandlePool.tla           one run
    tlapm HandlePool_proofs.tla                           one proof module

`PROJECT.json` lists, in machine-readable form, the components, the runs with
their properties, a mutation of the code for each property, the source lines of
each definition, the hazards and the theorems.

## 1. The system

### Components, their state and their operations

| Component | Where | State | Operations |
|---|---|---|---|
| Handle pool | `lsstoolapadapter.pas` (`Open`, `AcquireDb`, `ReleaseDb`, `Close`, `StartupCheck`, `ExecuteJson`) | `FDb`, `FPoolSize`, `FPool`, `FPoolBusy`, locks `FOpenLock`, `FPoolLock` | open on first use or at start, take a handle within a deadline, give it back, close |
| HTTP server | `lshttpserver.pas` | `FReady`, `FShutdownRequested`, `FActiveRequests` (under `FRequestLock`), `FAuth` (calls under `FAuthLock`), `FAdapter` | admit or refuse a request, route it, answer, begin to shut down, be destroyed |
| Serve | `liquidstoolap_server.lpr`, procedure `Serve` | the signal flag, the server thread | start, wait for a signal, drain, free, exit code |
| Authentication | `lsauth.pas` | issued tokens with expiry and serial, static tokens, password entries | issue, validate, prune, evict |
| SQL execution, errors | `lsstoolapadapter.pas`, `lserrors.pas`, `WriteSql` | none of its own | validate a body, compute deadlines, run a query or a command, map errors to answers |
| Validation, scanning | `lsrequestvalidation.pas`, `BuildPositionalCommandParams` | none | find a second statement, bound JSON depth, rewrite parameters |
| Configuration | `lsconfig.pas` | the configuration | load and check one file |
| C API binding | `lsstoolapffi.pas` | library handle and entry points | load |
| Clients | CLI in `liquidstoolap_server.lpr`, `sdk/python`, `packages/node-red` | a cached token each | log in, execute, retry |
| Storage patch | `patches/stoolap-0.4.0-liquidstoolap.patch` | manifests, volumes, WAL of the engine | checkpoint, compact, drop, truncate, recover |
| Benchmarks, scripts, packaging | `benchmarks`, `scripts`, ... | none | load generation, build |

### How they interact

- A connection thread of the HTTP library calls `HandleRequest`: it enters
  (`TryEnterRequest`), routes, and in its `finally` part stops the listener if
  a shutdown was requested and leaves. `/sql` calls the token store, then the
  adapter; `/auth/token` calls the token store only.
- The main thread constructs the server object, which may open the pool
  (`startup_check`), starts the server thread that accepts connections, polls
  a flag set by the signal handler, calls `RequestShutdown`, wakes the listener
  with a request of its own, waits for the active count and for the server
  thread, and frees the object, which closes the pool.
- The clients talk to the server by HTTP only. Tokens live in the memory of the
  server; a client keeps a copy that can go stale by expiry, by eviction and by
  a restart.
- The adapter calls Stoolap through C entry points; one handle must not be used
  by two threads at once.

### What is hard, and what makes each part correct

* **Pool.** Openers race for the first request; slots become visible one by one
  without the lock of the scanners; any step may fail; waiting is polling with a
  deadline; `Close` waits without a bound. Correct: a handle is used by one
  request at a time, returns on every path, is never closed in use; requests and
  `Close` do not wait for ever; the database is opened once.
* **Server and Serve.** Four kinds of threads share flags without locks. The
  order "flag, then count, then wait, then free" must hold against requests at
  every stage. Correct: the active count is exact; nothing runs in an object
  being freed; a shutdown always ends, with the documented exit code.
* **Tokens.** The wall clock is read several times per operation and may go
  back; a full store evicts. Correct: the store is bounded, a token leaves it
  for a documented reason only, and neither an expired nor a once-refused token
  is accepted.
* **SQL execution.** The time a request may take is divided between opening,
  waiting and executing, is measured with a clock that can be set, and only some
  calls carry it. Correct: no call gets the value 0 that means "no timeout"; no
  call gets more than the request may take; the status says what happened to the
  statement; `read_only` lets nothing be written.
* **Scanning.** Quotes, escapes and comments. Correct: equal to a definition that
  does not scan, on all short inputs.
* **Clients.** A cached token, an `await` between test and assignment, a retry.
  Correct: no statement that is given to a client once is executed twice; the
  shell is refused only for reasons its refresh cannot cover; concurrent calls do
  not log in without bound; what a call of the SDK ends with tells what happened
  to the statement; the rows are those of the database.
* **Storage patch.** A crash between any two file operations, in recovery too.
  Correct: the database opens with exactly the committed rows, and refuses to open
  only when the medium was damaged; compaction gets through every backlog.

## 2. The modules

| Module | What it is |
|---|---|
| `ExclusiveHandles` | abstract specification: what the adapter promises about handles |
| `HandlePool` | the pool of `TStoolapAdapter`, threads and locks |
| `HandlePool_proofs` | theorems about `HandlePool` |
| `MCHandlePool` | model values for the runs of `HandlePool` |
| `ServerLifecycle` | `EXTENDS HandlePool`: HTTP server and `Serve` around the pool |
| `ServerLifecycle_proofs` | `EXTENDS HandlePool_proofs`: theorems about `ServerLifecycle` |
| `MCServerLifecycle` | model values for its runs |
| `TokenStore` | the issued tokens of `TAuthService` |
| `TokenStore_proofs` | theorems about `TokenStore` |
| `MCTokenStore` | model values for its run |
| `SqlRequest` | one `/sql` request: `WriteSql`, `ExecuteJson`, deadlines and status codes |
| `SqlRequest_proofs` | theorems about `SqlRequest` |
| `MCSqlRequest` | model values for its runs |
| `TokenClients` | `EXTENDS TokenStore`: `connect`, the Python client and the Node-RED node, with the store behind them |
| `TokenClients_proofs` | theorems about `TokenClients` |
| `MCTokenClients` | model values for its run |
| `StatementCalls` | abstract specification: what a program may conclude from the end of a call |
| `ResultSets` | the way of a result from `RowsToJson` to the methods of `SqlResultSet` (operators only) |
| `PythonClient` | `EXTENDS ResultSets`: one client object of the Python SDK and the calls on it |
| `PythonClient_proofs` | theorems about `PythonClient`, and lemmas about `ResultSets` |
| `MCPythonClient` | model values and the view for its run |
| `SqlScanner` | the three scans of a request, character by character |
| `SqlScanner_proofs` | theorems about `SqlScanner` |
| `MCSqlScanner` | the inputs for its run |
| `DurableTable` | abstract specification: what the storage of a table promises |
| `StorageRecovery` | a table on the disk of the patched engine |
| `StorageRecovery_proofs` | theorems about `StorageRecovery` |
| `MCStorageRecovery` | model values for its run |

### HandlePool

A thread is the main thread or the thread of a request; `pc` says where it is.
`FOpenLock` is the variable `openLock`, because it is held across many steps.
`FPoolLock` protects one scan (`TakeSlot`, `ScanMisses`) or one assignment
(`ReleaseDb`, one scan of `Close`), so each of those is one atomic action.
`OpenUnlocked` does *not* take `FPoolLock`; every assignment of it to a shared
field is an action: `OpenDatabase` (`FDb`), `SetPoolSize`, `AllocatePool`,
`AssignSlot` and `ClearBusy` for each slot. What a scanner can see between two
of them is therefore in the model: an empty array behind a non-zero
`FPoolSize` (`ScanFaults`), a half-filled pool, a slot that is visible before
its busy flag is written.

`BackendFails` lets every external call fail: loading the library and opening
the database (`OpenDatabaseFails`), cloning (`CloneFails`), the startup query
(`StartupQuery` leaves the server not ready). What `ExecuteJson` does with a
handle is `Refuse` (no time left, or not allowed when read-only; both raise
inside the `try`), or `Execute` and `ExecuteEnds`; all lead to `ReleaseDb`, the
`finally` part. `late` is the elapsed `timeout_ms`.

The server that calls the adapter is reduced to `phase`: `Begin` needs
`serving`, `BeginClose` needs `draining` and no request on its way to a slot.
That second demand is not free: `ServerLifecycle` has to show that `Serve`
meets it (`ImplementsPool`).

`ExclusiveHandles` knows only which handles exist and who uses each. `Abs` is
the refinement mapping: `live` is the set of assigned slots, `users[h]` the
requests whose `PoolIndex` is `h`. `StartupChecks` is the set of values that the setting
`startup_check` may have, so that a run can look at both ways to open the pool;
`EagerOpen` says that only the first is possible.

### ServerLifecycle

`phase` is now `FReady`, and the pool actions are reused: `SqlReady` conjoins
`Begin`, `SqlStep` conjoins `RequestStep`, `ConstructStep`, `ClearReady`,
`FreeAdapter` and `CloseStep` are the calls of the main thread. The new state is
the place of each connection's handler (`http`), `FActiveRequests` (`active`),
the local `RequestEntered` (`entered`), the two shutdown flags, the thread in
`Run` (`acceptor`), the place in `Serve` (`main`), whether `FAuth` was freed and
the exit code. `FreeAdapter` does not repeat the demand of `BeginClose`; if
`Serve` did not establish it, the step would not be a step of `HandlePool!Spec`
and `ImplementsPool` would fail.

`fphttpserver` is not in the repository. From how it is used: one thread per
connection calls `HandleRequest`; `Active := False` stops a server that is
listening and has no effect on one that is not listening yet; a connection that
is being accepted when the server stops is still handled; `Run` returns without
joining connection threads. The model checks the threaded mode
(`max_concurrent_requests > 1`); with 1 the library handles requests in the
accepting thread, which is not modelled. The response is written after
`LeaveRequest`, by the library, and touches no shared object.

### TokenStore

Every operation runs under `FAuthLock`, so it is one action; inside it the clock
is read again (`LaterReadings`), so the prune and the lookup can see different
times, and `Prunings` even lets every comparison of the prune have a reading of
its own. `SetClockBack` exists because the code uses `Now`, local time.
`EvictOldestIssuedToken` is called until fewer than `max_issued_tokens` are
left: `Evictions`. A token is its number, because 32 random bytes do not repeat;
password and token files and the comparison of secrets are left out. `ledger`,
`latest`, `refused` and `last` are history variables the properties need.

### SqlRequest

`HandlePool` has many requests and no time; `SqlRequest` has one request and
time. The competition for a handle is reduced to `AcquireDb`, possible at any
moment of the wait, and `PoolTimeout`, possible from the deadline on.

There are two clocks. `time` is what elapses, `wall` is what `Now` returns, and
`SetClock` makes them differ. The code starts three measurements, in `WriteSql`
(`sqlStart`), `ExecuteJson` (`execStart`) and `AcquireDb` after `Open`
(`waitStart`), and reads each with `MilliSecondsBetween`, which takes the absolute
value (`MilliSecondsSince`). Time passes (`Tick`) while the code waits for
something: opening, a handle, Stoolap, rows.

Requests are classified by what the code tells apart: the first check that
fails (`fault`), what the first words of the text say (`statement`), whether
there are parameters and each name in the text has a value, and `timeout_ms`. A
`WITH` counts as a query but not as reading (`IsQuerySql`, `IsReadOnlySql`); it
may or may not write. `EffectiveTimeout` shows that `busy_timeout_ms` is not
only the default but a ceiling as well: with the default configuration (5000),
`max_sql_timeout_ms` (60000) never matters.

Stoolap is external: a statement succeeds or fails as a whole, a failed one has no
effect, and one that was given a limit is over when the limit is reached. The
text of an error either has the word "timeout" in it or not
(`StatementFails`), for whatever reason. `effect`, `failure` and `began` are
history variables. Left out: `FReady`, which is in `ServerLifecycle`; the
answer 500 for an unforeseen exception; the conversion of values and rows.

### TokenClients

A client with a password keeps the token it got. There are two kinds. A *shell*
is a `connect` session: one thread, a token of its own with `ExpiresAt`, a
refresh when fewer than 60 seconds are left (`Fresh`), one repetition after 401
(`Retries`; `rejected` remembers that it was used). A *task* is one call of an
asynchronous Python client, or one message at a Node-RED node: tasks run
concurrently, share `sharedToken`, log in when there is none and never repeat
anything. The test of the token, the request for one and the assignment are
separate steps (`StartTask`, `TaskTokenArrives`), as an `await` is between them.
The synchronous Python client is the case of one task. In the Node-RED node the
timer of `callSql` runs while the token is fetched, so that the statement may
not be sent at all; that is the second alternative of `TaskTokenArrives`.

A caller awaits one exchange at a time. `Break` replaces its reply by `Lost` at
any moment, and the request stays in `requests`: the server may handle it
before, after, or never. `Waiting` decides whether a reply still finds its
caller. The server is `TokenStore` with two handlers: `HandleLogin` conjoins
`IssueToken`, `HandleSql` conjoins `ValidateBearer` and executes the statement or
does not; a 504 leaves that open, as `SqlRequest` shows.

`fleet` is chosen once: a run looks at one shell, or at two tasks. They interact
only through the store, and other clients of the store are there in any case
(`IssueToken` in `Environment`), so the product of both shows nothing new. The
wall clock is not set back here; `TokenStore` covers that.

`Delay` adds the two delays that shorten a token for a shell: from issue to
receipt, and from the decision to use it to the check by the server. Both
comparisons are strict (`Now + margin >= ExpiresAt`, `Now >= Expires`), so the
margin covers `RefreshMargin + 1` ticks, and never more than the lifetime.
`sentAt`, `epoch`, `executed`, `repeated`, `logins` and `fruitless` are history
variables.

The run uses a VIEW without `exit`, `last`, `refused`, `latest` and `serial`. The
first four are never read by a step; `serial` orders the entries, and is the
largest serial in `ledger` as long as the server runs. No property of this run depends on
them beyond the type of `exit`, which the theorem `ClientsTypesAlways` proves
without the view.

### PythonClient, ResultSets, StatementCalls

`TokenClients` has many clients and a real token store; `PythonClient` has one
object of the SDK and everything a program can do with it. A call is at an
exchange (`pc`), and what happens between two awaits is one action, from the
encoding of the body to the sending of the next request: `LoginArrives` keeps the
token and sends the statement, with the header as it is *then*. `login` stores its
arguments before anything is asked, so that they stay when it fails. While a call
waits, `SetToken`, `aclose`, and other calls change what it will read afterwards. An exchange can
break (`ExchangeBreaks`) or be cancelled (`Cancel`) while its request is under
way, and the server may handle the request later. `ErrorArrives` is
`_raise_api_error`; a redirection, which httpx does not follow, is not an error
for it, and `response.json()` fails (`NoJsonArrives`).

The server is what a client can see of it, and between the two there may be a
gateway with answers of its own (`docs/SRS.md:108`). What `SqlRequest` shows about
status and effect is built in: after 500, 504 and a gateway's 502 a command
may have been executed. `ResultSets` has both ends of the result format:
`RowsToJson` of the adapter and `parse_result`, `as_dicts`, `first`, `scalar` of
the SDK; `DictZip` keeps the last of two columns with one name, as `dict` does.

`StatementCalls` says what a program may rely on: a call that succeeded was
executed once; one that was refused is not executed, not even later; of one that
is open nothing is known. `StageOf` is the refinement mapping: it reads the
exception as a program would. A `QueryError` *without* a status counts as
success: `query`, `command` and the fetch methods raise it after the statement was
executed. A failed query (not a command) proves nothing, for a `WITH` may have
written before its rows could not be read.

The view of the run leaves out what no step and no property asks for: the exact
exception of a call that failed (its `StageOf` is kept), its arguments once its
request is handled, tokens nobody can present any more, `known` of a call that is not at its login, and
`before` as long as the client has no token of its own.

### SqlScanner

One iteration of a loop is one action; the flags of each loop exclude each other
and are the variable `mode`. A text starts as a body (`IsJsonDepthAllowed`) or
as SQL: then `ContainsMultiStatement` runs over it, and `BuildPositionalCommandParams`
after that, as `WriteSql` and `CommandJson` do. Characters are classes: `{` stands for `[` as
well, `a` and `b` for every letter and the underscore, `1` for every digit. The properties compare with
definitions that do not scan: a quote is escaped if an odd number of backslashes stands before it;
a token ends where the next quote, line end or `*/` is (`TokenEnd`), and the
next one begins there (`Beginnings`).

### StorageRecovery, DurableTable

The repository holds the patch, not the engine. The hunks are modelled as they
are; the steps between them (sealing, publishing a manifest, truncating the log)
are those that the hunks' comments and tests describe, and are marked external
in the map. A row is the position of its INSERT in the log, so `Committed` can be
read off the log: the rows inserted since the last DROP or TRUNCATE. Every write to
the disk is one action, and `Stop` is possible between any two of them, also in
recovery, which writes as well: it deletes orphans and carries out a TRUNCATE or DROP again. An emptied
table publishes its empty manifest (`PersistEmptyManifest`) unless it has no segment manager
(`NothingToPersist`), which can only be if it has no manifest either. A volume
may come out wrong on the medium (`torn`): `verify_v4_crc` reads it back before
the rename. Files may be damaged while the process is down (`Damage`).

`DurableTable` knows the committed rows, what an open database shows, and whether
the medium was damaged. Its `Open` shows exactly the committed rows and its
`Refuse` needs damage, so `KeepsTable` says both that nothing is lost or comes back
and that the fail-closed check refuses no database without cause.

Left out: several tables (the log position from which all tables are replayed is
the smallest of them, and what the engine does with older records of the others is
not in the patch), statements during a checkpoint, writes that fail while the
process runs, other than the volume file. A *lost* `manifest.bin` is not detected by the
patch, which takes the volumes for orphans; `Damage` therefore does not remove it.

## 3. The runs

| Run | Instance | What it shows |
|---|---|---|
| `pool` (`HandlePool.cfg`) | 3 requests, 2 handles, opened by the constructor or by the first request, any call may fail | `OpenedOnce`, `NoLeakedHandle`; `EveryRequestReturns`, `CloseEnds` |
| `pool_lazy_race` (`HandlePoolLazyRace.cfg`) | 2 requests, 2 handles, opened by the first request, nothing fails | **violation** of `HandlesExclusive`: finding 1 |
| `server` (`ServerLifecycle.cfg`) | 3 connections and the waking one, admission limit 2, 2 handles | `ActiveCountExact`, `AdapterAtRest`, `NobodyWaitsForHandle`; the server implements `HandlePool` (`ImplementsPool`) and, with `startup_check`, `ExclusiveHandles`: handles are used exclusively and not closed in use |
| `server_shutdown` (`ServerShutdown.cfg`) | 2 connections and the waking one, 2 handles, opened by the constructor or by the first request, any call may fail | `ShutdownEnds`, `EveryConnectionAnswered` |
| `server_auth_race` (`ServerAuthRace.cfg`) | 1 connection, patient | **violation** of `AuthNotUsedAfterFree`: finding 2 |
| `server_early_signal` (`ServerEarlySignal.cfg`) | 1 connection, patient | **violation** of `GracefulExitCode`: finding 3 |
| `tokens` (`TokenStore.cfg`) | room for 2 of 3 tokens, lifetime 1, clock 0..3, one restart, one static token | `StoreBounded`, `NothingLostEarly`, `RefusedForGood`, `AcceptedUnexpired` |
| `sql_request` (`SqlRequest.cfg`) | `busy_timeout_ms` 3, `max_sql_timeout_ms` 4, requests that ask for 0, 2, 5 or nothing, 5 units of time, one setting of the clock to any value of -5..5 | `LimitWithinBudget`, `StatementInTime`, `NoEarlyTimeout`, `StatusTellsEffect`, `ReadOnlyKept` |
| `token_clients` (`TokenClients.cfg`) | a shell with 2 statements, or two tasks with 2 and 1; room for 1 of 3 tokens, lifetime 2, margin 1, clock 0..3, one restart | `ExecutedOnce`, `RefusalExplained`, `LoginsBounded` |
| `python_client` (`PythonClient.cfg`) | two calls: one of every method with a suitable and an unsuitable text, or with a fault; a command or a login beside it; four ways to construct the client; answers of 0, 2 and 3 rows, `max_result_rows` 2 | `OutcomeTellsEffect`, `NoBareStatement`, `LoginRenews`, `RowsFaithful`; the client implements `StatementCalls` (`KeepsPromise`) |
| `sql_scanner` (`SqlScanner.cfg`) | all bodies of up to 5 of 5 characters, `MAX_JSON_DEPTH` 2; all texts of up to 4 of 13 pieces | `DepthAgrees`, `ScriptsRefused`, `ParametersInPlace` |
| `storage_recovery` (`StorageRecovery.cfg`) | 4 statements, 2 stops, one torn volume, one damaged file, 6 volume ids, compaction of 2 | `DiskSuffices`, `BacklogCleared`; the table implements `DurableTable` (`KeepsTable`) |

Each run also checks the type invariant of its module where that adds
something. In no run may the system stop other than by exiting: deadlock is
checked everywhere (`Terminated`, `Exited` and `Restart` make the intended ends
explicit, as do `Answered`, `Finished` and `Ended`; `TokenStore` always has a validation
to do), except `storage_recovery`, where a database that has been refused, or whose
log has reached its bound, stays as it is.

**Bounds.** Three requests for two handles: one waits while the others release
and take, which is the smallest instance in which a waiter loses a race to a
newcomer; a request may begin again after it ended, so the number of requests
over time is not bounded. Two handles make the loop of `OpenUnlocked` have a
first and a later slot, which are treated differently. Three connections for a
limit of two: one is refused while both places are taken. The waking connection
is a fourth. The constants `MaxMinted`, `MaxClock` and `MaxRestarts` bound the token run; three tokens in a
store of two make one eviction, and a clock of 0..3 with lifetime 1 lets a token
be issued, expire, be refused, and the clock return to its lifetime.
`MaxTime` and `MaxShifts` bound `sql_request`: five units are more than any
timeout in it, so every deadline is reached while there is still time to go on,
and 0, 2 and 5 are below the smallest legal value, between the limits, and above
both. `MaxCalls` and the bounds of the store limit `token_clients`: two
statements of a shell let the second find a token that expired, was evicted or
was lost by the restart, a store of one token makes every other login an
eviction, and three tokens are a first login, one of somebody else and the one
after a 401; of two tasks one finds a token that is there already. Two calls in
`python_client` are enough because a call meets the others only through the token, the
credentials and `closed`, which `SetToken` and `aclose` change at any moment as well;
an answer has fewer rows than the limit, exactly as many, or one more, and two of its
columns have one name. In `sql_scanner` four pieces make a literal or a comment with
something inside and something behind it, or a semicolon between two of them; five
characters make a string with an escape between two braces. In `storage_recovery` four
statements are two volumes with a TRUNCATE or DROP before, between or behind them; a second stop interrupts
the recovery from the first. Symmetry is used only in the
`server` run, which has no liveness property.

**Fairness.** Weak fairness of each thread's own steps: the operating system
schedules every thread. Weak fairness of `Expire`: clocks advance. Weak
fairness of `ExecuteEnds` (part of `RequestStep`): Stoolap finishes every
statement, possibly late; nothing in the adapter could end one that does not.
Strong fairness of `TakeOpenLock`: a thread that
keeps asking for a critical section gets it, although others take it in between; the server
run states it for each request. In `StorageRecovery` what has been begun goes on, the
database is opened again after a stop, and a table with enough volumes is compacted
(with every checkpoint, and the engine makes checkpoints by itself); the number of stops
is bounded, as a process that stops for ever before its compaction is over cannot get through anything.
Clients (`Begin`, `Accept`), signals and `Drain` have no fairness; nothing is
promised about their happening. Taking a slot is *not* strongly fair: a
waiter may lose every race, and its wait ends because of the
deadline. The wait for the thread that opens the pool has none: `AcquireDb` calls `Open`
before it sets `StartedAt` (`lsstoolapadapter.pas:269-270`), so that `timeout_ms` does not bound it;
it ends because the opener gives `FOpenLock` back on every path. `EveryRequestReturns` is that
every request is answered, not when. `Impatient` lets `shutdown_grace_ms` elapse at any moment; with it
`FALSE` a wait is cut off only when nothing could ever end it.

## 4. Findings

1. **Handle granted twice without `startup_check`** (`pool_lazy_race`).
   `docs/user-guide.md:84` promises exclusive use. `OpenUnlocked` assigns
   `FPool[I]` and clears `FPoolBusy[I]` afterwards, outside `FPoolLock`
   (`lsstoolapadapter.pas:196-204`), while `Open` returns at once to others as
   soon as `FDb` is set. A slot taken between the two assignments is marked free
   again.
2. **`FAuth` used after it was freed** (`server_auth_race`). `CHANGELOG.md:21`
   says the server waits for active requests before closing. A connection that is
   accepted but has not reached `TryEnterRequest` is not counted; `/sql` is then
   refused by `FReady`, but `/auth/token` only tests `FAuth = nil`, and
   `Destroy` does not set it to nil.
3. **Exit code 4 after an early signal** (`server_early_signal`).
   `docs/SRS.md:762-767` ends a graceful shutdown with code 0. A signal before
   the thread listens is lost on the listener, and `Serve` ends with `Halt(4)`.

Read beside these, without a run of their own: `docs/user-guide.md:86` says
that read queries execute normally with `read_only`, while a `WITH` query is
refused, as `CHANGELOG.md:38` intends; the 504 of `WriteSql` after a statement
was executed (`lshttpserver.pas:604`) is the reason why `StatusTellsEffect` cannot
say of a 504 that nothing was executed; it says that an executed statement gets one only when
`timeout_ms` is over. A command with parameters is executed by `ExecParams`
(`lsstoolapadapter.pas:676`), which takes no timeout, although
`docs/user-guide.md:349` says that `timeout_ms` is passed to Stoolap. `CliConnect`
ends with 3 on any exception of the first login (`liquidstoolap_server.lpr:1064-1072`),
although `docs/user-guide.md:343` gives transport failures 4. Of the Python SDK:
`sdk/python/README.md:74` has `QueryError` for backend SQL errors, while `query` and
`command` also raise it for a statement that was executed; `health()` never returns
`ready=False`, as the 503 of an unready server raises `ServerError`; a wrong password
given to `login` stays in the client; the fetch methods drop `truncated`; of columns with one name
`as_dicts` keeps the last. Of the scans: a comment behind the last semicolon makes a single statement a
script (`docs/SRS.md:535` speaks of more than one statement); parameters in comments are
replaced, and a quote in a comment makes the rewriter take the text behind it for a literal,
and the next literal for text; the antecedent of `ParametersInPlace` leaves that case out. Of two
logins of a Python client that overlap, the one that is answered last wins, also with the older
token; `LoginRenews` says what cannot be lost by it.

## 5. What is proved

All proofs are for any number of requests, connections, clients, calls, tokens and
handles, and for a log of any length, from the assumptions stated in the modules:

| Assumption | What it says |
|---|---|
| `PoolAssumption`, `StartupAssumption` | there is a handle; the names of threads are distinct; `startup_check` has some value |
| `ServerAssumption` | `max_concurrent_requests` is more than 1; the waking connection is none of the others |
| `TokenAssumption` | limits and lifetime are positive; static tokens differ from issued ones |
| `SqlAssumption` | limits are positive |
| `ClientsAssumption` | shells and tasks are different; `None` is no number |
| `ClientAssumption`, `NoneAssumption` | the calls of a program are those the SDK has; `None` is no value of anything else |
| `OutcomeAssumption` | `None` is nothing a call ends with |
| `ScannerAssumption` | the limit of depth is positive; a text is a sequence of characters |
| `RowsAssumption`, `AnswersAssumption` | `max_result_rows` is positive; the rows of an answer are as long as its list of columns, which is not empty |
| `StorageAssumption` | volumes are numbers; a compaction has two inputs or more |

**`HandlePool_proofs`, any mode of opening.** `LockInv` is inductive: beside
types and places it says that `FOpenLock` is held exactly by the thread inside
`Open` or `Close` (`LockHeld`), that the loop index is in range where it is used,
that after `Close` began nobody can open again (`NobodyReopens`), and that an
unassigned `FDb` means no open happened yet (`OpensCounted`). The last one is
what makes `OpenedOnce` inductive: the check under the lock is only worth
something because nobody else can be between the check and the assignment. From
it: `LockInvAlways`, `TypeCorrect`, `DatabaseOpenedOnce`.

`BusyInv` says that a busy slot has a holder (`BusySlotHeld`) and that slots are
held in the places where they are released. The other direction, that a held slot is
busy, is what finding 1 destroys, and is not needed: a slot that changes under its
holder only becomes free too early. The invariant has to know when the arrays exist,
because `ReleaseDb` leaves `FPoolBusy` alone when they are gone: by then every slot was
found free, and nobody takes one any more. From it, in both modes: `NoHandleLeaks`.

`GrantInv` adds the other direction, as far as it goes. `ClearsFree` says of a step that it
does not clear the flag of a slot that somebody holds. As long as all steps are like that, a
held slot is busy and its handle open, in any mode of opening, however many threads race
for it and whatever fails on the way: `OnlyClearBusySharesHandles`,
`OnlyClearBusyClosesHeld`, `OnlyClearBusyBreaksPromise`. So the one assignment of finding 1
is all that is wrong with the exclusive use of handles, and a repair of it is enough.
The proof needs that the arrays get their length once, before there is a handle
(`AllocatesOnce`). The refinement is shown step by step: `AssignSlot` is `Publish`,
`TakeSlot` is `Grant`, `ReleaseDb` is `Return`, `CloseHandle` is `Discard`, the
rest stutter.

**`HandlePool_proofs`, `startup_check`.** `EagerInv` adds what is true only when
the constructor opens the pool: no request is ever inside `Open`'s critical
part, requests exist only when the pool is complete, and slot, busy flag and
place of a request agree in both directions (`SlotsMatchBusy`). `HandlesExclusive`
alone is not inductive: `TakeSlot` preserves it only because a slot held by a
request is busy, and that only because nobody but the holder clears a busy flag.
It implies `ClearsFree`, as the constructor clears the flags before there is a
request. From that: `EagerHandlesExclusive`, `EagerHeldHandleOpen`,
`EagerImplementsExclusiveHandles`. Without `startup_check` the first and the last of these are false, see
finding 1. `HandlesExclusive` and `HeldHandleOpen` have no run with `startup_check` of their own: both follow
from the refinement that `server` checks.

**`ServerLifecycle_proofs`.** `ServerInv` contains `LockInv`, because the pool is
part of the server. `Counted` says that the count is that of the admitted
connections, each of which is inside its handler or on its way out; from it `ActiveCountExact`.
What makes the destruction safe is a chain: the listener stops only when told
(`Listener`), `FReady` is cleared before that (`AdapterLives`), a handler that
enters afterwards is refused, so that the count only falls, and when `Serve` reads zero no
handler is at the adapter (`AtRest`, by `SqlOnly`); nobody can come back. `WakerWaits`
is there for the connection that `Serve` makes itself. From it: `ServerInvariant`,
`ServerTypesCorrect`, `CountIsExact`, `AdapterIsAtRest`, and `ServerImplementsPool`, which discharges the
demand of `BeginClose`: from there on the theorems of `HandlePool_proofs` hold for
the server, which gives `ServerUsesHandlesExclusively`. `HandlesSuffice` is a pigeonhole argument:
a request that waits is counted, so that fewer than `PoolSize` others hold a handle, and
by `SlotsMatchBusy` some slot is free. `ServerKeepsPool` carries the theorems about the pool over
to the server.

Two theorems say that findings 2 and 3 have no other cause than the one described. If no
request is admitted after `Serve` has read a count of zero (`NoLateEntry`), `FAuth` is
never used after it was freed: `OnlyLateEntryUsesFreedAuth`. If `Serve` does not set
`Active` to `False` while the server is about to listen (`StopsListener`), and shutdown gets the time it needs
(`~Impatient`), the process never ends with code 4: `OnlyEarlySignalExits4`.

**`TokenStore_proofs`.** `TokenInv` is inductive. `RefusedForGood` needs that a
refused token is not in the store and can never return (`RefusedIsGone`): a token
that is refused is deleted by the same operation, so a clock that goes back finds
nothing. `NothingLostEarly` has two halves. What is gone was expired or is followed by
`max_issued_tokens` newer tokens (`LostInTime`): this needs the store to be a part of a finite
ledger with serials up to `FIssuedSerial` (`StoreInLedger`), for an evicted entry has
`max_issued_tokens - 1` newer ones in the store plus the new one. And as long as the server runs,
tokens leave in turn, whatever the clock does: a step that removes a token which has not expired leaves a
full store, in which every old token is newer and was not expired when the step began
(`LeavesInTurn`, an action property that `EvictedInTurn` takes from the order of prune and evict). From it:
`TokenInvAlways`, `TypeCorrect`, `StoreAlwaysBounded`, `TokensLostInTime`,
`RefusalIsFinal`, `AcceptanceInTime`.

**`SqlRequest_proofs`.** For any limits, any values of `timeout_ms` and any settings
of the clock. `SqlInv` has two halves. `TimeInv` says that a start time is set
from the step on that needs it (`ClocksSet`), that it is the moment it stands for
as long as nobody set the clock (`ClocksAgree`), and that a limit is a number
when there is one, with `endsBy` the moment at which it runs out (`LimitKept`).
`AnswerInv` says what is decided when a request is at a step (`Progress`): a
running statement was allowed, a returned one is executed. `LimitWithinBudget` holds
even for a clock that is set because the absolute value makes what is left at most
`timeout_ms`, and `RefuseLate` takes care of the rest; `StatementInTime` needs
`ClocksAgree`. From it: `SqlInvAlways`, `TypeCorrect`, `LimitAlwaysWithinBudget`,
`StatementsInTime`, `TimeoutsNotEarly`, `StatusIsTruthful`, `ReadOnlyAlwaysKept`.

**`TokenClients_proofs`.** For any number of shells, tasks and statements. `ExecutedOnce`
says nothing of requests on their way, so it is not inductive. `OnceInv` adds:
requests belong to statements that were begun (`NothingAhead`); of the `/sql` requests of one
statement at most one is on its way (`OneRequest`), and while it is, the statement has not been
executed (`NotExecutedYet`); and whoever is about to send a statement, after a
login or after a 401, has neither a request of it on its way nor an execution
behind it (`SafeToSend`). The last holds for a shell that repeats because a 401
is the reply to the one request there was, and a refused request does not
execute; it fails if anything but 401 is repeated, as the mutant
`RetriesEveryError` shows. From it: `ClientsTypesAlways`, `OnceInvAlways`,
`StatementsExecutedOnce`. `ClientsUseTokenStore` shows that every step of these
clients is a step of `TokenStore` or leaves it alone, so that all theorems of
`TokenStore_proofs` hold here (`StoreServesClients`); it needs that no client presents a token that was
not made (`TokensKnown`).

`LoginsCounted` makes `LoginsBounded` inductive: as long as there is no token, every login
is on its way or was fruitless, and after that there are no more. From it, for finitely many
tasks: `LoginsAlwaysBounded`. `DatesInv` relates the dates of a token at the server and at
the shell: unless the server was restarted, the token of a shell is in the ledger
with a date of issue not later than the date of receipt, and a statement is sent before the margin
or at the moment of receipt (`Dates`). A 401 then says that the token is not in the
store or past its end (`RefusedInStore`, from `LostInTime`), and both lead to
`RefusalExplained`: `RefusalsExplained`.

**`PythonClient_proofs`.** For any calls, ways to construct the client, answers and
limits of rows. `TokenInv` is about the token: the header is that of the token, the
token is newer than `before`, what the client knew when the login that brought it was sent, and
so is the token of every answer that is still to come newer than what its own call knew, since the
server makes a token only after it was asked (`TokensAhead`). From it: `NoStatementBare`, `LoginsRenew`. `EffectInv` is about one call at a
time: of its requests with a statement at most one is on its way and was not handled (`RequestHolds`); an
answer that awaits it is true (`ReplyHolds`); and its end tells the truth (`EndHolds`),
now and later: a call that timed out may be executed afterwards, so only an answer, or
an error from before anything was sent, counts as a refusal. From it: `OutcomesTellEffects`,
`NothingExecutedTwice`, and `ClientKeepsPromise`, the refinement of `StatementCalls`.

`RowsInv` follows an answer of the database to the program: what awaits a call was
made of it, and what the call returned was made of that (`RowsHold`); it needs
`EffectInv`, as a request that is handled after its call has ended must not count. The lemmas
about `ResultSets` say what is left of an answer after `RowsToJson` and in
the dictionaries of the SDK: `PayloadOfAnswer`, `NamesOfDict`, `DictsOfPayload`. From both:
`RowsAreFaithful`, for any rows and any limit.

`TypeInv` makes the types inductive: what is stored of a call and of an answer depends on where the call is
(`CallTyped`), and every request that is under way was made of a call that waits or has ended (`ClientTyped`).
From it: `TypeCorrect`.

**`SqlScanner_proofs`.** For texts of any length and any limit of depth. The scans are loops over a text, and
their properties compare them with definitions over all of it, so each loop has an invariant that says what
its variables mean for the text before `i`. `DepthInv`: as long as backslashes stand in strings only, `mode` says whether `i` is in a string and behind a
backslash that escapes, and `depth` is the nesting before `i`. `MultiInv`: in code, `i` is a beginning
(`Beginnings`); in a literal or comment, `mode` is its kind, and it began before `i` and has not ended; nothing before
`i` ends a statement. `ParamsInv`: if no comment has a quote, the rewriter and the definition agree where
literals are, no name crosses `i`, and what was written is what should be for the text before `i`. The
definitions over the text count or go from beginning to beginning, which calls for induction over positions;
as the induction theorems of the library take an operator as a parameter, the proofs take the least position
at which a claim fails (`Least`, from the well-foundedness of the natural numbers) and show that it fails before it.
From these: `DepthIsChecked`, `ScriptsAreRefused`, `ParametersAreInPlace`. On the way the prover showed that an
earlier form of `AfterInString` had two alternatives for a backslash behind an escaping one and did not say which;
TLC takes the first.

**`StorageRecovery_proofs`.** For a log of any length, any number of stops, torn volumes and
damaged files, any volumes and any choice of compactions. `StorageInv` says what
the disk holds (`DiskHolds`: the volumes of the manifest and the log from its
position on, unless something in that part of the log empties the table), what
memory holds (`MemoryHolds`), what recovery has still to do (`ReplayHolds`), that
memory knows the manifest (`ManifestKnown`) except while the table is emptied
(`EmptyingHolds`), and what is in the volume that is being made (`JobHolds`). A stop
forgets memory and leaves the disk alone, so all that recovery relies on
has to be in `DiskHolds` at every step in between; that is where the order of writes
matters. From it: `StorageInvariant`, `FilesAloneHoldTable`, and
`TableImplementsDurableTable`, the refinement of `DurableTable`; `NoRowLostUnnoticed` is what follows from both for
whoever opens the database.

**Model-checked only.** Liveness (`EveryRequestReturns`, `CloseEnds`, `ShutdownEnds`,
`EveryConnectionAnswered`, `BacklogCleared`), which TLAPS does not reach, and that the system
never stops where it should not (deadlock), which needs `ENABLED`. Every other property of a passing run is a
theorem. The three violations are TLC's; that their causes are the only ones is proved.

## 6. Not modelled

* `max_concurrent_requests = 1` (no connection threads); `keep-alive` and the
  socket level of `fphttpserver`, which is external.
* `/health` when it needs a token: in `ServerLifecycle` it would take `FAuthLock` for one
  validation and change nothing the properties see beyond what `IssueToken` does
  (`PythonClient` has its 401).
* Shells and Node-RED nodes with a static token, which keep no state; the one-shot commands `sql`, `token`,
  `health` of the CLI. A token that was refused stays in the Python and Node-RED
  clients (`TaskEnds`): `docs/SRS.md:322` has no refresh in version 1, so no
  property promises one.
* The reading of files at start (configuration, passwords, static tokens): sequential, before
  any thread exists; the limits they enforce are the `ASSUME`s.
* `lsstoolapffi.pas`: entry points without state; benchmarks, build scripts, packaging, the
  interactive shell and table printing: no concurrent or persistent state.
* `HasOnlyKeys`, `IsJsonInteger`, `ValidateScalarParams`: tests of one value each;
  `SqlRequest` has what they refuse as a kind of fault.
* Of the storage patch: the layout checks of `read_volume_v4` beyond sound or bad, and the
  C API entry points with a timeout, which are the external calls of `SqlRequest`.
  More than one table, and statements during a checkpoint, for want of the engine's source.

## 7. Plan

1. Writes that fail while the process runs (`StorageRecovery`).
2. `max_concurrent_requests = 1` (`ServerLifecycle`).
3. That `SqlRequest` is what one request of `HandlePool` sees: the competition for a handle, which
   `SqlRequest` reduces to `AcquireDb` and `PoolTimeout`, as a refinement.
