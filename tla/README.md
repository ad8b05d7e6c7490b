# Formal models of the Telys SDK

TLA+ modules for the stateful parts of `packages/telys-sdk/telys`, the TLC
configurations that check them, and TLAPS proofs for some of them. File names
below are relative to that directory. `PROJECT.json` has the same information
for tools: components, runs, mutants, the source lines of each definition,
hazards and theorems.

## 1. Inventory

The SDK is a Python facade over a closed native engine (reached through
`RuntimeHandle`). Around it stand a self-host server and its client, an MCP server
over stdio with a repository index, a blob store, and the login, installer and
supervisor that keep the runtime licensed, there and alive.

| Component | State | Operations | Interacts by | Hard behaviour | Correct when |
|---|---|---|---|---|---|
| Readers-writer lock (`server.py` `_RWLock`) | readers, waiting writers, writer, one condition | acquire and release for read and write | shared by handler threads and save passes | every wake-up order, writer preference | writers alone, no sleeper forgotten |
| Embedded collection (`engine.py` `Collection`) | `_int2id`, `_id2int`, the index, three files | create, open, add, upsert, update_texts, delete, save, search | calls the runtime; used by the server and MCP | a failing half of a batch, a crash between two replacements | one row per id, every row has a name, a reopen shows a save |
| Engine facade (`Telys`, `CompactCollection`) | registry of open collections | create, open, list, export | called by the server under `_reg_lock` | two openers of one collection | one object per collection |
| Self-host server (`server.py`) | registry, locks, connections, stop flag | authenticate, dispatch, drop, periodic save, drain | sockets, threads, `_RWLock`, `Collection` | drop against everything else, signals, daemon threads at exit | writes exclude, memory is shared, a drain loses nothing it owes |
| Blob store (`blob.py`) | slab, buffer, log, snapshot, index in memory | open, put, put_batch, get, delete, contains, sync, close | one lock; the file system | crashes with part of the data flushed | get finds the last put, deletes hold |
| MCP memory (`mcp.py` `TelysMemory`) | collection files, `.mcp.lock` | add, upsert, update, delete, maintenance, get, search | several processes share a directory | lock taken after the open, readers without it, kills | no save mixes with another, acknowledged rows stay |
| Repository index (`mcp.py` `index_repo`, `repo_search`) | fingerprints in memory and on disk, rows | walk, read, embed, commit, search | editors, other servers, restarts | files that change or vanish at any moment | a search shows the tree |
| MCP protocol loop (`mcp.py`) | none between messages | JSON-RPC dispatch | stdio | none | one reply per request |
| Installer and loader (`installer.py`, `runtime.py`, `paths.py`) | install, staging and backup directories | install_from_file, load_runtime | several processes, renames | kill between renames, two installers | nothing half-installed, nothing lost |
| Supervisor (`_supervisor.py`) | child, restart times | restart, give up, forward signals | signals, child process | a signal with no child | loops are capped, a drain ends it |
| Remote client, wire (`client.py`, `_wire.py`) | socket, lock, bytes under way | connect, authenticate, call, close | threads of a client share it; the server's handler | calls of two threads, a call that fails or is interrupted half-way, a reply that cannot be sent | replies answer their requests, callers return, handlers end |
| Login (`login.py`, `paths.py`) | token, API key, license, device id and key, each a file | poll, cache, unlink, register, install | HTTPS; later logins, `telys runtime install` | denial, late approval, a kill between two files, two logins | ends; what is cached is of one login and of this device |
| Verification (`verify.py`) | none | manifest, artifact, license | installer, server | none | claims are checked |
| MCP client configuration (`mcp_install.py`) | a file of another program and its `.bak` | read, merge, back up, write, append | the client writes the same file | files that do not parse, a kill after the truncation, a second run | the client's settings survive, the report is true |
| Embedders, tuning, filters, CLI | none of their own | — | — | — | — |

The hazards of `PROJECT.json` name the lines where each of these bites.

## 2. Modules

| Module | Models | Role |
|---|---|---|
| `SharedExclusive` | what a readers-writer lock promises | abstract |
| `RWLock` | `_RWLock`, with sleeping and woken threads | refines `SharedExclusive` |
| `VectorStore` | what a collection promises: ids to vectors, batches, saves | abstract |
| `Collection` | `engine.py` `Collection` with crashes | refines `VectorStore` until a save is torn |
| `TelysServer` | `server.py` `TelysServer` | a grant of a lock is one step, under the conditions of `_RWLock`, which `RWLock` takes apart |
| `BlobStore` | `blob.py` `BlobStore` with crashes | |
| `McpMemory` | the open, lock, apply, save protocol between processes | |
| `RepoIndex` | `index_repo` and `repo_search` | the save under the lock is one step, which `McpMemory` takes apart |
| `Chunking` | the windows of `_chunk_text` | gives `RepoIndex` the rows of each version (`MCRepoIndex`) |
| `RequestReply` | what a connection promises: one call at a time, executed at most once, answered by its own reply | abstract |
| `ClientSession` | `client.py`, `_wire.py` and the loop of `_handle` | refines `RequestReply` until a call is interrupted |
| `Login` | `login` and `telys runtime install` | `install_from_file` is one step, which `Installer` takes apart |
| `McpInstall` | `telys mcp install` and `uninstall` | |
| `Installer` | `install_from_file` and `load_runtime` | |
| `Supervisor` | `supervise` and the life of its child | |
| `MC*` | sets of model values and bounds | where the module alone does not do for TLC |
| `RWLockProofs`, `CollectionProofs`, `TelysServerProofs`, `McpMemoryProofs`, `BlobStoreProofs` | theorems about the module of the name | section 5 |
| `RepoIndexProofs` | theorems about `RepoIndex` and `Chunking` | section 5 |
| `ClientProofs` | theorems about `ClientSession` and `Login` | section 5 |
| `CommandProofs` | theorems about `Installer`, `Supervisor` and `McpInstall` | section 5 |

`Login`, `Supervisor` and `McpInstall` are extended together with another component by
their proof module, so `Init`, `Next`, `Spec` and `TypeOK` carry a prefix there (`LoginSpec`,
`SupSpec`, `McpSpec`).

How state and actions correspond to the code:

* **RWLock.** The three fields are `_readers`, `_writers_waiting`, `_writer`; `pc`
  says for each thread whether it holds, sleeps in `wait()` or was notified and has
  not run. Everything under the mutex up to a `wait()` is one action.
* **Collection.** `_ingest` is taken apart where the runtime may raise: `BeginIngest`,
  one `MapNext` per id, then `Build` or `Insert` and `Update`; `RuntimeRaises` may end
  any of the three and leaves the id map as it is by then. `save` is three replacements,
  with a `Crash` possible before each. A row keeps the internal integer, the vector's
  version and the place of its text, nothing else; the runtime is external.
* **TelysServer.** A `Collection` object is an index into `objs`; `cols` and `locks` are
  the registry. Each connection is a handler thread that authenticates, receives,
  resolves object and lock in one step (`_reg_lock`), acquires, runs and replies. The
  periodic saver and the draining main thread run `_save_all_open`, which looks up the
  lock, waits, and then looks up the object. Of the operations the model keeps one of
  each sort: add, delete, save, a reading one, create, open and drop.
* **BlobStore.** Positions count records, not bytes. `buf` is the Python buffer of the
  slab; the log is flushed with each operation and the slab is not, which is what makes
  crashes interesting. Opening is `_load_index` with its snapshot, log and scan cases.
* **McpMemory.** A call opens the three files (readers in two steps, since a save may
  come between), takes the `flock`, applies itself to the copy it opened, saves the
  three files one by one and releases. A kill releases the lock.
* **RepoIndex.** Walk, read, open, commit, record are the stages of `index_repo`; a
  read or an embedding may fail and the deadline may cut any file off. A file is its
  version, a stamp is the version, and `Chunks` gives the numbers of the chunks that make a
  row, since blank ones do not (mcp.py:526). The refusal of a collection with another key
  (mcp.py:444-450) changes nothing and is left out. Each collection has its rows and all share
  a fingerprint per server. Of the history variables, `spoiled` has the files of a collection
  whose rows a call dropped unread or saved over unseen, and `elsewhere` those whose current
  stamp a call on another collection recorded; both forget a file that changes.
* **Chunking.** Lines are numbers. `Starts` is what `range(0, n, step)` yields up to the
  `break`. The code does not check its arguments: a window below one line or a negative
  overlap leaves lines out, and no default or documented value is one.
* **ClientSession.** A frame is the number of its call, and two queues are the two
  directions of the stream. Frames carry no request id, so nothing but the lock of `_call`
  and the order of the stream says whose reply is read. `holder` is the thread in `_call`;
  `Send`, `Receive` and the failures of either are actions. An interrupt (Ctrl-C, a
  raising signal handler) may leave `sendall` or `recv` with part of a frame moved. The
  handler's actions are the paths through one turn of `_handle`.
* **Login.** `pc` is the position in `login`; a file holds the session that wrote it,
  nothing, or `Cut`: opened with `"w"` and not written yet. Every open, write, unlink and
  request is an action of its own, which may fail or be the last one before a kill.
  `device_id` and `device_thumbprint` decide whether to make a new one, and write it later.
  `install_from_host` takes the key from its caller and the license from the path.
* **McpInstall.** A file has a form (absent, cut, strict JSON, JSON with comments), the
  number of the client's settings it holds, and the entry of Telys. Check, load, backup,
  open, write, read and append are the steps of the three ways to register.
* **Installer.** A directory is the set of parts it holds, with bundle and license.
  Staging is private to a call; the three renames of the promotion are three actions,
  and a kill may come before each, or leave part of a backup behind.
* **Supervisor.** Time advances one unit per back-off; `restarts` holds ages.

## 3. Runs

All runs that pass explore the whole state graph of their instance. No
configuration replaces a definition or uses a state constraint; every bound is a
constant in a guard.

| Run | Instance and why it is enough | Shows |
|---|---|---|
| `rwlock` | 4 threads: a holder, a sleeping reader, a sleeping writer and one that overtakes | exclusion, no lost wake-up, writer preference; some waiting writer is served, readers are served once writers stop; `SharedExclusive` is implemented |
| `collection` | 2 ids, 2 vectors, every batch of one or two distinct ids, any number of calls, saves and crashes | the two halves of the id map stay inverse and only grow; rows have names and one row per id; `VectorStore` is implemented |
| `server` | 2 connections, both save threads, 1 name, 1 row, 1 drop: what was resolved before a drop meets what is created after it, and the drain meets both | requests on one object share one lock; writes exclude; save passes exclude; memory is shared; a quiet drop is final; a stop leads to an exit, and what was acknowledged before the drain is on disk |
| `session` | 2 threads, 4 calls, 2 interrupts, with and without a token, a right and a wrong one: after an interrupted call there is room for a whole one and one more to be misread | `RequestReply` is implemented until the first interrupt; a call that waits ends, and so does the handler of a closed connection, unless a frame was cut |
| `blob` | 2 keys, 3 records, batches of 2, 2 crashes: the record of one key can land where the index has the other, and a second crash can hit the recovery | get finds the last put; deletes hold; a snapshot is on disk before the log goes |
| `mcp` | 2 processes, 2 ids, 2 writes, 1 kill | saves do not mix; a call that opened later loses nothing |
| `repo` | 2 servers with `persistent_index`, one of which also indexes on request, 2 collections, 1 file (files do not depend on each other), 2 edits, of which the second shrinks it, 1 restart or file left out: a fingerprint recorded for one collection meets the rows of the other, and that of one server the rows of another | every line is in a chunk; a search shows the tree; a fingerprint that matches is right for every collection, with the exceptions of section 4 |
| `install` | 2 installers, 1 loader, a sound and an unsound bundle and license, 2 kills | what is installed is whole; a failed upgrade loses nothing; a load falls back only with cause |
| `login` | 2 logins, 1 install, 1 kill, polls of 2 in a wait of 3, so that the last poll ends past the deadline | token, key, license and installed runtime are of one login; the license is of the device on disk; a login ends |
| `config` | 3 runs, 2 edits by the client, 1 fault, each kind of client: a run breaks off, a second one finds its file, a third one overwrites its backup | the client's settings are in the file or where the property says; what is printed is so |
| `supervisor` | 2 restarts in a window of 4: one more than fits, and room for one to age out | loops are capped; nothing else is given up; a drain ends it |
| `blob_reopen` | as `blob`, with 2 records and 1 crash | a statement of the source that the code does not keep (section 4) |

Each type invariant (`TypeOK`) is checked by putting it into the configuration of
its module, and proved (section 5). `MCTelysServerDrain.cfg` is the drain over two names, checked by hand: the save of
one may fail before that of the other.

Deadlock is checked except in the runs of the server (the process exits), the
supervisor (it returns), the session (the connection ends) and the two commands, `login`
and `config`.

**Fairness.** Liveness is checked for the lock, the drain, the session, the login and the
supervisor.

* `RWLock!FairSpec`: a notified thread eventually re-evaluates its loop, and a holder
  eventually releases, since `_dispatch` releases in `finally` (server.py:228-233).
  Nothing makes threads ask for the lock.
* `TelysServer!FairSpec`: threads that can run do, so a lock is granted, an operation
  ends and a save pass proceeds; native calls are taken to return. Clients owe nothing:
  they may never send.
* `ClientSession!FairSpec`: the handler thread runs, a thread blocked in `recv` wakes up when
  there is a frame or the connection has ended, and the handshake ends by its timeout
  (client.py:66). Calls, closes, stops, interrupts and losses are owed by nobody.
* `Login!FairSpec`: a sleep ends, a request is answered or fails (`timeout=30`), and the
  process goes on. The user owes no approval: `LoginEnds` holds by the deadline of the poll.
* `Supervisor!Spec`: the loop runs, a child gets its handlers, and a child told to
  drain ends, which is `DrainTerminates`. Crashes, signals and time owe nothing.

Each property has a mutant in `PROJECT.json`: a change of one mapped
definition, of the kind a plausible bug would make, under which the property fails.

## 4. Where the code and its comments differ

The run `blob_reopen` shows one: a delete replayed from the log is saved as a null entry,
which the next open cannot read; the store stays closed, against blob.py:51.

Further statements do not hold as written. The properties of the passing runs
hold because they make the exception given here. To see that the exception is needed,
run `tlc -config X.cfg <module>` with the configuration given or, where a property is
given, put it in place of the properties of the passing run's configuration.

| Statement | What happens | Exception in | Configuration or property |
|---|---|---|---|
| engine.py:118, no two rows for one id | a batch that repeats an unknown id makes two live rows of it | `OneRowPerId` (`DistinctBatches`) | `MCCollectionRepeat.cfg` |
| mcp.py:95, concurrent writes are exclusive | two overlapping tool calls lose a row: the collection is opened before the lock is taken | `AckedUnlessOverlapped` (`overlapped`) | `AckedSurvives` |
| engine.py:467, collection.json is the commit point | from the second save on a crash between index and id map is reopened as a mixture | `RowsNamed`, `OneRowPerId`, `ImplementsStore` (`torn`) | `MCCollectionTorn.cfg` |
| engine.py:187, add_texts raises on existing ids | also on ids that were deleted, or whose first batch the runtime refused | none needed | `MCCollectionRefused.cfg` |
| engine.py:78, lexical keeps the tokens of a row | a mixed batch gives rows the texts of others (engine.py:172) | none: tokens are in no other property | `MCCollectionTokens.cfg` |
| engine.py:387, update_texts inserts nothing | an unknown `"5"` passes when `5` is live | `UpdateInsertsNothing`, proved only | |
| server.py:104, a pass saves under the lock of the collection | not when the name was dropped and created between the lookup of the lock and that of the object | `SaveIsExclusive` (`orphaned`) | |
| server.py:413, the drain persists everything | a write acknowledged after its collection was saved is lost | `DrainKeepsDue` (`due`) | `MCTelysServerLate.cfg` |
| server.py:215, a drop deletes the directory | a save in flight writes it again | `DropIsFinal` (`orphaned`) | `MCTelysServerDrop.cfg` |
| blob.py:324, contains | True after a replayed delete | none: about get only | `ContainsIsStored` |
| blob.py:312, delete removes the key | a store closed without keys is scanned and has them back | `DeletedUntilScan` (`scanned`) | `DeletedStaysDeleted` |
| blob.py:213, sync is durable | a later put that was lost hides the synced record | `GetIsLatest` (`lost`) | `SyncedIsReadable` |
| blob.py:13, the index is rebuilt by a scan | not when there is a log | `GetIsLatest` (`ignored`) | `SyncedIsIndexed` |
| blob.py:14, a crash after an append is safe | a record larger than the buffer is read back short | none: `Tearing` is off | `MCBlobStoreWhole.cfg` |
| mcp.py:304, exact lookup by id | a reader may pair the map of one save with the rows of another | none: about writers only | `LookupIsExact` |
| mcp.py:585, guaranteed fresh | a changed file that could not be read is recorded as indexed | `SearchIsFresh`, `FingerprintHonest` (`spoiled`) | `MCRepoIndexFresh.cfg` |
| mcp.py:585, guaranteed fresh | after an edit, indexing into another collection makes the next search a hit on the old rows of the default one | `SearchIsFresh`, `FingerprintHonest` (`elsewhere`) | `MCRepoIndexColl.cfg`, with `FreshIfRead` alone |
| mcp.py:428, incremental per collection | one fingerprint stands for all collections | `FingerprintHonest` (`elsewhere`) | `MCRepoIndexColl.cfg` |
| mcp.py:429, removed files lose their rows | not after a restart without `persistent_index` | `SearchIsFresh` (`removed` of the call) | `MCRepoIndexRemoved.cfg` |
| runtime.py:168, never the in-process runtime | a load between the two renames of an upgrade | `FallbackHadCause` (`missed`) | `NeverLocal` |
| installer.py:183, the backup is dropped or restored | the loser of two upgrades leaves it | none: it is never promoted | `BackupsDropped` |
| _supervisor.py:26, signals are forwarded | not while no child runs | `StopObeyed` (`owed`) | `SignalStops` |
| client.py:68, one request in flight | a call interrupted before its reply was read leaves the reply to the next call, and every later call gets that of the one before | `ImplementsRequestReply` (`Dirty`) | `OneInFlight` |
| server.py:362, surface the error and keep serving | a reply that json cannot encode, or larger than a frame, passes `_safe_send` and ends the handler; the client finds the connection closed | `CallsEnd`: a call may fail | `KeepsServing` |
| login.py:235, never a stale key and license | not when the login is killed between caching its token and the unlinks | `NoMixture` (`between`) | `NeverStale` |
| paths.py:97, the device key is generated once | a key file that a kill cut is never made again, and every later login raises | none: about the license | `DeviceKeyReadable` |
| paths.py:97, it binds the machine to its license | two first logins each make one, and the license is bound to the one that was overwritten | `BoundToDevice` (`overlapped`) | `AlwaysBound` |
| mcp_install.py:8, idempotent, with a backup | a file that does not parse is taken for an empty one; the second run overwrites its backup | `SettingsKept` (`blank`) | `BackupHasThem` |
| mcp_install.py:213, fail closed | not when the client rewrites the file between the check and the load | `SettingsKept` (`raced`) | `QwenFailsClosed` |
| mcp_install.py:204, already present | an append that was cut leaves the head of a block, which is reported as present | `ReportIsTrue` (`part`) | `BlockIsWhole` |

## 5. Proofs

`tlapm` proves these for every value of the constants that meets the named
assumptions; TLC checked each formula first.

* **RWLockProofs** (any finite set of threads). `IInv` joins the type invariant,
  exclusion, the counters and the wake-up condition: exclusion alone is not
  inductive, because the code tests counters, so the counters must be known to count
  the threads, and a release needs to know who is inside. From it: `TypeCorrect`,
  `WriterIsAlone`, `NobodySleepsForgotten`, `WriterPreference` (an action property) and
  `Refinement`, that every step is a step of `SharedExclusive` or a stutter.
* **CollectionProofs** (any ids, vectors, batches). `MapInv`: ids appended to the list are
  new, so the list is injective and the dictionary its inverse, and the list on disk
  is a prefix of it at every step of a save. Gives `IdMapIsInverse` and
  `SavedMapStaysPrefix`. `RowInv` adds that rows lie within the map and that the ids of
  the batch under way which are not yet inserted have no rows: `RowsStayNamed`, for any
  batches, until a save is torn. `OneLiveRowPerId` is stated for sets of batches without
  repetition (`NoRepeats`), the assumption that `MCCollectionRepeat.cfg` shows to be needed.
  `StrictInv`: `update_texts` has checked its ids against the rows, and nothing runs between
  the check and the ingest that could take one away; gives `UpdatesInsertNothing`, torn saves
  included, which no run checks, as it follows from the guard of one step. `StoreInv` says
  what the store of `VectorStore` holds while a batch is half written, a save half done or
  the process gone; from it `Refinement`, that every step is one of `VectorStore` or a stutter
  until a save is torn, for batches with repeats too.
  `TypesAreRight`, which adds that the place of a row's text lies within its batch.
* **TelysServerProofs** (any connections, names, rows, drops). A step only adds objects and
  locks (`Extends`), so what a handler resolved stays resolved, and whoever resolves an
  object finds the lock of those before. Gives `RequestsShareLock` and
  `WritesAreExclusive`. The second invariant, `Kept`, is about names that were not dropped
  under their users: a request or a save then holds the object and the lock of the registry
  (`HeldRight`, `PassRight`), so no two saves and requests are inside one lock (`SaveAlone`)
  and a save writes all that was acknowledged (`Memory`); a dropped name has no user who
  could write it again (`Dropped`); and a row that is due is on disk or its name is still
  before the draining thread (`Draining`). Gives `SavesAreExclusive`, `MemoryIsShared`,
  `DropsAreFinal`, `DrainSavesDue` and `TypeCorrect`.
* **McpMemoryProofs** (any processes, ids, writes, kills). A version is written once
  (`RowsRight`), so a row two copies share has one integer in both, and the map of one
  names it in the slab of the other (`SameRow`): that carries the property over the moment
  between the two files of a save. A row is firm when no save under way is about to
  overwrite or excuse it; the disk has every firm row in its last version (`DiskFound`), and
  so does every copy opened after it was acknowledged (`CopyFound`). Gives
  `SavesUndisturbed` and `AckedKept`. `TypeCorrect` adds that integers and the length of a
  map are bounded by the writes.
* **BlobStoreProofs** (any keys, records, batches, crashes). Per key: `Disk(k)` is what an open
  would find, in the log or else in the snapshot, and it and the index in memory point to the
  last record of `k` (`PointsRight`), which is the last put (`KnowsLatest`), or nowhere when
  `k` was deleted (`KnowsDeleted`). A crash may cut the buffer at any record, so each part is
  excused for the keys whose last put lay there (`lost`). `StepRight` says what is already on
  disk between the two steps of a snapshot. Gives `SnapshotsAreCovered`, `DeletedStayAway`,
  `GetsAreLatest` (for records that fit the buffer, `~Tearing`: with cut records it fails
  once an open scans, which TLC finds with 3 records, batches of 2 and 2 crashes), `GetsAreLatestUntilScan` (any records, until an
  open has to scan the slab) and `TypesAreRight`.
* **RepoIndexProofs** (any servers, collections, files, edits, restarts). A fingerprint that
  agrees with a file has the rows of it behind it in every collection that is not excused for
  the file, also the one in the file of another server and the one a call in progress will
  record; what a call has read or passed over is tracked by its stage, and what others saved
  since it began by `stale`. Gives `FingerprintsAreHonest`, `SearchesAreFresh` and
  `TypesAreRight`.
  `EveryChunking` (texts of any length, any window of at least one line, any overlap that is
  not negative): the starts are multiples of the step, the last window reaches the end,
  and a step is never larger than the window; so every line is covered and no record
  contains another. No induction: the last start is given by a division.
  `VersionsAreWellCut` applies it to the versions of a file.
* **ClientProofs.** *Sessions* (any threads, calls, interrupts): the invariant says of each
  frame under way which call it belongs to: until an interrupt at most one request or reply
  is in the stream or in the handler, and it is that of the call that waits, or of one that
  has failed. Gives `TypeCorrect`, `OwnReply`, `Refinement` (every step is one of
  `RequestReply`, a stutter, or after an interrupt) and `Authorized`.
  *Logins* (any sessions, kills, installs): for `LicenseOfDevice`, the owner of the license has
  registered with the id and key on disk, and no later login makes new ones. For
  `OneLoginAtATime`: by the position of the one login that runs, `Has` says which files
  are its own and which are gone; between logins all are of one (`MixInv`). Also
  `LoginTypeCorrect`.
* **CommandProofs.** *Installer* (any installers, loaders, bundles, licenses, kills): `Staged`
  says what the steps behind an installer have verified, `Held` and `Kept` that what was set
  aside is whole and belongs to a call that has not ended. Gives `InstalledIsWhole`,
  `InstallIsKept`, `FallbacksHadCause` and `InstallerTypeCorrect`.
  *Supervisor* (any limit, any window): the list the code keeps and the history of deaths
  agree on what still counts, and each relaunch answers a death that is one unit older.
  Gives `CrashLoopsAreCapped` and `GivesUpInALoopOnly`.
  *Client configuration* (any runs, edits, faults, kind of client): `McpInv` says what the one
  run under way relies on at each step (`Knows`: the settings are in the file until it
  truncates it, then in the backup and in what it has read), what holds between runs
  (`Quiet`), and what is true whoever writes (`Positions`). Gives `SettingsAreKept` and
  `ReportsAreTrue`.

Only model-checked: all liveness properties (`ReaderServed`, `WriterServed`, `CallsEnd`,
`HandlerEnds`, `LoginEnds`, `StopObeyed`, `DrainTerminates`), which need fairness and `ENABLED`,
out of the reach of `tlapm`; and `blob_reopen`, which is violated. Every safety property of a
passing run is a theorem. So are the type invariants (`SupTypeOK` and `McpTypeOK` as parts of
`SupInv` and `McpInv`).

## 6. Not modelled

* The native runtime, embedding kernels, filters and tuning plans: closed or without
  state. `compact` and the index builds change nothing callers can name.
* Failures of the disk and of the operating system: a crash is the end of a process, so
  what was flushed stays. A log line cut in the middle is left out too. So is a client
  configuration that exists and cannot be opened, which `_load_json` takes for empty
  (mcp_install.py:56). In a login, a `chmod` that fails after the write (login.py:66, 93)
  is no action of its own: it leaves the files that a kill at that place leaves.
* A connection whose loss neither end notices: after the handshake the client has no timeout
  (client.py:80) and waits for ever.
* Schemas, embedders and licenses of the server; signatures and the claims of a license;
  the hosts a login talks to. `codex` and `claude` when they register Telys themselves.
* The `.gitignore` rules of the walk and the text of chunks, and arguments of `_chunk_text`
  that leave lines out (see section 2).
* Argument parsing, printing, and the stateless JSON-RPC loop.

## 7. Plan

Done, in this order: the lock, the collection, the server, the blob store, MCP
memory, the repository index, the installer, the supervisor, the client session, the
login, the client configuration, the chunks.

Left, most important first: `verify_installed` and downloads, added to `Installer`; the
license claims of `verify.py` as a predicate.
