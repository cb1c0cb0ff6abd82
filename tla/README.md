# TLA+ models of tftp-os

tftp-os provisions machines over the network: a host boots from a TFTP
directory, a daemon outside this repository serves the files, and the Python
package `src/tftpos` decides what a host gets, puts it there, and keeps track of
how far each host has come. The package is a library. Its callers (a web
application, a TFTP front end, scripts) run it from several threads, and most of
its classes have no lock, or one that covers only part of an operation. That is
what these models are about: what holds when calls interleave between their
steps, when a write or a read fails, and when the process dies.

Paths below are relative to `src/tftpos/` unless they begin with `docs/` or
`tests/`.

## 1. Inventory

| Component | State | Operations | What is hard | What makes it correct |
|---|---|---|---|---|
| Provisioning tracker, `state.py`, `engine.py:ensure_tracked` | `_records`: one mutable object per MAC; callbacks | register, transition, disable/enable_netboot, clear; load at start | no lock; objects keep being used by calls after `_records` has a new one; a save can raise | database and memory agree when nobody is working; callbacks see committed state |
| SQLAlchemy backend, `db.py` | table `provisions`, a lock | save, delete, clear, queries | the object is read while other threads change it | a row is a record somebody had |
| JSON backend, `db.py` | one file, a lock | save, delete, clear, get | truncate-then-write; an unreadable file counts as empty | one record changes at a time; nothing is lost without a failure |
| In-memory backend, `db.py` | a dict, no lock | the same | little: each method is one operation of the dict | the same contract |
| Migration, `db.py` | a table that earlier attempts may have filled | copy the records of the JSON file to SQLite | the file is read without the backend's lock while threads save; any row may fail | what the backend had is in the table, and is counted |
| Rate limiter, `rate_limit.py` | a bucket per key, a lock | check, remaining, retry_after, cleanup, reset | the clock is read before the lock | burst plus rate bounds every window |
| Cluster orchestration, `cluster.py` | a JSON file per cluster | create, start_provisioning, mark_host_*, delete | no lock, whole-file copies written back many times during a run | the state in the file is true of its hosts; a run ends |
| Profile cache, `cache.py`, `engine.py` | entries with stamps, a lock per method | the wrapper of `ttl_cache`, invalidate, clear | load and store are not atomic with respect to clear | bounded staleness; clear takes effect |
| Staging, `staging.py` | the TFTP directory | stage, unstage | a chain of system calls with a fallback | the daemon never sees a part of a file |
| Webhooks, `webhooks.py` | pool, report of the last deliveries | fire, fire_sync, send_test, shutdown | pool threads, retries, late answers, shutdown in the middle | verdicts are right, nothing begun is lost |
| Host matcher and engine, `matcher.py`, `engine.py`, `plugins/` | rules, the cache, a registry of plugins | match, serve, stage, invalidate_caches | tiers and priorities; calls that use a rule, a profile and a path while the files behind them change | the most specific rule wins; a host is served what its rule allows |
| API keys `auth.py`, secrets `secrets.py`, named objects `named_objects.py` | a file for all keys or secrets, a file per object | create, validate, revoke, delete; set; add, update | read-modify-write and truncate-then-write without a lock | what was stored stays, unless two calls met or a write was cut short |
| Repository mirrors, `repo_mirror.py` | a dict, `mirrors.json`, a directory per mirror | add, remove, sync; load at start | a sync is long; every change saves the whole dict; removal is of an entry, then of a directory | the file is the dict; a synced mirror has its files |
| Cloud images, `cloud_image.py` | a directory per image with the file and its metadata | import, delete, list | files are written in place, any step fails, a download may end early without an error | a listed image has its file, as its source delivered it |
| Audit log, `audit.py` | a ring buffer per logger, a lock each; one global logger | log, query, init_audit, get_audit_logger | the time is taken before the lock; the global logger is tested for, then made | an event that was logged is found |
| Console proxies, `console.py` | one reader and one writer | connect, close, send, receive, of several tasks | each awaits in the middle | no connection is left open that nobody can close |
| TLS certificates, `tls.py` | `key.pem`, `cert.pem` | ensure, generate | two files, no lock; whatever is there is used | the two belong together |
| ISO detection, `iso_detect.py` | none | eight detectors in order, the first that answers | files missing or damaged, one of them so that the parser raises; files two systems both have | a medium is not taken for another system's |
| Plugin registry, cloud-init, power, hypervisor clients, mnemonics, config, metrics, logging | little or none | parsing, external commands | mostly input and output | not the subject of a model |

How they interact: `FirmwareEngine.serve()` asks the matcher for a rule, loads
the rule's profile through the cache, and calls a plugin; `stage()` does the same
and hands the path to `staging.stage()`; `ensure_tracked()` registers the host with
the tracker. The tracker saves every change through a `StorageBackend` and then
runs its callbacks; applications connect those to webhooks and to
`ClusterManager.mark_host_*`. The limiter guards the entry points. The components
share no variables: they meet in calls, in files and in the threads that run them.

The `hazards` of `PROJECT.json` list, line by line, what in this code is hard to
test, and which property would notice it going wrong.

## 2. Modules

| Module | Models | Composes |
|---|---|---|
| `ProvisionTracker` | tracker over the SQLAlchemy backend, `ensure_tracked`, threads, restarts | |
| `RateLimiter` | one limiter and the threads that call it | |
| `ClusterManager` | manager, store and file of one cluster | |
| `TTLCache` | cached profile loader, the files behind it | |
| `ServedDirectory` | abstract: the directory the TFTP daemon sees | |
| `Staging` | stage() and unstage() as system calls on a directory; implements `ServedDirectory` | `ServedDirectory` |
| `HostMatcher` | match() as operators, and the answer the tiers call for | |
| `FirmwareEngine` | serve() and stage() of the engine, end to end | `HostMatcher`, `TTLCache`, `ServedDirectory` |
| `RecordStore` | abstract: what a `StorageBackend` promises | |
| `JSONBackend` | the JSON backend; implements `RecordStore` | `RecordStore` |
| `Webhooks` | the webhook manager, its pool, its callers | |
| `FileStore` | API keys, secrets and named objects: calls on JSON files without a lock | |
| `Mirrors` | the repository mirrors: dict, file, directories | |
| `CloudImages` | import and deletion of cloud images | |
| `Migration` | the copy of the JSON file into a table, beside the backend's threads | `JSONBackend` |
| `TlsFiles` | generation and use of the key and the certificate | |
| `AuditLog` | the loggers, their buffers, the global logger | |
| `ConsoleProxy` | the connection of one proxy and the tasks that use it | |
| `IsoDetect` | `detect_iso()`: the detectors, and the media they may meet | |
| `SeparateParts` | the seven parts that share nothing, side by side | `FileStore`, `Mirrors`, `CloudImages`, `TlsFiles`, `AuditLog`, `ConsoleProxy`, `IsoDetect` |
| `MC*` | the instances for TLC: symmetry sets, sequences and functions a .cfg cannot write | the module of that name |
| `*Proofs` | theorems about `ProvisionTracker`, `RateLimiter`, `ClusterManager`, `Staging`, `Webhooks`, `SeparateParts`; `FirmwareEngineProofs` also about `HostMatcher` and `TTLCache`, `JSONBackendProofs` also about `Migration` | the module of that name |

Common conventions. A thread has a `pc`; the actions of a method are the stretches
of it between two moments at which another thread may see the difference: a lock
taken or released, an object or file read or written. A method that only reads is
no action, unless what it read is used later. Definitions called "a slip" are
plausible mistakes in the definition after them. They are not part of any
specification; `PROJECT.json` pairs each with the property it breaks.

### ProvisionTracker

`records` is `self._records`; `heap` holds the fields of every `ProvisionRecord`
object, because a call keeps a reference to the object it looked up even after
`register()` or `clear()` took it out of `records`. `disk` is the table, `lock` the
backend's lock. `Register` is `register()` up to the assignment to `_records`;
`Transition`, `AssignState`, `AppendHistory` are `transition()` with the state and
the history as two steps; `SetNetboot`, `AssignNetboot` are the two netboot calls;
`EnsureCheck`, `EnsureRegister` are the test and the call in `ensure_tracked()`.
All of them end in `SaveBegin`, `SaveCommit` / `SaveFail` (`SQLAlchemyBackend.save`
reads the history before the other fields, so an object that changes in between
gives a mixed row) and, for `register` and `transition`, `FireCallbacks`.
`ClearMemory` and `ClearDisk` are the halves of `clear()`. `Restart` drops the
threads and loads the rows.

`dirty` is a history variable: the MACs whose row was last written from an object
that is no longer the record, wiped after a newer registration, or left behind by
an error. The exceptions it stands for are real behaviour of the code, and
the properties say exactly that nothing else goes wrong.

`error_message` and `completed_at` are Booleans (set or not). `transition()` keeps
an earlier error message, so the Boolean only grows. The code's caller passes a
message with FAILED; the model ties the two. Callbacks that call the tracker back
are the steps of another thread.

### RateLimiter

The arithmetic is scaled: tokens are counted in the ticks it takes to earn them, so
that a positive rate is 1 and the burst a natural number; `requests_per_minute = 0`,
which never refills, is rate 0. Both rates, and a burst of zero beside a usual one, are
initial states (`Rates`, `Capacities`). The numbers are exact: what floats round is left
out, and so is a negative rate, which would take tokens away. `Arrive` /
`CleanupBegin` read the clock and `Check` / `Cleanup` hold the lock; `Tick` lets at most
`MaxLag` pass between the two. `since` and `spent` observe one window of time per key,
begun at any moment by `Observe`. With a rate of zero, waiting earns nothing, but
`cleanup()` forgets a bucket all the same and its key gets the burst again: there a
window ends when the bucket is forgotten (`Forget`). `RetryAfter` is `retry_after()` with
all its branches, the answer 0 at a rate of zero included.

### ClusterManager

`file` is `<name>.json`, `cluster` every thread's own copy. A save is `SaveOpen`
(truncated) and `SaveWrite`; `handle` says whether another thread has written to
the same open file since (`"shared"`: the longer text of the other may stick out) or
unlinked it (`"gone"`). `StartProvisioning`, `NextHost`, `Callbacks`, `Finish` are the
stretches of `start_provisioning()` between its saves. `contested` and `abandoned`
record that a copy was saved over a newer file, and that a call was cut short: the
two ways in which the file stops being what one caller made of it.

### TTLCache

`Get`, `Recheck`, `Load`, `Put` are the four moments of `wrapped()`. A value is the
version of the profile file that was read; `changed` keeps when each version was
replaced. `load_profile()` may take `MaxLoad` ticks between reading and storing.

### ServedDirectory and Staging

Each system call is one action, and each may fail: `GiveUp` is the error path of
`os.symlink`, `copy2` and `os.replace`, `MakeTempFail` that of `mkstemp`. A directory
entry is a link or a file with its content's origin and whether it is whole.
`Collisions` says whether `mkstemp()` may pick a name another call has just freed.
The refinement mapping `Served` takes an entry to the firmware file a reader gets:
`Rename` is the abstract `Place`, `Unstage` is `Remove`, and nothing else shows.

### HostMatcher and FirmwareEngine

A criterion of a rule is the set of hosts whose attribute fits it: `Matches` and
`Tier` are `_match_tier()`, where the first criterion that both the rule and the
request have decides alone; `Sorted` is Python's stable sort, given by the place each
element takes, and `Candidates` is the filter of `match()` between its two sorts.
`BestAnswer` states the documented order without sorting. The set of a criterion stands for the
comparisons (lower case, prefix, glob, subnet) the code makes.

`FirmwareEngine` extends the matcher, takes the cached loader as an instance of
`TTLCache` (keys are profile names, and its `pc`, `cache`, ... are variables of the
composition) and the directory as an instance of `ServedDirectory`, which `Staging`
implements. `Stage` is `stage()` up to the rule, `LoadProfile` and `Loading` are
`load_profile_for_rule()`, `Resolve` is the plugin's part of `serve()`, `Place` and
`PlaceRaises` are the call of `staging.stage()`. A call keeps its rule, profile and
path across these steps while profile files are edited, created and removed
(`EditProfile`), the caches are cleared (`InvalidateCaches`) and entries are unstaged.
Time stands still here: expiry is the subject of `TTLCache`. `Valid` leaves out the test
for an empty name (`plugins/base.py:43`): the profiles of the model have names.

### RecordStore and JSONBackend

`RecordStore` is a map that changes at one MAC at a time, or is emptied, or, when
something fails, keeps its value or loses everything. `JSONBackend` has the lock,
`_load()`, the change and `_dump()` in two halves. The refinement mapping `Visible` is
the file's records, or, while the file is truncated, those the rewrite started
from: the abstract change happens at `Write`, and a failure or crash
between `Open` and `Write` is the abstract `Fail`.

### Migration

`Migration` extends `JSONBackend`: its threads go on while `migrate_json_to_sqlite()`
reads their file (`ReadText`) and saves the records it found one at a time
(`CopyRecord`), any of which may raise (`CopyFails`); an attempt that failed may be
repeated over the rows it left. `source` is what the backend held at the read,
in the sense of `Visible`, and `blind` says that the file was being rewritten
then. The file holds only what the backend writes, so the branch that skips
malformed records is never taken.

### Webhooks

A delivery is its place in `jobs`. `Submit` is one turn of the loop of `fire()`,
`DeliverHere` one of `fire_sync()` / `send_test()`; `Take`, `Post`, `Wake`, `Record`,
`Notify` are `_deliver()`. A post is accepted, fails, or is accepted with an answer
that comes too late, which the code cannot tell from a failure. `Shutdown` closes the
pool, `ShutdownReturns` is the return of `shutdown(wait=True)`.

### The separate parts: FileStore, Mirrors, CloudImages, TlsFiles, AuditLog, ConsoleProxy, IsoDetect

`FileStore` is one module for three classes that do the same thing: `Read` the file,
change the copy, `Open` (truncate) and `Write`. `FileOf` says which objects share a
file; the files in `Own` are those of `named_objects.py`, where adding reads nothing
and deletion is `Unlink`. `kept` is the history the property compares with: each
object as the last call on it left it, or `Torn` from the moment two calls are at
work on its file, or a write is cut short, until a call alone rewrites it.
Real lost updates fall under that exception: with two calls on one file the code
promises nothing.

In `Mirrors`, `Add` and `AddBind` are the test and the assignment of `add_mirror()`,
`Remove` and `RemoveTree` the two ends of `remove_mirror()`, `Sync` and `SyncEnd` /
`SyncFails` those of `sync_mirror()`, which keeps the mirror object it has looked up
(`bound`: whether that is still the one in the dict). Each goes through `_save()`:
`Snapshot`, `Open`, `Write` / `SaveFail`. `trust` and `mixed` tell a save that ran alone
from one that met another or failed, and `raced` the names that were removed while
another call was adding or syncing them.

In `CloudImages`, the length of a file stands for its contents. A finished copy is what
the source delivered (`DeliveredBy`): all of a local file, but of a URL (`Remote`)
perhaps a beginning, for `copyfileobj()` takes a connection that the server closes for
the end of the file, and no length is compared. `Part` is a copy that is not finished.
`Import`, `Open`, `Copy`, `Stat`, `SaveOpen`, `SaveWrite` are
`import_cloud_image()`, each of which may end in `ImportFails`; `Delete`, `RemoveEntry`,
`RemoveDirectory` are `delete_image()` and its `rmtree`. `excused` names the cases the
property leaves out, and how long: calls that met (for good), a file name that is
imported again, a deletion that stopped halfway (until the next import is through).

In `TlsFiles` a file is the number of the generation that wrote it, `Torn` or `Absent`.
`Reuse` and `Generate` are the test of `ensure_tls_certs()`; `OpenKey`, `WriteKey`,
`OpenCert`, `WriteCert` are the two `write_bytes()` of `generate_self_signed_cert()`,
which a caller may also run directly, to renew a pair. `trust` tells whether the
files on disk are the work of one generation; generations that overlap, or
stop beside a certificate, end it.

In `AuditLog`, `GetAuditLogger`, `Create` and `Use` are the test of `get_audit_logger()`,
its assignment and its return; `MakeEntry` and `AppendEntry` are the two halves of
`log()`, with the time taken in the first and the lock in the second; `Query` is
`query()`. Its filter, reversal and limit are `Answer`: the entries that fit (`Found`), as
many as the limit lets through (`Returned`), each at the `Place` that the number of those
behind it in the buffer gives it. An entry carries the entries whose `log()` had
returned when it was made, so that "older" means something between threads.
`InitAudit` replaces the global logger at any moment.

In `ConsoleProxy` a task runs until it awaits: `Connect`/`Connected`, `Close`/`CloseReturns`,
and `Send`, `Receive` with `Ends` (which is also a task being cancelled). `crossed` are
the connections that `connect()` replaced, or opened while `close()` was waiting.

`IsoDetect` mounts one of the media of `Media` and asks the eight detectors in the order
of the code, one per step. A source on a medium is absent or the set of what it tells.
What a system calls itself on its media (`Brand`, `LabelName`) goes through the tables
of the code (`FamilyVendor`, `DiscinfoVendor`, `LabelVendor`, `FirstWord`, `Lower`) to the
vendor a detector answers. A treeinfo with a stray `%` in a value ("percent") makes the
detector raise, which ends `detect_iso()` with `Raised`. A directory that cannot be
listed, which raises as well, is left out. `Misread` names the media whose own files
lead a detector to another system.

`SeparateParts` has one part in use per behaviour (`used`). The parts share
no state, so a step of one never enables, disables or changes a step of another, and
each invariant is about one part.

## 3. Runs

All bounds are in the `.cfg` files. Symmetry is used for model values that no
definition tells apart and only in runs without liveness properties.

| Run | Instance | Shows |
|---|---|---|
| `tracker` | 1 MAC, 2 threads, 3 objects, 2 target states, 3 history entries, 1 restart | `PersistedUnlessPending`, `NotifiedIsDurable`, `StateIsRecent` |
| `tracker_lifecycle` | 1 thread, all target states | the lifecycle of docs/CONTRACT.md is not enforced (finding) |
| `limiter` | 1 key, 2 threads, a token per 2 ticks or none at all, bursts of 2 and of 0, 14 ticks, lag 2 | `WindowBound`, `RetryAfterIsExact` |
| `cluster` | 2 threads, 2 hosts in 2 roles, 2 orders | `SummaryIsTruthful`, `ProvisioningIsRunning`, `RolesInOrder`, and `ProvisioningEnds` under fairness |
| `cluster_one_run` | the same | two runs of one cluster at once (finding) |
| `cache` | 3 keys, 2 entries, 2 threads, TTL 1, 3 ticks, 1 edit | `StalenessBound`, `ClearTakesEffect` |
| `staging` | 2 calls, 2 firmware files, 1 target, 3 temporary names | `ImplementsDirectory`, `NoLitter`, `NeverUnserved` |
| `staging_names` | the same, with collisions of names | a copy through another call's link (finding) |
| `engine` | 2 threads, 2 hosts with a rule each, 2 profiles, a cache of 1, 1 edit of a profile; the matcher on every list of up to 3 of 9 rules | `MatchIsBest`, `ServedIsAllowed`, `CurrentAfterInvalidate` |
| `json` | 2 MACs, 2 values, 2 threads, and a migration | `ImplementsRecordStore`, `MigratedIsWhole`, and `LockIsReleased` under fairness |
| `parts` | 2 threads; 2 objects in one file and 1 in its own, 2 values; 2 mirrors; 1 image, 2 file names, 2 sources, one of them a URL; 3 generations of certificates; 2 event types, 3 entries, buffers of 2, 2 loggers; 3 connections; every medium of `Media` (some 7000) | `ChangesAreKept`, `FileIsMemory`, `SyncedIsThere`, `ListedIsDelivered`, `PairMatches`, `AnswerIsRight`, `ConnectionIsOwned`, `DetectionIsRight` |
| `webhooks` | 1 caller, 2 pool threads, 2 webhooks, 3 deliveries, a report of 2 | `VerdictIsRight`, `ShutdownDrains`, and `BegunIsRecorded` under fairness |

Why the bounds are enough. The conflicts in this code are between two calls: two
threads reach every pair of steps, and a third party where it matters is the
restart, the clock, the editor of the files or the shutdown. One MAC suffices for
the tracker because no operation but `clear()` touches two, and `clear()` treats
all alike; three objects are the current one and the two that two threads may
still hold. Three history entries are a registration and a transition of each
thread, and the proofs cover every other size. Fourteen ticks let a bucket become
empty, be refilled, go stale and be forgotten, with `MaxAge` at its smallest
allowed value. One edit of a file between two versions is all that a
staleness bound compares; the cache of two entries with three keys is the smallest
that evicts. Three temporary names are one for each call and one left over by a
crash. Three deliveries overflow a report of two, with one webhook that retries and
one that does not. In `engine` one host has a
profile whose file changes version, the other one whose file appears and is of the
wrong family; with a cache of one entry each load evicts the other's. Two roles of
which an order names one, or one twice, reach every branch of `ordered_groups()`. In `parts` two objects of one file are the one a call
changes and the one it has to carry over; two mirrors share one `mirrors.json`; two
file names and two sources are an import over an older file and one beside it; three
generations are two that overlap and one after them; three entries overflow a buffer
of two; two loggers are the one in use and the one that replaces it; three connections
are the one that is open, one opened over it, and one opened during a close.

Deadlock is checked except in `cache` and `webhooks`. There the end is a bound of
the model (ticks and edits, deliveries) or a legitimate final state: a manager that
was shut down, its callers done.

Fairness. Only the liveness properties use it, and only for what runs
by itself: a thread inside a call goes on (`WF Step(t)` of `ClusterManager` and
`JSONBackend`, `WF Loop(c)` and `WF Deliver(t)` of `Webhooks`), because the operating
system schedules it, no lock is held across a wait (`JSONBackend`: the holder itself
is never blocked), a post ends at its timeout, and the callbacks an application
supplies are taken to return or raise. Nobody is required to call anything: starting,
firing, shutting down, failing and crashing are never fair. In `ClusterManager`
either outcome of a callback counts as progress; `SaveFail` does not.

## 4. Findings

* `docs/CONTRACT.md:69` says that `transition()` enforces the lifecycle; it assigns
  any state (`state.py:115`). Run `tracker_lifecycle`.
* `start_provisioning()` refuses a cluster that is being provisioned, but tests the
  state long before it saves the new one (`cluster.py:410`): two calls may both
  run. Run `cluster_one_run`.
* The comment at `staging.py:133` promises no races between check and use; the name
  freed for a link (`staging.py:142`) can be taken by another `mkstemp()`. The first
  call's `os.symlink` then fails; it removes the entry, and its fallback may get the
  same name once more; the second call's own `os.unlink` removes that and its
  `os.symlink` puts a link there, through which the first call's `copy2()`
  (`staging.py:167`) overwrites a firmware file. Unlikely, as names are random. Run
  `staging_names`; run `staging` excludes the case and says so with `Collisions`.

Behaviour that no document contradicts, but that the properties had to except: a
record re-registered during another thread's transition leaves the older object's
row (`dirty`); a crash in the middle of provisioning leaves a cluster that
`start_provisioning()` refuses for good (`abandoned`); a JSON file truncated by a
crash, or unreadable for a moment, makes the next save drop all other records
(`RecordStore!Fail`), and a migration that reads the file in that moment copies
nothing and returns 0 (`blind`); rows an earlier attempt of a migration left stay,
even if the record has since been deleted from the file; `clear()` of the cache does not reach loads under way
(`inflight`); calls that meet on a key or secret file can lose each other's change
or mingle their texts (`kept`), and a write cut short there makes every later call
raise; an import of a cloud image that reuses a file name overwrites the
file under the metadata of the old one (`excused`), and a download that the server
ends early is listed as an image, with the size it came to (`DeliveredBy`: nothing at
`cloud_image.py:178-182` compares a length); certificates of overlapping
generations, or cut short beside a certificate, are used for ever after, as
expired ones are, because only their presence is tested (`trust`); what was logged to an audit
logger that `init_audit()`, or a second thread in `get_audit_logger()`, replaced is not
found by a later query (`replaced`); `retry_after()` answers 0 at a rate of zero, where no token
ever comes (`rate_limit.py:143-144`), and for a burst of zero a time after which there
is none either (`RetryAfterIsExact`); a connection opened over an open one, or while
`close()` waits, can never be closed (`crossed`).

The detectors (`Misread`, and the exceptions in `DetectionIsRight`) take a tree of Red Hat
Enterprise Linux without a family for the vendor `red`, a Release file of Ubuntu
without label and origin for Debian, and a FreeBSD tree with a MANIFEST at its root for
OpenBSD; a Fedora label that ends in the number of a compose yields that number; and
where `install.amd`, `bsd.rd` or `base.txz` is there without a version, the answer is
`unknown`, although the label, which is not asked any more, may tell. A stray
`%` in a value of the treeinfo makes `detect_iso()`
raise, although other files tell the system: only the reading is guarded, `get()` is not
(`iso_detect.py:116-126`).
`mnemonics.py`, which no module models, keeps the dashes of a name in `register()`
and drops them in `resolve()`, so that such an alias is never found.

## 5. Proofs

`tlapm` checks eight modules. Every theorem is about `Spec` of its component, for all
values of the constants that satisfy the named `ASSUME`s, and every one of these is
evaluated by a run. Of the properties of the runs, the theorems state all but three
(see the end of this section), the liveness properties, and of these the safety part.

Where an argument needs induction, it is over sets of numbers: a set of numbers that is not
empty has a least element (`Least`), which the library derives from the order being
well founded; a set with 0 and all successors is all of them (`Induct`).

* **Tracker** (`TrackerAssumption`, and `ThreadsAssumption` for the last):
  `TrackerTypeCorrect`, `TrackerPersisted` (`PersistedUnlessPending`), `TrackerNotifiedDurable`
  (`NotifiedIsDurable`), `TrackerStateIsRecent` (`StateIsRecent`). No safety property is
  inductive. `IInv` adds `LockInv` (the thread at `"write"` holds the lock: the row cannot be
  overtaken), `SnapInv` (the history a save has read is still the object's, unless another
  call has still to save that object) and `HistoryInv` (a transition past its append finds
  its state in the object's history and in whatever history a save has read). For
  `PersistedUnlessPending`: when the last pending call of an object commits, nobody
  can have changed the object since that call read its history, for that somebody would be
  pending too; so the row it writes is the object. `RecentInv` says where the state of a
  record comes from: a thread that has assigned it still owes the history its entry, or
  the entry is there, with no more entries behind it than the other threads
  owe. Each thread owes one at a time, which bounds how stale the end of a history can be.
  `TrackerUsesAStore`: what the tracker does to its table are steps of `RecordStore`, the same
  abstract specification `JSONBackend` implements, here with nothing ever lost: the SQLAlchemy
  backend's failed save and a death of the process change no row. `TrackerRestartKeeps`: a
  restart brings back the rows, so that it loses at most what a call had still to save
  (a corollary of `PersistedUnlessPending`, about two states instead of one).
* **Rate limiter** (`LimiterAssumption`): `LimiterTypeCorrect`, `LimiterWindowBound`,
  `LimiterWaitIsExact` (`RetryAfterIsExact`). The strengthening relates what was granted in a
  window to what the bucket still holds: tokens plus what was spent is at most the
  allowance plus the time up to the bucket's `last_refill`, whatever order the readings
  are applied in; readings are at most `MaxLag` behind the clock, so that a bucket
  `cleanup()` forgets has been full. This is where `MaxAge >= Allowance + 2 * MaxLag` is
  needed: with a shorter `max_age_seconds` a client gets a second burst. The default of an
  hour satisfies it for every tier the package configures. A window at a rate of zero
  ends with its bucket: there the tokens left and those spent are at most the burst, and
  the bucket owes a token at most (`IdleInv`). The third needs of a state only its types:
  where tokens come, the wait is the exact time until the bucket holds one; where none
  come, a bucket that refuses a request holds less than one at every later time.
* **Staging** (`StagingAssumption`): `StagingTypeCorrect` and `StagingNeverUnserves`
  (`NeverUnserved`) without a condition; and for `Collisions = FALSE`, `StagingServesWhole`
  (`ServedIsWhole`, which no run lists: the refinement implies it), `StagingLeavesNothing`
  (`NoLitter`), `StagingOnlyReads` (`SourcesAreRead`) and `StagingImplements`
  (`ImplementsDirectory`). The condition is needed: with collisions the run `staging_names`
  breaks `SourcesAreRead`. `IInv` adds that no two calls have one temporary name
  (`NamesInv`) and what is under it at each step of its call (`EntryInv`): a file of that call
  until the copy ends, nothing between `os.unlink` and `os.symlink`, a link or a whole copy
  before the rename. A step changes one entry, which nobody else names (`OthersKept`),
  so the other calls keep theirs.
* **JSON backend and migration** (`BackendAssumption`, `MigrationAssumption`):
  `BackendTypeCorrect`, `BackendTornExplained` (`TornIsExplained`: a file cut short is
  explained by a failure on record or a rewrite under way; no run lists it),
  `BackendImplements`, the refinement of `RecordStore`, and `MigrationIsWhole`
  (`MigratedIsWhole`). `IInv` adds to the types that the holder of the lock has loaded
  what the file holds, or a failure is on record (`CallInv`); then each concrete step is an
  abstract step or a stutter. `BackendLockIsBrief` is the safety part of `LockIsReleased`: while
  the lock is held, every step there can be is its holder's and brings the release nearer, or
  is a crash, four steps at most. `MigrationOnlyReads` says that whatever the migration does, the
  backend's variables behave as `JSONBackend` alone, so what is proved of the backend holds
  beside a migration. `MigrationInv` adds what an attempt has done so far (`Underway`): what it
  has taken is in the table, what it has taken and what is left add up to what it found.
* **Parts without shared state** (`PartsAssumption`), one invariant each, which the other
  parts do not disturb because `used` never changes. `PartsTypeCorrect` is `TypeOK`.
  * `StoredChangesAreKept` (`ChangesAreKept`) from `FilInv`: two calls on one file have both been
    noted, so one that has not is alone on it, and the copy it is about to write holds
    the other objects as they are kept.
  * `MirrorsFileIsMemory` (`FileIsMemory`) and `SyncedMirrorsAreThere` (`SyncedIsThere`) from
    `MirInv`: a text to be saved is what is in memory unless another call has still to save;
    a mirror that is listed as synced, in memory, in such a text or in the file, has its
    files; one that is being removed is listed nowhere when its directory goes.
  * `ListedImagesAreDelivered` (`ListedIsDelivered`) from `ImgInv`: an import that has met no other
    call finds the file as its own last step left it, and writes its metadata after it.
  * `CertificatesMatch` (`PairMatches`) from `TlsInv`: a generation which has met no other is the
    only one at work and finds its own key on disk; files that one generation
    wrote alone are a pair.
  * `AuditAnswersAreRight` (`AnswerIsRight`) from `AudInv`: entries have distinct times and know
    only entries that had been recorded; no entry stands in a buffer before one that
    is older; a recorded entry is in its buffer until entries that are not older fill it.
    `Place` numbers the entries a query returns without gap or repetition, so the answer
    is what the buffer holds, the newest first.
  * `ConnectionsOwned` (`ConnectionIsOwned`) from `ConsoleInv`: while a `close()` waits, whatever is
    open is one of the exceptions, for the end of the wait may forget the writer.
  * `DetectedRight` (`DetectionIsRight`) from `IsoAsked`: the medium is one of `Media`; the
    detectors asked so far had nothing to say of it, and the first that has gives the answer
    (`IsoSilent`, `IsoFound`). What is left is about data: what each detector can say of a
    medium of each system (`IsoSources`, with the tables in `IsoNames`, `IsoTreeinfo` and
    `IsoByName`; `IsoTold...`), that the first detector raises and no other (`IsoRaised`),
    and what none of them can miss (`IsoSilence`, `IsoUnlabelled`, `IsoUnknown`).
* **Webhooks** (`WebhookAssumption`): `HooksTypeCorrect`, `VerdictsAreRight` (`VerdictIsRight`),
  `ShutdownLeavesNothing` (`ShutdownDrains`). `HookInv` places every delivery: once in the
  queue and nowhere else, in the hands of exactly one thread, or recorded (`Queued`,
  `Held`, `Somewhere`), and says what is known of it there: one that is still to be
  tried has attempts left and nothing accepted except late (`Underway`), one that
  is to be recorded has its verdict. After a shutdown the queue is empty and the pool idle.
  `DeliveriesGoOn` and `DeliveriesNeverStuck` are the safety part of `BegunIsRecorded`: `Owed` counts the
  steps a delivery still needs, two for an attempt; nobody adds to it, a step of the thread that
  has the delivery takes from it, and until it is none some thread can make a step.
  `ReportShowsTheLast`: the list of deliveries is always the newest of all that were
  recorded, in their order.
* **Cluster** (`ClusterAssumption`): `ClusterTypeCorrect`, `SummariesAreTruthful`
  (`SummaryIsTruthful`), `ProvisioningRuns` (`ProvisioningIsRunning`), `RolesGoInOrder`
  (`RolesInOrder`), and `GroupsHoldTheHosts` about `ordered_groups()`: any order visits every
  host, earlier roles first, and twice only a host whose role it names twice. A run that
  is at some place of that walk has ended every host before it, and has had a failure if it
  says so (`SafeInv`, per thread and so independent of the others: each saves a copy that is
  true of itself). `ProvisioningIsRunning` is about the file and needs `FileInv`: until a copy
  was saved over a newer file, one thread at most is writing, and a copy that says
  "provisioning" and may still be saved belongs to a run.
  `RunsComeToAnEnd` is with `ProvisioningRuns` the safety part of `ProvisioningEnds`: `Left` counts the
  places a run has still to visit, a finite set (`PlacesAreFinite`), six steps for each, and every
  step of the run takes from it, whatever others do to the file. `GuardSeesTheRun` says what
  remains true of the guard that run `cluster_one_run` shows to be no lock: as long as no
  outdated copy was saved (`SeenInv`: who writes is alone, and a run that has saved and is not
  outdated is shown by the file), a second run begins only before the first save of the one
  in progress has landed, or after somebody else saved or deleted the cluster.
* **Engine, matcher and cache** (`EngineAssumption`): `EngineTypeCorrect`, `MatcherIsRight`
  (`MatchIsBest`), `HostsGetWhatIsAllowed` (`ServedIsAllowed`), `InvalidationIsSeen`
  (`CurrentAfterInvalidate`). `AnswerIsBest` is about any list of rules: the place of an element in
  a stable sort is the number of those before it, so the first of the candidates is one
  no other beats. `CacheInv` says that what the cache and the loads hold is a
  version there has been, no older than the last `clear()` unless a load was under way. A call
  carries the rule of its host to the end (`Steps`), whence `ServedIsAllowed`; a call that began
  after an invalidation, with no edit since, sees a cache that is as good as the file (`Clean`).
  `EngineComposes`: the engine's behaviours are behaviours of `TTLCache` and of
  `ServedDirectory`, so it uses its parts only as they allow, and `StagingImplements` carries
  on below where it ends.
  `LoaderTypeCorrect`, `LoaderStalenessBound` and `LoaderClearTakesEffect` are the three properties
  of run `cache`, about an instance of `TTLCache` with any time to live, clock and slowness of
  loads. Their invariant `AgeInv` dates everything: an entry was stored at most a slow load
  after its version went, a load's version was the file's when it was read, and versions
  are gone exactly below the present one.

What the proofs changed in the models. `SummaryIsTruthful` once said more of a cluster
that is `partial` than the code does: the attempt to prove it failed, and TLC with three
hosts showed why (a cluster that is partial because one host failed, and
`mark_host_complete()` of that host, `cluster.py:527-537`, while another is not done).
The invariants of `Webhooks`, `AuditLog` and `ProvisionTracker` need assumptions the code
satisfies and earlier versions of the modules left unsaid: the pool has a worker
(`WebhookAssumption`), the threads are finitely many (`ThreadsAssumption`, `AuditAssumption`), and no
answer is Python's `None` or an exception (`IsoAssumption`).
Definitions with a counted place (`InOrder`, `Place`) stand where a recursive definition
could not be reasoned about; the runs check the same models.

Only model-checked:

* liveness under fairness, which the prover cannot express: `ProvisioningEnds`,
  `LockIsReleased`, `BegunIsRecorded`. The theorems named above leave to it only that threads
  are scheduled: a measure that every step of the work reduces and nothing raises;
* the violations of section 4.

## 6. Not modelled, and the plan

Left out for good: wording, logging, formats, HTTP signatures, TOML and template
parsing, external commands (ipmitool, Redfish, hypervisors, qemu-img), the TFTP daemon
and the database engine. `PROJECT.json` gives the reason per component.

The plan, in order:

1. The stores of `SeparateParts` against an abstract map, as `JSONBackend` is
   shown to implement `RecordStore`.
2. The plugin registry and the resolution of secret references; conversion and
   resizing of images; the names of `mnemonics.py`.
