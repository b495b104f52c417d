# SPM in TLA+

A verification development for SPM, the package manager in this repository (Rust, `src/src/`). It holds
TLA+ modules translated from the code, TLC configurations that check them on small instances, and proofs
that TLAPS checks for every instance. Paths below are relative to the repository's `src/`, so
`src/db/mod.rs` is `src/src/db/mod.rs` in `PROJECT.json`.

## The system

`spm` is a thin client: it sends one JSON request over `/run/spm.sock` and prints what comes back. `spmd`
runs as root, answers every connection in a task of its own and executes the operation on tokio's blocking
pool. All durable state is on the local machine:

| component | source | state it keeps | operations |
|---|---|---|---|
| database and its locks | `src/db/` | SQLite file (packages, files, transactions, user_installs), `metadata.db.lock`, one `Mutex<Connection>` per process | `get_connection`, `with_read_lock`, `with_write_lock`, row functions |
| transaction engine | `src/package/transaction.rs`, `store.rs`, `scripts.rs`, `fetch/scan.rs`, `install/` | content-addressed store `<origin>/<hash>`, symlinks from FHS paths into it, saved scripts; database rows | plan, install (smart and local), upgrade, remove, purge, rollback guard, gc of the store |
| shared user cache | `src/cache/`, `install/user.rs`, `db/users.rs` | `/var/spm/packages/<hash>` package directories, symlinks in home directories, `user_installs` rows | `install_for_user`, `remove_for_user` |
| daemon front end | `src/daemon/mod.rs`, `output.rs`, `cli/client.rs` | rate-limit windows and concurrency counts per uid, map of progress channels, sockets | accept, read, admit, dispatch, relay progress, answer, shut down |
| sandboxed packages | `src/sandbox/`, `package/sandbox/`, `install/sandbox.rs` | sandbox directories, desktop entries, rows with `package = ""` files | install, launch, remove |
| repositories and configuration | `src/config/`, `index/` | a file per repository, published metadata and archives, caches of it, keys, `spm.conf`, the soname index | create, publish, sign, gen-key, add, remove, update, set, index rebuild |
| resolver, solver, versions | `package/resolver/`, `package/solver.rs`, `types/version.rs` | none; reads the soname index | collect, solve or fall back, cycles (Tarjan), choice of a provider |
| fetch, verify, extract | `package/fetch/`, `package/extract/`, `sam.rs`, `verify.rs` | the archives directory, temporary directories | download with resumption and retries, verify, unpack, pack |
| command line | `src/cli/` | none; `group.rs` changes `/etc/group` | one request per command |
| group, self-update | `cli/group.rs`, `daemon/mod.rs` | `/etc/group`, `/usr/bin/spm`, `/usr/bin/spmd`, what is aside of each | write aside and rename |
| scripts, hooks, triggers | `package/scripts.rs`, `hooks.rs`, `triggers.rs` | saved scripts, trigger files, systemd units | run with a timeout, activate, remove |
| maintenance | `fsck.rs`, `sync.rs`, `package/cleanup.rs`, `package/query.rs` (undo, snapshots), `install/mod.rs` (autoremove) | database rows, backups, archives | fsck, sync, cleanup, undo, autoremove |
| transaction manager, shared library store, isolation, conflict mediation | `daemon/transaction.rs`, `src/store/`, `src/isolation/`, `install/conflict.rs` | | no caller in the program |
| kernel, bootstrap | `kernel.rs`, `bootstrap.rs` | kernel packages, a new system's tree | sequences of external commands |

How they interact: the daemon calls an operation of `package/install` on a pool thread; the operation plans under
the read lock, lets go of it, and executes under the write lock. Inside, the transaction engine changes the
store and the file system first and the database last, and undoes the former by a drop guard when the latter
fails. Removal works the other way round: files first, without a lock, then rows. Progress goes back to the
client through a process-wide map keyed by uid.

What is hard here: two requests interleaving between their read and their write section; a store directory
shared by several packages because their contents hash alike; a step that fails after others succeeded, and a
rollback that undoes more or less than that request did; a process that ends between a file-system step and
the row that records it; counts read outside the lock that is held when they are used; a response that never
comes; files that one request writes in place while another reads them; a download that resumes what is no part of
it; two requests that write the same file aside; forty commands whose fields must have the same names in two files.

### What makes each component correct

* locks: a write section runs alone; a poisoned connection is not used; no operation waits for itself or in a circle.
* transaction engine: an installed row is backed by a complete store directory and by links to it; a failed or
  interrupted operation changes nothing; what is answered as done is durable; concurrent operations do not undo each other.
* shared user cache: every recorded install has its package directory; the last removal frees it; a user has a package once.
* daemon: at most `MAX_CONCURRENT_PER_USER` requests of a user at a time, and no more than the rate limit admits;
  every request gets one response, its last line; a counter is released exactly once.
* command line and handlers: a handler finds what the command put into its request.
* group, self-update: the file that everybody reads is whole, old or new, as long as requests for it come one after another.
* repositories: what is cached was offered; what is listed can be fetched; what was published stays; signatures are
  of what is there; `set` loses nothing: the last three as long as administrators work one after another.
* resolver: every cycle is found and nothing else; the chosen provider is a best one.
* fetch: what is unpacked is one whole version of the archive; a spoiled file does not spoil fetches for ever.

## Modules

| module | models | composed of |
|---|---|---|
| `SpmLocks` | the file lock and the connection mutex of `src/db/mod.rs`, and the lock calls of every operation | |
| `SpmEngine` | `package/transaction.rs`, `store.rs`, `install/{mod,local,upgrade,remove}.rs` over the database tables | `SpmPackageDb` (refined) |
| `SpmPackageDb` | abstract: a package database that changes by whole transactions | |
| `SpmUserCache` | `install/user.rs`, `cache/mod.rs`, `db/users.rs` | |
| `SpmDaemon` | `daemon/mod.rs` up to the dispatch and from the result on, `output.rs`, `cli/client.rs` | |
| `SpmRequests` | `cli/args.rs`, `client.rs`, `group.rs`; the handlers' fields, and the handlers of the group and of self-update | |
| `SpmRepos` | `config/`, `index/` | |
| `SpmVersions` | `types/version.rs`: parsing and comparison as functions | |
| `SpmResolver` | `package/resolver/`, `package/solver.rs` | `SpmVersions` |
| `SpmFetch` | `package/fetch/`, `extract/`, `sam.rs`, `verify.rs`, the archives directory | |
| `MCSpm…` | the instances TLC checks | the module of that name |
| `SpmLocksProofs`, `SpmEngineProofs`, `SpmUserCacheProofs`, `SpmDaemonProofs`, `SpmRequestsProofs`, `SpmReposProofs`, `SpmResolverProofs`, `SpmFetchProofs` | theorems | the modules above |

The components are cut where the code cuts them. `SpmDaemon` knows an operation only as something that runs on a pool
thread, reports and returns; that it returns is what `SpmLocks` (locks) and `SpmEngine` (steps) check. Which fields a
handler reads is in `SpmRequests`, what it then does in the module of its operation. `SpmEngine` and `SpmUserCache` know
the locks only as "a read section is one step, taken while nobody writes" and "one writer", which is `WriteBodyAlone` of
`SpmLocks`; `SpmFetch` knows that transactions fetch under the write lock and users' installs do not. A fetch is one step
with an outcome in `SpmEngine`, and a published version is a constant of it in `SpmFetch` and a listing in `SpmRepos`.

### SpmLocks

`op[t]` is the request of thread `t`, `pc[t]` its position in the list of lock calls that the operation makes
(`LockProgram`), `phase[t]` where it is inside a call and `stack[t]` the calls it is in, innermost last. `mutex[p]` and
`poisoned[p]` are the `Mutex<Connection>` of process `p`. The flock has no variable of its own: a thread holds
it when it is on its stack, once per call, because each call opens a new file description. Actions follow
`with_read_lock` and `with_write_lock` statement by statement: `AcquireRead`, `AcquireWrite` or `GetConnection`,
then `LockConnection` (which fails when the mutex is poisoned), the body, `DropConnection`, `DropFlock`. `Fail` is
an error of the body, `Panic` a panic of it (the mutex is poisoned while the guards unwind), `Crash` the end of
a process. The upgrade of a shared flock, which the code never asks for, does not exist in the model.

### SpmEngine

State: `dirs` and `store` (the store directories and what is in each), `link` (the symlink at each path),
`scripts` (saved scripts), `rows` and `owned` (the tables `installed_packages` and `files`), `durable` (what a new
process would read) and `txn` (a transaction is open). A request has a position `pc[r]` and its arguments and
what it has read, `req[r]`; the locals of the one write section are `todo`, `removed`, `fetched`, `cur`, `made`,
`guards` and `infos`. `before` is a history variable.

* *install*: `PlanInstall` (read section) → `LockInstall` → `Fetch` per package of the plan, which also finds
  conflicts → per build `ReuseStore` or `CopyBegin`, `CopyEnd`, then `LinkOne` per file and `SaveScripts` →
  `Commit` → `CleanupRemoved` per removed package → `Finish`.
* *local* and *upgrade* enter at the copy with one build; an upgrade plans inside its write section.
* *remove*, *purge*: `ReadRemove` (read section) → `DeleteFile` per file without a lock → for a purge `DeleteHome` per
  directory with the package's name (`/etc/<name>`, `/var/lib/<name>`), which takes all links below it, whoever's they are → `Deleted` →
  `LockRemove` → `DeleteFileRows`, `DeleteRow` (two statements in autocommit) → `GcRemoved`.
* every step that can fail has a failing twin (`CopyFails`, `LinkFails`, `SaveFails`, `CommitFails`,
  `UpgradeCommitFails`, `DeleteFails`, `StatementFails`, `FetchFails`), which leads to `DropGuard` per armed
  `RollbackGuard` and `RolledBack`. `Crash` ends every request at any point, drops no guard and rolls an open
  transaction back.

`HomesOf` gives the directories with a package's name: what lies below each, and which paths `dirs_to_cleanup` takes for
files in it (`DirsToCleanup`; it compares strings). `DeleteFails` covers a directory that cannot be deleted, or not all of it.

Data: a build is a package, a set of files, a hash and what it obsoletes. Two builds may have one hash, which
is the case the store's sharing is about. File contents, versions as strings, archives and download are left
out; "newer" is a relation given as a constant.

`SpmPackageDb` says that one step replaces a set of packages and sets their files, or nothing happens.
`SpmEngine` implements it with `durable.rows` and `durable.owned` for its variables (`WholeTransactions`).

### SpmDaemon

A connection `c` has a client (`client[c]`), a task (`task[c]`: the position in `handle_connection` and
`handle_inner`), the thread that executes it now (`at[c]`), a relay thread with its channel (`relay[c]`, `chan[c]`),
and the lines written to its socket (`out[c]`). `windows` and `concurrent` are the two maps of `RateLimiter`;
`progress` is `PROGRESS_TX` and `current` is the thread-local `CURRENT_UID`. Threads matter because the task
resumes on any worker after an await while thread-locals stay behind. `since[c]` is history. A request's kind
selects what its handler does to this state: run on the pool (`install`), also set `CURRENT_UID` there
(`update`), run on the worker and possibly leave by `?` (`list`), or fail to parse (`invalid`).

### SpmUserCache

State: `dirs` and `content` (the shared package directories and the executables in each), `link[u][n]` (what
`~u/.local/bin/n` points into) and `rows` (the table `user_installs`: pairs of a user and a build, a build being what a
repository offers: a package, a format and a hash). A request has `pc[r]` and `req[r]`: its user, its build, the
names that it read from the directory and whether an error was noted. `damaged` is history: the hashes whose directory
has been deleted from and not copied again.

* *install*: `Fetch` (no lock) → `LockInstall` → `Copy` → `LinkOne` per executable → `Record`, all under the write lock;
  `CopyFails`, `LinkFails` and `RecordFails` are the errors that leave it.
* *remove*: `ReadInstall` (read section) → `Unlink` per name, without a lock → `Count` (read section) → `CollectBegin`,
  `CollectEnd` without a lock → `RemoveRow` (write section). `UnlinkFails` and `CollectFails` note an error, which makes
  `RemoveRow` end the request and keep the row.
* `Crash` ends every request at any point.

Left out: a fetch that fails, statements that fail before anything has changed, the copy's temporary directory (the
next copy deletes it), and a failure to delete the new directory of a package without executables, which the code
ignores.

### SpmRequests

`Commands` lists what `SpmCommand` accepts: the arguments a command must have and the options it may have (`Fits`).
`RequestOf` is `execute` with `client.rs`: the request a command becomes, with pairs of a field and the argument whose value
is in it. `HandlerOf` gives for each action the fields without which the handler in `daemon/mod.rs` fails and those that it
reads. `Lost` is the list of arguments that never get to a handler, and `CommandsHeard` says that it is complete: a new
option that is forgotten in either file, or a field that is renamed in one of them, breaks it.

`ByItself` are the commands that send nothing: `global-search`, which the client carries out alone.

The handlers of the group and of self-update are modelled besides, each request in a task of its own, beside any other. Both
write files aside and rename them: `todo[c]` is what is left of `GroupSteps` or `UpdateSteps`, and `Truncate`, `Fill` and `Rename` do the
first of it; `WriteFails` is the error of any of them. A file has one name aside, which all requests share (`tmp`), so that a request
may write to a file that another has renamed meanwhile: `place[c]` says where the one that it has open is by now. `Group` decides what is
to be written; `Offer`, `Download`, `Verify` are the stages of an update. `Stop` ends the daemon at any point, `Start` runs what is in
`/usr/local/bin` (`data/spmd.service:8`, `install.sh`), which no update replaces, so that the version stays `Installed`; a client whose daemon
ended stays `hung` until it is interrupted, because `read_line` at the end of the connection returns nothing for ever.
`crossed[c]` is history: while `c` replaced its files another request did so too (`Meet`).

### SpmRepos

All state is files: `file[<<kind, about>>]` is the content of a configuration, a list, a Release, a signature, a key, an archive, a
cache, the soname index or `spm.conf`, or `Absent`, or `Torn`. `fs::write` truncates and fills, so an operation queues
its writes (`queue[r]`) and `Truncate` and `Fill` make them one step at a time; `WriteFails` and `Crash` can come in between, and
a reader that comes in between finds a torn file. `repo`, `todo`, `left`, `tries`, `got` are the locals of `update_repos` and
`build_index`. `offered`, `published` and `crossed` are history: every list that a place has ever shown, the packages whose
publication has succeeded, and whether two administrators have been at work at once.

* *create*, *publish*, *sign*, *genkey*, *add*, *remove*, *set*: one action per stage. No operation takes a lock, so any two overlap:
  two that write one file mix what they write (`Fill`), and two *set* share the name under which they write, which the rename of the one takes
  from under the other (`Rename`).
* *update* (also the automatic one of the daemon) and *rebuild*: `NextRepo` → `Fetch` or `FetchFails` per
  mirror → `Fetched` → `Index` → per repository.

`LoadFails` is `load_repos` beside a removal that has taken a configuration between its listing and its reading. A Release names the lists that
are there when it is made, and for deb also the `Release.sig` that an earlier signing has left, which it replaces next.

A list is the set of packages it names and whether packages can be added to it: `create_rpm_repo` writes a single empty
element, into which `publish_to_rpm` inserts nothing.

### SpmVersions and SpmResolver

`SpmVersions` is `Version::parse` and the comparison, over sequences of bytes (`Bytes`: printable ASCII without blanks, so that `trim`
removes nothing), with recursive functions. An epoch is what `parse::<u32>` takes, digits after a plus or none, or 0. A turn of the
loop of `rpmvercmp` (`Turn`) looks at two positions and takes the result of the later turns as given, and `Turns` is the function of
positions that it makes. `KeyOf` says what the order is: a key is read off one string alone. `SpmResolver` runs
the phases of `resolve_dependencies` for one question (`index`, `strategy`, `preferred`): `Collect`, the solution (`Solve`) or the
fallback to the package and its direct requirements, and `tarjan_scc`, whose recursion is the stack `calls` so that every step
of it can be looked at. `CyclesAreMutual` compares the components with what leads where (`Below`, the smallest set that no
requirement leads out of, which is defined without a search);
`ChosenIsBest` compares the choice by pairwise comparison (`best_version`) with an order of keys (`Before`) that is defined without it.
PubGrub is a library: what it finds for the one version per name that it is offered is defined, how it searches is not.

### SpmFetch

One package is followed from the repositories to the unpacked files. A file is a sequence of parts `<<version, i>>`, so that a
part that is missing, double or of another version is visible. `archives` are the files in the archives directory,
`dl[q]` the locals of `retry_download_resumable`, `rest[q]` the sources still to be tried, `got[q]` what is in the temporary
directory: what was extracted, also by an extraction that failed halfway (`Leaves`).

* `Fetch` (install or upgrade, under the write lock), `FetchForUser` and `FetchLocal` (without) choose the repositories;
  `TryDeb`, `TryNative`, `TryRpm` start on one; `LeaveRepo` goes on to the next.
* a download is `AnswerWhole` (200), `AnswerRest` (206) or `AnswerUnsatisfiable` (416), then `Read` per part and
  `Downloaded`; `ConnectFails` and `ReadFails` lead to the next of three attempts, and `WriteFails`, a full disk, ends the download at once.
* `ExtractDeb`, `ExtractSam`, `ExtractFails`, `SignatureRefused` end it; `LiveList`, `LiveBody` and `Primary`, `RpmBody` are the
  fetches that keep nothing. A live fetch unpacks over what a failed extraction has left (`Onto`).
* `Pack`, `PackStub` are `create_sam`; `Collect` is the removal of archives; `Publish`, `Update` change what the repositories
  offer and what is cached of it; `End` is the end of spmd.

`fresh`, `alone`, `calm` and `sound` are history: whether a download began without a file, has met nobody else at it, has met no
fault, and whether the code itself vouches for what was extracted.

## Runs

| run | instance | shows |
|---|---|---|
| `locks` | 3 threads, 2 processes, one request each of `upgrade`, `remove`, `info`, `user_remove` | `WriteBodyAlone`, `NoBodyAfterPoison`, `NoWaitCycle`, `EveryRequestReturns` |
| `locks_nested` | 2 threads; `dist_upgrade`, `autoremove` | **violated**: `RemovingReturns` |
| `engine_concurrent` | 2 requests at a time, 3 in all, every kind, files that cannot be deleted | `TablesAgree`, `RowsBacked`, `RequestsEnd` |
| `engine_sequential` | 5 requests one after another, no faults | `NoOrphanStore`, `InstalledLinked` (but for libraries and what is below a directory with another package's name) |
| `engine_failures` | 4 requests one after another, installs and removals, one fault of any kind but `copy` | `FailureInvisible` |
| `engine_refines` | 2 at a time, 3 in all, installs and upgrades, one of the faults `copy`, `scripts`, `commit`, `crash` | `DurableTablesAgree`, `WholeTransactions`, `SuccessDurable` |
| `usercache` | 5 requests of 2 users one after another, two faults of any of the seven kinds | `OneInstall`, `CacheBacked`, `LastRemovalFrees` |
| `daemon` | 3 connections, 2 workers, 1 pool thread, limits 2 and 1 per window, exits | `CountsInFlight`, `RateBound`, `AnswerIsLast`, `TasksEnd`, `ClientsReturnUnlessListing` |
| `requests` | 2 clients, every command with each option; 2 users, 3 versions; their requests overlap | `CommandsHeard`, `BinariesWhole`, `GroupKeepsMembers` |
| `repos` | 2 requests at a time, any two, 4 first states, one fault of any of the four kinds | `CacheWasServed`, `ListedHasArchive`, `PublishedStaysListed`, `ReleaseCurrent`, `ConfKeepsSettings`, `RequestsEnd` |
| `resolver` | every graph of four packages below the root; every pair of short versions | `CyclesAreMutual`, `ChosenIsBest` |
| `fetch` | 2 requests at a time, 3 in all, three repositories, one fault, one publication | `ServedWhole`, `SpoiledOnce` |

`TypeOK` is checked with the modules whose run lists it in `PROJECT.json` and proved for five of them. `CHECK_DEADLOCK FALSE`
stands in the configurations whose number of requests is bounded, or whose algorithm ends (`resolver`): when they are used
up and all have ended nothing more happens. `requests` has no such bound and is checked for deadlock.

### Bounds, and why they are enough

* **locks**: three threads are the smallest number with two in one process (the mutex) and one in another (only
  the flock between them). `Requests` holds the four shapes of lock call: one write section, read then write,
  guards only, and two reads then a write; every other operation's list is one of these or a prefix of one.
  One request per thread suffices for circles and exclusion, since a thread between requests holds nothing;
  poison outlives the request and is seen by the other thread. The proofs remove the bounds.
* **engine**: package `a` has two builds, of which the newer drops a file; `b` depends on `a` and holds a
  conffile and another file; `c` has the content of the old `a`, hence its store directory, and obsoletes `b`. So sharing,
  replacement, dependency, obsoletion, conflict over a path and the loss of a file all occur, and a package keeps the one
  of its two paths that a remove spares. `/etc/b` holds the conffile of `b`; a directory with the name of `a` holds a library of `a` and a file of
  `b`, so that a purge takes files of its own and of another package. `MaxStarts` 3 with two
  at a time lets a request run in between the read and the write of another whose package a third one has
  installed. Faults are one per behaviour. `engine_failures` has `Replaces = {FALSE}`, no upgrades and no failing copies, because
  each of them breaks the promise that it checks (see the divergences below).
* **user cache**: package `a` is offered in two formats with different contents, `d` has the content of one of them, `n`
  has no executables; so two rows of one user and rows of two users share a directory, a second format meets the row
  of the first, and an install ends with nothing to link. Five requests let two installs fail or be removed and come
  back; two faults let a removal fail after another request did. Requests come one after another because two at a
  time take the directory from another user (see the divergences below), which is what `CacheBacked` and `LastRemovalFrees` say does not happen;
  `OneInstall` holds for any number and is proved so.
* **daemon**: a limit of two slots and of one request per window makes three requests of one user meet both
  limits; ages of windows stop at the first one past the window, so time is not bounded. Two requests are enough to
  find what the other left in `PROGRESS_TX`, in a worker's and in the pool thread's `CURRENT_UID`. One progress
  message suffices to be late.
* **requests**: a client types every command as root, with at most one option and with the pairs of options whose code
  meets (`mode` and `trace`, `sandbox` with `convert_only` and `smart`), and as a user where the handler
  depends on it; `RequestsAreHeard` shows the same of every set of options. The other client changes the group and updates spm. One of the two
  users is in `/etc/passwd`; three versions let an update follow an update. Neither commands nor faults are bounded,
  and the requests of the two clients overlap. To keep the states few, `Bound` lets the group or the binaries differ from the first state but not
  both, which no handler reads together, and sends a command of another handler only beside a client that is idle.
* **repos**: `local` is published at a place that `client` reads beside a mirror; the first states are a repository
  that is yet to be created, a native one, a deb one with two mirrors and an rpm one with a key and two mirrors, so that
  every layout is published to, read, and read while it is written. Two requests overlap, two administrators
  among them; a third would find files as one of the first states or one fault left them.
* **resolver**: four packages make components of every size up to four, nested and beside each other, and a component that
  is reached twice. Versions have up to three bytes out of a digit, another one, a letter, a dot and a tilde, with
  an epoch or a release, so that every pair of kinds of segments is compared at every place.
* **fetch**: the archives have two and three parts, so that one that is cut off can be longer or shorter than another
  version. With three requests a file is spoiled by one, found by the next and looked at again by the last. One
  publication makes a resumed download meet another version.

### Fairness

* locks, engine: weak fairness of every thread's own step. The pool runs every thread; a waiter of a file lock
  that stays free gets it, and the runs contain no endless stream of other requests that could starve it
  (`flock` promises no order, and the bounds on requests are what keeps that out of the question).
* daemon: weak fairness of the steps of each connection: the runtime polls a task that is ready, the scheduler
  runs relay threads, an operation returns, and a client that has connected writes and reads. A connection has
  finitely many steps, so one condition for all of them says as much as one for each. Nothing is assumed of new
  connections, of progress reports, of time or of the end of the process.
* repos: weak fairness of the steps of each request. `RequestsEnd` shows that an update gives up on what it cannot reach
  and goes on, because attempts and mirrors are counted; nothing is assumed of the network.

### What the violation shows

`locks_nested`: `dist_upgrade_packages` (`package/install/upgrade.rs:418`) and `autoremove_packages`
(`package/install/mod.rs:449`) call `remove_package` inside a lock it takes again, and wait for themselves. `PROJECT.json` quotes
the sentences they disagree with.

### Known divergences

What the code does otherwise than its documents say, or than a reader would think, found while modelling. Where a
property would be broken by it, the run or its statement has the restriction that is named.

* *Engine.* `docs/principles.md:23` says "Every install, remove, or upgrade is an atomic transaction. If any step fails … the entire
  operation rolls back." `RollbackGuard::drop` (`transaction.rs:893`) removes a store directory that it found there and
  that an installed row refers to, when an install with `--replace` fails (`RowsBacked` is checked without failed
  commits). The two deletes of a removal (`db/packages.rs:121`, `install/remove.rs:121`) are not one transaction, so a crash in between
  leaves a row without files (`engine_refines` has no removals). A copy that fails leaves the part that it
  has made (`store.rs:98`), because the guard is armed only after it: the next install of the same content takes the part for the whole (`:92`),
  and the link of a conffile that a removal has kept resolves to it although nothing is installed (`FailureInvisible` is checked
  without failing copies). Links of an installed version are overwritten before
  the commit (`store.rs:150`); the cleanup of a replaced version deletes the scripts of the new one (`transaction.rs:763`), and a
  file that the new version lacks leaves a dangling link (`:744`). The packages of a plan come in hash-map order, and
  conflicts are looked for only against what is installed (`solver.rs:95`), not between the packages of a plan; an upgrade
  looks for none. A removal drops the rows a package has when it gets the
  write lock and the files it had before (`install/remove.rs:121`). A purge deletes `/etc/<name>` and `/var/lib/<name>` with all that is
  in them (`remove.rs:188-197`) as soon as the path of a file of the package begins with that string, which that of `/etc/<name>.conf` does; so links that
  other installed packages have there go, too; therefore `InstalledLinked` excepts what is below
  a directory with another package's name (`AtRisk`). An upgrade whose commit fails leaves its transaction open on the shared
  connection (`transaction.rs:326`): every later install fails at its BEGIN, and removals are answered as done but undone by a restart.
  `SuccessDurable` is therefore about installs and upgrades; of removals after such a failure no property speaks. Of the other failures named here
  the guard that removes a directory of another package, the part that a copy leaves and the two deletes of a removal are left to the
  restrictions of the runs: no run shows them.
* *Upgrade.* `check_upgrade` compares the format of the row, which is always Sam for what spm installed, so packages from
  deb and rpm repositories are looked for in native repositories only and count as obsolete without one; the upgrade
  itself then takes what any repository offers.
* *User cache.* `remove_for_user` counts under the read lock and deletes without one (`install/user.rs:152`), so an install of
  another user in between loses its files, and so does a user whose install is still there when two removals of one install count one after the
  other. No property covers these two: they are why `CacheBacked` and `LastRemovalFrees` are about one request at a time. The rest of a partly deleted directory is taken for a complete package
  (`cache/mod.rs:211`); a link that cannot be deleted is forgotten (`install/user.rs:157`), and one that another package has taken
  over is deleted (`:140`).
* *Daemon.* `docs/principles.md:15` says that spmd "executes the operation, and returns a structured response"; a failing `list` leaves
  by `?` (`daemon/mod.rs:258`) without one, and at the end of the connection the client loops (`cli/client.rs:67`); therefore
  `ClientsReturnUnlessListing`. The documents speak of at most ten requests per second; the window is fixed, so that `RateBound` is
  twice the maximum. `PROGRESS_TX` has one entry per user (`output.rs:11`), `CURRENT_UID` stays set on the thread
  (`daemon/mod.rs:687`), and a response larger than the socket's buffer may be cut off (`:433`). A panic of a connection's task on the worker, outside
  `spawn_blocking`, skips the release of its slot (`:189-190`), which is then gone until the daemon restarts; panics are not in `SpmDaemon`.
* *Requests.* The arguments of `Lost` are accepted and have no effect. `ps` never sends `deleted-libs`, although it
  is described as "List processes that are using deleted files" (`cli/args.rs:201`). The results of `fsck`, `sync`, `ps`, the group's changes and most of `analyze` are dropped, and the answer is success.
  `docs/principles.md:15` says that the client sends a request and spmd executes the operation; `global-search` downloads and installs in the
  client (`cli/args.rs:1052-1065`, `:1100`) and sends none. Two changes of the group at once share the file aside and both write what they have
  read (`cli/group.rs:55-65`), so one of them is lost, and the file may be torn. Two updates at once share `/tmp/spm-update` in the same way and may tear or
  mix the binaries, although `daemon/mod.rs:1440` says "Write to temp files then atomically rename". `BinariesWhole` and `GroupKeepsMembers`
  therefore except requests that another one for the same file has been beside (`crossed`). `daemon/mod.rs:1458` says "Restart spmd to apply" and
  an update replaces `/usr/bin/spmd` (`cli/args.rs:318`), but the unit runs `/usr/local/bin/spmd` (`data/spmd.service:8`), so a restart
  runs the version that was there; the unit's `ProtectSystem` and `PrivateTmp` are not in the model.
* *Repositories.* Nothing keeps two administrators apart: two publications at once lose one (`config/repos.rs:313`), two settings at once
  lose one or leave `spm.conf` torn, because they share `conf.tmp` (`config/mod.rs:39-87`), and two that write one file mix it.
  `PublishedStaysListed`, `ReleaseCurrent` and `ConfKeepsSettings` hold until that has happened (`crossed`); the other properties do not need it. The Release of a
  second signing of a deb repository lists the `Release.sig` of the first (`repos.rs:1327`), which is overwritten next, so that this
  entry is of a file that is gone; `ReleaseCurrent` is about the lists. `add` drops the signing key of a repository of that name. A deb repository that
  was added or created has no codename and is never fetched; one whose Packages file was torn by a crash is extended
  from where it ends (`config/repos.rs:381`). `create_rpm_repo` writes single empty elements (`:218`) that take no packages. No client can
  fetch a `file://` url. A removed repository stays in the soname index, and its cache may come back. The index never has
  entries of deb repositories.
* *Resolver.* PubGrub is started at version 0-0 of the package, so the solution is nearly always the fallback: the package and its
  direct requirements, where the comment at `solver.rs:302` speaks of the closure. `>>` and `<<` include the version itself; `1.~a`
  equals `1.a`, and letters come after digits, unlike in RPM; the derived equality of versions disagrees with their order. The
  requirements of what provides a capability are not followed.
* *Fetch.* `retry_download_resumable` looks at the size of the file once: after a read error of a resumed download it asks for the same rest
  again and appends it. A resumed download joins two versions if the file was replaced. `create_sam` reads a directory like a
  file, so every pack leaves a short `.sam` where native downloads resume, and the next one of them fails. `README.md:53` and
  `docs/architecture.md:366` promise that checksums are verified: the SHA256 of a deb is never compared, and an rpm list that does not match is
  used with a warning. Only the manifest is signed, an unsigned one is accepted, and that of a local file is not
  looked at. A live fetch after an archive that could not be extracted unpacks into the same directory
  (`fetch/mod.rs:184` after `:350`), where files that only the failed archive had stay among those of the package. `ServedWhole` is therefore
  about downloads that began without a file, and about live fetches into an empty directory.

## Proofs

All of them are for every value of the constants, with the assumptions that the component's module states about
them and, where the table says so, one more on what may arrive or fail.

| theorem | states | assuming |
|---|---|---|
| `SpmLocksProofs!Typing`, `WriteExclusion`, `PoisonIsFinal` | `TypeOK`, `WriteBodyAlone`, `NoBodyAfterPoison` | |
| `SpmLocksProofs!DeadlockFreedom` | `NoWaitCycle` | `FlatRequests`: no operation makes a lock call inside another |
| `SpmEngineProofs!Typing` | `TypeOK` | |
| `SpmEngineProofs!Agreement` | `TablesAgree` | `HarmlessForTables`: `CommitsRollBack` (no single upgrades, or no commit fails) and, where there are removals, no failed statement and no crash |
| `SpmEngineProofs!DoneIsDurable` | `SuccessDurable` | |
| `SpmEngineProofs!Implements`, `RestartSafe` | `WholeTransactions`, `DurableTablesAgree` | `WholeKinds`: no removals |
| `SpmEngineProofs!Backed` | `RowsBacked` | `HarmlessForStore`: faults are failed deletions and failed statements |
| `SpmEngineProofs!Collected` | `NoOrphanStore` | `HarmlessForStore`, `OneAtATime`: one request at a time |
| `SpmEngineProofs!Linked` | `InstalledLinked` | `OneAtATime`; no faults, no local archives; `PlansApart`, `UpgradesSpareOthers`: the packages of a plan share no path, and what an upgrade adds is no path of another package |
| `SpmEngineProofs!FailedInstalls` | `FailureInvisible` | `NewInstalls`: installs without `--replace` and removals, no copy fails; `ObsoletesApart`: what a plan obsoletes shares no path with it; `HarmlessForTables`; no removals, or `OneAtATime` |
| `SpmUserCacheProofs!Typing`, `InstalledOnce` | `TypeOK`, `OneInstall` | |
| `SpmUserCacheProofs!Kept`, `LastFrees` | `CacheBacked`, `LastRemovalFrees` | `OneAtATime`: one request at a time |
| `SpmDaemonProofs!Typing`, `SlotsCounted`, `RateBounded`, `AnswerEnds` | `TypeOK`, `CountsInFlight`, `RateBound`, `AnswerIsLast` | |
| `SpmRequestsProofs!RequestsKeepBinaries`, `RequestsKeepMembers`, `RequestsAreHeard` | `BinariesWhole`, `GroupKeepsMembers`, `CommandsHeard` | |
| `SpmReposProofs!Types`, `Archives`, `SettingsKept`, `Served`, `Released`, `Kept` | `TypeOK`, `ListedHasArchive`, `ConfKeepsSettings`, `CacheWasServed`, `ReleaseCurrent`, `PublishedStaysListed` | |
| `SpmResolverProofs!CyclesFound`, `BestChosen` | `CyclesAreMutual`, `ChosenIsBest` | |
| `SpmResolverProofs!VersionsOrdered`, `VersionsTotal` | versions are in the order of their keys, which is total and transitive | |
| `SpmFetchProofs!FetchTypes`, `FetchServesWhole`, `FetchSpoiledOnce` | the types, `ServedWhole`, `SpoiledOnce` | |

The assumptions are not conveniences. `locks_nested` shows what happens without `FlatRequests`. Without `HarmlessForStore`, one
failed commit of a replacing install violates `RowsBacked`; without `WholeKinds`, one crash in a removal violates
`DurableTablesAgree`, and a statement that fails between its two deletes violates `TablesAgree`; without `OneAtATime`, a removal of a user's install beside another user's install violates
`CacheBacked`, and an upgrade beside a removal of the same package leaves its new directory, `NoOrphanStore`; without `CommitsRollBack`, an upgrade that
fails between the statements of its commit leaves them in the open transaction half done, against `TablesAgree`. `Linked` has the most: a local archive is
compared with nothing (`transaction.rs:202`), a failed replacement takes the links of what is installed, and
the two assumptions about builds are what `solver.rs:95` and the upgrade do not look at. They do not exclude that an
upgrade drops, keeps or adds files. `FailedInstalls` leaves out what the divergences above say of replacements and partial
copies. What a package obsoletes is not compared with it (`transaction.rs:435`), hence `ObsoletesApart`; a removal that stops between
its two statements leaves a row without files on record, whose paths the next install may then take; and a removal that
deletes files while an install is under way changes paths that the install had found there. In each case TLC finds the counterexample when the configuration is widened.

* **Locks.** Exclusion of the closures is not inductive: a thread leaves one lock before the other, and may wait for
  a mutex with its flock held. `LockInv` says that flocks on the stacks exclude each other (`FlockExclusive`), where
  the mutex is in each phase of a thread (`MutexOwned`) and that a poisoned mutex is free (`PoisonReleased`).
  Deadlock freedom needs `FlatInv` besides: a mutex belongs to a thread of its process, and the position in the
  program tells which call a thread is inside. A thread that waits at the flock then holds nothing, so that a
  chain of waiting threads has at most two links: one at the flock, one at the mutex, one that runs (`NoCycle`).
* **Engine.** `TypeOK` is not inductive: `Commit` and the deployment index `fetched`. `TypeInv` adds that only the
  writer is inside the write section and that requests have the parameters of their kind (`Owner`), and that `cur`
  stays inside `fetched` where it is used (`Position`). For `RowsBacked`, `Backing` adds that no rollback is under way,
  that the directories of the builds deployed so far exist, and that every directory but the one being copied is
  complete, which is not one of an installed package. Content addressing enters by `HashAssumption`: two builds with
  one hash have the same files, so a directory complete for one is complete for the other (`CompleteByOne`). The
  steps that can hurt are the collections (`BackingCollect`), which remove a directory only when no row, counted
  under the lock and after the commit, refers to it. `Pairing` says of the tables that they agree but for the
  package whose removal is between its two statements. `Closed` says that no transaction is open between two steps; `Commit`
  is one step, and which of its errors rolls back depends on who asked, so that it needs the kinds of requests too. `DoneIsDurable` has no
  assumption and so must do with a transaction that is open: `Promising` says that otherwise the process sees what is durable, that each install has its
  package among what it fetched, and that between its commit and its answer no transaction is open and the package is on record.
* **Engine, one at a time.** For `NoOrphanStore`, `Counted` says who answers for a directory while a request is under way:
  a row, a build that is about to be recorded, the packages whose cleanup is left (`infos`), or the removal that has deleted
  its row. A build that takes the place of an installed one must then be known to have the old one among those to be cleaned
  up (`Replacing`), from the plan on. For `InstalledLinked`, `Linking` says that no two installed packages share a path
  (`Apart`), which is what the check for conflicts is for, that every package is reached but the one at work (`Touches`), and how far the
  links of the plan are (`Advanced`). The steps that hurt are the links
  of a new build, which replace whatever is at the path, and the directories of a purge, which are all at risk for everybody else
  (`BelowAtRisk`).
* **Engine, failed installs.** `FailureInvisible` compares two moments, so `Undo` relates the state at every step in
  between to what the history variable `before` holds: a path shows what it showed then or, if no installed package has
  it, nothing or a directory that a failure is going to remove (`Restorable`, `Touched`). That needs what is new to have
  no path that is taken (`Sparing`), which is what the check for conflicts is for and is true only as long as the two tables
  agree (`Agreeing`), a directory to hold no more than its build (`Within`), and guards and links to be those
  of the request under the lock (`Tidy`). At the end of a rollback there are no guards, so nothing is left to remove (`UndoneAtEnd`).
* **Refinement.** `Commit` is the one step that maps to a transaction (`CommitTransacts`); every other one stutters.
  `Recorded` says that the process sees what is durable unless a failed upgrade has left a transaction open; `Once` that
  no package is fetched twice, so that the rows and the files inserted for a package are those of one build.
  `RestartSafe` follows from the invariant of the abstract specification (`TransactionsPair`) through the refinement.
* **User cache.** `OneInstall` needs `StillAbsent`: what the check found under the write lock is so until the row is
  written; removals, which may come in between their own steps, only take rows away. For the others, `SeqInv` says which
  directories are complete (`Solid`), that a row has executables and a directory or a damaged one, and two rows of one
  hash certainly a directory (`Referred`), and for a removal that its row is still there and that what it has
  counted still holds (`Leaving`). `CountedAlone` ties the count in the code to the set of rows: at most one user
  is left exactly when the remover's row is the only one.
* **Daemon.** `SlotsCounted` follows the set of tasks in flight through each action (`SlotSteps`): the count and the
  cardinality change together. `AnswerEnds` needs `OverWhenAnswered`: the task of a connection that has been answered
  has nothing more to write, and its relay thread has ended or was never started. `RateBounded` splits the requests of an interval into those of
  the present window and those of the former one (`WindowCounts`): the first are at most what the window counts, the
  second at most the limit, and when the last window is over nobody has passed since it was.

* **Requests.** `BinariesWhole` says nothing about what is aside. `JobsInv` says of each request where it is in its list of writes (`Kind`) and, of one that
  nobody has been beside, what is aside by then (`UpdateJob`, `GroupJob`): at the first rename both binaries are there whole, of
  the release that was verified, which is newer than the running version (`Later`). `WantFits` says that what a request of the group
  will write differs from what is there by its user, which holds until its own rename because a request that could change it in between
  would have been beside it. That is `Crossing`: two requests that replace the same file are both crossed. Of a request that does not move itself,
  `StepOf` and `JobStays` carry this over; only a rename, and a write to what another has renamed, change a file that is read (`Changes`). `RequestsAreHeard`
  needs that what was sent stays what `RequestOf` made of a typed command until it is served (`Sent`, `SentKeeps`; `OnlyTyped`: no other step sends). The rest is about requests alone: `SayPairs` and
  `SayInPackagePairs` say which argument is in which field, `PlainRight`, `AlsoRight` and `InPackageRight` when a handler with
  given fields hears all of it but what is known to be lost, and a lemma for each command compares its fields with its handler's.
* **Resolver.** Tarjan's algorithm, step by step. `SearchInv` says that on the stack, as among the activations, the latest place is
  first (`Timed`); that every requirement of a discovered place leads to a discovered one or is still ahead of its activation
  (`Explored`); that on the stack an earlier place leads to every later one and every place to an activation that is not later
  (`Connected`); that a lowest time is that of a place on the stack which is reached (`Lowest`), and is as low as any that
  was seen from the activation or below it (`LowEnough`). When an activation ends with its own time the lowest, nothing leads from
  the top of the stack to the rest of it (`AboveIsMutual`), so that the top is one component and leaves. `Departed` keeps the places that are gone
  closed: it is why a finished component must not lower the time of another. That a plan has names of the index, each once
  (`PlanInv`), needs that a solution has a provider for each capability, which is in `SolvedProvided`: a set that
  no requirement leads out of contains what the root leads to.
* **Versions.** `rpmvercmp` moves through two strings together, and `VersionsOrdered` says that its result is that of two keys which
  are each made of one string. That a function defined by recursion is what its equation says is proved once
  (`RecursionDefines`): there is a function that is right below every size, by the least size without one; it serves `Values`, `Keys`
  and `Turns`. What stands at a position is of one of four kinds (`Kinds`), each with its first element of a key (`FirstOfKey`) and
  its outcome of a turn (`TurnKinds`), and of two positions with a wrong result there would be two with the least that
  is left of the strings (`TurnsOrder`). Segments are compared by length and digit, keys by number: `Aligned`, `Longer` and `LeadingZeros` say that
  this is the same without leading zeros, for which the last zero of a segment has to stay. Parts of a key follow each other
  (`OrdersChain`), and no part is the beginning of another one of its kind. The law of `Ord` (`VersionsTotal`) and `BestChosen` follow: among
  finitely many places there is a greatest in every total order (`Greatest`), so that `max_by_key` finds one. The attempt
  corrected the model in one place: where the significant digits of a segment like `0.` begin had two answers, of which
  the code gives one (`Significant`).
* **Fetch.** `FetchInv` says of a download that began with nothing and has met nobody (`fresh`, `alone`) that it asks from size zero, so
  that it is answered whole, and that the file is then exactly the parts read so far (`Undisturbed`): an attempt that fails truncates
  it before the next one writes. A step of another request at the same file ends `alone`. What the code
  vouches for after extraction (`Vouched`) is then the whole file, for an rpm the listed version, and for a live fetch into an empty directory the
  whole archive. For `SpoiledOnce`, `SpoilInv`
  says where a download that met neither fault nor publication is in its file (`Course`), that of two at one file one has yet to write (`Apart`), and
  that a file that has failed one is too long to be resumed or is being replaced from its beginning (`Recovering`). The first
  attempt at this proof failed for a reason: a download that resumes and one that replaces, at the same file at once, spoil it
  again. `failures` therefore counts the failures that follow each other without another writer in between.
* **Repositories.** `Types`, `Archives` and `Served` hold whoever works at once; the other invariants are stated as `crossed \/ …`, because they
  are about operations that read and write in several steps. What is in the files says nothing about what is queued to be written to them, so every invariant has a part for
  the queues. `Backed`: a package that is listed, or queued for a list, has its archive, because `publish_package` copies it first.
  `ConfWhole`: `spm.conf` is only ever renamed over, and what is beside it is whole by then. `Sourced`: what an update holds
  in memory or has queued for a cache was offered by a place that its configuration's name has had (`Known`), and an rpm update
  adds up whole lists. `Listed`: what was published is in each list that is written or queued, and what is being published
  in those that are done. `Signing`: the Release and signature that are queued, or written, are of the lists as they are and perhaps of an earlier
  signature (`SignedWith`), and nobody else changes the lists until the signing has ended. `OneAdmin` says that operations of an administrator do not
  overlap until they have crossed, and `HalfTorn` who tears a file; removals, updates and rebuilds run beside them and touch other files.

Not proved: liveness (`EveryRequestReturns`, `RequestsEnd`, `TasksEnd`, `ClientsReturnUnlessListing`), which is out of
the prover's reach.

## What is not modelled

* in the engine: the loop of a full upgrade past failures, removal of empty directories, errors of the store
  collection, triggers, hooks, RPATH editing, backups of conffiles, the directories of sandboxed packages, a failure to delete
  the saved scripts in a purge, and what a failed upgrade has inserted before its error. The log of transactions and the snapshots are written by the engine and decide nothing in it.
* in the daemon: thread and descriptor exhaustion, the size of a response, a failure to read the peer's
  credentials, socket activation, panics on a worker outside `spawn_blocking`.
* in the command line: what `global_search` (`cli/args.rs:842`) does, which prints what repositories on the network offer and downloads and
  installs one of them in the client.
* in the group: the reads of `/etc/passwd` and `/etc/group` and the write of `gshadow` are one step, which may fail.
* in the repositories: the bytes of metadata beyond the names in it, the tools that make keys, the unsigned Release that
  `create_deb_repo` writes (`config/repos.rs:166-176`) and nobody reads; two removals of one file at once.
* in the resolver: phases and a cache that change nothing, and how PubGrub searches.
* in the fetch: archive formats (a file is whole or not; one that is not may be extracted as far as it goes or not at all;
  a whole one is never refused), servers that do not say how long a body is, more than one package at a time.
* in maintenance: what `fsck`, `sync` and `undo` change in rows and directories; their lock calls are in `SpmLocks`.
* components with status `not_modelled` in `PROJECT.json`, with their reasons. `daemon/transaction.rs`, `install/conflict.rs`, `store/` and
  `isolation/` have no caller in the program.

## Plan

Done, in this order: `SpmLocks`, `SpmEngine` with `SpmPackageDb`, `SpmDaemon`, `SpmUserCache`, `SpmRepos`, `SpmRequests`, `SpmVersions` with
`SpmResolver`, `SpmFetch`; the proofs, of every safety property.

Left: `SpmMaintenance` (`fsck.rs`, `sync.rs`, undo over the state of `SpmEngine`: what they repair, and that they do not remove what
is in use); sandboxed packages with it.
