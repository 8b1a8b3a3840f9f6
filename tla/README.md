# Wikifier: models, checks and proofs

Wikifier keeps two things about a source tree: a **dependency map** (who imports whom) and a
**health matrix** (which file has a wiki that was checked against its code).  One std-only Rust
binary does it, as a CLI, as an MCP server and as a background loop, and all of its state is in
files of the project that several processes, and people, touch at once.  This directory holds
TLA+ models of that program, the TLC runs that check them, and TLAPS proofs.

Paths below are relative to the crate's `src/`.

| Module | Models | Checked by | Proved in |
|---|---|---|---|
| `PidLock` | `project_lock.rs`, the lock of `cache_commit.rs:28-104` | `pidlock`, `pidlock_race` | `PidLockProofs` |
| `LockContract` | what callers rely on, the abstract specification of `PidLock` | `pidlock` (property `Contract`) | `PidLockProofs` (`ImplementsContract`) |
| `MapCache` | `cache_commit.rs`, `cache.rs`, `maps_out.rs`, `update_maps_run` in `api.rs` | `cache`, `cache_power`, `cache_dependents`, `cache_maps` | `MapCacheProofs`, `MapCacheRowProofs`, `MapCachePowerProofs` |
| `CacheService` | what lookups can rely on, the abstract specification of `MapCache` | `cache` (property `Service`) | `MapCacheProofs` (`ImplementsService`) |
| `HealthLoop` | the documentation loop of `api.rs`, `artifacts.rs`, `pending_line.rs` | `health`, `health_checked` | `HealthLoopProofs` |
| `Daemon` | `daemon` commands and loop (`api.rs:3169-3425`), what `daemon_svc.rs` installs | `daemon`, `daemon_service` | `DaemonProofs` |
| `McpServer` | the stdio server of `mcp.rs`, the journal behind it | `mcp` | `McpServerProofs` |
| `ToolGroups` | `mcp_groups.rs`: which tools are on, and why not | `algorithms`, `mcp` | `AnswersProofs` |
| `Cycles` | `api.rs:1739-1929`, `cycle_report.rs`: cycles and their report | `algorithms` | |
| `GitPlan` | `api.rs:2012-2341`: what `record-changes` makes of git's output and the reasons given | `algorithms` | `AnswersProofs` |
| `Scope` | `scope.rs`: which files are looked at | `algorithms` | `AnswersProofs` |
| `Reexports` | `parse.rs`: edges through re-exports | `algorithms` | |
| `RustPaths` | `parse.rs`: the files of Rust paths and modules | `algorithms` | |
| `Answers` | the properties of `ToolGroups`, `GitPlan` and `Scope`, and what their inputs are | `algorithms` | `AnswersProofs` |
| `Algorithms` | those of `Cycles`, `Reexports` and `RustPaths`, beside `Answers` | `algorithms` | |

`MC<Module>.tla` holds the instances for TLC, `MC<Module>*.cfg` the runs.  `tlc -config X.cfg
MC<Module>` repeats one, `tlapm M.tla` the proofs of a module `M` of the last column; none takes
longer than a few minutes.  `PROJECT.json` maps every
definition to the lines it translates, and lists the runs, the hazards and the findings.

## The system

### Components

**Project lock and cache lock** (`project_lock.rs`, `cache_commit.rs:28-104`, `proc.rs`).
State: the file `.wikifier_staging/.lock` (and `wk_cache/wk.lock`) holding a pid, and a
thread-local depth.  Operations: acquire (create-new, stamp, steal, wait 50 ms, give up after
30 s), nest, drop.  Hard: every step is a separate file-system call of a process that can stop
or die there.  Correct when at most one thread is inside, a live holder's file stays where it is,
a dead holder's goes away, and acquire returns.

**Dependency-map cache** (`cache_commit.rs`, `cache.rs`).  State: `index.tsv`, a record per
source (`by_src`, payload, notes), a record per target (`by_dst`), `sizes.tsv`,
`commit.pending`; in memory a `Session`.  Operations: open (rebuild if a commit was interrupted,
then check every record), upsert, remove, commit, `remove_file`, lookups and validate, which take no
lock.  Hard: a commit is many
writes, and only some are synced; what open trusts without reading must be right, or at most as
wrong as a length can hide.  Correct when
the records agree with the index or the next open knows that they do not.

**update_maps** (`api.rs:260-576`).  State: none of its own.  It collects the files in scope,
stats or hashes each, parses those whose bytes changed (at most `--max-files`), upserts them,
removes vanished paths, commits, seeds health rows and draws the map artifacts (`maps_out.rs`).  Hard: the files
change under it; a budget splits one run into many; what another run did not finish.  Correct
when a finished run leaves every row right, and library.md and the folder cards show the cache.

**Documentation health loop** (`api.rs`, `artifacts.rs`, `pending_line.rs`).  State:
`file_health.json` and its rendering `file_health.md` (read back when the first has no rows), the
journal, `pending_updates.md`.  Operations: `check_changes`, `record_change`, `record_deletion`,
`record_changes`, `mark_green`, `heal_stubs`, `seed_source_hashes`, `prune_health`, seeding by
`update_maps`; read-only: `verify_wikis`, `suggest_next`, `session_bootstrap`, `why_file`,
readiness.  Hard: each operation writes three files in a fixed order and can die between them;
editors take no lock.  Correct when Green means what `skills/run.md` says, drift is seen, and what
waits for work is explained in the journal and queued.

**Daemon, monitor, service files** (`api.rs:3145-3425`, `daemon_svc.rs`).  State: the pid file,
heartbeat and log.  Operations: start, stop, restart, status, run, install.  Hard: the parent
writes the child's pid after it spawned it, no lock covers start, and pids are reused.  Correct
when one loop runs after a start and none after a stop.

**MCP server** (`mcp.rs`, `mcp_groups.rs`, `mcp_compact.rs`).  State: the tool groups, re-read
before each message, and calls that went past their deadline and still run.  Hard: such a call and
its retry interleave.  Correct when every request has one reply, in order, and a retry of
`record_change` is not journaled twice.

**record-changes from git** (`api.rs:2012-2341`).  No state; one call turns `git status` or `git
diff` and a list of reasons into a list of changes and deletions for the health loop.  Correct when
it ends with a deletion exactly for what git no longer sees, and nothing is recorded without a
reason.

**Import parser and resolver** (`parse.rs`).  Per run: the scans of the files, then edges.  Hard: a
name can come through several files; a Rust path means different directories from different files.
Correct when an edge goes to the file that has the name.

**Scope detection** (`scope.rs`), **cycles** (`api.rs:1739-1929`, `cycle_report.rs`): functions of
the tree and of the map.  Correct when a missing root never widens the walk, and when cycles are
exactly the sets of files that reach each other.

**Symbols** (`symbols.rs`), **low-confidence review** (`low_conf.rs`), **dashboard server**, **CLI
and text output**, **legacy import** (`legacy_cache.rs`), **JSON, hashing, time**: conversions and
I/O around the components above.

### Interactions

- Every command that writes takes the project lock first (`lock_or_fail`), and the cache lock
  inside it: `HealthLoop` and `MapCache` have one job at a time because of `PidLock`.  When a lock
  is lost (run `pidlock_race`), that premise goes too.
- `update_maps` commits the cache and then seeds health rows; `record_deletion` writes a health row
  and then removes the file from the cache.  `check_changes` reads the hashes of the index for rows
  that have none.  `HealthLoop` therefore has the index as a variable, changed in one step, and
  `MapCache` says what that one step consists of.
- The daemon calls `check_changes` and `update_maps` in turn; it is what the fairness of `HealthLoop`
  and `MapCache` stands for, and ends with its pid file.
- The MCP server runs each call in a thread of its own.  A call that changes something enters the
  project lock and writes the journal; `McpServer` has both, so that a retry meets the call it
  repeats.
- `update_maps` and `init` ask scope detection; the parser gets the files that scope lists.
- Editors, git and agents change sources and wikis at any moment; nothing locks them out.

## How the models correspond to the code

Common to all: an action is one durable write, or the reads done at one moment, with all of their
guards; between two actions anything else can happen, a death included.  A content stands for its
own hash.  Mutants, the plausible bugs each property must catch, stand before the definition they
change, under a comment that begins with "Mutant".

### PidLock

One action per file-system call: `CreateNew`, `AlreadyExists`, `Stamp`, `StampFails`, and in
`try_steal` `ReadText`, `Judge`, `Reread`, `Unlink`; then `Wait`, and `Unnest`/`Release` for drop.
`lock` is the file at the path with its creator (the inode), text and age; a thread that still has
to write its pid writes into its own file, which may not be at the path any more.  `depth` is the
thread-local `DEPTH`.  `raced` is bookkeeping: a stale verdict was reached about a file without a
pid, or while another thread was stealing.  `MaxDepth = 1` is the cache's `LockGuard`, which has
the same protocol.

Left out: the time stamp beside the pid, which only matters between two texts of one process; pid
reuse; read errors other than a missing file.

### MapCache

`BeginUpdate`/`BeginDelete` start a job; `RebuildStart` to `RebuildMark` are `rebuild_locked`;
`Load` is `load_rows` with `check_entries`; `Scan` hashes and `Parse` parses, removes and stages
(two reads of the same files, at two moments, as in the code); `CommitBegin` to `CommitMark` are
`Session::commit`, one action per record; `KeepMaps` or `DrawLibrary`, `DrawRoot` and `DrawFolders`
draw the maps, or not, after the commit of an `update_maps`.  `Writeback` and `PowerLoss` are the file system's: a
record that was not synced survives, reverts to what last reached the disk, or is there without
its bytes, as long as it was or shorter (`Torn`); `index.tsv`, `sizes.tsv` and `commit.pending` are
synced and survive.  `SizeOf` gives a content the length of its record, and different contents may
have one.  `restaged` is bookkeeping: a job that did not parse an importer took its lines from a
record that is not what its row says.

`by_src` stands for all three forward records.  Import resolution is a constant, `ImportsOf`, cut
to the files of the run; named re-exports are not followed.  `Dependencies`, `Dependents` and
`Consistent` are the lookups and `validate`: functions of the disk, to be asked in any state.

`CacheService` knows no records, sessions or jobs: only what `dependencies` and `dependents` answer,
what the index says, and whether a commit is under way.  `Reader` reads that off the state
(`AllDependencies`, `AllDependents`, `TargetsIn(index)`, `Phase`, `Due`): a commit is what has put
`commit.pending` there and lives; `commit.pending` without one is a mixture under repair.

### HealthLoop

A job is a sequence of actions: `Change`, `ChangeRow`, `WriteMd`, `Queue` for `record_change`;
`Deletion`, `DeletionRow`, `WriteMd`, `Unmap`, `Drop` for `record_deletion`; `Record` plans either
for each file of `record_changes`, and with `--green` goes on to `Verify`, `Green`, `WriteMd`,
`Drop`, which are `mark_green`.  `CheckChanges` reads the rows, then looks at one file after the
other (`CheckMissing`, `CheckSame`, `CheckDrift` and `CheckQueue`) and writes the rows at the end
(`CheckWrite`).  `HealStubs`, `SeedSourceHashes`, `PruneHealth` with `PrunePending`, `UpdateMaps`
with `Seed`, and `PruneQueue` are the housekeeping.  `SuggestedDeletions`, `SuggestedEdits`,
`Readiness`, `StaleWikis` and `FailedWikis` are what the reading commands answer.

`settled` is bookkeeping: a `check_changes` looked at every file and nothing moved since.
`unbacked` collects the files whose row got a hash otherwise than by a `mark_green` nobody
interrupted.

### Daemon

`Call` begins a command; `Probe` and `Reread` are `running_pid`, which looks at the files twice;
`Refuse`, `Spawn` and `Write` are `daemon_start`; `ReadPid`, `Signal` and `Unlink` are `daemon_stop`,
once for each of the two files.  A restart is a stop that goes on as a start.  `proc` says of each
pid what runs there: `wait` (the second in which `daemon run` waits for a file), `check`, `maps`,
`head` (the condition of the loop), an older version's daemon, or something else.  `compromised` is
bookkeeping: two commands that change something overlapped, or somebody touched the files by hand.

### McpServer

One thread is the loop: `Stat` to `Notify` are `refresh` (stamp, text, selection, `list_changed`),
`Read`, then `Ignore`, `List`, `Refuse` or `Call`.  `Call` starts a thread and waits; `Answer` and
`Deadline` are the two ends of the wait.  A thread goes on after its deadline: `Look` or, for a
recording call, `Enter`/`GiveUp` (the project lock), `Compare` (the repeat test), `WriteLine`,
`Leave`.  `clock` moves in steps of 120 s, the window of the repeat test.  The client sends, retries,
edits AGENTS.md and closes at any moment.

### The algorithms

Each is an operator that follows the code's own order of evaluation (Tarjan's stack, the longest key
first, the walk over directories); `Answers` and `Algorithms` state what the result must be in other
terms (reachability, sets, fixpoints) and ask it of every input.  A behaviour is one input.
`Answers` has the questions that no recursive operator takes part in, so that they can be proved, and
its `AnswersAssumption` says what an input is.  Names are
abstract: a path is a sequence of names in `Scope` and `RustPaths`, a key is the set of paths it
covers in `GitPlan`, a line of AGENTS.md is a fence or a list of names in `ToolGroups`.

## What the runs show

| Run | Instance | Shows |
|---|---|---|
| `pidlock` | two threads of one process and one of another, an acquire each, one nested guard, one death, one failed write, slow stamps allowed, fair | `HolderOwnsFile`: a live holder's own file is at the path until a race. `LeakOnlyByDeathOrFault`: nothing leaks a file, not even a race. `Contract`: callers see `LockContract`. `AcquireReturns`, `DeadLockCleared`: nobody waits for ever |
| `pidlock_race` | a thread in each of two processes, two acquires each, no death, no fault, no slow stamp | **violated**: `MutualExclusion` |
| `cache` | three files; one loses an import, one vanishes; runs with a budget of one file or none; one deletion, one death | `ConsistentUnlessPending`, `CurrentWhenSettled`, and `Converges` under fairness. `Service`: those who look things up without a lock see `CacheService` |
| `cache_power` | three files, one imports the second and then the third, so that records of one length differ; whole runs; one deletion, one power loss, after which a record may be older, empty or zeros of the length it had | `TrustIsEarned`: what open takes unread has the length the index calls for. `HealedWhenSettled`: a whole run leaves no record of another length. `ValidatedLookups`: where validate is content, lookups answer what the index says |
| `cache_dependents` | two files, the imported one created later, whole runs, no failure | **violated**: `DependentsComplete` |
| `cache_maps` | two files, whole runs, one deletion, no failure | **violated**: `MapsFollowCache` |
| `health` | two files, one without symbol extractor and map row; the other changes, vanishes and returns, its wiki is rewritten; two jobs, checks repeated fairly, one death | `AdviceIsComplete`: what suggest_next, readiness and stale_wikis say. `GreenIsBacked`, `StatusIsExplained`, `QueueCoversYellow`, `DriftIsFlagged` |
| `health_checked` | one file, one job, no death | **violated**: `GreenWasChecked` |
| `daemon` | two clients, three commands in any overlap, an older daemon or none, two pids, one mishap, fair | `OneDaemon`, `StartedStays`, `StopEmpties`, `LoopsEnd` |
| `daemon_service` | a `daemon run` without a start, nothing else happens | **violated**: `RunsUntilRemoved` |
| `mcp` | two requests out of four kinds, two edits of AGENTS.md, a switch in the environment or none, two periods of 120 s, fair | `ToldOfChange`, `FreshSelection`, `AnswersAreTrue`, `RecordedOnce`, `AllAnswered` |
| `algorithms` | one state for each of 64,000 inputs | see below |

What `algorithms` asks, and of which inputs:

- `CyclesAreExact` of every map of four files: the components reported, the `in_cycle` marks and the
  break hints.
- `AdviceOpensTool` of every pair of variables and block made of nine lists: following the refusals
  of a tool, at most five times, opens it.  `FirstBlockIsRead` of every AGENTS.md of up to four lines
  out of nine, with fences in fences.
- `PlanFitsTree` of every state of two paths in commit, index and work tree, either of them ignored,
  with a rename in the index or in the work tree, or a conflict; with and without `--since`.  `ReasonsAreAccounted` of every list of up to three keys out of six.
- `MissingNeverWidens` and `InitRootsWork` of small trees with sources at several depths, a build
  directory, child projects, and every subset of five entries of `map_paths.txt`.
- `DefinersDefine` of projects of four files in which two barrels pass on or rename what others
  export.  `SameItemSameFile` of packages with lib, main, tests, binaries, workspace members and
  modules in either layout, libraries that are not mapped, and libraries with a root file of their
  own, named in Cargo.toml.

The state space is the set of inputs (`Next` leaves the input alone), so every property is a
statement about each of them.

### Findings

The five violations are disagreements between the code and what it says of itself; `PROJECT.json`
quotes both sides.

1. `pidlock_race`.  Two live processes can hold the lock at once, with nothing slow and nobody
   dead: `try_steal` takes a file without a pid for stale when the file is gone by the time it is
   stat'ed, and the file of the next holder, not yet stamped, passes the second read.
2. `cache_dependents`.  An import of a file that does not exist yet is not resolved when the file
   is created, restored or brought back into scope; not even `update-maps --full` does it.
3. `cache_maps`.  After a `record_deletion` the next `update-maps` commits nothing and keeps a
   `library.md` and folder cards that still show the deleted file.
4. `health_checked`.  An edit while `mark_green` runs is recorded as Green and `verified`.
5. `daemon_service`.  The service that `install-service` writes runs `daemon run` without a pid
   file: it checks and maps once and ends, again and again.

### Differences without a run

Met while modelling, at the places named, and not worth a run of their own:

- *Cache.*  A power loss in the commit that first adds a file can leave a record without its path,
  which no rebuild gets past (`cache_commit.rs:888`; every later job fails with CacheError).  A
  rebuild after a power loss can pair a new hash with old targets (`:926`), and no later run parses
  that file.  A `by_dst` record of a target nobody imports, brought back by a power loss, is not
  repaired, though validate reports it.  While a rebuild has cleared `by_dst`, dependents answer
  nothing.  The low-confidence count of an importer stays when its target is deleted (`api.rs:493`).
  `incremental_status.json` is about the last run only: one over another directory makes
  `map_complete` of `session_bootstrap` speak of that directory.
- *Cache, trust by length.*  `check_entries` takes a record of the recorded length without reading it
  (`cache_commit.rs:522-527`).  After a power loss that can be an older record of as many bytes
  (`import b` became `import c`), or zeros.  Such a record is trusted, no run repairs it, and
  lookups answer from it until its file changes, where `cache.rs:142-145` says that "a file whose size
  or content does not check out" is a miss and `cache_commit.rs:498-500` that a "malformed file" is
  one.  `TrustIsEarned` and `HealedWhenSettled` say what is left of the promise: the length.  Only
  `validate`, which reads the records, sees the difference (`ValidatedLookups`).
- *Cache, restaged records.*  A power loss tears the `by_src` record of s.  The next job deletes a
  target of s with `record_deletion`, or is an `update_maps` whose cap leaves s out, so that s is
  not parsed: `strip_dst` (`cache_commit.rs:288-303`) stages the lines that are left in the torn
  record, and commit writes them and records their length.  From then on open passes the record by
  its length, though its row in the index has other targets.  `TrustIsEarned` and
  `HealedWhenSettled` end where that happens (`restaged`).
- *Rows, met in the proofs.*  A row keeps the hash of the scan and the targets of the parse, two
  reads.  When a file is edited between the two, or the job dies in the commit, and then gets the first content back,
  the row has that content's hash with the other's targets, and no later run parses the file.
- *Health.*  With more watched files than `WIKIFIER_CHECK_CHANGES_MAX`, those after the first N
  names are looked at in no pass (`api.rs:1180`).  A restored file keeps its Red row, and
  `suggest_next` goes on proposing `record_deletion`, where `skills/run.md:95` says "restore".
- *Daemon.*  A `daemon.pid` left by an older version ends the second that `daemon run` waits at
  once, and a start then finds its loop gone.
- *record-changes.*  A file that is taken out of the index (`git rm --cached`) and ignored
  is recorded as deleted, though it is there: git prints its D and leaves out its "??", since
  `--exclude-standard` (`api.rs:2187`) and plain `status` (`:2204`) skip what is ignored.  The conflict
  codes DU and UD, and RD, get the wrong kind of change; a copy, which git only reports if it is
  configured to, marks the old path deleted; a file name with "=" cannot be given a reason on the
  command line.  Not modelled: names that git quotes, which are all that are not ASCII, and renames of files whose
  content changed a little, which git finds by similarity.
- *Scope.*  A file at the root of the project, named in `map_paths.txt`, widens the map to the whole
  tree: its parent is "" and never "." (`scope.rs:180`).  A line "." is dropped by `read_path_list`.
  A file called `src` at the root does so where `init` finds no sources: it writes `src/` (`:325-345`), and the
  entry stands for the parent of that file (`:150-178`).  `InitRootsWork` leaves it out.
- *Parser.*  A circle of `export *` ends at whatever file is reached after eight hops.  A run that
  parses only the importer has no scan of the barrel and loses the edges through it (`parse.rs:179`).
  In a package with `main.rs` and `lib.rs`, `self::` and `super::` paths of main.rs about the crate
  root resolve to lib.rs; `super::Type::method` stays unresolved where `crate::a::Type::method`
  resolves; the submodules of `tests/x.rs` are looked for in `tests/x/`, and `tests/x/main.rs` counts
  as a part of the library.  With `[lib] path = "src/core.rs"` rustc looks for the modules of the
  library beside that file; `rust_submodule_dir` (`parse.rs:1798`) takes it for a module of its own, so that
  `crate::x` ends at `src/core.rs` while `super::x` from a sibling ends at `src/x.rs`.  `SameItemSameFile`
  leaves such libraries out and has them as neighbours.  A library whose root is not mapped gets the
  root of the project for `crate::` (`:554-578`).
- *MCP.*  Negative time differences count as recent in the repeat test (`artifacts.rs:360`).

And between text and code: `skills/run.md:93` counts "importer of a
changed barrel" as Yellow, for which there is no code; `skills/run.md:113` says that
`record_changes` with `green=True` "retires deleted files whose wiki is gone", which it does not;
`skills/run.md:97` says that `check_changes` watches "parseable sources under listed directories"
of `monitored_paths.txt`, of which it takes only the files.

### Bounds

- *Threads and processes*: three threads, two of them of one process, give every pairing of thief,
  holder and creator within a process and across processes; the proofs lift the bound.
- *Files*: two files are the least with an import and its reverse; the third in `cache` makes a
  target with two importers and a budget that leaves more than one file over.
- *Histories*: each file goes through a fixed list of contents, at any moment.  The lists have a
  changed import, with a record of another length (`cache`) or of the same (`cache_power`), and a
  vanished file.
- *Jobs* (`MaxOps`, `MaxDeletes`, `MaxJobs`): two acquires of one thread, as in `pidlock_race`, are
  enough for a lock file that is a second one of the same creator; elsewhere the proofs cover more.  `update_maps` and `check_changes` are not bounded.
  Two other jobs on two files give every order of two of record, mark, delete, seed, heal and prune
  around the checks.
- *Commands* (`MaxCalls`, two clients, two pids): three commands are the least in which a stop and
  a start overlap with a third; a pid is reused as soon as there is one more process than pids.
- *Requests* (`MaxRequests`, `MaxEdits`, `MaxClock`): a call and its retry, with an edit of AGENTS.md
  there and one back, inside and outside of 120 s.
- *Failures* (`MaxCrashes`, `MaxFaults`, `MaxLosses`, `MaxMishaps`): one of each in a run, at every
  step.  A second death inside the recovery of the first is left to the proofs, which bound none of them.
- *Inputs* of the algorithms: listed with their properties above.

`CHECK_DEADLOCK FALSE` is in the `PidLock`, `Daemon` and `McpServer` runs, where threads, clients and
the server stop when their operations are used up.

### Fairness

- `PidLock`: weak fairness of a live thread's steps and of its drops (guards are dropped at the
  end of a scope), of its deadline and of the file's age (clocks advance).  Nothing makes a
  process start, die or fail.
- `MapCache`: weak fairness of the job's own steps, and of starting `update_maps`, which the
  daemon does every `WIKIFIER_DAEMON_MAPS_INTERVAL` seconds and `skills/run.md` asks for while
  files remain dirty.
- `Daemon`: weak fairness of each step of a command and of each loop (processes that are alive run).
  Commands, kills and interventions are never forced.
- `McpServer`: weak fairness of the loop, which is a process that is alive and whose wait ends with
  the deadline at the latest (`recv_timeout`).  Nothing is assumed of the threads: one may work, or
  wait for the lock, for ever, and `AllAnswered` rests on the deadline.  Nothing makes the client
  send.
- `HealthLoop`: weak fairness of the job's own steps, and of `check_changes`, which the daemon and
  `monitor` repeat.  Edits, deaths and other jobs are never forced.

## What is proved

Every theorem is about the specification without fairness (`Spec`, and `AnswersSpec` for the
algorithms), for all values of the constants that the named
assumption of the module allows (`PidLockAssumption`, `MapCacheAssumption`, ...): any files,
threads, processes, pids, requests and contents, any histories, and any number of jobs, deaths,
losses and retries.  Except where a hypothesis is named, there is none.  Each module but the last proves
`TypeCorrect` (`Spec => []TypeOK`) and then an inductive invariant with one step per action; the
comment at the head of each names the idea.

### PidLockProofs

- `HolderOwns`: `Spec => []HolderOwnsFile`.
- `LeakFree`: `Spec => []LeakOnlyByDeathOrFault`.
- `ExclusiveUnlessRaced`: mutual exclusion until `raced`.
- `ImplementsContract`: `Spec => Contract`, the refinement of `LockContract`.

The inductive invariant is
`IInv == TypeOK /\ TextNamesCreator /\ LeakOnlyByDeathOrFault /\ Sound`, where `Sound` says that
until `raced`:

- `OwnerOwns`: a live thread between create-new and drop owns the file at the path, stamped if it
  is past the write.  `HolderOwnsFile` alone is not inductive, since it says nothing of the
  creator before its write.
- `ThiefSawDead`: a thread that reached a stale verdict saw the pid of a dead process.
- `OneThief`: there is at most one such thread.
- `UnlinksWhatItSaw`: a thread about to unlink has the file it judged still at the path.

`TextNamesCreator` (a pid in the file is the creator's) ties them together: what the thief unlinks
names a dead process, a live owner's file names a live one, so the thief never unlinks an owner's
file.  Without `OneThief` this breaks, because a second thief's unlink hits what the first one's
successor created; that is the race that `raced` records.  The refinement has `holders` as
`Holders` and `compromised` as `raced`: `Stamp` maps to `Acquire`, `Release` and `Crash` to
`Leave`, a `Judge` that sets `raced` to `Compromise`, everything else to a stutter.

### MapCacheProofs, MapCacheRowProofs, MapCachePowerProofs

About the records, in `MapCacheProofs`:

- `ConsistencyHolds`: `Spec => []ConsistentUnlessPending`.
- `ReadersAreSafe`: `Spec => [](losses = 0 => ReadersSeeOldOrNew)`: each answer is the old one or the
  new one.
- `ImplementsService`: `Spec => Service`, which says in addition how answers may change.
- `ValidateVouches`: `Spec => []ValidatedLookups`, from `Consistent` alone, whatever happened to the
  records.

`ConsistentUnlessPending` says nothing of the middle of a commit, where the records are between two
indexes.  `CInv` adds, for each phase, which records already say what the rows in memory say
(`Planned`: all that are neither staged nor due) and that the others are as the job found them
(`Unwritten`).  What a session stages for an importer of a removed path comes from that importer's
`by_src` record, so `Planned` needs a cache that agreed when it was opened, and the next open needs
`Planned`: the two carry each other from one job to the next.  `Rebuilding` bridges a job that died,
since a rebuild reads only `by_src`.  `Writes` collects what the six writing steps have in common, so
that the argument is made once.  All of this is under `losses = 0`: the power loss is the one thing
that takes back what was written.

`ImplementsService` needs no hypothesis, since `CacheService` has a `PowerLoss` after which it
promises nothing.  Its proof has one step per action, on top of `CInv`: what is `Unnoticed`, and that
is most of a job, stutters; `CommitBegin` is `Begin`, `UnlinkRecord` and `WriteForward` are
`ShowTargets`, `WriteReverse` is `ShowImporters`, `SaveIndex` is `Save`, `CommitUnpend` is `Finish`, a
`Crash` between the two is `Die`; `RebuildClear` and `RebuildRecord` are `Repair`, `RebuildIndex` is
`Accept`, `RebuildUnpend` is `Repaired`.  `Planned` is what lets `Save` say that all answers are the
new ones, `Rebuilding` what lets `Accept` say that all importers are found.

About the index, in `MapCacheRowProofs`:

- `HashesAreCurrent`: after an undisturbed whole run `index.tsv` has a row for exactly the files
  there are, with their hashes.  No hypothesis: power losses are allowed.
- `RowsAreCurrent`: `ASSUME NoImportIsDropped PROVE Spec => [](losses = 0 => CurrentWhenSettled)`.

`Settling` follows a run from its scan to its maps.  For the targets, `Faithful` says that a row pairs a
hash with targets that were read at the same moment or later; a content that comes back meets the
targets of what was there in between, and they are its own targets at most if it imports all that
those did, which is `NoImportIsDropped`.  Files that only move forward meet it, and so do the histories of
`cache` and `cache_power`.  Without it the code does keep a wrong target: see the differences
above, which also have the power loss that makes `losses = 0` necessary.

About power losses, in `MapCachePowerProofs`:

- `TrustHolds`: `Spec => []TrustIsEarned`.
- `RunsHeal`: `Spec => []HealedWhenSettled`.
- `TrustWithoutLoss`: `Spec => [](losses = 0 => ~restaged /\ TrustIsEarned /\ HealedWhenSettled)`, so
  that with the power on neither of the two excepts anything.

There is no hypothesis: any losses, deaths, deletions and caps, and any lengths.  Between jobs nothing
can be said of the records, so `PInv` starts from what is synced: `sizes.tsv` has the lengths of the
records that `index.tsv` needs, unless `commit.pending` is there (`Telling`).  So a record that passes,
by its length or, without a recorded one, by its content, is as long as the index calls for.  From there `Vouched`, `Intended`
and `Measuring` follow one job to its end, and `Mended` a whole run, which parses everything that
failed the check (`Reparsed`).  All of it holds until `restaged`: the job that takes lines from a wrong
record saves their length (differences above).  Equality while `losses = 0` comes from `CInv`.

### HealthLoopProofs

- `ReasonsAreJournaled`: `Spec => []StatusIsExplained`.
- `GreenIsEarned`: `Spec => []GreenIsBacked`.
- `WaitingIsQueued`: `Spec => []QueueCoversYellow`.
- `AdviceCoversDrift`: `Spec => []AdviceIsComplete`.

Each is about the moment between two jobs and needs an invariant that carries it through them.
`Journaled` holds of both files, of the rows a check has in memory and of the row a job is about to
write, because a death at any point, or `file_health.json` without rows, can make any of them the
health table.  `Earned` keeps what `mark_green` found true of the source and wiki until it is
written; an edit puts the file into `unbacked` instead.  `Queued` lets one file be out of the queue,
the one the job is about to queue, and needs `MdSame` and that no job died.  `Settling` says of a
check which files it has named so far and that its rows are `Health` if it changed nothing; the
proof takes the files in their order, for which `Least` shows that a first one exists.

### DaemonProofs

- `AtMostOneDaemon`: `Spec => []OneDaemon`.
- `StopLeavesNone`: `Spec => StopEmpties`, an action property.
- `StartedRuns`: `ASSUME ~SlowParent PROVE Spec => []StartedStays`.

`OneDaemon` is not inductive, since a start only looks at the files: a loop that no file names
would get a second one beside it.  `Sound` says who names each daemon (`LoopNamed`, `OldNamed`) and
what the command at work knows from the steps it took (`Knows`), until commands overlap.  `~SlowParent`
says that the parent writes the pid within the second for which the loop waits; the code sets that
second and nothing enforces it, so `StartedStays` does not hold without.  The run `daemon` has it too.

### McpServerProofs

- `OneLinePerChange`: `Spec => []RecordedOnce`.
- `AnswersHold`: `Spec => []AnswersAreTrue`.
- `SelectionIsFresh`: `Spec => []FreshSelection`.
- `ListIsCurrent`: `Spec => []ToldOfChange`.

All rest on `Order`, which none of them mentions: requests are handled in the order of their ids,
so a call never gets the thread of one that went past its deadline.  `Locked` and `Journaled` give
one line per change (what a thread saw when it compared is still so when it writes); `Answered`
says at which step the thread is that an answer speaks of; `Loaded` keeps the stamp no newer
than the text that was read; `Announced` compares the selection with the last list sent.

### AnswersProofs

Six of the nine properties of `algorithms`, for inputs of any size:

- `AdviceAlwaysOpens`: `AnswersSpec => []AdviceOpensTool`.
- `FirstBlockRead`: `AnswersSpec => []FirstBlockIsRead`.
- `PlanMatchesTree`: `AnswersSpec => []PlanFitsTree`.
- `EveryReasonAccounted`: `AnswersSpec => []ReasonsAreAccounted`.
- `MissingStops`: `AnswersSpec => []MissingNeverWidens`.
- `InitMapsSources`: `AnswersSpec => []InitRootsWork`.

`AnswersSpec` asks one question and leaves it alone (`StaysAsked`), so each theorem is about every
input there is.  What is assumed of inputs is `AnswersAssumption`: names come from `Word`, lists are
finite, no path is empty, a fence has a mark and an entry of the reasons a length, a tree has the
directories its files are in, no source file is called like an excluded directory, git pairs a file
that left with at most one that came.  Any number of tools, paths, keys, lines and levels is allowed.

The advice is a measure: `Turns` counts the lists that have the tool or its group against it, each
for either name, in force or not, and the allowlist.  A refusal blames one that is in force, and what
it says lowers the count by at least one (`OneTurnLess`); where the count is 0 the tool is there
(`NoTurns`).  It starts at five at most: two lists, two names, one allowlist.

The others are inductions over lists, for which the induction theorems of the library cannot be
used.  `NoLeastFailure` takes their place: if every length that fails has a smaller one that fails, none
does.  With it, `FlattenSeq` is shown to keep exactly the entries of its parts (`FlattenEntries`,
`FlattenMap`), which all lists of `GitPlan` are made with.  `PlanMatchesTree` then takes a path alone: the lines of git that speak of it are at most
two, its own and that of a rename it is a part of, in either listing (`StatusFits`, `NamesFit`), those of
untracked files that are not ignored come last, and the last of them has the last word (`LastSaid`).

For the parser, `HasRead` says where it is after each line: before the first agent-tools block, in the
fence that is open if one is, with nothing read (`Outside`); or in that block or past its end, with
exactly the names of its lines (`Inside`).  The lines that open a fence are a set that `OpeningsExist` constructs line by line; `ParseScans` shows that the recursive function of
`Parse` has the values its equation says.

### Only model-checked

- All liveness (`AcquireReturns`, `DeadLockCleared`, `Converges`, `DriftIsFlagged`, `LoopsEnd`,
  `AllAnswered`): fairness and ENABLED are outside of what TLAPS does.
- `CyclesAreExact`, `DefinersDefine`, `SameItemSameFile`: Tarjan's search, the walk through
  re-exports and that along a Rust path are RECURSIVE operators (`Strong`, `DefiningFile`, `RustWalk`),
  about which the provers know nothing.
- That the hypotheses above are needed.  TLC violates `StartedStays` in the instance of `daemon` with
  `SlowParent = TRUE`; `CurrentWhenSettled` and `ReadersSeeOldOrNew` (of `MapCacheProofs`) in that of
  `cache_power`, which has a power loss; `CurrentWhenSettled` there with a death in place of the power
  loss and the history `<<a2, a1, a2>>` for a.  `TrustIsEarned` and `HealedWhenSettled` are violated in
  `cache_power` without their `~restaged`, the first also in `cache` with a power loss and no deletion, by
  the cap alone; and if they asked for the record itself where they ask for its length, even without
  the deletion.

## Not modelled

- *Text scanning* of the languages, *symbol extraction*, the path rules of languages other than
  Rust: their results are constants.  What resolution depends on beside the bytes of a file is the
  subject of finding 2.
- In the cache: the one-shot migration of old file names and of pre-Rust caches, barrel pruning, the
  text of records.
- In `HealthLoop`: search-journal, why_file, the listings and `verify_integrity`, which only read.
- In `Daemon`: log, heartbeat, the writing of service files; `monitor` is `check_changes` in a loop.
- In `McpServer`: schemas, prompts, resources, the compacting of replies.  The journal is the file of
  one day.
- *Dashboard, CLI, text, JSON, installers*: I/O and formatting.

## Plan

Done, in this order because everything else rests on it: the lock with its contract and proofs,
the cache with `update_maps` and its maps, the health loop, the daemon, the MCP server, the
algorithms; then the proofs of the safety properties of the cache, the health loop, the daemon and
the server, and of the algorithms that do not recurse.

Then the abstract specification of the cache and its refinement by `MapCache`.

Left: Tarjan's search as a state machine, one action per visit, to prove `CyclesAreExact` without a
RECURSIVE operator.
