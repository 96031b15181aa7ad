# A formal model of nix-tarmac

nix-tarmac is a Nix plugin that keeps source tarballs and evaluation results in
one content-addressed cache, a pack file with an LMDB index, shared by every
Nix process of a user. The modules here model the parts of it in which steps of
several threads and processes, failures and crashes decide whether the cache
stays right; TLC checks them on small instances, and TLAPS proves what they keep
safe for all instances. Paths below are relative to the repository (`src/` in the file
`PROJECT.json`).

## 1. The system

| Component | State | Operations | Modelled by |
|---|---|---|---|
| Pack CAS (`src/pack_cas.cpp`) | LMDB: index `hash -> (generation, offset)`, `meta` table, generation; one `pack.<gen>` file; `lock` file; per process: mappings of packs, `cur`, an open batch (`wtxn`, `end`, `committed_end`) | `open`, `put`, `sync`, `get`, `get_view`, `has`, `compact`, `meta_*`, destructor | `PackCas`, promise: `BlobStore` |
| TreeStore (`src/tree.cpp`) | roots with time stamps and `lastgc` in `meta`; per process: `pending_touch_` | `registerRoot`, `touchRoot`, `sync`, `maybeGc`, destructor | `TreeGc`, promise: `RootStore` |
| Ingest pipeline (`ItemQueue`, `ingest_archive`) | a bounded queue, two threads, a condition variable | `push`, `pop`, `finish`, `close` | `ItemQueue`, promise: `SequentialIngest` |
| Tar tree (`MemNode`, `apply_item`, `flush_tree`) | a tree in memory | one item; the flush | `TarTree` |
| Readers of trees (`TreeWalker`, `nar_dump`) | the walker's cache; the dump's stack | lookup; dump | `TreeReader` |
| `PackAccessor` (`plugin/pack_accessor.hh`) | a root, a walker, a mutex | `SourceAccessor` of Nix | its `find()` in `TreeReader`; `healing` and the reads in `Fetcher` |
| `Ctx` (`plugin/ctx.hh`) | one store per directory and process; the writer mutex; the `poison` file | `get`, `openHealed`, `poison` | the mutex in `TreeGc` and `EvalStore`, the collection at start in `TreeGc`, the mark and the removal in `Fetcher` |
| Fetcher (`plugin/tarmac.cc`) | an entry of Nix's fetcher cache: etag, root, expiry | `getAccessor`, `download` | `Fetcher` |
| Eval store (`plugin/store.cc`) | records `sp:` and `sd:` in `meta`, each naming an object | `pathRecord`, `drvText`, `storeObject`, `writeDerivation` | `EvalStore`; the ingest beneath in `TreeGc` |
| Loader, `nix_compat.hh` | none | choice of a library, API shims | not modelled |

How they interact. The fetcher and the eval store take `Ctx::mutex`, ingest
into a `TreeStore`, register a root and call `sync()`; an archive is followed by
`maybeGc()`, which ends in `compact()`. Reads go to the pack CAS with no lock.
Between processes there is no message: they share the LMDB environment, the
pack files, the names of those files, and the `flock` on `lock`.

What is hard:

* *Lock-free readers against compaction.* A reader takes a generation from a
  snapshot of the index and maps `pack.<gen>` afterwards; the file may be gone,
  or replaced, by then. The reader threads of a process also move `cur`, which
  its writer appends to.
* *Two files that must agree.* The pack is synced before the index is
  committed, and the index with `MDB_NOSYNC` is synced last; a process may die,
  the machine lose power, or a call fail between any two steps.
* *A collector without a lock.* `maybeGc` expires roots and walks the live ones
  before it takes the lock that keeps other writers out.
* *Time.* Stamps come from other processes' clocks, touches are deferred, and
  differences are unsigned.
* *Two threads and one condition variable*, either of which may fail.
* *Archives* that overwrite, link and nest in any order.
* *Records outside of the store.* Nix's cache entry and the eval store's records
  name objects that a collector may take; they are checked, touched, dropped and
  written again in separate steps, by threads that hold no common lock.
* *A cache that wipes itself*, while other processes have its files open.

What makes each part correct: the index names synced cells with the right blob
(pack CAS); a blob that was found is what a reader gets (readers); a root that
is registered is whole, one that is used stays (collector); the threads act as
one loop and end (pipeline); what is stored is what the archive says (trees); a path
that was stored stays valid while it is read, and every call returns (eval
store); a fetched tree is whole while it is used, its entry keeps a root, and a
damaged cache serves again (fetcher).

## 2. The modules

`PackCas` has one writing thread (`pc`) and one reading thread (`rd`) per
process. `pc` follows the code through `open_once` (`OpenTxn`, `OpenCleanup`,
`OpenMap`), a batch (`BeginBatch`, `Put`, `PutFails`, `SyncData`, `SyncCommit`,
`SyncFlush` and their failures) and `compact()` (`CompactBegin`, `CompactCopy`,
`CompactCommit`, `CompactFlush`, `CompactUnlink`, `CompactRemap` and their
failures). `rd` goes through `Lookup`, `Locate` or `Missed`/`Relook`, `Fetch`.
`index`, `txn` and `durable` are the index as committed, as the open write
transaction would make it, and as a power loss would leave it; `dir` maps the
names `pack.<gen>` to files (inodes), `data` and `dlen` are the cells of a file
and how many of them are synced; `map`, `cur`, `end`, `cend`, `flock`, `wtxn`
are the variables of the code. A batch that is full (`AutoSync`) must be
committed before anything else, as `put` does. `Close` runs the destructor,
`Kill` does not; `PowerLoss` ends every process, cuts a file back to its synced
cells or leaves unsynced ones torn, and takes the index back to `durable` or
leaves it. `PackCas` is shown to implement `BlobStore`, in which a batch or a
collection appears at once or not at all.

`PackCasInv` holds its inductive invariant, `PackCasProofs` and
`PackCasReadProofs` the proofs.

`TreeGc` is the collector over a `BlobStore` (its actions are used for every
change of the store), with the `meta` table in the same transactions. A process
is at one place `pc` of: opening (which collects, as the constructor of `Ctx`
does), ingesting a root (`Put` children before their tree, `AutoSync`,
`Register`, `Sync`), flushing touches one by one, and each step of `maybeGc`:
the clock (`GcNow`), the interval (`GcCheck`, `GcStamp`), the two scans and the
deletions (`GcExpire`, `GcDelete`), the walk with its stack (`MarkRoot`,
`MarkTree`), the broken roots (`GcUnroot`), blob roots (`GcBlobs`), and
`compact()` in three steps. `Touch` is any other thread. An ingest that throws
leaves its batch open (`IngestFails`), as the code does. Time stamps are
differences modulo `Word`. `RootStore` is the promise: objects and roots change
by transactions, a root is registered only when all it needs is there, and a
sweep keeps what the registered roots need. `TreeGcInv` holds its inductive
invariant, `TreeGcProofs` and `TreeGcPassProofs` the proofs.

`EvalStore` has the threads of several processes in `pathRecord`, `drvText`,
`storeObject` and `writeDerivation`: `Look` (the record), `Check` (the object),
`Touch` or `Drop`; then, for a store, `Lock` (`Ctx::mutex`), `Put` or `PutBulk`,
`Register`, `Record`, `Commit`, `Flush`. A thread sees the batch it has open and
everyone else what is committed (`View`), and writes to the meta table in its
batch or in a transaction of its own, which waits for the LMDB writer (`Write`).
`StoreFails` leaves the batch open, as an exception does in the code;
`PutRefused` is the `logic_error` of a `put` that finds another thread's batch,
or the end of the ten minutes' wait. The collector is one step, `Pass`, since
`TreeGc` has its steps, or `PassDies`, which evicts roots and stops.
`EvalStoreProofs` holds the invariants and the proofs.

`Fetcher` has processes that each fetch the one URL and read one path of the
tree: `Start` (`Ctx`, with the removal of a marked directory), `Lookup`, then
`NotModified`, or `Ingest`, `Strip`, `Hash`, or straight to `Touch`, then `Read`
or `ReadFails`, and `Exit`. The directories of processes that run while the
cache is removed are separate stores (`store[s]`), of which `cur` has the name.
The archive of a version is a tree with one directory, which `download` strips,
with two directories beneath and a file in one of them; `Pass` follows
`mark_live` over it object by object, so that a damaged one drops exactly the
roots, and leaves exactly the marks, that the code would. `FetcherProofs` holds
its invariants and the proofs.

`ItemQueue` has the two threads of `ingest_archive`. An archive is a sequence of
entries with a size and whether `apply_item` accepts them, and whether libarchive
reaches its end. The condition variable is the set of waiting threads, with
spurious wake-ups. Every way a thread can end is an action. `ItemQueueProofs`
holds the invariants and the proofs.

`TarTree` applies the items of an archive to the tree in memory and flushes it;
a node is `[type, id]`, and an object is its own hash. `TreeReader` extends it
with lookups by the walker, with its cache, and the NAR dump with its stack of
strings and nodes, over objects one of which may become unreadable at any time.
What an archive means (`Meaning`) and what its NAR is (`Nar`) are recursive
functions of it, written without regard to the steps of the code.
`TreeReaderProofs` proves about both modules.

`MCPackCas`, `MCItemQueue`, `MCTreeReader`, `MCTreeGc` and `MCEvalStore` define
the instances; `Fetcher` needs none.

### Faults and races

`PackCas` and `TreeGc` take from a constant what the environment may do
(`Faults`, `Races`; the comment above `AllFaults` and `AllRaces` explains each).
Where the code does not hold up under one of them, the passing runs leave that
one out, so that they still say what holds otherwise, and a run that expects a
violation shows it (section 4) or it is listed here. A run for one of these
needs only the constant changed:

| Toggle | What TLC finds | Code |
|---|---|---|
| `openRace` | run `pack_open_race` | `pack_cas.cpp:600` |
| a process in both `Readers` and `Writers`, no fault | `ReaderSound`: while one thread has a batch open, a reader thread that looked up a generation another process has retired since creates that pack, empty, and reads past its end: a CorruptError, which poisons the cache | `pack_cas.cpp:498` |
| `switchError` | `IndexSound`: when `mdb_env_sync` fails after `compact()` has committed, the handler removes the new pack, which the index names | `pack_cas.cpp:780` |
| `killSwitch` with `power` | `DurableSound`: killed between the commit and `mdb_env_sync` of `compact()`, the index on disk still names the old generation, whose pack the next open removes | `pack_cas.cpp:768` |
| `mapRace` with a reader | `ReaderSound`: `open_once` creates an empty pack for a generation retired since its cleanup | `pack_cas.cpp:604` |
| `gcInBatch` with `UsedRootsKept` | a pass takes its time, then waits for another process's batch; the root that batch registers is younger than the pass, `now - stamp` wraps, and the root is evicted at once | `tree.cpp:551`, `:587` |
| `ingestInGc` | run `gc_late_ingest` | `tree.cpp:609` |
| `bulk` | `RootsWhole`: objects an ingest auto-syncs before it registers its root are swept | `pack_cas.cpp:645` |
| `held` | `RootsWhole`: a touch flushed after a pass registers an evicted root again, without its objects | `tree.cpp:543` |
| `slow` | `UsedRootsKept`: a pending touch keeps its first time, and is not seen by other processes | `tree.cpp:521` |
| `twoGcs` with `GcRate` | `lastgc` is read and written in two transactions | `tree.cpp:587` |
| `twoGcs`, three roots, two of which share a directory | `RootsWhole`: one pass evicts a root and sweeps, so the other's walk of that root breaks off, and leaves the shared directory marked but not walked, as in the last row | `tree.cpp:571`, `:597` |
| `RecordsKept` without `DroppedLate` | a query that found an object missing deletes the record after a store has put object and record there again | `store.cc:300` |
| `RecordsKept` without `touch` | a path was read, but the touch is pending in a process while another makes a pass, or died with it | `tree.cpp:521` |
| `RecordsKept` without `evicted` | a pass evicts roots and fails before it sweeps: the records stay valid without a root, later reads touch nothing (`touchRoot` needs a root), and the next pass takes the objects | `tree.cpp:556`, `:513` |
| `rot`, two directories in one of two trees that share the other | `RootsWhole`, for the root that can be read: the walk of the broken root leaves the shared directory marked but not walked | `tree.cpp:571`, `:597` |

## 3. The passing runs

All runs but `fetcher` and `fetch_heals` set `CHECK_DEADLOCK FALSE`: a process
may be closed for good when the bounds are reached, an archive ends and
`ingest_archive` returns. Nix can always be run again.

* `pack_durable` - two processes that both write and compact, two blobs, one
  compaction (`MaxGen`), packs of two cells, `AutoSync` 2; short writes, failed
  syncs, failed compactions, kills and power loss. Checks `IndexSound`,
  `DurableSound`, `BlobsSurvive` and the refinement `StoreSpec`. Two cells and
  two blobs are what a torn tail, an overwrite of it and a batch after a batch
  need; one switch is what each crash window needs.
* `pack_readers` - a reader, a writer that compacts up to three times, a process
  that opens and closes the cache; `MaxRetries` 2 instead of 8, so that three
  generations exceed it. Checks `ReaderSound`, `ChurnIsReal`, `StoreSpec`. One
  blob is enough: a cell that is not the blob's is empty, torn or beyond the end.
* `pack_everything` - every fault at once, one compaction: `TypeOK`, `OneWriter`,
  `WriterOnCurrent`, which hold in spite of the findings.
* `queue_threads` - all archives of up to four entries of sizes 0, 1 and 3, sound
  or not, with a queue of two items and two bytes, so that an entry may be larger
  than the queue: `MemoryBounded`, the refinement `SequentialSpec`, and, with
  weak fairness of both threads, `Terminates`.
* `tar_trees` - all archives of up to three out of sixteen items: directories,
  files, symlinks, hard links forwards and backwards, `..`, empty and `.`
  components, a component that is too long, paths that are too deep
  (`MaxTreeDepth` 2). Three items are what an overwrite of a link's target needs.
  Checks `LastEntryWins` (the tree in memory against the meaning of the archive,
  defined entry by entry), `StoreClosed` (no object names one that is not there,
  at any moment: what the collector and the order of `Put` in `TreeGc` rely on),
  `FindSound`, `NarIsTree` (the dump against a recursive definition of the
  format) and `DumpReaches`.
* `gc_shared` - one process, two trees that share a directory, a file that is a
  blob root too; time to 4, `Ttl` 2, `TouchInterval` 1: roots expire, are touched
  and registered again; ingests fail and the process is killed anywhere. Checks
  `RootsWhole`, `SweptClean`, `UsedRootsKept`, `GcRate` and the refinement
  `RootSpec`. `Ttl` exceeds
  `TouchInterval`, as 30 days exceed an hour; otherwise `UsedRootsKept` would say
  nothing.
* `gc_two` - two processes, a tree and a blob root; passes at the same time, a
  pass that begins while a batch is open, an object that becomes unreadable,
  kills. Checks `TypeOK`, `RootsWhole` and `RootSpec`. `Ttl` 1 and two clock
  values let a root expire while another is live. The one tree shares nothing
  with another root: where roots share a directory, `rot` and `twoGcs` break
  `RootsWhole`, see the table.
* `eval_store` - two threads of one process and one of another, three calls
  altogether, two store paths of the same contents and one of its own; stores
  that fail at any step, kills, power loss, roots that grow old, passes, and
  passes that die. Three calls are a store, a use of what it stored, and one
  more to interfere: each exemption of `RecordsKept` comes about, and is needed,
  within them. Checks `TypeOK`, `RecordsRooted`, `RecordsKept` and, under
  fairness, `EveryCallReturns`.
* `fetcher` - two processes, each run of which fetches once and reads one of two
  paths, two versions of the tarball, any number of runs, and one fault: damage
  to any object or its index entry, a failing download, a kill, power loss, or a
  pass that dies. Entries expire and roots grow old only while no process runs,
  since tarball-ttl and the TTL are long against a run. Three directories are
  enough for two processes and the name of the cache. Checks `TypeOK`,
  `EntryMatches`, `InUseWhole`, `EntryRooted` and, under fairness, `Heals`.

Fairness. `queue_threads` has `WF` of the producer and of the consumer: the
operating system schedules a thread that can run, and no wake-up is assumed but
those `notify` causes. `eval_store` has `WF` of the steps of each thread inside a
call, not of the calls or the faults, and none of what ends another thread's
batch: a thread whose store failed need not call again, which is why
`EveryCallReturns` exempts an abandoned batch. `fetcher` and `fetch_heals` have
`WF` of the steps of each process, its start included: whoever uses Nix goes on
doing so; nothing is assumed of the server, the collector or the faults, of
which there are finitely many. In the other runs nothing is claimed to happen
eventually: a lock may be held by a process that never ends, and the code says
no more than that it gives up after ten minutes.

Every property of a passing run has a mutant in `PROJECT.json`: an operator of
the same module, marked `Mutant`, that changes one definition the way a slip in
the code would, and under which the property fails.

## 4. Where the code does something else

Each of these runs finds its property violated; the line of the code and the
sentence it contradicts are in `PROJECT.json`.

* `pack_open_race`: `open_once` reads the generation and commits, then takes the
  lock and removes every other pack. If a compaction switches in between, it
  removes the live pack.
* `gc_late_ingest`: an ingest that commits after the walk and before the lock of
  `compact()` has its objects swept under the root it registered.
* `fetch_heals`: `healing` of `tarmac.cc:55` is called by nothing. A CorruptError
  inside `download`, from `put` on a damaged index entry, from `readTree` of the
  archive's root or from `nar_sha256`, leaves no mark, so the cache is not wiped
  and every later run ends in the same error. `Heals` is what does hold: once
  there is a mark, the next start removes the directory and a fetch is served.

The other disagreements are in the table of section 2, each with the constant or
the exemption to change. `TreeReader` shows one more, within `FindSound`: after a
lookup has failed with CorruptError, later lookups by the same accessor answer
"does not exist", from the empty slot `TreeWalker::tree` left in its cache
(`tree.cpp:627`). In `Fetcher`, a file whose blob is missing is an error without
the mark that a missing directory leaves (`pack_accessor.hh:55`).

## 5. The proofs

Every theorem holds for any values of the constants that satisfy the named
assumptions (`PackAssumption`, `GcAssumption`, `EvalAssumption`,
`FetcherAssumption`, `QueueAssumption`, `TarAssumption`, `ReaderAssumption`),
which TLC evaluates for every run: any processes, threads, blobs, generations,
files and cells; any trees that share, roots, times and intervals; any paths and
calls; any archives, names, depths and limits of the queue.

* `PackCasProofs`: `TypeCorrect`, `MutualExclusion`, `CurrentIsLive`, whatever the
  faults. Types first; then `LockInv` (who is where holds which lock, and the
  transaction differs from the index only while somebody holds it); then
  `MapInv`: no process knows a generation newer than that of the index and `cur`
  is the newest one it has mapped, so readers can move `cur` only to the
  generation that is live, which is what `WriterOnCurrent` needs. `BlobsAreKept`
  is `BlobsSurvive`, also whatever the faults, from `KeepInv`: what a batch would
  commit includes what is committed, and only a collector compacts.
  `IndexAlwaysBacked` is `IndexSound` and `DurableAlwaysBacked` is
  `DurableSound`, under `NoSwitchFault`: without `openRace`, `switchError` and
  `killSwitch`, for each of which TLC has a counterexample. The invariant adds
  `FileInv` (names and files; whoever has the live generation mapped has the live
  file), `BatchInv` (what the index names lies below `committed_end`, so that an
  abort cuts off and a torn write overwrites nothing of it) and `DiskInv` (the
  disk knows the live generation, or the one before while a switch is not synced,
  and what is about to be committed is on disk). Neither property is inductive
  alone: a commit is sound only because the whole transaction is already backed.
* `PackCasReadProofs`: `ReadersGetTheirBlob`, that is `ReaderSound`, and
  `PackCasIsBlobStore`, the refinement, both under `QuietReads`: `NoSwitchFault`,
  no `mapRace`, and no process that both reads and writes. TLC has a
  counterexample to `ReaderSound` without each of the last two. `ReadInv` says
  what a reader holds between its steps: the entry it looked up was that of its
  blob in the generation it looked at, and the file it maps for it is the file
  that bore this generation's name at the time, whose cells below the entry's
  end nobody changes since (`Holding`). `NameInv` gives the history that makes
  this last: a file bears the name of one generation only; a process about to map
  after `open`'s cleanup still knows the live generation; and a batch keeps the
  entries of the index until it commits. The refinement maps the open transaction to the
  view of the abstract writer, and a lookup to `Ask` and `Answer`; each step of
  `PackCas` is a step of `BlobStore` or changes nothing of it.
  `OnlyChurnGivesUp` is `ChurnIsReal`, under `QuietReads` too, from `ChurnInv`:
  a process that reads has mapped some generation not newer than the one it
  looked up, and each try that finds no file was for a generation newer than
  all tries before, that has been retired since; so `MaxRetries` failed tries
  mean more than `MaxRetries` retired generations.
* `ItemQueueProofs`: `ImplementsSequential`, the refinement of the loop by the two
  threads, for archives of any length and any limits of the queue. `IInv` says
  where each entry is (applied, in the consumer's hand, queued, in the producer's
  hand), and that the error the producer saw is the one that is reported unless
  the consumer has failed first. `MemoryIsBounded` is `MemoryBounded`: `Total` is
  a recursive function, shown to grow and shrink with a push and a pop; `push`
  waits unless the item fits or the queue is empty, and is the only way in.
* `TreeGcProofs`: `TypeCorrect`, whatever the races. That a stack holds only trees
  rests on `MarkTree` filtering what it stacks (`tree.cpp:572`).
  `QuietRootsWhole`, that is `RootsWhole`, and `QuietIsRootStore`, the refinement
  `RootSpec`, both under `QuietPasses`: without `ingestInGc`, `twoGcs`, `bulk`,
  `held` and `rot`, for each of which section 2 has a counterexample. A pass may still begin while another process's batch is
  open, touches may be late, ingests fail and processes die anywhere. The
  invariant `GcInv`: what is stored lacks no child (`WholeInv`), so a root is
  whole once it is there; a batch only adds, except in a sweep (`BatchInv`);
  what an ingest counts as put is there (`IngestInv`); a pending touch is of a
  registered root (`TouchInv`); a pass has begun either before another process's
  batch was committed, and then waits at its first write, or no batch is open
  (`AloneInv`), so that what it scanned is still so when it sweeps; and the walk
  (`WalkInv`): each root is marked or still to be, and what is beneath a marked
  tree is marked, unless the tree is on the stack. `RootsWhole` is not inductive:
  a sweep keeps it only because the walk closed the marked set before it. The
  proof needs what `GcAssumption` says of the data: a blob root is never a tree
  (a tree object and a file never have the same bytes), or the pass would keep
  the tree and not what is beneath it.
* `TreeGcPassProofs`: what single steps never do. `QuietGcRate` is `GcRate`, from
  `RateInv`: a pass between its check and its stamp knows the last stamp, which is
  not younger than the pass, so that the difference does not wrap. `QuietSweptClean`
  is `SweptClean`, from `CleanInv`: what is marked is needed by a root that is
  registered, and stays so until the sweep, as no root is dropped after the walk
  has begun (no root is broken while every tree can be read). Both are under
  `QuietPasses`. `PromptUsedKept` is `UsedRootsKept`, under `PromptTouches`, which
  also excludes `gcInBatch` and `slow` (section 2 has the counterexamples): a use
  is in the root's stamp, up to the hour in which it is not recorded, or in a
  touch as old as the clock (`UseInv`); and no stamp is younger than a pass, and
  what it is to evict is older by the TTL (`AgeInv`). An abort and a death lose
  uses, and the history forgets them with the batch that held them.
* `EvalStoreProofs`: `TypeCorrect`, `RecordsAreRooted`, that is `RecordsRooted`,
  and `RecordsAreKept`, that is `RecordsKept`, whatever the faults: a late drop,
  an untouched read and an evicted root are excused in the property itself.
  `RecordsRooted` must hold in whatever table comes next, so `StoredInv` says it
  of the committed table, of the open batch and of the disk. It rests on
  `BatchInv` (outside of a transaction there is one table, and within one no root
  gets old), on `FreshInv` (the root a store registers is fresh until its batch
  is flushed, so no pass takes the object before its record is durable, and a
  record is dropped only where the object is missing), and on `ReadInv` (a path
  read since its root became old has a touch pending, or its reader died).

* `FetcherProofs`: `TypeCorrect`, `EntryNamesItsTree`, that is `EntryMatches`,
  `UsedTreesWhole`, that is `InUseWhole`, and `NamedTreesRooted`, that is
  `EntryRooted`, whatever the faults. `InUseWhole` says what must be there, not
  why it stays, so `UseInv` adds the reason: while a tree is used, its root is
  registered and not old, or the directory has no old root at all, since roots
  grow old only while no process runs and a pass leaves none; and none of its
  objects is damaged. The lookup looks for the top directory alone
  (`tarmac.cc:239`), so that the rest is there only by `SettledInv`: a store lacks
  an object only beneath one that is damaged or lacking too, also after the sweep
  of a walk that broke off. `RootInv` is `EntryRooted` for every directory and
  version, not only for the entry's and the one that has the name, because the
  entry survives a wipe, and a process may rewrite it from a directory that was
  removed.
* `TreeReaderProofs`: `ObjectsClosed`, that is `StoreClosed`, `TreeIsMeaning`, that
  is `LastEntryWins`, `LookupsAreSound`, that is `FindSound`, `DumpsAreTheTree`,
  that is `NarIsTree`, and `DumpsReachTheLeaves`, that is `DumpReaches`. `StoreInv`
  gives the first: an id in the tree in memory is already stored, and
  `flush_tree` puts a directory only when none is left beneath it (`FlushDir`).
  The others rest on `ReadInv`: there is a tree `m` and an assignment `h` of ids
  such that `m` is what the items so far say (`Told`) and is a tree (`Shaped`: each
  prefix of a path is a directory in it), `h` gives each path the id of its
  subtree in `m` (`Hashed`), and then, for each place: while items are applied the
  tree in memory is `m`; while it is flushed, what has been put has the id of
  `h` and what has not has all its children (`Flushing`); afterwards the root is
  that of `h`. The cache holds for an object its entries or nothing (`CacheOk`),
  and an answer is that of `m` and `h`, or the cache lacks something (`Answered`). A
  dump has written, followed by what its stack stands for, the archive
  (`Renders`, `Reading`): a node of the stack stands for the archive of a
  path, and `nar_directory` replaces it by pieces that stand for the same.
  Depth on the stack is the length of that path, hence `DumpReaches`. None of the
  five is inductive: an item changes what later items mean, and neither the store
  nor the stack knows paths.
  Recursive functions (`Content`, `NarOf`, ids) are choices: that there is one with
  the stated equations is proved by the least counterexample in the length of
  the archive or the height above the deepest path (`LeastNat`), and nothing else
  about the data needs induction.

What is not proved. Liveness is outside of the prover's reach: `Terminates`,
`EveryCallReturns` and `Heals` are only model-checked. All other properties of the
passing runs are stated by a theorem, but some of these theorems assume less of
the environment's freedom than a run gives it: `gc_two` checks `RootsWhole` and
`RootSpec` with two passes at the same time and with unreadable objects, where
`QuietPasses` excludes both. There the property depends on what the trees share
(section 2), and holds in that run because they share nothing.

## 6. Limits

* LMDB is taken to be serialisable and to come back, after a power loss, as it
  was last synced or as it was last committed; `MDB_NOSYNC | MDB_WRITEMAP` may
  in truth lose more. Directory entries are taken to be durable, although the
  code syncs no directory.
* A blob is a cell, whatever its length; offsets, LZ4, the mmap's size and
  BLAKE3 are left out. A hash has no collisions.
* The reads a writing thread makes inside its own batch are not separate from
  its writes.
* `EvalStore`: the record names one object, which stands for all the blobs of a
  file system object; `StoreViewAccessor` keeps the accessors it has made, whose
  later reads touch nothing, and `queryPathFromHashPart` answers from the records
  without looking for the object: neither is an action. Pending touches are
  written in one step. That a store is committed in two parts (`PutBulk`) happens
  at most at its last `put`.
* `Fetcher`: one URL; an ingest with its sync is one step (`TreeGc` and `PackCas`
  have its parts), and so is a pass. The empty tree that a 304 stores and roots
  is left out. Locking to an immutable URL is left out.
* `touchRoot` is one step. In `TreeGc`, a process's writing thread is one (the
  code has `Ctx::mutex`), and a directory's order of names is not fixed, so the
  walk takes the children in any order.
* Tree objects are sets of entries: the encoding and its checks, and the SHA-256
  of the dump, are left out. A file and a tree object never have the same bytes.

Not modelled:

* the second attempt of `open()`, which wipes the directory on any error of the
  first: which errors LMDB and the file system raise is outside of the code (the
  wipe that the poison mark asks for is in `Fetcher`);
* the freed transaction after a failed `mdb_txn_commit` (`pack_cas.cpp:450`):
  undefined behaviour without a bounded set of outcomes;
* libarchive, Nix, the loader, the compatibility header, tests, fuzzers and
  benchmarks, and the bytes of every encoding: no state, or not the program's.
