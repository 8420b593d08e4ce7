# kache: models, checks and proofs

kache caches compiler outputs. A build tool runs a kache *wrapper* in place of
the compiler; the wrapper computes a cache key, restores the outputs when the
local store has the key, and otherwise compiles and stores them. A *daemon*
beside the wrappers downloads entries from a remote cache, uploads new ones,
flushes bytes to disk and collects garbage; the command line does the same by
hand. All of these are separate processes that share one store directory and
its SQLite index. That sharing is what this project is about.

Paths below are relative to the repository. `store.rs` is
`crates/kache-store/src/store.rs`.

## 1. The system

### Parts, their state and their operations

| Part | State | Operations |
|---|---|---|
| Artifact store (`store.rs`) | index tables `entries`, `entry_blobs`, `blobs`; `store/<key>/meta.json`; `store/blobs/<hash>` | `put`, `get`, `remove_entry`, `import_restored_entry`, batch import, lazy migration, orphan sweep, reconcile, index rebuild, eviction |
| Key build lock (`StoreLock`, `claim_build`) | `store/<key>.lock`, an advisory OS lock on its inode | claim, re-check, wait, release; sweep of stale lock files |
| Deferred durability (`flush_entry_durability`) | `durable` column; what has been fsynced | put leaves an entry pending, flush verifies and promotes, lookup verifies or trusts |
| Remote extraction (`src/remote_layout.rs`, `src/daemon.rs`) | entry directory, per-process download claims | download, extract, import, discard |
| Wrapper miss path (`src/wrapper.rs`) | the lock it holds, its outputs | lookup, claim, compile, store, or compile without storing |
| Eviction (`eviction.rs`, `apply_eviction`) | recency stamps, tombstones, `gc.lock` | rank and remove entries, sparing those with an upload intent |
| Blob index healing (`src/blob_heal.rs`) | a drift probe | trigger a reconcile |
| Scheduler (`src/scheduler.rs`) | slot, marker and flight locks, wake counter | join a flight, take permits, lease slots to a test |
| Execution hand-off (`kache-ipc`, `src/daemon_execution.rs`, `src/invocation/`) | connections, permits, child registry | hand a compilation to the daemon up to its Commit, or fall back |
| cc hand-off (`src/daemon_publish.rs`) | receipt, publish queue, the key lock in transit | pass a finished cc compilation to the daemon, or take it back |
| Breaker (`src/remote_resilience.rs`) | mode, failures, epoch per direction | admit, report, drop, cool down |
| Remote knowledge (`src/remote_resilience.rs`, `src/daemon.rs`) | negative cache with epochs, key index with a revision | restore, upload, list |
| Download claims (`src/daemon.rs`) | flights of requests, claims of keys | lead, follow, claim, wait, release |
| Upload spool (`src/daemon.rs`) | intent files, pending set, queue | record, announce, upload, retire, replay |
| Keys, compilers, path handling | none that is shared | pure functions over inputs and environment |
| Reports, events, TUI, configuration, shims | log files | diagnostics |

`PROJECT.json` lists every part with its source files and whether it is modelled.

### How the parts interact

* **SQLite's writer lock** serializes registrations and removals. The rule is
  that a blob file is created for, or unlinked from, an address only under it.
  Files changed inside a transaction are visible at once and stay changed when
  it rolls back; the tables change at the commit.
* **meta.json** is the authority for what an entry contains. A removal takes the
  hashes to release from it, a reconcile rebuilds both derived tables from it,
  and a lookup serves what it says.
* **The key lock** keeps two wrappers from building one key. It protects no
  file: imports and evictions do not take it.
* **The durable mark** couples lookups to the flusher. A lookup re-hashes the
  blobs of a pending entry and, by default, trusts those of a durable one.
* **Downloads** write into the entry directory with no lock at all and register
  afterwards like a put; inside one daemon a claim per key keeps them apart.
* **Intents in the spool** couple uploads to garbage collection: both publication
  and sweep hold `gc.lock`, and a sweep spares what it finds there.
* **Locks change hands.** A wrapper takes its flight, then permits, then the key;
  it gives the key to the daemon by dropping it, and takes it back by claiming it.

### What is hard here

Removal is split into an unlocked read, a transaction and a second transaction
for the files. Publication is split into unlocked staging and a transaction that
must repair what was removed meanwhile. A crash between a file operation and a
commit leaves the two halves of the state at different generations. A lock that
belongs to an inode outlives the name it was opened by. Bytes that were written
are not bytes that survive a power loss, and neither are SQLite commits under
`synchronous = NORMAL`. In the daemon, answers arrive after the state they were
asked in is gone: a result of an earlier breaker generation, a miss read before an
upload, a listing taken before it, a request whose client has given up. Wake-ups
race the sleeps they are meant for. `PROJECT.json` lists these hazards line by line
with the property that would catch each one.

What makes each part correct:

* store: nobody's reference is spent by somebody else; committed entries keep
  their files; a row and its meta.json describe one generation; a reconcile
  repairs whatever faults left behind;
* lock: one holder per key; sweeps never touch a held file; no builder stores
  over another; every invocation ends;
* durability: a durable mark is never wrong, and no hit serves wrong bytes;
* breaker: one probe at a time, only it closes a degraded direction, and a
  direction whose remote is back closes;
* knowledge: what this daemon stored is not answered as a miss, and the two views
  of a key agree;
* claims: one writer per key, no download over a published entry, every request
  answered;
* spool: one job per key, backed by an intent; recorded uploads survive and arrive;
* cc hand-off: one event and one publication per compile, and no key kept;
* scheduler: markers and slots agree, one admitted wrapper per key, everyone ends;
* execution: one compiler start, one owner of the outputs, every client ends.

## 2. Modules

| Module | Models |
|---|---|
| `CacheSpec` | what the store promises: a key is bound only while its blobs exist, a blob is reclaimed only when no bound key needs it |
| `Store` | put, remove_entry, orphan sweep, download and import, migration, reconcile, over the three tables and the two directories |
| `BuildLock` | one key's lock file, the miss path of wrappers, the stale lock sweep |
| `Durability` | pending and durable entries, flush, lookup, power loss |
| `RemoteBreaker` | the circuit breakers of reads and writes |
| `RemoteKnowledge` | the negative-result cache and the key index under restores, uploads and listings |
| `DownloadClaim` | flights, claims and waits of the daemon's downloads of one key |
| `UploadSpool` | intents, pending set, workers, replay, and the sweep that spares intents |
| `Handoff` | the publication of a C compile handed from wrapper to daemon |
| `Scheduler` | flights, permits and test leases over OS locks |
| `Execution` | a compiler invocation handed from client to daemon over a socket |
| `StoreProofs`, `DurabilityProofs`, `UploadSpoolProofs`, `HandoffProofs`, `SchedulerProofs`, `ExecutionProofs` | theorems and proofs about the module of that name |
| `KeyOwnerProofs` | theorems and proofs about `DownloadClaim` and `BuildLock` |
| `RemoteResilienceProofs` | theorems and proofs about `RemoteKnowledge` and `RemoteBreaker` |
| `MC...` | model values, setups and symmetries for TLC |

Definitions marked "Mutant" are plausible mistakes in the definition that
follows them. No specification uses them; they show that a property can fail.

Several modules have a constant `Setups` and a variable `setup`, chosen in `Init`
and never changed: which processes take part, how large a pool is, which faults
may happen. One run then covers several situations, and a property says for which
of them it is meant.

### Store

A file list (`Content`) is a function from file names to hashes, `None` where the
entry has no such file. Sizes, permissions and diagnostics are left out; a file
of the right hash has the right size.

* `row[k]` is the generation of k's row in `entries`, `map[k]` the generation
  its rows in `entry_blobs` describe, and `refs[h]` the `refcount` in `blobs`, 0
  standing for "no row". The code deletes a row whose count reaches zero, so
  these are the same thing.
* `meta[k]`, `art[k]` are the entry directory: meta.json and the artifacts that
  still lie beside it after an extraction. `blob` is the blob directory.
* `lock` is the writer lock while a transaction that has touched files is open.
  A transaction that touches none is one step with guard `lock = None`.

A **put** stages its outputs (`PutStage`), publishes each snapshot unless the
address is taken (`PutPublish`; the rename may also be deferred, as it may on
Windows), opens its transaction and materializes again what was unlinked
meanwhile (`PutRegister`), replaces meta.json (`PutMeta`) and commits
(`PutCommit`). `PutMismatch` is a transaction that finds the live output changed:
it rolls back and leaves what it wrote in the blob directory.

A **removal** reads meta.json (`RemoveRead`); if there is none it waits for the
current writer and judges again (`RemoveSettle`); its transaction deletes the
row, checks that meta.json is still the one it read, and gives back the
references of the file list (`RemoveTx`); its second transaction removes the
directory unless the key was published again (`RemoveDir`) and unlinks the blobs
that are still without a row (`RemoveUnlink`, `RemoveDone`). `RemoveSkip` is an
eviction that meets a recently used or externally retained entry.

The **orphan sweep** lists files without the lock and unlinks under it. A
**download** decides, clears the entry directory, renames the extracted one onto
its path, verifies the bytes, moves missing blobs and registers; a failed import
discards the directory of a key that has no row. **Migrate** is the lazy move of
leftover artifacts by a lookup. A **reconcile** opens its transaction
(`ReconcileBegin`), reads and verifies the meta.json of one committed entry after
another (`ReconcileRead`, into `plan`), removes the directories of the entries that
failed (`ReconcileScanned`, `ReconcileDrop`) and replaces both tables
(`ReconcileCommit`). Extractions, which take no lock, and lookups go on meanwhile.

`Stop` ends an operation at any point: an I/O error, a cancellation or a kill; a
reconcile may so end with directories gone and rows still there.

`phase` is history for the property about healing: "broken" once a fault has put the
index at risk, "healing" when a reconcile begins with no download of any key under
way, "sound" again when that reconcile commits without another fault in between.

Three constants switch on behaviour of the code that breaks its own invariants,
so that the rest can be checked without it and the effect can be shown with it:

* `TornPublish`: a put may end between meta.json and its commit *over an older
  committed generation*. Over no generation it may always end there.
* `OverlappingImport`: a download may share its key with other operations.
  Without it an importer has its key to itself from the decision to download to
  the commit.
* `Damage`: the phases in which files may disappear behind the store's back.

The first two also simplify: a put that ends over an older generation, and an import
that shares its key, do happen in the code, and the theorems that exclude them say
so. What they leave behind is the subject of `SelfHeals`, which excludes nothing.

### BuildLock

An inode is open in a process, locked by a process, and named by the path, each
independently. `Open`, `TryLock`, `Current` and `Replaced` are the loop of
`acquire_current`; `goal` tells a claim from the probe of a waiter, which drops
its lock at once. The miss path is `Lookup`, `Recheck`, `Compile`, `Publish`,
`Unlock`, or `Contended`, `Poll`, `Timeout`, `Probed`, `Waited` and, without the
key, `CompileUnlocked`. A sweep lists a stale file, opens it without creating it,
locks it, checks its age and identity, and unlinks *by name*. Evictions and
imports change `stored` at any time. `Unused` inodes are reused, as operating
systems do. The model is one key; keys share nothing.

### Durability

`blob[h]` is the state of the bytes at an address, `synced` says which are on
disk, `metaDisk` is the meta.json a power loss would leave, `held` the blobs a
flusher has verified and still has open while the path names the same file. A
power loss keeps, drops or damages each unsynced blob, keeps or undoes each
unsynced meta.json, and stops every process. Where the setup loses commits it may also take
the index back to its last checkpoint, which `synchronous = NORMAL` permits.
Reference counts are replaced by reachability (`Referenced`); `Store` is where
that is justified. `RemoveRow` stands for the whole removal transaction with the
row and meta.json agreeing. Restores are verified only because an entry is
pending: `KACHE_VERIFY_RESTORES` has its default, `off`. In strict mode a put
calls the same flush before it returns, which is a `Put` followed by a `Flush`.
`quiet[p]` is history: p's lookup read the meta.json of the committed generation, and
nobody has replaced or removed the entry since. One simplification: an unlinked file
does not come back after a power loss.

### RemoteBreaker

`mode`, `failures` and `epoch` are the fields of a direction's breaker; `permit[t]`
is what a task carries between `try_acquire` and `success`, `failure` or `drop`.
A result counts only when the permit's epoch is the breaker's (`FinishHealthy`,
`FinishPoisoned`); any other is `FinishStale`. Epochs are compared for equality
alone, so a small set stands for the 64-bit counter and one is reused when no
permit carries it. `answers` is the remote: while it is up no operation meets a
poisoning error.

### RemoteKnowledge

Each lock section of the code is one step, and the remote answers at one moment
between a request and its record. A reader takes an epoch, gets its 404 or its
pack, and records only when its epoch is still the key's latest; an uploader
takes an epoch before and another after its PUT; an item of a packed batch confirms
its key without either (`PackedImport`); a listing reads the epoch (`ListBegin`), then
the revision (`ListRevision`), then the remote, and is discarded when the index has
changed. Ages are not kept: an eviction takes any entry, and an entry may expire at
any time. `noted` (keys this daemon stored), `deleted` and `between` (misses recorded
and taken out of the index between the two reads of a listing) are there for the
properties only.

### DownloadClaim

One key. A request joins or leads a flight; leaders, prefetch items and packed
batches compete for the claim in the `downloading` map, whose value is a fresh
`Notify`. A waiter registers, looks whether the map still holds the Notify it
registered with, and sleeps; the guard's drop removes the claim, or hands the
removal to the runtime when the map is contended (`Release`, `SpawnedRemove`), and
then wakes whoever is registered. A prefetch item looks at the directory (`Look`),
waits for the gate and the semaphore, and claims (`PrefetchClaim`); `Held` is the
second look under the claim, `Clear`, `Rename` and `Import` the destructive download.
A task may be cancelled before the import and after it (`Cancel`, `CancelLate`).

### UploadSpool

A wrapper and, again, the handler of its request publish an intent
(`Look`, `Lock`, `Check`, `Publish`, `Sync`); `Send` is fire and forget; `Enqueue` and
`Retire` are the two sections under the lock of `pending_uploads`. A worker retries
until the remote answers or refuses, unlinks the intent after a success and retires
the job. A daemon binds, scans, serves, drains and exits. A scan that meets a file it
cannot read, or a temporary file that its publisher renames in between, replays
nothing (`ScanFails`; `missed` remembers what it left). `LosePower` brings back any mix
of the spool's changes since its last directory flush and undoes any commits of the
index (`undone`), which `synchronous = NORMAL` permits while the intent was flushed.

### Handoff

One key. The wrapper drops its lock, leaves a receipt and waits 25 ms; the handler
reserves a place, claims the key, copies the snapshots and renames the receipt.
Removal and rename of the receipt decide who writes the event, the claim decides
who publishes. A declined wrapper claims again, once more after a wait, and stores
only with the key. Claims and commits are the outcomes of `BuildLock`. A handler that
is aborted during its claim leaves the claim to the blocking pool, which may hold the
key for a moment longer (`AbortClaim`, `ClaimLate`, `DropClaim`). A worker that cannot
open the store closes the queue and lets its jobs go (`OpenFails`, `Discard`).

### Scheduler

Each slot, marker and flight is an OS lock that its holder's death releases. A scan
locks slots one after another, gives all back when it comes out short (`ScanShort`),
samples the wake counter, scans once more and sleeps (`Park`) until the counter
moves or a slice ends. An elastic test takes its further slots one by one (`TakeFree`).
`reserve_for`, `test_need` and `compile_need` are the code's
arithmetic. A setup fixes pool, weights, keys, parents and circumstances.

### Execution

Every attempt of a client is a connection of its own with its own handler, which
may outlive the client's interest in it. Replies are a sequence per connection,
Commit is "none", "torn" or "sent". The worker asks the client to spawn the
compiler (`ask`), registers it under the registry lock and waits; a cancelled
connection kills what is registered. The client may refuse (`Refuse`), the answer may
get lost after the compiler was started (`SpawnLost`), and so may that to a status
request (`WaitLost`); what runs on is killed when the client closes. Deadlines,
refusals, drains, crashes and killed clients are switched on by constants. The
pipeline spawns probes and pre-passes through the same function; the model has one
spawn per worker, the compiler's, so that "once" is a result across hand-overs and
not within one worker's pipeline.

## 3. Runs

| Run | Instance | Checks |
|---|---|---|
| `store` | 2 processes, one an importer; 2 keys, 2 blobs, 2 file names; no faults | counts cover their owners, only a migration raises them above, rows paired with meta.json, the inductive invariant, refinement of `CacheSpec` |
| `store_heal` | 2 processes, one an importer; 2 keys that share a blob or list it twice; all three faults on | a reconcile that begins after the last fault heals the index, and it stays healed |
| `store_torn` | 2 processes, torn publications | a disagreement, section 5 |
| `lock` | 2 builders, 1 sweeper, 3 inodes, 2 attempts; fairness | one holder, sweeps spare holders, one store per absence, every invocation ends |
| `durability` | 2 processes and 2 keys; 2 processes, 1 key and both faults; 1 process and 2 keys | durable entries intact and paired, a flush certifies only what is right, hits of undisturbed lookups intact |
| `breaker` | 2 tasks, 4 epochs, threshold 2; fairness | one probe, only it closes, a remote that is back is used again |
| `knowledge` | 2 readers, 1 uploader, 1 lister on 1 key with deletions; 3 keys in caches for one | limits, no uploaded key a remembered miss, no listing erases one, views agree but for what a listing cannot notice |
| `claim` | a request behind two prefetches; two requests; a request with a deadline, a prefetch and a batch; fairness | one writer, no download over a published entry, every request answered |
| `spool` | five setups of 2 wrappers with handlers, workers and a sweep; fairness | one job per key, backed by its intent; bounded spool; no intent without entry; no recorded upload lost unless its commit is; all arrive unless a scan fails on them |
| `handoff` | 2 wrappers under every trouble, under all but failing files, and with a worker that has no store; 3 wrappers and failing puts; fairness | one event, one publication, every event written, every key freed |
| `scheduler` | five setups of up to 3 processes, pools of 2 and 3; fairness | markers and slots agree, one admitted wrapper per key, everyone ends |
| `execution` | 1 client with 2 attempts, its compiler ending or not; 2 clients with 1 permit; every fault; fairness | one start, no permit returned twice, one owner, every client ends, cancellation frees the worker |

**Bounds.** *store*: two keys and two blobs give a shared blob, a blob of one key
only, a replacement by a different list, and a list that names one blob twice.
`MaxRefs` bounds the counts where a registration opens: at 2 two keys share both
blobs, or one key holds one of them twice, and a migration can still raise a count
above its owners. *store_heal* has one blob, so that every torn list and every
overlap meets a shared count; files are lost only from a sound index, since a loss
from a broken one adds nothing to what a reconcile must repair. *lock*: one builder waits while the other holds and the sweeper
unlinks by name what was created since; three inodes are one at the path, one
locked after its unlink and one being created. `LOCK_OPEN_ATTEMPTS` is 4 in the
code; 2 already has a retry and an exhaustion. *breaker*: both directions, a permit
of an old generation beside a probe, and four epochs so that none in use is
reused; the counter saturates one above the threshold. *knowledge*: four epochs
are two readers and both of an upload's; caches with room for one entry
and two epochs meet every eviction with three keys. *claim*: three tasks are a
holder, a waiter and a task that arrives between them; fresh `Notify`s are taken
from eight, more than three tasks, a spawned removal and a pending wake-up ever
hold, so that there is always one. *spool*: one stop per daemon and a spool of one
job; two handlers and two workers meet on one key; power is lost beside a sweep; a
scan meets the temporary file of a second key. *handoff*: a queue of one,
so that the third wrapper meets a full one. *scheduler*: pools of 2 and 3 have a
reserve of 1 and weights and floors at and above what is free. *execution*: two
attempts leave a handler of an earlier one behind.

Keys, and in `durability` and `knowledge` processes, are interchangeable in the
safety runs and are declared symmetric; no run that checks liveness declares any.

**Fairness.** Everywhere a process that can take its next step takes it (`WF`): the
operating system and the runtime schedule it, and a lock attempt answers. In
addition:

* `lock`: a waiter that comes back to its sleep infinitely often finds
  `BUILD_LOCK_TIMEOUT` expired (`SF` on `Timeout`): the deadline is fixed when the
  wait starts. Nothing is assumed of sweepers, evictions or holders that die.
* `breaker`: an open direction cools down, every operation ends (each has a
  deadline), and builds go on, so that one of them is admitted as probe and not
  every probe is cancelled (`SF`). Nothing is assumed of the remote: the property
  speaks of behaviours in which it stays up.
* `claim`: the tasks of the setup and the runtime's spawned removals run.
* `spool`: the next build starts a daemon, a drain ends, `gc.lock` is fair to those
  who wait (`SF`: the wait is a blocking OS lock with no timeout), and a remote
  asked infinitely often answers (`SF` on `Head` and `Put`: the worker's retries have
  no end). Liveness is claimed only where nothing else goes wrong.
* `handoff`: wrappers, handlers and the worker run; whether a build starts is open.
* `scheduler`: where waits time out, a wait that is scanned infinitely often does
  (`SF` on `ScanStop`: one deadline per wait). Two setups have no timeout at all.
* `execution`: a compiler of a client outside `endless` exits; one inside may not.

**Deadlock** is checked in `store`, `store_heal`, `lock`, `durability`, `breaker`,
`knowledge` and `claim`. In the other four every process may be done.

## 4. Proofs

The theorems hold for every set of keys, names, hashes, processes, tasks, inodes
and tries, every pool, limit and threshold, and every combination of troubles a
setup may have, as long as the modules' assumptions are met. Those ask for finite
keys, names and processes, for distinct model values, for well-formed setups, and in
`DownloadClaim` for more `Notify`s and flights than tasks can hold: the code
allocates them, so a new one always exists. TLC evaluates every assumption on its
instance.

Each module's safety properties are joined, with what it takes to prove them, in one
invariant of named parts (`IndInv`, `LockInv`, `DurabilityInv`, `BreakerInv`,
`KnowledgeInv`, `OneWriter`, `SpoolInv`, `HandoffInv`, `SchedulerInv`,
`ExecutionInv`). The runs check the same definitions. A proof has one lemma per part
and in it one step per action.

**Store.** There are two invariants. `HealInv` holds under every fault: types, who
works on what and who holds the writer lock (`Working`, `LockHeld`) always; `SelfHeals`
always, which says something only in a sound phase; and outside the broken phase that
a registration about to commit has its blobs (`Ready`) and its meta.json (`NewMeta`),
that an import has its key to itself (`Alone`), and `Scanned`: what a reconcile has
read of a committed entry is still its meta.json, with all its blobs. The last is what
makes a scan of one file after another as good as a snapshot: while it holds the
writer lock no put, removal or sweep changes a row, a meta.json or a blob of a
committed entry, and an extraction that does so is an overlap, hence a fault that
makes the phase broken. At the commit `Scanned` turns into `SelfHeals`
(`StoreSelfHeals`). `IndInv` is `HealInv` in a sound phase, with the agreement of row
and mapping also inside transactions (`Mapped`); it is the invariant of behaviours
without faults. `RefcountCovers` alone is not inductive: a
removal spends the file list of meta.json, and only `PairedMeta` with `Mapped`
says that this is what the key's mapping holds. `PairedMeta` in turn needs
`NewMeta` for the commit of a put. `NoDanglingRow` needs `Ready` for a commit and
`RefcountCovers` for an unlink: no row in `blobs` means no owner. The counting
argument is in three lemmas: `RefsExchange` splits the references on a hash into
one key's and the others', `RegisterCovers` and `RemovalCovers` use it for the two
transactions. From the invariant follow `StoreTypes`, `StoreCounts`,
`StoreServable`, `StorePaired` and the refinement `StoreImplementsCache`, in which
every step of the store is one of the four steps of `CacheSpec` or a stutter.
`StoreNoDrift` looks at the counts from above: a registration or removal that finds
every owner counted (`RefcountCovers`, `OwnedAmongRefs`) gives back exactly what its
key held, a reconcile leaves no surplus, and only a migration adds one.
`StoreHealInvariant`, `StoreSelfHeals` and `StoreTypes` assume nothing; the others
assume `~OverlappingImport`, `~TornPublish` and no `Damage`.

**Lock.** `LockInv` says that a process past its `try_lock` owns the inode it has
open, and that the inode of a holder, and of a sweep about to unlink, is the one
at the path (`AtPath`). Mutual exclusion follows, since two holders would own one
inode. `AtPath` is inductive because the only step that empties the path is an
unlink, whose sweep owns the inode at the path. `Unbuilt` carries the re-check to
the store. All four theorems are unconditional.

**Durability.** `FlushSound` needs only the types and `HeldIntact` (a verified file
that is still at its path is right and synced), so it holds with every fault. This
part of the invariant, `Basic`, is proved for all behaviours. `Sound` adds the marks
themselves; its steps are proved where the setup has neither torn publications nor
lost commits, and `SetupFixed` carries that condition along a behaviour.
`DurabilityInv` joins the two: the claims about durable entries are conditional on
`NoFaults`, the rest is not. `QuietHitsIntact` is about any number of concurrent
processes. Its part of the invariant, `Undisturbed`, says that a lookup nobody
disturbs has the file list of the committed generation and, once it trusts the flag,
right bytes behind it: its row keeps every sweep and removal of other keys off these
blobs, and a durable entry survives what a power loss does. What disturbs a lookup is
a removal or a replacement of its own entry; section 5 shows what happens then.

**Breaker.** `BreakerInv` says of epochs what modes mean: while a direction is open no
permit carries its epoch, a probe of the current epoch belongs to a half-open
direction, and that has exactly one. `OneProbe` alone is not inductive: the probe
is admitted out of the open state, and only `OpenIsFresh` says that no other permit
of that epoch is about. A step that opens a direction takes an epoch no permit
carries, which re-establishes it. `RecoveryByProbe` follows for each way a breaker
closes. Both hold for any tasks, epochs and threshold.

`BuildLock` and `RemoteBreaker` have names that keep them apart from the component
their proofs stand beside (`LockSpec` and `DownloadClaim`'s `Spec`, `BreakerSpec` and
`RemoteKnowledge`'s `Spec`); the proof modules extend both and no theorem relates the
two.

**Knowledge.** An observation carries the epoch its reader drew, and `Fresh` says that
no two readers carry the same one and that none is ahead of the counter. The centre is
`Outdated`: once the daemon knows a key to be in the remote, no observation that
missed it can still be recorded. It holds because whatever makes a key known draws a
new epoch, and because a key whose epoch was forgotten for want of room accepts no
observation at all. `UploadsNotNegative` is a part of it. `ViewsDoNotContradict` needs
`Apart`, that a remembered miss is in the index only while its reader is about to take
it out, and this in turn needs `Listings`: a listing whose revision is still the
index's has cleared, or will clear, every miss of a key it lists, and misses no upload
that is through with the index. Both leave out the misses in `between`, which were
recorded above the listing's epoch and removed from the index before it read the
revision; for the others the two reads amount to one. `ListingsKeepUploads` is its second half. The limits
of the two caches are proved by counting (`RoomFacts`, `ForgetFacts`).

**Claims.** `OneWriter` says that the claim in the map is its owner's `Notify`, or that
of a removal the runtime has still to run, and never both. `Placed` keeps each task
where its kind goes; `Flying` makes a leader's flight the one in the map, from which
it follows that a key has one. That a new `Notify` is nobody else's is a pigeonhole
argument over the tasks. `Looked`, from which `ClaimRechecked` follows, says that what
a task looked for under the claim stays away: only the claim's owner publishes. What a
prefetch saw before its wait for gate and semaphore plays no part.

**Spool.** `SpoolInv` follows an intent through its life: `Locked` (who is inside
`gc.lock`), `Jobs` (a pending key is queued once or with one worker, whose intent is
there), `Retired` (an intent goes only when its upload is over, also from what a flush
will make of the directory) and `Spared` (what a sweep is about to evict has no
intent). `NotLost` and `IntentHasEntry` are inductive beside it. `Settled` says when an upload
is over, and counts entries that a power loss undid among those that are: their intents
are retired without an upload. The bound on files is
a count of intents and temporary files that every publisher takes under the lock.

**Hand-off.** `Receipts` and `Counted` say who owns the event from the state of the
receipt alone: the daemon's job that renamed it, or the wrapper that removed it.
`KeyHeld` says that whoever is to store the entry has the key and the entry is absent,
from which `HandoffPublishesOnce` follows.

**Scheduler.** A marker backs a slot of the same holder (`MarkerBacked`), slots are held
from the scan to the release and by a test above the reserve only (`Sitting`), and a
keyed wrapper asks for slots and holds them inside its flight (`InFlight`). The last
gives `SchedulerOneAdmitted`: two wrappers of one key would be in one flight.

**Execution.** The chain to one owner is: a client writes Commit only on its current
connection, after Prepared, and never falls back from there (`Prepared`, `Commits`); a
handler passes on only behind a Commit it read, with at most two replies on their way
(`Replies`); a worker exists only behind such a handler and asks for a compiler once
(`Workers`, `Started`). The permits are counted: those that are free and those held
never exceed the semaphore (`Permits`).

Answers that get lost, refusals and children that run on unregistered change nothing
in this chain: a request that was served stays served.

**Only model-checked.** All liveness (`Finishes`, `Recovers`, `Answered`, `Uploaded`,
`EventWritten`, `KeyFreed`, `EveryoneEnds`, `EveryClientEnds`, `CancelReaps`): fairness
is outside the prover. Every invariant and every action property the passing runs
check is a theorem.

## 5. Where the code and its comments disagree

With a run:

* `store_torn`. The comment on phase 2 of put says that either the whole entry
  becomes visible "or none of it does". The tables do behave so; meta.json does
  not. A commit that fails after meta.json was replaced leaves the old row with
  the new file list, and the next removal of the key decrements hashes the key
  never counted. A reconcile repairs it (`store_heal`), but a removal that comes
  first takes references of other entries.

Met while modelling; TLC reproduces each on these modules when the exception is taken
out of the property named, or when what the comment says is stated without it (no
`cfg` is kept for these). The properties of the runs are stated around them:

* `remote_layout.rs:795`. The removal's guard relies on the pairing of row and
  meta.json being fixed under the writer lock. An extraction replaces the directory
  without that lock, so a put that commits during a download loses its meta.json
  (`PairedMeta` with `OverlappingImport`).
* `store.rs:4404`. `get` reads meta.json and then the durable flag. If the row is
  removed in between, `entry_is_durable` answers true and the content check of an
  unflushed entry is skipped, where the comment at `store.rs:2574` promises it until
  the flush lands. Eleven states: a put commits, power is lost and damages its
  unsynced blob, a lookup reads meta.json, another process removes the row, the
  lookup finds no row and serves (`HitsIntact` without `quiet`).
* `store.rs:1682`. A power loss that undoes the latest index commits can bring back
  a row with `durable = 1` whose blob was since unlinked and published again without
  an fsync (`HitsIntact` with lost commits).
* `daemon.rs:3938`. Negative cache and index are updated in two lock sections, so a
  restore may put a key into the index after a later one recorded its miss;
  `ViewsAgree` therefore excludes keys that were deleted from the remote.
* `daemon.rs:4017`. A restore that saw the key missing removes it from the index
  after an upload has put it there; "A successful PUT flips the key positive
  immediately" (`daemon.rs:3448`) then lasts only until that removal.
* `daemon.rs:7371`. A listing reads the epoch of the negative cache and then the
  revision of the index. A restore that begins, gets its 404, records it and removes
  the key from the index between the two has an epoch above the listing's and a
  revision the listing knows; if another machine stores the object before the LIST,
  the listing clears nothing and is installed, and the key is at once a remembered miss
  and in the index, until the miss expires. The comment at `daemon.rs:7452` says that
  "the two views cannot contradict each other" (`ViewsAgree` without `between`). Read
  in the other order, the two values would not let this happen.
* `daemon.rs:7115`. A packed batch looks at the directory before it wins the claim
  and not again, so that "only when it is absent on disk" does not hold at the claim;
  `RecheckedClear` speaks of prefetches and of requests that waited.
* `daemon.rs:3177`. A request for a key whose pending job has failed for good is
  answered as a duplicate; the retirement then unlinks the intent both share, and a
  recompiled entry loses its upload against `daemon.rs:8079`. `NotLost` excludes
  refusals and removed entries.
* `store.rs:1682`. The intent of an upload is flushed to disk, the commit of its entry
  is not. After a power loss that undoes the commit the replayed job finds no entry and
  retires the intent: a recorded upload is gone (`NotLost` without `undone`). The entry
  is gone too, so the next build stores and records it again.
* `daemon.rs:6622`. One unreadable file in the spool, or a temporary file renamed
  between the listing and `metadata()?` (line 741), ends the replay; the daemon serves
  without it, and the intents wait for the next start or the next request (`Uploaded`
  without `missed`).
* `daemon_publish.rs:389`. A worker that cannot open the store lets accepted jobs go;
  their receipts are renamed already, so nobody writes their events (`EventWritten`
  without `NoStore`).
* `wrapper.rs:5399`. Between a declined wrapper's wait and its second claim its own
  late handler may take the key, find the snapshots gone and refuse: nobody stores
  the compile, where the comment says the holder publishes it.
* `daemon_publish.rs:289`. A handler that finds its receipt cancelled after its
  snapshot publishes all the same, without the event; the comment at line 596 says
  that a late handler "cannot publish after fallback". `PublishedOnce` shows why
  this does no harm: the fallback stores only with the key.

The doc comment of `remove_entry` also says that row, counts and unlinks "all
happen inside one transaction"; the code uses two on purpose and explains why
further down. A power loss that brings a removed intent back beside a temporary file
can push the spool past its limit; `SpoolBounded` leaves it out. It can also leave an
intent without its entry: the worker unlinks the intent without a flush, a sweep then
finds no intent and evicts the entry, and the power loss brings the intent back. The
upload was over, so the next replay finds the key in the remote; `IntentHasEntry` says
so.

## 6. Not modelled, and the plan

The repository has about 280 thousand lines, of which the shared state treated here
is a few thousand. The rest is out of reach of a faithful model, for one of three
reasons that `PROJECT.json` gives part by part: pure functions whose correctness is a
matter of what compilers do with their inputs (cache keys, path normalization,
argument parsing, build scripts, link keys), input and output without shared state
(reports, interfaces, configuration, shims, remote protocols, file copies), and tests.
A model of those would repeat the code.

Left out of the parts that are modelled: the index rebuild after a quarantine,
which validates entries without the lock and registers them with `durable = 1`; batch
import; eviction's ranking, recency stamps and budgets; the age order of
`flush_durability`, where entries that never verify can keep younger ones from being
flushed; error classification by text; the orphan sweep of old hand-off directories;
Windows pipes; the workspace broker.

Next:

1. `Handoff` over the lock files of `BuildLock` instead of over the outcomes of a
   claim, and an abstract specification of "one publisher per key" for both.
2. `Store`: index rebuild and batch import.
