# Verification of rust-file-mirror

TLA+ models of the mirror, its daemon and the backup repository, the TLC runs
that check them on small instances, and TLAPS proofs of the results that matter
most. Source paths below are relative to `src/crates/`, and to `mirror-core/src/`
where no crate is named.

## 1. The system

`rfm` mirrors a folder between devices through an S3-compatible bucket, encrypted
on the client, and keeps deduplicated backups in the same bucket. There is no
server: devices share nothing but objects, whose requests (put, get, list,
delete) are atomic one by one and never together.

| Component | State | Operations | Talks to |
|---|---|---|---|
| Remote manifest (`manifest.rs`) | delta log `log/<lamport>-<device>-<seq>`, snapshots `manifest/<generation>` | `log_delta`, `read_deltas`, `merge_deltas`, `to_store`, `from_store`, `compact`, `collect_garbage` | object store |
| Reconcile engine (`engine.rs`) | none | `classify`, `decide`, `placeholder_action`, `reconcile_with` | pure |
| Sync pass (`sync.rs`, `apply/`) | plan, pass clock, open batch (volatile) | `plan_pass`, `preserve_conflict_losers`, `apply`, `flush`, `evict_pass` | all of the above, the folder, the database |
| State database (`state.rs`) | baseline rows, Lamport counter, seen manifest generation, pins, upload rows | `confirm_sync`, `remove`, `record_scan`, `record_lamport`, ... | SQLite |
| Scanner (`scanner.rs`, `util/file.rs`) | hash cache in the rows | `scan_all_with`, `hash_stable` | the folder |
| Residency (`residency.rs`, `placeholder.rs`, `apply/evict.rs`) | placeholders, evicted flags, pins | `evict`, `hydrate`, `relocate` | folder, database, engine |
| Multipart upload (`apply/upload.rs`, `store/s3.rs`) | upload rows, parts, open uploads | `upload`, `resume_uploads`, `verify_remote` | store, database |
| Content encryption (`crypto/content.rs`) | an encryptor's counter, a decryptor's buffer | `encrypt_next_part`, `feed`, `finish` | upload, download |
| Watch daemon (`mirror-cli/src/watch.rs`, `events.rs`) | lock, socket, trigger queues, status, event ring | poll, file events, control socket, workers, shutdown | sync pass, backup, tray |
| Setup (`mirror-cli/src/main.rs`, `crypto/vault.rs`) | vault header, config, passphrase file | `init`, join, reconfigure, key derivation | everything that needs keys |
| Backup repository (`backup-core/src/repo.rs`, `index.rs`, `pack.rs`) | packs, index objects, snapshots; open pack and in-flight set (volatile) | `open`, `save_blob`, `flush`, `adopt_orphans`, `save_snapshot` | store |
| Archiver (`archiver.rs`, `journal.rs`) | parent tree, worker pool, resume journal | `backup`, `archive_dir`, `archive_file`, `archive_offloaded` | repository, lock, the folder |
| Repository locks (`lock.rs`) | lock objects with their last write | `acquire`, `refresh`, `ensure_held`, `remove_stale`, `release` | store |
| Prune (`prune.rs`) | none of its own | `select`, `prune_locked`, `copy_needed` | repository, lock |
| Restore and verify (`restorer.rs`, `verify.rs`) | the target directory | `restore`, `verify` | repository |
| Tray and terminal UI (`rfm-tray/src`, `mirror-cli/src/tui`) | a view of the daemon's status | `subscribe_forever`, `apply_event` | daemon |

What is hard here: devices act on views of the log that are already old;
processes die between two of several writes (file, object, delta, row, counter);
users write while a pass runs; compaction and prune delete shared objects under
readers; locks expire while their holder sleeps; triggers are coalesced and
events lost. The list, with lines, is `hazards` in `PROJECT.json`.

What makes each part correct:

* manifest: every reader computes the same winners, from any order, any
  repetition and any compacted prefix; only forks are conflicts;
* sync pass: the database never claims more than the log says; log keys and
  stamps are never reused; a logged version can be fetched; no user's version
  disappears; devices that stop having work are equal, and get there;
* uploads: whatever is interrupted, a logged version decrypts to its content, the
  database claims only parts that are stored, and nothing stays pending;
* residency: an evicted version can be fetched back or is still on the disk, and
  an eviction or a crash is never taken for a deletion;
* compaction: the store never says less than was logged, no referenced object is
  collected, no honest device is refused;
* daemon: one writer per root, every change reaches a pass that finishes, every
  request and shutdown ends;
* backup: every visible snapshot is restorable at every instant and says what was
  on the disk; a prune is alone; a finished prune leaves no dead pack; a restore
  that reports success is exact;
* setup: what is written under a prefix can be read with that prefix's vault.

## 2. Modules

| Module | Models | Composes |
|---|---|---|
| `Manifest` | `manifest.rs`: entries, `winner_key`, `merge_deltas` | pure |
| `Engine` | `engine.rs` for one path, placeholders included | pure |
| `Mirror` | passes of any number of devices over files kept local, with an uncompacted log | `Manifest`, `Engine` |
| `Compaction` | `from_store` ... `collect_garbage`, request by request | `Manifest` |
| `Upload` | transfers part by part, upload rows, `resume_uploads`, repair, on one device | `Manifest`, `Engine` |
| `Residency` | placeholders, pins, hydration, relocation, `evict_one`, on one device | `Engine` |
| `Eviction` | which files `evict_pass` chooses | |
| `HashCache` | one file, the scan's cache of it, and every read and replacement of it | |
| `Stream` | encryption in parts, resumed streams, and reading in arbitrary pieces | |
| `SyncService` | what the daemon promises: an abstract specification | |
| `Daemon` | daemons and what runs beside them | implements `SyncService` |
| `Setup` | `rfm init`, keys, first passes and repositories | `Engine` |
| `Backup` | `repo.rs`, `lock.rs`, `prune.rs` and the order of a backup | |
| `Archive` | the walk, the workers, the resume journal | |
| `Pack` | pack and index objects as they are written and read back, adopted and rebuilt | |
| `Retention` | `select`'s keep rules, when a backup is due | |
| `Restore` | restore and verify | |
| `MC...` | instances for TLC; `MCAlgorithms` puts `Manifest`, `Stream`, `Pack`, `Retention`, `Eviction` and `HashCache` into one run, one of them per behaviour, and `MCArchive` does so with `Archive` and `Restore` | |
| `ManifestProofs`, `MirrorProofs`, `CompactionProofs`, `DeviceProofs`, `BackupProofs`, `DaemonProofs`, `ArchiveProofs`, `FileProofs` | theorems | |

Definitions named `x_variant` are faulty versions of `x`, used to see that the
property they are listed with in `PROJECT.json` can fail.

**Manifest, Engine.** Hashes and device ids are positive numbers, 0 is `None`; the
code compares them only for equality and order. `merge_deltas` is the code's loop as
a fold; `Merged` and `LogConflicts` say what it computes, and `Algorithms` checks
that they do, so the larger modules use the closed forms. `reconcile_path` is one
path of `reconcile_with`; `reconcile` is the case without placeholders.

**Mirror.** Per device: `files` (folder), `base` and `clock` (database), and the
volatile pass: `pc`, `view` (its manifest), `losers`, `plan`, `stamp` (its lamport),
`seq`, `deltas`, `ops` (the batch). Shared: `log`, `objects`. `live` is a ghost: the
contents users wrote and did not themselves replace or delete.

| Action | Code |
|---|---|
| `ReadLog` | `plan_pass` up to the merge; the pass's lamport is fixed here |
| `Preserve` | one loser of `preserve_conflict_losers`: rename aside, drop the row |
| `Scan` | scan and `reconcile`; a file that keeps changing is missing from the scan |
| `Upload`, `UploadVanished`, `Download` | the concurrent transfers of `apply`, in any order |
| `DeleteLocal`, `DeleteRemote`, `Conflict` | the second loop of `apply`, in the order of `ActionKind` |
| `FlushLog`, `FlushOp`, `FlushDone`, `Finish` | `flush`: the delta object, the rows one by one; `record_lamport` |
| `TransferFails` | a failed transfer is skipped, the pass goes on |
| `Abort`, `AbortInRename` | an error that ends the pass, or a crash at any step |
| `UserWrite`, `UserDelete` | the user |

**Compaction.** Writers store an object and then log its delta. A pass reads the
newest snapshot, then the log (two requests); compaction re-reads both, picks a
generation from a listing, puts, verifies, prunes deltas and the superseded
snapshot, re-reads the references and collects garbage, one delete at a time; it may
die anywhere. Age is relative (`AgeDelta`, `AgeSnap`, `Expire`): something is old only
if no running job overlaps the pass that wrote it, since no pass lasts a day.

**Upload.** Device `Me` beside peers that log newer versions. A transfer (`up[p]`)
hashes, starts, reads and sends part by part; each part is recorded in `rows[p]`
before the next. A stored part remembers the content it was read from, its number
and its stream's nonce, so an object is `Whole` exactly if it would decrypt to the
content its key names. `ResumeUpload` ... `ResumeDone` are `resume_uploads`, which
runs before `apply` in the next pass. `RepairOne` is `rfm doctor`. A user's write goes
into the file that a transfer reads (in place, or by a rename before it is opened), or
past it; no content is written twice. `torn` is a ghost: the versions whose file was
written under their transfer.

**Residency.** One device; the log is the live version of each path and the losing
versions of ours it still reports. A stub is a file `p.rfm` that may be moved or
deleted by the user. An eviction is a sequence of steps (`CheckFile`, `RemoteOk`,
`MarkEvicted`, `WriteStub`, `MoveAside`, `Restat`, `Unlink`, `PutBack`, `RemoveStub`,
`MarkLocal`), between any two of which the user may save the file or the process may
die. `owed` is a ghost: versions nobody replaced or deleted. A loser that is evicted
is relocated: `PreserveLoser` gives it a name and the pass copies its object there, unless that
fails, and then `pinned` keeps its path as it is for the rest of the pass.

**Eviction.** The choice that precedes it: asked for, pinned, or needed for space.
**HashCache.** A file that is read piece by piece while its user writes it: in place,
under the open handle, or by a rename that the handle does not see.

**Stream.** A frame is its counter and its bytes; sealing is ideal. Parts are
produced by `encrypt_next_part` and, after an interruption, by a new encryptor that
skips what is stored; a reader gets the object, a prefix, or another one, in
pieces of any size.

**SyncService, Daemon.** `SyncService` says that passes run one at a time and that a
change is either seen by the running pass or owed another one. `Daemon` has the
processes: daemons with their lock, socket, main loop, worker and backup worker,
clients on the control socket, the tray as a subscriber behind the event ring, and
`rfm evict` and `rfm sync`, which run passes of their own. Its refinement mapping
(`Owed`, `PassIn`) says that a pass is owed when nobody serves, when a trigger or a
file notice waits, or when the last pass did not succeed.

**Setup.** A vault is known by its salt; salt and passphrase determine the keys.
`init` loads and then creates, two requests; a device that was set up runs passes of
`Engine` for one file and opens the repository.

**Backup.** `run[c]` is what a client's command knows: the listings it has read, the
parent, its open pack (`writer`), packs on their way up (`inflight`), packs to index.
Both commands read the repository before they take the lock, as the code does; a ghost,
`overtaken`, has the backups whose index was deleted by a prune in between, and those
that start from the snapshot of such a one. A
pack may be full after any blob. `Sleep` is a host suspended for more than
`STALE_AFTER`. Packs age only while no run is going on: `ORPHAN_GRACE` is a week.

**Archive.** One directory, walked in the order of its names while workers read files
chunk by chunk. The owner writes, replaces, links and deletes; the mirror turns files
into placeholders and back. `journal` survives a run that dies. The repository is the
one of `Backup`: blobs in packs (`stored`), some covered by indexes (`durable`).

**Pack.** Pack objects as sequences of sealed blobs, sealed header and footer, cut at
any place, overwritten or stored under another's name; `load_header_sized` with its
speculative tail read; index objects and how they are merged, adopted and rebuilt.
**Retention.** Snapshots taken over time and pruned again and again by one policy.
**Restore.** `PlanTree`, `MakeSymlink`, `CreateFile`, `Fetch`, `HardLink`, `Finish` over a
target that may hold anything already; `Verify` of the repository before.

## 3. Runs

All bounds are constants of the cfg files. A property called `Consistent` is the
type invariant of its module together with the invariants that say the state is
well formed, named in its definition; those of `Restore` and `Setup` are called
`RestoreConsistent` and `SetupConsistent`, since the module of their proofs extends
`Archive`, or `Residency`, too.

| Run | Instance | Shows |
|---|---|---|
| `Mirror_log` | 2 devices, 2 files, batches of 1, 2 edits or deletes at any time, 1 fault | stamps are unique (`Consistent`), rows never run ahead of the log (`BaselineLogged`), every entry has its object (`LogPointsAtObjects`), log keys are never reused (`NothingOverwritten`), folders become and stay equal (`Convergence`) |
| `Mirror_edits` | 2 devices, 1 file, 3 writes between passes, 1 fault | no version is lost (`NoLostEdit`), each is kept once between two devices (`OneCopy`), the winner keeps the name (`WinnerKeepsPath`) |
| `Algorithms` | all logs of 3 entries; files of up to 6 bytes in chunks of 2 and parts of 1, 4 and 6, 2 interruptions; 2 packs of 2 blobs; 4 snapshots of 2 series; 3 files that compete for space; a file saved up to 3 times around a pass | the merge is the set of winners and its conflicts are the forks; an object is the encrypted file however its upload was cut, and a reader gives the file or refuses; packs describe themselves and every stored blob is found; prunes keep what the policy promises; evictions are due; no edit goes unnoticed |
| `Compaction_one` | 2 compactors one after the other, a writer, 2 writes, 2 jobs, 1 abort | no honest device is refused (`Consistent`), snapshot and log say what the history says and GC keeps what they name (`NothingLost`) |
| `Backup_runs` | 2 hosts, 2 blobs, 2 earlier snapshots, 2 runs of which at most one prune, 1 failure or crash, 1 sleep | a prune is alone and nothing is stored twice (`Consistent`), every snapshot is restorable, those of overtaken backups in part (`Restorable`), a finished prune leaves no dead pack (`PruneReclaims`) |
| `Upload_resume` | 2 files of 1 and 2 parts, an edit that changes the length or keeps it, a peer's edit, 2 faults, 6 uploads | rows are true and no upload leaks (`Consistent`), a logged version is whole unless its file was written under its transfer (`LoggedIsWhole`), nothing stays pending (`Settles`) |
| `Residency_evict` | 2 files and 2 copy names, an edit, 2 requests, a peer's edit, 1 fault | no version is lost (`Consistent`), an eviction is not taken for a deletion (`NoStrayDelete`), pins are honoured in the end (`Settles`) |
| `Daemon_watch` | 2 daemons, a client, a direct eviction, a subscriber, a backup schedule, a change, 1 fault; a behaviour has two of these parties | the socket leads to the daemon and a queued sync is run (`Consistent`), the tray's view comes right (`ViewAgrees`), `SyncService` is implemented (`Implements`), changes are synced and backups taken (`Settles`), requests and shutdowns end (`Ends`) |
| `Archive_restore` | 2 files of 2 shared chunks, 2 runs, 2 events; a restore of 2 entries, one foreign name, from 7 repositories of which 6 are damaged | snapshots are whole and their hashes true (`Consistent`), they say what the disk said (`SnapshotIsDisk`), nothing is left out unsaid (`Accounted`); a restore that reports success is exact (`RestoreConsistent`), what is not to be replaced is untouched, a verified repository restores |
| `Setup_join` | 2 devices, 2 prefixes, 2 passphrases, 2 vaults | what is written can be read with the prefix's vault (`SetupConsistent`) |
| `Daemon_sync` | a daemon and one `rfm sync` | expected violation of `WritesNeverContend`, see below |
| `Residency_losers` | a file and a copy's name, an edit, an eviction, 2 peer's changes, 1 fault | expected violation of `Kept`, see below |

The bounds are small because the interesting cases are: two devices and three
writes give concurrent edits, an edit over a conflict and a delete against an
edit; batches of one put a flush between any two actions; one fault reaches every
crash point, since every point is a step, and a resumed upload takes a second one to
be interrupted again. Two blobs are one that is shared and one that is not; two
chunks give reads that straddle a change; two parts are the least that can be
resumed in the middle, contents of one and two parts tell a single put from a
multipart, and two contents of two parts give the edit that no comparison of lengths
finds (`Start` and `Writes` name what files hold at first and what is written). Two daemons are one that dies and one that takes over; a
trigger queue of one is the code's. In `Algorithms` chunk, tag and part sizes are
small numbers whose ratios give every case of the real ones: a part that ends on a
frame or in one, a file shorter than a chunk, a header larger than the tail read.
`HASH_ATTEMPTS` is 2 there, 3 in the code. In `Backup_runs` hosts and blobs, in
`Setup_join` devices, prefixes and passphrases are interchangeable (symmetry); all
properties of these two runs are invariants. `CHECK_DEADLOCK FALSE` is set where the
bounds end every behaviour. The `Mirror` runs check deadlock: `Rest` is the only place
a system of idle devices may stay.

Larger instances checked once: `Compaction_one` with `MaxJobs = 3` and
`MaxAborts = 0`, and with one content, one write, three jobs and one abort.

**Fairness.** `Mirror`, `Upload`, `Residency`: weak fairness of a device's pass. The
daemon triggers a pass at every poll tick (`mirror-cli/src/watch.rs:246-264`), whatever
happened to the last one, and a pass awaits only its own requests, which end or
fail. `Upload` adds strong fairness of `PlanPass`, because a repair keeps the device
from planning for a while and repairs are started by hand, seldom. `Daemon`: weak
fairness of the main loop and of shutdown, of the worker and its pass, of the backup
worker, of the poll timer and of the backup timer, each a task of its own in the
runtime. The debouncer, clients, signals, `rfm evict`, users and faults are not fair,
and are bounded. The refinement `Implements` needs no fairness.

### Disagreements with what the code says of itself

Two runs end in a counterexample, and `findings` in `PROJECT.json` quotes the lines.

`Daemon_sync`: `rfm sync` takes no lock. Beside the daemon it runs a second pass of the same
device; both write `log/<lamport>-<device>-0000`, the later put replaces the earlier,
and what the earlier pass uploaded has rows in the database but no log entry, so the
next pass takes those files for deleted elsewhere.

`Residency_losers`: a device evicts its version of a file, loses a conflict over it to
another device, and that device deletes the file. The next pass plans to relocate the
loser and to delete its path locally. Should the relocation fail, the path is pinned
(`apply/execute.rs:338-339`: *they must not be tombstoned or advanced past that version in
this pass*), which placeholders and tombstones respect (`:421`, `:458`) and `DeleteLocal`
(`:450`) does not: placeholder and row go, no later pass finds the loser
(`remote_conflict.rs:58-71`), and its object is left to the GC. `Residency_evict`
keeps others from deleting a file while such a loser waits (`LoserDeletes = FALSE`).

Further ones, each reproduced by setting constants, or by the change named, in the cfg
of a passing run. A line in *italics* quotes the code or its documents.

Mirror and compaction:

* `Mirror_edits` with `Deletes = TRUE`, `MaxFaults = 0`, `MaxIdle = 1` violates
  `NoLostEdit`: a deletion planned from an old view of the log outranks an edit logged
  meanwhile, and the edit is deleted everywhere (`engine.rs:253`: *Delete vs edit
  always resolves toward keeping data.*).
* `Mirror_edits` with `UnstableFiles = TRUE`, two writes and no fault violates it too: a
  file that keeps changing during the scan counts as absent and is overwritten or
  taken for deleted (`util/file.rs:41`: *should be left for the next pass*).
* With `EditsDuringPass = TRUE`: a download or a local delete replaces what the user
  wrote after the scan (`apply/download.rs:63`).
* `Mirror_edits` with `FreshContent = FALSE` violates `WinnerKeepsPath`: after a revert
  the winner has the bytes of an old loser and is renamed aside
  (`apply/remote_conflict.rs:82`).
* `ReadComplete` in `Compaction`, with one compactor, one content and three jobs: a
  compaction between a reader's snapshot and its listing of the log makes entries
  invisible to that pass (`sync.rs:158`).
* `RemoteComplete` without `~overlapped`, two compactors: both pick the same
  generation and the snapshot with fewer entries replaces the other after its deltas
  are pruned (`manifest.rs:339`; `plan1.md:145`: *simultaneous compactors produce
  identical content*).
* `Compaction_one` with `StoreAgain = TRUE` and three writes violates `NothingLost`:
  storing an old version again does not save its object from a GC that has already
  listed it (`manifest.rs:154`).
* A crash between a download and its row makes the next remote edit of that file a
  conflict with itself (`apply/execute.rs:254`), and a delta that is both in a snapshot
  and in the retained log is compared with its own descendants (`manifest.rs:229`).
  Both produce a needless conflicted copy, and lose nothing.

Uploads and residency:

* `BaseWasSynced` in `Upload`, `Upload_resume` with one file, one fault, four uploads:
  `resume_uploads` takes `base_hash` from the manifest it has just merged
  (`sync.rs:502`, against its comment at 499-501), so a resumed version counts as an edit
  of a version its device never had, and the fork is not seen.
* `Upload_resume` with `DoctorMayInterfere = TRUE` violates `Consistent`: `rfm doctor` run
  while uploads are pending replaces rows without aborting their uploads
  (`state.rs:281-284`).
* `LoggedIsWhole` exempts versions in `torn`. It must: without its last disjunct
  `Upload_resume` with no fault violates it. A file of two parts is hashed and its first
  part read; it is overwritten in place by a content of the same length, and its second
  part read. The length of what was read is the one that was hashed, which is all that
  `check_object_len` compares (`apply/upload.rs:284-287`), so a mixture is logged under
  the hash of the old content, and nobody can download that version. A file that grows and
  shrinks again between its parts does the same with three edits. The next pass uploads
  the new content, so the folder recovers, and `Settles` exempts a path only for as long
  as its newest logged version is torn.
* `Residency_evict` with `Collisions = TRUE`: a placeholder `f.rfm` that a user renames
  to `g.rfm` where `g` exists is read as the deletion of `f`, and nothing relocates it
  (`engine.rs:150`; `plan-offline.md:160`, `:247`).
* `Residency_evict` with `SecondSaves = TRUE` and two edits: when a file is saved while it is evicted,
  and once more while the eviction is undone, the rename back replaces the second save
  (`apply/evict.rs:320`).
* `Residency_evict` with `Verify = FALSE`: an object that is damaged in the store
  becomes the only copy. This is what the option asks for.
* Three smaller ones the model has and its properties allow for: after a crash between a
  relocation's delta and its row the stub stays foreign until the user moves it; a
  conflict with a version whose row a crash kept from being written is not preserved;
  and a write that races the rename of an eviction, followed by a crash, leaves its only
  copy in `.mirror/tmp` (`apply/evict.rs:1-3`).
* `Algorithms` with `Coarse = TRUE` violates `EditsAreNoticed`: two writes that leave the
  same size and mtime. A save between a download's rename and its stat
  (`apply/download.rs:74`) is recorded as the downloaded version even with exact clocks;
  the property exempts such rows as racy. It heals only when the scan already had an
  entry for the file, since `record_scan` then writes the older size and mtime over it.
* `conflict_name` (`util/file.rs:78-126`) does not look whether its name is taken: the
  second conflict of one conflicted copy yields the same `(2)` again, as do two copies of
  a file within a second, and the rename replaces the first. It is not modelled: `Mirror`
  gives fresh names.
* Policy and requested evictions do not count toward the space target, so a pass may
  evict more than needed; a long glob beats a short exact pin (`residency.rs:128`).

Daemon and tray:

* `MayLinger = TRUE`: a second signal aborts the wait, the lock is released while tasks
  still run, and another daemon may start beside them (`watch.rs:87`, `:105`).
* A subscriber that lagged past the end of a backup keeps showing it until the next one;
  the terminal UI keeps its backup indicator over a reconnection, where the tray clears it.

Backup:

* `Restorable` does not promise that all blobs of an `overtaken` backup are listed. It
  cannot: without the condition `s.run \notin overtaken`, `Backup_runs` with no fault and
  no sleep violates it. Index and parent are read before the lock (`repo.rs:182`,
  `archiver.rs:243`), and a prune in between deletes packs that the backup then takes for
  stored; its snapshot, and those that later runs of that host build on it, lack blobs.
  All other snapshots are safe, and no index lists a pack that is gone.
* `Restorable` and `Exclusion` exempt runs that slept through `STALE_AFTER`. They must: a
  run that passes `ensure_held`, sleeps and wakes up publishes its snapshot without
  another look, and the refresher's head and put are two requests, so a removed lock can
  come back (`lock.rs:141`, `lock.rs:196`).
* `Archive_restore` with `TargetLinks = TRUE` violates `Untouched`: `--overwrite` onto names
  that are links of each other truncates in place, and so changes names that were not
  selected (`restorer.rs:350-377`). Mode, owner and time of an existing directory are set
  without `--overwrite` (`restorer.rs:185-187`).
* A host's prune applies its own policy and time zone to the snapshots of every host
  (`prune.rs:5-7`); `PruningIsSteady` assumes one policy and one zone.
* A file listed with its placeholder and evicted before its visit counts as skipped;
  filters see the placeholder's name; names of one inode that are read at different
  times may be recorded with different contents.
* Of a blob listed twice, only the first place is tried, also when its pack is damaged
  (`index.rs:72-74`: *either copy is valid*).
* `get_chunk_size` (`store.rs:117-136`) rounds parts to whole frames, so files between
  83.886 and 83.907 GB need more than the 10,000 parts it allows for. An encrypted empty
  file has no terminal frame when written by `encrypt` (used in tests only), and
  `decrypt` takes an object cut to its nonce for an empty file (`content.rs:282`).

Setup:

* `Setup_join` with `MayOverlap = TRUE` violates `SetupConsistent`: two first `init`s both find
  no vault and the second put replaces the first's header (`main.rs:755`: *never recreate
  the vault*).
* `FilesStay` in `Setup`: `rfm init --reconfigure` to another prefix keeps the root's
  database, so every synced file looks deleted remotely and the next pass deletes it
  (`crypto/vault.rs`: *re-init the vault under a fresh prefix*).
* Two first backups may both write the repository's config (`repo.rs:118-203`); the
  second open reads back whichever is there, and nothing is lost.

## 4. Proofs

Constants are arbitrary: any sets of paths, devices (positive numbers) and contents
(positive numbers), any batch size, any bounds and any environment. The assumptions
are the named `ASSUME`s of the modules.

* `ManifestProofs`: `winner_key` is total and asymmetric on the entries of a
  path, so a merge has one entry per path; `RemoteLamport` bounds a finite log's
  clocks.
* `MirrorProofs`: `NoActionAgrees`, `DestroysOnlyAgreed` — `reconcile` plans nothing
  only where the sides agree, and plans to overwrite or delete only content that is
  still the one last agreed on; the types of every step; the invariant is inductive, and

  | Theorem | Property |
  |---|---|
  | `StateIsConsistent` | `Consistent`, from `TypeCorrect` and `StampsAreUnique` |
  | `RowsAreLogged` | `BaselineLogged` |
  | `LogIsFetchable` | `LogPointsAtObjects` |
  | `LogOnlyGrows` | `NothingOverwritten` |
  | `RestMeansAgreement` | `RestConverged`: a device with nothing to do has the files of the log |

  Moreover `NoEditIsLost` (`NoLostEdit`) and `WinnerStays` (`WinnerKeepsPath`), assuming
  `Calm`: users wait for a running pass, delete nothing, never write the same content
  twice, and files hold still while they are hashed. Without any one of these the
  property is false (section 3). The argument is below.
* `CompactionProofs`: `NobodyIsRefused` (`Consistent` of `Compaction`) under any overlap,
  failure or death of compactions, and `NothingIsLost` (`NothingLost`) unless an object may be
  stored again (`StoreAgain`), without which it is false (section 3). Every entry that
  wins over the whole history is in the newest snapshot or in the log (`Complete`). A
  compactor that is alone folds all of these before it prunes a delta (`Folded`), puts them
  under a generation above every other, and prunes the snapshot it read, by then not
  the newest (`OnNewest`). The GC spares the objects of the winners: a delta logged after its
  re-read names an object too young to be among the expired (`Young`, `Spared`).
* `DeviceProofs`, about `Residency`, for any paths, contents and bounds, and under
  `Verify`, `~Collisions`, `~SecondSaves` and `~LoserDeletes`, without any one of which
  the first is false (section 3):

  | Theorem | Property |
  |---|---|
  | `NoVersionIsLost` | `Consistent`: types and `Kept` |
  | `DeletionsAreDue` | `NoStrayDelete` |

  The argument is below. About `Setup`: `SetupIsReadable`, `SetupConsistent` while no two `init`s
  overlap. An init that is about to create a vault is the only one running, and the vault
  it looked for is still absent (`InitShape`), so no vault that is in use is replaced; what
  is used or stored under a prefix is under the keys of its vault (`RunShape`,
  `StoredShape`). Without the assumption the run shows a counterexample (section 3).
* `BackupProofs`: `RepositoryIsConsistent`, `Consistent` of `Backup`: types, `StoredOnce`
  and `Exclusion`. For `StoredOnce` a run that is not a backup under way has nothing in
  its writer or on its way up (`StoreInv`). For `Exclusion` (`LockInv`): ids are drawn
  once (`IdsOk`); no lock of a run that has not slept is stale, or was when some prune
  listed the locks (`FreshOk`), so it stays where it was put (`ThereOk`); therefore of
  two runs past their listing, one of them exclusive, the later one has seen the
  other's lock and cannot pass its judgement (`SeenOk`).
  `SnapshotsStayRestorable`: `Restorable` of `Backup`, without any assumption. It follows
  from `BucketOk`: what an index lists is stored, what the snapshot of a backup needs is
  listed if that one was not overtaken. That is preserved because of what the runs know
  (`SafeInv`). What a backup is to list is stored; and as long as no index was deleted
  under it, its index and parent agree with the bucket or with what it has yet to list, and
  its tree is known or in its hands (`BackupOk`). A prune's plan covers all that the
  remaining snapshots need by packs that it keeps or copies, none of them doomed, and its
  new index has a run id of its own, so it is no source that the sweep deletes
  (`PruneOk`). A step of one run keeps the others' facts (`HeldStep`) because a prune that
  holds its lock is alone (`NoneBeside`): under a backup that holds its own the bucket only
  grows, and one that has yet to take it is overtaken by the first index that is deleted.
  `PrunesLeaveNoWaste`: `PruneReclaims`. What a prune marked is
  what the staying snapshots need; a pack that it neither spares for its age nor dooms
  holds some of that, and is listed already or by the prune's new index (`PlanOk`); nobody
  else changes packs or indexes under a prune that holds its lock (`Exclusion`).
* `DaemonProofs`: for any number of daemons, direct evictions, direct syncs and clients,
  any queue and ring capacities, any faults:

  | Theorem | Property |
  |---|---|
  | `DaemonIsConsistent` | `Consistent`: types, `SocketIsLive`, `QueuedIsRun` |
  | `SubscriberAgrees` | `ViewAgrees` |
  | `DaemonImplementsService` | `Implements`, assuming `Syncs = {}` and `~MayLinger` |
  | `ChangesAreNotForgotten` | `SyncService`'s `NothingForgotten`, under the same two assumptions |

  Every step is one process's (`Alone`, `Moves`); what it may do to that process's life,
  pass, backup and status is told apart once and used by every invariant. Whoever serves
  holds the lock and owns the socket (`Locks`), has a worker (`Workers`), and a client that
  was accepted talks to such a daemon (`Connections`). The two assumptions of the
  refinement name what the promise does not extend to: `rfm sync` takes no lock, and the
  tasks of an aborted daemon may outlive it (section 3). Without them a pass is always run
  by the holder of the lock (`Guarded`), so there is at most one, which `Service` takes for
  its pass; a pass that did not see the last change is not the last that is asked for, as
  a change made after its scan leaves a notice, then a trigger, and no trigger is taken
  while it runs (`Covering`). For the subscriber (`Subscriber`): the newest event of each
  kind in the ring is the last thing the worker announced; and if there is none, the view
  already shows the status, unless the status has moved and its event has not been sent, or
  the last end of that kind was dropped from the full ring.
* `ArchiveProofs`, about `Archive`, for any directory, contents, options and bounds:

  | Theorem | Property |
  |---|---|
  | `ArchiveIsConsistent` | `Consistent`: types, `SnapshotsAreWhole`, `HashesAreTrue` |
  | `SnapshotsAreTheDisk` | `SnapshotIsDisk` |
  | `NothingIsOverlooked` | `Accounted` |

  None of the three is inductive, and `ArchiveInv` follows a file from the directory to
  the snapshot. A change gives the inode a change time that no node made before it has, so
  a node that still names the inode and its change time (`SameVersion`) was made of what the
  inode holds (`True`, of every node in a snapshot, the journal or a worker): this is why
  `same_content` may take a chunk list over unread. It rests on the clock that moves with
  every change, the blind spot that `same_content` admits. What a worker found out when it
  visited its file is still so as long as nobody touches it (`Statted`, `StandsFor`), and
  what it has read is then a prefix of the file (`TaskOk`). A worker may count on a blob
  that it has not stored itself: one that is listed, in the open pack, or on its way up
  with another worker (`Known`). Such a blob may never arrive, but then `failed` is set
  and no snapshot is saved (`BlobsOk`); at `flush` nobody is uploading, and what is known
  is what is listed. The walk keeps every listed entry to do, with a worker, or skipped
  (`WalkOk`), and workers rest when it ends (`StageOk`). New inodes are really new, for a
  change uses up at most one (`Room`). TLC checked `ArchiveInv` on the directory of
  `Archive_restore` with one event, to the end, and with two on 1.9 million states.

  About `Restore`, for any snapshot, repository, target and selection, and whatever a prune
  takes in between,

  | Theorem | Property |
  |---|---|
  | `RestoreIsExact` | `RestoreConsistent`: types and `Exact`, assuming `~TargetLinks` |
  | `TargetIsUntouched` | `Untouched`, assuming `~TargetLinks` |
  | `VerifiedIsRestorable` | `VerifiedRestores` |

  `phase` and `todo` say which names the restore has reached (`Reached`). Until it fails, what is at
  such a name is final and anything else is as it was (`Shape`); the inode of each name
  that is written is its own (`ItsFacts`: here `~TargetLinks` is needed, for through hard
  links in the target two files would be written to one inode, section 3), so a chunk
  written for one file reaches no other, and each file is its content with holes where a chunk
  is still in `todo` (`Filled`). For the last theorem, a repository without `Problems` makes every
  indexed chunk `Readable` (`SoundRepository`), and the failures for want of data are those
  of the three steps that look for it (`Vouched`).
* `FileProofs`, about `HashCache` and `Upload`: `NoEditIsMissed`, `EditsAreNoticed` for any
  contents and any number of edits, assuming `~Coarse`: two writes that may share an mtime
  can hide the second one (section 3). The file has the newest mtime, so a write leaves
  everything noted before it behind; what is noted under the newest mtime and is not racy
  is what the file holds (`Holds`), and a read whose first stat is still true has read a
  prefix of that (`Unwritten`, `Begun`).
  `UploadsAreAccounted`: `Consistent` of `Upload`, assuming `~DoctorMayInterfere` (without
  it the property is false, section 3). The row, the transfer and the multipart upload of
  a path agree (`RowOk`); a row belongs to a transfer, or waits for one, according to where
  the pass stands (`PlaceOk`); at most one upload is being resumed (`OneResumes`), which
  matters because a resume that fails forgets all that its pass had found; and every
  multipart upload is named by a row or by a transfer about to record or abort it, or was
  left by a fault (`NoneLost`).
  `VersionsAreWhole`: `LoggedIsWhole`, under the same assumption alone; users write into files
  that are being read as they like. Every stored object is whole, or of a torn version and
  not too short (`ObjectsWhole`, `Sound`). The parts that a row lists are the first ones of
  its content, kept by the store under the row's upload and nonce (`RowParts`); a transfer
  reads what was hashed and has sent what its row says (`TransferParts`): both hold of the
  bytes until the version is torn, and of the numbers and lengths always. What is named by a
  batch or a row that waits to be logged was stored (`Backed`).

The argument (`IInv` in `MirrorProofs`). `BaselineLogged` is not inductive: a row
is written from `ops`, so every queued `Confirm` must be backed by an entry in the
log or in the batch (`OpsShape`), the batch must be logged before rows are written
(`PassShape`), and a download's row comes from `view`, whose entries must be logged
or in the batch too (`ViewShape`). Logging the batch must not replace an object
that backs another row, so its key must be new: a device's keys in the log are
below `(stamp, seq)` while its pass runs (`StampAhead`), which gives
`NothingOverwritten`. Stamps stay unique because a path that is still in the plan
has no entry with this pass's stamp (`Unspent`). A pass that died before
`record_lamport` is covered because its entries are in the log the next one reads.
`LogBounded` (the clocks in the log have a bound) stands for the log being finite.

The argument for edits (`EditInv` in `MirrorProofs`). `NoLostEdit` does not say who
holds a version, and a download must be free to overwrite a file. It is safe because
the author of a live version holds it, under its name or as a copy, until its user
writes over it (`AuthorHolds`), so that only the author's own folder matters. The
author's pass overwrites a version of its own only where the merge has another one,
and then it has lost: the log reports a conflict with its immediate successor
(`Successor`), unless it was replaced by an edit written over it, and then nobody
needs it (`Replaced`: a logged base is never live and is beaten). So every version
that the pass wrote and that lost is among its losers, which are renamed aside before
the scan (`Preserving`), and a planned download is over content that is not this
device's to keep (`DownloadOk`). Crashes leave rows behind their files; `RowsBehind` says
that what such a row names was replaced or has lost, so a conflict planned because
of it renames no winner (`ConflictOk`). TLC checked `EditInv` on the instance of
`Mirror_edits` and with three devices, two edits, three copy names and one fault.

The argument for evictions (`ResidencyInv` in `DeviceProofs`). `Kept` says that an owed
version is on disk or that some object of it is good and still reachable; it is not
inductive, because the steps that may break it act on what the scan and the manifest said
earlier. Outside of passes, a live version that is not in its file is named by a
placeholder, or is among the losers (`Kept1`); a file in sync is the live version or one that
lost (`Kept2`); and where a loser is evicted there is no other file (`Kept3`). A pass reads
the log, and from then on its manifest is the log plus its own deltas (`Views`). Every
loser it has looked at is renamed aside or has a relocation under a name that nothing
else uses (`Preserving`, `LoserSource`). During `apply` the invariant says of each action
left in the plan why it is still right to take (`Plan1`, `PlanOK`): what it replaces is in sync, and
a tombstone of an evicted file goes out only if the version is no longer owed or its relocation
is in the plan. Each relocation is still planned, or logged, or its path is pinned (`Plan2`). This
is where the order of `ActionKind` matters, relocations before deletions, and where
`~LoserDeletes` is needed. Each queued row will be true when it is written (`Rec2`,
`OpOK`): a placeholder's row that covers a loser comes after a relocation whose object is
sound (`Rec1`, `Sound`), since with the row written no later pass would find the loser. An
eviction keeps its object good from the check on, and knows at each step which of the
placeholder, the row, the file and the copy in `.mirror/tmp` are there (`Evictions`); a
save in between makes the evicted version one that is no longer owed. `NoStrayDelete`
follows from `PlanOK` and the shape of placeholders: a tombstone is planned only where there is
neither file nor placeholder, and then somebody removed them or a relocation takes the
version along. TLC checked `ResidencyInv` on the instance of `Residency_evict`.

`OneCopy` is not proved: with three devices it is false. A device that downloaded a
version and died before its row was written finds, when the next version
arrives, a file that is neither, and copies it aside, and so may its author.

Only model-checked: `OneCopy`; all liveness; the fold of `merge_deltas` and the other folds and recursive
functions of `Algorithms` (induction over data).

## 5. What the abstraction leaves out

* Content is an identity; ciphers are ideal and hashes do not collide.
* A conflicted copy gets a name nobody has used.
* Users do not edit conflicted copies in `Mirror`, and a file is a path of its own: no
  directories, no case folding, no Unicode normalisation, no ignore rules.
* `Mirror` has one pass per device at a time, and a log that is not compacted;
  `Compaction` has the log's life and reduces a pass to its reads; `Upload` and
  `Residency` have one device and reduce the others to what they log. Each takes from the
  others what they show: that a key is not reused, that an entry's object is there.
* Object requests are atomic. A part of a multipart upload is one request; the pages
  of a listing are not told apart.
* In `Upload` the repair of `rfm doctor` does not overlap a pass.
* In `Daemon` a client waits without a deadline: one that gives up leaves its command
  running, as in the code. Transfer, poll and log events are left out, and the kinds of a
  trigger, which are only displayed.
* `Backup` leaves open which files a walk meets, and treats a tree as one more blob;
  `Archive` and `Restore` have one directory. The local pack cache is left out: it is
  keyed by pack id and a pack never changes.
* In `Eviction` a size stands for both the logical size and the allocated blocks.

## 6. Plan

1. An abstract mirror (a set of versions per path with winners) implemented by
   `Mirror`.
2. `conflict_name` and the names of directories in `Mirror`.

## 7. Not modelled

Ciphers, key stretching, chunk boundaries, compression and filter patterns
(byte-level, sequential); the S3 client's connection, paging and retries (I/O);
database migrations; argument parsing, prompts, output, terminal UI, indicators and
service files (no state that others rely on); names made by `conflict_name`.
