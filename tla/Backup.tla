------------------------------- MODULE Backup -------------------------------
(***************************************************************************)
(* Backup repositories (backup-core): backups that deduplicate against     *)
(* what a bucket holds, prunes that delete what no snapshot needs, and the *)
(* locks, kept in the bucket too, that are meant to keep them apart        *)
(* (lock.rs, repo.rs, archiver.rs, prune.rs).                              *)
(*                                                                         *)
(* Every client runs one command at a time.  Runs are numbered, and an     *)
(* object is named by the run that wrote it and by what it holds, which    *)
(* stands for the code's random ids.  A snapshot is the set of blobs it    *)
(* reaches; trees are blobs like any other.                                *)
(***************************************************************************)
EXTENDS Integers, FiniteSets

CONSTANTS
    Client,       \* the processes that use the repository, one per host
    Blob,         \* chunks and trees
    MaxRuns,      \* bound: backups and prunes started
    MaxPrunes,    \* bound: prunes started
    MaxFaults,    \* bound: failed runs and crashes
    MaxSleeps     \* bound: runs suspended for longer than STALE_AFTER

ASSUME LimitAssumption  == {MaxRuns, MaxPrunes, MaxFaults, MaxSleeps} \subseteq Nat

VARIABLES
    packs,      \* the packs in the bucket
    aged,       \* those older than ORPHAN_GRACE
    indexes,    \* the index objects in the bucket
    snaps,      \* the snapshots in the bucket
    locks,      \* the lock objects in the bucket
    stale,      \* those not refreshed within STALE_AFTER
    pc,         \* pc[c]: where c's run stands
    run,        \* run[c]: what c's run knows and has done
    runs, prunes, faults,
    slept,      \* ghost: the runs that slept through STALE_AFTER
    overtaken   \* ghost: backups that an index was deleted under, and those
                \* that started from the snapshot of such a one

bucket == <<packs, aged, indexes, snaps, locks, stale>>
counters == <<runs, prunes, faults, slept, overtaken>>
vars == <<bucket, pc, run, counters>>

RunId == 1..(MaxRuns + 2)
Pack == [run : RunId, blobs : (SUBSET Blob) \ {{}}]
Listing == [pack : Pack, blobs : SUBSET Blob]          \* struct PackEntries
Lock == [run : RunId, exclusive : BOOLEAN]

NoRun == [id |-> 0, exclusive |-> FALSE, known |-> {}, parent |-> {}, tree |-> {},
          writer |-> {}, inflight |-> {}, newPacks |-> {}, lost |-> FALSE,
          refreshing |-> FALSE, others |-> {}, staleThen |-> {}, forget |-> {},
          needed |-> {}, sources |-> {}, kept |-> {}, repack |-> {}, doomed |-> {},
          spared |-> {}]

(* Blobs that a set of listings covers (Index::has). *)
Covered(ls) == UNION {l.blobs : l \in ls}
Listings(is) == UNION {i.packs : i \in is}
BlobsOf(ps) == UNION {p.blobs : p \in ps}

MyLock(c) == [run |-> run[c].id, exclusive |-> run[c].exclusive]

(* The newest snapshot of a host: find_parent. *)
Newest(h) == {s \in snaps : s.host = h /\ \A t \in snaps : t.host = h => t.run <= s.run}

Set(c, state, fields) ==
    /\ pc' = [pc EXCEPT ![c] = state]
    /\ run' = [run EXCEPT ![c] = fields]

(* States in which a run holds its lock; "failed" is a run that met an error
   and "release" one that is through. *)
Writing == {"archive", "flush", "indexed", "publish"}
Pruning == {"swept", "marked", "planned", "forget", "repack", "reindexed", "sweep"}
Holding(c) == pc[c] \in {"held", "failed", "release"} \cup Writing \cup Pruning

(***************************************************************************)
(* One client has made two backups: the first stored s, the second what t  *)
(* has beyond it.                                                          *)
(***************************************************************************)
Init ==
    /\ \E h \in Client, s, t \in (SUBSET Blob) \ {{}} :
          /\ snaps = {[run |-> 1, host |-> h, blobs |-> s],
                      [run |-> 2, host |-> h, blobs |-> t]}
          /\ packs = {p \in {[run |-> 1, blobs |-> s], [run |-> 2, blobs |-> t \ s]} :
                         p.blobs # {}}
    /\ indexes = {[run |-> p.run, packs |-> {[pack |-> p, blobs |-> p.blobs]}] : p \in packs}
    /\ aged = {} /\ locks = {} /\ stale = {}
    /\ pc = [c \in Client |-> "idle"]
    /\ run = [c \in Client |-> NoRun]
    /\ runs = 2 /\ prunes = 0 /\ faults = 0 /\ slept = {} /\ overtaken = {}

-----------------------------------------------------------------------------
(* Starting: both commands read the repository before they lock it. *)

Start == runs < MaxRuns + 2 /\ runs' = runs + 1

(* Repository::open loads the index. *)
Opened == [NoRun EXCEPT !.id = runs', !.known = Listings(indexes)]

(* create_snapshot looks for the parent, unless it is asked to read everything. *)
OpenBackup(c) ==
    /\ pc[c] = "idle"
    /\ Start
    /\ \E parents \in {{}, Newest(c)} :
          /\ Set(c, "opened", [Opened EXCEPT !.parent = UNION {s.blobs : s \in parents}])
          /\ overtaken' = overtaken \cup {runs' : s \in {q \in parents : q.run \in overtaken}}
    /\ UNCHANGED <<bucket, prunes, faults, slept>>

(* prune_by_policy: whatever the policy, select keeps the newest snapshot of
   every host. *)
OpenPrune(c) ==
    /\ pc[c] = "idle"
    /\ Start
    /\ prunes < MaxPrunes
    /\ prunes' = prunes + 1
    /\ \E forget \in SUBSET {s \in snaps : s \notin Newest(s.host)} :
          Set(c, "opened", [Opened EXCEPT !.exclusive = TRUE, !.forget = forget])
    /\ UNCHANGED <<bucket, faults, slept, overtaken>>

-----------------------------------------------------------------------------
(* Lock::acquire. *)

PutLock(c) ==
    /\ pc[c] = "opened"
    /\ locks' = locks \cup {MyLock(c)}
    /\ pc' = [pc EXCEPT ![c] = "locking"]
    /\ UNCHANGED <<packs, aged, indexes, snaps, stale, run, counters>>

(* The listing tells the ages; stale locks are ignored. *)
ListLocks(c) ==
    /\ pc[c] = "locking"
    /\ Set(c, "listed", [run[c] EXCEPT !.others = locks \ (stale \cup {MyLock(c)}),
                                       !.staleThen = stale])
    /\ UNCHANGED <<bucket, counters>>

(* Faulty variant: only exclusive locks conflict. *)
Conflicting_exclusive(c) == \E l \in run[c].others : l.exclusive \/ l \notin locks

(* A lock that is gone by the time it is read cannot be read, and counts as
   exclusive. *)
Conflicting(c) ==
    \E l \in run[c].others : run[c].exclusive \/ l.exclusive \/ l \notin locks

Judge(c) ==
    /\ pc[c] = "listed"
    /\ IF Conflicting(c)
       THEN /\ locks' = locks \ {MyLock(c)}
            /\ stale' = stale \ {MyLock(c)}
            /\ Set(c, "idle", NoRun)
       ELSE /\ Set(c, "held", [run[c] EXCEPT !.others = {}])
            /\ UNCHANGED <<locks, stale>>
    /\ UNCHANGED <<packs, aged, indexes, snaps, counters>>

(* The refresher.  While it works in time it changes nothing; it matters once
   the lock went stale.  It looks first whether the lock still exists ... *)
RefreshHead(c) ==
    /\ Holding(c)
    /\ ~run[c].lost /\ ~run[c].refreshing
    /\ MyLock(c) \notin locks \/ MyLock(c) \in stale
    /\ run' = [run EXCEPT ![c] = IF MyLock(c) \in locks
                                 THEN [@ EXCEPT !.refreshing = TRUE]
                                 ELSE [@ EXCEPT !.lost = TRUE]]
    /\ UNCHANGED <<bucket, pc, counters>>

(* ... and then writes it again. *)
RefreshPut(c) ==
    LET l == MyLock(c) IN
    /\ run[c].refreshing
    /\ locks' = locks \cup {l}
    /\ stale' = stale \ {l}
    /\ run' = [d \in Client |-> [run[d] EXCEPT !.refreshing = IF d = c THEN FALSE ELSE @,
                                               !.staleThen = @ \ {l}]]
    /\ UNCHANGED <<packs, aged, indexes, snaps, pc, counters>>

(* ensure_held: before a backup publishes, before a prune deletes anything,
   and once more before it deletes indexes and packs. *)
EnsureHeld(c) ==
    /\ \/ pc[c] \in {"indexed", "planned"}
       \/ pc[c] = "reindexed" /\ run[c].doomed # {}
    /\ pc' = [pc EXCEPT ![c] = IF run[c].lost THEN "failed"
                               ELSE IF @ = "indexed" THEN "publish"
                               ELSE IF @ = "planned" THEN "forget" ELSE "sweep"]
    /\ UNCHANGED <<bucket, run, counters>>

Release(c) ==
    /\ pc[c] \in {"failed", "release"}
    /\ locks' = locks \ {MyLock(c)}
    /\ stale' = stale \ {MyLock(c)}
    /\ Set(c, "idle", NoRun)
    /\ UNCHANGED <<packs, aged, indexes, snaps, counters>>

-----------------------------------------------------------------------------
(* backup_locked. *)

Orphans(ls) == packs \ {l.pack : l \in ls}

AsListings(ps) == {[pack |-> p, blobs |-> p.blobs] : p \in ps}

(* Faulty variant: the adopted packs are used but not put into the index. *)
Adopt_unlisted(c) ==
    /\ pc[c] = "held" /\ ~run[c].exclusive
    /\ \E adopted \in SUBSET Orphans(run[c].known) :
          Set(c, "archive", [run[c] EXCEPT !.known = @ \cup AsListings(adopted)])
    /\ UNCHANGED <<bucket, counters>>

(* adopt_orphans: packs that no index this run has read lists, without those
   whose header cannot be read. *)
Adopt(c) ==
    /\ pc[c] = "held" /\ ~run[c].exclusive
    /\ \E adopted \in SUBSET Orphans(run[c].known) :
          Set(c, "archive", [run[c] EXCEPT !.known = @ \cup AsListings(adopted),
                                           !.newPacks = AsListings(adopted)])
    /\ UNCHANGED <<bucket, counters>>

(* A file unchanged since the parent reuses its blobs unchecked; an offloaded
   or resumed one only blobs the index has, as SaveBlob does. *)
ReuseUnchanged(c) ==
    /\ pc[c] = "archive"
    /\ \E b \in run[c].parent \ run[c].tree :
          run' = [run EXCEPT ![c].tree = @ \cup {b}]
    /\ UNCHANGED <<bucket, pc, counters>>

is_pending(c, b) == b \in run[c].writer \cup BlobsOf(run[c].inflight)

(* save_blob, by any of the run's workers.  The checks are repeated under the
   mutex that adds the blob, so the two critical sections are one step.  Blobs
   have any size, so any of them may fill the pack; a full pack leaves the
   writer, and its upload is another step. *)
SaveBlob(c) ==
    /\ pc[c] = "archive"
    /\ \E b \in Blob, full \in BOOLEAN :
          LET filled == run[c].writer \cup {b}
              seen   == [run[c] EXCEPT !.tree = @ \cup {b}]
          IN  run' = [run EXCEPT ![c] =
                  IF b \in Covered(@.known) \/ is_pending(c, b) THEN seen
                  ELSE IF ~full THEN [seen EXCEPT !.writer = filled]
                  ELSE [seen EXCEPT !.writer = {},
                                    !.inflight = @ \cup {[run |-> run[c].id, blobs |-> filled]}]]
    /\ UNCHANGED <<bucket, pc, counters>>

(* upload_pack.  Workers of a failed run are waited for, so their uploads may
   still succeed. *)
UploadPack(c) ==
    /\ pc[c] \in {"archive", "flush", "failed"}
    /\ \E p \in run[c].inflight :
          /\ packs' = packs \cup {p}
          /\ run' = [run EXCEPT ![c].inflight = @ \ {p},
                                ![c].known = @ \cup AsListings({p}),
                                ![c].newPacks = @ \cup AsListings({p})]
    /\ UNCHANGED <<aged, indexes, snaps, locks, stale, pc, counters>>

(* The walk is over and every worker has been waited for: flush finishes the
   open pack. *)
CloseArchive(c) ==
    /\ pc[c] = "archive"
    /\ run[c].inflight = {} /\ run[c].tree # {}
    /\ Set(c, "flush",
           [run[c] EXCEPT !.writer = {},
                          !.inflight = {[run |-> run[c].id, blobs |-> w] :
                                           w \in {run[c].writer} \ {{}}}])
    /\ UNCHANGED <<bucket, counters>>

SaveIndex(c) ==
    /\ pc[c] = "flush"
    /\ run[c].inflight = {}
    /\ indexes' = indexes \cup {[run |-> run[c].id, packs |-> n] :
                                   n \in {run[c].newPacks} \ {{}}}
    /\ Set(c, "indexed", [run[c] EXCEPT !.newPacks = {}])
    /\ UNCHANGED <<packs, aged, snaps, locks, stale, counters>>

SaveSnapshot(c) ==
    /\ pc[c] = "publish"
    /\ snaps' = snaps \cup {[run |-> run[c].id, host |-> c, blobs |-> run[c].tree]}
    /\ pc' = [pc EXCEPT ![c] = "release"]
    /\ UNCHANGED <<packs, aged, indexes, locks, stale, run, counters>>

-----------------------------------------------------------------------------
(* prune_locked. *)

(* Locks that were stale when this one was taken and are not refreshed since. *)
RemoveStale(c) ==
    /\ pc[c] = "held" /\ run[c].exclusive
    /\ locks' = locks \ run[c].staleThen
    /\ stale' = stale \ run[c].staleThen
    /\ pc' = [pc EXCEPT ![c] = "swept"]
    /\ UNCHANGED <<packs, aged, indexes, snaps, run, counters>>

(* Reads indexes and snapshots afresh and marks what the remaining ones
   reach.  A snapshot to forget that is gone, or a marked blob that no index
   lists, is an error. *)
Mark(c) ==
    LET forget == run[c].forget
        marked == UNION {s.blobs : s \in snaps \ forget}
    IN  /\ pc[c] = "swept"
        /\ IF forget \subseteq snaps /\ marked \subseteq Covered(Listings(indexes))
           THEN Set(c, "marked", [run[c] EXCEPT !.known = Listings(indexes),
                                                !.sources = indexes, !.needed = marked])
           ELSE Set(c, "failed", run[c])
        /\ UNCHANGED <<bucket, counters>>

(* Index::add_pack: a blob that several packs hold is located in the one that
   is listed first.  Ids are random, so that may be any of them, but it is the
   same one for all blobs that two packs share. *)
Locations(ls) ==
    {f \in [Covered(ls) -> {l.pack : l \in ls}] :
        /\ \A b \in Covered(ls) : \E l \in ls : l.pack = f[b] /\ b \in l.blobs
        /\ \A b, d \in Covered(ls), k, l \in ls :
              k.pack = f[b] /\ l.pack = f[d] /\ {b, d} \subseteq k.blobs \cap l.blobs
                  => f[b] = f[d]}

(* Faulty variant: packs in no index are always left for a backup to adopt. *)
Recent_always(p) == TRUE

Recent(p) == p \notin aged

(* Sorts the stored packs: doomed if nothing in them is needed, or in no index
   and old; repacked if enough of it is unneeded; kept otherwise.  Blobs have
   any sizes, so "enough" may be any part. *)
PlanSweep(c) ==
    /\ pc[c] = "marked"
    /\ \E f \in Locations(run[c].known) :
       LET here(p)   == {b \in DOMAIN f : f[b] = p}
           useful(p) == here(p) \cap run[c].needed
           unlisted  == {p \in packs : here(p) = {}}
           used      == {p \in packs : useful(p) # {}}
       IN  \E repack \in SUBSET {p \in used : here(p) # useful(p)} :
           Set(c, "planned",
               [run[c] EXCEPT
                  !.doomed = (packs \ (used \cup unlisted)) \cup {p \in unlisted : ~Recent(p)},
                  !.spared = {p \in unlisted : Recent(p)},
                  !.repack = {[pack |-> p, blobs |-> useful(p)] : p \in repack},
                  !.kept = {[pack |-> p, blobs |-> here(p)] : p \in used \ repack}])
    /\ UNCHANGED <<bucket, counters>>

ForgetSnapshot(c) ==
    /\ pc[c] = "forget"
    /\ IF run[c].forget = {}
       THEN Set(c, "repack", run[c]) /\ UNCHANGED snaps
       ELSE \E s \in run[c].forget :
               /\ snaps' = snaps \ {s}
               /\ Set(c, "forget", [run[c] EXCEPT !.forget = @ \ {s}])
    /\ UNCHANGED <<packs, aged, indexes, locks, stale, counters>>

(* copy_needed: a new pack with the needed blobs.  It fails if the old pack is
   gone (Fail). *)
CopyNeeded(c) ==
    /\ pc[c] = "repack"
    /\ \E l \in run[c].repack :
          LET copy == [run |-> run[c].id, blobs |-> l.blobs] IN
          /\ l.pack \in packs
          /\ packs' = packs \cup {copy}
          /\ run' = [run EXCEPT ![c].repack = @ \ {l},
                                ![c].kept = @ \cup AsListings({copy}),
                                ![c].doomed = @ \cup {l.pack}]
    /\ UNCHANGED <<aged, indexes, snaps, locks, stale, pc, counters>>

(* The index is replaced only if something is to be deleted. *)
SaveNewIndex(c) ==
    /\ pc[c] = "repack" /\ run[c].repack = {}
    /\ IF run[c].doomed = {}
       THEN /\ pc' = [pc EXCEPT ![c] = "release"]
            /\ UNCHANGED indexes
       ELSE /\ pc' = [pc EXCEPT ![c] = "reindexed"]
            /\ indexes' = indexes \cup {[run |-> run[c].id, packs |-> k] :
                                           k \in {run[c].kept} \ {{}}}
    /\ UNCHANGED <<packs, aged, snaps, locks, stale, run, counters>>

(* A backup that has opened the repository, and has no lock yet, goes on with
   the index it has read. *)
DeleteIndex(c) ==
    /\ pc[c] = "sweep"
    /\ \E i \in run[c].sources :
          /\ indexes' = indexes \ {i}
          /\ run' = [run EXCEPT ![c].sources = @ \ {i}]
    /\ overtaken' = overtaken \cup {run[d].id : d \in {e \in Client : pc[e] # "idle" /\ ~run[e].exclusive}}
    /\ UNCHANGED <<packs, aged, snaps, locks, stale, pc, runs, prunes, faults, slept>>

DeletePack(c) ==
    /\ pc[c] = "sweep" /\ run[c].sources = {}
    /\ IF run[c].doomed = {}
       THEN Set(c, "release", run[c]) /\ UNCHANGED <<packs, aged>>
       ELSE \E p \in run[c].doomed :
               /\ packs' = packs \ {p}
               /\ aged' = aged \ {p}
               /\ Set(c, "sweep", [run[c] EXCEPT !.doomed = @ \ {p}])
    /\ UNCHANGED <<indexes, snaps, locks, stale, counters>>

-----------------------------------------------------------------------------
(* Failures and time. *)

(* Any error ends the run, which releases its lock; a failed write is sticky,
   so nothing is published after it. *)
Fail(c) ==
    /\ faults < MaxFaults
    /\ Holding(c) /\ pc[c] \notin {"failed", "release"}
    /\ faults' = faults + 1
    /\ pc' = [pc EXCEPT ![c] = "failed"]
    /\ UNCHANGED <<bucket, run, runs, prunes, slept, overtaken>>

(* The process dies; a lock it has put stays. *)
Crash(c) ==
    /\ faults < MaxFaults
    /\ pc[c] # "idle"
    /\ faults' = faults + 1
    /\ Set(c, "idle", NoRun)
    /\ UNCHANGED <<bucket, runs, prunes, slept, overtaken>>

(* Nobody refreshes the lock of a dead run. *)
Abandon(l) ==
    /\ l \in locks \ stale
    /\ \A c \in Client : run[c].id # l.run
    /\ stale' = stale \cup {l}
    /\ UNCHANGED <<packs, aged, indexes, snaps, locks, pc, run, counters>>

(* The host sleeps, or cannot reach the bucket, for longer than STALE_AFTER. *)
Sleep(c) ==
    /\ Cardinality(slept) < MaxSleeps
    /\ Holding(c)
    /\ MyLock(c) \in locks \ stale
    /\ stale' = stale \cup {MyLock(c)}
    /\ slept' = slept \cup {run[c].id}
    /\ UNCHANGED <<packs, aged, indexes, snaps, locks, pc, run, runs, prunes, faults, overtaken>>

(* ORPHAN_GRACE is a week: longer than any run, so packs only age when no run
   that wrote or saw them young is still going on. *)
AgePacks ==
    /\ \A c \in Client : pc[c] = "idle"
    /\ aged # packs
    /\ aged' = packs
    /\ UNCHANGED <<packs, indexes, snaps, locks, stale, pc, run, counters>>

-----------------------------------------------------------------------------
LockStep(c) ==
    \/ PutLock(c) \/ ListLocks(c) \/ Judge(c) \/ EnsureHeld(c) \/ Release(c)
    \/ RefreshHead(c) \/ RefreshPut(c)

BackupStep(c) ==
    \/ OpenBackup(c) \/ Adopt(c) \/ ReuseUnchanged(c) \/ SaveBlob(c)
    \/ UploadPack(c) \/ CloseArchive(c) \/ SaveIndex(c) \/ SaveSnapshot(c)

PruneStep(c) ==
    \/ OpenPrune(c) \/ RemoveStale(c) \/ Mark(c) \/ PlanSweep(c) \/ ForgetSnapshot(c)
    \/ CopyNeeded(c) \/ SaveNewIndex(c) \/ DeleteIndex(c) \/ DeletePack(c)

Next ==
    \/ \E c \in Client : LockStep(c) \/ BackupStep(c) \/ PruneStep(c)
    \/ \E c \in Client : Fail(c) \/ Crash(c) \/ Sleep(c)
    \/ \E l \in locks : Abandon(l)
    \/ AgePacks

Spec == Init /\ [][Next]_vars

-----------------------------------------------------------------------------
(* Properties. *)

(* Types; a listing names only blobs its pack holds. *)
TypeOK ==
    /\ packs \subseteq Pack /\ aged \subseteq packs
    /\ \A i \in indexes : /\ i.run \in RunId
                          /\ i.packs \subseteq Listing
                          /\ \A l \in i.packs : l.blobs \subseteq l.pack.blobs
    /\ snaps \subseteq [run : RunId, host : Client, blobs : SUBSET Blob]
    /\ locks \subseteq Lock /\ stale \subseteq locks

(* Every snapshot can be restored, at every moment and after any failure: each
   blob is listed, and wherever it is listed its pack is stored (the write
   order of repo.rs, the deletion order of prune.rs).  Nothing is promised
   once a run has slept through STALE_AFTER while it held its lock.  Of a backup
   that a prune overtook (it had opened the repository, and the prune deleted
   an index before it could lock it), and of those that start from its snapshot,
   only the second is: a blob it took for listed may be gone. *)
Restorable ==
    slept = {} =>
        \A s \in snaps : \A b \in s.blobs :
            /\ s.run \notin overtaken => b \in Covered(Listings(indexes))
            /\ \A l \in Listings(indexes) : b \in l.blobs => l.pack \in packs

(* While a prune holds its lock no other run holds one, unless one of the two
   slept through STALE_AFTER (Lock::acquire). *)
Exclusion ==
    \A c, d \in Client :
        /\ c # d /\ Holding(c) /\ Holding(d)
        /\ run[c].exclusive
        => {run[c].id, run[d].id} \cap slept # {}

(* A run stores no blob twice: one that is in the open pack is neither on its
   way up nor known to be stored, and no two packs on their way up share one
   (save_blob, upload_pack). *)
StoredOnce ==
    \A c \in Client :
        /\ run[c].writer \cap (Covered(run[c].known) \cup BlobsOf(run[c].inflight)) = {}
        /\ \A p, q \in run[c].inflight : p # q => p.blobs \cap q.blobs = {}
        /\ BlobsOf(run[c].inflight) \cap Covered(run[c].known) = {}

(* A repository is well formed, no run stores a blob twice, and a prune that
   holds its lock is alone (TypeOK, StoredOnce, Exclusion). *)
Consistent == TypeOK /\ StoredOnce /\ Exclusion

(* A prune that went through leaves only packs that some snapshot needs and
   some index lists, and recent ones in no index (prune_locked). *)
PruneReclaims ==
    \A c \in Client :
        pc[c] = "release" /\ run[c].exclusive /\ slept = {} =>
            \A p \in packs \ (run[c].spared \ aged) :
                /\ \E s \in snaps : s.blobs \cap p.blobs # {}
                /\ p \in {l.pack : l \in Listings(indexes)}
=============================================================================
