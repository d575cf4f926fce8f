----------------------------- MODULE Compaction -----------------------------
(***************************************************************************)
(* The life of the remote log: devices append deltas, read the newest      *)
(* snapshot and the log, fold the log into a new snapshot, prune deltas    *)
(* and superseded snapshots, and collect unreferenced content objects      *)
(* (manifest.rs: from_store, read_deltas, to_store, compact,               *)
(* collect_garbage; sync.rs decides when to compact).                      *)
(*                                                                         *)
(* Every request to the store is a step of its own.  Age is relative: an   *)
(* object outlives the grace period (a day) or the retention (a month)     *)
(* only if no job that is still running overlaps the pass that wrote it,   *)
(* because no two passes last that long.                                   *)
(***************************************************************************)
EXTENDS Manifest

CONSTANTS
    Writer,       \* devices that change files
    Compactor,    \* devices that compact
    Threshold,    \* CompactionOptions::threshold
    MaxWrites,    \* bound: deltas written
    MaxJobs,      \* bound: passes started
    MaxAborts,    \* bound: passes that fail or crash
    StoreAgain    \* an object may be stored again: a reverted or retried upload

ASSUME RoleAssumption == Writer \subseteq Device /\ Compactor \subseteq Device
ASSUME LimitAssumption == {Threshold, MaxWrites, MaxJobs, MaxAborts} \subseteq Nat

VARIABLES
    log,        \* the deltas in the store; each object holds one entry
    agedLog,    \* those older than the grace period
    snaps,      \* the snapshots in the store: [gen, manifest]
    agedGen,    \* generations of the snapshots older than the grace period
    objects,    \* the content objects in the store: <<path, hash>>
    expired,    \* those older than the retention
    seen,       \* seen[d]: highest_manifest_generation of d's database
    pc,         \* pc[d]: where d's pass or compaction stands
    job,        \* job[d]: its volatile state
    pending,    \* pending[d]: an object d stored whose delta is not logged
    history,    \* ghost: every entry ever logged
    overlapped, \* ghost: a compaction started while another was under way
    jobs, aborts

remote == <<log, agedLog, snaps, agedGen>>
content == <<objects, expired>>
vars == <<remote, content, seen, pc, job, pending, history, jobs, aborts, overlapped>>

NoSnap == [gen |-> 0, manifest |-> {}]
NoJob == [snap |-> NoSnap, listed |-> {}, merged |-> {}, gen |-> 0, doomed |-> {},
          oldLog |-> {}, oldGen |-> {}, oldObjects |-> {}]

(* The last key of the listing; zero-padded generations list in order. *)
Latest(ss) ==
    IF ss = {} THEN NoSnap
    ELSE CHOOSE s \in ss : \A t \in ss : t.gen <= s.gen

(* What a device that reads everything at this instant merges. *)
Current == Merged(Latest(snaps).manifest \cup log)

Set(d, state, fields) ==
    /\ pc' = [pc EXCEPT ![d] = state]
    /\ job' = [job EXCEPT ![d] = fields]

Init ==
    /\ log = {} /\ agedLog = {} /\ snaps = {} /\ agedGen = {}
    /\ objects = {} /\ expired = {}
    /\ seen = [d \in Device |-> 0]
    /\ pc = [d \in Device |-> "idle"]
    /\ job = [d \in Device |-> NoJob]
    /\ pending = [d \in Device |-> {}]
    /\ history = {}
    /\ jobs = 0 /\ aborts = 0 /\ overlapped = FALSE

-----------------------------------------------------------------------------
(* Writers: the object first, then the delta that names it. *)

StoreObject(d, p, c) ==
    /\ d \in Writer /\ pc[d] = "idle" /\ pending[d] = {}
    /\ Cardinality(history) < MaxWrites
    /\ \A e \in EntriesAt(Current, p) : e.deleted \/ e.hash # c
    /\ StoreAgain \/ (<<p, c>> \notin objects /\ \A e \in history : e.hash # c)
    /\ objects' = objects \cup {<<p, c>>}
    /\ expired' = expired \ {<<p, c>>}
    /\ job' = [g \in Device |-> [job[g] EXCEPT !.oldObjects = @ \ {<<p, c>>}]]
    /\ pending' = [pending EXCEPT ![d] = {[path |-> p, hash |-> c]}]
    /\ UNCHANGED <<remote, seen, pc, history, jobs, aborts, overlapped>>

Append1(d, p, c, deleted, over) ==
    LET e == [path |-> p, hash |-> c, deleted |-> deleted, dev |-> d,
              lamport |-> RemoteLamport(history) + 1, base |-> over]
    IN  /\ log' = log \cup {e}
        /\ history' = history \cup {e}

LogUpload(d) ==
    \E u \in pending[d] :
        LET old == EntriesAt(Current, u.path) IN
        /\ Append1(d, u.path, u.hash, FALSE,
                   IF old = {} THEN None ELSE EntryAt(old, u.path).hash)
        /\ pending' = [pending EXCEPT ![d] = {}]
        /\ UNCHANGED <<agedLog, snaps, agedGen, content, seen, pc, job, jobs, aborts, overlapped>>

LogTombstone(d, p) ==
    /\ d \in Writer /\ pc[d] = "idle" /\ pending[d] = {}
    /\ Cardinality(history) < MaxWrites
    /\ \E e \in EntriesAt(Current, p) : ~e.deleted /\ Append1(d, p, e.hash, TRUE, e.hash)
    /\ UNCHANGED <<agedLog, snaps, agedGen, content, seen, pc, job, pending, jobs, aborts, overlapped>>

-----------------------------------------------------------------------------
(* Time. *)

Running == {d \in Device : pc[d] # "idle"}

(* Objects of uploads whose delta is not logged yet. *)
InFlight == {<<u.path, u.hash>> : u \in UNION {pending[d] : d \in Device}}

AgeDelta(e) ==
    /\ e \in log \ agedLog
    /\ \A d \in Running : e \in job[d].oldLog
    /\ agedLog' = agedLog \cup {e}
    /\ UNCHANGED <<log, snaps, agedGen, content, seen, pc, job, pending, history, jobs, aborts, overlapped>>

AgeSnap(s) ==
    /\ s \in snaps /\ s.gen \notin agedGen
    /\ \A d \in Running : s.gen \in job[d].oldGen
    /\ agedGen' = agedGen \cup {s.gen}
    /\ UNCHANGED <<log, agedLog, snaps, content, seen, pc, job, pending, history, jobs, aborts, overlapped>>

Expire(o) ==
    /\ o \in objects \ expired
    /\ o \notin InFlight
    /\ \A d \in Running : o \in job[d].oldObjects
    /\ expired' = expired \cup {o}
    /\ UNCHANGED <<remote, objects, seen, pc, job, pending, history, jobs, aborts, overlapped>>

-----------------------------------------------------------------------------
(* Reading: from_store, then read_deltas. *)

(* from_store refuses a generation older than one this device has seen; the
   error ends the pass (Abort). *)
FromStore(d, state, fields) ==
    LET s == Latest(snaps) IN
    /\ s.gen = 0 \/ s.gen >= seen[d]
    /\ seen' = [seen EXCEPT ![d] = IF s.gen > @ THEN s.gen ELSE @]
    /\ Set(d, state, [fields EXCEPT !.snap = s])

StartPass(d) ==
    /\ pc[d] = "idle" /\ pending[d] = {}
    /\ jobs < MaxJobs
    /\ jobs' = jobs + 1
    /\ FromStore(d, "snapshot", [NoJob EXCEPT !.oldLog = log,
                                              !.oldGen = {s.gen : s \in snaps},
                                              !.oldObjects = objects \ InFlight])
    /\ UNCHANGED <<remote, content, pending, history, aborts, overlapped>>

(* Faulty variant: the merge starts from nothing, not from the snapshot. *)
ReadDeltas_logOnly(d) ==
    /\ pc[d] \in {"snapshot", "compact-snapshot"}
    /\ Set(d, IF pc[d] = "snapshot" THEN "read" ELSE "compact-read",
           [job[d] EXCEPT !.listed = log, !.merged = Merged(log)])
    /\ UNCHANGED <<remote, content, seen, pending, history, jobs, aborts, overlapped>>

ReadDeltas(d) ==
    /\ pc[d] \in {"snapshot", "compact-snapshot"}
    /\ Set(d, IF pc[d] = "snapshot" THEN "read" ELSE "compact-read",
           [job[d] EXCEPT !.listed = log,
                          !.merged = Merged(job[d].snap.manifest \cup log)])
    /\ UNCHANGED <<remote, content, seen, pending, history, jobs, aborts, overlapped>>

(* prunable_deltas counts what the pass listed. *)
Prunable(d) == Cardinality(job[d].listed \cap agedLog)

Compacting(d) == pc[d] \notin {"idle", "snapshot", "read"}

StartCompact(d) ==
    /\ pc[d] = "read"
    /\ d \in Compactor
    /\ Prunable(d) >= Threshold
    /\ FromStore(d, "compact-snapshot", job[d])
    /\ overlapped' = (overlapped \/ \E g \in Device \ {d} : Compacting(g))
    /\ UNCHANGED <<remote, content, pending, history, jobs, aborts>>

EndPass(d) ==
    /\ pc[d] = "read"
    /\ d \in Compactor => Prunable(d) < Threshold
    /\ Set(d, "idle", NoJob)
    /\ UNCHANGED <<remote, content, seen, pending, history, jobs, aborts, overlapped>>

-----------------------------------------------------------------------------
(* compact. *)

(* to_store: the listing that picks the generation, then the put, which
   replaces a snapshot of the same generation. *)
PickGeneration(d) ==
    /\ pc[d] = "compact-read"
    /\ Set(d, "put", [job[d] EXCEPT !.gen =
                         (IF snaps = {} THEN seen[d] ELSE Latest(snaps).gen) + 1])
    /\ UNCHANGED <<remote, content, seen, pending, history, jobs, aborts, overlapped>>

PutSnapshot(d) ==
    LET g == job[d].gen IN
    /\ pc[d] = "put"
    /\ snaps' = {s \in snaps : s.gen # g} \cup {[gen |-> g, manifest |-> job[d].merged]}
    /\ agedGen' = agedGen \ {g}
    /\ seen' = [seen EXCEPT ![d] = IF g > @ THEN g ELSE @]
    /\ Set(d, "verify", job[d])
    /\ UNCHANGED <<log, agedLog, content, pending, history, jobs, aborts, overlapped>>

(* The snapshot is read back; a mismatch is an error and prunes nothing. *)
Verify(d) ==
    LET s == Latest(snaps) IN
    /\ pc[d] = "verify"
    /\ s.gen >= seen[d]
    /\ seen' = [seen EXCEPT ![d] = s.gen]
    /\ IF s.manifest = job[d].merged
       THEN Set(d, "prune", job[d])
       ELSE Set(d, "idle", NoJob)
    /\ UNCHANGED <<remote, content, pending, history, jobs, aborts, overlapped>>

PruneDelta(d) ==
    /\ pc[d] = "prune"
    /\ \E e \in job[d].listed \cap agedLog :
          /\ log' = log \ {e}
          /\ agedLog' = agedLog \ {e}
          /\ Set(d, "prune", [job[d] EXCEPT !.listed = @ \ {e}])
    /\ UNCHANGED <<snaps, agedGen, content, seen, pending, history, jobs, aborts, overlapped>>

(* Faulty variant: prunes the snapshot that was just written. *)
PruneSnapshot_new(d) ==
    LET g == job[d].gen IN
    /\ pc[d] = "prune"
    /\ job[d].listed \cap agedLog = {}
    /\ snaps' = {s \in snaps : s.gen # g}
    /\ agedGen' = agedGen \ {g}
    /\ Set(d, "gc-read", job[d])
    /\ UNCHANGED <<log, agedLog, content, seen, pending, history, jobs, aborts, overlapped>>

PruneSnapshot(d) ==
    LET g == job[d].snap.gen IN
    /\ pc[d] = "prune"
    /\ job[d].listed \cap agedLog = {}
    /\ snaps' = {s \in snaps : ~(s.gen = g /\ g \in agedGen)}
    /\ agedGen' = agedGen \ {g}
    /\ Set(d, "gc-read", job[d])
    /\ UNCHANGED <<log, agedLog, content, seen, pending, history, jobs, aborts, overlapped>>

(* The remaining deltas are read again, and still count as references. *)
ReadReferences(d) ==
    /\ pc[d] = "gc-read"
    /\ Set(d, "gc-list", [job[d] EXCEPT !.listed = log])
    /\ UNCHANGED <<remote, content, seen, pending, history, jobs, aborts, overlapped>>

(* collect_garbage lists the objects with their ages ... *)
ListGarbage(d) ==
    LET referenced == {<<e.path, e.hash>> : e \in job[d].merged \cup job[d].listed} IN
    /\ pc[d] = "gc-list"
    /\ Set(d, "gc", [job[d] EXCEPT !.doomed = expired \ referenced])
    /\ UNCHANGED <<remote, content, seen, pending, history, jobs, aborts, overlapped>>

(* ... and deletes the doomed ones, one request each. *)
DeleteGarbage(d) ==
    /\ pc[d] = "gc"
    /\ \E o \in job[d].doomed :
          /\ objects' = objects \ {o}
          /\ expired' = expired \ {o}
          /\ Set(d, "gc", [job[d] EXCEPT !.doomed = @ \ {o}])
    /\ UNCHANGED <<remote, seen, pending, history, jobs, aborts, overlapped>>

EndCompact(d) ==
    /\ pc[d] = "gc"
    /\ job[d].doomed = {}
    /\ Set(d, "idle", NoJob)
    /\ UNCHANGED <<remote, content, seen, pending, history, jobs, aborts, overlapped>>

(* An error, a refused generation or a crash ends the job; a writer that dies
   before its delta leaves the object behind. *)
Abort(d) ==
    /\ aborts < MaxAborts
    /\ pc[d] # "idle" \/ pending[d] # {}
    /\ aborts' = aborts + 1
    /\ Set(d, "idle", NoJob)
    /\ pending' = [pending EXCEPT ![d] = {}]
    /\ UNCHANGED <<remote, content, seen, history, jobs, overlapped>>

-----------------------------------------------------------------------------
Write(d) ==
    \/ \E p \in Path, c \in Content : StoreObject(d, p, c)
    \/ LogUpload(d)
    \/ \E p \in Path : LogTombstone(d, p)

Pass(d) ==
    \/ StartPass(d) \/ ReadDeltas(d) \/ EndPass(d) \/ StartCompact(d)
    \/ PickGeneration(d) \/ PutSnapshot(d) \/ Verify(d)
    \/ PruneDelta(d) \/ PruneSnapshot(d)
    \/ ReadReferences(d) \/ ListGarbage(d) \/ DeleteGarbage(d) \/ EndCompact(d)

Time ==
    \/ \E e \in log : AgeDelta(e)
    \/ \E s \in snaps : AgeSnap(s)
    \/ \E o \in objects : Expire(o)

Next ==
    \/ \E d \in Device : Write(d) \/ Pass(d) \/ Abort(d)
    \/ Time

Spec == Init /\ [][Next]_vars

-----------------------------------------------------------------------------
(* Properties. *)

(* Types of the shared and the persistent state. *)
TypeOK ==
    /\ agedLog \subseteq log /\ log \subseteq history /\ history \subseteq Entry
    /\ snaps \subseteq [gen : Nat \ {0}, manifest : SUBSET history]
    /\ agedGen \subseteq {s.gen : s \in snaps}
    /\ expired \subseteq objects /\ objects \subseteq Path \X Content
    /\ seen \in [Device -> Nat]

(* Whatever compactions do, and wherever they fail, the newest snapshot and
   the log together still say what every entry ever logged says (compact
   prunes only what its verified snapshot holds).  Nothing is promised once
   two compactions ran at the same time. *)
RemoteComplete == ~overlapped => Current = Merged(history)

(* Every version the remote state names can be fetched: GC never deletes the
   object of an entry that a reader can still see (collect_garbage). *)
NoDanglingEntry ==
    ~overlapped => \A e \in Current : <<e.path, e.hash>> \in objects

(* Nothing that was logged is lost (RemoteComplete, NoDanglingEntry). *)
NothingLost == RemoteComplete /\ NoDanglingEntry

(* No honest device is locked out: the newest snapshot is never older than
   one a device has seen, so from_store's rollback refusal never fires. *)
NoFalseRollback == \A d \in Device : seen[d] <= Latest(snaps).gen

(* A reader is not left with a dangling range: what was logged before its
   pass began is in the manifest it merges, or something newer is. *)
ReadComplete ==
    \A d \in Device : pc[d] = "read" =>
        \A e \in job[d].oldLog :
            \E f \in job[d].merged : f.path = e.path /\ ~Beats(e, f)

(* What the store holds is well formed and no honest device is refused. *)
Consistent == TypeOK /\ NoFalseRollback
=============================================================================
