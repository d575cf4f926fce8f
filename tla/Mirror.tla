------------------------------- MODULE Mirror -------------------------------
(***************************************************************************)
(* Devices that mirror one folder through an object store: the sync pass   *)
(* of mirror-core (sync.rs, apply/), for paths that are kept local and     *)
(* while the log is not compacted.                                         *)
(*                                                                         *)
(* A device owns a folder (files), a baseline database (base: the hash     *)
(* last agreed with the remote, clock: its Lamport counter) and, while a   *)
(* pass runs, the pass's volatile state.  The devices share only the       *)
(* store: the delta log and the content objects.  Users edit the folders   *)
(* at any time the constants allow; a pass may die at any step.            *)
(***************************************************************************)
EXTENDS Manifest, Engine

CONSTANTS
    Copy,             \* the paths that are conflicted-copy names
    FlushBatch,       \* FLUSH_BATCH
    MaxEdits,         \* bound: user writes and deletes
    MaxFaults,        \* bound: failed transfers and aborted passes
    MaxIdle,          \* bound: passes that find nothing to do
    FreshContent,     \* no two user writes have the same content
    Deletes,          \* users delete files
    EditsDuringPass,  \* users write while a pass runs on their device
    UnstableFiles     \* files may keep changing while the scan hashes them

ASSUME CopyAssumption  == Copy \subseteq Path
ASSUME BatchAssumption == FlushBatch \in Nat \ {0}
ASSUME BoundAssumption == {MaxEdits, MaxFaults, MaxIdle} \subseteq Nat
ASSUME EnvAssumption   ==
    {FreshContent, Deletes, EditsDuringPass, UnstableFiles} \subseteq BOOLEAN

VARIABLES
    files,      \* files[d][p]: content of p in d's folder, None if absent
    base,       \* base[d][p]: last_synced_hash of the row of p, None if no row
    clock,      \* clock[d]: the Lamport counter in d's database
    pc,         \* pc[d]: where d's sync pass stands
    view,       \* view[d]: the pass's manifest
    losers,     \* losers[d]: conflict losers of d still to be preserved
    plan,       \* plan[d]: actions of the plan not yet executed
    stamp,      \* stamp[d]: the lamport of this pass
    seq,        \* seq[d]: flush_seq
    deltas,     \* deltas[d]: entries of the batch not yet logged
    ops,        \* ops[d]: baseline updates waiting for their delta
    log,        \* the delta objects in the store
    objects,    \* the content objects in the store: <<path, hash>>
    edits,      \* user operations so far
    faults,     \* faults so far
    idles,      \* passes that found nothing to do
    live        \* ghost: contents users wrote and did not replace or delete

folder == <<files, edits, live>>
volatile == <<pc, view, losers, plan, stamp, seq, deltas, ops>>
store == <<log, objects>>
budget == <<faults, idles>>
vars == <<files, base, clock, volatile, store, edits, budget, live>>

Name == Path \ Copy
Hash == Content \cup {None}
Action == [path : Path, kind : ActionKind]
BaselineOp == [op : {"Confirm"}, path : Path, hash : Content]
                 \cup [op : {"Remove"}, path : Path]
DeltaObject == [lamport : Nat, dev : Device, seq : Nat, entries : SUBSET Entry]

Entries(objs) == UNION {o.entries : o \in objs}

-----------------------------------------------------------------------------
(* Pure parts of a pass. *)

(* The remote hash of p that reconcile sees: tombstones count as absent. *)
Remote(m, p) ==
    IF \E e \in m : e.path = p /\ ~e.deleted THEN EntryAt(m, p).hash ELSE NoHash

(* Manifest::get(p).plaintext_hash, tombstones included. *)
KnownHash(m, p) ==
    IF EntriesAt(m, p) = {} THEN None ELSE EntryAt(m, p).hash

(* Faulty variant: every device but the loser's own preserves. *)
OwnLosers_others(d, es) ==
    {c.loser : c \in {k \in LogConflicts(es) : k.loser.dev # d}}

(* preserve_conflict_losers: only the device that wrote the losing bytes. *)
OwnLosers(d, es) ==
    {c.loser : c \in {k \in LogConflicts(es) : k.loser.dev = d}}

(* The plan for a folder, a baseline and a manifest.  skipped: the files the
   scan could not hash because they kept changing. *)
PlanFor(folder_d, base_d, m, skipped) ==
    LET kind(p) == reconcile(IF p \in skipped THEN NoHash ELSE folder_d[p],
                             base_d[p], Remote(m, p))
    IN  {[path |-> p, kind |-> kind(p)] : p \in {q \in Path : kind(q) # "None"}}

(* Faulty variant: the lamport ignores what the log says. *)
NextLamport_own(d, es) == clock[d] + 1

(* The lamport of a pass that read the entries es. *)
NextLamport(d, es) ==
    LET remote == RemoteLamport(es)
    IN  (IF remote > clock[d] THEN remote ELSE clock[d]) + 1

(* conflict_name: a timestamped name that nobody used before. *)
FreshCopies ==
    {q \in Copy : /\ \A d \in Device : files[d][q] = None
                  /\ \A e \in Entries(log) : e.path # q}

(* Faulty variant: the file is copied aside, not renamed. *)
RenamedAside_copied(d, p, q) == [files EXCEPT ![d][q] = files[d][p]]

RenamedAside(d, p, q) == [files EXCEPT ![d][q] = files[d][p], ![d][p] = None]

(* A pass of d would do something. *)
WorkToDo(d) ==
    LET es == Entries(log)
    IN  \/ PlanFor(files[d], base[d], Merged(es), {}) # {}
        \/ \E e \in OwnLosers(d, es) : files[d][e.path] = e.hash

-----------------------------------------------------------------------------
Init ==
    /\ files = [d \in Device |-> [p \in Path |-> None]]
    /\ base = [d \in Device |-> [p \in Path |-> None]]
    /\ clock = [d \in Device |-> 0]
    /\ pc = [d \in Device |-> "idle"]
    /\ view = [d \in Device |-> {}]
    /\ losers = [d \in Device |-> {}]
    /\ plan = [d \in Device |-> {}]
    /\ stamp = [d \in Device |-> 0]
    /\ seq = [d \in Device |-> 0]
    /\ deltas = [d \in Device |-> {}]
    /\ ops = [d \in Device |-> <<>>]
    /\ log = {}
    /\ objects = {}
    /\ edits = 0
    /\ faults = 0
    /\ idles = 0
    /\ live = {}

-----------------------------------------------------------------------------
(* The users. *)

MayTouch(d) == edits < MaxEdits /\ (EditsDuringPass \/ pc[d] = "idle")

UserWrite(d, p, c) ==
    /\ MayTouch(d)
    /\ c # files[d][p]
    /\ FreshContent => c = edits + 1
    /\ files' = [files EXCEPT ![d][p] = c]
    /\ live' = (live \ {files[d][p]}) \cup {c}
    /\ edits' = edits + 1
    /\ UNCHANGED <<base, clock, volatile, store, budget>>

UserDelete(d, p) ==
    /\ Deletes
    /\ MayTouch(d)
    /\ files[d][p] # None
    /\ files' = [files EXCEPT ![d][p] = None]
    /\ live' = live \ {files[d][p]}
    /\ edits' = edits + 1
    /\ UNCHANGED <<base, clock, volatile, store, budget>>

-----------------------------------------------------------------------------
(* plan_pass. *)

(* Reads and merges the log.  The pass's lamport depends only on this read
   and on the device's own counter. *)
ReadLog(d) ==
    LET es == Entries(log) IN
    /\ pc[d] = "idle"
    /\ WorkToDo(d) \/ idles < MaxIdle
    /\ idles' = IF WorkToDo(d) THEN idles ELSE idles + 1
    /\ pc' = [pc EXCEPT ![d] = "preserve"]
    /\ view' = [view EXCEPT ![d] = Merged(es)]
    /\ losers' = [losers EXCEPT ![d] = OwnLosers(d, es)]
    /\ stamp' = [stamp EXCEPT ![d] = NextLamport(d, es)]
    /\ UNCHANGED <<folder, base, clock, plan, seq, deltas, ops, store, faults>>

(* Faulty variant: renames whatever the path holds. *)
Preserve_unchecked(d, e) ==
    /\ pc[d] = "preserve"
    /\ e \in losers[d]
    /\ losers' = [losers EXCEPT ![d] = @ \ {e}]
    /\ IF files[d][e.path] # None
       THEN \E q \in FreshCopies : files' = RenamedAside(d, e.path, q)
       ELSE files' = files
    /\ base' = [base EXCEPT ![d][e.path] = None]
    /\ UNCHANGED <<clock, pc, view, plan, stamp, seq, deltas, ops,
                   store, edits, budget, live>>

(* One conflict of preserve_conflict_losers: the bytes are renamed aside
   only if they still are the loser's, and the row of the path is dropped. *)
Preserve(d, e) ==
    /\ pc[d] = "preserve"
    /\ e \in losers[d]
    /\ losers' = [losers EXCEPT ![d] = @ \ {e}]
    /\ \/ /\ files[d][e.path] = e.hash
          /\ \E q \in FreshCopies : files' = RenamedAside(d, e.path, q)
          /\ base' = [base EXCEPT ![d][e.path] = None]
       \/ /\ files[d][e.path] # e.hash \/ UnstableFiles
          /\ UNCHANGED <<files, base>>
    /\ UNCHANGED <<clock, pc, view, plan, stamp, seq, deltas, ops,
                   store, edits, budget, live>>

(* Scans and reconciles.  A file that kept changing is left out of the
   scan's entries. *)
Scan(d) ==
    /\ pc[d] = "preserve"
    /\ losers[d] = {}
    /\ \E skipped \in (IF UnstableFiles THEN SUBSET Path ELSE {{}}) :
          plan' = [plan EXCEPT ![d] = PlanFor(files[d], base[d], view[d], skipped)]
    /\ pc' = [pc EXCEPT ![d] = "apply"]
    /\ UNCHANGED <<folder, base, clock, view, losers, stamp, seq, deltas, ops,
                   store, budget>>

-----------------------------------------------------------------------------
(* apply. *)

(* Enough updates wait, or the plan is done: the batch is flushed before
   anything else. *)
FlushDue(d) == Len(ops[d]) >= FlushBatch \/ plan[d] = {}

Executing(d, p, kind) ==
    /\ pc[d] = "apply"
    /\ ~FlushDue(d)
    /\ [path |-> p, kind |-> kind] \in plan[d]
    /\ plan' = [plan EXCEPT ![d] = @ \ {[path |-> p, kind |-> kind]}]

Push(d, op) == ops' = [ops EXCEPT ![d] = Append(@, op)]

(* Faulty variant: stamped with the database's counter, not the pass's. *)
NewDelta_counter(d, p, c, deleted) ==
    [path |-> p, hash |-> c, deleted |-> deleted, lamport |-> clock[d] + 1,
     dev |-> d, base |-> KnownHash(view[d], p)]

NewDelta(d, p, c, deleted) ==
    [path |-> p, hash |-> c, deleted |-> deleted, lamport |-> stamp[d],
     dev |-> d, base |-> KnownHash(view[d], p)]

(* Faulty variant: bytes that some other path already stored are not stored again. *)
Upload_dedup(d, p) ==
    LET c == files[d][p] IN
    /\ Executing(d, p, "Upload")
    /\ c # None
    /\ objects' = IF \E o \in objects : o[2] = c THEN objects ELSE objects \cup {<<p, c>>}
    /\ deltas' = [deltas EXCEPT ![d] = @ \cup {NewDelta(d, p, c, FALSE)}]
    /\ view' = [view EXCEPT ![d] = Insert(@, NewDelta(d, p, c, FALSE))]
    /\ Push(d, [op |-> "Confirm", path |-> p, hash |-> c])
    /\ UNCHANGED <<folder, base, clock, pc, losers, stamp, seq, log, budget>>

(* Uploads what the file holds now, which may be newer than the scan. *)
Upload(d, p) ==
    LET c == files[d][p] IN
    /\ Executing(d, p, "Upload")
    /\ c # None
    /\ objects' = objects \cup {<<p, c>>}
    /\ deltas' = [deltas EXCEPT ![d] = @ \cup {NewDelta(d, p, c, FALSE)}]
    /\ view' = [view EXCEPT ![d] = Insert(@, NewDelta(d, p, c, FALSE))]
    /\ Push(d, [op |-> "Confirm", path |-> p, hash |-> c])
    /\ UNCHANGED <<folder, base, clock, pc, losers, stamp, seq, log, budget>>

(* Fetches, verifies and renames over whatever the path holds. *)
Download(d, p) ==
    LET c == EntryAt(view[d], p).hash IN
    /\ Executing(d, p, "Download")
    /\ <<p, c>> \in objects
    /\ files' = [files EXCEPT ![d][p] = c]
    /\ Push(d, [op |-> "Confirm", path |-> p, hash |-> c])
    /\ UNCHANGED <<base, clock, pc, view, losers, stamp, seq, deltas,
                   store, edits, budget, live>>

(* The file to upload is gone: the transfer fails and is skipped. *)
UploadVanished(d, p) ==
    /\ Executing(d, p, "Upload")
    /\ files[d][p] = None
    /\ UNCHANGED <<folder, base, clock, pc, view, losers, stamp, seq, deltas, ops,
                   store, budget>>

(* The second loop of apply takes the other actions in the order of
   ActionKind, once every transfer has been joined. *)
ExecutingLate(d, p, kind, earlier) ==
    /\ Executing(d, p, kind)
    /\ \A a \in plan[d] : a.kind \notin TransferKind \cup earlier

DeleteLocal(d, p) ==
    /\ ExecutingLate(d, p, "DeleteLocal", {})
    /\ files' = [files EXCEPT ![d][p] = None]
    /\ Push(d, [op |-> "Remove", path |-> p])
    /\ UNCHANGED <<base, clock, pc, view, losers, stamp, seq, deltas,
                   store, edits, budget, live>>

DeleteRemote(d, p) ==
    /\ ExecutingLate(d, p, "DeleteRemote", {"DeleteLocal"})
    /\ deltas' = [deltas EXCEPT ![d] = @ \cup
                     {NewDelta(d, p, e.hash, TRUE) : e \in EntriesAt(view[d], p)}]
    /\ view' = [view EXCEPT ![d] = @ \ EntriesAt(@, p)]
    /\ Push(d, [op |-> "Remove", path |-> p])
    /\ UNCHANGED <<folder, base, clock, pc, losers, stamp, seq, store, budget>>

(* conflict(): what the path holds is renamed aside and the row dropped at
   once.  If the path holds nothing the rename only warns. *)
Conflict(d, p) ==
    /\ ExecutingLate(d, p, "Conflict", {"DeleteLocal", "DeleteRemote"})
    /\ \/ /\ files[d][p] # None
          /\ \E q \in FreshCopies : files' = RenamedAside(d, p, q)
       \/ /\ files[d][p] = None
          /\ files' = files
    /\ base' = [base EXCEPT ![d][p] = None]
    /\ UNCHANGED <<clock, pc, view, losers, stamp, seq, deltas, ops,
                   store, edits, budget, live>>

(* put_bytes replaces an object of the same key. *)
PutObject(objs, o) ==
    {x \in objs : ~(x.lamport = o.lamport /\ x.dev = o.dev /\ x.seq = o.seq)}
        \cup {o}

(* flush, first half: the batch's delta object. *)
FlushLog(d) ==
    /\ pc[d] = "apply"
    /\ FlushDue(d)
    /\ IF deltas[d] = {}
       THEN UNCHANGED <<log, seq, deltas>>
       ELSE /\ log' = PutObject(log, [lamport |-> stamp[d], dev |-> d,
                                      seq |-> seq[d], entries |-> deltas[d]])
            /\ seq' = [seq EXCEPT ![d] = @ + 1]
            /\ deltas' = [deltas EXCEPT ![d] = {}]
    /\ pc' = [pc EXCEPT ![d] = "flush"]
    /\ UNCHANGED <<folder, base, clock, view, losers, plan, stamp, ops,
                   objects, budget>>

(* Faulty variant: rows are updated before the batch's delta is logged. *)
FlushOp_early(d) ==
    LET o == Head(ops[d]) IN
    /\ pc[d] \in {"apply", "flush"}
    /\ ops[d] # <<>>
    /\ base' = [base EXCEPT ![d][o.path] = IF o.op = "Confirm" THEN o.hash ELSE None]
    /\ ops' = [ops EXCEPT ![d] = Tail(@)]
    /\ UNCHANGED <<folder, clock, pc, view, losers, plan, stamp, seq, deltas,
                   store, budget>>

(* flush, second half: one baseline update, confirm_sync or remove. *)
FlushOp(d) ==
    LET o == Head(ops[d]) IN
    /\ pc[d] = "flush"
    /\ ops[d] # <<>>
    /\ base' = [base EXCEPT ![d][o.path] = IF o.op = "Confirm" THEN o.hash ELSE None]
    /\ ops' = [ops EXCEPT ![d] = Tail(@)]
    /\ UNCHANGED <<folder, clock, pc, view, losers, plan, stamp, seq, deltas,
                   store, budget>>

(* What a pass leaves in memory when it ends or dies: nothing. *)
Forget(d) ==
    /\ pc' = [pc EXCEPT ![d] = "idle"]
    /\ view' = [view EXCEPT ![d] = {}]
    /\ losers' = [losers EXCEPT ![d] = {}]
    /\ plan' = [plan EXCEPT ![d] = {}]
    /\ stamp' = [stamp EXCEPT ![d] = 0]
    /\ seq' = [seq EXCEPT ![d] = 0]
    /\ deltas' = [deltas EXCEPT ![d] = {}]
    /\ ops' = [ops EXCEPT ![d] = <<>>]

FlushDone(d) ==
    /\ pc[d] = "flush"
    /\ ops[d] = <<>>
    /\ plan[d] # {}
    /\ pc' = [pc EXCEPT ![d] = "apply"]
    /\ UNCHANGED <<folder, base, clock, view, losers, plan, stamp, seq, deltas, ops,
                   store, budget>>

(* The last flush is done: record_lamport ends apply. *)
Finish(d) ==
    /\ pc[d] = "flush"
    /\ ops[d] = <<>>
    /\ plan[d] = {}
    /\ clock' = [clock EXCEPT ![d] = stamp[d]]
    /\ Forget(d)
    /\ UNCHANGED <<folder, base, store, budget>>

-----------------------------------------------------------------------------
(* Failures. *)

Failing == faults < MaxFaults /\ faults' = faults + 1

(* A failed transfer is skipped, its baseline untouched. *)
TransferFails(d, p, kind) ==
    /\ Failing
    /\ Executing(d, p, kind)
    /\ UNCHANGED <<folder, base, clock, pc, view, losers, stamp, seq, deltas, ops,
                   store, idles>>

(* An error that leaves the pass early (a failed log write, an
   I/O error) and a crash of the process have the same effect: the volatile
   state is gone, what was written stays. *)
Abort(d) ==
    /\ Failing
    /\ pc[d] # "idle"
    /\ Forget(d)
    /\ UNCHANGED <<folder, base, clock, store, idles>>

(* The process dies between renaming a file aside and dropping its row, in
   preserve_conflict_losers or in conflict. *)
AbortInRename(d, p) ==
    /\ Failing
    /\ \/ /\ pc[d] = "preserve"
          /\ \E e \in losers[d] : e.path = p /\ files[d][p] = e.hash
       \/ /\ pc[d] = "apply"
          /\ [path |-> p, kind |-> "Conflict"] \in plan[d]
          /\ \A a \in plan[d] : a.kind = "Conflict"
          /\ files[d][p] # None
    /\ \E q \in FreshCopies : files' = RenamedAside(d, p, q)
    /\ Forget(d)
    /\ UNCHANGED <<base, clock, store, edits, idles, live>>

-----------------------------------------------------------------------------
PassStep(d) ==
    \/ ReadLog(d)
    \/ \E e \in losers[d] : Preserve(d, e)
    \/ Scan(d)
    \/ \E p \in Path : \/ Upload(d, p)
                       \/ UploadVanished(d, p)
                       \/ Download(d, p)
                       \/ DeleteLocal(d, p)
                       \/ DeleteRemote(d, p)
                       \/ Conflict(d, p)
    \/ FlushLog(d)
    \/ FlushOp(d)
    \/ FlushDone(d)
    \/ Finish(d)

Fault(d) ==
    \/ \E p \in Path, kind \in {"Upload", "Download"} : TransferFails(d, p, kind)
    \/ Abort(d)
    \/ \E p \in Path : AbortInRename(d, p)

(* The users' operations: on the original names, never on a conflicted copy. *)
User(d) ==
    \/ \E p \in Name, c \in Content : UserWrite(d, p, c)
    \/ \E p \in Name : UserDelete(d, p)

(* Everything is in sync: the daemons' further passes change nothing. *)
Rest ==
    /\ \A d \in Device : pc[d] = "idle" /\ ~WorkToDo(d)
    /\ UNCHANGED vars

Next ==
    \/ \E d \in Device : PassStep(d) \/ Fault(d) \/ User(d)
    \/ Rest

Spec == Init /\ [][Next]_vars

(* The daemon keeps starting passes while there is something to do, and a
   started pass keeps running (watch.rs).  Users and faults are not fair. *)
FairSpec == Spec /\ \A d \in Device : WF_vars(PassStep(d))

-----------------------------------------------------------------------------
(* Properties. *)

(* Every variable has its type. *)
TypeOK ==
    /\ files \in [Device -> [Path -> Hash]]
    /\ base \in [Device -> [Path -> Hash]]
    /\ clock \in [Device -> Nat]
    /\ pc \in [Device -> {"idle", "preserve", "apply", "flush"}]
    /\ view \in [Device -> SUBSET Entry]
    /\ losers \in [Device -> SUBSET Entry]
    /\ plan \in [Device -> SUBSET Action]
    /\ stamp \in [Device -> Nat]
    /\ seq \in [Device -> Nat]
    /\ deltas \in [Device -> SUBSET Entry]
    /\ ops \in [Device -> Seq(BaselineOp)]
    /\ log \subseteq DeltaObject
    /\ objects \subseteq Path \X Content
    /\ edits \in Nat /\ faults \in Nat /\ idles \in Nat
    /\ live \subseteq Content

(* A baseline row never claims a sync that the log does not record: the hash
   it holds was logged for its path.  flush() defers every row update until
   the delta is durable, whatever fails or dies in between. *)
BaselineLogged ==
    \A d \in Device, p \in Path :
        base[d][p] # None =>
            \E e \in Entries(log) : e.path = p /\ e.hash = base[d][p] /\ ~e.deleted

(* Correct clients never emit two entries of one path with the same
   (lamport, device): what winner_key's order rests on (merge_deltas). *)
UniqueStamp ==
    \A e, f \in Entries(log) :
        e.path = f.path /\ e.lamport = f.lamport /\ e.dev = f.dev => e = f

(* The mirror is well formed and its stamps are unique (TypeOK, UniqueStamp). *)
Consistent == TypeOK /\ UniqueStamp

(* Every logged version can be fetched: its object was stored before the
   delta that names it (upload before flush). *)
LogPointsAtObjects == \A e \in Entries(log) : <<e.path, e.hash>> \in objects

(* log_delta never replaces a delta object of an earlier batch or pass: the
   key (lamport, device, seq) is new every time, across crashes too. *)
NothingOverwritten == [][log \subseteq log']_log

(* No step loses an edit: what a user wrote and nobody replaced or deleted is
   in some device's folder, under its name or as a conflicted copy. *)
NoLostEdit ==
    \A c \in live : \E d \in Device, p \in Path : files[d][p] = c

(* A content is kept as at most one conflicted copy: resolving a conflict
   once more (after a crash, or while the log still reports it) does not
   copy it again.  Between two devices: a third one that downloaded the file
   and died before its row was written may copy what the author copies too. *)
OneCopy ==
    \A d \in Device, q, r \in Copy :
        files[d][q] # None /\ files[d][q] = files[d][r] => q = r

(* A device at rest agrees with the log, hence with every device at rest:
   the same files with the same contents (plan_pass finds nothing to do). *)
RestConverged ==
    \A d \in Device : ~WorkToDo(d) =>
        \A p \in Path : files[d][p] = Remote(Merged(Entries(log)), p)

(* Devices converge: once the users stop, all folders become and stay equal. *)
Convergence == <>[](\A d, g \in Device : files[d] = files[g])

(* The step renames d's file p aside to the conflicted copy q. *)
Aside(d, p, q) ==
    /\ files[d][p] # None /\ files'[d][p] = None
    /\ files[d][q] = None /\ files'[d][q] = files[d][p]

(* The winner keeps the path: what is renamed aside is never the version the
   pass's own manifest holds for the path (preserve_conflict_losers, conflict). *)
WinnerKeepsPath ==
    [][\A d \in Device, p \in Name, q \in Copy :
          Aside(d, p, q) => files[d][p] # Remote(view[d], p)]_files
=============================================================================
