----------------------------- MODULE Residency -----------------------------
(***************************************************************************)
(* Files without their bytes: eviction, placeholders, hydration and        *)
(* relocation on one device (apply/evict.rs, placeholder.rs, residency.rs, *)
(* and what sync.rs and apply/execute.rs do for them).                     *)
(*                                                                         *)
(* A pass reads the log, renames or relocates the losers of conflicts,     *)
(* scans, plans with the reconcile engine, executes and flushes its plan,  *)
(* records the scan, and then evicts.  The log is abstracted to the live   *)
(* version of each path and the losing versions of this device that it     *)
(* still reports; other devices log between passes.  Mirror has the races  *)
(* of passes with each other and of edits with transfers, Upload those of  *)
(* a transfer; here users also edit while an eviction runs.                *)
(***************************************************************************)
EXTENDS Engine, Sequences, FiniteSets

CONSTANTS
    Path,         \* names of files
    Copy,         \* the names among them that conflicted copies get
    Content,      \* versions, as their hashes
    Verify,       \* verify_before_evict
    Collisions,   \* whether a moved placeholder may meet another file's name
    LoserDeletes, \* whether others may delete a file while our version of it waits to be relocated
    SecondSaves,  \* whether a file may be saved twice while it is being evicted
    MaxEdits,     \* bound: writes, deletions and placeholder moves by the users
    MaxRequests,  \* bound: pins, and files chosen to be hydrated or evicted
    MaxPeerEdits, \* bound: versions and deletions logged by other devices
    MaxFaults     \* bound: failed transfers, crashes and damaged objects

(* The absence of a path. *)
NoPath == "none"

ASSUME ContentAssumption == Content # {} /\ NoHash \notin Content /\ Content \subseteq Nat
ASSUME PathAssumption    == Copy \subseteq Path /\ Path \ Copy # {} /\ NoPath \notin Path
ASSUME ResidencyBounds   == /\ {Verify, Collisions, LoserDeletes, SecondSaves} \subseteq BOOLEAN
                            /\ {MaxEdits, MaxRequests, MaxPeerEdits, MaxFaults} \subseteq Nat

VARIABLES
    files,    \* files[p]: content of p in the folder, NoHash if absent
    stubs,    \* stubs[p]: the placeholder p.rfm, [of, hash]; of names a path
    rows,     \* rows[p]: row of p: content_hash, last_synced_hash, residency
    mode,     \* mode[p]: the residency pinned for p
    aside,    \* what an eviction moved to .mirror/tmp, NoHash if nothing
    litter,   \* what crashes left there
    remote,   \* remote[p]: the live version of p in the log, and whether it is ours
    losers,   \* our versions the log reports as losers of a conflict
    objects,  \* health of the content objects, by path and hash
    pc, view, \* where the pass stands; its manifest
    scan,     \* what its scan saw
    plan,     \* actions not yet executed
    sources,  \* relocations: [to, path, hash]
    todo,     \* losers, or paths to evict, not looked at yet
    pinned,   \* sources of failed relocations
    arrived,  \* paths hydrated whose placeholder is still there
    deltas, ops, \* what the next flush logs, and then records
    cur,      \* the eviction under way: path and hash
    edits, requests, peerEdits, faults,
    owed,     \* ghost: the versions nobody replaced or deleted
    gone      \* ghost: objects damaged when no file had their bytes any more

disk == <<files, stubs, aside, litter>>
log_vars == <<remote, losers>>
pass_vars == <<pc, view, scan, plan, sources, todo, pinned, arrived, deltas, ops, cur>>
counters == <<edits, requests, peerEdits, faults>>
vars == <<disk, rows, mode, log_vars, objects, pass_vars, counters, owed, gone>>

NoStub == [of |-> NoPath, hash |-> NoHash]
NoRow  == [hash |-> NoHash, synced |-> NoHash, evicted |-> FALSE]
Absent == [hash |-> NoHash, ours |-> FALSE]
NoCur  == [path |-> NoPath, hash |-> NoHash]

Mode == {"local", "online", "auto"}

(* Only an object in good health can be fetched; one that is missing or has
   the wrong length shows in head, one that is rotten only when decrypted. *)
Health(p, c) == IF <<p, c>> \in DOMAIN objects THEN objects[<<p, c>>] ELSE "missing"
SetHealth(p, c, h) ==
    objects' = [k \in DOMAIN objects \cup {<<p, c>>} |->
                    IF k = <<p, c>> THEN h ELSE objects[k]]

Contents == {files[p] : p \in Path}
Written == Contents \cup {aside} \cup litter \cup owed \cup {k[2] : k \in DOMAIN objects}

(* What somebody writes is new, whatever it is. *)
IsNew(c) == c = CHOOSE d \in Content \ Written : TRUE

(* A moved placeholder stands at p; one that names p stands elsewhere. *)
Foreign(p) == stubs[p].of \notin {NoPath, p}
Named(p) == \E q \in Path \ {p} : stubs[q].of = p

(* A name nothing is known of, as conflict_name makes one from the time. *)
Unused(q) ==
    /\ files[q] = NoHash /\ stubs[q] = NoStub /\ rows[q] = NoRow /\ remote[q] = Absent
    /\ ~Named(q) /\ \A l \in losers : l.path # q
    /\ \A s \in sources : s.to # q
Fresh(q) == (\E r \in Copy : Unused(r)) /\ q = CHOOSE r \in Copy : Unused(r)

Forget ==
    /\ pc' = "idle" /\ view' = [p \in Path |-> Absent] /\ scan' = [p \in Path |-> NoHash]
    /\ plan' = {} /\ sources' = {} /\ todo' = {} /\ pinned' = {} /\ arrived' = {}
    /\ deltas' = {} /\ ops' = <<>> /\ cur' = NoCur

-----------------------------------------------------------------------------
(* One file, synced and present. *)
Init ==
    /\ LET p == CHOOSE q \in Path \ Copy : TRUE
           c == CHOOSE d \in Content : TRUE IN
          /\ files = [q \in Path |-> IF q = p THEN c ELSE NoHash]
          /\ rows = [q \in Path |-> IF q = p THEN [hash |-> c, synced |-> c, evicted |-> FALSE]
                                    ELSE NoRow]
          /\ remote = [q \in Path |-> IF q = p THEN [hash |-> c, ours |-> TRUE] ELSE Absent]
          /\ objects = [k \in {<<p, c>>} |-> "good"]
          /\ owed = {c}
    /\ stubs = [p \in Path |-> NoStub]
    /\ mode = [p \in Path |-> "auto"]
    /\ aside = NoHash /\ litter = {} /\ losers = {}
    /\ pc = "idle" /\ view = [p \in Path |-> Absent] /\ scan = [p \in Path |-> NoHash]
    /\ plan = {} /\ sources = {} /\ todo = {} /\ pinned = {} /\ arrived = {}
    /\ deltas = {} /\ ops = <<>> /\ cur = NoCur
    /\ edits = 0 /\ requests = 0 /\ peerEdits = 0 /\ faults = 0
    /\ gone = {}

-----------------------------------------------------------------------------
(* The users. *)

Evicting == {"evict", "mark", "stub", "aside", "stat", "unlink", "putback", "unstub", "unmark"}

(* Unless SecondSaves, the file that is being evicted is saved once meanwhile:
   PutBack replaces whatever a second save made. *)
Editing ==
    /\ pc \in {"idle"} \cup Evicting
    /\ edits < MaxEdits
    /\ cur # NoCur /\ ~SecondSaves =>
           files[cur.path] \in {cur.hash, NoHash} /\ aside \in {cur.hash, NoHash}
    /\ edits' = edits + 1

Write(p, c) ==
    /\ Editing
    /\ p \notin Copy /\ Content \ Written # {} /\ IsNew(c)
    /\ Foreign(p) \/ Named(p) => Collisions
    /\ files' = [files EXCEPT ![p] = c]
    /\ owed' = (owed \ {files[p], IF files[p] = NoHash THEN rows[p].synced ELSE NoHash})
                   \cup {c}
    /\ UNCHANGED <<stubs, rows, mode, aside, litter, log_vars, objects, pass_vars, requests,
                   peerEdits, faults, gone>>

Delete(p) ==
    /\ Editing
    /\ files[p] # NoHash
    /\ files' = [files EXCEPT ![p] = NoHash]
    /\ owed' = owed \ {files[p]}
    /\ UNCHANGED <<stubs, rows, mode, aside, litter, log_vars, objects, pass_vars, requests,
                   peerEdits, faults, gone>>

DeleteStub(p) ==
    /\ Editing /\ pc = "idle"
    /\ stubs[p] # NoStub
    /\ stubs' = [stubs EXCEPT ![p] = NoStub]
    /\ owed' = owed \ {stubs[p].hash, IF Foreign(p) THEN remote[p].hash ELSE NoHash}
    /\ UNCHANGED <<files, rows, mode, aside, litter, log_vars, objects, pass_vars, requests,
                   peerEdits, faults, gone>>

MoveStub(p, q) ==
    /\ Editing /\ pc = "idle"
    /\ stubs[p] # NoStub /\ stubs[q] = NoStub /\ q \notin Copy
    /\ Foreign(p) \/ Named(p) \/ Named(q) \/ files[q] # NoHash \/ remote[q] # Absent => Collisions
    /\ stubs' = [stubs EXCEPT ![p] = NoStub, ![q] = stubs[p]]
    /\ UNCHANGED <<files, rows, mode, aside, litter, log_vars, objects, pass_vars, requests,
                   peerEdits, faults, owed, gone>>

(* rfm pin: add_pin, remove_pin. *)
Pin(p, m) ==
    /\ pc = "idle"
    /\ p \notin Copy /\ mode[p] # m
    /\ requests < MaxRequests
    /\ requests' = requests + 1
    /\ mode' = [mode EXCEPT ![p] = m]
    /\ UNCHANGED <<disk, rows, log_vars, objects, pass_vars, edits, peerEdits, faults, owed,
                   gone>>

-----------------------------------------------------------------------------
(* The other devices, between passes. *)

(* A version of this device that lost a conflict while it was evicted, and that
   the next pass will still relocate. *)
PendingLoser(p, c) ==
    [path |-> p, hash |-> c] \in losers /\ rows[p].evicted /\ rows[p].synced = c

PeerStep ==
    /\ pc = "idle"
    /\ peerEdits < MaxPeerEdits
    /\ peerEdits' = peerEdits + 1

PeerVersion(p, c) ==
    /\ p \notin Copy /\ Content \ Written # {} /\ IsNew(c)
    /\ Foreign(p) \/ (Named(p) /\ remote[p] = Absent) => Collisions
    /\ remote' = [remote EXCEPT ![p] = [hash |-> c, ours |-> FALSE]]
    /\ SetHealth(p, c, "good")

(* An edit of the newest version. *)
PeerEdit(p, c) ==
    /\ PeerStep
    /\ PeerVersion(p, c)
    /\ owed' = (owed \ {remote[p].hash}) \cup {c}
    /\ UNCHANGED <<disk, rows, mode, losers, pass_vars, edits, requests, faults, gone>>

(* An edit made before it had ours, that wins over ours. *)
PeerConflict(p, c) ==
    /\ PeerStep
    /\ remote[p].ours
    /\ remote[p].hash \notin {files[p], rows[p].synced} => Collisions
    /\ PeerVersion(p, c)
    /\ losers' = losers \cup {[path |-> p, hash |-> remote[p].hash]}
    /\ owed' = owed \cup {c}
    /\ UNCHANGED <<disk, rows, mode, pass_vars, edits, requests, faults, gone>>

PeerDelete(p) ==
    /\ PeerStep
    /\ remote[p] # Absent
    /\ (\E c \in Content : PendingLoser(p, c)) => LoserDeletes
    /\ remote' = [remote EXCEPT ![p] = Absent]
    /\ owed' = owed \ {remote[p].hash}
    /\ UNCHANGED <<disk, rows, mode, losers, objects, pass_vars, edits, requests, faults, gone>>

-----------------------------------------------------------------------------
(* plan_pass. *)

ReadLog ==
    /\ pc = "idle"
    /\ view' = remote
    /\ todo' = losers
    /\ pc' = "preserve"
    /\ UNCHANGED <<disk, rows, mode, log_vars, objects, scan, plan, sources, pinned, arrived,
                   deltas, ops, cur, counters, owed, gone>>

(* preserve_conflict_losers, one loser: its bytes are renamed aside if the file
   still has them; an evicted one is relocated. *)
PreserveLoser(l) ==
    /\ pc = "preserve"
    /\ l \in todo
    /\ todo' = todo \ {l}
    /\ \/ /\ files[l.path] = l.hash
          /\ \E q \in Path :
                /\ Fresh(q)
                /\ files' = [files EXCEPT ![l.path] = NoHash, ![q] = l.hash]
          /\ rows' = [rows EXCEPT ![l.path] = NoRow]
          /\ UNCHANGED sources
       \/ /\ files[l.path] = NoHash
          /\ rows[l.path].evicted /\ rows[l.path].synced = l.hash
          /\ \E q \in Path :
                /\ Fresh(q)
                /\ sources' = sources \cup {[to |-> q, path |-> l.path, hash |-> l.hash]}
          /\ UNCHANGED <<files, rows>>
       \/ /\ files[l.path] # l.hash
          /\ files[l.path] = NoHash =>
                 ~(rows[l.path].evicted /\ rows[l.path].synced = l.hash)
          /\ UNCHANGED <<files, rows, sources>>
    /\ UNCHANGED <<stubs, mode, aside, litter, log_vars, objects, pc, view, scan, plan, pinned,
                   arrived, deltas, ops, cur, counters, owed, gone>>

StubKindOf(p, s) ==
    IF s[p] = NoStub THEN "none" ELSE IF s[p].of = p THEN "own" ELSE "moved"

(* arrives_online_only, with default_online_only off. *)
arrives_online_only(p) == mode[p] = "online"

KindAt(p, s, hydrate) ==
    reconcile_path([here |-> files[p], base |-> rows[p].synced, there |-> view[p].hash,
        stub |-> StubKindOf(p, s), evicted |-> rows[p].evicted,
        wantsLocal |-> p \in hydrate \/ mode[p] = "local",
        onlineOnly |-> arrives_online_only(p),
        sourceLive |-> StubKindOf(p, s) = "moved" /\ view[s[p].of] # Absent])

(* The path of a loser only advances once its bytes are relocated. *)
ForLoser(p, kind) ==
    IF kind = "Hydrate" /\ \E s \in sources : s.path = p THEN "UpdatePlaceholder" ELSE kind

(* Faulty variant: the placeholder stays beside the file. *)
Unstale_never == stubs

(* The own placeholder of a real file is dropped by the scan. *)
Unstale == [p \in Path |-> IF files[p] # NoHash /\ stubs[p].of = p THEN NoStub ELSE stubs[p]]

PlanPass ==
    /\ pc = "preserve" /\ todo = {}
    /\ scan' = files
    /\ stubs' = Unstale
    /\ \E hydrate \in {{}} \cup {{p} : p \in Path} :
          /\ requests + Cardinality(hydrate) <= MaxRequests
          /\ requests' = requests + Cardinality(hydrate)
          /\ LET kind(p) == KindAt(p, Unstale, hydrate) IN
             /\ sources' = sources \cup
                    {[to |-> p, path |-> stubs[p].of, hash |-> view[stubs[p].of].hash] :
                        p \in {q \in Path : kind(q) = "Relocate"}}
             /\ plan' = {[path |-> p, kind |-> ForLoser(p, kind(p))] :
                            p \in {q \in Path : kind(q) # "None"}}
                        \cup {[path |-> s.to, kind |-> "Relocate"] : s \in sources}
    /\ pc' = "apply"
    /\ UNCHANGED <<files, rows, mode, aside, litter, log_vars, objects, view, todo, pinned,
                   arrived, deltas, ops, cur, edits, peerEdits, faults, owed, gone>>

-----------------------------------------------------------------------------
(* apply.  Transfers first, in any order. *)

Op(kind, p, c) == [kind |-> kind, path |-> p, hash |-> c]
Log(p, c) == /\ deltas' = deltas \cup {[path |-> p, hash |-> c]}
             /\ view' = [view EXCEPT ![p] = IF c = NoHash THEN Absent
                                            ELSE [hash |-> c, ours |-> TRUE]]

Take(p, kind) ==
    /\ pc = "apply"
    /\ [path |-> p, kind |-> kind] \in plan
    /\ plan' = plan \ {[path |-> p, kind |-> kind]}

(* upload: the file was hashed when it was scanned and has not changed since. *)
Upload(p) ==
    /\ Take(p, "Upload")
    /\ SetHealth(p, files[p], "good")
    /\ Log(p, files[p])
    /\ ops' = Append(ops, Op("confirm", p, files[p]))
    /\ UNCHANGED <<disk, rows, mode, log_vars, pc, scan, sources, todo, pinned, arrived, cur,
                   counters, owed, gone>>

(* download, and the first half of hydrate: a verified temporary file is
   renamed into place.  Without a good object the transfer fails. *)
Download(p, kind) ==
    /\ kind \in {"Download", "Hydrate"}
    /\ Take(p, kind)
    /\ IF Health(p, view[p].hash) # "good"
       THEN UNCHANGED <<files, arrived, ops>>
       ELSE /\ files' = [files EXCEPT ![p] = view[p].hash]
            /\ IF kind = "Hydrate"
               THEN arrived' = arrived \cup {p} /\ UNCHANGED ops
               ELSE ops' = Append(ops, Op("confirm", p, view[p].hash)) /\ UNCHANGED arrived
    /\ UNCHANGED <<stubs, rows, mode, aside, litter, log_vars, objects, pc, view, scan, sources,
                   todo, pinned, deltas, cur, counters, owed, gone>>

(* The second half: the placeholder goes. *)
Hydrated(p) ==
    /\ p \in arrived
    /\ arrived' = arrived \ {p}
    /\ stubs' = [stubs EXCEPT ![p] = NoStub]
    /\ ops' = Append(ops, Op("confirm", p, view[p].hash))
    /\ UNCHANGED <<files, rows, mode, aside, litter, log_vars, objects, pc, view, scan, plan,
                   sources, todo, pinned, deltas, cur, counters, owed, gone>>

(* relocate: the source's bytes, fetched and verified, are uploaded again under
   the new name, which gets a placeholder.  If that fails, the source's path is
   pinned for the pass. *)
Relocate(s) ==
    /\ s \in sources
    /\ Take(s.to, "Relocate")
    /\ \/ /\ Health(s.path, s.hash) = "good"
          /\ SetHealth(s.to, s.hash, "good")
          /\ Log(s.to, s.hash)
          /\ ops' = Append(ops, Op("stub", s.to, s.hash))
          /\ UNCHANGED <<pinned, faults>>
       \/ /\ Health(s.path, s.hash) # "good" \/ faults < MaxFaults
          /\ faults' = IF Health(s.path, s.hash) # "good" THEN faults ELSE faults + 1
          /\ pinned' = pinned \cup {s.path}
          /\ UNCHANGED <<objects, view, deltas, ops>>
    /\ UNCHANGED <<disk, rows, mode, log_vars, pc, scan, sources, todo, arrived, cur, edits,
                   requests, peerEdits, owed, gone>>

(* The rest of the plan, by kind. *)
Late == arrived = {} /\ \A a \in plan : a.kind \notin TransferKind

PlacePlaceholder(p) ==
    /\ Late
    /\ \E kind \in StubKind : Take(p, kind)
    /\ ops' = IF p \in pinned THEN ops ELSE Append(ops, Op("stub", p, view[p].hash))
    /\ UNCHANGED <<disk, rows, mode, log_vars, objects, pc, view, scan, sources, todo, pinned,
                   arrived, deltas, cur, counters, owed, gone>>

AfterStubs == Late /\ \A a \in plan : a.kind \notin StubKind

DeleteLocal(p) ==
    /\ AfterStubs
    /\ Take(p, "DeleteLocal")
    /\ files' = [files EXCEPT ![p] = NoHash]
    /\ stubs' = [stubs EXCEPT ![p] = NoStub]
    /\ ops' = Append(ops, Op("remove", p, NoHash))
    /\ UNCHANGED <<rows, mode, aside, litter, log_vars, objects, pc, view, scan, sources, todo,
                   pinned, arrived, deltas, cur, counters, owed, gone>>

(* Faulty variant: a pinned source is tombstoned all the same. *)
DeleteRemote_unpinned(p) ==
    /\ AfterStubs
    /\ Take(p, "DeleteRemote")
    /\ Log(p, NoHash)
    /\ ops' = Append(ops, Op("remove", p, NoHash))
    /\ UNCHANGED <<disk, rows, mode, log_vars, objects, pc, scan, sources, todo, pinned, arrived,
                   cur, counters, owed, gone>>

DeleteRemote(p) ==
    /\ AfterStubs
    /\ Take(p, "DeleteRemote")
    /\ IF p \in pinned THEN UNCHANGED <<deltas, view, ops>>
       ELSE Log(p, NoHash) /\ ops' = Append(ops, Op("remove", p, NoHash))
    /\ UNCHANGED <<disk, rows, mode, log_vars, objects, pc, scan, sources, todo, pinned, arrived,
                   cur, counters, owed, gone>>

Conflict(p) ==
    /\ AfterStubs
    /\ Take(p, "Conflict")
    /\ IF files[p] = NoHash THEN UNCHANGED files
       ELSE \E q \in Path : /\ Fresh(q)
                            /\ files' = [files EXCEPT ![p] = NoHash, ![q] = files[p]]
    /\ rows' = [rows EXCEPT ![p] = NoRow]
    /\ UNCHANGED <<stubs, mode, aside, litter, log_vars, objects, pc, view, scan, sources, todo,
                   pinned, arrived, deltas, ops, cur, counters, owed, gone>>

-----------------------------------------------------------------------------
(* flush, at the end of the plan: the delta, then the updates in order. *)

LogDelta ==
    /\ pc = "apply" /\ plan = {} /\ arrived = {}
    /\ pc' = "record"
    /\ remote' = [p \in Path |->
           IF \E d \in deltas : d.path = p
           THEN LET d == CHOOSE d \in deltas : d.path = p IN
                IF d.hash = NoHash THEN Absent ELSE [hash |-> d.hash, ours |-> TRUE]
           ELSE remote[p]]
    /\ deltas' = {}
    /\ UNCHANGED <<disk, rows, mode, losers, objects, view, scan, plan, sources, todo,
                   pinned, arrived, ops, cur, counters, owed, gone>>

Synced(c, evicted) == [hash |-> c, synced |-> c, evicted |-> evicted]

(* confirm_sync; placeholder::write and confirm_placeholder; remove. *)
Record ==
    LET o == Head(ops) IN
    /\ pc = "record" /\ ops # <<>>
    /\ ops' = Tail(ops)
    /\ rows' = [rows EXCEPT ![o.path] =
                   CASE o.kind = "confirm" -> Synced(o.hash, FALSE)
                     [] o.kind = "stub"    -> Synced(o.hash, TRUE)
                     [] o.kind = "remove"  -> NoRow]
    /\ stubs' = IF o.kind = "stub"
                THEN [stubs EXCEPT ![o.path] = [of |-> o.path, hash |-> o.hash]] ELSE stubs
    /\ UNCHANGED <<files, mode, aside, litter, log_vars, objects, pc, view, scan, plan, sources,
                   todo, pinned, arrived, deltas, cur, counters, owed, gone>>

(* record_scan: whatever the scan saw becomes the row's hash, and its row local. *)
RecordScan ==
    /\ pc = "record" /\ ops = <<>>
    /\ pc' = "evictions"
    /\ rows' = [p \in Path |-> IF scan[p] = NoHash THEN rows[p]
                               ELSE [rows[p] EXCEPT !.hash = scan[p], !.evicted = FALSE]]
    /\ UNCHANGED <<disk, mode, log_vars, objects, view, scan, plan, sources, todo, pinned,
                   arrived, deltas, ops, cur, counters, owed, gone>>

-----------------------------------------------------------------------------
(* evict_pass. *)

(* A row that is local and in sync with the manifest of the pass. *)
eligible(p) ==
    /\ rows[p].hash # NoHash /\ ~rows[p].evicted
    /\ rows[p].synced = rows[p].hash
    /\ view[p].hash = rows[p].hash

(* What the policy evicts, less what is within its grace period, and what was
   asked for or is taken because space is low. *)
PlanEvictions ==
    /\ pc = "evictions"
    /\ \E policy \in SUBSET {p \in Path : mode[p] = "online" /\ eligible(p)},
          asked \in {{}} \cup {{p} : p \in Path \ Copy} :
          /\ requests + Cardinality(asked) <= MaxRequests
          /\ requests' = requests + Cardinality(asked)
          /\ todo' = policy \cup asked
    /\ pc' = "evict"
    /\ UNCHANGED <<disk, rows, mode, log_vars, objects, view, scan, plan, sources, pinned,
                   arrived, deltas, ops, cur, edits, peerEdits, faults, owed, gone>>

(* head, and fetch_verified if asked for. *)
RemoteOk(p) == Health(p, view[p].hash) \in (IF Verify THEN {"good"} ELSE {"good", "rotten"})

(* evict_one begins: a file that is not safe to evict is skipped. *)
CheckFile(p) ==
    /\ pc = "evict"
    /\ p \in todo
    /\ todo' = todo \ {p}
    /\ IF eligible(p) /\ files[p] = view[p].hash /\ RemoteOk(p)
       THEN pc' = "mark" /\ cur' = [path |-> p, hash |-> files[p]]
       ELSE UNCHANGED <<pc, cur>>
    /\ UNCHANGED <<disk, rows, mode, log_vars, objects, view, scan, plan, sources, pinned,
                   arrived, deltas, ops, counters, owed, gone>>

(* The steps of evict_one, each of which may be the last before a crash. *)
EvictStep(at, next) ==
    /\ pc = at
    /\ pc' = next
    /\ UNCHANGED <<mode, log_vars, objects, view, scan, plan, sources, todo, pinned, arrived,
                   deltas, ops, counters, owed, gone>>

MarkEvicted ==
    /\ EvictStep("mark", "stub")
    /\ rows' = [rows EXCEPT ![cur.path].evicted = TRUE]
    /\ UNCHANGED <<disk, cur>>

WriteStub ==
    /\ EvictStep("stub", "aside")
    /\ stubs' = [stubs EXCEPT ![cur.path] = [of |-> cur.path, hash |-> cur.hash]]
    /\ UNCHANGED <<files, aside, litter, rows, cur>>

(* A file that vanished meanwhile makes the rename fail, which ends the pass. *)
MoveAside ==
    /\ pc = "aside"
    /\ IF files[cur.path] = NoHash
       THEN Forget /\ UNCHANGED <<files, aside>>
       ELSE /\ pc' = "stat"
            /\ aside' = files[cur.path]
            /\ files' = [files EXCEPT ![cur.path] = NoHash]
            /\ UNCHANGED <<view, scan, plan, sources, todo, pinned, arrived, deltas, ops, cur>>
    /\ UNCHANGED <<stubs, litter, rows, mode, log_vars, objects, counters, owed, gone>>

(* Faulty variant: no second look at the file. *)
Restat_never ==
    /\ EvictStep("stat", "unlink")
    /\ UNCHANGED <<disk, rows, cur>>

Restat ==
    /\ EvictStep("stat", IF aside = cur.hash THEN "unlink" ELSE "putback")
    /\ UNCHANGED <<disk, rows, cur>>

Unlink ==
    /\ EvictStep("unlink", "evict")
    /\ aside' = NoHash
    /\ cur' = NoCur
    /\ UNCHANGED <<files, stubs, litter, rows>>

PutBack ==
    /\ EvictStep("putback", "unstub")
    /\ files' = [files EXCEPT ![cur.path] = aside]
    /\ aside' = NoHash
    /\ UNCHANGED <<stubs, litter, rows, cur>>

RemoveStub ==
    /\ EvictStep("unstub", "unmark")
    /\ stubs' = [stubs EXCEPT ![cur.path] = NoStub]
    /\ UNCHANGED <<files, aside, litter, rows, cur>>

MarkLocal ==
    /\ EvictStep("unmark", "evict")
    /\ rows' = [rows EXCEPT ![cur.path].evicted = FALSE]
    /\ cur' = NoCur
    /\ UNCHANGED disk

PassDone ==
    /\ pc = "evict" /\ todo = {}
    /\ Forget
    /\ UNCHANGED <<disk, rows, mode, log_vars, objects, counters, owed, gone>>

-----------------------------------------------------------------------------
(* Failures. *)

Failing == faults < MaxFaults /\ faults' = faults + 1

TransferFails(p) ==
    /\ Failing
    /\ \E kind \in {"Download", "Hydrate", "Upload"} : Take(p, kind)
    /\ UNCHANGED <<disk, rows, mode, log_vars, objects, pc, view, scan, sources, todo, pinned,
                   arrived, deltas, ops, cur, edits, requests, peerEdits, owed, gone>>

Crash ==
    /\ Failing
    /\ pc # "idle"
    /\ Forget
    /\ litter' = litter \cup ({aside} \ {NoHash})
    /\ aside' = NoHash
    /\ UNCHANGED <<files, stubs, rows, mode, log_vars, objects, edits, requests, peerEdits, owed,
                   gone>>

Damage(k, how) ==
    /\ Failing
    /\ objects[k] = "good"
    /\ SetHealth(k[1], k[2], how)
    /\ gone' = IF k[2] \in Contents /\ k[2] # cur.hash THEN gone ELSE gone \cup {k[2]}
    /\ UNCHANGED <<disk, rows, mode, log_vars, pass_vars, edits, requests, peerEdits, owed>>

-----------------------------------------------------------------------------
User ==
    \/ \E p \in Path, c \in Content : Write(p, c)
    \/ \E p \in Path : Delete(p) \/ DeleteStub(p)
    \/ \E p, q \in Path : MoveStub(p, q)
    \/ \E p \in Path, m \in Mode : Pin(p, m)

Peer ==
    \/ \E p \in Path, c \in Content : PeerEdit(p, c) \/ PeerConflict(p, c)
    \/ \E p \in Path : PeerDelete(p)

PassStep ==
    \/ ReadLog \/ PlanPass \/ LogDelta \/ Record \/ RecordScan \/ PlanEvictions
    \/ MarkEvicted \/ WriteStub \/ MoveAside \/ Restat \/ Unlink \/ PutBack
    \/ RemoveStub \/ MarkLocal \/ PassDone
    \/ \E l \in todo : PreserveLoser(l)
    \/ \E s \in sources : Relocate(s)
    \/ \E p \in Path : \/ Upload(p) \/ Hydrated(p) \/ PlacePlaceholder(p)
                       \/ DeleteLocal(p) \/ DeleteRemote(p) \/ Conflict(p) \/ CheckFile(p)
                       \/ \E kind \in {"Download", "Hydrate"} : Download(p, kind)

Fault ==
    \/ Crash
    \/ \E p \in Path : TransferFails(p)
    \/ \E k \in DOMAIN objects, how \in {"missing", "rotten"} : Damage(k, how)

Next == User \/ Peer \/ PassStep \/ Fault

Spec == Init /\ [][Next]_vars

(* The daemon runs pass after pass. *)
FairSpec == Spec /\ WF_vars(PassStep)

-----------------------------------------------------------------------------
(* Properties. *)

(* Types; a row that says evicted says of which version, and the steps of an
   eviction belong to one path. *)
TypeOK ==
    /\ files \in [Path -> Content \cup {NoHash}] /\ scan \in [Path -> Content \cup {NoHash}]
    /\ \A p \in Path : /\ stubs[p].of \in Path \cup {NoPath}
                       /\ rows[p] \in [hash : Content \cup {NoHash},
                                       synced : Content \cup {NoHash}, evicted : BOOLEAN]
                       /\ rows[p].evicted => rows[p].synced # NoHash
                       /\ {remote[p].hash, view[p].hash} \subseteq Content \cup {NoHash}
    /\ mode \in [Path -> Mode]
    /\ \A d \in deltas : d.hash \in Content \cup {NoHash}
    /\ aside \in Content \cup {NoHash} /\ litter \subseteq Content
    /\ \A a \in plan : a.kind \in ActionKind
    /\ cur.path \in Path <=> pc \in Evicting \ {"evict"}

(* No eviction, hydration, relocation, deletion or crash destroys a version
   that nobody replaced or deleted: its bytes are on the disk, or they can be
   fetched as a live version or as a loser yet to be relocated, unless the
   store itself damaged the only copy (evict_one, relocate, apply). *)
Kept ==
    \A c \in owed \ gone :
        \/ c \in Contents \cup {aside} \cup litter
        \/ \E p \in Path : /\ Health(p, c) = "good"
                           /\ remote[p].hash = c \/ PendingLoser(p, c)

(* The rows are well formed and no version is lost (TypeOK, Kept). *)
Consistent == TypeOK /\ Kept

(* A device tombstones a path only if a user deleted or moved its file here, or
   its placeholder: an eviction or a crash is never read as a deletion. *)
NoStrayDelete ==
    [][\A p \in Path : remote[p] # Absent /\ remote'[p] = Absent /\ pc = "apply" =>
          \/ remote[p].hash \notin owed
          \/ \E q \in Path \ {p} : remote'[q].hash = remote[p].hash]_remote

(* Once edits, requests and faults are over: what is pinned local has its bytes
   here, every other live file is here or stands as a placeholder for its
   newest version, and no placeholder stays beside its file (plan_pass, hydrate,
   placeholder_action).  Left out: a moved placeholder that cannot be
   relocated, and one that waits for a loser whose object is damaged. *)
Settles ==
    <>[](\A p \in Path :
            /\ files[p] # NoHash => stubs[p].of # p
            /\ /\ remote[p] # Absent /\ Health(p, remote[p].hash) = "good"
               /\ ~Foreign(p)
               /\ \A c \in Content : PendingLoser(p, c) => Health(p, c) = "good"
               => \/ files[p] = remote[p].hash
                  \/ /\ mode[p] # "local" /\ files[p] = NoHash
                     /\ stubs[p] = [of |-> p, hash |-> remote[p].hash])
=============================================================================
