------------------------------- MODULE Upload -------------------------------
(***************************************************************************)
(* Transfers of large files to the object store (apply/upload.rs,          *)
(* apply/repair.rs, store/s3.rs): a file is hashed, then encrypted and     *)
(* sent part by part, each part recorded in the database, so that a pass   *)
(* that dies can be resumed by a later one (sync.rs, resume_uploads).      *)
(*                                                                         *)
(* One device, Me, runs passes over its folder while its users go on       *)
(* editing; other devices log newer versions.  What a pass does besides    *)
(* uploading is as in Mirror, with less detail: one flush at the end, and  *)
(* conflicted copies leave the modelled paths.                             *)
(***************************************************************************)
EXTENDS Manifest, Engine

CONSTANTS
    Me,           \* this device
    Size(_),      \* parts of a content; 1 is below MAX_SINGLE_SHOT_PUT_SIZE
    Start,        \* bound: files Me may start with, as <<path, content>>
    Writes(_),    \* bound: what the users of a device write, in the same form
    MaxEdits,     \* bound: writes and deletions by the users of Me
    MaxPeerEdits, \* bound: versions logged by other devices
    MaxFaults,    \* bound: failed requests, crashes and damaged objects
    MaxUploads,   \* bound: multipart uploads begun
    DoctorMayInterfere \* whether a repair is started while uploads are pending

ASSUME MeAssumption    == Me \in Device
ASSUME SizeAssumption  == \A c \in Content : Size(c) \in Nat \ {0}
ASSUME WritesAssumption == /\ Start \subseteq Path \X Content
                           /\ \A d \in Device : Writes(d) \subseteq Path \X Content
ASSUME UploadBounds    == /\ {MaxEdits, MaxPeerEdits, MaxFaults, MaxUploads} \subseteq Nat
                           /\ DoctorMayInterfere \in BOOLEAN

VARIABLES
    files,     \* files[p]: content of p in the folder, None if absent
    base,      \* base[p]: last_synced_hash of the row of p
    clock,     \* the Lamport counter in the database
    rows,      \* rows[p]: the row of p in table uploads, with its upload_parts
    pc,        \* where the pass stands
    view,      \* the pass's manifest
    remote,    \* remote_lamport of the pass
    plan,      \* actions of the plan not yet executed
    todo,      \* paths resume_uploads, or a repair, has still to look at
    up,        \* up[p]: the transfer of p
    deltas,    \* entries not yet logged
    ops,       \* baseline updates waiting for their delta
    log,       \* the delta objects in the store
    objects,   \* the content objects: a function from <<path, hash>> to parts
    open,      \* the multipart uploads open in the store
    uploads,   \* upload ids, and nonces, handed out
    edits, peerEdits, faults,
    stray,     \* ghost: ids a fault left open with no row to find them by
    damaged,   \* ghost: keys of the objects that were damaged in the store
    torn       \* ghost: keys of the versions whose file changed under a transfer

local == <<files, base, clock, rows>>
pass == <<pc, view, remote, plan, todo, deltas, ops>>
store == <<log, objects, open, uploads>>
counters == <<edits, peerEdits, faults>>
ghosts == <<stray, damaged, torn>>
vars == <<local, pass, up, store, counters, ghosts>>

(* A part: the content its bytes were read from, its number, and the nonce of
   the stream it was encrypted under.  A nonce is drawn with the upload, so
   the upload's number names both. *)
Part(src, n, nonce) == [src |-> src, no |-> n, nonce |-> nonce]

(* What a reader can decrypt to content c: its parts in order, of one stream. *)
Whole(parts, c) ==
    /\ Len(parts) = Size(c)
    /\ \A i \in DOMAIN parts : parts[i] = Part(c, i, parts[1].nonce)

NoRow == [id |-> 0, hash |-> None, parts |-> {}]
Tracked(p) == rows[p].id # 0

(* A transfer: its phase; mode says what it is for; hash is the content it was
   started for and src the one its open handle reads; n is the next part, sent
   the parts it will name when it completes. *)
Quiet == [phase |-> "none", mode |-> "none", fate |-> "ok", hash |-> None,
          src |-> None, id |-> 0, n |-> 0, sent |-> {}]
Busy == {p \in Path : up[p].phase # "none"}

(* The key of an object is derived from path and content hash (object_key). *)
Key(p, c) == <<p, c>>
StoreObject(k, parts) ==
    /\ objects' = [x \in DOMAIN objects \cup {k} |-> IF x = k THEN parts ELSE objects[x]]
    /\ damaged' = damaged \ {k}

OpenId(i) == {m \in open : m.id = i}

Entries(objs) == UNION {o.entries : o \in objs}
RemoteHash(m, p) ==
    IF \E e \in m : e.path = p /\ ~e.deleted THEN EntryAt(m, p).hash ELSE NoHash
KnownHash(m, p) == IF EntriesAt(m, p) = {} THEN None ELSE EntryAt(m, p).hash

(* Contents somebody has written: a user's next one is new. *)
Written == {e.hash : e \in Entries(log)} \cup {files[p] : p \in Path}
              \cup {up[p].src : p \in Path} \cup {rows[p].hash : p \in Path}

Larger(a, b) == IF a > b THEN a ELSE b

-----------------------------------------------------------------------------
(* A folder with one file not synced yet, and an empty bucket. *)
Init ==
    /\ files \in {[p \in Path |-> IF p = w[1] THEN w[2] ELSE None] : w \in Start}
    /\ base = [p \in Path |-> None]
    /\ clock = 0
    /\ rows = [p \in Path |-> NoRow]
    /\ pc = "idle" /\ view = {} /\ remote = 0 /\ plan = {} /\ todo = {}
    /\ up = [p \in Path |-> Quiet]
    /\ deltas = {} /\ ops = {}
    /\ log = {} /\ objects = <<>> /\ open = {} /\ uploads = 0
    /\ edits = 0 /\ peerEdits = 0 /\ faults = 0
    /\ stray = {} /\ damaged = {} /\ torn = {}

-----------------------------------------------------------------------------
(* The users of Me and the other devices.  A deleted or replaced file stays
   readable through an open handle. *)

(* From hash_stable to the end of the file, a transfer depends on the bytes
   that the path, then its handle, leads to. *)
Reads(p) == up[p].phase \in {"hashed", "begun", "send", "sent"}

(* A write reaches a transfer that reads the file if it goes into it in place,
   or replaces it before the transfer has opened it. *)
UserWrite(p, c) ==
    /\ edits < MaxEdits
    /\ c \notin Written
    /\ files' = [files EXCEPT ![p] = c]
    /\ \/ /\ Reads(p) /\ up[p].src = files[p]
          /\ up' = [up EXCEPT ![p].src = c]
          /\ torn' = torn \cup {Key(p, up[p].hash)}
       \/ UNCHANGED <<up, torn>>
    /\ edits' = edits + 1
    /\ UNCHANGED <<base, clock, rows, pass, store, peerEdits, faults, stray, damaged>>

UserDelete(p) ==
    /\ edits < MaxEdits
    /\ files[p] # None
    /\ files' = [files EXCEPT ![p] = None]
    /\ edits' = edits + 1
    /\ UNCHANGED <<base, clock, rows, pass, up, store, peerEdits, faults, ghosts>>

(* Another device uploads a version over the newest one in the log. *)
PeerEdit(g, p, c) ==
    LET es == Entries(log)
        e  == [path |-> p, hash |-> c, deleted |-> FALSE, dev |-> g,
               lamport |-> RemoteLamport(es) + 1, base |-> KnownHash(Merged(es), p)]
    IN  /\ peerEdits < MaxPeerEdits
        /\ g # Me
        /\ c \notin Written
        /\ log' = log \cup {[lamport |-> e.lamport, dev |-> g, entries |-> {e}]}
        /\ StoreObject(Key(p, c), [i \in 1..Size(c) |-> Part(c, i, 0)])
        /\ peerEdits' = peerEdits + 1
        /\ UNCHANGED <<local, pass, up, open, uploads, edits, faults, stray, torn>>

-----------------------------------------------------------------------------
(* plan_pass: the remote log, the folder, the baseline. *)

PlanFor(m) ==
    LET kind(p) == reconcile(files[p], base[p], RemoteHash(m, p))
    IN  {[path |-> p, kind |-> kind(p)] : p \in {q \in Path : kind(q) # "None"}}

(* Faulty variant: uploads of files that are gone are not looked at. *)
Pending_present == {p \in Path : Tracked(p) /\ files[p] # None}

(* pending_uploads *)
Pending == {p \in Path : Tracked(p)}

(* What fetch_verified accepts. *)
Fetchable(p, c) == Key(p, c) \in DOMAIN objects /\ Whole(objects[Key(p, c)], c)

(* Bound: a pass is left out when all it could do is ask in vain for an object
   that is lost or cannot be decrypted, which moves nothing but the clock. *)
WorkToDo ==
    \/ Pending # {}
    \/ LET m == Merged(Entries(log)) IN
       \E a \in PlanFor(m) : a.kind = "Download" => Fetchable(a.path, RemoteHash(m, a.path))

PlanPass ==
    /\ pc = "idle"
    /\ WorkToDo
    /\ view' = Merged(Entries(log))
    /\ remote' = RemoteLamport(Entries(log))
    /\ plan' = PlanFor(view')
    /\ todo' = Pending
    /\ pc' = "resume"
    /\ UNCHANGED <<local, deltas, ops, up, store, counters, ghosts>>

(* The clock of resume_uploads, and afterwards of apply. *)
Lamport == Larger(remote, clock) + 1

(* put_bytes replaces an object of the same key; the batch number in the key is
   0 for both deltas of a pass. *)
LogDelta ==
    LET o == [lamport |-> Lamport, dev |-> Me, entries |-> deltas]
    IN  log' = {x \in log : x.lamport # o.lamport \/ x.dev # Me} \cup {o}

(* What a pass leaves in memory when it ends or dies: nothing. *)
Forget ==
    /\ pc' = "idle" /\ view' = {} /\ remote' = 0 /\ plan' = {} /\ todo' = {}
    /\ deltas' = {} /\ ops' = {}
    /\ up' = [p \in Path |-> Quiet]

-----------------------------------------------------------------------------
(* resume_uploads, one pending upload at a time. *)

NextResume(p) ==
    /\ pc = "resume" /\ Busy = {}
    /\ p \in todo
    /\ todo' = todo \ {p}

(* The file still has the content the interrupted upload was started for. *)
ResumeUpload(p) ==
    /\ NextResume(p)
    /\ files[p] = rows[p].hash
    /\ up' = [up EXCEPT ![p] = [Quiet EXCEPT
                  !.phase = "send", !.mode = "resume", !.hash = rows[p].hash,
                  !.src = files[p], !.id = rows[p].id, !.n = 1, !.sent = rows[p].parts]]
    /\ UNCHANGED <<local, pc, view, remote, plan, deltas, ops, store, counters, ghosts>>

(* It changed or vanished: the row is dropped, then the multipart aborted. *)
DropUpload(p) ==
    /\ NextResume(p)
    /\ files[p] # rows[p].hash
    /\ rows' = [rows EXCEPT ![p] = NoRow]
    /\ up' = [up EXCEPT ![p] = [Quiet EXCEPT !.phase = "abort", !.mode = "drop",
                                             !.id = rows[p].id]]
    /\ UNCHANGED <<files, base, clock, pc, view, remote, plan, deltas, ops,
                   store, counters, ghosts>>

(* Every pending upload has been looked at: the completed ones are logged in
   one delta, and their planned uploads are dropped. *)
LogResumed ==
    /\ pc = "resume" /\ Busy = {} /\ todo = {}
    /\ IF deltas = {}
       THEN pc' = "apply" /\ UNCHANGED <<log, plan, deltas>>
       ELSE /\ pc' = "claim"
            /\ LogDelta
            /\ plan' = {a \in plan : a.kind # "Upload" \/ \A e \in deltas : e.path # a.path}
            /\ deltas' = {}
    /\ UNCHANGED <<local, view, remote, todo, ops, up, objects, open, uploads,
                   counters, ghosts>>

(* record_lamport, so that apply's delta gets another key. *)
ClaimLamport ==
    /\ pc = "claim"
    /\ pc' = "confirm"
    /\ clock' = Lamport
    /\ UNCHANGED <<files, base, rows, view, remote, plan, todo, deltas, ops, up,
                   store, counters, ghosts>>

(* confirm_sync, or remove: one row at a time, once the delta is durable. *)
Confirm(o) ==
    /\ pc \in {"confirm", "flush"}
    /\ o \in ops
    /\ base' = [base EXCEPT ![o.path] = o.hash]
    /\ ops' = ops \ {o}
    /\ UNCHANGED <<files, clock, rows, pc, view, remote, plan, todo, deltas, up,
                   store, counters, ghosts>>

ResumeDone ==
    /\ pc = "confirm" /\ ops = {}
    /\ pc' = "apply"
    /\ UNCHANGED <<local, view, remote, plan, todo, deltas, ops, up, store, counters, ghosts>>

-----------------------------------------------------------------------------
(* upload and upload_file: any number of transfers run at a time. *)

Step(p, fields) == up' = [up EXCEPT ![p] = fields]
Only(p, fields) ==
    /\ Step(p, fields)
    /\ UNCHANGED <<local, pass, store, counters, ghosts>>

Take(p, kind) ==
    /\ pc = "apply"
    /\ [path |-> p, kind |-> kind] \in plan
    /\ plan' = plan \ {[path |-> p, kind |-> kind]}

(* hash_stable, and the file is opened again to be encrypted.  One that
   vanished fails its transfer, which is skipped. *)
StartUpload(p) ==
    /\ Take(p, "Upload")
    /\ IF files[p] = None THEN UNCHANGED up
       ELSE Step(p, [Quiet EXCEPT !.phase = "hashed", !.mode = "upload",
                                  !.hash = files[p], !.src = files[p]])
    /\ UNCHANGED <<local, pc, view, remote, todo, deltas, ops, store, counters, ghosts>>

(* Faulty variant: an object of any length will do. *)
check_object_len_any(p, n) == TRUE

(* The object is as long as the hashed file. *)
check_object_len(p, n) == n = Size(up[p].hash)

(* A small file: encrypted whole, checked, put. *)
PutBytes(p) ==
    LET read == [i \in 1..Size(up[p].src) |-> Part(up[p].src, i, uploads')] IN
    /\ up[p].phase = "hashed"
    /\ Size(up[p].hash) = 1
    /\ uploads < MaxUploads
    /\ uploads' = uploads + 1
    /\ IF check_object_len(p, Len(read))
       THEN StoreObject(Key(p, up[p].hash), read) /\ Step(p, [up[p] EXCEPT !.phase = "done"])
       ELSE UNCHANGED <<objects, damaged>> /\ Step(p, Quiet)
    /\ UNCHANGED <<local, pass, log, open, counters, stray, torn>>

(* A large one: create_multipart_upload ... *)
BeginPut(p) ==
    /\ up[p].phase = "hashed"
    /\ Size(up[p].hash) > 1
    /\ uploads < MaxUploads
    /\ uploads' = uploads + 1
    /\ open' = open \cup {[id |-> uploads', key |-> Key(p, up[p].hash), parts |-> <<>>]}
    /\ Step(p, [up[p] EXCEPT !.phase = "begun", !.id = uploads'])
    /\ UNCHANGED <<local, pass, log, objects, counters, ghosts>>

(* ... then record_upload_start, which leaves alone the upload_parts of a row
   it replaces. *)
RecordStart(p) ==
    /\ up[p].phase = "begun"
    /\ rows' = [rows EXCEPT ![p] = [@ EXCEPT !.id = up[p].id, !.hash = up[p].hash]]
    /\ Step(p, [up[p] EXCEPT !.phase = "send", !.n = 1])
    /\ UNCHANGED <<files, base, clock, pass, store, counters, ghosts>>

(* The first part a transfer has to send itself. *)
NextPart(p) ==
    IF up[p].mode # "resume" \/ rows[p].parts = {} THEN 1
    ELSE 1 + (CHOOSE i \in rows[p].parts : \A j \in rows[p].parts : j <= i)

Reading(p) == up[p].phase = "send" /\ up[p].n <= Size(up[p].src)

(* A resumed upload reads over what is already there. *)
SkipPart(p) ==
    /\ Reading(p)
    /\ up[p].n < NextPart(p)
    /\ Only(p, [up[p] EXCEPT !.n = @ + 1])

(* The nonce in the row, which is the one drawn when the upload began. *)
StreamNonce(p) == up[p].id

PutPart(m, n, part) ==
    [m EXCEPT !.parts = [i \in DOMAIN @ \cup {n} |-> IF i = n THEN part ELSE @[i]]]

(* write_part: the store has the part, the database does not know yet.  It
   fails if the multipart is gone. *)
WritePart(p) ==
    LET n == up[p].n IN
    /\ Reading(p)
    /\ n >= NextPart(p)
    /\ \/ \E m \in OpenId(up[p].id) :
             /\ open' = (open \ {m}) \cup {PutPart(m, n, Part(up[p].src, n, StreamNonce(p)))}
             /\ Step(p, [up[p] EXCEPT !.phase = "sent"])
       \/ /\ OpenId(up[p].id) = {}
          /\ Step(p, [up[p] EXCEPT !.phase = "abort", !.fate = "gone"])
          /\ UNCHANGED open
    /\ UNCHANGED <<local, pass, log, objects, uploads, counters, ghosts>>

RecordPart(p) ==
    /\ up[p].phase = "sent"
    /\ rows' = [rows EXCEPT ![p].parts = @ \cup {up[p].n}]
    /\ Step(p, [up[p] EXCEPT !.phase = "send", !.n = @ + 1, !.sent = @ \cup {up[p].n}])
    /\ UNCHANGED <<files, base, clock, pass, store, counters, ghosts>>

(* The end of the file. *)
LastPart(p) ==
    /\ up[p].phase = "send"
    /\ up[p].n > Size(up[p].src)
    /\ Only(p, IF check_object_len(p, up[p].n - 1) THEN [up[p] EXCEPT !.phase = "finish"]
               ELSE [up[p] EXCEPT !.phase = "abort", !.fate = "failed"])

(* complete_multipart_upload assembles the parts the transfer names.  It
   refuses an upload that is gone or does not have them all; the sink that is
   dropped then aborts what is left. *)
FinishPut(p) ==
    /\ up[p].phase = "finish"
    /\ open' = open \ OpenId(up[p].id)
    /\ IF \E m \in OpenId(up[p].id) : up[p].sent \subseteq DOMAIN m.parts
       THEN /\ \A m \in OpenId(up[p].id) :
                  StoreObject(m.key, [i \in up[p].sent |-> m.parts[i]])
            /\ Step(p, [up[p] EXCEPT !.phase = "clear"])
       ELSE /\ Step(p, [up[p] EXCEPT !.phase = "clear", !.fate = "gone"])
            /\ UNCHANGED <<objects, damaged>>
    /\ UNCHANGED <<local, pass, log, uploads, counters, stray, torn>>

(* abort_multipart_upload.  A dropped upload is through with that. *)
AbortPut(p) ==
    /\ up[p].phase = "abort"
    /\ open' = open \ OpenId(up[p].id)
    /\ Step(p, IF up[p].mode = "drop" THEN Quiet ELSE [up[p] EXCEPT !.phase = "clear"])
    /\ UNCHANGED <<local, pass, log, objects, uploads, counters, ghosts>>

(* Where a transfer goes when its row is cleared: a resume that failed for any
   reason but a multipart that is gone ends the pass. *)
AfterClear(p) ==
    IF up[p].fate = "ok"
    THEN Step(p, [up[p] EXCEPT !.phase = "done"]) /\ UNCHANGED pass
    ELSE IF up[p].mode = "resume" /\ up[p].fate = "failed"
         THEN Forget
         ELSE Step(p, Quiet) /\ UNCHANGED pass

(* Faulty variant: the row goes and its upload_parts stay. *)
ClearUpload_keep(p) ==
    /\ up[p].phase = "clear"
    /\ rows' = [rows EXCEPT ![p] = [@ EXCEPT !.id = 0, !.hash = None]]
    /\ AfterClear(p)
    /\ UNCHANGED <<files, base, clock, store, counters, ghosts>>

(* clear_upload, whether the upload went through or not; parts cascade. *)
ClearUpload(p) ==
    /\ up[p].phase = "clear"
    /\ rows' = [rows EXCEPT ![p] = NoRow]
    /\ AfterClear(p)
    /\ UNCHANGED <<files, base, clock, store, counters, ghosts>>

NewDelta(p, c, deleted) ==
    [path |-> p, hash |-> c, deleted |-> deleted, lamport |-> Lamport, dev |-> Me,
     base |-> KnownHash(view, p)]

(* The pass joins a finished transfer.  A repair has nothing to log. *)
Join(p) ==
    LET e == NewDelta(p, up[p].hash, FALSE) IN
    /\ up[p].phase = "done"
    /\ Step(p, Quiet)
    /\ IF up[p].mode = "repair" THEN UNCHANGED <<view, deltas, ops>>
       ELSE /\ deltas' = deltas \cup {e}
            /\ view' = Insert(view, e)
            /\ ops' = ops \cup {[path |-> p, hash |-> e.hash]}
    /\ UNCHANGED <<local, pc, remote, plan, todo, store, counters, ghosts>>

-----------------------------------------------------------------------------
(* The rest of apply. *)

(* fetch_verified: only a whole object is renamed into place. *)
Download(p) ==
    LET c == EntryAt(view, p).hash IN
    /\ Take(p, "Download")
    /\ IF Fetchable(p, c)
       THEN /\ files' = [files EXCEPT ![p] = c]
            /\ ops' = ops \cup {[path |-> p, hash |-> c]}
       ELSE UNCHANGED <<files, ops>>
    /\ UNCHANGED <<base, clock, rows, pc, view, remote, todo, deltas, up, store,
                   counters, ghosts>>

AfterTransfers == Busy = {} /\ \A a \in plan : a.kind \notin TransferKind

(* delete_local, delete_remote and conflict; a conflicted copy is a new path. *)
LateAction(p, kind) ==
    /\ AfterTransfers
    /\ Take(p, kind)
    /\ CASE kind = "DeleteLocal" ->
             /\ files' = [files EXCEPT ![p] = None]
             /\ ops' = ops \cup {[path |-> p, hash |-> None]}
             /\ UNCHANGED <<base, deltas, view>>
         [] kind = "DeleteRemote" ->
             /\ deltas' = deltas \cup
                    {NewDelta(p, e.hash, TRUE) : e \in EntriesAt(view, p)}
             /\ view' = view \ EntriesAt(view, p)
             /\ ops' = ops \cup {[path |-> p, hash |-> None]}
             /\ UNCHANGED <<base, files>>
         [] kind = "Conflict" ->
             /\ files' = [files EXCEPT ![p] = None]
             /\ base' = [base EXCEPT ![p] = None]
             /\ UNCHANGED <<ops, deltas, view>>
    /\ UNCHANGED <<clock, rows, pc, remote, todo, up, store, counters, ghosts>>

(* flush: the delta, then the rows (Confirm). *)
Flush ==
    /\ pc = "apply" /\ plan = {} /\ Busy = {}
    /\ IF deltas = {} THEN UNCHANGED log ELSE LogDelta
    /\ deltas' = {}
    /\ pc' = "flush"
    /\ UNCHANGED <<local, view, remote, plan, todo, ops, up, objects, open, uploads,
                   counters, ghosts>>

(* record_lamport. *)
Finish ==
    /\ pc = "flush" /\ ops = {}
    /\ clock' = Lamport
    /\ Forget
    /\ UNCHANGED <<files, base, rows, store, counters, ghosts>>

-----------------------------------------------------------------------------
(* rfm doctor: verify_remote with repair, while no pass runs. *)

(* Every live entry whose object is missing or has the wrong length. *)
BadObjects(m) ==
    {p \in Path : \E e \in m : /\ e.path = p /\ ~e.deleted
                             /\ \/ Key(p, e.hash) \notin DOMAIN objects
                                \/ Len(objects[Key(p, e.hash)]) # Size(e.hash)}

VerifyRemote ==
    /\ pc = "idle"
    /\ Pending = {} \/ DoctorMayInterfere
    /\ view' = Merged(Entries(log))
    /\ todo' = BadObjects(view')
    /\ todo' # {}
    /\ pc' = "repair"
    /\ UNCHANGED <<local, remote, plan, deltas, ops, up, store, counters, ghosts>>

(* Uploaded again, if the file here still is that version. *)
RepairOne(p) ==
    /\ pc = "repair" /\ Busy = {}
    /\ p \in todo
    /\ todo' = todo \ {p}
    /\ IF files[p] # EntryAt(view, p).hash THEN UNCHANGED up
       ELSE Step(p, [Quiet EXCEPT !.phase = "hashed", !.mode = "repair",
                                  !.hash = files[p], !.src = files[p]])
    /\ UNCHANGED <<local, pc, view, remote, plan, deltas, ops, store, counters, ghosts>>

RepairDone ==
    /\ pc = "repair" /\ Busy = {} /\ todo = {}
    /\ Forget
    /\ UNCHANGED <<local, store, counters, ghosts>>

(* --abort-orphans, here or on another device: aborts any upload that its own
   database does not track and that is a day old. *)
AbortOrphan(m) ==
    /\ faults < MaxFaults
    /\ m \in open
    /\ faults' = faults + 1
    /\ open' = open \ {m}
    /\ stray' = stray \ {m.id}
    /\ UNCHANGED <<local, pass, up, log, objects, uploads, edits, peerEdits, damaged, torn>>

-----------------------------------------------------------------------------
(* Failures. *)

Failing == faults < MaxFaults /\ faults' = faults + 1

(* A request of a transfer fails, after the store's own retries.  A failed
   completion may have gone through. *)
RequestFails(p) ==
    /\ Failing
    /\ CASE up[p].phase = "hashed" ->
             /\ Step(p, Quiet) /\ UNCHANGED <<open, objects, stray, damaged>>
         [] Reading(p) /\ up[p].n >= NextPart(p) ->
             /\ Step(p, [up[p] EXCEPT !.phase = "abort", !.fate = "failed"])
             /\ UNCHANGED <<open, objects, stray, damaged>>
         [] up[p].phase = "finish" ->
             /\ Step(p, [up[p] EXCEPT !.phase = "clear", !.fate = "failed"])
             /\ open' = open \ OpenId(up[p].id)
             /\ UNCHANGED <<objects, stray, damaged>>
         [] up[p].phase = "abort" /\ up[p].mode # "drop" ->
             /\ Step(p, [up[p] EXCEPT !.phase = "clear"])
             /\ stray' = stray \cup {up[p].id}
             /\ UNCHANGED <<open, objects, damaged>>
         [] OTHER -> FALSE
    /\ UNCHANGED <<local, pass, log, uploads, edits, peerEdits, torn>>

(* The ids that are open and that no row names. *)
Untracked(r) == {m.id : m \in open} \ {r[p].id : p \in Path}

(* The pass ends early: the process dies, or an error or a shutdown drops it.
   Sinks that are dropped abort their uploads, if the process lives on. *)
Abort ==
    /\ Failing
    /\ pc # "idle"
    /\ Forget
    /\ \E dropped \in SUBSET {m \in open : \E p \in Busy : up[p].id = m.id} :
          open' = open \ dropped
    /\ stray' = stray \cup ({m.id : m \in open'} \ {rows[p].id : p \in Path})
    /\ UNCHANGED <<local, log, objects, uploads, edits, peerEdits, damaged, torn>>

(* The store loses an object. *)
Damage(k) ==
    /\ Failing
    /\ k \in DOMAIN objects
    /\ objects' = [x \in DOMAIN objects \ {k} |-> objects[x]]
    /\ damaged' = damaged \cup {k}
    /\ UNCHANGED <<local, pass, up, log, open, uploads, edits, peerEdits, stray, torn>>

-----------------------------------------------------------------------------
Transfer(p) ==
    \/ StartUpload(p) \/ PutBytes(p) \/ BeginPut(p) \/ RecordStart(p)
    \/ SkipPart(p) \/ WritePart(p) \/ RecordPart(p) \/ LastPart(p)
    \/ FinishPut(p) \/ AbortPut(p) \/ ClearUpload(p) \/ Join(p)

PassStep ==
    \/ PlanPass \/ LogResumed \/ ClaimLamport \/ ResumeDone \/ Flush \/ Finish
    \/ \E o \in ops : Confirm(o)
    \/ \E p \in Path : \/ ResumeUpload(p) \/ DropUpload(p) \/ Transfer(p) \/ Download(p)
                       \/ RepairOne(p)
                       \/ \E kind \in {"DeleteLocal", "DeleteRemote", "Conflict"} :
                             LateAction(p, kind)
    \/ RepairDone

Environment ==
    \/ \E w \in Writes(Me) : UserWrite(w[1], w[2])
    \/ \E p \in Path : UserDelete(p)
    \/ \E g \in Device : \E w \in Writes(g) : PeerEdit(g, w[1], w[2])
    \/ VerifyRemote

Fault ==
    \/ \E p \in Path : RequestFails(p)
    \/ Abort
    \/ \E m \in open : AbortOrphan(m)
    \/ \E k \in DOMAIN objects : Damage(k)

Next == PassStep \/ Environment \/ Fault

Spec == Init /\ [][Next]_vars

(* The daemon keeps starting passes, a doctor that is run over and over does
   not keep it from that, and what is started keeps running. *)
FairSpec == Spec /\ WF_vars(PassStep) /\ SF_vars(PlanPass)

-----------------------------------------------------------------------------
(* Properties. *)

(* Types; a transfer that runs has a content to send. *)
TypeOK ==
    /\ files \in [Path -> Content \cup {None}]
    /\ base \in [Path -> Content \cup {None}]
    /\ clock \in Nat /\ remote \in Nat /\ uploads \in Nat
    /\ \A p \in Path : /\ rows[p].id \in 0..uploads
                       /\ rows[p].hash \in Content \cup {None}
                       /\ rows[p].parts \subseteq Nat
    /\ view \subseteq Entry /\ deltas \subseteq Entry /\ Entries(log) \subseteq Entry
    /\ DOMAIN objects \subseteq Path \X Content
    /\ \A m \in open : m.id \in 1..uploads /\ m.key \in Path \X Content
    /\ \A p \in Busy : up[p].mode # "drop" => {up[p].hash, up[p].src} \subseteq Content

(* Whatever was interrupted, resumed or failed on the way: a logged version can
   be decrypted to the content its entry names (upload_file, resume_upload,
   repair_one), on two premises, each about this one object: the store did not
   lose it, and its file did not change while a transfer read it.  Such a change
   can leave a mixture under the hash of the older content: check_object_len
   compares lengths only, and what holds then is that the object has no fewer
   parts than that content. *)
LoggedIsWhole ==
    \A e \in Entries(log) :
        LET k == Key(e.path, e.hash) IN
        \/ k \in damaged
        \/ /\ k \in DOMAIN objects
           /\ \/ Whole(objects[k], e.hash)
              \/ k \in torn /\ Len(objects[k]) >= Size(e.hash)

(* The database never claims parts of another upload than its row's: a part it
   lists is in the store for that upload id, as part of the row's content
   (record_upload_part, clear_upload). *)
RowsAreHonest ==
    \A p \in Path : \A i \in rows[p].parts :
        /\ Tracked(p)
        /\ \A m \in OpenId(rows[p].id) : i \in DOMAIN m.parts

(* Between passes every multipart upload in the store can be resumed or
   aborted, except what a fault kept from being recorded or aborted: none is
   left to accrue storage (resume_uploads, upload_file). *)
NothingLeaks == pc = "idle" => Untracked(rows) \subseteq stray

(* The database is well formed, claims only parts the store has, and lets no
   upload fall out of sight (TypeOK, RowsAreHonest, NothingLeaks). *)
Consistent == TypeOK /\ RowsAreHonest /\ NothingLeaks

(* A version this device logs names as its base the version the device had
   synced before, or one that it saw removed: merge_deltas takes an entry for
   an edit of its base (new_delta, resume_uploads). *)
BaseWasSynced ==
    [][\A e \in Entries(log') \ Entries(log) :
          e.dev = Me /\ ~e.deleted =>
              \/ e.base \in {None, base[e.path], e.hash}
              \/ \E f \in view : f.path = e.path /\ f.deleted]_log

(* Once edits and faults are over, no upload stays pending for ever and folder
   and log agree, whatever was interrupted (resume_uploads, upload).  A version
   that no file has cannot be fetched if the store lost its object, or if its
   file changed under the transfer. *)
Settles ==
    <>[](\A p \in Path :
            /\ ~Tracked(p)
            /\ \/ files[p] = RemoteHash(Merged(Entries(log)), p)
               \/ Key(p, RemoteHash(Merged(Entries(log)), p)) \in damaged \cup torn)
=============================================================================
