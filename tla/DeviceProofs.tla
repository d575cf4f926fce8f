---------------------------- MODULE DeviceProofs ----------------------------
(***************************************************************************)
(* What is proved of one device's files (Residency) and of how devices are *)
(* set up (Setup), for any paths, contents, devices and numbers of edits   *)
(* and faults.                                                             *)
(*                                                                         *)
(* The first part: no version of a file that nobody replaced or deleted is *)
(* lost, and a pass deletes elsewhere only what went here.  A version may  *)
(* be on disk, in the store under its own path, or under a path from which *)
(* a loser or a moved placeholder is still to be relocated; the invariant  *)
(* ties these places to what the rows, the log, the plan of the pass, its  *)
(* queue and an eviction underway say of them.                             *)
(*                                                                         *)
(* The second part: as long as one `rfm init` runs at a time, whatever is  *)
(* written under a prefix can be read with that prefix's vault, however    *)
(* often devices are set up, moved and restarted.                          *)
(***************************************************************************)
EXTENDS Residency, Setup, TLAPS

Hash == Content \cup {NoHash}
Pcs == {"idle", "preserve", "apply", "record", "evictions"} \cup Evicting
Underway == Evicting \ {"evict"}
ObjHash == {k[2] : k \in DOMAIN objects}
OpType == [kind : {"confirm", "stub", "remove"}, path : Path, hash : Hash]
(* The constants' settings under which nothing is lost: the user keeps names
   apart, does not save again while a file is evicted, no other device deletes a
   file whose loser waits here, and evictions are verified. *)
Gates == ~Collisions /\ ~SecondSaves /\ ~LoserDeletes /\ Verify

(* Shapes: a row is evicted only if it was in sync. *)
DiskTypes ==
    /\ files \in [Path -> Hash] /\ scan \in [Path -> Hash]
    /\ stubs \in [Path -> [of : Path \cup {NoPath}, hash : Hash]]
    /\ \A p \in Path : stubs[p].of = NoPath => stubs[p] = NoStub
    /\ rows \in [Path -> [hash : Hash, synced : Hash, evicted : BOOLEAN]]
    /\ \A p \in Path : rows[p].evicted => rows[p].synced # NoHash
    /\ mode \in [Path -> Mode]
    /\ aside \in Hash /\ litter \subseteq Content

LogTypes ==
    /\ remote \in [Path -> [hash : Hash, ours : BOOLEAN]]
    /\ view \in [Path -> [hash : Hash, ours : BOOLEAN]]
    /\ \A p \in Path : remote[p].hash = NoHash => remote[p] = Absent
    /\ \A p \in Path : view[p].hash = NoHash => view[p] = Absent
    /\ losers \subseteq [path : Path, hash : Content]
    /\ DOMAIN objects \subseteq Path \X Content
    /\ gone \subseteq ObjHash
    /\ owed \subseteq Content

PassTypes ==
    /\ pc \in Pcs
    /\ plan \subseteq [path : Path, kind : ActionKind]
    /\ sources \subseteq [to : Path, path : Path, hash : Content]
    /\ pc = "preserve" => todo \subseteq losers
    /\ pc \in Evicting => todo \subseteq Path
    /\ arrived \subseteq Path
    /\ deltas \subseteq [path : Path, hash : Hash]
    /\ ops \in Seq(OpType)
    /\ cur = NoCur \/ cur \in [path : Path, hash : Content]

Types == DiskTypes /\ LogTypes /\ PassTypes

(* What is empty, or set, at which stage of a pass. *)
Stages ==
    /\ pc # "apply" => plan = {} /\ arrived = {} /\ deltas = {}
    /\ pc \notin {"apply", "record"} => ops = <<>>
    /\ pc \in {"idle", "preserve"} => pinned = {}
    /\ pc = "idle" => sources = {}
    /\ aside # NoHash => pc \in {"stat", "unlink", "putback"}
    /\ cur = NoCur <=> pc \notin Underway

Known(c) == c # NoHash => c \in ObjHash
(* Whatever the log, the rows, the placeholders and the queue name was uploaded. *)
Stored ==
    /\ \A p \in Path : Known(remote[p].hash) /\ Known(rows[p].synced) /\ Known(stubs[p].hash)
           /\ Known(view[p].hash)
    /\ \A l \in losers : Known(l.hash)
    /\ \A s \in sources : Known(s.hash)
    /\ \A i \in DOMAIN ops : Known(ops[i].hash)

(* A moved placeholder stands where there is no file and nothing else moved from;
   nothing is named by two of them. *)
NamesApart ==
    /\ \A p \in Path : Foreign(p) => files[p] = NoHash /\ ~Named(p)
    /\ \A p, q \in Path : stubs[p].of = stubs[q].of /\ stubs[p].of \notin {NoPath, p, q} => p = q
    /\ \A p, q \in Path :
          /\ Foreign(q) /\ stubs[q].of = p /\ stubs[p].of = p
          /\ stubs[q].hash = remote[p].hash /\ remote[p].hash # NoHash
          => stubs[p].hash = remote[p].hash

(* The manifest of a pass is the log, but for the deltas the pass has made. *)
Views ==
    /\ \A p \in Path :
          pc = "preserve" \/ (pc = "apply" /\ \A d \in deltas : d.path # p)
              \/ pc \in {"record", "evictions"} \cup Evicting
            => view[p] = remote[p]
    /\ \A d \in deltas : view[d.path] = IF d.hash = NoHash THEN Absent ELSE [hash |-> d.hash, ours |-> TRUE]
    /\ \A d, e \in deltas : d.path = e.path => d = e

Sits(q, p, c) == stubs[q] = [of |-> p, hash |-> c]
Lost(p, c) == [path |-> p, hash |-> c] \in losers

(* the case in which a live version of this device's is not in its file *)
Apart(p) ==
    /\ remote[p].hash # NoHash /\ rows[p].synced = remote[p].hash
    /\ files[p] # remote[p].hash /\ remote[p].hash \in owed
Kept1 == \A p \in Path : Apart(p) /\ ~Foreign(p) =>
    /\ rows[p].evicted /\ files[p] = NoHash
    /\ (\E q \in Path : Sits(q, p, remote[p].hash)) \/ Lost(p, remote[p].hash)
(* The file in sync is the live version, or one that lost a conflict here. *)
Kept2 == \A p \in Path : files[p] # NoHash /\ files[p] = rows[p].synced /\ files[p] \in owed
    => remote[p].hash = files[p] \/ Lost(p, files[p])
Kept3 == \A p \in Path, c \in owed : PendingLoser(p, c) => files[p] \in {NoHash, c}

(* The versions the next steps can still fetch: the live one of a path, and a
   loser's that is to be relocated. *)
Live(p, c) == /\ remote[p].hash = c
              /\ Foreign(p) => remote[stubs[p].of] = Absent /\ files[stubs[p].of] = NoHash
Waits(p, c) == PendingLoser(p, c) /\ remote[p] # Absent /\ ~Foreign(p)
OnDisk(c) == c \in Contents \cup {aside} \cup litter
Held(c) == OnDisk(c) \/ \E p \in Path : Health(p, c) = "good" /\ (Live(p, c) \/ Waits(p, c))
(* Held is Kept, as the runs check it. *)
KeptS == \A c \in owed \ gone : Held(c)

Base == Types /\ Stages /\ Stored /\ NamesApart /\ Views
Safe == Kept1 /\ Kept2 /\ Kept3 /\ KeptS

(***************************************************************************)
(* While losers are preserved: what has been looked at is out of the way,  *)
(* or has a relocation under a new name.                                   *)
(***************************************************************************)
LoserSource(s) ==
    /\ Lost(s.path, s.hash)
    /\ stubs[s.to] = NoStub /\ rows[s.to] = NoRow /\ remote[s.to] = Absent
    /\ ~Named(s.to) /\ \A l \in losers : l.path # s.to
    /\ rows[s.path].synced \in {s.hash, NoHash}
MovedSource(s) ==
    /\ stubs[s.to].of = s.path
    /\ s.hash = remote[s.path].hash
OneTarget == \A s, t \in sources : s.to = t.to => s = t

Preserving == pc = "preserve" =>
    /\ \A l \in losers \ todo :
           /\ files[l.path] # l.hash
           /\ files[l.path] = NoHash /\ PendingLoser(l.path, l.hash) =>
                  \E s \in sources : s.path = l.path /\ s.hash = l.hash
    /\ \A s \in sources : LoserSource(s) /\ files[s.to] = NoHash /\ s.to # s.path
    /\ OneTarget

(***************************************************************************)
(* The plan.                                                               *)
(***************************************************************************)
InPlan(p) == \E a \in plan : a.path = p
InOps(p) == \E i \in DOMAIN ops : ops[i].path = p
InDeltas(p) == \E d \in deltas : d.path = p
Planned(p, k) == [path |-> p, kind |-> k] \in plan
Logged(p, c) == [path |-> p, hash |-> c] \in deltas

(* The loser's source at p, if there is one, stands elsewhere. *)
NoLoserAt(p) == \A s \in sources : s.path = p => stubs[s.to] # NoStub

(* What the files, rows and manifest still say of a path with an action to take. *)
PlanOK(p, k) ==
    /\ k = "Upload" => files[p] # NoHash /\ files[p] # rows[p].synced
           /\ view[p].hash = rows[p].synced
    /\ k = "Download" => /\ files[p] = rows[p].synced /\ view[p].hash \notin {NoHash, rows[p].synced}
                         /\ ~Foreign(p) /\ stubs[p].of # p
                         /\ (files[p] = NoHash => ~rows[p].evicted)
    /\ k = "Hydrate" => /\ files[p] = NoHash /\ view[p].hash # NoHash /\ ~Foreign(p)
           /\ NoLoserAt(p)
    /\ k = "Relocate" => \E s \in sources : s.to = p
    /\ k \in StubKind => files[p] = NoHash /\ view[p].hash # NoHash /\ ~Foreign(p)
    /\ k = "DeleteLocal" => /\ view[p].hash = NoHash /\ ~Foreign(p) /\ rows[p].synced # NoHash
                            /\ files[p] \in {NoHash, rows[p].synced}
    /\ k = "DeleteRemote" => /\ files[p] = NoHash /\ view[p].hash = rows[p].synced
                             /\ rows[p].synced # NoHash /\ stubs[p] = NoStub
                             /\ view[p].hash \in owed =>
                                    \E s \in sources : s.path = p /\ s.hash = view[p].hash
    /\ k = "Conflict" => \/ files[p] # NoHash /\ files[p] # rows[p].synced
                         \/ files[p] = NoHash /\ ~rows[p].evicted /\ rows[p].synced # NoHash

(* A file that was downloaded over an evicted one waits for its row. *)
ArrivedOK(p) ==
    /\ ~InPlan(p) /\ ~InOps(p) /\ ~InDeltas(p)
    /\ files[p] = view[p].hash /\ view[p].hash # NoHash /\ ~Foreign(p) /\ NoLoserAt(p)
    /\ scan[p] = NoHash

(* A delta announces a file's new version, a relocation, or a deletion that
   nothing pinned stands against. *)
DeltaOK(d) ==
    \/ /\ d.hash # NoHash /\ d.hash = files[d.path] /\ remote[d.path].hash = rows[d.path].synced
    \/ \E s \in sources : s.to = d.path /\ s.hash = d.hash
    \/ /\ d.hash = NoHash /\ files[d.path] = NoHash
       /\ remote[d.path].hash = rows[d.path].synced /\ rows[d.path].synced # NoHash
       /\ remote[d.path].hash \in owed =>
              \E s \in sources : /\ s.path = d.path /\ s.hash = remote[d.path].hash
                                 /\ Logged(s.to, s.hash)

(* The only copy of a live version that is evicted is the store's. *)
Relies(p) == /\ remote[p].hash # NoHash /\ rows[p].synced = remote[p].hash
             /\ remote[p].hash \in owed /\ files[p] = NoHash
StillNamed(p, to) ==
    \/ Lost(p, remote[p].hash)
    \/ \E q \in Path \ {to} : Sits(q, p, remote[p].hash)

Plan1 == pc = "apply" =>
    /\ \A a \in plan : PlanOK(a.path, a.kind) /\ scan[a.path] = files[a.path]
    /\ \A a, b \in plan : a.path = b.path => a = b
    /\ \A p \in arrived : ArrivedOK(p)
    /\ \A d \in deltas : ~InPlan(d.path)
    /\ \A d \in deltas : DeltaOK(d)
    /\ \A p \in Path : files[p] # NoHash /\ p \notin arrived => stubs[p].of # p
(* The relocations of a pass: every one is due, made or pinned, and a path whose
   version is to be relocated is not deleted before. *)
Plan2 == pc = "apply" =>
    /\ \A s \in sources : LoserSource(s) \/ MovedSource(s)
    /\ \A s \in sources : Planned(s.to, "Relocate") \/ s.path \in pinned \/ Logged(s.to, s.hash)
    /\ \A p \in Path, c \in owed : PendingLoser(p, c) =>
          \E s \in sources : s.path = p /\ s.hash = c /\ stubs[s.to] = NoStub
    /\ \A s \in sources : MovedSource(s) /\ Planned(s.to, "Relocate") /\ Relies(s.path) =>
           StillNamed(s.path, s.to) \/ Planned(s.path, "DeleteRemote")
    /\ \A p \in pinned : \E s \in sources : s.path = p /\ ~InOps(s.to) /\ ~InPlan(s.to)

(***************************************************************************)
(* The plan and its records.                                               *)
(***************************************************************************)
InPass == pc \in {"apply", "record"}
(* An object holds the version, or nobody needs it to. *)
Sound(p, c) == Health(p, c) = "good" \/ c \in gone \/ c \notin owed \/ OnDisk(c)
Done(s) == IF pc = "apply" THEN Logged(s.to, s.hash) ELSE remote[s.to].hash = s.hash

(* What the queue records is so. *)
ConfirmOK(p, h) ==
    /\ files[p] = h /\ h # NoHash /\ view[p].hash = h
    /\ \A c \in owed : ~PendingLoser(p, c)
StubOK(p, h) ==
    /\ files[p] = NoHash /\ scan[p] = NoHash /\ view[p].hash = h /\ h # NoHash
    /\ \A c \in owed : PendingLoser(p, c) /\ ~Foreign(p) =>
           \E s \in sources : s.path = p /\ s.hash = c /\ Done(s) /\ ~Foreign(s.to)
               /\ Sound(s.to, c)
    /\ Foreign(p) /\ Relies(stubs[p].of) =>
           \/ StillNamed(stubs[p].of, p)
           \/ pc = "apply" /\ (Planned(stubs[p].of, "DeleteRemote") \/ Logged(stubs[p].of, NoHash))
OpOK(o) ==
    /\ o.kind = "confirm" => ConfirmOK(o.path, o.hash)
    /\ o.kind = "remove" => view[o.path] = Absent
    /\ o.kind = "stub" => StubOK(o.path, o.hash)

(* The targets of relocations are free; losers' paths are not in the scan. *)
Rec1 == InPass =>
    /\ \A l \in losers : scan[l.path] # l.hash
    /\ \A s \in sources : files[s.to] = NoHash /\ scan[s.to] = NoHash /\ s.to # s.path
    /\ OneTarget
    /\ \A s \in sources : Logged(s.to, s.hash) \/ (pc = "record" /\ s.path \notin pinned)
           => Sound(s.to, s.hash)
    /\ \A p \in Path : scan[p] # NoHash /\ files[p] = NoHash
           => rows[p].synced = NoHash \/ view[p].hash = NoHash
    /\ \A p \in Path, c \in owed : PendingLoser(p, c) => scan[p] = NoHash
(* One update of a path at a time, and each will be true when it is recorded. *)
Rec2 == InPass =>
    /\ \A p \in Path : ~(InOps(p) /\ InPlan(p))
    /\ \A i, j \in DOMAIN ops : ops[i].path = ops[j].path => i = j
    /\ \A i \in DOMAIN ops : OpOK(ops[i])

(***************************************************************************)
(* An eviction.                                                            *)
(***************************************************************************)
Evictions == cur # NoCur =>
    /\ remote[cur.path].hash = cur.hash /\ rows[cur.path].synced = cur.hash /\ ~Foreign(cur.path)
    /\ Health(cur.path, cur.hash) = "good" \/ cur.hash \in gone
    /\ pc \in {"mark", "stub", "aside"} /\ files[cur.path] # cur.hash => cur.hash \notin owed
    /\ pc \in {"stub", "aside"} => rows[cur.path].evicted
    /\ pc = "aside" => Sits(cur.path, cur.path, cur.hash)
    /\ pc = "stat" => aside # NoHash /\ (aside # cur.hash => cur.hash \notin owed /\ files[cur.path] = NoHash)
    /\ pc = "unlink" => aside = cur.hash
    /\ pc = "putback" => aside \notin {NoHash, cur.hash} /\ files[cur.path] = NoHash
    /\ pc \in {"putback", "unstub", "unmark"} => cur.hash \notin owed

(* The inductive invariant. *)
ResidencyInv == Base /\ Safe /\ Preserving /\ Plan1 /\ Plan2 /\ Rec1 /\ Rec2 /\ Evictions

(***************************************************************************)
(* What a step does to the objects, and what a new version is.             *)
(***************************************************************************)
LEMMA ObjectsStay ==
    ASSUME UNCHANGED objects
    PROVE  /\ ObjHash' = ObjHash
           /\ \A p, c : Health(p, c)' = Health(p, c)
           /\ \A c : Known(c)' <=> Known(c)
  BY DEF ObjHash, Health, Known

(* The other objects are as they were. *)
OthersStay(p, c) == \A q, d : q # p \/ d # c => Health(q, d)' = Health(q, d)

(* Storing an object stores that one. *)
LEMMA ObjectsSet ==
    ASSUME NEW p, NEW c, NEW h, SetHealth(p, c, h)
    PROVE  /\ DOMAIN objects' = DOMAIN objects \cup {<<p, c>>}
           /\ ObjHash' = ObjHash \cup {c}
           /\ Health(p, c)' = h
           /\ OthersStay(p, c)
           /\ \A d : Known(d) => Known(d)'
           /\ Known(c)'
<1>1. /\ DOMAIN objects' = DOMAIN objects \cup {<<p, c>>}
      /\ objects'[<<p, c>>] = h
      /\ \A k \in DOMAIN objects : k # <<p, c>> => objects'[k] = objects[k]
  BY DEF SetHealth
<1>2. ObjHash' = ObjHash \cup {c}
  BY <1>1 DEF ObjHash
<1> QED  BY <1>1, <1>2 DEF Health, Known, OthersStay

(* A version nobody has had. *)
NewTo(c) ==
    /\ c \in Content /\ c # NoHash
    /\ c \notin ObjHash /\ c \notin owed /\ c \notin litter /\ c # aside
    /\ \A p \in Path : files[p] # c

(* IsNew is that. *)
LEMMA NewIsNew ==
    ASSUME NEW c, Content \ Written # {}, IsNew(c)
    PROVE  NewTo(c)
<1>1. c \in Content \ Written
  BY DEF IsNew
<1>2. c # NoHash
  BY <1>1, ContentAssumption
<1> QED  BY <1>1, <1>2 DEF NewTo, Written, ObjHash, Contents

(* What holds a version goes on holding it as long as these are left alone. *)
LEMMA HeldStays ==
    ASSUME UNCHANGED <<disk, rows, log_vars, objects>>
    PROVE  \A c \in Content : Held(c)' <=> Held(c)
<1>1. \A p \in Path, c \in Content : Health(p, c)' = Health(p, c)
  BY ObjectsStay
<1>2. \A c : OnDisk(c)' <=> OnDisk(c)
  BY DEF OnDisk, Contents, disk
<1>3. \A p \in Path, c \in Content : (Live(p, c)' <=> Live(p, c))
          /\ (Waits(p, c)' <=> Waits(p, c))
  BY DEF Live, Waits, PendingLoser, Foreign, disk, log_vars
<1> QED  BY <1>1, <1>2, <1>3 DEF Held

(* So nothing is lost as long as they are. *)
LEMMA KeptStays ==
    ASSUME Types, KeptS, UNCHANGED <<disk, rows, log_vars, objects, owed, gone>>
    PROVE  KeptS'
  BY HeldStays DEF KeptS, Types, LogTypes

(* A save makes a version that is new. *)
LEMMA WriteNew ==
    ASSUME NEW p, NEW c, Write(p, c)
    PROVE  NewTo(c)
  BY NewIsNew DEF Write

(* A save keeps the parts of Safe. *)
LEMMA WriteKept1 ==
    ASSUME NEW p \in Path, NEW c \in Content, Types, Stored, NewTo(c), Kept1, Write(p, c)
    PROVE  Kept1'
<1>1. \A q \in Path : remote[q].hash # c
  BY DEF Stored, Known, NewTo
<1>2. \A q \in Path : Apart(q)' /\ ~Foreign(q)' => Apart(q) /\ ~Foreign(q) /\ files'[q] = files[q]
  BY <1>1 DEF Write, Apart, Foreign, disk, log_vars, Types, DiskTypes, LogTypes, Kept1
<1> QED  BY <1>2 DEF Write, Kept1, Sits, Lost, disk, log_vars

(* Likewise Kept2. *)
LEMMA WriteKept2 ==
    ASSUME NEW p \in Path, NEW c \in Content, Types, Stored, NewTo(c), Kept2, Write(p, c)
    PROVE  Kept2'
<1>1. \A q \in Path : rows[q].synced # c
  BY DEF Stored, Known, NewTo
<1> QED  BY <1>1 DEF Write, disk, log_vars, Types, DiskTypes, LogTypes, Kept2, Lost

(* Likewise Kept3. *)
LEMMA WriteKept3 ==
    ASSUME NEW p \in Path, NEW c \in Content, Types, Stored, NewTo(c), Kept3, Write(p, c)
    PROVE  Kept3'
<1>1. \A q \in Path : rows[q].synced # c
  BY DEF Stored, Known, NewTo
<1> QED  BY <1>1 DEF Write, disk, log_vars, Types, DiskTypes, LogTypes, Kept3, PendingLoser

(* What the save replaces is no longer owed. *)
LEMMA WriteKeptS ==
    ASSUME NEW p \in Path, NEW c \in Content, Types, Stored, NewTo(c), Gates, KeptS, Kept3,
           Write(p, c)
    PROVE  KeptS'
<1>1. \A q \in Path : rows[q].synced # c
  BY DEF Stored, Known, NewTo
<1>2. ~Foreign(p) /\ ~Named(p)
  BY DEF Write, Gates
<1>3. \A d : OnDisk(d) /\ d \in owed' => OnDisk(d)'
  BY DEF OnDisk, Write, Contents, Types, DiskTypes
<1>4. \A q \in Path : \A d : Live(q, d) /\ d \in owed' => Live(q, d)'
  BY <1>2 DEF Live, Write, log_vars, Foreign, Named, Types, DiskTypes
<1>5. \A q \in Path : \A d : Waits(q, d) => Waits(q, d)'
  BY DEF Waits, PendingLoser, Foreign, Write, log_vars
<1>6. \A q \in Path, d \in Content : Health(q, d)' = Health(q, d)
  BY ObjectsStay DEF Write
<1>7. OnDisk(c)'
  BY DEF OnDisk, Contents, Write, Types, DiskTypes
<1>8. owed' \subseteq owed \cup {c} /\ gone' = gone /\ owed \subseteq Content
  BY DEF Write, Types, LogTypes
<1> QED  BY <1>3, <1>4, <1>5, <1>6, <1>7, <1>8 DEF KeptS, Held

(* A save leaves the log alone. *)
LEMMA WriteLog ==
    ASSUME NEW p \in Path, NEW c \in Content, Types, Write(p, c)
    PROVE  LogTypes'
<1>1. ObjHash' = ObjHash
  BY ObjectsStay DEF Write
<1>2. owed' \subseteq Content
  BY DEF Write, Types, LogTypes
<1> QED  BY <1>1, <1>2 DEF Write, Types, LogTypes, log_vars, pass_vars

(* A pin moves nothing. *)
LEMMA PinKeptS ==
    ASSUME NEW p, NEW m, Types, KeptS, Pin(p, m)
    PROVE  KeptS'
  BY KeptStays DEF Pin

(* A file the user deletes is no longer owed. *)
LEMMA DeleteKeptS ==
    ASSUME NEW p \in Path, Types, KeptS, Delete(p)
    PROVE  KeptS'
<1>1. \A q \in Path, d \in Content : Health(q, d)' = Health(q, d)
  BY ObjectsStay DEF Delete
<1>2. \A d : OnDisk(d) /\ d \in owed' => OnDisk(d)'
  BY DEF OnDisk, Delete, Contents, Types, DiskTypes
<1>3. \A q \in Path : \A d : (Live(q, d) => Live(q, d)') /\ (Waits(q, d) => Waits(q, d)')
  BY DEF Live, Waits, PendingLoser, Delete, log_vars, Foreign, Types, DiskTypes
<1>4. owed' \subseteq owed /\ gone' = gone /\ owed \subseteq Content
  BY DEF Delete, Types, LogTypes
<1> QED  BY <1>1, <1>2, <1>3, <1>4 DEF KeptS, Held

(* Nor is a version whose placeholder the user deletes. *)
LEMMA DeleteStubKeptS ==
    ASSUME NEW p \in Path, Types, KeptS, DeleteStub(p)
    PROVE  KeptS'
<1>1. \A q \in Path, d \in Content : Health(q, d)' = Health(q, d)
  BY ObjectsStay DEF DeleteStub
<1>2. \A d : OnDisk(d) => OnDisk(d)'
  BY DEF OnDisk, DeleteStub, Contents
<1>3. \A q \in Path : \A d : (Live(q, d) => Live(q, d)') /\ (Waits(q, d) => Waits(q, d)')
  BY DEF Live, Waits, PendingLoser, DeleteStub, log_vars, Foreign, Types, DiskTypes, NoStub
<1>4. owed' \subseteq owed /\ gone' = gone /\ owed \subseteq Content
  BY DEF DeleteStub, Types, LogTypes
<1> QED  BY <1>1, <1>2, <1>3, <1>4 DEF KeptS, Held

(* A placeholder that moves still names its version. *)
LEMMA MoveStubKept1 ==
    ASSUME NEW p \in Path, NEW q \in Path, Types, NamesApart, Gates, Kept1, MoveStub(p, q)
    PROVE  Kept1'
<1>1. stubs[p] # NoStub /\ stubs[p].of = p /\ stubs[q] = NoStub /\ ~Named(p) /\ ~Named(q)
          /\ remote[q] = Absent /\ files[q] = NoHash
  BY DEF MoveStub, Gates, Foreign, Types, DiskTypes
<1>2. \A r \in Path : Apart(r)' /\ ~Foreign(r)' => Apart(r) /\ ~Foreign(r)
  BY <1>1 DEF MoveStub, Apart, Foreign, NoStub, Types, DiskTypes, log_vars
<1>3. \A r, t \in Path : \A c : Sits(t, r, c) => \E u \in Path : Sits(u, r, c)'
  BY <1>1 DEF MoveStub, Sits, NoStub, Types, DiskTypes
<1> QED  BY <1>2, <1>3 DEF Kept1, Lost, MoveStub, log_vars

(* And the version stays live under the old path until it is relocated. *)
LEMMA MoveStubKeptS ==
    ASSUME NEW p \in Path, NEW q \in Path, Types, NamesApart, Gates, KeptS, MoveStub(p, q)
    PROVE  KeptS'
<1>1. stubs[p] # NoStub /\ stubs[p].of = p /\ stubs[q] = NoStub /\ ~Named(p) /\ ~Named(q)
          /\ remote[q] = Absent /\ files[q] = NoHash
  BY DEF MoveStub, Gates, Foreign, Types, DiskTypes
<1>2. \A r \in Path, d \in Content : Health(r, d)' = Health(r, d)
  BY ObjectsStay DEF MoveStub
<1>3. \A d : OnDisk(d) => OnDisk(d)'
  BY DEF OnDisk, MoveStub, Contents
<1>4. \A r \in Path, d \in Content : Live(r, d) => Live(r, d)'
  BY <1>1, ContentAssumption
     DEF Live, MoveStub, log_vars, Foreign, Types, DiskTypes, NoStub, Absent
<1>5. \A r \in Path : \A d : Waits(r, d) => Waits(r, d)'
  BY <1>1 DEF Waits, PendingLoser, MoveStub, log_vars, Foreign, Types, DiskTypes, NoStub
<1>6. owed' = owed /\ gone' = gone /\ owed \subseteq Content
  BY DEF MoveStub, Types, LogTypes
<1> QED  BY <1>2, <1>3, <1>4, <1>5, <1>6 DEF KeptS, Held

(* What another device deletes is no longer owed. *)
LEMMA PeerDeleteKeptS ==
    ASSUME NEW p \in Path, Types, Gates, KeptS, PeerDelete(p)
    PROVE  KeptS'
<1>2. \A r \in Path, d \in Content : Health(r, d)' = Health(r, d)
  BY ObjectsStay DEF PeerDelete
<1>3. \A d : OnDisk(d) => OnDisk(d)'
  BY DEF OnDisk, PeerDelete, Contents, disk
<1>4. \A r \in Path, d \in Content : Live(r, d) /\ d \in owed' => Live(r, d)'
  BY DEF Live, PeerDelete, disk, Foreign, Types, LogTypes, Absent
<1>5. \A r \in Path, d \in Content : Waits(r, d) => Waits(r, d)'
  BY DEF Waits, PendingLoser, PeerDelete, Foreign, Types, LogTypes, disk, Gates
<1>6. owed' \subseteq owed /\ gone' = gone /\ owed \subseteq Content
  BY DEF PeerDelete, Types, LogTypes
<1> QED  BY <1>2, <1>3, <1>4, <1>5, <1>6 DEF KeptS, Held

(* A version of another device: what it leaves alone. *)
LEMMA PeerVersionFacts ==
    ASSUME NEW p \in Path, NEW c \in Content, Types, Stored, Gates, PeerVersion(p, c),
           gone' = gone,
           owed' \subseteq owed \cup {c}, UNCHANGED <<disk, rows>>, losers \subseteq losers'
    PROVE  /\ NewTo(c) /\ ~Foreign(p)
           /\ ~(Named(p) /\ remote[p] = Absent)
           /\ ObjHash' = ObjHash \cup {c}
           /\ \A d : Known(d) => Known(d)'
           /\ DOMAIN objects' \subseteq Path \X Content
           /\ \A r \in Path, d \in Content : Health(r, d) = "good" => Health(r, d)' = "good"
           /\ Health(p, c)' = "good"
           /\ remote' = [remote EXCEPT ![p] = [hash |-> c, ours |-> FALSE]]
           /\ remote' \in [Path -> [hash : Hash, ours : BOOLEAN]]
           /\ \A q \in Path : remote[q].hash # c /\ rows[q].synced # c /\ files[q] # c
           /\ \A d : OnDisk(d) <=> OnDisk(d)'
           /\ \A r \in Path, d \in Content : Live(r, d) /\ r # p => Live(r, d)'
           /\ \A r \in Path, d \in Content : Waits(r, d) => Waits(r, d)'
           /\ \A l \in losers : l.hash # c
<1>1. NewTo(c) /\ ~Foreign(p)
  BY NewIsNew DEF PeerVersion, Gates
<1>2. SetHealth(p, c, "good")
  BY DEF PeerVersion
<1>3. /\ ObjHash' = ObjHash \cup {c}
      /\ \A d : Known(d) => Known(d)'
      /\ DOMAIN objects' \subseteq Path \X Content
      /\ Health(p, c)' = "good"
  <2>1. /\ DOMAIN objects' = DOMAIN objects \cup {<<p, c>>}
        /\ ObjHash' = ObjHash \cup {c}
        /\ Health(p, c)' = "good"
    BY <1>2, ObjectsSet, Zenon
  <2>2. \A d : Known(d) => Known(d)'
    BY <2>1 DEF Known
  <2> QED  BY <2>1, <2>2 DEF Types, LogTypes
<1>4. \A r \in Path, d \in Content : Health(r, d) = "good" => Health(r, d)' = "good"
  <2>1. OthersStay(p, c)
    BY <1>2, ObjectsSet, Zenon
  <2> QED  BY <2>1, <1>3 DEF OthersStay
<1>5. /\ remote' = [remote EXCEPT ![p] = [hash |-> c, ours |-> FALSE]]
      /\ Named(p) /\ remote[p] = Absent => FALSE
  BY DEF PeerVersion, Gates
<1>6. \A q \in Path : remote[q].hash # c /\ rows[q].synced # c /\ files[q] # c
  BY <1>1 DEF Stored, Known, NewTo
<1>7. remote' \in [Path -> [hash : Hash, ours : BOOLEAN]]
  BY <1>5 DEF Types, LogTypes, Hash
<1>8. \A d : OnDisk(d) <=> OnDisk(d)'
  BY DEF OnDisk, Contents, disk
<1>9. \A r \in Path, d \in Content : Live(r, d) /\ r # p => Live(r, d)'
  BY <1>5 DEF Live, Foreign, Named, Types, LogTypes, disk
<1>10. \A r \in Path, d \in Content : Waits(r, d) => Waits(r, d)'
  BY <1>5, <1>1 DEF Waits, PendingLoser, Foreign, Types, LogTypes, disk, Absent, NewTo
<1>11. \A l \in losers : l.hash # c
  BY <1>1 DEF Stored, Known, NewTo
<1> QED  BY <1>1, <1>3, <1>4, <1>5, <1>6, <1>7, <1>8, <1>9, <1>10, <1>11

(* Another device's edit of what is live. *)
LEMMA PeerEditFacts ==
    ASSUME NEW p \in Path, NEW c \in Content, Types, Stored, Gates, PeerEdit(p, c)
    PROVE  /\ gone' = gone /\ owed' = (owed \ {remote[p].hash}) \cup {c}
           /\ UNCHANGED <<disk, rows, losers>>
           /\ PeerVersion(p, c)
  BY DEF PeerEdit

(* It leaves the log well formed. *)
LEMMA PeerEditLogTypes ==
    ASSUME NEW p \in Path, NEW c \in Content, Types, Stored, Gates, PeerEdit(p, c)
    PROVE  LogTypes'
<1>1. /\ ObjHash' = ObjHash \cup {c} /\ DOMAIN objects' \subseteq Path \X Content
      /\ remote' \in [Path -> [hash : Hash, ours : BOOLEAN]]
      /\ remote' = [remote EXCEPT ![p] = [hash |-> c, ours |-> FALSE]]
  BY PeerVersionFacts, PeerEditFacts
<1> QED  BY <1>1, ContentAssumption DEF PeerEdit, Types, LogTypes, pass_vars

(* It replaces what was live: the path is no longer apart. *)
LEMMA PeerEditKept1 ==
    ASSUME NEW p \in Path, NEW c \in Content, Types, Stored, Gates, Kept1, PeerEdit(p, c)
    PROVE  Kept1'
<1>1. /\ remote' = [remote EXCEPT ![p] = [hash |-> c, ours |-> FALSE]]
      /\ \A q \in Path : rows[q].synced # c
  BY PeerVersionFacts, PeerEditFacts
<1>2. \A q \in Path : Apart(q)' => q # p /\ remote'[q] = remote[q] /\ Apart(q)
  BY <1>1 DEF Apart, PeerEdit, disk, Types, LogTypes
<1> QED  BY <1>2 DEF Kept1, Foreign, Sits, Lost, PeerEdit, disk

(* The file that was live is not owed any more. *)
LEMMA PeerEditKept2 ==
    ASSUME NEW p \in Path, NEW c \in Content, Types, Stored, Gates, Kept2, PeerEdit(p, c)
    PROVE  Kept2'
<1>1. /\ remote' = [remote EXCEPT ![p] = [hash |-> c, ours |-> FALSE]]
      /\ \A q \in Path : files[q] # c
  BY PeerVersionFacts, PeerEditFacts
<1> QED  BY <1>1 DEF Kept2, Lost, PeerEdit, disk, Types, LogTypes, DiskTypes

(* No loser's path is filled. *)
LEMMA PeerEditKept3 ==
    ASSUME NEW p \in Path, NEW c \in Content, Types, Stored, Gates, Kept3, PeerEdit(p, c)
    PROVE  Kept3'
<1>1. \A q \in Path : rows[q].synced # c
  BY PeerVersionFacts, PeerEditFacts
<1> QED  BY <1>1 DEF Kept3, PendingLoser, PeerEdit, disk

(* The new version is in the store; the old one is not owed. *)
LEMMA PeerEditKeptS ==
    ASSUME NEW p \in Path, NEW c \in Content, Types, Stored, Gates, KeptS, PeerEdit(p, c)
    PROVE  KeptS'
<1>1. /\ Health(p, c)' = "good"
      /\ \A r \in Path, d \in Content : Health(r, d) = "good" => Health(r, d)' = "good"
      /\ \A d : OnDisk(d) <=> OnDisk(d)'
      /\ \A r \in Path, d \in Content : Live(r, d) /\ r # p => Live(r, d)'
      /\ \A r \in Path, d \in Content : Waits(r, d) => Waits(r, d)'
      /\ remote' = [remote EXCEPT ![p] = [hash |-> c, ours |-> FALSE]]
      /\ ~Foreign(p)
  BY PeerVersionFacts, PeerEditFacts
<1>2. Live(p, c)'
  BY <1>1 DEF Live, Foreign, PeerEdit, disk, Types, LogTypes
<1>3. \A d \in Content : Live(p, d) /\ d \in owed' => d = c
  BY DEF Live, PeerEdit
<1>4. owed' \subseteq owed \cup {c} /\ gone' = gone /\ owed \subseteq Content
  BY DEF PeerEdit, Types, LogTypes
<1> QED  BY <1>1, <1>2, <1>3, <1>4 DEF KeptS, Held

(* Another device's edit that wins over ours. *)
LEMMA PeerConflictFacts ==
    ASSUME NEW p \in Path, NEW c \in Content, Types, Stored, Gates, PeerConflict(p, c)
    PROVE  /\ gone' = gone /\ owed' = owed \cup {c}
           /\ UNCHANGED <<disk, rows>>
           /\ losers' = losers \cup {[path |-> p, hash |-> remote[p].hash]}
           /\ losers \subseteq losers'
           /\ remote[p].ours /\ remote[p].hash \in {files[p], rows[p].synced}
           /\ remote[p].hash \in Content
           /\ PeerVersion(p, c)
<1>1. remote[p].hash # NoHash
  BY DEF PeerConflict, Types, LogTypes, Absent
<1> QED  BY <1>1 DEF PeerConflict, Gates, Types, LogTypes, Hash

(* It leaves the log well formed. *)
LEMMA PeerConflictLogTypes ==
    ASSUME NEW p \in Path, NEW c \in Content, Types, Stored, Gates, PeerConflict(p, c)
    PROVE  LogTypes'
<1>1. /\ ObjHash' = ObjHash \cup {c} /\ DOMAIN objects' \subseteq Path \X Content
      /\ remote' \in [Path -> [hash : Hash, ours : BOOLEAN]]
      /\ remote' = [remote EXCEPT ![p] = [hash |-> c, ours |-> FALSE]]
  BY PeerVersionFacts, PeerConflictFacts
<1>2. losers' \subseteq [path : Path, hash : Content]
  BY PeerConflictFacts DEF Types, LogTypes
<1> QED  BY <1>1, <1>2, ContentAssumption DEF PeerConflict, Types, LogTypes, pass_vars

(* The loser was uploaded. *)
LEMMA PeerConflictStored ==
    ASSUME NEW p \in Path, NEW c \in Content, Types, Stages, Stored, Gates, PeerConflict(p, c)
    PROVE  Stored'
<1>1. /\ remote' = [remote EXCEPT ![p] = [hash |-> c, ours |-> FALSE]]
      /\ ObjHash' = ObjHash \cup {c}
      /\ \A d : Known(d) => Known(d)'
      /\ Known(c)'
      /\ losers' = losers \cup {[path |-> p, hash |-> remote[p].hash]}
  BY PeerVersionFacts, PeerConflictFacts DEF Known
<1>2. \A q \in Path : Known(remote[q].hash)' /\ Known(rows[q].synced)' /\ Known(stubs[q].hash)'
          /\ Known(view[q].hash)'
  <2>1. UNCHANGED <<rows, stubs, view>>
    BY DEF PeerConflict, disk, pass_vars
  <2> QED  BY <1>1, <2>1 DEF Stored, Types, LogTypes, Known
<1>3. \A l \in losers' : Known(l.hash)'
  BY <1>1 DEF Stored
<1>4. UNCHANGED <<sources, ops>>
  BY DEF PeerConflict, pass_vars
<1> QED  BY <1>1, <1>2, <1>3, <1>4 DEF Stored, Known

(* The path has the winner, and is no longer apart. *)
LEMMA PeerConflictKept1 ==
    ASSUME NEW p \in Path, NEW c \in Content, Types, Stored, Gates, Kept1, PeerConflict(p, c)
    PROVE  Kept1'
<1>1. /\ remote' = [remote EXCEPT ![p] = [hash |-> c, ours |-> FALSE]]
      /\ \A q \in Path : rows[q].synced # c
      /\ losers \subseteq losers'
  BY PeerVersionFacts, PeerConflictFacts
<1>2. \A q \in Path : Apart(q)' => q # p /\ remote'[q] = remote[q] /\ Apart(q)
  BY <1>1 DEF Apart, PeerConflict, disk, Types, LogTypes
<1> QED  BY <1>1, <1>2 DEF Kept1, Foreign, Sits, Lost, PeerConflict, disk

(* The loser's file is one that lost. *)
LEMMA PeerConflictKept2 ==
    ASSUME NEW p \in Path, NEW c \in Content, Types, Stored, Gates, Kept2, PeerConflict(p, c)
    PROVE  Kept2'
<1>1. /\ remote' = [remote EXCEPT ![p] = [hash |-> c, ours |-> FALSE]]
      /\ \A q \in Path : files[q] # c
      /\ losers' = losers \cup {[path |-> p, hash |-> remote[p].hash]}
  BY PeerVersionFacts, PeerConflictFacts
<1> QED  BY <1>1 DEF Kept2, Lost, PeerConflict, disk, Types, LogTypes, DiskTypes

(* A loser that is evicted has no other file at its path. *)
LEMMA PeerConflictKept3 ==
    ASSUME NEW p \in Path, NEW c \in Content, Types, Stored, Gates, Kept1, Kept3,
           PeerConflict(p, c)
    PROVE  Kept3'
<1>1. /\ losers' = losers \cup {[path |-> p, hash |-> remote[p].hash]}
      /\ \A q \in Path : rows[q].synced # c
      /\ ~Foreign(p) /\ remote[p].hash # NoHash
      /\ UNCHANGED <<files, rows>> /\ owed' = owed \cup {c}
  BY PeerVersionFacts, PeerConflictFacts, ContentAssumption DEF disk
<1>2. \A q \in Path, d \in owed' : PendingLoser(q, d)' => d \in owed
  BY <1>1 DEF PendingLoser
<1>3. \A q \in Path, d \in owed : PendingLoser(q, d)'
          => PendingLoser(q, d) \/ (q = p /\ d = remote[p].hash /\ rows[p].synced = d)
  BY <1>1 DEF PendingLoser
<1>4. rows[p].synced = remote[p].hash /\ remote[p].hash \in owed
          => files[p] \in {NoHash, remote[p].hash}
  BY <1>1 DEF Kept1, Apart
<1> QED  BY <1>1, <1>2, <1>3, <1>4 DEF Kept3

(* The loser is on disk, or waits to be relocated. *)
LEMMA PeerConflictKeptS ==
    ASSUME NEW p \in Path, NEW c \in Content, Types, Stored, Gates, Kept1, KeptS,
           PeerConflict(p, c)
    PROVE  KeptS'
<1>1. /\ Health(p, c)' = "good"
      /\ \A r \in Path, d \in Content : Health(r, d) = "good" => Health(r, d)' = "good"
      /\ \A d : OnDisk(d) <=> OnDisk(d)'
      /\ \A r \in Path, d \in Content : Live(r, d) /\ r # p => Live(r, d)'
      /\ \A r \in Path, d \in Content : Waits(r, d) => Waits(r, d)'
      /\ remote' = [remote EXCEPT ![p] = [hash |-> c, ours |-> FALSE]]
      /\ ~Foreign(p) /\ NewTo(c)
  BY PeerVersionFacts, PeerConflictFacts
<1>2. Live(p, c)'
  BY <1>1 DEF Live, Foreign, PeerConflict, disk, Types, LogTypes
<1>3. \A d \in owed : Live(p, d) => OnDisk(d) \/ Waits(p, d)'
  <2> SUFFICES ASSUME NEW d \in owed, Live(p, d) PROVE OnDisk(d) \/ Waits(p, d)'
    OBVIOUS
  <2>1. d = remote[p].hash /\ d \in {files[p], rows[p].synced}
    BY PeerConflictFacts DEF Live
  <2>2. CASE files[p] = d
    BY <2>2 DEF OnDisk, Contents
  <2>3. CASE files[p] # d
    <3>1. rows[p].evicted /\ rows[p].synced = d
      BY <2>1, <2>3, <1>1, PeerConflictFacts, ContentAssumption DEF Kept1, Apart
    <3>2. /\ UNCHANGED <<rows, stubs>>
          /\ losers' = losers \cup {[path |-> p, hash |-> d]}
      BY <2>1, PeerConflictFacts DEF disk
    <3>3. remote'[p] # Absent
      BY <1>1 DEF Absent, NewTo, Types, LogTypes
    <3> QED  BY <3>1, <3>2, <3>3, <1>1 DEF Waits, PendingLoser, Foreign
  <2> QED  BY <2>2, <2>3
<1>4. owed' \subseteq owed \cup {c} /\ gone' = gone /\ owed \subseteq Content
  BY DEF PeerConflict, Types, LogTypes
<1> QED  BY <1>1, <1>2, <1>3, <1>4 DEF KeptS, Held

(* A save during an eviction: the evicted version is no longer owed. *)
LEMMA WriteEvictions ==
    ASSUME NEW p \in Path, NEW c \in Content, Types, Stages, Stored, NewTo(c), Gates, Evictions,
           Write(p, c)
    PROVE  Evictions'
<1> SUFFICES ASSUME cur # NoCur PROVE Evictions'
  BY DEF Evictions, Write, pass_vars
<1>1. cur \in [path : Path, hash : Content] /\ cur.path \in Path
  BY DEF Types, PassTypes
<1>2. cur.hash # c /\ cur.hash # NoHash
  BY ContentAssumption, <1>1 DEF Evictions, Stored, Known, NewTo
<1>3. /\ files[cur.path] \in {cur.hash, NoHash} /\ aside \in {cur.hash, NoHash}
  BY DEF Write, Editing, Gates
<1>4. Health(cur.path, cur.hash)' = Health(cur.path, cur.hash)
  <2>1. \A q, d : Health(q, d)' = Health(q, d)
    BY ObjectsStay DEF Write
  <2> QED  BY <2>1 DEF Write, pass_vars
<1>5. UNCHANGED <<remote, rows, stubs, pc, cur, aside, gone>>
  BY DEF Write, log_vars, pass_vars
<1>6. files'[cur.path] # files[cur.path] => cur.path = p /\ cur.hash \notin owed'
  BY <1>1, <1>2, <1>3 DEF Write, Evictions, Types, DiskTypes
<1>7. cur.hash \notin owed => cur.hash \notin owed'
  BY <1>2 DEF Write
<1> QED  BY <1>1, <1>2, <1>3, <1>4, <1>5, <1>6, <1>7 DEF Evictions, Foreign, Sits

(* So for a deletion during an eviction. *)
LEMMA DeleteEvictions ==
    ASSUME NEW p \in Path, Types, Stages, Stored, Gates, Evictions, Delete(p)
    PROVE  Evictions'
<1> SUFFICES ASSUME cur # NoCur PROVE Evictions'
  BY DEF Evictions, Delete, pass_vars
<1>1. cur \in [path : Path, hash : Content] /\ cur.path \in Path
  BY DEF Types, PassTypes
<1>3. /\ files[cur.path] \in {cur.hash, NoHash} /\ aside \in {cur.hash, NoHash}
  BY DEF Delete, Editing, Gates
<1>4. Health(cur.path, cur.hash)' = Health(cur.path, cur.hash)
  <2>1. \A q, d : Health(q, d)' = Health(q, d)
    BY ObjectsStay DEF Delete
  <2> QED  BY <2>1 DEF Delete, pass_vars
<1>5. UNCHANGED <<remote, rows, stubs, pc, cur, aside, gone>>
  BY DEF Delete, log_vars, pass_vars
<1>6. files'[cur.path] # files[cur.path] => cur.path = p /\ cur.hash \notin owed'
          /\ files'[cur.path] = NoHash
  BY <1>1, <1>3 DEF Delete, Evictions, Types, DiskTypes
<1>7. cur.hash \notin owed => cur.hash \notin owed'
  BY DEF Delete
<1> QED  BY <1>1, <1>3, <1>4, <1>5, <1>6, <1>7 DEF Evictions, Foreign, Sits

(* Nothing of the last pass is left when one begins. *)
LEMMA ReadLogPhases ==
    ASSUME Types, Stages, ReadLog
    PROVE  Preserving' /\ Plan1' /\ Plan2' /\ Rec1' /\ Rec2' /\ Evictions'
<1>1. Preserving'
  BY DEF ReadLog, Preserving, Stages, OneTarget, log_vars
<1>2. cur' = NoCur /\ pc' = "preserve"
  BY DEF ReadLog, Stages, Underway, Evicting
<1>3. Plan1' /\ Plan2' /\ Rec1' /\ Rec2'
  BY <1>2 DEF Plan1, Plan2, Rec1, Rec2, InPass
<1> QED  BY <1>1, <1>2, <1>3 DEF Evictions, NoCur

(* A conflict name is a path where there is nothing. *)
LEMMA FreshIsUnused ==
    ASSUME NEW q, Fresh(q)
    PROVE  q \in Path /\ Unused(q)
<1>1. q \in Copy /\ Unused(q)
  BY DEF Fresh
<1> QED  BY <1>1, PathAssumption

(* The three ways of a loser. *)
LoserFrame(l) ==
    /\ pc = "preserve" /\ l \in todo /\ todo' = todo \ {l}
    /\ UNCHANGED <<stubs, mode, aside, litter, log_vars, objects, pc, view, scan, plan, pinned, arrived,
                   deltas, ops, cur, counters, owed, gone>>
LoserRenamed(l, q) ==
    /\ files[l.path] = l.hash /\ q \in Path /\ Unused(q)
    /\ files' = [files EXCEPT ![l.path] = NoHash, ![q] = l.hash]
    /\ rows' = [rows EXCEPT ![l.path] = NoRow]
    /\ UNCHANGED sources
LoserRelocated(l, q) ==
    /\ files[l.path] = NoHash /\ PendingLoser(l.path, l.hash) /\ q \in Path /\ Unused(q)
    /\ sources' = sources \cup {[to |-> q, path |-> l.path, hash |-> l.hash]}
    /\ UNCHANGED <<files, rows>>
LoserPassed(l) ==
    /\ files[l.path] # l.hash
    /\ files[l.path] = NoHash => ~PendingLoser(l.path, l.hash)
    /\ UNCHANGED <<files, rows, sources>>

(* A loser is renamed, is to be relocated, or is passed over. *)
LEMMA PreserveLoserCases ==
    ASSUME NEW l \in todo, Types, PreserveLoser(l)
    PROVE  /\ LoserFrame(l)
           /\ l \in losers /\ l.path \in Path /\ l.hash \in Content /\ l.hash # NoHash
           /\ l = [path |-> l.path, hash |-> l.hash]
           /\ \/ \E q \in Path : LoserRenamed(l, q)
              \/ \E q \in Path : LoserRelocated(l, q)
              \/ LoserPassed(l)
<1>1. LoserFrame(l)
  BY DEF PreserveLoser, LoserFrame
<1>2. l \in losers /\ l \in [path : Path, hash : Content]
  BY DEF PreserveLoser, Types, PassTypes, LogTypes
<1>3. l.path \in Path /\ l.hash \in Content /\ l = [path |-> l.path, hash |-> l.hash]
  BY <1>2
<1>4. [path |-> l.path, hash |-> l.hash] \in losers
  BY <1>2, <1>3
<1>5. \/ \E q \in Path : LoserRenamed(l, q)
      \/ \E q \in Path : LoserRelocated(l, q)
      \/ LoserPassed(l)
  BY <1>4, FreshIsUnused
     DEF PreserveLoser, LoserRenamed, LoserRelocated, LoserPassed, PendingLoser
<1> QED  BY <1>1, <1>2, <1>3, <1>5, ContentAssumption

(* Renamed: the file is the loser's, under the new name. *)
LEMMA LoserRenamedKeeps ==
    ASSUME NEW l, NEW q, Types, Stored, NamesApart, Kept1, Kept2, Kept3, KeptS, Preserving,
           l \in losers, l.path \in Path, l.hash \in Content, l.hash # NoHash,
           l = [path |-> l.path, hash |-> l.hash],
           LoserFrame(l), LoserRenamed(l, q)
    PROVE  DiskTypes' /\ Stored' /\ NamesApart' /\ Kept1' /\ Kept2' /\ Kept3' /\ KeptS'
               /\ Preserving'
<1>a. /\ q \in Path /\ q # l.path
      /\ files[q] = NoHash /\ stubs[q] = NoStub /\ rows[q] = NoRow /\ remote[q] = Absent
      /\ ~Named(q) /\ \A k \in losers : k.path # q
      /\ \A s \in sources : s.to # q
  BY DEF LoserRenamed, Unused
<1>b. /\ files' \in [Path -> Hash] /\ rows' \in [Path -> [hash : Hash, synced : Hash, evicted : BOOLEAN]]
      /\ files'[q] = l.hash /\ files'[l.path] = NoHash
             /\ \A r \in Path \ {q, l.path} : files'[r] = files[r]
      /\ rows'[l.path] = NoRow /\ \A r \in Path \ {l.path} : rows'[r] = rows[r]
  BY <1>a DEF LoserRenamed, Types, DiskTypes, Hash, NoRow
<1>c. UNCHANGED <<stubs, mode, aside, litter, remote, losers, objects, pc, view, scan, plan,
                  sources, deltas, ops, cur, owed, gone>>
  BY DEF LoserFrame, LoserRenamed, log_vars
<1>1. DiskTypes'
  BY <1>b, <1>c DEF Types, DiskTypes, NoRow
<1>2. Stored'
  <2>1. \A d : Known(d)' <=> Known(d)
    BY ObjectsStay, <1>c
  <2>2. \A r \in Path : rows'[r].synced = rows[r].synced \/ rows'[r].synced = NoHash
    BY <1>b DEF NoRow
  <2> QED  BY <2>1, <2>2, <1>c DEF Stored, Known
<1>3. NamesApart'
  BY <1>a, <1>b, <1>c DEF NamesApart, Foreign, Named, NoStub
<1>4. Kept1'
  <2>1. \A r \in Path : Apart(r)' => Apart(r) /\ rows'[r] = rows[r] /\ files'[r] = files[r]
    BY <1>a, <1>b, <1>c DEF Apart, NoRow, Absent
  <2> QED  BY <2>1, <1>c DEF Kept1, Foreign, Sits, Lost
<1>5. Kept2'
  BY <1>a, <1>b, <1>c DEF Kept2, Lost, NoRow
<1>6. Kept3'
  BY <1>a, <1>b, <1>c, ContentAssumption DEF Kept3, PendingLoser, NoRow
<1>7. KeptS'
  <2>1. \A r \in Path : \A d : Health(r, d)' = Health(r, d)
    BY ObjectsStay, <1>c
  <2>2. \A d : OnDisk(d) => OnDisk(d)'
    BY <1>a, <1>b, <1>c DEF OnDisk, Contents, LoserRenamed
  <2>3. \A r \in Path : \A d : Live(r, d) => Live(r, d)'
    BY <1>a, <1>b, <1>c DEF Live, Foreign, Named, NoStub, Types, DiskTypes
  <2>4. \A r \in Path, d \in owed : Waits(r, d) => Waits(r, d)' \/ OnDisk(d)'
    <3>1. \A r \in Path \ {l.path} : \A d : Waits(r, d) => Waits(r, d)'
      BY <1>b, <1>c DEF Waits, PendingLoser, Foreign
    <3>2. \A d \in owed : Waits(l.path, d) => d = l.hash
      BY DEF Waits, Kept3, LoserRenamed
    <3>3. OnDisk(l.hash)
      BY DEF OnDisk, Contents, LoserRenamed
    <3> QED  BY <3>1, <3>2, <3>3, <2>2
  <2> QED  BY <1>c, <2>1, <2>2, <2>3, <2>4 DEF KeptS, Held, Types, LogTypes
<1>8. Preserving'
  <2>1. \A k \in losers \ todo' : files'[k.path] # k.hash
            /\ (files'[k.path] = NoHash /\ PendingLoser(k.path, k.hash)' =>
                     \E s \in sources : s.path = k.path /\ s.hash = k.hash)
    <3> TAKE k \in losers \ todo'
    <3>1. CASE k.path = l.path
      BY <3>1, <1>b, ContentAssumption DEF PendingLoser, NoRow, Types, LogTypes
    <3>2. CASE k.path # l.path
      <4>1. k \in losers \ todo /\ k.path \in Path /\ k.path # q
        BY <3>2, <1>a DEF LoserFrame, Types, LogTypes
      <4>2. files'[k.path] = files[k.path] /\ (PendingLoser(k.path, k.hash)' => PendingLoser(k.path, k.hash))
        BY <4>1, <3>2, <1>b, <1>c DEF PendingLoser
      <4> QED  BY <4>1, <4>2 DEF Preserving, LoserFrame
    <3> QED  BY <3>1, <3>2
  <2>2. \A s \in sources : LoserSource(s)' /\ files'[s.to] = NoHash /\ s.to # s.path
    <3> TAKE s \in sources
    <3>1. LoserSource(s) /\ files[s.to] = NoHash /\ s.to # s.path /\ s.to \in Path
              /\ s.path \in Path
      BY DEF Preserving, LoserFrame, Types, PassTypes
    <3>2. s.to # q /\ s.to # l.path
      BY <3>1, <1>a DEF LoserSource
    <3>3. files'[s.to] = NoHash /\ rows'[s.to] = rows[s.to]
      BY <3>1, <3>2, <1>b
    <3>4. rows'[s.path].synced \in {s.hash, NoHash}
      BY <3>1, <1>b DEF LoserSource, NoRow
    <3> QED  BY <3>1, <3>3, <3>4, <1>c DEF LoserSource, Lost, Named
  <2> QED  BY <2>1, <2>2, <1>c DEF Preserving, OneTarget, LoserFrame
<1> QED  BY <1>1, <1>2, <1>3, <1>4, <1>5, <1>6, <1>7, <1>8

(* To be relocated: the object stays under the old path until then. *)
LEMMA LoserRelocatedKeeps ==
    ASSUME NEW l, NEW q, Types, Stored, NamesApart, Kept1, Kept2, Kept3, KeptS, Preserving,
           l \in losers, l.path \in Path, l.hash \in Content, l.hash # NoHash,
           l = [path |-> l.path, hash |-> l.hash],
           LoserFrame(l), LoserRelocated(l, q)
    PROVE  DiskTypes' /\ Stored' /\ NamesApart' /\ Kept1' /\ Kept2' /\ Kept3' /\ KeptS'
               /\ Preserving'
<1>a. /\ q \in Path /\ q # l.path
      /\ files[q] = NoHash /\ stubs[q] = NoStub /\ rows[q] = NoRow /\ remote[q] = Absent
      /\ ~Named(q) /\ \A k \in losers : k.path # q
      /\ \A s \in sources : s.to # q
  BY DEF LoserRelocated, Unused
<1>c. UNCHANGED <<files, rows, stubs, mode, aside, litter, remote, losers, objects, pc, view,
                  scan, plan, deltas, ops, cur, owed, gone>>
  BY DEF LoserFrame, LoserRelocated, log_vars
<1>1. DiskTypes'
  BY <1>c DEF Types, DiskTypes, NoRow
<1>2. Stored'
  <2>1. \A d : Known(d)' <=> Known(d)
    BY ObjectsStay, <1>c
  <2>2. \A s \in sources' : s \in sources \/ s.hash = l.hash
    BY DEF LoserRelocated
  <2> QED  BY <2>1, <2>2, <1>c DEF Stored
<1>3. NamesApart'
  BY <1>c DEF NamesApart, Foreign, Named
<1>4. Kept1' /\ Kept2' /\ Kept3'
  BY <1>c DEF Kept1, Kept2, Kept3, Apart, Foreign, Sits, Lost, PendingLoser
<1>5. KeptS'
  BY <1>c, KeptStays DEF disk, log_vars
<1>6. Preserving'
  <2>1. \A k \in losers \ todo' : files[k.path] # k.hash
            /\ (files[k.path] = NoHash /\ PendingLoser(k.path, k.hash)' =>
                     \E s \in sources' : s.path = k.path /\ s.hash = k.hash)
    <3> TAKE k \in losers \ todo'
    <3>1. CASE k = l
      <4> DEFINE new == [to |-> q, path |-> l.path, hash |-> l.hash]
      <4>1. new \in sources' /\ new.path = l.path /\ new.hash = l.hash
        BY DEF LoserRelocated
      <4> HIDE DEF new
      <4> QED  BY <4>1, <3>1 DEF LoserRelocated
    <3>2. CASE k # l
      <4>1. k \in losers \ todo
        BY <3>2 DEF LoserFrame
      <4> QED  BY <4>1, <1>c DEF Preserving, LoserFrame, LoserRelocated, PendingLoser
    <3> QED  BY <3>1, <3>2
  <2>2. \A s \in sources' : LoserSource(s)' /\ files[s.to] = NoHash /\ s.to # s.path
    <3> TAKE s \in sources'
    <3>1. CASE s \in sources
      BY <3>1, <1>c DEF Preserving, LoserFrame, LoserSource, Lost, Named
    <3>2. CASE s = [to |-> q, path |-> l.path, hash |-> l.hash]
      BY <3>2, <1>a, <1>c DEF LoserSource, Lost, Named, LoserRelocated, PendingLoser
    <3> QED  BY <3>1, <3>2 DEF LoserRelocated
  <2>3. OneTarget'
    BY <1>a DEF Preserving, OneTarget, LoserFrame, LoserRelocated
  <2> QED  BY <2>1, <2>2, <2>3, <1>c DEF Preserving
<1> QED  BY <1>1, <1>2, <1>3, <1>4, <1>5, <1>6

(* Passed over: there is another file, or nothing that waits. *)
LEMMA LoserPassedKeeps ==
    ASSUME NEW l, Types, Stored, NamesApart, Kept1, Kept2, Kept3, KeptS, Preserving,
           l \in losers, LoserFrame(l), LoserPassed(l)
    PROVE  DiskTypes' /\ Stored' /\ NamesApart' /\ Kept1' /\ Kept2' /\ Kept3' /\ KeptS'
               /\ Preserving'
<1>c. UNCHANGED <<files, rows, stubs, mode, aside, litter, remote, losers, objects, pc, view,
                  scan, plan, sources, deltas, ops, cur, owed, gone>>
  BY DEF LoserFrame, LoserPassed, log_vars
<1>1. DiskTypes'
  BY <1>c DEF Types, DiskTypes, NoRow
<1>2. Stored'
  <2>1. \A d : Known(d)' <=> Known(d)
    BY ObjectsStay, <1>c
  <2> QED  BY <2>1, <1>c DEF Stored
<1>3. NamesApart'
  BY <1>c DEF NamesApart, Foreign, Named
<1>4. Kept1' /\ Kept2' /\ Kept3'
  BY <1>c DEF Kept1, Kept2, Kept3, Apart, Foreign, Sits, Lost, PendingLoser
<1>5. KeptS'
  BY <1>c, KeptStays DEF disk, log_vars
<1>6. Preserving'
  <2>1. \A k \in losers \ todo' : files[k.path] # k.hash
            /\ (files[k.path] = NoHash /\ PendingLoser(k.path, k.hash)' =>
                     \E s \in sources : s.path = k.path /\ s.hash = k.hash)
    BY <1>c DEF Preserving, LoserFrame, LoserPassed, PendingLoser
  <2>2. \A s \in sources : LoserSource(s)' <=> LoserSource(s)
    BY <1>c DEF LoserSource, Lost, Named
  <2> QED  BY <2>1, <2>2, <1>c DEF Preserving, OneTarget, LoserFrame
<1> QED  BY <1>1, <1>2, <1>3, <1>4, <1>5, <1>6

(***************************************************************************)
(* What the engine's answer says of a path.                                *)
(***************************************************************************)
LEMMA PlaceholderKinds ==
    ASSUME NEW stub \in {"own", "moved"}, NEW synced, NEW evicted, NEW wants, NEW live, NEW there
    PROVE  LET k == placeholder_action(stub, synced, evicted, classify(there, synced), wants, live) IN
           /\ k \in {"None", "Relocate", "Hydrate", "UpdatePlaceholder", "DeleteLocal"}
           /\ k = "Relocate" <=> stub = "moved" /\ live
           /\ k \in {"Hydrate", "UpdatePlaceholder"} => stub = "own" /\ there # NoHash
           /\ k = "DeleteLocal" => stub = "own" /\ there = NoHash /\ synced # NoHash
<1> DEFINE ch == classify(there, synced)
           k == placeholder_action(stub, synced, evicted, ch, wants, live)
<1>1. CASE stub = "moved"
  <2>1. k = IF live THEN "Relocate" ELSE "None"
    BY <1>1 DEF placeholder_action
  <2> QED  BY <2>1, <1>1
<1>2. CASE stub = "own" /\ synced = NoHash
  <2>1. k = IF ch = "Created" THEN (IF wants THEN "Hydrate" ELSE "UpdatePlaceholder") ELSE "None"
    BY <1>2 DEF placeholder_action
  <2>2. ch = "Created" => there # NoHash
    BY <1>2 DEF classify
  <2> QED  BY <2>1, <2>2, <1>2
<1>3. CASE stub = "own" /\ synced # NoHash
  <2>1. CASE there = synced
    <3>1. ch = "Unchanged"
      BY <2>1 DEF classify
    <3>2. k = IF ~wants /\ evicted THEN "None" ELSE (IF wants THEN "Hydrate" ELSE "UpdatePlaceholder")
      BY <3>1, <1>3 DEF placeholder_action, Moved
    <3> QED  BY <3>2, <2>1, <1>3
  <2>2. CASE there # synced /\ there = NoHash
    <3>1. ch = "Deleted"
      BY <2>2 DEF classify
    <3>2. k = "DeleteLocal"
      BY <3>1, <1>3 DEF placeholder_action, Moved
    <3> QED  BY <3>2, <2>2, <1>3
  <2>3. CASE there # synced /\ there # NoHash
    <3>1. ch = "Modified"
      BY <2>3, <1>3 DEF classify
    <3>2. k = (IF wants THEN "Hydrate" ELSE "UpdatePlaceholder")
      BY <3>1, <1>3 DEF placeholder_action, Moved
    <3> QED  BY <3>2, <2>3, <1>3
  <2> QED  BY <2>1, <2>2, <2>3
<1> QED  BY <1>1, <1>2, <1>3

(* An evicted file without its placeholder was deleted here, or changed elsewhere. *)
LEMMA EvictedKinds ==
    ASSUME NEW synced, NEW there, synced # NoHash
    PROVE  LET k == evicted_action(classify(there, synced)) IN
           /\ k \in {"DeleteRemote", "Hydrate", "DeleteLocal"}
           /\ k = "DeleteRemote" <=> there = synced
           /\ k = "Hydrate" => there # NoHash
           /\ k = "DeleteLocal" => there = NoHash
<1> DEFINE ch == classify(there, synced)
           k == evicted_action(ch)
<1>1. CASE there = synced
  <2>1. ch = "Unchanged"
    BY <1>1 DEF classify
  <2> QED  BY <2>1, <1>1 DEF evicted_action, Moved
<1>2. CASE there # synced /\ there = NoHash
  <2>1. ch = "Deleted"
    BY <1>2 DEF classify
  <2>2. k = "DeleteLocal"
    BY <2>1 DEF evicted_action, Moved
  <2> QED  BY <2>2, <1>2
<1>3. CASE there # synced /\ there # NoHash
  <2>1. ch = "Modified"
    BY <1>3 DEF classify
  <2>2. k = "Hydrate"
    BY <2>1 DEF evicted_action, Moved
  <2> QED  BY <2>2, <1>3
<1> QED  BY <1>1, <1>2, <1>3

(* One fact for each kind, and which kind what cannot be missed gets. *)
KindFacts(k, here, synced, there, stub, evicted, live) ==
    /\ k \in ActionKind \cup {"None"}
    /\ k = "Upload" => here # NoHash /\ here # synced /\ there = synced
    /\ k = "Download" => /\ here = synced /\ there \notin {NoHash, synced}
                         /\ here = NoHash => stub = "none" /\ ~evicted
    /\ k \in {"Hydrate"} \cup StubKind => here = NoHash /\ there # NoHash /\ stub # "moved"
    /\ k = "Relocate" <=> here = NoHash /\ stub = "moved" /\ live
    /\ k = "DeleteLocal" => /\ there = NoHash /\ synced # NoHash /\ here \in {NoHash, synced}
                            /\ stub # "moved" \/ here # NoHash
    /\ k = "DeleteRemote" => here = NoHash /\ there = synced /\ synced # NoHash /\ stub = "none"
    /\ k = "Conflict" => \/ here # NoHash /\ here # synced
                         \/ here = NoHash /\ ~evicted /\ synced # NoHash
    /\ here = NoHash /\ stub = "none" /\ evicted /\ there = synced => k = "DeleteRemote"
    /\ here = NoHash /\ stub = "none" /\ ~evicted /\ synced = NoHash /\ there = NoHash
           => k = "None"

(* Without a placeholder. *)
LEMMA DecideKinds ==
    ASSUME NEW here, NEW synced, NEW there
    PROVE  LET k == decide(classify(here, synced), classify(there, synced), here, there) IN
           /\ k \in {"None", "Upload", "Download", "DeleteLocal", "DeleteRemote", "Conflict"}
           /\ k = "Upload" => here # NoHash /\ here # synced /\ there = synced
           /\ k = "Download" => here = synced /\ there \notin {NoHash, synced}
           /\ k = "DeleteLocal" => there = NoHash /\ synced # NoHash /\ here = synced
           /\ k = "DeleteRemote" => here = NoHash /\ there = synced /\ synced # NoHash
           /\ k = "Conflict" => \/ here # NoHash /\ here # synced
                                \/ here = NoHash /\ synced # NoHash
           /\ synced = NoHash /\ there = NoHash /\ here = NoHash => k = "None"
  BY DEF decide, classify, Row

(* The engine's answers satisfy KindFacts. *)
LEMMA EngineKinds ==
    ASSUME NEW v, v.stub \in {"none", "own", "moved"}, v.evicted \in BOOLEAN,
           v.sourceLive \in BOOLEAN,
           v.evicted => v.base # NoHash, v.sourceLive => v.stub = "moved"
    PROVE  KindFacts(reconcile_path(v), v.here, v.base, v.there, v.stub, v.evicted, v.sourceLive)
<1> DEFINE k == reconcile_path(v)
           ch == classify(v.there, v.base)
<1>1. CASE v.here # NoHash
  <2>1. k = decide(classify(v.here, v.base), ch, v.here, v.there)
    BY <1>1 DEF reconcile_path
  <2> HIDE DEF k, ch
  <2>2. /\ k \in {"None", "Upload", "Download", "DeleteLocal", "DeleteRemote", "Conflict"}
        /\ k = "Upload" => v.here # NoHash /\ v.here # v.base /\ v.there = v.base
        /\ k = "Download" => v.here = v.base /\ v.there \notin {NoHash, v.base}
        /\ k = "DeleteLocal" => v.there = NoHash /\ v.base # NoHash /\ v.here = v.base
        /\ k = "DeleteRemote" => v.here = NoHash /\ v.there = v.base /\ v.base # NoHash
        /\ k = "Conflict" => \/ v.here # NoHash /\ v.here # v.base
                             \/ v.here = NoHash /\ v.base # NoHash
    BY <2>1, DecideKinds DEF ch
  <2> QED  BY <1>1, <2>2 DEF KindFacts, ActionKind, TransferKind, LateKind, StubKind, k
<1>2. CASE v.here = NoHash /\ v.stub # "none"
  <2>1. k = placeholder_action(v.stub, v.base, v.evicted, ch, v.wantsLocal, v.sourceLive)
    BY <1>2 DEF reconcile_path
  <2> HIDE DEF k, ch
  <2>2. /\ k \in {"None", "Relocate", "Hydrate", "UpdatePlaceholder", "DeleteLocal"}
        /\ k = "Relocate" <=> v.stub = "moved" /\ v.sourceLive
        /\ k \in {"Hydrate", "UpdatePlaceholder"} => v.stub = "own" /\ v.there # NoHash
        /\ k = "DeleteLocal" => v.stub = "own" /\ v.there = NoHash /\ v.base # NoHash
    BY <1>2, <2>1, PlaceholderKinds DEF ch
  <2> QED  BY <1>2, <2>2 DEF KindFacts, ActionKind, TransferKind, LateKind, StubKind, k
<1>3. CASE v.here = NoHash /\ v.stub = "none" /\ v.evicted
  <2>1. k = evicted_action(ch)
    BY <1>3 DEF reconcile_path
  <2> HIDE DEF k, ch
  <2>2. /\ k \in {"DeleteRemote", "Hydrate", "DeleteLocal"}
        /\ k = "DeleteRemote" <=> v.there = v.base
        /\ k = "Hydrate" => v.there # NoHash
        /\ k = "DeleteLocal" => v.there = NoHash
    BY <1>3, <2>1, EvictedKinds DEF ch
  <2> QED  BY <1>3, <2>2 DEF KindFacts, ActionKind, TransferKind, LateKind, StubKind, k
<1>4. CASE v.here = NoHash /\ v.stub = "none" /\ ~v.evicted
  <2> DEFINE d == decide(classify(NoHash, v.base), ch, NoHash, v.there)
  <2>1. k = IF d = "Download" /\ v.onlineOnly THEN "CreatePlaceholder" ELSE d
    BY <1>4 DEF reconcile_path
  <2> HIDE DEF k, d, ch
  <2>2. /\ d \in {"None", "Upload", "Download", "DeleteLocal", "DeleteRemote", "Conflict"}
        /\ d # "Upload"
        /\ d = "Download" => NoHash = v.base /\ v.there \notin {NoHash, v.base}
        /\ d # "DeleteLocal"
        /\ d = "DeleteRemote" => v.there = v.base /\ v.base # NoHash
        /\ d = "Conflict" => v.base # NoHash
        /\ v.base = NoHash /\ v.there = NoHash => d = "None"
    BY DecideKinds DEF ch, d
  <2> QED  BY <1>4, <2>1, <2>2 DEF KindFacts, ActionKind, TransferKind, LateKind, StubKind, k
<1> QED  BY <1>1, <1>2, <1>3, <1>4

(***************************************************************************)
(* A plan, by the kind of every path.                                      *)
(***************************************************************************)
(* A path with a loser to relocate gets a placeholder instead of the file. *)
Advance(p, k) == IF k = "Hydrate" /\ \E s \in sources : s.path = p THEN "UpdatePlaceholder" ELSE k
LiveSource(p) == StubKindOf(p, Unstale) = "moved" /\ view[stubs[p].of] # Absent
KindOf(p, k) ==
    KindFacts(k, files[p], rows[p].synced, view[p].hash, StubKindOf(p, Unstale),
              rows[p].evicted, LiveSource(p))

PlanFrame ==
    /\ pc = "preserve" /\ todo = {} /\ scan' = files /\ stubs' = Unstale /\ pc' = "apply"
    /\ UNCHANGED <<files, rows, mode, aside, litter, log_vars, objects, view, todo, pinned, arrived,
                   deltas, ops, cur, edits, peerEdits, faults, owed, gone>>

(* kind is the engine's answer for every path: the plan has its actions, and the
   moved placeholders and losers are the sources. *)
PlanMade(kind) ==
    /\ kind \in [Path -> ActionKind \cup {"None"}]
    /\ \A p \in Path : KindOf(p, kind[p])
    /\ \A s : s \in sources' <=>
           \/ s \in sources
           \/ \E p \in Path : kind[p] = "Relocate"
                  /\ s = [to |-> p, path |-> stubs[p].of, hash |-> view[stubs[p].of].hash]
    /\ \A a : a \in plan' <=>
           \/ \E p \in Path : kind[p] # "None" /\ a = [path |-> p, kind |-> Advance(p, kind[p])]
           \/ \E s \in sources : a = [path |-> s.to, kind |-> "Relocate"]

(* KindAt asks the engine. *)
LEMMA KindAtFacts ==
    ASSUME NEW p \in Path, NEW hydrate, Types
    PROVE  KindOf(p, KindAt(p, Unstale, hydrate))
<1> DEFINE v == [here |-> files[p], base |-> rows[p].synced, there |-> view[p].hash,
        stub |-> StubKindOf(p, Unstale), evicted |-> rows[p].evicted,
        wantsLocal |-> p \in hydrate \/ mode[p] = "local",
        onlineOnly |-> arrives_online_only(p),
        sourceLive |-> StubKindOf(p, Unstale) = "moved" /\ view[Unstale[p].of] # Absent]
<1>1. KindAt(p, Unstale, hydrate) = reconcile_path(v)
  BY DEF KindAt
<1>2. /\ v.here = files[p] /\ v.base = rows[p].synced /\ v.there = view[p].hash
      /\ v.stub = StubKindOf(p, Unstale) /\ v.evicted = rows[p].evicted
      /\ v.sourceLive = (StubKindOf(p, Unstale) = "moved" /\ view[Unstale[p].of] # Absent)
  OBVIOUS
<1> HIDE DEF v
<1>3. StubKindOf(p, Unstale) \in {"none", "own", "moved"}
  BY DEF StubKindOf
<1>4. rows[p].evicted \in BOOLEAN /\ (rows[p].evicted => rows[p].synced # NoHash)
  BY DEF Types, DiskTypes
<1>5. StubKindOf(p, Unstale) = "moved" => Unstale[p] = stubs[p]
  BY DEF StubKindOf, Unstale
<1>6. v.sourceLive = LiveSource(p)
  BY <1>2, <1>5 DEF LiveSource
<1>7. KindFacts(reconcile_path(v), v.here, v.base, v.there, v.stub, v.evicted, v.sourceLive)
  <2>1. v.sourceLive \in BOOLEAN /\ (v.sourceLive => v.stub = "moved")
    BY <1>2
  <2>2. v.stub \in {"none", "own", "moved"}
    BY <1>2, <1>3
  <2>3. v.evicted \in BOOLEAN /\ (v.evicted => v.base # NoHash)
    BY <1>2, <1>4
  <2>4. \A w : /\ w.stub \in {"none", "own", "moved"}
               /\ w.evicted \in BOOLEAN /\ w.sourceLive \in BOOLEAN
               /\ w.evicted => w.base # NoHash
               /\ w.sourceLive => w.stub = "moved"
               => KindFacts(reconcile_path(w), w.here, w.base, w.there, w.stub, w.evicted, w.sourceLive)
    BY EngineKinds
  <2> QED  BY <2>1, <2>2, <2>3, <2>4
<1> QED  BY <1>1, <1>2, <1>6, <1>7 DEF KindOf

(* PlanPass makes such a plan. *)
LEMMA PlanPassMade ==
    ASSUME Types, PlanPass
    PROVE  PlanFrame /\ \E kind : PlanMade(kind)
<1>1. PlanFrame
  BY DEF PlanPass, PlanFrame
<1>2. PICK hydrate :
          LET kind(p) == KindAt(p, Unstale, hydrate) IN
             /\ sources' = sources \cup
                    {[to |-> p, path |-> stubs[p].of, hash |-> view[stubs[p].of].hash] :
                        p \in {q \in Path : kind(q) = "Relocate"}}
             /\ plan' = {[path |-> p, kind |-> ForLoser(p, kind(p))] :
                            p \in {q \in Path : kind(q) # "None"}}
                        \cup {[path |-> s.to, kind |-> "Relocate"] : s \in sources}
  BY DEF PlanPass
<1> DEFINE f == [p \in Path |-> KindAt(p, Unstale, hydrate)]
<1>3. \A p \in Path : f[p] = KindAt(p, Unstale, hydrate) /\ KindOf(p, f[p])
  BY KindAtFacts
<1>4. f \in [Path -> ActionKind \cup {"None"}]
  BY <1>3 DEF KindOf, KindFacts
<1>5. \A p \in Path : \A k : ForLoser(p, k) = Advance(p, k)
  BY DEF ForLoser, Advance
<1>6. sources' = sources \cup
                    {[to |-> p, path |-> stubs[p].of, hash |-> view[stubs[p].of].hash] :
                        p \in {q \in Path : f[q] = "Relocate"}}
  BY <1>2, <1>3
<1>7. plan' = {[path |-> p, kind |-> Advance(p, f[p])] :
                            p \in {q \in Path : f[q] # "None"}}
                        \cup {[path |-> s.to, kind |-> "Relocate"] : s \in sources}
  BY <1>2, <1>3, <1>5
<1> HIDE DEF f
<1>8. PlanMade(f)
  BY <1>3, <1>4, <1>6, <1>7 DEF PlanMade
<1> QED  BY <1>1, <1>8

(* The scan drops placeholders of their own paths only, where there is a file. *)
LEMMA UnstaleFacts ==
    ASSUME Types, NamesApart, stubs' = Unstale, files' = files
    PROVE  /\ \A p \in Path : stubs'[p] = stubs[p]
                  \/ (stubs'[p] = NoStub /\ files[p] # NoHash /\ stubs[p].of = p)
           /\ \A p \in Path : files[p] # NoHash => stubs'[p].of # p
           /\ \A p \in Path : Foreign(p)' <=> Foreign(p)
           /\ \A p \in Path : Named(p)' <=> Named(p)
           /\ \A p \in Path : Foreign(p) => stubs'[p] = stubs[p]
           /\ stubs' \in [Path -> [of : Path \cup {NoPath}, hash : Hash]]
           /\ \A p \in Path : (StubKindOf(p, Unstale) = "moved" <=> Foreign(p))
                  /\ (StubKindOf(p, Unstale) = "none" <=> stubs'[p] = NoStub)
<1>1. \A p \in Path : stubs'[p] = IF files[p] # NoHash
          /\ stubs[p].of = p THEN NoStub ELSE stubs[p]
  BY DEF Unstale
<1>2. stubs' \in [Path -> [of : Path \cup {NoPath}, hash : Hash]]
  BY DEF Unstale, Types, DiskTypes, NoStub, Hash
<1>3. \A p \in Path : p # NoPath
  BY PathAssumption
<1>4. \A p \in Path : Foreign(p)' <=> Foreign(p)
  BY <1>1, <1>3 DEF Foreign, NoStub
<1>5. \A p \in Path : Named(p)' <=> Named(p)
  BY <1>1, <1>3 DEF Named, NoStub
<1>6. \A p \in Path : (StubKindOf(p, Unstale) = "moved" <=> Foreign(p))
          /\ (StubKindOf(p, Unstale) = "none" <=> stubs'[p] = NoStub)
  <2>1. \A p \in Path : Unstale[p] = stubs'[p]
    OBVIOUS
  <2>2. \A p \in Path : stubs'[p].of = NoPath => stubs'[p] = NoStub
    BY <1>1 DEF Types, DiskTypes, NoStub
  <2>3. \A p \in Path : Foreign(p)' <=> stubs'[p] # NoStub /\ stubs'[p].of # p
    BY <2>2 DEF Foreign, NoStub
  <2> QED  BY <2>1, <2>3, <1>4 DEF StubKindOf
<1> QED  BY <1>1, <1>2, <1>3, <1>4, <1>5, <1>6 DEF Foreign, NoStub

(* Planning loses nothing: the placeholders it drops stand beside a file. *)
LEMMA PlanPassBase ==
    ASSUME Types, Stages, Stored, NamesApart, Views, Kept1, Kept2, Kept3, KeptS, PlanFrame
    PROVE  DiskTypes' /\ LogTypes' /\ NamesApart' /\ Views' /\ Kept1' /\ Kept2' /\ Kept3'
               /\ KeptS'
<1>1. /\ \A p \in Path : stubs'[p] = stubs[p] \/ (stubs'[p] = NoStub /\ files[p] # NoHash /\ stubs[p].of = p)
      /\ \A p \in Path : Foreign(p)' <=> Foreign(p)
      /\ \A p \in Path : Named(p)' <=> Named(p)
      /\ \A p \in Path : Foreign(p) => stubs'[p] = stubs[p]
      /\ stubs' \in [Path -> [of : Path \cup {NoPath}, hash : Hash]]
  BY UnstaleFacts DEF PlanFrame
<1>c. UNCHANGED <<files, rows, mode, aside, litter, remote, losers, objects, view, deltas, owed,
                  gone>>
  BY DEF PlanFrame, log_vars
<1>2. DiskTypes'
  BY <1>1, <1>c DEF PlanFrame, Types, DiskTypes, NoStub
<1>3. LogTypes'
  <2>1. ObjHash' = ObjHash
    BY <1>c, ObjectsStay
  <2> QED  BY <2>1, <1>c DEF Types, LogTypes
<1>4. NamesApart'
  BY <1>1, <1>c, PathAssumption DEF NamesApart, NoStub, Foreign
<1>5. Views'
  BY <1>c DEF PlanFrame, Views, Stages
<1>6. Kept1'
  BY <1>1, <1>c DEF Kept1, Apart, Sits, Lost
<1>7. Kept2' /\ Kept3'
  BY <1>c DEF Kept2, Kept3, Lost, PendingLoser
<1>8. KeptS'
  <2>1. \A r \in Path : \A d : Health(r, d)' = Health(r, d)
    BY ObjectsStay, <1>c
  <2>2. \A d : OnDisk(d)' <=> OnDisk(d)
    BY <1>c DEF OnDisk, Contents
  <2>3. \A r \in Path : \A d : Live(r, d) => Live(r, d)'
    BY <1>1, <1>c DEF Live
  <2>4. \A r \in Path : \A d : Waits(r, d) => Waits(r, d)'
    BY <1>1, <1>c DEF Waits, PendingLoser
  <2> QED  BY <1>c, <2>1, <2>2, <2>3, <2>4 DEF KeptS, Held, Types, LogTypes
<1> QED  BY <1>2, <1>3, <1>4, <1>5, <1>6, <1>7, <1>8

(* The plan is well formed, and what it names was uploaded. *)
LEMMA PlanPassTypes ==
    ASSUME NEW kind, Types, Stages, Stored, Views, PlanFrame, PlanMade(kind)
    PROVE  PassTypes' /\ Stages' /\ Stored'
<1>1. \A s \in sources' : s \in [to : Path, path : Path, hash : Content] /\ Known(s.hash)
  <2> TAKE s \in sources'
  <2>1. CASE s \in sources
    BY <2>1 DEF Types, PassTypes, Stored
  <2>2. ASSUME NEW p \in Path, kind[p] = "Relocate",
               s = [to |-> p, path |-> stubs[p].of, hash |-> view[stubs[p].of].hash]
        PROVE  s \in [to : Path, path : Path, hash : Content] /\ Known(s.hash)
    <3>1. StubKindOf(p, Unstale) = "moved" /\ view[stubs[p].of] # Absent
      BY <2>2 DEF PlanMade, KindOf, KindFacts, LiveSource
    <3>2. stubs[p].of \in Path
      BY <3>1 DEF StubKindOf, Unstale, NoStub, Types, DiskTypes
    <3>3. view[stubs[p].of].hash \in Content /\ Known(view[stubs[p].of].hash)
      BY <3>1, <3>2 DEF Types, LogTypes, Hash, Stored
    <3> QED  BY <2>2, <3>2, <3>3
  <2> QED  BY <2>1, <2>2 DEF PlanMade
<1>2. \A a \in plan' : a \in [path : Path, kind : ActionKind]
  <2> TAKE a \in plan'
  <2>1. ASSUME NEW p \in Path, kind[p] # "None", a = [path |-> p, kind |-> Advance(p, kind[p])]
        PROVE  a \in [path : Path, kind : ActionKind]
    BY <2>1 DEF PlanMade, Advance, ActionKind, LateKind, StubKind, TransferKind
  <2>2. ASSUME NEW s \in sources, a = [path |-> s.to, kind |-> "Relocate"]
        PROVE  a \in [path : Path, kind : ActionKind]
    BY <2>2 DEF Types, PassTypes, ActionKind, TransferKind
  <2> QED  BY <2>1, <2>2 DEF PlanMade
<1>3. PassTypes'
  BY <1>1, <1>2 DEF PlanFrame, Types, PassTypes, Pcs
<1>4. Stages'
  BY DEF PlanFrame, Stages, Underway, Evicting
<1>5. Stored'
  <2>1. \A d : Known(d)' <=> Known(d)
    BY ObjectsStay DEF PlanFrame
  <2>2. \A p \in Path : Known(stubs'[p].hash)
    BY DEF PlanFrame, Unstale, Stored, Known, NoStub
  <2> QED  BY <1>1, <2>1, <2>2 DEF Stored, PlanFrame, log_vars
<1> QED  BY <1>3, <1>4, <1>5

(* The sources of a plan. *)
LEMMA PlanSources ==
    ASSUME NEW kind, Types, Stages, NamesApart, Views, Kept3, Preserving, PlanFrame,
           PlanMade(kind)
    PROVE  /\ \A s \in sources : s \in sources' /\ LoserSource(s) /\ LoserSource(s)'
                  /\ kind[s.to] = "None"
           /\ \A s \in sources' : s.to \in Path /\ s.path \in Path /\ files[s.to] = NoHash
                  /\ s.to # s.path
           /\ \A s \in sources' : s \in sources
                  \/ (MovedSource(s)' /\ Foreign(s.to) /\ kind[s.to] = "Relocate"
                       /\ s.hash = remote[s.path].hash)
           /\ \A p \in Path : Foreign(p) /\ view[stubs[p].of] # Absent => kind[p] = "Relocate"
           /\ \A p \in Path : kind[p] = "Relocate" => Foreign(p)
           /\ \A p \in Path : kind[p] = "Relocate"
                  => \E s \in sources' : s.to = p /\ s.path = stubs[p].of
                      /\ s.hash = view[stubs[p].of].hash
           /\ OneTarget'
           /\ \A p \in Path, c \in owed : PendingLoser(p, c)
                  => files[p] = NoHash /\ \E s \in sources : s.path = p /\ s.hash = c
<1>1. /\ \A p \in Path : stubs'[p] = stubs[p] \/ (stubs'[p] = NoStub /\ files[p] # NoHash /\ stubs[p].of = p)
      /\ \A p \in Path : Named(p)' <=> Named(p)
      /\ \A p \in Path : Foreign(p) => stubs'[p] = stubs[p]
      /\ \A p \in Path : (StubKindOf(p, Unstale) = "moved" <=> Foreign(p))
             /\ (StubKindOf(p, Unstale) = "none" <=> stubs'[p] = NoStub)
  BY UnstaleFacts DEF PlanFrame
<1>c. UNCHANGED <<files, rows, mode, aside, litter, remote, losers, objects, view, deltas, owed,
                  gone>> /\ view = remote
  <2>1. \A p \in Path : view[p] = remote[p]
    BY DEF PlanFrame, Views
  <2>2. view = remote
    BY <2>1 DEF Types, LogTypes
  <2> QED  BY <2>2 DEF PlanFrame, log_vars
<1>2. \A s \in sources : s.to \in Path /\ s.path \in Path /\ LoserSource(s)
          /\ files[s.to] = NoHash /\ s.to # s.path
  BY DEF PlanFrame, Preserving, Types, PassTypes
<1>3. \A s \in sources : s \in sources' /\ LoserSource(s)'
  <2> TAKE s \in sources
  <2>1. s \in sources'
    BY DEF PlanMade
  <2>2. stubs'[s.to] = NoStub
    BY <1>1, <1>2 DEF LoserSource
  <2> QED  BY <2>1, <2>2, <1>1, <1>2, <1>c DEF LoserSource, Lost
<1>4. \A s \in sources : kind[s.to] = "None"
  <2> TAKE s \in sources
  <2>1. stubs'[s.to] = NoStub /\ rows[s.to] = NoRow /\ view[s.to] = Absent /\ files[s.to] = NoHash
    BY <1>1, <1>2, <1>c DEF LoserSource
  <2>2. KindOf(s.to, kind[s.to])
    BY <1>2 DEF PlanMade
  <2> QED  BY <2>1, <2>2, <1>1, <1>2 DEF KindOf, KindFacts, NoRow, Absent
<1>5. \A p \in Path : kind[p] = "Relocate" <=> Foreign(p) /\ view[stubs[p].of] # Absent
  <2> TAKE p \in Path
  <2>1. KindOf(p, kind[p])
    BY DEF PlanMade
  <2>2. kind[p] = "Relocate" <=> files[p] = NoHash /\ Foreign(p) /\ view[stubs[p].of] # Absent
    BY <2>1, <1>1 DEF KindOf, KindFacts, LiveSource
  <2> QED  BY <2>2 DEF NamesApart
<1>6. \A p \in Path : kind[p] = "Relocate" => \E s \in sources' : s.to = p /\ s.path = stubs[p].of
          /\ s.hash = view[stubs[p].of].hash
  <2> SUFFICES ASSUME NEW p \in Path, kind[p] = "Relocate"
      PROVE  \E s \in sources' : s.to = p /\ s.path = stubs[p].of
                 /\ s.hash = view[stubs[p].of].hash
    OBVIOUS
  <2>1. [to |-> p, path |-> stubs[p].of, hash |-> view[stubs[p].of].hash] \in sources'
    BY DEF PlanMade
  <2> QED  BY <2>1
<1>7. \A s \in sources' : s \in sources \/ /\ MovedSource(s)' /\ Foreign(s.to)
                                           /\ kind[s.to] = "Relocate" /\ s.hash = remote[s.path].hash
                                           /\ s.to \in Path /\ s.path \in Path
                                                  /\ files[s.to] = NoHash /\ s.to # s.path
                                           /\ s = [to |-> s.to, path |-> stubs[s.to].of, hash |-> view[stubs[s.to].of].hash]
  <2> SUFFICES ASSUME NEW p \in Path, kind[p] = "Relocate", NEW s,
                      s = [to |-> p, path |-> stubs[p].of, hash |-> view[stubs[p].of].hash]
      PROVE  /\ MovedSource(s)' /\ Foreign(s.to) /\ kind[s.to] = "Relocate"
                    /\ s.hash = remote[s.path].hash
             /\ s.to \in Path /\ s.path \in Path /\ files[s.to] = NoHash /\ s.to # s.path
             /\ s = [to |-> s.to, path |-> stubs[s.to].of, hash |-> view[stubs[s.to].of].hash]
    BY DEF PlanMade
  <2>1. Foreign(p) /\ stubs'[p] = stubs[p]
    BY <1>1, <1>5
  <2>2. stubs[p].of \in Path /\ stubs[p].of # p
    BY <2>1 DEF Foreign, Types, DiskTypes
  <2>3. files[p] = NoHash
    BY <2>1 DEF NamesApart
  <2> QED  BY <2>1, <2>2, <2>3, <1>c DEF MovedSource
<1>8. OneTarget'
  <2> SUFFICES ASSUME NEW s \in sources', NEW t \in sources', s.to = t.to PROVE s = t
    BY DEF OneTarget
  <2>1. CASE s \in sources /\ t \in sources
    BY <2>1 DEF PlanFrame, Preserving, OneTarget
  <2>2. CASE s \notin sources /\ t \notin sources
    BY <2>2, <1>7
  <2> QED  BY <2>1, <2>2, <1>4, <1>7
<1>9. \A p \in Path, c \in owed : PendingLoser(p, c)
          => files[p] = NoHash /\ \E s \in sources : s.path = p /\ s.hash = c
  <2> SUFFICES ASSUME NEW p \in Path, NEW c \in owed, PendingLoser(p, c)
      PROVE  files[p] = NoHash /\ \E s \in sources : s.path = p /\ s.hash = c
    OBVIOUS
  <2> DEFINE l == [path |-> p, hash |-> c]
  <2>1. l \in losers \ todo /\ l.path = p /\ l.hash = c
    BY DEF PendingLoser, PlanFrame
  <2> HIDE DEF l
  <2>2. files[p] \in {NoHash, c}
    BY DEF Kept3
  <2>3. /\ files[l.path] # l.hash
        /\ files[l.path] = NoHash /\ PendingLoser(l.path, l.hash) =>
               \E s \in sources : s.path = l.path /\ s.hash = l.hash
    BY <2>1 DEF Preserving, PlanFrame
  <2> QED  BY <2>1, <2>2, <2>3
<1> QED  BY <1>2, <1>3, <1>4, <1>5, <1>6, <1>7, <1>8, <1>9

(* Every action of the plan is justified at its path. *)
LEMMA PlanPassPlan1 ==
    ASSUME NEW kind, Types, Stages, NamesApart, Views, Kept1, Kept3, Preserving, PlanFrame,
           PlanMade(kind)
    PROVE  Plan1'
<1>a. /\ \A s \in sources : s \in sources' /\ LoserSource(s)' /\ kind[s.to] = "None"
      /\ \A s \in sources' : s.to \in Path /\ s.path \in Path
      /\ \A s \in sources' : s \in sources \/ (MovedSource(s)' /\ Foreign(s.to))
      /\ \A p \in Path : Foreign(p) /\ view[stubs[p].of] # Absent => kind[p] = "Relocate"
      /\ \A p \in Path : kind[p] = "Relocate" => Foreign(p)
      /\ \A p \in Path : kind[p] = "Relocate" => \E s \in sources' : s.to = p
             /\ s.path = stubs[p].of /\ s.hash = view[stubs[p].of].hash
      /\ \A p \in Path, c \in owed : PendingLoser(p, c)
             => files[p] = NoHash /\ \E s \in sources : s.path = p /\ s.hash = c
  BY PlanSources
<1>b. /\ \A p \in Path : files[p] # NoHash => stubs'[p].of # p
      /\ \A p \in Path : stubs'[p] = stubs[p] \/ (stubs'[p] = NoStub /\ files[p] # NoHash /\ stubs[p].of = p)
      /\ \A p \in Path : Foreign(p)' <=> Foreign(p)
      /\ \A p \in Path : Foreign(p) => stubs'[p] = stubs[p]
      /\ \A p \in Path : (StubKindOf(p, Unstale) = "moved" <=> Foreign(p))
             /\ (StubKindOf(p, Unstale) = "none" <=> stubs'[p] = NoStub)
  BY UnstaleFacts DEF PlanFrame
<1>c. UNCHANGED <<files, rows, mode, aside, litter, remote, losers, objects, view, deltas,
                  arrived, owed, gone>>
  BY DEF PlanFrame, log_vars
<1>d. \A p \in Path : view[p] = remote[p]
  BY DEF PlanFrame, Views
<1>1. \A p \in Path : \A k : kind[p] # "None" /\ k = Advance(p, kind[p]) => PlanOK(p, k)'
  <2> SUFFICES ASSUME NEW p \in Path, NEW k, kind[p] # "None",
                      k = Advance(p, kind[p]) PROVE PlanOK(p, k)'
    OBVIOUS
  <2>1. KindFacts(kind[p], files[p], rows[p].synced, view[p].hash,
                 StubKindOf(p, Unstale), rows[p].evicted, LiveSource(p))
    BY DEF PlanMade, KindOf
  <2>2. CASE kind[p] = "Upload"
    BY <2>1, <2>2, <1>c DEF KindFacts, PlanOK, Advance, StubKind
  <2>3. CASE kind[p] = "Download"
    <3>1. files[p] # NoHash => ~Foreign(p)
      BY DEF NamesApart
    <3>2. ~Foreign(p)' /\ stubs'[p].of # p
      BY <2>1, <2>3, <3>1, <1>b, PathAssumption DEF KindFacts, NoStub
    <3> QED  BY <2>1, <2>3, <3>2, <1>c DEF KindFacts, PlanOK, Advance, StubKind
  <2>4. CASE kind[p] = "Hydrate" /\ Advance(p, kind[p]) = "Hydrate"
    <3>1. \A s \in sources' : s.path = p => stubs'[s.to] # NoStub
      <4> SUFFICES ASSUME NEW s \in sources', s.path = p PROVE stubs'[s.to] # NoStub
        OBVIOUS
      <4>1. s \notin sources
        BY <2>4 DEF Advance
      <4>2. Foreign(s.to) /\ s.to \in Path
        BY <4>1, <1>a
      <4> QED  BY <4>2, <1>b DEF Foreign, NoStub
    <3>2. ~Foreign(p)'
      BY <2>1, <2>4, <1>b DEF KindFacts
    <3> QED  BY <2>1, <2>4, <3>1, <3>2, <1>c DEF KindFacts, PlanOK, NoLoserAt, StubKind
  <2>5. CASE (kind[p] = "Hydrate" /\ Advance(p, kind[p]) = "UpdatePlaceholder")
            \/ kind[p] \in StubKind
    <3>1. Advance(p, kind[p]) \in StubKind
      BY <2>5 DEF Advance, StubKind
    <3>2. ~Foreign(p)'
      BY <2>1, <2>5, <1>b DEF KindFacts
    <3> QED  BY <2>1, <2>5, <3>1, <3>2, <1>c DEF KindFacts, PlanOK, StubKind
  <2>6. CASE kind[p] = "Relocate"
    BY <2>6, <1>a DEF PlanOK, Advance, StubKind
  <2>7. CASE kind[p] = "DeleteLocal"
    <3>1. files[p] # NoHash => ~Foreign(p)
      BY DEF NamesApart
    <3>2. ~Foreign(p)'
      BY <2>1, <2>7, <3>1, <1>b DEF KindFacts
    <3> QED  BY <2>1, <2>7, <3>2, <1>c DEF KindFacts, PlanOK, Advance, StubKind
  <2>8. CASE kind[p] = "DeleteRemote"
    <3>1. /\ files[p] = NoHash /\ view[p].hash = rows[p].synced /\ rows[p].synced # NoHash
                 /\ stubs'[p] = NoStub
      BY <2>1, <2>8, <1>b DEF KindFacts
    <3>2. stubs[p] = NoStub
      BY <3>1, <1>b
    <3>3. view[p].hash \in owed => \E s \in sources' : s.path = p /\ s.hash = view[p].hash
      <4> SUFFICES ASSUME view[p].hash \in owed PROVE \E s \in sources' : s.path = p
                          /\ s.hash = view[p].hash
        OBVIOUS
      <4>1. Apart(p) /\ ~Foreign(p)
        BY <3>1, <3>2, <1>d DEF Apart, Foreign, NoStub
      <4>2. /\ rows[p].evicted
            /\ (\E q \in Path : Sits(q, p, remote[p].hash)) \/ Lost(p, remote[p].hash)
        BY <4>1 DEF Kept1
      <4>3. CASE Lost(p, remote[p].hash)
        <5>1. PendingLoser(p, view[p].hash)
          BY <3>1, <4>2, <4>3, <1>d DEF PendingLoser, Lost
        <5> QED  BY <5>1, <1>a
      <4>4. ASSUME NEW q \in Path, Sits(q, p, remote[p].hash) PROVE \E s \in sources' : s.path = p
                   /\ s.hash = view[p].hash
        <5>1. stubs[q].of = p /\ q # p
          BY <4>4, <3>2, PathAssumption DEF Sits, NoStub
        <5>2. Foreign(q)
          BY <5>1, PathAssumption DEF Foreign
        <5>3. view[stubs[q].of] # Absent
          BY <5>1, <3>1 DEF Absent
        <5> QED  BY <5>1, <5>2, <5>3, <1>a
      <4> QED  BY <4>2, <4>3, <4>4
    <3> QED  BY <3>1, <3>3, <2>8, <1>c DEF PlanOK, Advance, StubKind
  <2>9. CASE kind[p] = "Conflict"
    BY <2>1, <2>9, <1>c DEF KindFacts, PlanOK, Advance, StubKind
  <2>10. kind[p] \in ActionKind /\ (kind[p] = "Hydrate" =>
          Advance(p, kind[p]) \in {"Hydrate", "UpdatePlaceholder"})
    BY <2>1 DEF KindFacts, Advance
  <2> QED  BY <2>2, <2>3, <2>4, <2>5, <2>6, <2>7, <2>8, <2>9, <2>10
              DEF ActionKind, TransferKind, LateKind
<1>2. \A s \in sources : PlanOK(s.to, "Relocate")'
  BY <1>a DEF PlanOK, StubKind
<1>3. \A a \in plan' : PlanOK(a.path, a.kind)'
  <2> TAKE a \in plan'
  <2>1. ASSUME NEW p \in Path, kind[p] # "None", a = [path |-> p, kind |-> Advance(p, kind[p])]
        PROVE  PlanOK(a.path, a.kind)'
    <3>1. a.path = p /\ a.kind = Advance(p, kind[p])
      BY <2>1
    <3> QED  BY <3>1, <2>1, <1>1
  <2>2. ASSUME NEW s \in sources, a = [path |-> s.to, kind |-> "Relocate"]
        PROVE  PlanOK(a.path, a.kind)'
    BY <2>2, <1>2
  <2> QED  BY <2>1, <2>2 DEF PlanMade
<1>4. \A a, b \in plan' : a.path = b.path => a = b
  BY <1>a DEF PlanMade
<1>5. arrived' = {} /\ deltas' = {}
  BY DEF PlanFrame, Stages
<1> QED  BY <1>3, <1>4, <1>5, <1>b, <1>c DEF Plan1, PlanFrame

(* Every source has its relocation, and every pending loser a source. *)
LEMMA PlanPassPlan2 ==
    ASSUME NEW kind, Types, Stages, NamesApart, Views, Kept1, Kept3, Preserving, PlanFrame,
           PlanMade(kind)
    PROVE  Plan2'
<1>a. /\ \A s \in sources : s \in sources' /\ LoserSource(s)' /\ kind[s.to] = "None"
      /\ \A s \in sources' : s.to \in Path /\ s.path \in Path /\ s.to # s.path
      /\ \A s \in sources' : s \in sources \/ (MovedSource(s)' /\ Foreign(s.to) /\ kind[s.to] = "Relocate")
      /\ \A p \in Path, c \in owed : PendingLoser(p, c)
             => files[p] = NoHash /\ \E s \in sources : s.path = p /\ s.hash = c
  BY PlanSources
<1>b. /\ \A p \in Path : stubs'[p] = stubs[p] \/ (stubs'[p] = NoStub /\ files[p] # NoHash /\ stubs[p].of = p)
      /\ \A p \in Path : Foreign(p) => stubs'[p] = stubs[p]
      /\ \A p \in Path : (StubKindOf(p, Unstale) = "moved" <=> Foreign(p))
             /\ (StubKindOf(p, Unstale) = "none" <=> stubs'[p] = NoStub)
  BY UnstaleFacts DEF PlanFrame
<1>c. UNCHANGED <<files, rows, mode, aside, litter, remote, losers, objects, view, deltas,
                  arrived, owed, gone>>
  BY DEF PlanFrame, log_vars
<1>d. \A p \in Path : view[p] = remote[p]
  BY DEF PlanFrame, Views
<1>1. \A s \in sources' : [path |-> s.to, kind |-> "Relocate"] \in plan'
  <2> TAKE s \in sources'
  <2>1. CASE s \in sources
    BY <2>1 DEF PlanMade
  <2>2. CASE kind[s.to] = "Relocate"
    BY <2>2, <1>a DEF PlanMade, Advance
  <2> QED  BY <2>1, <2>2, <1>a
<1>2. \A p \in Path, c \in owed : PendingLoser(p, c)'
          => \E s \in sources' : s.path = p /\ s.hash = c /\ stubs'[s.to] = NoStub
  BY <1>a, <1>c DEF PendingLoser, LoserSource
<1>3. \A s \in sources' : MovedSource(s)' /\ Relies(s.path)' =>
           StillNamed(s.path, s.to)' \/ [path |-> s.path, kind |-> "DeleteRemote"] \in plan'
  <2> SUFFICES ASSUME NEW s \in sources', MovedSource(s)', Relies(s.path)',
                      [path |-> s.path, kind |-> "DeleteRemote"] \notin plan'
      PROVE  StillNamed(s.path, s.to)'
    OBVIOUS
  <2> DEFINE o == s.path
             c == remote[o].hash
  <2>0. o \in Path /\ s.to \in Path /\ s.to # o
    BY <1>a
  <2>1. stubs[s.to].of = o /\ Foreign(s.to)
    <3>1. stubs'[s.to].of = o
      BY DEF MovedSource
    <3>2. stubs[s.to].of = o
      BY <3>1, <2>0, <1>b, PathAssumption DEF NoStub
    <3> QED  BY <3>2, <2>0, PathAssumption DEF Foreign
  <2>2. ~Foreign(o)
    BY <2>0, <2>1 DEF NamesApart, Named
  <2>3. c # NoHash /\ rows[o].synced = c /\ c \in owed /\ files[o] = NoHash
    BY <1>c DEF Relies
  <2>4. rows[o].evicted /\ ((\E q \in Path : Sits(q, o, c)) \/ Lost(o, c))
    BY <2>0, <2>2, <2>3 DEF Kept1, Apart
  <2>5. CASE Lost(o, c)
    BY <2>5, <1>c DEF StillNamed, Lost
  <2>6. ASSUME NEW q \in Path, Sits(q, o, c) PROVE StillNamed(s.path, s.to)'
    <3>1. CASE q # s.to
      <4>1. stubs'[q] = stubs[q]
        BY <2>6, <2>3, <1>b DEF Sits
      <4> QED  BY <4>1, <3>1, <2>6, <1>c DEF StillNamed, Sits
    <3>2. CASE q = s.to
      <4>1. stubs'[o] = stubs[o]
        BY <2>3, <2>0, <1>b
      <4>2. stubs[o] # NoStub
        <5>1. SUFFICES ASSUME stubs[o] = NoStub PROVE FALSE
          OBVIOUS
        <5>2. StubKindOf(o, Unstale) = "none"
          BY <5>1, <4>1, <2>0, <1>b
        <5>3. KindFacts(kind[o], files[o], rows[o].synced, view[o].hash,
                       StubKindOf(o, Unstale), rows[o].evicted, LiveSource(o))
          BY <2>0 DEF PlanMade, KindOf
        <5>4. kind[o] = "DeleteRemote"
          BY <5>2, <5>3, <2>3, <2>4, <2>0, <1>d DEF KindFacts
        <5>5. [path |-> o, kind |-> "DeleteRemote"] \in plan'
          BY <5>4, <2>0 DEF PlanMade, Advance
        <5> QED  BY <5>5
      <4>3. stubs[o].of = o
        BY <4>2, <2>2, <2>0 DEF Foreign, Types, DiskTypes
      <4>4. stubs[o].hash = c
        BY <4>3, <3>2, <2>6, <2>3, <2>0, <2>1 DEF NamesApart, Sits
      <4>5. stubs[o] = [of |-> o, hash |-> c]
        BY <4>3, <4>4, <2>0 DEF Types, DiskTypes
      <4> QED  BY <4>1, <4>5, <2>0, <1>c DEF StillNamed, Sits
    <3> QED  BY <3>1, <3>2
  <2> QED  BY <2>4, <2>5, <2>6
<1>4. pinned' = {}
  BY DEF PlanFrame, Stages
<1> QED  BY <1>1, <1>2, <1>3, <1>4, <1>a, <1>c DEF Plan2, Planned

(* Nothing is recorded yet. *)
LEMMA PlanPassRec ==
    ASSUME NEW kind, Types, Stages, NamesApart, Views, Kept1, Kept3, Preserving, PlanFrame,
           PlanMade(kind)
    PROVE  Rec1' /\ Rec2' /\ Preserving' /\ Evictions'
<1>a. /\ \A s \in sources' : files[s.to] = NoHash /\ s.to # s.path
      /\ OneTarget'
      /\ \A p \in Path, c \in owed : PendingLoser(p, c) => files[p] = NoHash
  BY PlanSources
<1>c. /\ UNCHANGED <<files, rows, losers, owed>>
      /\ scan' = files /\ deltas' = {} /\ ops' = <<>> /\ pc' = "apply" /\ cur' = NoCur
  BY DEF PlanFrame, log_vars, Stages, Underway, Evicting
<1>1. \A l \in losers : files[l.path] # l.hash
  BY DEF PlanFrame, Preserving
<1>2. Rec1'
  BY <1>a, <1>c, <1>1 DEF Rec1, Logged, PendingLoser
<1>3. Rec2'
  BY <1>c DEF Rec2, InOps
<1> QED  BY <1>2, <1>3, <1>c DEF Preserving, Evictions, NoCur

(***************************************************************************)
(* One step of the plan, at one path.  What it must not do to the others   *)
(* is the same for every kind.                                             *)
(***************************************************************************)
ActsAt(p) ==
    /\ p \in Path /\ pc = "apply" /\ pc' = pc /\ ~InOps(p) /\ ~InDeltas(p)
    /\ UNCHANGED <<mode, aside, litter, remote, losers, scan, sources, cur, owed, gone>>
    /\ rows'[p] \in {rows[p], NoRow} /\ \A q \in Path \ {p} : rows'[q] = rows[q]
    /\ stubs'[p] \in {stubs[p], NoStub} /\ \A q \in Path \ {p} : stubs'[q] = stubs[q]
    /\ \A q \in Path \ {p} : view'[q] = view[q]
    /\ \A q \in Path \ {p} : files'[q] = files[q] \/ Unused(q)
    /\ plan' \subseteq plan /\ ~InPlan(p)' /\ \A a \in plan \ plan' : a.path = p
    /\ arrived' \subseteq arrived \cup {p} /\ arrived \subseteq arrived' \cup {p}
    /\ deltas \subseteq deltas' /\ \A d \in deltas' \ deltas : d.path = p
    /\ pinned \subseteq pinned'
(* What a step at p must not take from the other paths. *)
Spares(p) ==
    /\ \A q \in Path : \A c : Health(q, c) = "good" => Health(q, c)' = "good"
    /\ \A c \in owed : OnDisk(c) => OnDisk(c)'
    /\ \A s \in sources : files'[s.to] = files[s.to] /\ stubs'[s.to] = stubs[s.to]
    /\ \A q \in Path : Relies(q)' => Relies(q) /\ \A r \in Path : Sits(r, q, remote[q].hash)
           => Sits(r, q, remote[q].hash)'
    /\ \A q, o \in Path : InOps(q) /\ Foreign(q) /\ stubs[q].of = o /\ Relies(o) =>
           \/ StillNamed(o, q)
           \/ Planned(o, "DeleteRemote") \/ Logged(o, NoHash) =>
                  Planned(o, "DeleteRemote")' \/ Logged(o, NoHash)'

(* Nothing is planned or queued at an unused path, but its row's removal. *)
LEMMA UnusedIsIdle ==
    ASSUME NEW q \in Path, Types, Views, Plan1, Rec2, pc = "apply", Unused(q)
    PROVE  /\ ~InPlan(q) /\ q \notin arrived /\ ~InDeltas(q)
           /\ \A i \in DOMAIN ops : ops[i].path = q => ops[i].kind = "remove"
<1>1. files[q] = NoHash /\ stubs[q] = NoStub /\ rows[q] = NoRow /\ remote[q] = Absent
          /\ \A s \in sources : s.to # q
  BY DEF Unused
<1>2. ~InDeltas(q)
  BY <1>1 DEF Plan1, InDeltas, DeltaOK, NoRow
<1>3. view[q] = Absent
  BY <1>1, <1>2 DEF Views, InDeltas
<1>4. ~InPlan(q)
  <2> SUFFICES ASSUME NEW a \in plan, a.path = q PROVE FALSE
    BY DEF InPlan
  <2>1. PlanOK(q, a.kind) /\ a.kind \in ActionKind
    BY DEF Plan1, Types, PassTypes
  <2> QED  BY <2>1, <1>1, <1>3
              DEF PlanOK, ActionKind, TransferKind, LateKind, StubKind, NoRow, Absent
<1>5. q \notin arrived
  BY <1>3 DEF Plan1, ArrivedOK, Absent
<1>6. \A i \in DOMAIN ops : ops[i].path = q => ops[i].kind = "remove"
  <2> SUFFICES ASSUME NEW i \in DOMAIN ops, ops[i].path = q PROVE ops[i].kind = "remove"
    OBVIOUS
  <2>1. OpOK(ops[i]) /\ ops[i] \in OpType
    BY DEF Rec2, InPass, Types, PassTypes
  <2> QED  BY <2>1, <1>1, <1>3 DEF OpOK, ConfirmOK, StubOK, OpType, Absent
<1> QED  BY <1>2, <1>4, <1>5, <1>6

(* Between paths. *)
LEMMA ActOthers ==
    ASSUME NEW p, Types, Views, Plan1, Plan2, Rec2, ActsAt(p), Spares(p)
    PROVE  /\ \A q \in Path : InPlan(q) \/ q \in arrived \/ InDeltas(q)
                  => q = p \/ files'[q] = files[q]
           /\ \A q \in Path : Foreign(q)' => Foreign(q)
           /\ \A q \in Path : Named(q)' => Named(q)
           /\ \A q \in Path : \A c : PendingLoser(q, c)' => PendingLoser(q, c)
           /\ \A s \in sources : LoserSource(s) => LoserSource(s)'
           /\ \A s \in sources : MovedSource(s) => MovedSource(s)'
           /\ \A q, c : Logged(q, c) => Logged(q, c)'
           /\ \A q, k : Planned(q, k)' => Planned(q, k) /\ q # p
           /\ \A q : InPlan(q)' => InPlan(q) /\ q # p
           /\ \A q \in Path : \A to : Relies(q)'
                  => (Relies(q) /\ (StillNamed(q, to) => StillNamed(q, to)'))
           /\ \A q \in Path, c \in Content : Sound(q, c) => Sound(q, c)'
<1>1. \A q \in Path : InPlan(q) \/ q \in arrived \/ InDeltas(q) => q = p \/ files'[q] = files[q]
  BY UnusedIsIdle DEF ActsAt
<1>2. /\ \A q \in Path : Foreign(q)' => Foreign(q)
      /\ \A q \in Path : Named(q)' => Named(q)
  BY PathAssumption DEF ActsAt, Foreign, Named, NoStub
<1>3. \A q \in Path : \A c : PendingLoser(q, c)' => PendingLoser(q, c)
  BY DEF PendingLoser, ActsAt, NoRow
<1>4. \A s \in sources : s.to \in Path /\ s.path \in Path
  BY DEF Types, PassTypes
<1>5. \A s \in sources : LoserSource(s) => LoserSource(s)'
  <2> SUFFICES ASSUME NEW s \in sources, LoserSource(s) PROVE LoserSource(s)'
    OBVIOUS
  <2>1. s.to \in Path /\ s.path \in Path
    BY <1>4
  <2>2. stubs'[s.to] = NoStub
    BY DEF LoserSource, Spares
  <2>3. rows'[s.to] = NoRow /\ rows'[s.path].synced \in {s.hash, NoHash}
    <3>1. \A r \in Path : rows'[r] = rows[r] \/ rows'[r] = NoRow
      BY DEF ActsAt
    <3>2. NoRow.synced = NoHash
      BY DEF NoRow
    <3> QED  BY <2>1, <3>1, <3>2 DEF LoserSource
  <2>4. UNCHANGED <<remote, losers>>
    BY DEF ActsAt
  <2> QED  BY <2>1, <2>2, <2>3, <2>4, <1>2 DEF LoserSource, Lost
<1>6. \A s \in sources : MovedSource(s) => MovedSource(s)'
  BY <1>4 DEF MovedSource, ActsAt, Spares
<1>7. \A q, c : Logged(q, c) => Logged(q, c)'
  BY DEF Logged, ActsAt
<1>8. /\ \A q, k : Planned(q, k)' => Planned(q, k) /\ q # p
      /\ \A q : InPlan(q)' => InPlan(q) /\ q # p
  BY DEF Planned, InPlan, ActsAt
<1>9. \A q \in Path : \A to : Relies(q)' => (Relies(q) /\ (StillNamed(q, to) => StillNamed(q, to)'))
  BY DEF StillNamed, Spares, Sits, Lost, ActsAt
<1>10. \A q \in Path, c \in Content : Sound(q, c) => Sound(q, c)'
  BY DEF Sound, Spares, ActsAt
<1> QED  BY <1>1, <1>2, <1>3, <1>5, <1>6, <1>7, <1>8, <1>9, <1>10

(* The plan stays justified at the other paths. *)
LEMMA ActPlan1 ==
    ASSUME NEW p, Types, Views, Plan1, Plan2, Rec2, ActsAt(p), Spares(p)
    PROVE  /\ \A a \in plan' : PlanOK(a.path, a.kind)' /\ scan'[a.path] = files'[a.path]
           /\ \A a, b \in plan' : a.path = b.path => a = b
           /\ \A q \in arrived \ {p} : q \in Path /\ ~InPlan(q)' /\ ~InDeltas(q)'
                    /\ ~Foreign(q)' /\ NoLoserAt(q)'
                  /\ files'[q] = view'[q].hash /\ view'[q].hash # NoHash /\ scan'[q] = NoHash
                         /\ ~InOps(q)
           /\ \A d \in deltas : DeltaOK(d)'
           /\ \A d \in deltas' : ~InPlan(d.path)'
<1>1. /\ \A q \in Path : InPlan(q) \/ q \in arrived \/ InDeltas(q)
             => q = p \/ files'[q] = files[q]
      /\ \A q \in Path : Foreign(q)' => Foreign(q)
      /\ \A q, c : Logged(q, c) => Logged(q, c)'
      /\ \A q : InPlan(q)' => InPlan(q) /\ q # p
  BY ActOthers
<1>2. \A q \in Path : NoLoserAt(q) => NoLoserAt(q)'
  BY DEF NoLoserAt, Spares, ActsAt
<1>3. \A a \in plan' : PlanOK(a.path, a.kind)' /\ scan'[a.path] = files'[a.path]
  <2> TAKE a \in plan'
  <2>1. a \in plan /\ a.path \in Path /\ a.path # p /\ InPlan(a.path)
    BY DEF ActsAt, InPlan, Types, PassTypes
  <2>2. PlanOK(a.path, a.kind) /\ scan[a.path] = files[a.path]
    BY <2>1 DEF Plan1, ActsAt
  <2>3. files'[a.path] = files[a.path] /\ rows'[a.path] = rows[a.path]
            /\ view'[a.path] = view[a.path] /\ stubs'[a.path] = stubs[a.path]
    BY <2>1, <1>1 DEF ActsAt
  <2>4. UNCHANGED <<sources, owed, scan>>
    BY DEF ActsAt
  <2>5. PlanOK(a.path, a.kind)'
    BY <2>1, <2>2, <2>3, <2>4, <1>1, <1>2 DEF PlanOK
  <2> QED  BY <2>2, <2>3, <2>4, <2>5
<1>4. \A a, b \in plan' : a.path = b.path => a = b
  BY DEF Plan1, ActsAt
<1>5. \A q \in arrived \ {p} : q \in Path /\ ~InPlan(q)' /\ ~InDeltas(q)' /\ ~Foreign(q)' /\ NoLoserAt(q)'
                  /\ files'[q] = view'[q].hash /\ view'[q].hash # NoHash /\ scan'[q] = NoHash
                         /\ ~InOps(q)
  <2> TAKE q \in arrived \ {p}
  <2>1. q \in Path /\ ArrivedOK(q)
    BY DEF Plan1, ActsAt, Types, PassTypes
  <2>2. files'[q] = files[q] /\ view'[q] = view[q] /\ UNCHANGED scan
    BY <2>1, <1>1 DEF ActsAt
  <2>3. ~InDeltas(q)'
    BY <2>1 DEF ArrivedOK, InDeltas, ActsAt
  <2> QED  BY <2>1, <2>2, <2>3, <1>1, <1>2 DEF ArrivedOK
<1>6. \A d \in deltas : DeltaOK(d)'
  <2> TAKE d \in deltas
  <2>1. d.path \in Path /\ d.path # p /\ InDeltas(d.path) /\ DeltaOK(d)
    BY DEF Plan1, ActsAt, InDeltas, Types, PassTypes
  <2>2. files'[d.path] = files[d.path] /\ rows'[d.path] = rows[d.path] /\ UNCHANGED <<remote,
                                                                                      sources,
                                                                                      owed>>
    BY <2>1, <1>1 DEF ActsAt
  <2> QED  BY <2>1, <2>2, <1>1 DEF DeltaOK
<1>7. \A d \in deltas' : ~InPlan(d.path)'
  BY <1>1 DEF ActsAt, Plan1
<1> QED  BY <1>3, <1>4, <1>5, <1>6, <1>7

(* The relocations stay due. *)
LEMMA ActPlan2 ==
    ASSUME NEW p, Types, Views, Plan1, Plan2, Rec2, ActsAt(p), Spares(p)
    PROVE  /\ \A s \in sources : LoserSource(s)' \/ MovedSource(s)'
           /\ \A s \in sources : (Planned(s.to, "Relocate") /\ s.to # p) \/ s.path \in pinned
                  \/ Logged(s.to, s.hash)
                  => Planned(s.to, "Relocate")' \/ s.path \in pinned' \/ Logged(s.to, s.hash)'
           /\ \A q \in Path, c \in owed : PendingLoser(q, c)' =>
                  \E s \in sources : s.path = q /\ s.hash = c /\ stubs'[s.to] = NoStub
           /\ \A s \in sources : MovedSource(s)' /\ Planned(s.to, "Relocate")' /\ Relies(s.path)'
                  /\ ~Planned(p, "DeleteRemote") =>
                  StillNamed(s.path, s.to)' \/ Planned(s.path, "DeleteRemote")'
<1>0. \A s \in sources : s.to \in Path /\ s.path \in Path
  BY DEF Types, PassTypes
<1>1. /\ \A q \in Path : \A c : PendingLoser(q, c)' => PendingLoser(q, c)
      /\ \A s \in sources : LoserSource(s) => LoserSource(s)'
      /\ \A s \in sources : MovedSource(s) => MovedSource(s)'
      /\ \A q, c : Logged(q, c) => Logged(q, c)'
      /\ \A q, k : Planned(q, k)' => Planned(q, k) /\ q # p
      /\ \A q \in Path : \A to : Relies(q)' => (Relies(q) /\ (StillNamed(q, to) => StillNamed(q, to)'))
  BY ActOthers
<1>2. \A s \in sources : LoserSource(s)' \/ MovedSource(s)'
  BY <1>1 DEF Plan2, ActsAt
<1>3. \A q, k : Planned(q, k) /\ q # p => Planned(q, k)'
  BY DEF Planned, ActsAt
<1>4. \A s \in sources : MovedSource(s)' <=> MovedSource(s)
  BY <1>0 DEF MovedSource, ActsAt, Spares
<1>5. \A q \in Path, c \in owed : PendingLoser(q, c)' =>
                  \E s \in sources : s.path = q /\ s.hash = c /\ stubs'[s.to] = NoStub
  BY <1>1 DEF Plan2, ActsAt, Spares
<1>6. \A s \in sources : MovedSource(s)' /\ Planned(s.to, "Relocate")' /\ Relies(s.path)'
          /\ ~Planned(p, "DeleteRemote") =>
                  StillNamed(s.path, s.to)' \/ Planned(s.path, "DeleteRemote")'
  BY <1>0, <1>1, <1>3, <1>4 DEF Plan2, ActsAt
<1> QED  BY <1>1, <1>2, <1>3, <1>5, <1>6 DEF ActsAt

(* What is queued for the other paths stays true. *)
LEMMA ActOps ==
    ASSUME NEW p, Types, NamesApart, Views, Plan1, Plan2, Rec1, Rec2, ActsAt(p), Spares(p)
    PROVE  \A i \in DOMAIN ops : \A o : o = ops[i] => OpOK(o)'
<1>0. \A s \in sources : s.to \in Path /\ s.path \in Path /\ s.hash \in Content
  BY DEF Types, PassTypes
<1>1. /\ \A q \in Path : Foreign(q)' => Foreign(q)
      /\ \A q \in Path : \A c : PendingLoser(q, c)' => PendingLoser(q, c)
      /\ \A q, c : Logged(q, c) => Logged(q, c)'
      /\ \A q \in Path : \A to : Relies(q)' => (Relies(q) /\ (StillNamed(q, to) => StillNamed(q, to)'))
      /\ \A q \in Path, c \in Content : Sound(q, c) => Sound(q, c)'
  BY ActOthers
<1> SUFFICES ASSUME NEW i \in DOMAIN ops, NEW o, o = ops[i], NEW q, q = o.path, NEW h,
                    h = o.hash PROVE OpOK(o)'
  OBVIOUS
<1>2. o \in OpType /\ q \in Path /\ InOps(q) /\ q # p /\ OpOK(o)
  <2>1. o \in OpType
    BY DEF Types, PassTypes
  <2>2. InOps(q)
    BY DEF InOps
  <2>3. OpOK(o)
    BY DEF ActsAt, Rec2, InPass
  <2> QED  BY <2>1, <2>2, <2>3 DEF OpType, ActsAt
<1>3. view'[q] = view[q] /\ stubs'[q] = stubs[q] /\ rows'[q] = rows[q]
  BY <1>2 DEF ActsAt
<1>4. o.kind # "remove" => files'[q] = files[q]
  <2>1. files'[q] = files[q] \/ Unused(q)
    BY <1>2 DEF ActsAt
  <2> QED  BY <2>1, <1>2, UnusedIsIdle DEF ActsAt
<1>5. UNCHANGED <<owed, scan, sources, remote>> /\ pc' = "apply" /\ pc = "apply"
  BY DEF ActsAt
<1>6. o.kind = "confirm" => ConfirmOK(q, h)'
  BY <1>1, <1>2, <1>3, <1>4, <1>5 DEF OpOK, ConfirmOK
<1>8. o.kind = "stub" => StubOK(q, h)'
  <2> SUFFICES ASSUME o.kind = "stub" PROVE StubOK(q, h)'
    OBVIOUS
  <2>0. StubOK(q, h)
    BY <1>2 DEF OpOK
  <2>1. files'[q] = NoHash /\ scan'[q] = NoHash /\ view'[q].hash = h /\ h # NoHash
    BY <2>0, <1>3, <1>4, <1>5 DEF StubOK
  <2>2. Foreign(q)' <=> Foreign(q)
    BY <1>3 DEF Foreign
  <2>3. \A c \in owed : PendingLoser(q, c)' /\ ~Foreign(q)' =>
            \E s \in sources : s.path = q /\ s.hash = c /\ Done(s)' /\ ~Foreign(s.to)'
                /\ Sound(s.to, c)'
    <3>1. \A s \in sources : Done(s) => Done(s)'
      BY <1>1, <1>5 DEF Done
    <3>2. \A c \in owed : c \in Content
      BY DEF Types, LogTypes
    <3> QED  BY <1>0, <1>1, <1>2, <2>0, <2>2, <3>1, <3>2 DEF StubOK
  <2>4. \A r \in Path : Foreign(q) /\ stubs[q].of = r /\ Relies(r)' =>
           \/ StillNamed(r, q)'
           \/ Planned(r, "DeleteRemote")' \/ Logged(r, NoHash)'
    BY <1>1, <1>2, <2>0, <1>5 DEF StubOK, Spares
  <2>5. Foreign(q) => stubs[q].of \in Path
    BY <1>2 DEF Foreign, Types, DiskTypes
  <2> QED  BY <2>1, <2>2, <2>3, <2>4, <2>5, <1>3, <1>5 DEF StubOK
<1>9. o.kind = "remove" => view'[q] = Absent
  BY <1>2, <1>3 DEF OpOK
<1> QED  BY <1>6, <1>8, <1>9 DEF OpOK

(* What the step must see to at its own path. *)
Careful(p) ==
    /\ Foreign(p)' => files'[p] = NoHash
    /\ stubs'[p] # stubs[p] => ~Foreign(p)
    /\ Apart(p)' => Apart(p) /\ files'[p] = files[p] /\ rows'[p] = rows[p]
    /\ files'[p] = rows'[p].synced /\ files'[p] \in owed =>
           (files'[p] = files[p] /\ rows'[p] = rows[p]) \/ remote[p].hash = files'[p]
    /\ \A c \in owed : PendingLoser(p, c)' => files'[p] \in {NoHash, c}
    /\ \A c \in owed : PendingLoser(p, c) => PendingLoser(p, c)'
    /\ files'[p] # NoHash => files[p] # NoHash \/ remote[p] # Absent
    /\ scan[p] # NoHash /\ files'[p] = NoHash => rows'[p].synced = NoHash
           \/ view'[p].hash = NoHash

(* A step that spares the others and is careful at its path loses nothing. *)
LEMMA ActSafe ==
    ASSUME NEW p, Types, NamesApart, Views, Kept1, Kept2, Kept3, KeptS, Plan1, Plan2, Rec1, Rec2,
           ActsAt(p), Spares(p), Careful(p)
    PROVE  NamesApart' /\ Kept1' /\ Kept2' /\ Kept3' /\ KeptS'
<1>0. p \in Path /\ UNCHANGED <<remote, losers, owed, gone, aside, litter>>
  BY DEF ActsAt
<1>1. \A r \in Path : Foreign(r)' <=> Foreign(r)
  BY DEF ActsAt, Foreign, Careful, NoStub
<1>2. \A r \in Path : Named(r)' => Named(r)
  BY ActOthers
<1>3. \A r \in Path \ {p} : /\ rows'[r] = rows[r] /\ stubs'[r] = stubs[r]
                            /\ files'[r] = files[r] \/ (rows[r] = NoRow /\ remote[r] = Absent
                                                     /\ stubs[r] = NoStub /\ ~Named(r)
                                                        /\ \A l \in losers : l.path # r)
  BY DEF ActsAt, Unused
<1>4. NamesApart'
  <2>1. \A r \in Path : Foreign(r)' => files'[r] = NoHash /\ ~Named(r)'
    BY <1>1, <1>2, <1>3 DEF NamesApart, Careful, Foreign, NoStub
  <2>2. \A r \in Path : stubs'[r] = stubs[r] \/ stubs'[r] = NoStub
    BY DEF ActsAt
  <2>3. NoStub.of = NoPath /\ NoPath \notin Path
    BY PathAssumption DEF NoStub
  <2>4. \A r, q \in Path : stubs'[r].of = stubs'[q].of /\ stubs'[r].of \notin {NoPath, r, q}
            => r = q
    BY <2>2, <2>3 DEF NamesApart
  <2>5. \A r, q \in Path : /\ Foreign(q)' /\ stubs'[q].of = r /\ stubs'[r].of = r
                           /\ stubs'[q].hash = remote'[r].hash /\ remote'[r].hash # NoHash
                           => stubs'[r].hash = remote'[r].hash
    <3>1. \A r \in Path : stubs'[r].of \in Path => stubs'[r] = stubs[r]
      BY <2>2, <2>3
    <3> QED  BY <3>1, <1>0, <1>1 DEF NamesApart
  <2> QED  BY <2>1, <2>4, <2>5 DEF NamesApart
<1>5. Kept1'
  <2>1. \A r \in Path : Apart(r)' => Apart(r) /\ files'[r] = files[r] /\ rows'[r] = rows[r]
    BY <1>0, <1>3 DEF Careful, Apart, Absent
  <2>2. \A r \in Path : \A c : c = remote[r].hash /\ Apart(r)' /\ ~Foreign(r)'
            => \A q \in Path : Sits(q, r, c) => Sits(q, r, c)'
    <3> SUFFICES ASSUME NEW r \in Path, NEW c, c = remote[r].hash, Apart(r)', ~Foreign(r)'
        PROVE  \A q \in Path : Sits(q, r, c) => Sits(q, r, c)'
      OBVIOUS
    <3>1. Apart(r) /\ ~Foreign(r) /\ files'[r] = files[r] /\ rows'[r] = rows[r]
      BY <2>1, <1>1
    <3>2. files'[r] = NoHash
      BY <3>1 DEF Kept1
    <3>3. Relies(r)'
      BY <3>1, <3>2, <1>0 DEF Relies, Apart
    <3> QED  BY <3>3, <1>0 DEF Spares
  <2>3. \A r \in Path : \A c : Lost(r, c)' <=> Lost(r, c)
    BY <1>0 DEF Lost
  <2> QED  BY <2>1, <2>2, <2>3, <1>0, <1>1 DEF Kept1
<1>6. Kept2'
  <2>1. \A r \in Path : files'[r] # NoHash /\ files'[r] = rows'[r].synced /\ files'[r] \in owed =>
             remote[r].hash = files'[r] \/ (files'[r] = files[r] /\ rows'[r] = rows[r])
    BY <1>3 DEF Careful, NoRow
  <2> QED  BY <2>1, <1>0 DEF Kept2, Lost
<1>7. Kept3'
  BY <1>0, <1>3 DEF Kept3, Careful, PendingLoser
<1>8. KeptS'
  <2>1. \A r \in Path, d \in Content : Live(r, d) => Live(r, d)'
    <3> SUFFICES ASSUME NEW r \in Path, NEW d \in Content, Live(r, d) PROVE Live(r, d)'
      OBVIOUS
    <3>1. ASSUME Foreign(r) PROVE stubs'[r] = stubs[r] /\ stubs[r].of \in Path
                 /\ files'[stubs[r].of] = NoHash
      <4>1. stubs'[r] = stubs[r]
        BY <3>1, <1>3 DEF Careful
      <4>2. stubs[r].of \in Path /\ Named(stubs[r].of) /\ stubs[r].of # r
        BY <3>1 DEF Foreign, Named, Types, DiskTypes
      <4>3. remote[stubs[r].of] = Absent /\ files[stubs[r].of] = NoHash
        BY <3>1 DEF Live
      <4>4. files'[stubs[r].of] = NoHash
        BY <4>2, <4>3, <1>3 DEF Careful
      <4> QED  BY <4>1, <4>2, <4>4
    <3> QED  BY <3>1, <1>0, <1>1 DEF Live
  <2>2. \A r \in Path, d \in owed : Waits(r, d) => Waits(r, d)'
    BY <1>0, <1>1, <1>3 DEF Waits, PendingLoser, Careful
  <2>3. owed \subseteq Content
    BY DEF Types, LogTypes
  <2> QED  BY <2>1, <2>2, <2>3, <1>0 DEF KeptS, Held, Spares
<1> QED  BY <1>4, <1>5, <1>6, <1>7, <1>8

(* The targets of relocations stay free. *)
LEMMA ActRec1 ==
    ASSUME NEW p, Types, Views, Plan1, Plan2, Rec1, Rec2, ActsAt(p), Spares(p), Careful(p),
           \A s \in sources : Logged(s.to, s.hash)'
               => Logged(s.to, s.hash) \/ Sound(s.to, s.hash)'
    PROVE  Rec1'
<1>0. p \in Path /\ UNCHANGED <<remote, losers, owed, scan, sources, pc>> /\ pc = "apply"
  BY DEF ActsAt
<1>1. /\ \A q \in Path : \A c : PendingLoser(q, c)' => PendingLoser(q, c)
      /\ \A q \in Path, c \in Content : Sound(q, c) => Sound(q, c)'
  BY ActOthers
<1>2. \A l \in losers : scan[l.path] # l.hash
  BY <1>0 DEF Rec1, InPass
<1>3. \A s \in sources : files'[s.to] = NoHash /\ scan[s.to] = NoHash /\ s.to # s.path
  BY <1>0 DEF Rec1, InPass, Spares
<1>4. OneTarget'
  BY <1>0 DEF Rec1, InPass, OneTarget
<1>5. \A s \in sources : Logged(s.to, s.hash)' => Sound(s.to, s.hash)'
  <2>1. \A s \in sources : s.to \in Path /\ s.hash \in Content
    BY DEF Types, PassTypes
  <2> QED  BY <2>1, <1>0, <1>1 DEF Rec1, InPass
<1>6. \A q \in Path : scan[q] # NoHash /\ files'[q] = NoHash
          => rows'[q].synced = NoHash \/ view'[q].hash = NoHash
  <2> SUFFICES ASSUME NEW q \in Path \ {p}, scan[q] # NoHash,
                      files'[q] = NoHash PROVE rows'[q].synced = NoHash \/ view'[q].hash = NoHash
    BY DEF Careful
  <2>1. rows'[q] = rows[q] /\ view'[q] = view[q] /\ (files'[q] = files[q] \/ rows[q] = NoRow)
    BY DEF ActsAt, Unused
  <2> QED  BY <2>1, <1>0 DEF Rec1, InPass, NoRow
<1>7. \A q \in Path, c \in owed : PendingLoser(q, c)' => scan[q] = NoHash
  BY <1>0, <1>1 DEF Rec1, InPass
<1> QED  BY <1>0, <1>2, <1>3, <1>4, <1>5, <1>6, <1>7 DEF Rec1, InPass

(* The queue, one longer. *)
LEMMA OpsAppend ==
    ASSUME NEW o \in OpType, ops \in Seq(OpType), ops' = Append(ops, o)
    PROVE  /\ ops' \in Seq(OpType)
           /\ DOMAIN ops' = DOMAIN ops \cup {Len(ops) + 1} /\ Len(ops) + 1 \notin DOMAIN ops
           /\ \A i \in DOMAIN ops : ops'[i] = ops[i]
           /\ ops'[Len(ops) + 1] = o
           /\ \A q : InOps(q)' <=> InOps(q) \/ q = o.path
<1>1. /\ ops' \in Seq(OpType)
      /\ DOMAIN ops' = DOMAIN ops \cup {Len(ops) + 1} /\ Len(ops) + 1 \notin DOMAIN ops
      /\ \A i \in DOMAIN ops : ops'[i] = ops[i]
      /\ ops'[Len(ops) + 1] = o
  OBVIOUS
<1> QED  BY <1>1 DEF InOps

(* The step queues a record of its path, or none. *)
LEMMA ActRec2 ==
    ASSUME NEW p, Types, NamesApart, Views, Plan1, Plan2, Rec1, Rec2, ActsAt(p), Spares(p),
           \/ ops' = ops
           \/ \E o \in OpType : ops' = Append(ops, o) /\ o.path = p /\ OpOK(o)'
    PROVE  /\ Rec2'
           /\ ops' \in Seq(OpType)
           /\ \A q : InOps(q)' => InOps(q) \/ q = p
<1>0. ops \in Seq(OpType) /\ pc = "apply" /\ pc' = "apply" /\ ~InOps(p)
  BY DEF Types, PassTypes, ActsAt
<1>1. \A i \in DOMAIN ops : \A o : o = ops[i] => OpOK(o)'
  BY ActOps
<1>2. /\ \A q \in Path : ~(InOps(q) /\ InPlan(q))
      /\ \A i, j \in DOMAIN ops : ops[i].path = ops[j].path => i = j
  BY <1>0 DEF Rec2, InPass
<1>3. \A q : InPlan(q)' => InPlan(q) /\ q # p
  BY ActOthers
<1>4. CASE ops' = ops
  <2>1. \A q : InOps(q)' <=> InOps(q)
    BY <1>4 DEF InOps
  <2>2. \A i \in DOMAIN ops' : OpOK(ops[i])'
    BY <1>1, <1>4
  <2> QED  BY <2>1, <2>2, <1>0, <1>2, <1>3, <1>4 DEF Rec2, InPass
<1>5. ASSUME NEW o \in OpType, ops' = Append(ops, o), o.path = p, OpOK(o)'
      PROVE  /\ Rec2'
             /\ ops' \in Seq(OpType)
             /\ \A q : InOps(q)' => InOps(q) \/ q = p
  <2>1. /\ ops' \in Seq(OpType)
        /\ DOMAIN ops' = DOMAIN ops \cup {Len(ops) + 1} /\ Len(ops) + 1 \notin DOMAIN ops
        /\ \A i \in DOMAIN ops : ops'[i] = ops[i]
        /\ ops'[Len(ops) + 1] = o
        /\ \A q : InOps(q)' <=> InOps(q) \/ q = o.path
    BY <1>0, <1>5, OpsAppend
  <2>2. \A i \in DOMAIN ops, j \in DOMAIN ops' : j \notin DOMAIN ops
            => ops'[i].path # ops'[j].path
    BY <2>1, <1>5, <1>0 DEF InOps
  <2>3. \A i, j \in DOMAIN ops' : ops'[i].path = ops'[j].path => i = j
    BY <2>1, <2>2, <1>2
  <2>4. \A i \in DOMAIN ops' : OpOK(ops[i])'
    <3> TAKE i \in DOMAIN ops'
    <3>1. CASE i \in DOMAIN ops
      BY <3>1, <1>1, <2>1
    <3>2. CASE i \notin DOMAIN ops
      BY <3>2, <1>5, <2>1
    <3> QED  BY <3>1, <3>2
  <2> QED  BY <2>1, <2>3, <2>4, <1>0, <1>2, <1>3, <1>5 DEF Rec2, InPass
<1> QED  BY <1>4, <1>5

(* What is due at the path itself when the step is over. *)
Completes(p) ==
    /\ p \in arrived' => ArrivedOK(p)'
    /\ \A d \in deltas' \ deltas : DeltaOK(d)'
    /\ files'[p] # NoHash /\ p \notin arrived' => stubs'[p].of # p
    /\ \A s \in sources : s.to = p /\ Planned(p, "Relocate")
           => s.path \in pinned' \/ Logged(s.to, s.hash)'
    /\ Planned(p, "DeleteRemote") => \A a \in plan : a.kind # "Relocate"
    /\ \A q \in pinned' \ pinned : \E s \in sources : s.path = q /\ ~InOps(s.to)'
           /\ ~InPlan(s.to)'
    /\ \A s \in sources : s.to = p /\ InOps(p)' => InPlan(p)
    /\ \A s \in sources : Logged(s.to, s.hash)' => Logged(s.to, s.hash) \/ Sound(s.to, s.hash)'
    /\ \/ ops' = ops
       \/ \E o \in OpType : ops' = Append(ops, o) /\ o.path = p /\ OpOK(o)' /\ Known(o.hash)'

(* What a step of the plan keeps altogether. *)
LEMMA ActKeeps ==
    ASSUME NEW p, Types, Stages, NamesApart, Views, Kept1, Kept2, Kept3, KeptS, Plan1, Plan2, Rec1,
           Rec2,
           ActsAt(p), Spares(p), Careful(p), Completes(p)
    PROVE  /\ NamesApart' /\ Kept1' /\ Kept2' /\ Kept3' /\ KeptS'
           /\ Plan1' /\ Plan2' /\ Rec1' /\ Rec2'
           /\ ops' \in Seq(OpType)
<1>0. p \in Path /\ pc = "apply" /\ pc' = "apply" /\ UNCHANGED <<sources, owed>>
  BY DEF ActsAt
<1>1. NamesApart' /\ Kept1' /\ Kept2' /\ Kept3' /\ KeptS'
  BY ActSafe
<1>2. Rec1'
  BY ActRec1 DEF Completes
<1>3. Rec2' /\ ops' \in Seq(OpType) /\ \A q : InOps(q)' => InOps(q) \/ q = p
  <2>1. \/ ops' = ops
        \/ \E o \in OpType : ops' = Append(ops, o) /\ o.path = p /\ OpOK(o)' /\ Known(o.hash)'
    BY DEF Completes
  <2> QED  BY <2>1, ActRec2
<1>4. Plan1'
  <2>1. /\ \A a \in plan' : PlanOK(a.path, a.kind)' /\ scan'[a.path] = files'[a.path]
        /\ \A a, b \in plan' : a.path = b.path => a = b
        /\ \A q \in arrived \ {p} : q \in Path /\ ~InPlan(q)' /\ ~InDeltas(q)'
                    /\ ~Foreign(q)' /\ NoLoserAt(q)'
                  /\ files'[q] = view'[q].hash /\ view'[q].hash # NoHash /\ scan'[q] = NoHash
                         /\ ~InOps(q)
        /\ \A d \in deltas : DeltaOK(d)'
        /\ \A d \in deltas' : ~InPlan(d.path)'
    BY ActPlan1
  <2>2. \A q \in arrived' : ArrivedOK(q)'
    <3> TAKE q \in arrived'
    <3>1. CASE q = p
      BY <3>1 DEF Completes
    <3>2. CASE q # p
      <4>1. q \in arrived \ {p}
        BY <3>2 DEF ActsAt
      <4>2. ~InOps(q)'
        BY <4>1, <3>2, <2>1, <1>3
      <4> QED  BY <4>1, <4>2, <2>1 DEF ArrivedOK
    <3> QED  BY <3>1, <3>2
  <2>3. \A d \in deltas' : DeltaOK(d)'
    BY <2>1 DEF Completes
  <2>4. \A q \in Path : files'[q] # NoHash /\ q \notin arrived' => stubs'[q].of # q
    <3> TAKE q \in Path
    <3>1. CASE q = p
      BY <3>1 DEF Completes
    <3>2. CASE q # p
      <4>1. stubs'[q] = stubs[q] /\ (files'[q] = files[q] \/ stubs[q] = NoStub)
                /\ (q \in arrived => q \in arrived')
        BY <3>2 DEF ActsAt, Unused
      <4> QED  BY <4>1, <1>0, PathAssumption DEF Plan1, NoStub
    <3> QED  BY <3>1, <3>2
  <2> QED  BY <2>1, <2>2, <2>3, <2>4 DEF Plan1
<1>5. Plan2'
  <2>1. /\ \A s \in sources : LoserSource(s)' \/ MovedSource(s)'
        /\ \A s \in sources : (Planned(s.to, "Relocate") /\ s.to # p) \/ s.path \in pinned
               \/ Logged(s.to, s.hash)
               => Planned(s.to, "Relocate")' \/ s.path \in pinned' \/ Logged(s.to, s.hash)'
        /\ \A q \in Path, c \in owed : PendingLoser(q, c)' =>
               \E s \in sources : s.path = q /\ s.hash = c /\ stubs'[s.to] = NoStub
        /\ \A s \in sources : MovedSource(s)' /\ Planned(s.to, "Relocate")' /\ Relies(s.path)'
               /\ ~Planned(p, "DeleteRemote") =>
               StillNamed(s.path, s.to)' \/ Planned(s.path, "DeleteRemote")'
    BY ActPlan2
  <2>2. \A s \in sources : Planned(s.to, "Relocate")' \/ s.path \in pinned'
            \/ Logged(s.to, s.hash)'
    BY <2>1, <1>0 DEF Completes, Plan2
  <2>3. \A s \in sources : MovedSource(s)' /\ Planned(s.to, "Relocate")' /\ Relies(s.path)' =>
               StillNamed(s.path, s.to)' \/ Planned(s.path, "DeleteRemote")'
    <3> SUFFICES ASSUME NEW s \in sources, Planned(s.to, "Relocate")',
                        Planned(p, "DeleteRemote") PROVE FALSE
      BY <2>1
    <3>1. Planned(s.to, "Relocate")
      BY DEF Planned, ActsAt
    <3> QED  BY <3>1 DEF Completes, Planned
  <2>4. \A q \in pinned' : \E s \in sources : s.path = q /\ ~InOps(s.to)' /\ ~InPlan(s.to)'
    <3> TAKE q \in pinned'
    <3>1. CASE q \in pinned
      <4>1. PICK s \in sources : s.path = q /\ ~InOps(s.to) /\ ~InPlan(s.to)
        BY <3>1, <1>0 DEF Plan2
      <4>2. ~InPlan(s.to)'
        BY <4>1 DEF InPlan, ActsAt
      <4>3. ~InOps(s.to)'
        BY <4>1, <1>3 DEF Completes
      <4> QED  BY <4>1, <4>2, <4>3
    <3>2. CASE q \notin pinned
      BY <3>2 DEF Completes
    <3> QED  BY <3>1, <3>2
  <2> QED  BY <2>1, <2>2, <2>3, <2>4, <1>0 DEF Plan2
<1> QED  BY <1>1, <1>2, <1>3, <1>4, <1>5

(* What is known of an action that is taken. *)
LEMMA TakeFacts ==
    ASSUME NEW p, NEW k, Types, Stages, Views, Plan1, Plan2, Rec1, Rec2, Take(p, k)
    PROVE  /\ p \in Path /\ k \in ActionKind /\ pc = "apply" /\ p # NoPath
           /\ Planned(p, k) /\ InPlan(p) /\ ~InOps(p) /\ ~InDeltas(p) /\ p \notin arrived
           /\ PlanOK(p, k) /\ scan[p] = files[p] /\ view[p] = remote[p]
           /\ plan' \subseteq plan /\ ~InPlan(p)' /\ \A a \in plan \ plan' : a.path = p
           /\ \A j : Planned(p, j) => j = k
           /\ \A l \in losers : l.path = p => l.hash # files[p]
           /\ k # "Relocate" => \A s \in sources : s.to = p => ~LoserSource(s)
<1>1. [path |-> p, kind |-> k] \in plan /\ pc = "apply"
          /\ plan' = plan \ {[path |-> p, kind |-> k]}
  BY DEF Take
<1>2. p \in Path /\ k \in ActionKind
  BY <1>1 DEF Types, PassTypes
<1>3. InPlan(p) /\ Planned(p, k)
  BY <1>1 DEF InPlan, Planned
<1>4. ~InOps(p) /\ ~InDeltas(p) /\ p \notin arrived
  BY <1>1, <1>2, <1>3 DEF Plan1, Rec2, InPass, InDeltas, ArrivedOK
<1>5. PlanOK(p, k) /\ scan[p] = files[p]
  <2>1. \A a \in plan : PlanOK(a.path, a.kind) /\ scan[a.path] = files[a.path]
    BY <1>1 DEF Plan1
  <2> DEFINE a == [path |-> p, kind |-> k]
  <2>2. a \in plan /\ a.path = p /\ a.kind = k
    BY <1>1
  <2> HIDE DEF a
  <2> QED  BY <2>1, <2>2
<1>6. view[p] = remote[p]
  BY <1>1, <1>2, <1>4 DEF Views, InDeltas
<1>7. \A a \in plan : a.path = p => a = [path |-> p, kind |-> k]
  BY <1>1 DEF Plan1
<1>8. plan' \subseteq plan /\ ~InPlan(p)' /\ \A a \in plan \ plan' : a.path = p
  BY <1>1, <1>7 DEF InPlan
<1>9. \A j : Planned(p, j) => j = k
  BY <1>7 DEF Planned
<1>10. \A l \in losers : l.path = p => l.hash # files[p]
  BY <1>1, <1>5 DEF Rec1, InPass
<1>11. k # "Relocate" => \A s \in sources : s.to = p => ~LoserSource(s)
  <2> SUFFICES ASSUME k # "Relocate", NEW s \in sources, s.to = p, LoserSource(s) PROVE FALSE
    OBVIOUS
  <2>1. files[p] = NoHash
    BY <1>1 DEF Rec1, InPass
  <2> QED  BY <2>1, <1>2, <1>5, <1>6
              DEF PlanOK, LoserSource, NoRow, Absent, ActionKind, TransferKind, LateKind,
                  StubKind
<1> QED  BY <1>1, <1>2, <1>3, <1>4, <1>5, <1>6, <1>8, <1>9, <1>10, <1>11, PathAssumption

(* A step that leaves files, placeholders and rows alone. *)
LEMMA QuietAct ==
    ASSUME NEW p, Types, NamesApart, Kept3, Rec1, ActsAt(p), UNCHANGED <<files, stubs, rows>>,
           \A q \in Path : \A c : Health(q, c) = "good" => Health(q, c)' = "good",
           \A q, o \in Path : InOps(q) /\ Foreign(q) /\ stubs[q].of = o /\ Relies(o) =>
               \/ StillNamed(o, q)
               \/ Planned(o, "DeleteRemote") \/ Logged(o, NoHash) =>
                      Planned(o, "DeleteRemote")' \/ Logged(o, NoHash)',
           view'[p] = view[p] \/ view'[p].hash = NoHash \/ scan[p] = NoHash \/ files[p] # NoHash
    PROVE  Spares(p) /\ Careful(p)
<1>0. p \in Path /\ pc = "apply" /\ UNCHANGED <<remote, losers, owed, gone, aside, litter, scan>>
  BY DEF ActsAt
<1>1. \A c : OnDisk(c) => OnDisk(c)'
  BY <1>0 DEF OnDisk, Contents
<1>2. \A q \in Path : Relies(q)' => Relies(q) /\ \A r \in Path : Sits(r, q, remote[q].hash)
          => Sits(r, q, remote[q].hash)'
  BY <1>0 DEF Relies, Sits
<1>3. Spares(p)
  BY <1>1, <1>2 DEF Spares
<1>4. Careful(p)
  <2>1. Foreign(p)' => files'[p] = NoHash
    BY <1>0 DEF NamesApart, Foreign
  <2>2. Apart(p)' => Apart(p)
    BY <1>0 DEF Apart
  <2>3. \A c \in owed : PendingLoser(p, c)' <=> PendingLoser(p, c)
    BY <1>0 DEF PendingLoser
  <2>4. \A c \in owed : PendingLoser(p, c) => files[p] \in {NoHash, c}
    BY <1>0 DEF Kept3
  <2>5. scan[p] # NoHash /\ files[p] = NoHash => rows[p].synced = NoHash \/ view'[p].hash = NoHash
    BY <1>0 DEF Rec1, InPass
  <2> QED  BY <2>1, <2>2, <2>3, <2>4, <2>5 DEF Careful
<1> QED  BY <1>3, <1>4

(* A delta goes to the manifest of the pass as well. *)
LEMMA LogViews ==
    ASSUME NEW p \in Path, NEW c \in Hash, Types, Stored, Views, pc = "apply", pc' = "apply",
           UNCHANGED remote,
           ~InDeltas(p), Log(p, c), \A d : Known(d) => Known(d)', Known(c)'
    PROVE  /\ Views'
           /\ view' \in [Path -> [hash : Hash, ours : BOOLEAN]]
           /\ \A q \in Path : (view'[q].hash = NoHash => view'[q] = Absent)
                  /\ Known(view[q].hash)'
           /\ deltas' \subseteq [path : Path, hash : Hash]
           /\ deltas \subseteq deltas' /\ \A d \in deltas' \ deltas : d.path = p
                  /\ d = [path |-> p, hash |-> c] /\ d.hash = c
           /\ \A q \in Path \ {p} : view'[q] = view[q]
           /\ view'[p].hash = c /\ (c = NoHash => view'[p] = Absent)
           /\ \A q, d : Logged(q, d)' <=> Logged(q, d) \/ (q = p /\ d = c)
<1>1. deltas' = deltas \cup {[path |-> p, hash |-> c]}
  BY DEF Log
<1>2. view' = [view EXCEPT ![p] = IF c = NoHash THEN Absent ELSE [hash |-> c, ours |-> TRUE]]
  BY DEF Log
<1>3. (IF c = NoHash THEN Absent ELSE [hash |-> c, ours |-> TRUE]) \in [hash : Hash, ours : BOOLEAN]
  BY DEF Absent, Hash
<1>4. /\ view'[p] = (IF c = NoHash THEN Absent ELSE [hash |-> c, ours |-> TRUE])
      /\ \A q \in Path \ {p} : view'[q] = view[q]
      /\ view' \in [Path -> [hash : Hash, ours : BOOLEAN]]
  BY <1>2, <1>3 DEF Types, LogTypes
<1>5. view'[p].hash = c /\ (c = NoHash => view'[p] = Absent)
  BY <1>4 DEF Absent
<1>6. Views'
  <2>1. \A d \in deltas : d.path # p /\ d.path \in Path
    BY DEF InDeltas, Types, PassTypes
  <2>2. \A q \in Path : (\A d \in deltas' : d.path # q) => q # p /\ view'[q] = remote'[q]
    <3>1. \A q \in Path : (\A d \in deltas' : d.path # q) => q # p /\ \A d \in deltas : d.path # q
      <4>1. \E d \in deltas' : d.path = p
        <5>1. [path |-> p, hash |-> c] \in deltas' /\ [path |-> p, hash |-> c].path = p
          BY <1>1
        <5> QED  BY <5>1
      <4> QED  BY <4>1, <1>1
    <3>2. \A q \in Path : (\A d \in deltas : d.path # q) => view[q] = remote[q]
      BY DEF Views
    <3> QED  BY <3>1, <3>2, <1>4
  <2>3. \A d \in deltas' : view'[d.path] = IF d.hash = NoHash THEN Absent ELSE [hash |-> d.hash, ours |-> TRUE]
    <3> TAKE d \in deltas'
    <3>1. CASE d \in deltas
      BY <3>1, <2>1, <1>4 DEF Views
    <3>2. CASE d = [path |-> p, hash |-> c]
      <4>1. d.path = p /\ d.hash = c
        BY <3>2
      <4> QED  BY <4>1, <1>4
    <3> QED  BY <3>1, <3>2, <1>1
  <2>4. \A d, e \in deltas' : d.path = e.path => d = e
    BY <1>1, <2>1 DEF Views
  <2> QED  BY <2>2, <2>3, <2>4 DEF Views, Evicting
<1>7. \A q \in Path : (view'[q].hash = NoHash => view'[q] = Absent) /\ Known(view[q].hash)'
  <2> TAKE q \in Path
  <2>1. CASE q = p
    BY <2>1, <1>5 DEF Known
  <2>2. CASE q # p
    <3>1. Known(view[q].hash) /\ view'[q] = view[q] /\ (view[q].hash = NoHash => view[q] = Absent)
      BY <2>2, <1>4 DEF Stored, Types, LogTypes
    <3>2. \A h : h = view[q].hash => Known(h)'
      BY <3>1
    <3> QED  BY <3>1, <3>2 DEF Known
  <2> QED  BY <2>1, <2>2
<1>8. deltas' \subseteq [path : Path, hash : Hash]
  BY <1>1 DEF Types, PassTypes
<1>9. \A q, d : Logged(q, d)' <=> Logged(q, d) \/ (q = p /\ d = c)
  BY <1>1 DEF Logged
<1> QED  BY <1>1, <1>4, <1>5, <1>6, <1>7, <1>8, <1>9

(* The ranges of the state. *)
StubType == [of : Path \cup {NoPath}, hash : Hash]
RowType  == [hash : Hash, synced : Hash, evicted : BOOLEAN]
VerType  == [hash : Hash, ours : BOOLEAN]

(* A step of the plan keeps the shapes. *)
LEMMA ActTypes ==
    ASSUME NEW p, Types, Stages, Stored, ActsAt(p),
           files' \in [Path -> Hash], stubs' \in [Path -> StubType], rows' \in [Path -> RowType],
           view' \in [Path -> VerType],
           \A q \in Path : (view'[q].hash = NoHash => view'[q] = Absent) /\ Known(view[q].hash)',
           DOMAIN objects' \subseteq Path \X Content, ObjHash \subseteq ObjHash',
           deltas' \subseteq [path : Path, hash : Hash],
           \/ ops' = ops
           \/ \E o \in OpType : ops' = Append(ops, o) /\ Known(o.hash)'
    PROVE  DiskTypes' /\ LogTypes' /\ PassTypes' /\ Stages' /\ Stored'
<1>0. p \in Path /\ pc = "apply" /\ pc' = "apply" /\ UNCHANGED <<mode, aside, litter, remote,
                                                                 losers, scan, sources, cur, owed,
                                                                 gone>>
  BY DEF ActsAt
<1>1. DiskTypes'
  <2>1. \A q \in Path : stubs'[q] = stubs[q] \/ stubs'[q] = NoStub
    BY DEF ActsAt
  <2>2. \A q \in Path : rows'[q] = rows[q] \/ rows'[q] = NoRow
    BY DEF ActsAt
  <2> QED  BY <2>1, <2>2, <1>0 DEF Types, DiskTypes, StubType, RowType, NoRow
<1>2. LogTypes'
  BY <1>0 DEF Types, LogTypes, VerType
<1>3. \A d : Known(d) => Known(d)'
  BY DEF Known
<1>4. ops' \in Seq(OpType) /\ \A i \in DOMAIN ops' : Known(ops[i].hash)'
  <2>1. ops \in Seq(OpType) /\ \A i \in DOMAIN ops : Known(ops[i].hash)
    BY DEF Types, PassTypes, Stored
  <2>2. CASE ops' = ops
    BY <2>1, <2>2, <1>3 DEF Known
  <2>3. ASSUME NEW o \in OpType, ops' = Append(ops, o), Known(o.hash)'
        PROVE  ops' \in Seq(OpType) /\ \A i \in DOMAIN ops' : Known(ops[i].hash)'
    <3>1. /\ ops' \in Seq(OpType)
          /\ DOMAIN ops' = DOMAIN ops \cup {Len(ops) + 1}
          /\ \A i \in DOMAIN ops : ops'[i] = ops[i]
          /\ ops'[Len(ops) + 1] = o
      BY <2>1, <2>3, OpsAppend
    <3> QED  BY <3>1, <2>1, <2>3, <1>3 DEF Known
  <2> QED  BY <2>2, <2>3
<1>5. PassTypes'
  BY <1>0, <1>4 DEF Types, PassTypes, ActsAt, Evicting
<1>6. Stages'
  BY <1>0 DEF Stages, Underway, Evicting
<1>7. Stored'
  <2>1. \A q \in Path : Known(remote[q].hash)' /\ Known(rows[q].synced)' /\ Known(stubs[q].hash)'
    <3>1. \A q \in Path : stubs'[q] = stubs[q] \/ stubs'[q] = NoStub
      BY DEF ActsAt
    <3>2. \A q \in Path : rows'[q] = rows[q] \/ rows'[q] = NoRow
      BY DEF ActsAt
    <3> QED  BY <1>0, <1>3, <3>1, <3>2 DEF Stored, Known, NoStub, NoRow
  <2> QED  BY <2>1, <1>0, <1>3, <1>4 DEF Stored, Known
<1> QED  BY <1>1, <1>2, <1>5, <1>6, <1>7

(* All that a step of the plan keeps. *)
Parts ==
    /\ Types /\ Stages /\ Stored /\ NamesApart /\ Views /\ Kept1 /\ Kept2 /\ Kept3 /\ KeptS
    /\ Plan1 /\ Plan2 /\ Rec1 /\ Rec2

(* An upload adds a good object. *)
LEMMA ObjectsGrow ==
    ASSUME NEW p \in Path, NEW c \in Content, Types, Stored, SetHealth(p, c, "good")
    PROVE  /\ DOMAIN objects' \subseteq Path \X Content /\ ObjHash \subseteq ObjHash'
           /\ \A d : Known(d) => Known(d)'
           /\ Known(c)'
           /\ \A q \in Path : \A d : Health(q, d) = "good" => Health(q, d)' = "good"
           /\ Health(p, c)' = "good"
<1>1. /\ DOMAIN objects' = DOMAIN objects \cup {<<p, c>>}
      /\ ObjHash' = ObjHash \cup {c}
      /\ Health(p, c)' = "good"
  BY ObjectsSet, Zenon
<1>2. OthersStay(p, c)
  BY ObjectsSet, Zenon
<1> QED  BY <1>1, <1>2 DEF Types, LogTypes, Known, OthersStay

(* Without one the objects are the same. *)
LEMMA ObjectsSame ==
    ASSUME UNCHANGED objects, Types, Stored
    PROVE  /\ DOMAIN objects' \subseteq Path \X Content /\ ObjHash \subseteq ObjHash'
           /\ \A d : Known(d)' <=> Known(d)
           /\ \A q \in Path : \A d : Health(q, d) = "good" => Health(q, d)' = "good"
<1>1. ObjHash' = ObjHash /\ \A q, d : Health(q, d)' = Health(q, d)
  BY ObjectsStay
<1> QED  BY <1>1 DEF Types, LogTypes, Known

(* All of Parts, from the step's own conditions. *)
LEMMA ActParts ==
    ASSUME NEW p, Parts, ActsAt(p), Spares(p), Careful(p), Completes(p), Views',
           files' \in [Path -> Hash], stubs' \in [Path -> StubType], rows' \in [Path -> RowType],
           view' \in [Path -> VerType],
           \A q \in Path : (view'[q].hash = NoHash => view'[q] = Absent) /\ Known(view[q].hash)',
           DOMAIN objects' \subseteq Path \X Content, ObjHash \subseteq ObjHash',
           deltas' \subseteq [path : Path, hash : Hash]
    PROVE  Parts'
<1>0. Types /\ Stages /\ Stored /\ NamesApart /\ Views /\ Kept1 /\ Kept2 /\ Kept3 /\ KeptS
          /\ Plan1 /\ Plan2 /\ Rec1 /\ Rec2
  BY DEF Parts
<1>1. /\ NamesApart' /\ Kept1' /\ Kept2' /\ Kept3' /\ KeptS'
      /\ Plan1' /\ Plan2' /\ Rec1' /\ Rec2'
  BY <1>0, ActKeeps
<1>2. \/ ops' = ops
      \/ \E o \in OpType : ops' = Append(ops, o) /\ Known(o.hash)'
  BY DEF Completes
<1>3. DiskTypes' /\ LogTypes' /\ PassTypes' /\ Stages' /\ Stored'
  BY <1>0, <1>2, ActTypes
<1> QED  BY <1>1, <1>3 DEF Parts, Types

(* Upload: the file's version is in the store before it is announced. *)
LEMMA UploadKeeps ==
    ASSUME NEW p \in Path, Parts, Upload(p)
    PROVE  Parts'
<1>0. Types /\ Stages /\ Stored /\ NamesApart /\ Views /\ Kept1 /\ Kept2 /\ Kept3 /\ KeptS
          /\ Plan1 /\ Plan2 /\ Rec1 /\ Rec2
  BY DEF Parts
<1> PICK c : c = files[p]
  OBVIOUS
<1>1. Take(p, "Upload") /\ SetHealth(p, c, "good") /\ Log(p, c)
          /\ ops' = Append(ops, Op("confirm", p, c))
      /\ UNCHANGED <<disk, rows, mode, log_vars, pc, scan, sources, todo, pinned, arrived, cur,
                     counters, owed, gone>>
  BY DEF Upload
<1>2. /\ pc = "apply" /\ Planned(p, "Upload") /\ InPlan(p) /\ ~InOps(p) /\ ~InDeltas(p)
             /\ p \notin arrived
      /\ PlanOK(p, "Upload") /\ scan[p] = files[p] /\ view[p] = remote[p]
      /\ plan' \subseteq plan /\ ~InPlan(p)' /\ \A a \in plan \ plan' : a.path = p
      /\ \A j : Planned(p, j) => j = "Upload"
  BY <1>0, <1>1, TakeFacts
<1>3. c # NoHash /\ c \in Content /\ c \in Hash /\ c # rows[p].synced
          /\ view[p].hash = rows[p].synced
  BY <1>0, <1>2 DEF PlanOK, Types, DiskTypes, Hash
<1>4. UNCHANGED <<files, stubs, rows, mode, aside, litter, remote, losers, scan, sources, cur,
                  owed, gone, pc, pinned, arrived>>
  BY <1>1 DEF disk, log_vars
<1>5. /\ DOMAIN objects' \subseteq Path \X Content /\ ObjHash \subseteq ObjHash'
      /\ \A d : Known(d) => Known(d)'
      /\ Known(c)'
      /\ \A q \in Path : \A d : Health(q, d) = "good" => Health(q, d)' = "good"
  BY <1>0, <1>1, <1>3, ObjectsGrow
<1>6. /\ Views'
      /\ view' \in [Path -> VerType]
      /\ \A q \in Path : (view'[q].hash = NoHash => view'[q] = Absent) /\ Known(view[q].hash)'
      /\ deltas' \subseteq [path : Path, hash : Hash]
      /\ deltas \subseteq deltas' /\ \A d \in deltas' \ deltas : d.path = p /\ d.hash = c
      /\ \A q \in Path \ {p} : view'[q] = view[q]
      /\ view'[p].hash = c
      /\ \A q, d : Logged(q, d)' <=> Logged(q, d) \/ (q = p /\ d = c)
  BY <1>0, <1>1, <1>2, <1>3, <1>4, <1>5, LogViews DEF VerType
<1>7. ActsAt(p)
  BY <1>2, <1>4, <1>6 DEF ActsAt
<1>8. Spares(p) /\ Careful(p)
  <2>1. \A q : (Planned(q, "DeleteRemote") => Planned(q, "DeleteRemote")')
            /\ (Logged(q, NoHash) => Logged(q, NoHash)')
    <3>1. \A q : Planned(q, "DeleteRemote") => [path |-> q, kind |-> "DeleteRemote"] \in plan'
              \/ q = p
      BY <1>2 DEF Planned
    <3> QED  BY <3>1, <1>2, <1>6 DEF Planned
  <2> QED  BY <1>0, <1>3, <1>4, <1>5, <1>7, <2>1, QuietAct
<1>9. Completes(p)
  <2> PICK o : o = Op("confirm", p, c)
    OBVIOUS
  <2>1. o \in OpType /\ o.path = p /\ o.hash = c /\ o.kind = "confirm"
    BY <1>3 DEF Op, OpType
  <2>2. ConfirmOK(p, c)'
    <3>1. \A d \in owed : ~PendingLoser(p, d)
      BY <1>0, <1>2, <1>3 DEF Rec1, InPass
    <3>2. \A d \in owed : ~PendingLoser(p, d)'
      BY <3>1, <1>4 DEF PendingLoser
    <3> QED  BY <3>2, <1>3, <1>4, <1>6 DEF ConfirmOK
  <2>3. OpOK(o)'
    BY <2>1, <2>2 DEF OpOK
  <2>4. \A d \in deltas' \ deltas : DeltaOK(d)'
    BY <1>2, <1>3, <1>4, <1>6 DEF DeltaOK
  <2>5. files'[p] # NoHash /\ p \notin arrived' => stubs'[p].of # p
    BY <1>0, <1>2, <1>4 DEF Plan1
  <2>6. ~Planned(p, "Relocate") /\ ~Planned(p, "DeleteRemote")
    BY <1>2
  <2>7. \A s \in sources : Logged(s.to, s.hash)' => Logged(s.to, s.hash)
    <3>1. \A s \in sources : s.to # p
      BY <1>0, <1>2, <1>3 DEF Rec1, InPass
    <3> QED  BY <3>1, <1>6
  <2> QED  BY <1>1, <1>2, <1>4, <1>5, <2>1, <2>3, <2>4, <2>5, <2>6, <2>7 DEF Completes
<1>10. files' \in [Path -> Hash] /\ stubs' \in [Path -> StubType] /\ rows' \in [Path -> RowType]
  BY <1>0, <1>4 DEF Types, DiskTypes, StubType, RowType
<1> QED  BY <1>5, <1>6, <1>7, <1>8, <1>9, <1>10, ActParts

(* A step of the plan that changes no more than the plan and the queue. *)
LEMMA QueueKeeps ==
    ASSUME NEW p, NEW k, Parts, Take(p, k), k # "Relocate",
           UNCHANGED <<disk, rows, mode, log_vars, objects, pc, view, scan, sources, pinned,
                       arrived, deltas, cur, owed, gone>>,
           k = "DeleteRemote" =>
               /\ \A a \in plan : a.kind # "Relocate"
               /\ \A q \in Path : InOps(q) /\ Foreign(q) /\ stubs[q].of = p /\ Relies(p)
                      => StillNamed(p, q),
           \/ ops' = ops
           \/ \E o \in OpType : ops' = Append(ops, o) /\ o.path = p /\ OpOK(o)' /\ Known(o.hash)'
    PROVE  Parts'
<1>0. Types /\ Stages /\ Stored /\ NamesApart /\ Views /\ Kept1 /\ Kept2 /\ Kept3 /\ KeptS
          /\ Plan1 /\ Plan2 /\ Rec1 /\ Rec2
  BY DEF Parts
<1>2. /\ p \in Path /\ pc = "apply" /\ Planned(p, k) /\ InPlan(p) /\ ~InOps(p) /\ ~InDeltas(p)
             /\ p \notin arrived
      /\ plan' \subseteq plan /\ ~InPlan(p)' /\ \A a \in plan \ plan' : a.path = p
      /\ \A j : Planned(p, j) => j = k
  BY <1>0, TakeFacts
<1>4. UNCHANGED <<files, stubs, rows, mode, aside, litter, remote, losers, view, scan, sources,
                  cur, owed, gone, pc, pinned, arrived, deltas, objects>>
  BY DEF disk, log_vars
<1>5. /\ DOMAIN objects' \subseteq Path \X Content /\ ObjHash \subseteq ObjHash'
      /\ \A d : Known(d)' <=> Known(d)
      /\ \A q \in Path : \A d : Health(q, d) = "good" => Health(q, d)' = "good"
  BY <1>0, <1>4, ObjectsSame
<1>7. ActsAt(p)
  BY <1>2, <1>4 DEF ActsAt
<1>8. Spares(p) /\ Careful(p)
  <2>1. \A q : q # p /\ Planned(q, "DeleteRemote") => Planned(q, "DeleteRemote")'
    BY <1>2 DEF Planned
  <2>2. \A q : Logged(q, NoHash) <=> Logged(q, NoHash)'
    BY <1>4 DEF Logged
  <2>3. \A q, o \in Path : InOps(q) /\ Foreign(q) /\ stubs[q].of = o /\ Relies(o) =>
               \/ StillNamed(o, q)
               \/ Planned(o, "DeleteRemote") \/ Logged(o, NoHash) =>
                      Planned(o, "DeleteRemote")' \/ Logged(o, NoHash)'
    <3> TAKE q, o \in Path
    <3> HAVE InOps(q) /\ Foreign(q) /\ stubs[q].of = o /\ Relies(o)
    <3>1. CASE o # p
      BY <3>1, <2>1, <2>2
    <3>2. CASE o = p /\ k = "DeleteRemote"
      BY <3>2
    <3>3. CASE o = p /\ k # "DeleteRemote"
      BY <3>3, <2>2, <1>2
    <3> QED  BY <3>1, <3>2, <3>3
  <2> QED  BY <1>0, <1>4, <1>5, <1>7, <2>3, QuietAct
<1>9. Completes(p)
  <2>1. files'[p] # NoHash /\ p \notin arrived' => stubs'[p].of # p
    BY <1>0, <1>2, <1>4 DEF Plan1
  <2>2. ~Planned(p, "Relocate")
    BY <1>2
  <2>3. \A s \in sources : Logged(s.to, s.hash)' => Logged(s.to, s.hash)
    BY <1>4 DEF Logged
  <2>4. Planned(p, "DeleteRemote") => \A a \in plan : a.kind # "Relocate"
    BY <1>2
  <2> QED  BY <1>2, <1>4, <2>1, <2>2, <2>3, <2>4 DEF Completes
<1>10. files' \in [Path -> Hash] /\ stubs' \in [Path -> StubType] /\ rows' \in [Path -> RowType]
           /\ view' \in [Path -> VerType]
       /\ deltas' \subseteq [path : Path, hash : Hash]
  BY <1>0, <1>4 DEF Types, DiskTypes, LogTypes, PassTypes, StubType, RowType, VerType
<1>11. \A q \in Path : (view'[q].hash = NoHash => view'[q] = Absent) /\ Known(view[q].hash)'
  <2>1. \A q \in Path : Known(view[q].hash) /\ view'[q] = view[q]
    BY <1>0, <1>4 DEF Stored
  <2>2. \A q \in Path : Known(view[q].hash)'
    BY <2>1, <1>4, <1>5 DEF Known
  <2> QED  BY <2>2, <1>0, <1>4 DEF Types, LogTypes
<1>12. Views'
  BY <1>0, <1>4, <1>2 DEF Views, Evicting
<1> QED  BY <1>5, <1>7, <1>8, <1>9, <1>10, <1>11, <1>12, ActParts

(* A transfer that fails pins the sources and drops the action. *)
LEMMA TransferFailsKeeps ==
    ASSUME NEW p \in Path, Parts, TransferFails(p)
    PROVE  Parts'
<1>1. PICK k \in {"Download", "Hydrate", "Upload"} : Take(p, k)
  BY DEF TransferFails
<1> QED  BY <1>1, QueueKeeps DEF TransferFails

(* A placeholder is queued, for a version that is in the store. *)
LEMMA PlacePlaceholderKeeps ==
    ASSUME NEW p \in Path, Parts, PlacePlaceholder(p)
    PROVE  Parts'
<1>0. Types /\ Stages /\ Stored /\ NamesApart /\ Views /\ Kept1 /\ Kept2 /\ Kept3 /\ KeptS
          /\ Plan1 /\ Plan2 /\ Rec1 /\ Rec2
  BY DEF Parts
<1>1. PICK k \in StubKind : Take(p, k)
  BY DEF PlacePlaceholder
<1>2. k # "Relocate" /\ k # "DeleteRemote" /\ "Relocate" \in TransferKind
  BY DEF StubKind, TransferKind
<1>3. UNCHANGED <<files, stubs, rows, mode, aside, litter, remote, losers, view, scan, sources,
                  cur, owed, gone, pc, pinned, arrived, deltas, objects>>
  BY DEF PlacePlaceholder, disk, log_vars
<1>4. /\ pc = "apply" /\ PlanOK(p, k) /\ scan[p] = files[p] /\ view[p] = remote[p]
  BY <1>0, <1>1, TakeFacts
<1>5. files[p] = NoHash /\ view[p].hash # NoHash /\ ~Foreign(p)
  BY <1>4 DEF PlanOK
<1>6. CASE p \in pinned
  <2>1. ops' = ops
    BY <1>6 DEF PlacePlaceholder
  <2> QED  BY <2>1, <1>1, <1>2, QueueKeeps DEF PlacePlaceholder
<1>7. CASE p \notin pinned
  <2> PICK c : c = view[p].hash
    OBVIOUS
  <2> PICK o : o = Op("stub", p, c)
    OBVIOUS
  <2>1. ops' = Append(ops, o)
    BY <1>7 DEF PlacePlaceholder
  <2>2. c \in Hash /\ o \in OpType /\ o.path = p /\ o.hash = c /\ o.kind = "stub"
    BY <1>0 DEF Op, OpType, Types, LogTypes
  <2>3. Known(c)'
    <3>1. Known(c)
      BY <1>0 DEF Stored
    <3> QED  BY <3>1, <1>3, ObjectsStay
  <2>4. StubOK(p, c)'
    <3>1. \A a \in plan : a.kind # "Relocate"
      BY <1>2 DEF PlacePlaceholder, Late
    <3>2. \A d \in owed : PendingLoser(p, d) =>
              \E s \in sources : s.path = p /\ s.hash = d /\ Logged(s.to, s.hash)
                  /\ ~Foreign(s.to) /\ Sound(s.to, d)
      <4> TAKE d \in owed
      <4> HAVE PendingLoser(p, d)
      <4>1. PICK s \in sources : s.path = p /\ s.hash = d /\ stubs[s.to] = NoStub
        BY <1>0, <1>4 DEF Plan2
      <4>2. Logged(s.to, s.hash)
        BY <4>1, <3>1, <1>0, <1>4, <1>7 DEF Plan2, Planned
      <4>3. Sound(s.to, d)
        BY <4>1, <4>2, <1>0, <1>4 DEF Rec1, InPass
      <4>4. ~Foreign(s.to)
        BY <4>1 DEF Foreign, NoStub
      <4> QED  BY <4>1, <4>2, <4>3, <4>4
    <3>3. \A q, d : Health(q, d)' = Health(q, d)
      BY <1>3, ObjectsStay
    <3>4. \A q \in Path : \A d : (Sound(q, d) => Sound(q, d)') /\ (Logged(q, d) => Logged(q, d)')
      BY <1>3, <3>3 DEF Sound, OnDisk, Contents, Logged
    <3>5. \A q \in Path : Foreign(q)' <=> Foreign(q)
      BY <1>3 DEF Foreign
    <3>6. \A s \in sources : s.to \in Path
      BY <1>0 DEF Types, PassTypes
    <3>7. \A d : PendingLoser(p, d)' => PendingLoser(p, d)
      BY <1>3 DEF PendingLoser
    <3>8. \A d \in owed' : PendingLoser(p, d)' =>
              \E s \in sources' : s.path = p /\ s.hash = d /\ Done(s)' /\ ~Foreign(s.to)'
                  /\ Sound(s.to, d)'
      <4> TAKE d \in owed'
      <4> HAVE PendingLoser(p, d)'
      <4>1. PICK s \in sources : s.path = p /\ s.hash = d /\ Logged(s.to, s.hash)
                /\ ~Foreign(s.to) /\ Sound(s.to, d)
        BY <3>2, <3>7, <1>3
      <4>2. Done(s)'
        BY <4>1, <3>4, <3>6, <1>3, <1>4 DEF Done
      <4> QED  BY <4>1, <4>2, <3>4, <3>5, <3>6, <1>3
    <3> QED  BY <1>3, <1>4, <1>5, <3>5, <3>8 DEF StubOK
  <2>5. OpOK(o)'
    BY <2>2, <2>4 DEF OpOK
  <2> QED  BY <1>1, <1>2, <2>1, <2>2, <2>3, <2>5, QueueKeeps DEF PlacePlaceholder
<1> QED  BY <1>6, <1>7

(* A path with a file, or with another action, is no relocation's target. *)
LEMMA NotATarget ==
    ASSUME NEW p \in Path, Types, Rec1, Plan2, pc = "apply",
           files[p] # NoHash \/ (~Foreign(p) /\ \A s \in sources : s.to = p => ~LoserSource(s))
    PROVE  \A s \in sources : s.to # p
<1> SUFFICES ASSUME NEW s \in sources, s.to = p PROVE FALSE
  OBVIOUS
<1>1. files[p] = NoHash /\ s.to # s.path /\ s.path \in Path
  BY DEF Rec1, InPass, Types, PassTypes
<1>2. MovedSource(s)
  BY <1>1 DEF Plan2
<1> QED  BY <1>1, <1>2, PathAssumption DEF MovedSource, Foreign

(* The manifest of a step that logs nothing. *)
LEMMA ViewsSame ==
    ASSUME Types, Stages, Stored, Views, pc = "apply", pc' = "apply", UNCHANGED <<view, remote,
                                                                                  deltas>>,
           \A d : Known(d) => Known(d)'
    PROVE  /\ Views' /\ view' \in [Path -> VerType]
                  /\ deltas' \subseteq [path : Path, hash : Hash]
           /\ \A q \in Path : (view'[q].hash = NoHash => view'[q] = Absent)
                  /\ Known(view[q].hash)'
           /\ \A q, c : Logged(q, c)' <=> Logged(q, c)
<1>1. \A q \in Path : (view'[q].hash = NoHash => view'[q] = Absent) /\ Known(view[q].hash)'
  <2>1. \A q \in Path : Known(view[q].hash) /\ view'[q] = view[q]
    BY DEF Stored
  <2>2. \A q \in Path : Known(view[q].hash)'
    BY <2>1 DEF Known
  <2> QED  BY <2>2 DEF Types, LogTypes
<1>2. Views'
  BY DEF Views, Evicting
<1> QED  BY <1>1, <1>2 DEF Types, LogTypes, PassTypes, VerType, Logged

(* Hydrate, the file being there already. *)
LEMMA HydratedKeeps ==
    ASSUME NEW p \in Path, Parts, Hydrated(p)
    PROVE  Parts'
<1>0. Types /\ Stages /\ Stored /\ NamesApart /\ Views /\ Kept1 /\ Kept2 /\ Kept3 /\ KeptS
          /\ Plan1 /\ Plan2 /\ Rec1 /\ Rec2
  BY DEF Parts
<1>1. p \in arrived /\ pc = "apply" /\ ArrivedOK(p)
  BY <1>0 DEF Hydrated, Stages, Plan1
<1>2. /\ ~InPlan(p) /\ ~InOps(p) /\ ~InDeltas(p)
      /\ files[p] = view[p].hash /\ view[p].hash # NoHash /\ ~Foreign(p) /\ NoLoserAt(p)
      /\ scan[p] = NoHash
  BY <1>1 DEF ArrivedOK
<1>3. UNCHANGED <<files, rows, mode, aside, litter, remote, losers, objects, view, scan, plan,
                  sources, pinned, deltas, cur, owed, gone, pc>>
  BY DEF Hydrated, log_vars
<1>4. /\ stubs' \in [Path -> StubType] /\ stubs'[p] = NoStub
             /\ \A q \in Path \ {p} : stubs'[q] = stubs[q]
  <2>1. NoStub \in StubType
    BY DEF NoStub, StubType, Hash
  <2> QED  BY <1>0, <2>1 DEF Hydrated, Types, DiskTypes, StubType
<1>5. arrived' = arrived \ {p}
  BY DEF Hydrated
<1>6. /\ DOMAIN objects' \subseteq Path \X Content /\ ObjHash \subseteq ObjHash'
      /\ \A d : Known(d)' <=> Known(d)
      /\ \A q \in Path : \A d : Health(q, d) = "good" => Health(q, d)' = "good"
  BY <1>0, <1>3, ObjectsSame
<1>7. ActsAt(p)
  <2>1. ~InPlan(p)'
    BY <1>2, <1>3 DEF InPlan
  <2> QED  BY <2>1, <1>1, <1>2, <1>3, <1>4, <1>5 DEF ActsAt
<1>8. \A s \in sources : s.to # p /\ s.to \in Path
  BY <1>0, <1>1, <1>2, NotATarget DEF Types, PassTypes
<1>9. \A d \in owed : ~PendingLoser(p, d)
  BY <1>0, <1>1, <1>2 DEF Plan2, NoLoserAt
<1>10. Spares(p)
  <2>1. \A q \in Path : Relies(q)' => Relies(q) /\ q # p
    BY <1>2, <1>3 DEF Relies
  <2>2. \A q, r \in Path : q # p /\ Sits(r, q, remote[q].hash) => Sits(r, q, remote[q].hash)'
    <3> SUFFICES ASSUME NEW q \in Path, NEW r \in Path, q # p,
                        Sits(r, q, remote[q].hash) PROVE r # p
      BY <1>3, <1>4 DEF Sits
    <3> QED  BY <1>2, PathAssumption DEF Sits, Foreign
  <2>3. \A d : OnDisk(d) => OnDisk(d)'
    BY <1>3 DEF OnDisk, Contents
  <2>4. \A q, d : (Planned(q, d) => Planned(q, d)') /\ (Logged(q, d) => Logged(q, d)')
    BY <1>3 DEF Planned, Logged
  <2> QED  BY <1>3, <1>4, <1>6, <1>8, <2>1, <2>2, <2>3, <2>4 DEF Spares
<1>11. Careful(p)
  <2>1. ~Foreign(p)'
    BY <1>4 DEF Foreign, NoStub
  <2>2. Apart(p)' => Apart(p)
    BY <1>3 DEF Apart
  <2>3. \A d : PendingLoser(p, d)' <=> PendingLoser(p, d)
    BY <1>3 DEF PendingLoser
  <2> QED  BY <1>2, <1>3, <1>9, <2>1, <2>2, <2>3 DEF Careful
<1>12. Completes(p)
  <2> PICK c : c = view[p].hash
    OBVIOUS
  <2> PICK o : o = Op("confirm", p, c)
    OBVIOUS
  <2>1. ops' = Append(ops, o)
    BY DEF Hydrated
  <2>2. c \in Hash /\ o \in OpType /\ o.path = p /\ o.hash = c /\ o.kind = "confirm"
    BY <1>0 DEF Op, OpType, Types, LogTypes
  <2>3. Known(c)'
    BY <1>0, <1>6 DEF Stored
  <2>4. ConfirmOK(p, c)'
    BY <1>2, <1>3, <1>9 DEF ConfirmOK, PendingLoser
  <2>5. OpOK(o)'
    BY <2>2, <2>4 DEF OpOK
  <2>6. stubs'[p].of # p
    BY <1>4, PathAssumption DEF NoStub
  <2>7. ~Planned(p, "Relocate") /\ ~Planned(p, "DeleteRemote")
    BY <1>2 DEF Planned, InPlan
  <2>8. \A s \in sources : Logged(s.to, s.hash)' => Logged(s.to, s.hash)
    BY <1>3 DEF Logged
  <2>9. p \notin arrived'
    BY <1>5
  <2> QED  BY <1>3, <1>8, <2>1, <2>2, <2>3, <2>5, <2>6, <2>7, <2>8, <2>9 DEF Completes
<1>13. files' \in [Path -> Hash] /\ rows' \in [Path -> RowType]
  BY <1>0, <1>3 DEF Types, DiskTypes, RowType
<1>14. /\ Views' /\ view' \in [Path -> VerType] /\ deltas' \subseteq [path : Path, hash : Hash]
       /\ \A q \in Path : (view'[q].hash = NoHash => view'[q] = Absent) /\ Known(view[q].hash)'
  BY <1>0, <1>1, <1>3, <1>6, ViewsSame
<1> QED  BY <1>4, <1>6, <1>7, <1>10, <1>11, <1>12, <1>13, <1>14, ActParts

(* Download and hydrate: the file that is replaced was in sync. *)
LEMMA DownloadKeeps ==
    ASSUME NEW p \in Path, NEW k, Parts, Download(p, k)
    PROVE  Parts'
<1>0. Types /\ Stages /\ Stored /\ NamesApart /\ Views /\ Kept1 /\ Kept2 /\ Kept3 /\ KeptS
          /\ Plan1 /\ Plan2 /\ Rec1 /\ Rec2
  BY DEF Parts
<1>1. k \in {"Download", "Hydrate"} /\ Take(p, k)
  BY DEF Download
<1>2. /\ pc = "apply" /\ Planned(p, k) /\ InPlan(p) /\ ~InOps(p) /\ ~InDeltas(p)
             /\ p \notin arrived
      /\ PlanOK(p, k) /\ scan[p] = files[p] /\ view[p] = remote[p]
      /\ plan' \subseteq plan /\ ~InPlan(p)' /\ \A a \in plan \ plan' : a.path = p
      /\ \A j : Planned(p, j) => j = k
      /\ \A l \in losers : l.path = p => l.hash # files[p]
      /\ \A s \in sources : s.to = p => ~LoserSource(s)
  BY <1>0, <1>1, TakeFacts
<1>3. UNCHANGED <<stubs, rows, mode, aside, litter, remote, losers, objects, view, scan, sources,
                  pinned, deltas, cur, owed, gone, pc>>
  BY DEF Download, log_vars
<1>4. CASE Health(p, view[p].hash) # "good"
  <2>1. UNCHANGED <<files, arrived, ops>>
    BY <1>4 DEF Download
  <2> QED  BY <2>1, <1>1, QueueKeeps DEF Download, disk
<1>5. CASE Health(p, view[p].hash) = "good"
  <2> PICK c : c = view[p].hash
    OBVIOUS
  <2>1. /\ files' = [files EXCEPT ![p] = c]
        /\ k = "Hydrate" => arrived' = arrived \cup {p} /\ UNCHANGED ops
        /\ k = "Download" => ops' = Append(ops, Op("confirm", p, c)) /\ UNCHANGED arrived
    BY <1>5, <1>1 DEF Download
  <2>2. /\ c \in Hash /\ c # NoHash /\ ~Foreign(p) /\ c = remote[p].hash
        /\ k = "Download" => files[p] = rows[p].synced /\ c # rows[p].synced /\ stubs[p].of # p
                             /\ (files[p] = NoHash => ~rows[p].evicted)
        /\ k = "Hydrate" => files[p] = NoHash /\ NoLoserAt(p)
    BY <1>0, <1>1, <1>2 DEF PlanOK, Types, LogTypes
  <2>3. files' \in [Path -> Hash] /\ files'[p] = c /\ \A q \in Path \ {p} : files'[q] = files[q]
    BY <1>0, <2>1, <2>2 DEF Types, DiskTypes
  <2>4. arrived' \subseteq arrived \cup {p} /\ arrived \subseteq arrived' \cup {p}
    BY <1>1, <2>1
  <2>5. ActsAt(p)
    BY <1>2, <1>3, <2>3, <2>4 DEF ActsAt
  <2>6. /\ DOMAIN objects' \subseteq Path \X Content /\ ObjHash \subseteq ObjHash'
        /\ \A d : Known(d)' <=> Known(d)
        /\ \A q \in Path : \A d : Health(q, d) = "good" => Health(q, d)' = "good"
    BY <1>0, <1>3, ObjectsSame
  <2>7. /\ Views' /\ view' \in [Path -> VerType] /\ deltas' \subseteq [path : Path, hash : Hash]
        /\ \A q \in Path : (view'[q].hash = NoHash => view'[q] = Absent) /\ Known(view[q].hash)'
        /\ \A q, d : Logged(q, d)' <=> Logged(q, d)
    BY <1>0, <1>2, <1>3, <2>6, ViewsSame
  <2>8. \A s \in sources : s.to # p /\ s.to \in Path
    BY <1>0, <1>2, <2>2, NotATarget DEF Types, PassTypes
  <2>9. \A d \in owed : ~PendingLoser(p, d)
    <3> SUFFICES ASSUME NEW d \in owed, PendingLoser(p, d) PROVE FALSE
      OBVIOUS
    <3>1. CASE k = "Hydrate"
      BY <3>1, <1>0, <1>2, <2>2 DEF Plan2, NoLoserAt
    <3>2. CASE k = "Download"
      <4>1. [path |-> p, hash |-> d] \in losers /\ rows[p].evicted /\ rows[p].synced = d
        BY DEF PendingLoser
      <4>2. d # files[p]
        <5>1. \A l : l = [path |-> p, hash |-> d] => l.path = p /\ l.hash = d
          OBVIOUS
        <5> QED  BY <5>1, <4>1, <1>2
      <4> QED  BY <4>1, <4>2, <3>2, <2>2
    <3> QED  BY <3>1, <3>2, <1>1
  <2>10. \A d \in owed : OnDisk(d) => OnDisk(d)'
    <3>1. ~(files[p] \in owed)
      <4> SUFFICES ASSUME files[p] \in owed PROVE FALSE
        OBVIOUS
      <4>1. files[p] # NoHash
        BY <1>0, ContentAssumption DEF Types, LogTypes
      <4>2. files[p] = rows[p].synced /\ remote[p].hash # files[p]
        BY <4>1, <2>2, <1>1
      <4>3. Lost(p, files[p])
        BY <4>1, <4>2, <1>0 DEF Kept2
      <4>4. \A l : l = [path |-> p, hash |-> files[p]] => l.path = p /\ l.hash = files[p]
        OBVIOUS
      <4> QED  BY <4>3, <4>4, <1>2 DEF Lost
    <3>2. \A d \in owed : d \in Contents => d \in Contents'
      <4> SUFFICES ASSUME NEW d \in owed, NEW q \in Path, files[q] = d PROVE d \in Contents'
        BY DEF Contents
      <4>1. q # p
        BY <3>1
      <4> QED  BY <4>1, <2>3 DEF Contents
    <3> QED  BY <3>2, <1>3 DEF OnDisk
  <2>11. Spares(p)
    <3>1. \A q \in Path : Relies(q)' => Relies(q)
      BY <1>3, <2>2, <2>3 DEF Relies
    <3>2. \A q, r \in Path : Sits(r, q, remote[q].hash) => Sits(r, q, remote[q].hash)'
      BY <1>3 DEF Sits
    <3>3. \A q : q # p /\ Planned(q, "DeleteRemote") => Planned(q, "DeleteRemote")'
      BY <1>2 DEF Planned
    <3>4. ~Planned(p, "DeleteRemote")
      BY <1>1, <1>2
    <3> QED  BY <1>3, <2>3, <2>6, <2>7, <2>8, <2>10, <3>1, <3>2, <3>3, <3>4 DEF Spares
  <2>12. Careful(p)
    <3>1. Foreign(p)' <=> Foreign(p)
      BY <1>3 DEF Foreign
    <3>2. ~Apart(p)'
      BY <1>3, <2>2, <2>3 DEF Apart
    <3>3. \A d : PendingLoser(p, d)' <=> PendingLoser(p, d)
      BY <1>3 DEF PendingLoser
    <3>4. remote[p] # Absent
      BY <2>2 DEF Absent
    <3> QED  BY <1>3, <2>2, <2>3, <2>9, <3>1, <3>2, <3>3, <3>4 DEF Careful
  <2>13. Completes(p)
    <3> PICK o : o = Op("confirm", p, c)
      OBVIOUS
    <3>1. o \in OpType /\ o.path = p /\ o.hash = c /\ o.kind = "confirm"
      BY <2>2 DEF Op, OpType
    <3>2. Known(c)'
      BY <1>0, <2>6 DEF Stored
    <3>3. ConfirmOK(p, c)'
      BY <1>3, <2>2, <2>3, <2>9 DEF ConfirmOK, PendingLoser
    <3>4. OpOK(o)'
      BY <3>1, <3>3 DEF OpOK
    <3>5. p \in arrived' => ArrivedOK(p)'
      <4> SUFFICES ASSUME p \in arrived' PROVE ArrivedOK(p)'
        OBVIOUS
      <4>1. k = "Hydrate" /\ ops' = ops
        BY <1>1, <1>2, <2>1
      <4>2. ~InOps(p)' /\ ~InDeltas(p)' /\ ~Foreign(p)' /\ NoLoserAt(p)'
        BY <4>1, <1>2, <1>3, <2>2 DEF InOps, InDeltas, Foreign, NoLoserAt
      <4> QED  BY <4>1, <4>2, <1>2, <1>3, <2>2, <2>3 DEF ArrivedOK
    <3>6. p \notin arrived' => stubs'[p].of # p
      BY <1>1, <1>3, <2>1, <2>2
    <3>7. ~Planned(p, "Relocate") /\ ~Planned(p, "DeleteRemote")
      BY <1>1, <1>2
    <3>8. \/ ops' = ops
          \/ \E x \in OpType : ops' = Append(ops, x) /\ x.path = p /\ OpOK(x)' /\ Known(x.hash)'
      BY <1>1, <2>1, <3>1, <3>2, <3>4
    <3> QED  BY <1>3, <2>7, <2>8, <3>5, <3>6, <3>7, <3>8 DEF Completes
  <2>14. stubs' \in [Path -> StubType] /\ rows' \in [Path -> RowType]
    BY <1>0, <1>3 DEF Types, DiskTypes, RowType, StubType
  <2> QED  BY <2>3, <2>5, <2>6, <2>7, <2>11, <2>12, <2>13, <2>14, ActParts
<1> QED  BY <1>4, <1>5

(* DeleteLocal: the file that goes was deleted elsewhere and unchanged here. *)
LEMMA DeleteLocalKeeps ==
    ASSUME NEW p \in Path, Parts, DeleteLocal(p)
    PROVE  Parts'
<1>0. Types /\ Stages /\ Stored /\ NamesApart /\ Views /\ Kept1 /\ Kept2 /\ Kept3 /\ KeptS
          /\ Plan1 /\ Plan2 /\ Rec1 /\ Rec2
  BY DEF Parts
<1>1. Take(p, "DeleteLocal")
  BY DEF DeleteLocal
<1>2. /\ pc = "apply" /\ InPlan(p) /\ ~InOps(p) /\ ~InDeltas(p) /\ p \notin arrived
      /\ PlanOK(p, "DeleteLocal") /\ scan[p] = files[p] /\ view[p] = remote[p]
      /\ plan' \subseteq plan /\ ~InPlan(p)' /\ \A a \in plan \ plan' : a.path = p
      /\ \A j : Planned(p, j) => j = "DeleteLocal"
      /\ \A l \in losers : l.path = p => l.hash # files[p]
      /\ \A s \in sources : s.to = p => ~LoserSource(s)
  BY <1>0, <1>1, TakeFacts
<1>3. UNCHANGED <<rows, mode, aside, litter, remote, losers, objects, view, scan, sources, pinned,
                  deltas, cur, owed, gone, pc, arrived>>
  BY DEF DeleteLocal, log_vars
<1>4. /\ view[p].hash = NoHash /\ view[p] = Absent /\ remote[p] = Absent /\ ~Foreign(p)
             /\ rows[p].synced # NoHash
      /\ files[p] \in {NoHash, rows[p].synced}
  BY <1>0, <1>2 DEF PlanOK, Types, LogTypes
<1>5. /\ files' \in [Path -> Hash] /\ files'[p] = NoHash
             /\ \A q \in Path \ {p} : files'[q] = files[q]
      /\ stubs' \in [Path -> StubType] /\ stubs'[p] = NoStub
             /\ \A q \in Path \ {p} : stubs'[q] = stubs[q]
  <2>1. NoStub \in StubType /\ NoHash \in Hash
    BY DEF NoStub, StubType, Hash
  <2> QED  BY <1>0, <2>1 DEF DeleteLocal, Types, DiskTypes, StubType
<1>6. /\ DOMAIN objects' \subseteq Path \X Content /\ ObjHash \subseteq ObjHash'
      /\ \A d : Known(d)' <=> Known(d)
      /\ \A q \in Path : \A d : Health(q, d) = "good" => Health(q, d)' = "good"
  BY <1>0, <1>3, ObjectsSame
<1>7. ActsAt(p)
  BY <1>2, <1>3, <1>5 DEF ActsAt
<1>8. \A s \in sources : s.to # p /\ s.to \in Path
  BY <1>0, <1>2, <1>4, NotATarget DEF Types, PassTypes
<1>9. \A d \in owed : OnDisk(d) => OnDisk(d)'
  <2>1. ~(files[p] \in owed)
    <3> SUFFICES ASSUME files[p] \in owed PROVE FALSE
      OBVIOUS
    <3>1. files[p] # NoHash
      BY <1>0, ContentAssumption DEF Types, LogTypes
    <3>2. files[p] = rows[p].synced /\ remote[p].hash # files[p]
      BY <3>1, <1>4 DEF Absent
    <3>3. Lost(p, files[p])
      BY <3>1, <3>2, <1>0 DEF Kept2
    <3>4. \A l : l = [path |-> p, hash |-> files[p]] => l.path = p /\ l.hash = files[p]
      OBVIOUS
    <3> QED  BY <3>3, <3>4, <1>2 DEF Lost
  <2>2. \A d \in owed : d \in Contents => d \in Contents'
    <3> SUFFICES ASSUME NEW d \in owed, NEW q \in Path, files[q] = d PROVE d \in Contents'
      BY DEF Contents
    <3>1. q # p
      BY <2>1
    <3> QED  BY <3>1, <1>5 DEF Contents
  <2> QED  BY <2>2, <1>3 DEF OnDisk
<1>10. Spares(p)
  <2>1. \A q \in Path : Relies(q)' => Relies(q) /\ q # p
    BY <1>3, <1>4, <1>5 DEF Relies, Absent
  <2>2. \A q, r \in Path : q # p /\ Sits(r, q, remote[q].hash) => Sits(r, q, remote[q].hash)'
    <3> SUFFICES ASSUME NEW q \in Path, NEW r \in Path, q # p,
                        Sits(r, q, remote[q].hash) PROVE r # p
      BY <1>3, <1>5 DEF Sits
    <3> QED  BY <1>4, PathAssumption DEF Sits, Foreign
  <2>3. \A q : q # p /\ Planned(q, "DeleteRemote") => Planned(q, "DeleteRemote")'
    BY <1>2 DEF Planned
  <2>4. ~Planned(p, "DeleteRemote")
    BY <1>2
  <2>5. \A q, d : Logged(q, d) => Logged(q, d)'
    BY <1>3 DEF Logged
  <2> QED  BY <1>3, <1>5, <1>6, <1>8, <1>9, <2>1, <2>2, <2>3, <2>4, <2>5 DEF Spares
<1>11. Careful(p)
  <2>1. ~Foreign(p)' /\ ~Apart(p)'
    BY <1>3, <1>4, <1>5 DEF Foreign, NoStub, Apart, Absent
  <2>2. \A d : PendingLoser(p, d)' <=> PendingLoser(p, d)
    BY <1>3 DEF PendingLoser
  <2>3. NoHash \notin owed
    BY <1>0, ContentAssumption DEF Types, LogTypes
  <2> QED  BY <1>3, <1>4, <1>5, <2>1, <2>2, <2>3 DEF Careful
<1>12. Completes(p)
  <2> PICK o : o = Op("remove", p, NoHash)
    OBVIOUS
  <2>1. ops' = Append(ops, o)
    BY DEF DeleteLocal
  <2>2. o \in OpType /\ o.path = p /\ o.hash = NoHash /\ o.kind = "remove"
    BY DEF Op, OpType, Hash
  <2>3. Known(NoHash)'
    BY DEF Known
  <2>5. OpOK(o)'
    BY <2>2, <1>3, <1>4 DEF OpOK
  <2>7. ~Planned(p, "Relocate") /\ ~Planned(p, "DeleteRemote")
    BY <1>2
  <2>8. \A s \in sources : Logged(s.to, s.hash)' => Logged(s.to, s.hash)
    BY <1>3 DEF Logged
  <2> QED  BY <1>2, <1>3, <1>5, <1>8, <2>1, <2>2, <2>3, <2>5, <2>7, <2>8 DEF Completes
<1>13. rows' \in [Path -> RowType]
  BY <1>0, <1>3 DEF Types, DiskTypes, RowType
<1>14. /\ Views' /\ view' \in [Path -> VerType] /\ deltas' \subseteq [path : Path, hash : Hash]
       /\ \A q \in Path : (view'[q].hash = NoHash => view'[q] = Absent) /\ Known(view[q].hash)'
  BY <1>0, <1>2, <1>3, <1>6, ViewsSame
<1> QED  BY <1>5, <1>6, <1>7, <1>10, <1>11, <1>12, <1>13, <1>14, ActParts

(* DeleteRemote comes after the relocations and spares what is pinned. *)
LEMMA DeleteRemoteKeeps ==
    ASSUME NEW p \in Path, Parts, DeleteRemote(p)
    PROVE  Parts'
<1>0. Types /\ Stages /\ Stored /\ NamesApart /\ Views /\ Kept1 /\ Kept2 /\ Kept3 /\ KeptS
          /\ Plan1 /\ Plan2 /\ Rec1 /\ Rec2
  BY DEF Parts
<1>1. Take(p, "DeleteRemote")
  BY DEF DeleteRemote
<1>2. /\ pc = "apply" /\ InPlan(p) /\ ~InOps(p) /\ ~InDeltas(p) /\ p \notin arrived
      /\ PlanOK(p, "DeleteRemote") /\ scan[p] = files[p] /\ view[p] = remote[p]
      /\ plan' \subseteq plan /\ ~InPlan(p)' /\ \A a \in plan \ plan' : a.path = p
      /\ \A j : Planned(p, j) => j = "DeleteRemote"
  BY <1>0, <1>1, TakeFacts
<1>3. UNCHANGED <<files, stubs, rows, mode, aside, litter, remote, losers, objects, scan, sources,
                  pinned, cur, owed, gone, pc, arrived>>
  BY DEF DeleteRemote, disk, log_vars
<1>4. \A a \in plan : a.kind # "Relocate"
  BY DEF DeleteRemote, AfterStubs, Late, TransferKind
<1>5. /\ files[p] = NoHash /\ view[p].hash = rows[p].synced /\ rows[p].synced # NoHash
             /\ stubs[p] = NoStub
      /\ view[p].hash \in owed => \E s \in sources : s.path = p /\ s.hash = view[p].hash
  BY <1>2 DEF PlanOK
<1>6. CASE p \in pinned
  <2>1. UNCHANGED <<deltas, view, ops>>
    BY <1>6 DEF DeleteRemote
  <2>2. ASSUME NEW q \in Path, InOps(q), Foreign(q), stubs[q].of = p, Relies(p)
        PROVE  StillNamed(p, q)
    <3>1. PICK s \in sources : s.path = p /\ ~InOps(s.to) /\ ~InPlan(s.to)
      BY <1>0, <1>2, <1>6 DEF Plan2
    <3>2. s.to \in Path /\ s.to # p /\ s.to # q
      BY <3>1, <2>2, <1>0, <1>2 DEF Rec1, InPass, Types, PassTypes
    <3>3. CASE LoserSource(s)
      BY <3>1, <3>3, <2>2 DEF LoserSource, Relies, StillNamed
    <3>4. CASE MovedSource(s)
      <4>1. stubs[s.to].of = p
        BY <3>1, <3>4 DEF MovedSource
      <4>2. p \notin {NoPath, s.to, q}
        BY <3>2, <2>2, PathAssumption DEF Foreign
      <4> QED  BY <4>1, <4>2, <3>2, <2>2, <1>0 DEF NamesApart
    <3> QED  BY <3>1, <3>3, <3>4, <1>0, <1>2 DEF Plan2
  <2> QED  BY <1>1, <1>4, <2>1, <2>2, QueueKeeps DEF DeleteRemote
<1>7. CASE p \notin pinned
  <2>1. Log(p, NoHash) /\ ops' = Append(ops, Op("remove", p, NoHash))
    BY <1>7 DEF DeleteRemote
  <2>2. /\ DOMAIN objects' \subseteq Path \X Content /\ ObjHash \subseteq ObjHash'
        /\ \A d : Known(d) => Known(d)'
        /\ \A q \in Path : \A d : Health(q, d) = "good" => Health(q, d)' = "good"
    BY <1>0, <1>3, ObjectsSame
  <2>3. NoHash \in Hash /\ Known(NoHash)'
    BY DEF Hash, Known
  <2>4. /\ Views'
        /\ view' \in [Path -> VerType]
        /\ \A q \in Path : (view'[q].hash = NoHash => view'[q] = Absent) /\ Known(view[q].hash)'
        /\ deltas' \subseteq [path : Path, hash : Hash]
        /\ deltas \subseteq deltas' /\ \A d \in deltas' \ deltas : d.path = p /\ d.hash = NoHash
        /\ \A q \in Path \ {p} : view'[q] = view[q]
        /\ view'[p].hash = NoHash /\ view'[p] = Absent
        /\ \A q, d : Logged(q, d)' <=> Logged(q, d) \/ (q = p /\ d = NoHash)
    BY <1>0, <1>2, <1>3, <2>1, <2>2, <2>3, LogViews DEF VerType
  <2>5. ActsAt(p)
    BY <1>2, <1>3, <2>4 DEF ActsAt
  <2>6. Spares(p) /\ Careful(p)
    <3>1. \A q : q # p /\ Planned(q, "DeleteRemote") => Planned(q, "DeleteRemote")'
      BY <1>2 DEF Planned
    <3>2. \A q : Planned(q, "DeleteRemote") \/ Logged(q, NoHash)
              => Planned(q, "DeleteRemote")' \/ Logged(q, NoHash)'
      BY <3>1, <2>4
    <3> QED  BY <1>0, <1>3, <2>2, <2>4, <2>5, <3>2, QuietAct
  <2>7. Completes(p)
    <3> PICK o : o = Op("remove", p, NoHash)
      OBVIOUS
    <3>1. o \in OpType /\ o.path = p /\ o.hash = NoHash /\ o.kind = "remove"
      BY <2>3 DEF Op, OpType
    <3>2. OpOK(o)'
      BY <3>1, <2>4 DEF OpOK
    <3>3. \A d \in deltas' \ deltas : DeltaOK(d)'
      <4>1. remote[p].hash \in owed => \E s \in sources : s.path = p /\ s.hash = remote[p].hash
                /\ Logged(s.to, s.hash)'
        <5> HAVE remote[p].hash \in owed
        <5>1. PICK s \in sources : s.path = p /\ s.hash = remote[p].hash
          BY <1>2, <1>5
        <5>2. ~Planned(s.to, "Relocate")
          <6>1. \A a : a = [path |-> s.to, kind |-> "Relocate"] => a.kind = "Relocate"
            OBVIOUS
          <6> QED  BY <6>1, <1>4 DEF Planned
        <5>3. Logged(s.to, s.hash)
          BY <5>1, <5>2, <1>0, <1>2, <1>7 DEF Plan2
        <5> QED  BY <5>1, <5>3, <2>4
      <4> QED  BY <4>1, <1>2, <1>3, <1>5, <2>4 DEF DeltaOK
    <3>4. \A s \in sources : Logged(s.to, s.hash)' => Logged(s.to, s.hash)
      <4>1. \A s \in sources : s.hash # NoHash
        BY <1>0, ContentAssumption DEF Types, PassTypes
      <4> QED  BY <4>1, <2>4
    <3>5. ~Planned(p, "Relocate")
      BY <1>2
    <3> QED  BY <1>2, <1>3, <1>4, <1>5, <2>1, <2>3, <3>1, <3>2, <3>3, <3>4, <3>5 DEF Completes
  <2>8. files' \in [Path -> Hash] /\ stubs' \in [Path -> StubType] /\ rows' \in [Path -> RowType]
    BY <1>0, <1>3 DEF Types, DiskTypes, StubType, RowType
  <2> QED  BY <2>2, <2>4, <2>5, <2>6, <2>7, <2>8, ActParts
<1> QED  BY <1>6, <1>7

(* Conflict: our version is renamed before the other one arrives. *)
LEMMA ConflictKeeps ==
    ASSUME NEW p \in Path, Parts, Conflict(p)
    PROVE  Parts'
<1>0. Types /\ Stages /\ Stored /\ NamesApart /\ Views /\ Kept1 /\ Kept2 /\ Kept3 /\ KeptS
          /\ Plan1 /\ Plan2 /\ Rec1 /\ Rec2
  BY DEF Parts
<1>1. Take(p, "Conflict")
  BY DEF Conflict
<1>2. /\ pc = "apply" /\ InPlan(p) /\ ~InOps(p) /\ ~InDeltas(p) /\ p \notin arrived
      /\ PlanOK(p, "Conflict") /\ scan[p] = files[p] /\ view[p] = remote[p]
      /\ plan' \subseteq plan /\ ~InPlan(p)' /\ \A a \in plan \ plan' : a.path = p
      /\ \A j : Planned(p, j) => j = "Conflict"
      /\ \A l \in losers : l.path = p => l.hash # files[p]
  BY <1>0, <1>1, TakeFacts
<1>3. UNCHANGED <<stubs, mode, aside, litter, remote, losers, objects, view, scan, sources,
                  pinned, deltas, ops, cur, owed, gone, pc, arrived>>
  BY DEF Conflict, log_vars
<1>4. \/ files[p] # NoHash /\ files[p] # rows[p].synced
      \/ files[p] = NoHash /\ ~rows[p].evicted /\ rows[p].synced # NoHash
  BY <1>2 DEF PlanOK
<1>5. /\ rows' \in [Path -> RowType] /\ rows'[p] = NoRow
             /\ \A q \in Path \ {p} : rows'[q] = rows[q]
  <2>1. NoRow \in RowType
    BY DEF NoRow, RowType, Hash
  <2> QED  BY <1>0, <2>1 DEF Conflict, Types, DiskTypes, RowType
<1>6. /\ files' \in [Path -> Hash] /\ files'[p] = NoHash
      /\ \A q \in Path \ {p} : files'[q] = files[q] \/ Unused(q)
      /\ \A d : d \in Contents => d \in Contents' \/ d = NoHash
      /\ \A q \in Path : files[q] = NoHash /\ files'[q] # NoHash => Unused(q)
      /\ \A s \in sources : files'[s.to] = files[s.to]
  <2>1. CASE files[p] = NoHash
    <3>1. files' = files
      BY <2>1 DEF Conflict
    <3> QED  BY <3>1, <2>1, <1>0 DEF Contents, Types, DiskTypes
  <2>2. CASE files[p] # NoHash
    <3>1. PICK q \in Path : Unused(q) /\ files' = [files EXCEPT ![p] = NoHash, ![q] = files[p]]
      BY <2>2, FreshIsUnused DEF Conflict
    <3>2. q # p /\ \A s \in sources : s.to # q
      BY <3>1, <2>2 DEF Unused
    <3>3. \A s \in sources : s.to # p /\ s.to \in Path
      BY <2>2, <1>0, <1>2, NotATarget DEF Types, PassTypes
    <3>4. NoHash \in Hash /\ files[p] \in Hash
      BY <1>0 DEF Hash, Types, DiskTypes
    <3>5. /\ files' \in [Path -> Hash] /\ files'[p] = NoHash /\ files'[q] = files[p]
          /\ \A r \in Path \ {p, q} : files'[r] = files[r]
      BY <3>1, <3>2, <3>4, <1>0 DEF Types, DiskTypes
    <3>6. \A d : d \in Contents => d \in Contents' \/ d = NoHash
      <4> SUFFICES ASSUME NEW r \in Path PROVE files[r] \in Contents'
        BY DEF Contents
      <4> QED  BY <3>5, <3>1, <2>2 DEF Contents, Unused
    <3>7. \A s \in sources : files'[s.to] = files[s.to]
      BY <3>2, <3>3, <3>5
    <3> QED  BY <3>1, <3>5, <3>6, <3>7
  <2> QED  BY <2>1, <2>2
<1>7. /\ DOMAIN objects' \subseteq Path \X Content /\ ObjHash \subseteq ObjHash'
      /\ \A d : Known(d)' <=> Known(d)
      /\ \A q \in Path : \A d : Health(q, d) = "good" => Health(q, d)' = "good"
  BY <1>0, <1>3, ObjectsSame
<1>8. ActsAt(p)
  BY <1>2, <1>3, <1>5, <1>6 DEF ActsAt
<1>9. \A d \in owed : ~PendingLoser(p, d)
  <2> SUFFICES ASSUME NEW d \in owed, PendingLoser(p, d) PROVE FALSE
    OBVIOUS
  <2>1. [path |-> p, hash |-> d] \in losers /\ rows[p].evicted /\ rows[p].synced = d
    BY DEF PendingLoser
  <2>2. files[p] # NoHash /\ files[p] = d
    BY <1>0, <1>4, <2>1 DEF Kept3
  <2>3. \A l : l = [path |-> p, hash |-> d] => l.path = p /\ l.hash = d
    OBVIOUS
  <2> QED  BY <2>1, <2>2, <2>3, <1>2
<1>10. NoHash \notin owed
  BY <1>0, ContentAssumption DEF Types, LogTypes
<1>11. Spares(p)
  <2>1. \A q \in Path : Relies(q)' => Relies(q)
    <3> SUFFICES ASSUME NEW q \in Path, Relies(q)' PROVE Relies(q)
      OBVIOUS
    <3>1. q # p
      BY <1>5 DEF Relies, NoRow
    <3>2. files'[q] = files[q] \/ remote[q].hash = NoHash
      BY <3>1, <1>6 DEF Unused, Absent
    <3> QED  BY <3>1, <3>2, <1>3, <1>5 DEF Relies
  <2>2. \A q, r \in Path : Sits(r, q, remote[q].hash) => Sits(r, q, remote[q].hash)'
    BY <1>3 DEF Sits
  <2>3. \A q : q # p /\ Planned(q, "DeleteRemote") => Planned(q, "DeleteRemote")'
    BY <1>2 DEF Planned
  <2>4. ~Planned(p, "DeleteRemote")
    BY <1>2
  <2>5. \A q, d : Logged(q, d) => Logged(q, d)'
    BY <1>3 DEF Logged
  <2>6. \A d \in owed : OnDisk(d) => OnDisk(d)'
    BY <1>3, <1>6, <1>10 DEF OnDisk
  <2> QED  BY <1>3, <1>6, <1>7, <2>1, <2>2, <2>3, <2>4, <2>5, <2>6 DEF Spares
<1>12. Careful(p)
  <2>1. ~Apart(p)'
    BY <1>5 DEF Apart, NoRow
  <2>2. \A d : ~PendingLoser(p, d)'
    BY <1>5 DEF PendingLoser, NoRow
  <2>3. rows'[p].synced = NoHash
    BY <1>5 DEF NoRow
  <2> QED  BY <1>3, <1>5, <1>6, <1>9, <1>10, <2>1, <2>2, <2>3 DEF Careful
<1>13. Completes(p)
  <2>1. ~Planned(p, "Relocate") /\ ~Planned(p, "DeleteRemote")
    BY <1>2
  <2>2. \A s \in sources : Logged(s.to, s.hash)' => Logged(s.to, s.hash)
    BY <1>3 DEF Logged
  <2> QED  BY <1>2, <1>3, <1>6, <2>1, <2>2 DEF Completes
<1>14. stubs' \in [Path -> StubType]
  BY <1>0, <1>3 DEF Types, DiskTypes, StubType
<1>15. /\ Views' /\ view' \in [Path -> VerType] /\ deltas' \subseteq [path : Path, hash : Hash]
       /\ \A q \in Path : (view'[q].hash = NoHash => view'[q] = Absent) /\ Known(view[q].hash)'
  BY <1>0, <1>2, <1>3, <1>7, ViewsSame
<1> QED  BY <1>5, <1>6, <1>7, <1>8, <1>11, <1>12, <1>13, <1>14, <1>15, ActParts

(* Relocate: the copy is stored and announced, or the source is pinned. *)
LEMMA RelocateKeeps ==
    ASSUME NEW s \in sources, Parts, Relocate(s)
    PROVE  Parts'
<1>0. Types /\ Stages /\ Stored /\ NamesApart /\ Views /\ Kept1 /\ Kept2 /\ Kept3 /\ KeptS
          /\ Plan1 /\ Plan2 /\ Rec1 /\ Rec2
  BY DEF Parts
<1> PICK p : p = s.to
  OBVIOUS
<1> PICK c : c = s.hash
  OBVIOUS
<1>1. Take(p, "Relocate")
  BY DEF Relocate
<1>2. /\ p \in Path /\ pc = "apply" /\ Planned(p, "Relocate") /\ InPlan(p) /\ ~InOps(p)
             /\ ~InDeltas(p) /\ p \notin arrived
      /\ scan[p] = files[p]
      /\ plan' \subseteq plan /\ ~InPlan(p)' /\ \A a \in plan \ plan' : a.path = p
      /\ \A j : Planned(p, j) => j = "Relocate"
  BY <1>0, <1>1, TakeFacts
<1>3. UNCHANGED <<files, stubs, rows, mode, aside, litter, remote, losers, scan, sources, cur,
                  owed, gone, pc, arrived>>
  BY DEF Relocate, disk, log_vars
<1>4. /\ files[p] = NoHash /\ scan[p] = NoHash /\ p # s.path /\ s.path \in Path /\ c \in Content
             /\ c # NoHash
      /\ \A t \in sources : t.to = p => t = s
  BY <1>0, <1>2, ContentAssumption DEF Rec1, InPass, OneTarget, Types, PassTypes
<1>5. \A q : Planned(q, "DeleteRemote") => Planned(q, "DeleteRemote")'
  <2>1. \A q : q # p /\ Planned(q, "DeleteRemote") => Planned(q, "DeleteRemote")'
    BY <1>2 DEF Planned
  <2> QED  BY <2>1, <1>2
<1>6. files' \in [Path -> Hash] /\ stubs' \in [Path -> StubType] /\ rows' \in [Path -> RowType]
  BY <1>0, <1>3 DEF Types, DiskTypes, StubType, RowType
<1>7. CASE /\ SetHealth(p, c, "good") /\ Log(p, c) /\ ops' = Append(ops, Op("stub", p, c))
          /\ UNCHANGED pinned
  <2>1. /\ DOMAIN objects' \subseteq Path \X Content /\ ObjHash \subseteq ObjHash'
        /\ \A d : Known(d) => Known(d)'
        /\ Known(c)'
        /\ \A q \in Path : \A d : Health(q, d) = "good" => Health(q, d)' = "good"
        /\ Health(p, c)' = "good"
    BY <1>0, <1>2, <1>4, <1>7, ObjectsGrow
  <2>2. c \in Hash
    BY <1>4 DEF Hash
  <2>3. /\ Views'
        /\ view' \in [Path -> VerType]
        /\ \A q \in Path : (view'[q].hash = NoHash => view'[q] = Absent) /\ Known(view[q].hash)'
        /\ deltas' \subseteq [path : Path, hash : Hash]
        /\ deltas \subseteq deltas' /\ \A d \in deltas' \ deltas : d.path = p /\ d.hash = c
        /\ \A q \in Path \ {p} : view'[q] = view[q]
        /\ view'[p].hash = c
        /\ \A q, d : Logged(q, d)' <=> Logged(q, d) \/ (q = p /\ d = c)
    BY <1>0, <1>2, <1>3, <1>7, <2>1, <2>2, LogViews DEF VerType
  <2>4. ActsAt(p)
    BY <1>2, <1>3, <1>7, <2>3 DEF ActsAt
  <2>5. Spares(p) /\ Careful(p)
    BY <1>0, <1>3, <1>4, <1>5, <2>1, <2>3, <2>4, QuietAct
  <2>6. StubOK(p, c)'
    <3>1. \A d \in owed : PendingLoser(p, d)' => Foreign(p)'
      <4> SUFFICES ASSUME NEW d \in owed, PendingLoser(p, d) PROVE Foreign(p)
        BY <1>3 DEF PendingLoser, Foreign
      <4>1. ~LoserSource(s)
        <5>1. [path |-> p, hash |-> d] \in losers
          BY DEF PendingLoser
        <5>2. \A l : l = [path |-> p, hash |-> d] => l.path = p
          OBVIOUS
        <5> QED  BY <5>1, <5>2 DEF LoserSource
      <4>2. MovedSource(s)
        BY <4>1, <1>0, <1>2 DEF Plan2
      <4> QED  BY <4>2, <1>4, PathAssumption DEF MovedSource, Foreign
    <3>2. \A o \in Path : Foreign(p) /\ stubs[p].of = o /\ Relies(o) =>
              StillNamed(o, p) \/ Planned(o, "DeleteRemote")
      <4> TAKE o \in Path
      <4> HAVE Foreign(p) /\ stubs[p].of = o /\ Relies(o)
      <4>1. MovedSource(s)
        BY <1>0, <1>2 DEF Plan2, LoserSource, Foreign, NoStub
      <4>2. o = s.path
        BY <4>1 DEF MovedSource
      <4> QED  BY <4>1, <4>2, <1>0, <1>2 DEF Plan2
    <3>3. \A o \in Path : /\ Relies(o)' => Relies(o)
                          /\ StillNamed(o, p) => StillNamed(o, p)'
      BY <1>3 DEF Relies, StillNamed, Sits, Lost
    <3>4. Foreign(p)' <=> Foreign(p)
      BY <1>3 DEF Foreign
    <3>5. Foreign(p) => stubs[p].of \in Path
      BY <1>0, <1>2 DEF Foreign, Types, DiskTypes
    <3>6. Foreign(p)' /\ Relies(stubs[p].of)' =>
              StillNamed(stubs[p].of, p)' \/ Planned(stubs[p].of, "DeleteRemote")'
      <4> HAVE Foreign(p)' /\ Relies(stubs[p].of)'
      <4> PICK o : o = stubs[p].of
        OBVIOUS
      <4>0. stubs'[p].of = o
        BY <1>3
      <4>1. o \in Path /\ Foreign(p) /\ Relies(o)
        BY <3>3, <3>4, <3>5, <4>0
      <4>2. StillNamed(o, p)' \/ Planned(o, "DeleteRemote")'
        BY <4>1, <3>2, <3>3, <1>5
      <4> QED  BY <4>0, <4>2
    <3> QED  BY <1>2, <1>3, <1>4, <2>3, <3>1, <3>6 DEF StubOK
  <2>7. Completes(p)
    <3> PICK o : o = Op("stub", p, c)
      OBVIOUS
    <3>1. o \in OpType /\ o.path = p /\ o.hash = c /\ o.kind = "stub"
      BY <1>2, <2>2 DEF Op, OpType
    <3>2. OpOK(o)'
      BY <3>1, <2>6 DEF OpOK
    <3>3. \A d \in deltas' \ deltas : DeltaOK(d)'
      BY <1>3, <2>3 DEF DeltaOK
    <3>4. \A t \in sources : Logged(t.to, t.hash)' => Logged(t.to, t.hash) \/ Sound(t.to, t.hash)'
      <4> TAKE t \in sources
      <4> HAVE Logged(t.to, t.hash)'
      <4>1. CASE t.to = p
        <5>1. t.hash = c
          BY <4>1, <1>4
        <5> QED  BY <4>1, <5>1, <2>1 DEF Sound
      <4>2. CASE t.to # p
        BY <4>2, <2>3
      <4> QED  BY <4>1, <4>2
    <3>5. \A t \in sources : t.to = p => Logged(t.to, t.hash)'
      BY <1>4, <2>3
    <3>6. ~Planned(p, "DeleteRemote")
      BY <1>2
    <3> QED  BY <1>2, <1>3, <1>4, <1>7, <2>1, <3>1, <3>2, <3>3, <3>4, <3>5, <3>6 DEF Completes
  <2> QED  BY <1>6, <2>1, <2>3, <2>4, <2>5, <2>7, ActParts
<1>8. CASE pinned' = pinned \cup {s.path} /\ UNCHANGED <<objects, view, deltas, ops>>
  <2>1. /\ DOMAIN objects' \subseteq Path \X Content /\ ObjHash \subseteq ObjHash'
        /\ \A d : Known(d)' <=> Known(d)
        /\ \A q \in Path : \A d : Health(q, d) = "good" => Health(q, d)' = "good"
    BY <1>0, <1>8, ObjectsSame
  <2>2. /\ Views' /\ view' \in [Path -> VerType] /\ deltas' \subseteq [path : Path, hash : Hash]
        /\ \A q \in Path : (view'[q].hash = NoHash => view'[q] = Absent) /\ Known(view[q].hash)'
        /\ \A q, d : Logged(q, d)' <=> Logged(q, d)
    BY <1>0, <1>2, <1>3, <1>8, <2>1, ViewsSame
  <2>3. ActsAt(p)
    BY <1>2, <1>3, <1>8 DEF ActsAt
  <2>4. Spares(p) /\ Careful(p)
    BY <1>0, <1>3, <1>4, <1>5, <1>8, <2>1, <2>2, <2>3, QuietAct
  <2>5. Completes(p)
    <3>1. ~InOps(p)'
      BY <1>2, <1>8 DEF InOps
    <3>2. \A q \in pinned' \ pinned : \E t \in sources : t.path = q /\ ~InOps(t.to)'
              /\ ~InPlan(t.to)'
      BY <3>1, <1>2, <1>8
    <3>3. \A t \in sources : t.to = p => t.path \in pinned'
      BY <1>4, <1>8
    <3>4. ~Planned(p, "DeleteRemote")
      BY <1>2
    <3> QED  BY <1>2, <1>3, <1>4, <1>8, <2>2, <3>1, <3>2, <3>3, <3>4 DEF Completes
  <2> QED  BY <1>6, <2>1, <2>2, <2>3, <2>4, <2>5, ActParts
<1> QED  BY <1>7, <1>8 DEF Relocate

(***************************************************************************)
(* The delta is logged.                                                    *)
(***************************************************************************)
(* The three kinds of delta. *)
UploadedAt(p, c) == c = files[p] /\ c # NoHash /\ remote[p].hash = rows[p].synced /\ ~Foreign(p)
RelocatedTo(p, c) ==
    /\ files[p] = NoHash /\ c # NoHash /\ ~Named(p)
    /\ \/ remote[p] = Absent /\ rows[p] = NoRow /\ stubs[p] = NoStub
       \/ Foreign(p) /\ stubs[p].of \in Path /\ c = remote[stubs[p].of].hash
Tombstoned(p, c) ==
    /\ c = NoHash /\ files[p] = NoHash /\ remote[p].hash = rows[p].synced
           /\ rows[p].synced # NoHash
    /\ remote[p].hash \in owed =>
           \E q \in Path \ {p} : /\ Logged(q, remote[p].hash) /\ Sound(q, remote[p].hash)
                                 /\ Foreign(q) => stubs[q].of = p

(* Every delta is one of these. *)
LEMMA LogDeltaFacts ==
    ASSUME Parts, LogDelta
    PROVE  /\ remote' = view /\ view' = view
           /\ \A p \in Path : remote'[p] = remote[p] \/ \E d \in deltas : d.path = p
           /\ \A d \in deltas :
                  /\ d.path \in Path /\ d.hash \in Hash /\ Logged(d.path, d.hash)
                         /\ remote'[d.path].hash = d.hash
                  /\ UploadedAt(d.path, d.hash) \/ RelocatedTo(d.path, d.hash)
                         \/ Tombstoned(d.path, d.hash)
<1>0. Types /\ Stages /\ Stored /\ NamesApart /\ Views /\ Kept1 /\ Kept2 /\ Kept3 /\ KeptS
          /\ Plan1 /\ Plan2 /\ Rec1 /\ Rec2
  BY DEF Parts
<1>1. pc = "apply" /\ plan = {} /\ arrived = {} /\ view' = view
  BY DEF LogDelta
<1>2. \A p \in Path : remote'[p] = view[p] /\ (remote'[p] = remote[p] \/ \E d \in deltas : d.path = p)
  <2> TAKE p \in Path
  <2>1. CASE \A d \in deltas : d.path # p
    <3>1. view[p] = remote[p]
      BY <2>1, <1>0, <1>1 DEF Views
    <3>2. remote'[p] = remote[p]
      BY <2>1 DEF LogDelta
    <3> QED  BY <3>1, <3>2
  <2>2. CASE \E d \in deltas : d.path = p
    <3> DEFINE d == CHOOSE d \in deltas : d.path = p
    <3>1. d \in deltas /\ d.path = p
      BY <2>2
    <3>2. remote'[p] = IF d.hash = NoHash THEN Absent ELSE [hash |-> d.hash, ours |-> TRUE]
      BY <2>2 DEF LogDelta
    <3> HIDE DEF d
    <3>3. view[d.path] = IF d.hash = NoHash THEN Absent ELSE [hash |-> d.hash, ours |-> TRUE]
      BY <1>0, <3>1 DEF Views
    <3> QED  BY <2>2, <3>1, <3>2, <3>3
  <2> QED  BY <2>1, <2>2
<1>3. remote' = view
  <2>1. remote' = [p \in Path |-> remote'[p]]
    BY DEF LogDelta
  <2>2. view = [p \in Path |-> view[p]]
    BY <1>0 DEF Types, LogTypes
  <2> QED  BY <2>1, <2>2, <1>2
<1>4. ASSUME NEW d \in deltas
      PROVE  /\ d.path \in Path /\ d.hash \in Hash /\ Logged(d.path, d.hash)
                    /\ remote'[d.path].hash = d.hash
             /\ UploadedAt(d.path, d.hash) \/ RelocatedTo(d.path, d.hash)
                    \/ Tombstoned(d.path, d.hash)
  <2>1. d \in [path : Path, hash : Hash]
    BY <1>0 DEF Types, PassTypes
  <2>2. d.path \in Path /\ d.hash \in Hash /\ Logged(d.path, d.hash)
    <3>1. d = [path |-> d.path, hash |-> d.hash]
      BY <2>1
    <3> QED  BY <2>1, <3>1 DEF Logged
  <2>3. remote'[d.path].hash = d.hash
    <3>1. view[d.path] = IF d.hash = NoHash THEN Absent ELSE [hash |-> d.hash, ours |-> TRUE]
      BY <1>0 DEF Views
    <3> QED  BY <3>1, <1>3 DEF Absent
  <2>4. DeltaOK(d)
    BY <1>0, <1>1 DEF Plan1
  <2>5. CASE d.hash # NoHash /\ d.hash = files[d.path]
            /\ remote[d.path].hash = rows[d.path].synced
    <3>1. ~Foreign(d.path)
      BY <2>2, <2>5, <1>0 DEF NamesApart
    <3> QED  BY <2>2, <2>3, <2>5, <3>1 DEF UploadedAt
  <2>6. ASSUME NEW s \in sources, s.to = d.path, s.hash = d.hash
        PROVE  RelocatedTo(d.path, d.hash)
    <3>1. files[s.to] = NoHash /\ s.to # s.path /\ s.path \in Path /\ s.hash # NoHash
      BY <1>0, <1>1, ContentAssumption DEF Rec1, InPass, Types, PassTypes
    <3>2. CASE LoserSource(s)
      BY <2>6, <3>1, <3>2 DEF LoserSource, RelocatedTo
    <3>3. CASE MovedSource(s)
      <4>1. Foreign(s.to)
        BY <3>1, <3>3, PathAssumption DEF MovedSource, Foreign
      <4> QED  BY <2>2, <2>6, <3>1, <3>3, <4>1, <1>0 DEF MovedSource, RelocatedTo, NamesApart
    <3> QED  BY <3>2, <3>3, <1>0, <1>1 DEF Plan2
  <2>7. CASE /\ d.hash = NoHash /\ files[d.path] = NoHash
             /\ remote[d.path].hash = rows[d.path].synced /\ rows[d.path].synced # NoHash
             /\ remote[d.path].hash \in owed =>
                    \E s \in sources : /\ s.path = d.path /\ s.hash = remote[d.path].hash
                                       /\ Logged(s.to, s.hash)
    <3>1. ASSUME NEW s \in sources, s.path = d.path, s.hash = remote[d.path].hash,
                 Logged(s.to, s.hash)
          PROVE  /\ s.to \in Path \ {d.path} /\ Logged(s.to, remote[d.path].hash)
                        /\ Sound(s.to, remote[d.path].hash)
                 /\ Foreign(s.to) => stubs[s.to].of = d.path
      <4>1. s.to \in Path /\ s.to # s.path /\ Sound(s.to, s.hash)
        BY <3>1, <1>0, <1>1 DEF Rec1, InPass, Types, PassTypes
      <4>2. Foreign(s.to) => stubs[s.to].of = s.path
        BY <1>0, <1>1 DEF Plan2, LoserSource, MovedSource, Foreign, NoStub
      <4> QED  BY <3>1, <4>1, <4>2
    <3>2. remote[d.path].hash \in owed =>
              \E q \in Path \ {d.path} :
                  /\ Logged(q, remote[d.path].hash) /\ Sound(q, remote[d.path].hash)
                  /\ Foreign(q) => stubs[q].of = d.path
      BY <2>7, <3>1
    <3>3. Tombstoned(d.path, d.hash)
      BY <2>7, <3>2 DEF Tombstoned
    <3> QED  BY <2>2, <2>3, <3>3
  <2> QED  BY <2>2, <2>3, <2>4, <2>5, <2>6, <2>7 DEF DeltaOK
<1> QED  BY <1>1, <1>2, <1>3, <1>4

(* What a delta replaces is relocated, is on disk or is not owed. *)
LEMMA LogDeltaKept ==
    ASSUME Parts, LogDelta
    PROVE  KeptS'
<1>0. Types /\ Stages /\ Stored /\ NamesApart /\ Views /\ Kept1 /\ Kept2 /\ Kept3 /\ KeptS
  BY DEF Parts
<1>1. /\ \A p \in Path : remote'[p] = remote[p] \/ \E d \in deltas : d.path = p
      /\ \A d \in deltas :
             /\ d.path \in Path /\ d.hash \in Hash /\ Logged(d.path, d.hash)
                    /\ remote'[d.path].hash = d.hash
             /\ UploadedAt(d.path, d.hash) \/ RelocatedTo(d.path, d.hash)
                    \/ Tombstoned(d.path, d.hash)
  BY LogDeltaFacts
<1>2. UNCHANGED <<files, stubs, aside, litter, rows, losers, objects, owed, gone>>
  BY DEF LogDelta, disk
<1>3. \A q, d : Health(q, d)' = Health(q, d)
  BY <1>2, ObjectsStay
<1>4. \A d : OnDisk(d)' <=> OnDisk(d)
  BY <1>2 DEF OnDisk, Contents
<1>5. \A q \in Path : /\ Foreign(q)' <=> Foreign(q)
                      /\ Foreign(q) => stubs[q].of \in Path \ {q} /\ Named(stubs[q].of)
  BY <1>0, <1>2 DEF Foreign, Named, Types, DiskTypes
<1>6. \A q, d : PendingLoser(q, d)' <=> PendingLoser(q, d)
  BY <1>2 DEF PendingLoser
<1>7. \A q \in Path : remote'[q].hash = NoHash <=> remote'[q] = Absent
  BY <1>0, LogDeltaFacts DEF Types, LogTypes, Absent
<1>8. \A q, d : Logged(q, d) => remote'[q].hash = d
  <2>1. \A q, d : Logged(q, d) => \E e \in deltas : e.path = q /\ e.hash = d
    <3>1. \A q, d, e : e = [path |-> q, hash |-> d] => e.path = q /\ e.hash = d
      OBVIOUS
    <3> QED  BY <3>1 DEF Logged
  <2> QED  BY <2>1, <1>1
<1>9. ASSUME NEW p \in Path, NEW c \in owed \ gone, Health(p, c) = "good",
             Live(p, c) \/ Waits(p, c), ~OnDisk(c)
      PROVE  \E q \in Path : Health(q, c) = "good" /\ (Live(q, c)' \/ Waits(q, c)')
  <2>0. c \in Content /\ c # NoHash
    BY <1>0, ContentAssumption DEF Types, LogTypes
  <2>1. ASSUME Tombstoned(p, NoHash), remote[p].hash = c, remote'[p].hash = NoHash
        PROVE  \E q \in Path : Health(q, c) = "good" /\ (Live(q, c)' \/ Waits(q, c)')
    <3>1. PICK q \in Path \ {p} : /\ Logged(q, c) /\ Sound(q, c)
                                  /\ Foreign(q) => stubs[q].of = p
      BY <2>1 DEF Tombstoned
    <3>2. Health(q, c) = "good"
      BY <3>1, <1>9 DEF Sound
    <3>3. remote'[q].hash = c
      BY <3>1, <1>8
    <3>4. Foreign(q)' => remote'[stubs[q].of] = Absent /\ files[stubs[q].of] = NoHash
      BY <3>1, <2>1, <1>5, <1>7 DEF Tombstoned
    <3> QED  BY <3>2, <3>3, <3>4, <1>2 DEF Live
  <2>2. CASE Live(p, c)
    <3>1. remote[p].hash = c /\ (Foreign(p) => remote[stubs[p].of] = Absent /\ files[stubs[p].of] = NoHash)
      BY <2>2 DEF Live
    <3>2. CASE remote'[p] = remote[p]
      <4>1. Foreign(p) => remote'[stubs[p].of] = Absent
        <5> HAVE Foreign(p)
        <5> PICK o : o = stubs[p].of
          OBVIOUS
        <5>1. o \in Path /\ Named(o) /\ remote[o] = Absent /\ files[o] = NoHash
          BY <3>1, <1>5
        <5>2. CASE remote'[o] = remote[o]
          BY <5>1, <5>2
        <5>3. ASSUME NEW d \in deltas, d.path = o
              PROVE  remote'[o] = Absent
          <6>1. UploadedAt(o, d.hash) \/ RelocatedTo(o, d.hash) \/ Tombstoned(o, d.hash)
            BY <5>3, <1>1
          <6>2. d.hash = NoHash
            BY <6>1, <5>1 DEF UploadedAt, RelocatedTo, Tombstoned
          <6> QED  BY <6>2, <5>1, <5>3, <1>1, <1>7
        <5> QED  BY <5>1, <5>2, <5>3, <1>1
      <4> QED  BY <3>1, <3>2, <4>1, <1>2, <1>5, <1>9 DEF Live
    <3>3. ASSUME NEW d \in deltas, d.path = p
          PROVE  \E q \in Path : Health(q, c) = "good" /\ (Live(q, c)' \/ Waits(q, c)')
      <4>1. remote'[p].hash = d.hash
        BY <3>3, <1>1
      <4>2. CASE UploadedAt(p, d.hash)
        <5>1. files[p] # c
          BY <1>9 DEF OnDisk, Contents
        <5>2. Apart(p) /\ ~Foreign(p) /\ files[p] # NoHash
          BY <4>2, <5>1, <3>1, <2>0, <1>9 DEF UploadedAt, Apart
        <5> QED  BY <5>2, <1>0 DEF Kept1
      <4>3. CASE RelocatedTo(p, d.hash)
        BY <4>3, <3>1, <2>0 DEF RelocatedTo, Absent
      <4>4. CASE Tombstoned(p, d.hash)
        <5>1. d.hash = NoHash
          BY <4>4 DEF Tombstoned
        <5> QED  BY <5>1, <4>1, <4>4, <2>1, <3>1
      <4> QED  BY <3>3, <4>2, <4>3, <4>4, <1>1
    <3> QED  BY <3>2, <3>3, <1>1
  <2>3. CASE Waits(p, c)
    <3>1. PendingLoser(p, c)' /\ ~Foreign(p)' /\ remote[p] # Absent /\ rows[p].synced = c
      BY <2>3, <1>5, <1>6 DEF Waits, PendingLoser
    <3>2. CASE remote'[p] # Absent
      BY <3>1, <3>2, <1>9 DEF Waits
    <3>3. CASE remote'[p] = Absent
      <4>1. PICK d \in deltas : d.path = p
        BY <3>1, <3>3, <1>1
      <4>2. d.hash = NoHash
        BY <4>1, <3>3, <1>1 DEF Absent
      <4>3. Tombstoned(p, NoHash)
        BY <4>1, <4>2, <1>1 DEF UploadedAt, RelocatedTo
      <4>4. remote[p].hash = c
        BY <4>3, <3>1 DEF Tombstoned
      <4> QED  BY <4>1, <4>2, <4>3, <4>4, <2>1, <1>1
    <3> QED  BY <3>2, <3>3
  <2> QED  BY <2>2, <2>3, <1>9
<1> QED
  <2> SUFFICES ASSUME NEW c \in owed \ gone, ~OnDisk(c) PROVE Held(c)'
    BY <1>2, <1>4 DEF KeptS, Held
  <2>1. PICK p \in Path : Health(p, c) = "good" /\ (Live(p, c) \/ Waits(p, c))
    BY <1>0 DEF KeptS, Held
  <2>2. PICK q \in Path : Health(q, c) = "good" /\ (Live(q, c)' \/ Waits(q, c)')
    BY <2>1, <1>9
  <2> QED  BY <2>2, <1>3 DEF Held

(* A logged delta keeps the rest. *)
LEMMA LogDeltaKeeps ==
    ASSUME Parts, LogDelta
    PROVE  Parts'
<1>0. Types /\ Stages /\ Stored /\ NamesApart /\ Views /\ Kept1 /\ Kept2 /\ Kept3 /\ KeptS
          /\ Plan1 /\ Plan2 /\ Rec1 /\ Rec2
  BY DEF Parts
<1>1. /\ \A p \in Path : remote'[p] = remote[p] \/ \E d \in deltas : d.path = p
      /\ \A d \in deltas :
             /\ d.path \in Path /\ d.hash \in Hash /\ Logged(d.path, d.hash)
                    /\ remote'[d.path].hash = d.hash
             /\ UploadedAt(d.path, d.hash) \/ RelocatedTo(d.path, d.hash)
                    \/ Tombstoned(d.path, d.hash)
  BY LogDeltaFacts
<1>2. /\ UNCHANGED <<files, stubs, aside, litter, rows, mode, losers, objects, scan, sources,
                     pinned, plan, arrived, ops, cur, owed, gone>>
      /\ pc = "apply" /\ pc' = "record" /\ plan = {} /\ arrived = {} /\ deltas' = {}
             /\ remote' = view /\ view' = view
  BY LogDeltaFacts DEF LogDelta, disk
<1>3. \A q, d : Health(q, d)' = Health(q, d)
  BY <1>2, ObjectsStay
<1>4. \A q \in Path : Foreign(q)' <=> Foreign(q)
  BY <1>2 DEF Foreign
<1>5. \A d : Known(d)' <=> Known(d)
  BY <1>2, ObjectsStay
<1>6. \A q, d : PendingLoser(q, d)' <=> PendingLoser(q, d)
  BY <1>2 DEF PendingLoser
<1>7. \A p \in Path : \/ remote'[p] = remote[p] /\ \A c : ~Logged(p, c)
                      \/ \E c \in Hash : /\ remote'[p].hash = c
                                         /\ UploadedAt(p, c) \/ RelocatedTo(p, c)
                                                \/ Tombstoned(p, c)
  <2> TAKE p \in Path
  <2>1. CASE \E d \in deltas : d.path = p
    BY <2>1, <1>1
  <2>2. CASE \A d \in deltas : d.path # p
    <3>1. \A c : ~Logged(p, c)
      <4>1. \A c, d : d = [path |-> p, hash |-> c] => d.path = p
        OBVIOUS
      <4> QED  BY <4>1, <2>2 DEF Logged
    <3> QED  BY <3>1, <2>2, <1>1
  <2> QED  BY <2>1, <2>2
<1>8. \A q, d : Logged(q, d) => remote'[q].hash = d
  <2>1. \A q, d : Logged(q, d) => \E e \in deltas : e.path = q /\ e.hash = d
    <3>1. \A q, d, e : e = [path |-> q, hash |-> d] => e.path = q /\ e.hash = d
      OBVIOUS
    <3> QED  BY <3>1 DEF Logged
  <2> QED  BY <2>1, <1>1
<1>10. DiskTypes' /\ LogTypes' /\ PassTypes' /\ Stages'
  <2>1. DiskTypes'
    BY <1>0, <1>2 DEF Types, DiskTypes
  <2>2. LogTypes'
    BY <1>0, <1>2 DEF Types, LogTypes, ObjHash
  <2>3. PassTypes' /\ Stages'
    BY <1>0, <1>2 DEF Types, PassTypes, Stages, Pcs, Evicting, Underway
  <2> QED  BY <2>1, <2>2, <2>3
<1>11. Stored'
  BY <1>0, <1>2, <1>5 DEF Stored, Known
<1>12. NamesApart'
  <2>1. \A p, q \in Path :
          /\ Foreign(q) /\ stubs[q].of = p /\ stubs[p].of = p
          /\ stubs[q].hash = remote'[p].hash /\ remote'[p].hash # NoHash
          => stubs[p].hash = remote'[p].hash
    <3> SUFFICES ASSUME NEW p \in Path, NEW q \in Path, Foreign(q), stubs[q].of = p,
                        stubs[p].of = p,
                        stubs[q].hash = remote'[p].hash, remote'[p].hash # NoHash
                 PROVE  stubs[p].hash = remote'[p].hash
      OBVIOUS
    <3>1. CASE remote'[p] = remote[p]
      BY <3>1, <1>0 DEF NamesApart
    <3>2. ASSUME NEW c \in Hash, remote'[p].hash = c,
                 UploadedAt(p, c) \/ RelocatedTo(p, c) \/ Tombstoned(p, c)
          PROVE  FALSE
      <4>1. files[p] = NoHash
        BY <1>0, <1>2, PathAssumption DEF Plan1
      <4>2. ~Foreign(p) /\ stubs[p] # NoStub
        BY PathAssumption DEF Foreign, NoStub
      <4> QED  BY <3>2, <4>1, <4>2 DEF UploadedAt, RelocatedTo, Tombstoned
    <3> QED  BY <3>1, <3>2, <1>7
  <2>2. /\ \A p \in Path : Foreign(p) => files[p] = NoHash /\ ~Named(p)
        /\ \A p, q \in Path : stubs[p].of = stubs[q].of /\ stubs[p].of \notin {NoPath, p, q}
               => p = q
    BY <1>0 DEF NamesApart
  <2> QED  BY <2>1, <2>2, <1>2, <1>4 DEF NamesApart, Named
<1>13. Views'
  BY <1>2 DEF Views
<1>14. Kept1'
  <2>1. ASSUME NEW p \in Path, Apart(p)', ~Foreign(p)
        PROVE  Apart(p) /\ remote'[p].hash = remote[p].hash
    <3>1. remote'[p].hash # NoHash /\ rows[p].synced = remote'[p].hash
              /\ files[p] # remote'[p].hash /\ remote'[p].hash \in owed
      BY <2>1, <1>2 DEF Apart
    <3>2. CASE remote'[p] = remote[p]
      BY <3>1, <3>2 DEF Apart
    <3>3. ASSUME NEW c \in Hash, remote'[p].hash = c,
                 UploadedAt(p, c) \/ RelocatedTo(p, c) \/ Tombstoned(p, c)
          PROVE  FALSE
      BY <3>1, <3>3, <2>1 DEF UploadedAt, RelocatedTo, Tombstoned, NoRow
    <3> QED  BY <3>2, <3>3, <1>7
  <2>2. \A p, q \in Path : \A c : Sits(q, p, c)' <=> Sits(q, p, c)
    BY <1>2 DEF Sits
  <2>3. ASSUME NEW p \in Path, Apart(p)', ~Foreign(p)'
        PROVE  /\ rows'[p].evicted /\ files'[p] = NoHash
               /\ (\E q \in Path : Sits(q, p, remote[p].hash)') \/ Lost(p, remote[p].hash)'
    <3>1. ~Foreign(p)
      BY <2>3, <1>4
    <3>2. Apart(p) /\ remote'[p].hash = remote[p].hash
      BY <2>1, <2>3, <3>1
    <3>3. rows[p].evicted /\ files[p] = NoHash
              /\ ((\E q \in Path : Sits(q, p, remote[p].hash)) \/ Lost(p, remote[p].hash))
      BY <3>1, <3>2, <1>0 DEF Kept1
    <3> QED  BY <3>2, <3>3, <1>2 DEF Sits, Lost
  <2> QED  BY <2>3 DEF Kept1
<1>15. Kept2'
  <2> SUFFICES ASSUME NEW p \in Path, files[p] # NoHash, files[p] = rows[p].synced,
                      files[p] \in owed
               PROVE  remote'[p].hash = files[p] \/ Lost(p, files[p])
    BY <1>2 DEF Kept2, Lost
  <2>1. remote[p].hash = files[p] \/ Lost(p, files[p])
    BY <1>0 DEF Kept2
  <2> QED  BY <2>1, <1>7 DEF UploadedAt, RelocatedTo, Tombstoned
<1>16. Kept3'
  BY <1>0, <1>2, <1>6 DEF Kept3
<1>17. KeptS'
  BY LogDeltaKept
<1>18. Plan1' /\ Plan2'
  BY <1>2 DEF Plan1, Plan2
<1>19. \A q \in Path : \A d : Sound(q, d)' <=> Sound(q, d)
  BY <1>2, <1>3 DEF Sound, OnDisk, Contents
<1>20. \A q, k : ~Planned(q, k)
  BY <1>2 DEF Planned
<1>21. Rec1'
  <2>1. /\ \A l \in losers : scan[l.path] # l.hash
        /\ \A s \in sources : files[s.to] = NoHash /\ scan[s.to] = NoHash /\ s.to # s.path
        /\ OneTarget
        /\ \A s \in sources : Logged(s.to, s.hash) => Sound(s.to, s.hash)
        /\ \A p \in Path : scan[p] # NoHash /\ files[p] = NoHash
               => rows[p].synced = NoHash \/ view[p].hash = NoHash
        /\ \A p \in Path, c \in owed : PendingLoser(p, c) => scan[p] = NoHash
    BY <1>0, <1>2 DEF Rec1, InPass
  <2>2. \A s \in sources : s.path \notin pinned => Sound(s.to, s.hash)
    BY <2>1, <1>0, <1>2, <1>20 DEF Plan2
  <2>3. \A s \in sources : s.to \in Path
    BY <1>0 DEF Types, PassTypes
  <2>4. \A s \in sources : Logged(s.to, s.hash)' \/ s.path \notin pinned' => Sound(s.to, s.hash)'
    BY <2>1, <2>2, <2>3, <1>2, <1>19 DEF Logged
  <2> QED  BY <2>1, <2>4, <1>2, <1>6 DEF Rec1, OneTarget
<1>22. Rec2'
  <2>1. ASSUME NEW i \in DOMAIN ops, NEW o, o = ops[i]
        PROVE  OpOK(o)'
    <3> PICK q : q = o.path
      OBVIOUS
    <3> PICK h : h = o.hash
      OBVIOUS
    <3>0. OpOK(o) /\ q \in Path
      <4>1. OpOK(ops[i]) /\ ops[i] \in OpType
        BY <1>0, <1>2 DEF Rec2, InPass, Types, PassTypes
      <4> QED  BY <4>1, <2>1 DEF OpType
    <3>1. o.kind = "confirm" => ConfirmOK(q, h)'
      BY <3>0, <1>2, <1>6 DEF OpOK, ConfirmOK
    <3>2. o.kind = "remove" => view'[q] = Absent
      BY <3>0, <1>2 DEF OpOK
    <3>3. ASSUME o.kind = "stub" PROVE StubOK(q, h)'
      <4>1. StubOK(q, h)
        BY <3>0, <3>3 DEF OpOK
      <4>2. \A s \in sources : Done(s) => Done(s)'
        BY <1>2, <1>8 DEF Done
      <4>3. \A s \in sources : s.to \in Path
        BY <1>0 DEF Types, PassTypes
      <4>4. \A c \in owed' : PendingLoser(q, c)' /\ ~Foreign(q)' =>
               \E s \in sources' : s.path = q /\ s.hash = c /\ Done(s)' /\ ~Foreign(s.to)'
                   /\ Sound(s.to, c)'
        BY <3>0, <4>1, <4>2, <4>3, <1>2, <1>4, <1>6, <1>19 DEF StubOK
      <4>5. ASSUME Foreign(q), NEW x \in Path, stubs[q].of = x, Relies(x)'
            PROVE  StillNamed(x, q)'
        <5>1. q # x /\ Named(x)
          BY <3>0, <4>5 DEF Foreign, Named
        <5>2. CASE remote'[x] = remote[x] /\ \A c : ~Logged(x, c)
          <6>1. Relies(x)
            BY <5>2, <4>5, <1>2 DEF Relies
          <6>2. StillNamed(x, q)
            BY <4>1, <4>5, <5>2, <6>1, <1>20 DEF StubOK
          <6> QED  BY <6>2, <5>2, <1>2 DEF StillNamed, Sits, Lost
        <5>3. ASSUME NEW c \in Hash, remote'[x].hash = c,
                     UploadedAt(x, c) \/ RelocatedTo(x, c) \/ Tombstoned(x, c)
              PROVE  FALSE
          BY <4>5, <5>1, <5>3, <1>2 DEF Relies, UploadedAt, RelocatedTo, Tombstoned
        <5> QED  BY <5>2, <5>3, <1>7
      <4>6. Foreign(q) => stubs[q].of \in Path
        BY <3>0, <1>0 DEF Foreign, Types, DiskTypes
      <4>7. Foreign(q)' /\ Relies(stubs[q].of)' => StillNamed(stubs[q].of, q)'
        <5> HAVE Foreign(q)' /\ Relies(stubs[q].of)'
        <5> PICK x : x = stubs[q].of
          OBVIOUS
        <5>1. x \in Path /\ Foreign(q) /\ stubs'[q].of = x
          BY <4>6, <1>2, <1>4, <3>0
        <5>2. Relies(x)'
          BY <5>1
        <5>3. StillNamed(x, q)'
          BY <5>1, <5>2, <4>5
        <5> QED  BY <5>1, <5>3
      <4>8. files'[q] = NoHash /\ scan'[q] = NoHash /\ view'[q].hash = h /\ h # NoHash
        BY <4>1, <1>2 DEF StubOK
      <4> QED  BY <4>4, <4>7, <4>8 DEF StubOK
    <3> QED  BY <3>1, <3>2, <3>3 DEF OpOK
  <2>2. \A i \in DOMAIN ops : OpOK(ops[i])'
    BY <2>1, <1>2
  <2> QED  BY <2>2, <1>0, <1>2 DEF Rec2, InPass, InOps, InPlan
<1> QED
  BY <1>10, <1>11, <1>12, <1>13, <1>14, <1>15, <1>16, <1>17, <1>18, <1>21, <1>22 DEF Parts, Types

(* What the delta tombstones. *)
LEMMA LogDeltaDeletes ==
    ASSUME NEW p \in Path, Parts, LogDelta, remote[p] # Absent, remote'[p] = Absent
    PROVE  \/ remote[p].hash \notin owed
           \/ \E q \in Path \ {p} : remote'[q].hash = remote[p].hash
<1>1. /\ remote'[p] = remote[p] \/ \E d \in deltas : d.path = p
      /\ \A d \in deltas :
             /\ d.path \in Path /\ d.hash \in Hash /\ Logged(d.path, d.hash)
                    /\ remote'[d.path].hash = d.hash
             /\ UploadedAt(d.path, d.hash) \/ RelocatedTo(d.path, d.hash)
                    \/ Tombstoned(d.path, d.hash)
  BY LogDeltaFacts
<1>2. PICK d \in deltas : d.path = p
  BY <1>1
<1>3. d.hash = NoHash
  BY <1>1, <1>2 DEF Absent
<1>4. Tombstoned(p, NoHash)
  BY <1>1, <1>2, <1>3 DEF UploadedAt, RelocatedTo
<1>5. \A q : Logged(q, remote[p].hash) => remote'[q].hash = remote[p].hash
  <2>1. \A q, c, e : e = [path |-> q, hash |-> c] => e.path = q /\ e.hash = c
    OBVIOUS
  <2> QED  BY <2>1, <1>1 DEF Logged
<1> QED  BY <1>4, <1>5 DEF Tombstoned

(***************************************************************************)
(* One update is recorded.                                                 *)
(***************************************************************************)
(* The three kinds of record. *)
Confirmed(p, h) ==
    /\ rows'[p] = Synced(h, FALSE) /\ UNCHANGED stubs
    /\ files[p] = h /\ h # NoHash /\ remote[p].hash = h
    /\ \A c \in owed : ~PendingLoser(p, c)
Placed(p, h) ==
    /\ rows'[p] = Synced(h, TRUE)
    /\ stubs'[p] = [of |-> p, hash |-> h] /\ \A q \in Path \ {p} : stubs'[q] = stubs[q]
    /\ files[p] = NoHash /\ scan[p] = NoHash /\ h # NoHash /\ remote[p].hash = h
    /\ \A c \in owed : PendingLoser(p, c) /\ ~Foreign(p) =>
           \E q \in Path : remote[q].hash = c /\ ~Foreign(q) /\ Sound(q, c)
    /\ \A x \in Path : Foreign(p) /\ stubs[p].of = x /\ Relies(x) => StillNamed(x, p)
Removed(p) == rows'[p] = NoRow /\ UNCHANGED stubs /\ remote[p] = Absent

(* The queue, one shorter. *)
LEMMA OpsTail ==
    ASSUME ops \in Seq(OpType), ops # <<>>, ops' = Tail(ops)
    PROVE  /\ Head(ops) \in OpType /\ Head(ops) = ops[1] /\ 1 \in DOMAIN ops
           /\ ops' \in Seq(OpType)
           /\ \A i \in DOMAIN ops' : i \in Nat /\ i + 1 \in DOMAIN ops /\ i + 1 # 1
                  /\ ops'[i] = ops[i + 1]
  OBVIOUS

(* Every record is one of these. *)
LEMMA RecordFacts ==
    ASSUME Types, Stages, Views, Rec2, Record
    PROVE  \E p \in Path, h \in Hash :
               /\ pc = "record" /\ plan = {} /\ deltas = {} /\ view = remote
               /\ Confirmed(p, h) \/ Placed(p, h) \/ Removed(p)
               /\ rows' \in [Path -> RowType] /\ stubs' \in [Path -> StubType]
               /\ \A q \in Path \ {p} : rows'[q] = rows[q]
               /\ ops' \in Seq(OpType)
               /\ \A i \in DOMAIN ops' : \E j \in DOMAIN ops : ops'[i] = ops[j] /\ ops[j].path # p
               /\ \A i, j \in DOMAIN ops' : ops'[i].path = ops'[j].path => i = j
<1>0. /\ pc = "record" /\ ops # <<>> /\ ops' = Tail(ops) /\ ops \in Seq(OpType)
      /\ plan = {} /\ arrived = {} /\ deltas = {}
  BY DEF Record, Types, PassTypes, Stages
<1>1. view = remote
  <2>1. \A p \in Path : view[p] = remote[p]
    BY <1>0 DEF Views
  <2> QED  BY <2>1 DEF Types, LogTypes
<1>2. /\ Head(ops) \in OpType /\ Head(ops) = ops[1] /\ 1 \in DOMAIN ops
      /\ ops' \in Seq(OpType)
      /\ \A i \in DOMAIN ops' : i \in Nat /\ i + 1 \in DOMAIN ops /\ i + 1 # 1
             /\ ops'[i] = ops[i + 1]
  BY <1>0, OpsTail
<1> PICK o : o = Head(ops)
  OBVIOUS
<1> PICK p : p = o.path
  OBVIOUS
<1> PICK h : h = o.hash
  OBVIOUS
<1>3. o \in OpType /\ p \in Path /\ h \in Hash /\ o.kind \in {"confirm", "stub", "remove"}
          /\ o = ops[1]
  BY <1>2 DEF OpType
<1>4. OpOK(o)
  BY <1>0, <1>2, <1>3 DEF Rec2, InPass
<1>5. /\ \A i, j \in DOMAIN ops : ops[i].path = ops[j].path => i = j
  BY <1>0 DEF Rec2, InPass
<1>6. \A i \in DOMAIN ops' : \E j \in DOMAIN ops : ops'[i] = ops[j] /\ ops[j].path # p
  <2> TAKE i \in DOMAIN ops'
  <2>1. i + 1 \in DOMAIN ops /\ i + 1 # 1 /\ ops'[i] = ops[i + 1]
    BY <1>2
  <2>2. ops[i + 1].path # p
    BY <2>1, <1>2, <1>3, <1>5
  <2> QED  BY <2>1, <2>2
<1>7. \A i, j \in DOMAIN ops' : ops'[i].path = ops'[j].path => i = j
  <2> TAKE i, j \in DOMAIN ops'
  <2> HAVE ops'[i].path = ops'[j].path
  <2>1. i \in Nat /\ j \in Nat /\ i + 1 \in DOMAIN ops /\ j + 1 \in DOMAIN ops
            /\ ops[i + 1].path = ops[j + 1].path
    BY <1>2
  <2>2. i + 1 = j + 1
    BY <2>1, <1>5
  <2> QED  BY <2>1, <2>2
<1>8. rows' = [rows EXCEPT ![p] = CASE o.kind = "confirm" -> Synced(h, FALSE)
                                    [] o.kind = "stub"    -> Synced(h, TRUE)
                                    [] o.kind = "remove"  -> NoRow]
  BY DEF Record
<1>9. stubs' = IF o.kind = "stub" THEN [stubs EXCEPT ![p] = [of |-> p, hash |-> h]] ELSE stubs
  BY DEF Record
<1>10. Synced(h, FALSE) \in RowType /\ Synced(h, TRUE) \in RowType /\ NoRow \in RowType
           /\ [of |-> p, hash |-> h] \in StubType
  BY <1>3 DEF Synced, NoRow, RowType, StubType, Hash
<1>11. rows \in [Path -> RowType] /\ stubs \in [Path -> StubType]
  BY DEF Types, DiskTypes, RowType, StubType
<1>12. CASE o.kind = "confirm"
  <2>1. rows' = [rows EXCEPT ![p] = Synced(h, FALSE)] /\ stubs' = stubs
    BY <1>8, <1>9, <1>12
  <2>2. ConfirmOK(p, h)
    BY <1>4, <1>12 DEF OpOK
  <2>3. Confirmed(p, h)
    BY <2>1, <2>2, <1>1, <1>3, <1>11 DEF Confirmed, ConfirmOK
  <2> QED  BY <2>1, <2>3, <1>0, <1>1, <1>2, <1>3, <1>6, <1>7, <1>10, <1>11
<1>13. CASE o.kind = "stub"
  <2>1. rows' = [rows EXCEPT ![p] = Synced(h, TRUE)]
            /\ stubs' = [stubs EXCEPT ![p] = [of |-> p, hash |-> h]]
    BY <1>8, <1>9, <1>13
  <2>2. StubOK(p, h)
    BY <1>4, <1>13 DEF OpOK
  <2>3. Placed(p, h)
    <3>1. /\ rows'[p] = Synced(h, TRUE)
          /\ stubs'[p] = [of |-> p, hash |-> h] /\ \A q \in Path \ {p} : stubs'[q] = stubs[q]
      BY <2>1, <1>3, <1>11
    <3>2. files[p] = NoHash /\ scan[p] = NoHash /\ h # NoHash /\ remote[p].hash = h
      BY <2>2, <1>1 DEF StubOK
    <3>3. \A c \in owed : PendingLoser(p, c) /\ ~Foreign(p) =>
             \E q \in Path : remote[q].hash = c /\ ~Foreign(q) /\ Sound(q, c)
      <4>1. \A s \in sources : s.to \in Path
        BY DEF Types, PassTypes
      <4> QED  BY <4>1, <2>2, <1>0 DEF StubOK, Done
    <3>4. \A x \in Path : Foreign(p) /\ stubs[p].of = x /\ Relies(x) => StillNamed(x, p)
      BY <2>2, <1>0 DEF StubOK
    <3> QED  BY <3>1, <3>2, <3>3, <3>4 DEF Placed
  <2> QED  BY <2>1, <2>3, <1>0, <1>1, <1>2, <1>3, <1>6, <1>7, <1>10, <1>11
<1>14. CASE o.kind = "remove"
  <2>1. rows' = [rows EXCEPT ![p] = NoRow] /\ stubs' = stubs
    BY <1>8, <1>9, <1>14
  <2>2. view[p] = Absent
    BY <1>4, <1>14 DEF OpOK
  <2>3. Removed(p)
    BY <2>1, <2>2, <1>1, <1>3, <1>11 DEF Removed
  <2> QED  BY <2>1, <2>3, <1>0, <1>1, <1>2, <1>3, <1>6, <1>7, <1>10, <1>11
<1> QED  BY <1>3, <1>12, <1>13, <1>14

(* A record keeps the invariant: what it confirms is so. *)
LEMMA RecordKeeps ==
    ASSUME Parts, Record
    PROVE  Parts'
<1>0. Types /\ Stages /\ Stored /\ NamesApart /\ Views /\ Kept1 /\ Kept2 /\ Kept3 /\ KeptS
          /\ Plan1 /\ Plan2 /\ Rec1 /\ Rec2
  BY DEF Parts
<1>1. PICK p \in Path, h \in Hash :
               /\ pc = "record" /\ plan = {} /\ deltas = {} /\ view = remote
               /\ Confirmed(p, h) \/ Placed(p, h) \/ Removed(p)
               /\ rows' \in [Path -> RowType] /\ stubs' \in [Path -> StubType]
               /\ \A q \in Path \ {p} : rows'[q] = rows[q]
               /\ ops' \in Seq(OpType)
               /\ \A i \in DOMAIN ops' : \E j \in DOMAIN ops : ops'[i] = ops[j] /\ ops[j].path # p
               /\ \A i, j \in DOMAIN ops' : ops'[i].path = ops'[j].path => i = j
  BY <1>0, RecordFacts
<1>2. UNCHANGED <<files, aside, litter, mode, remote, losers, objects, scan, view, sources, todo,
                  pinned, plan, arrived, deltas, cur, owed, gone, pc>>
  BY DEF Record, log_vars
<1>3. \A q, d : Health(q, d)' = Health(q, d)
  BY <1>2, ObjectsStay
<1>4. \A d : Known(d)' <=> Known(d)
  BY <1>2, ObjectsStay
<1>5. \A q \in Path \ {p} : stubs'[q] = stubs[q]
  BY <1>1 DEF Confirmed, Placed, Removed
<1>6. stubs'[p] = stubs[p] \/ (Placed(p, h) /\ stubs'[p] = [of |-> p, hash |-> h])
  BY <1>1 DEF Confirmed, Placed, Removed
<1>7. \A q \in Path : Foreign(q)' => Foreign(q)
  BY <1>5, <1>6 DEF Foreign
<1>8. \A q \in Path \ {p} : Foreign(q)' <=> Foreign(q)
  BY <1>5 DEF Foreign
<1>9. \A q \in Path : Named(q)' => Named(q)
  BY <1>5, <1>6 DEF Named
<1>10. \A q \in Path \ {p} : \A d : PendingLoser(q, d)' <=> PendingLoser(q, d)
  BY <1>1, <1>2 DEF PendingLoser
<1>11. \A d : PendingLoser(p, d)' => Placed(p, h) /\ d = h
  BY <1>1 DEF PendingLoser, Confirmed, Removed, Placed, Synced, NoRow
<1>12. \A q \in Path : \A d : Sound(q, d)' <=> Sound(q, d)
  BY <1>2, <1>3 DEF Sound, OnDisk, Contents
<1>13. \A d : OnDisk(d)' <=> OnDisk(d)
  BY <1>2 DEF OnDisk, Contents
  (* Where a placeholder is replaced, its path has no need of it. *)
<1>14. ASSUME NEW x \in Path \ {p}, NEW q \in Path, Relies(x), Sits(q, x, remote[x].hash)
       PROVE  Lost(x, remote[x].hash) \/ \E r \in Path : Sits(r, x, remote[x].hash)'
  <2>1. CASE stubs'[q] = stubs[q]
    BY <2>1, <1>2, <1>14 DEF Sits
  <2>2. CASE q = p /\ Placed(p, h)
    <3>1. Foreign(p) /\ stubs[p].of = x
      BY <2>2, <1>14, PathAssumption DEF Sits, Foreign
    <3>2. StillNamed(x, p)
      BY <3>1, <2>2, <1>14 DEF Placed
    <3>3. Lost(x, remote[x].hash) \/ \E r \in Path \ {p} : Sits(r, x, remote[x].hash)
      BY <3>2 DEF StillNamed
    <3> QED  BY <3>3, <1>2, <1>5 DEF Sits
  <2> QED  BY <2>1, <2>2, <1>5, <1>6
<1>20. DiskTypes' /\ LogTypes' /\ PassTypes' /\ Stages'
  <2>1. DiskTypes'
    <3>1. \A q \in Path : stubs'[q].of = NoPath => stubs'[q] = NoStub
      BY <1>0, <1>5, <1>6, PathAssumption DEF Types, DiskTypes
    <3>2. \A q \in Path : rows'[q].evicted => rows'[q].synced # NoHash
      BY <1>0, <1>1 DEF Types, DiskTypes, Confirmed, Removed, Placed, Synced, NoRow
    <3> QED  BY <3>1, <3>2, <1>0, <1>1, <1>2 DEF Types, DiskTypes, RowType, StubType
  <2>2. LogTypes'
    BY <1>0, <1>2 DEF Types, LogTypes, ObjHash
  <2>3. PassTypes' /\ Stages'
    BY <1>0, <1>1, <1>2 DEF Types, PassTypes, Stages
  <2> QED  BY <2>1, <2>2, <2>3
<1>21. Stored'
  <2>1. \A q \in Path : Known(rows'[q].synced) /\ Known(stubs'[q].hash)
    <3> TAKE q \in Path
    <3>1. CASE q # p
      BY <3>1, <1>0, <1>1, <1>5 DEF Stored
    <3>2. Placed(p, h) => Known(h)
      BY <1>0 DEF Stored, Placed
    <3>3. Confirmed(p, h) => Known(h)
      BY <1>0 DEF Stored, Confirmed
    <3>4. CASE q = p
      <4>1. Known(rows'[p].synced)
        BY <3>2, <3>3, <1>1 DEF Confirmed, Removed, Placed, Synced, NoRow, Known
      <4>2. Known(stubs'[p].hash)
        BY <3>2, <1>0, <1>6 DEF Stored
      <4> QED  BY <3>4, <4>1, <4>2
    <3> QED  BY <3>1, <3>4
  <2>2. \A i \in DOMAIN ops' : Known(ops'[i].hash)
    BY <1>0, <1>1 DEF Stored
  <2> QED  BY <2>1, <2>2, <1>0, <1>2, <1>4 DEF Stored, Known
<1>22. NamesApart'
  <2>1. \A q \in Path : Foreign(q)' => files'[q] = NoHash /\ ~Named(q)'
    BY <1>0, <1>2, <1>7, <1>9 DEF NamesApart
  <2>2. \A q, r \in Path : stubs'[q].of = stubs'[r].of /\ stubs'[q].of \notin {NoPath, q, r}
            => q = r
    BY <1>0, <1>5, <1>6 DEF NamesApart
  <2>3. \A q, r \in Path :
          /\ Foreign(r)' /\ stubs'[r].of = q /\ stubs'[q].of = q
          /\ stubs'[r].hash = remote[q].hash /\ remote[q].hash # NoHash
          => stubs'[q].hash = remote[q].hash
    <3> SUFFICES ASSUME NEW q \in Path, NEW r \in Path, Foreign(r)', stubs'[r].of = q,
                        stubs'[q].of = q,
                        stubs'[r].hash = remote[q].hash, remote[q].hash # NoHash
                 PROVE  stubs'[q].hash = remote[q].hash
      OBVIOUS
    <3>1. stubs'[r] = stubs[r]
      BY <1>5, <1>6, PathAssumption DEF Foreign
    <3>2. CASE stubs'[q] = stubs[q]
      BY <3>1, <3>2, <1>0, <1>7 DEF NamesApart
    <3>3. CASE q = p /\ Placed(p, h)
      BY <3>3 DEF Placed
    <3> QED  BY <3>2, <3>3, <1>5, <1>6
  <2> QED  BY <2>1, <2>2, <2>3, <1>2 DEF NamesApart
<1>23. Views'
  BY <1>1, <1>2 DEF Views
<1>24. Kept1'
  <2> SUFFICES ASSUME NEW q \in Path, Apart(q)', ~Foreign(q)'
               PROVE  /\ rows'[q].evicted /\ files'[q] = NoHash
                      /\ (\E r \in Path : Sits(r, q, remote[q].hash)') \/ Lost(q, remote[q].hash)'
    BY DEF Kept1
  <2>1. CASE q = p
    <3>1. Placed(p, h)
      BY <2>1, <1>1, <1>2 DEF Apart, Confirmed, Removed, NoRow, Absent, Synced
    <3>2. Sits(p, p, remote[p].hash)'
      BY <3>1, <1>2 DEF Sits, Placed
    <3> QED  BY <2>1, <3>1, <3>2, <1>2 DEF Placed, Synced
  <2>2. CASE q # p
    <3>1. Apart(q) /\ ~Foreign(q)
      BY <2>2, <1>1, <1>2, <1>8 DEF Apart
    <3>2. rows[q].evicted /\ files[q] = NoHash
              /\ ((\E r \in Path : Sits(r, q, remote[q].hash)) \/ Lost(q, remote[q].hash))
      BY <3>1, <1>0 DEF Kept1
    <3>3. Relies(q)
      BY <3>1, <3>2 DEF Relies, Apart
    <3>4. (\E r \in Path : Sits(r, q, remote[q].hash)') \/ Lost(q, remote[q].hash)
      BY <3>2, <3>3, <2>2, <1>14
    <3> QED  BY <3>2, <3>4, <2>2, <1>1, <1>2 DEF Lost
  <2> QED  BY <2>1, <2>2
<1>25. Kept2'
  <2> SUFFICES ASSUME NEW q \in Path, files[q] # NoHash, files[q] = rows'[q].synced,
                      files[q] \in owed
               PROVE  remote[q].hash = files[q] \/ Lost(q, files[q])
    BY <1>2 DEF Kept2, Lost
  <2>1. CASE q = p
    BY <2>1, <1>1 DEF Confirmed, Placed, Removed, NoRow, Absent, Synced
  <2>2. CASE q # p
    BY <2>2, <1>0, <1>1 DEF Kept2
  <2> QED  BY <2>1, <2>2
<1>26. Kept3'
  <2> SUFFICES ASSUME NEW q \in Path, NEW c \in owed,
                      PendingLoser(q, c)' PROVE files[q] \in {NoHash, c}
    BY <1>2 DEF Kept3
  <2>1. CASE q = p
    BY <2>1, <1>11 DEF Placed
  <2>2. CASE q # p
    BY <2>2, <1>0, <1>10 DEF Kept3
  <2> QED  BY <2>1, <2>2
<1>27. KeptS'
  <2> SUFFICES ASSUME NEW c \in owed \ gone, ~OnDisk(c) PROVE Held(c)'
    BY <1>2, <1>13 DEF KeptS, Held
  <2>0. c \in Content /\ c # NoHash
    BY <1>0, ContentAssumption DEF Types, LogTypes
  <2>1. PICK q \in Path : Health(q, c) = "good" /\ (Live(q, c) \/ Waits(q, c))
    BY <1>0 DEF KeptS, Held
  <2>2. \A r \in Path : Live(r, c) => Live(r, c)'
    <3> SUFFICES ASSUME NEW r \in Path, Live(r, c), Foreign(r)'
                 PROVE  remote[stubs'[r].of] = Absent /\ files[stubs'[r].of] = NoHash
      BY <1>2 DEF Live
    <3>1. stubs'[r] = stubs[r] /\ Foreign(r)
      BY <1>5, <1>6, <1>7, PathAssumption DEF Foreign
    <3> QED  BY <3>1 DEF Live
  <2>3. CASE Live(q, c)
    BY <2>1, <2>2, <2>3, <1>3 DEF Held
  <2>4. CASE Waits(q, c) /\ q # p
    <3>1. Waits(q, c)'
      BY <2>4, <1>2, <1>8, <1>10 DEF Waits
    <3> QED  BY <2>1, <3>1, <1>3 DEF Held
  <2>5. CASE Waits(q, c) /\ q = p
    <3>1. PendingLoser(p, c) /\ remote[p] # Absent /\ ~Foreign(p)
      BY <2>5 DEF Waits
    <3>2. Placed(p, h)
      BY <3>1, <1>1 DEF Confirmed, Removed
    <3>3. PICK r \in Path : remote[r].hash = c /\ ~Foreign(r) /\ Sound(r, c)
      BY <3>1, <3>2 DEF Placed
    <3>4. Health(r, c) = "good"
      BY <3>3, <2>0 DEF Sound
    <3>5. Live(r, c)
      BY <3>3 DEF Live
    <3> QED  BY <3>4, <3>5, <2>2, <1>3 DEF Held
  <2> QED  BY <2>1, <2>3, <2>4, <2>5
<1>28. Plan1' /\ Plan2'
  BY <1>1, <1>2 DEF Plan1, Plan2
<1>29. Rec1'
  <2>1. /\ \A l \in losers : scan[l.path] # l.hash
        /\ \A s \in sources : files[s.to] = NoHash /\ scan[s.to] = NoHash /\ s.to # s.path
        /\ OneTarget
        /\ \A s \in sources : s.path \notin pinned => Sound(s.to, s.hash)
        /\ \A q \in Path : scan[q] # NoHash /\ files[q] = NoHash
               => rows[q].synced = NoHash \/ view[q].hash = NoHash
        /\ \A q \in Path, c \in owed : PendingLoser(q, c) => scan[q] = NoHash
    BY <1>0, <1>1 DEF Rec1, InPass
  <2>2. \A s \in sources : Logged(s.to, s.hash)' \/ s.path \notin pinned' => Sound(s.to, s.hash)'
    <3>1. \A s \in sources : s.to \in Path
      BY <1>0 DEF Types, PassTypes
    <3> QED  BY <2>1, <3>1, <1>1, <1>2, <1>12 DEF Logged
  <2>3. \A q \in Path : scan[q] # NoHash /\ files[q] = NoHash
            => rows'[q].synced = NoHash \/ view[q].hash = NoHash
    <3> TAKE q \in Path
    <3>1. CASE q = p
      BY <3>1, <1>1 DEF Confirmed, Placed, Removed, NoRow, Absent, Synced
    <3>2. CASE q # p
      BY <3>2, <2>1, <1>1
    <3> QED  BY <3>1, <3>2
  <2>4. \A q \in Path, c \in owed : PendingLoser(q, c)' => scan[q] = NoHash
    <3> TAKE q \in Path, c \in owed
    <3>1. CASE q = p
      BY <3>1, <1>11 DEF Placed
    <3>2. CASE q # p
      BY <3>2, <2>1, <1>10
    <3> QED  BY <3>1, <3>2
  <2> QED  BY <2>1, <2>2, <2>3, <2>4, <1>2 DEF Rec1, OneTarget
<1>30. Rec2'
  <2>1. ASSUME NEW j \in DOMAIN ops, NEW o, o = ops[j], o.path # p
        PROVE  OpOK(o)'
    <3> PICK q : q = o.path
      OBVIOUS
    <3> PICK k : k = o.hash
      OBVIOUS
    <3>0. OpOK(o) /\ q \in Path \ {p}
      <4>1. OpOK(ops[j]) /\ ops[j] \in OpType
        BY <1>0, <1>1 DEF Rec2, InPass, Types, PassTypes
      <4> QED  BY <4>1, <2>1 DEF OpType
    <3>1. o.kind = "confirm" => ConfirmOK(q, k)'
      BY <3>0, <1>2, <1>10 DEF OpOK, ConfirmOK
    <3>2. o.kind = "remove" => view'[q] = Absent
      BY <3>0, <1>2 DEF OpOK
    <3>3. ASSUME o.kind = "stub" PROVE StubOK(q, k)'
      <4>1. StubOK(q, k)
        BY <3>0, <3>3 DEF OpOK
      <4>2. \A s \in sources : Done(s) => Done(s)'
        BY <1>1, <1>2 DEF Done
      <4>3. \A s \in sources : s.to \in Path
        BY <1>0 DEF Types, PassTypes
      <4>4. \A c \in owed' : PendingLoser(q, c)' /\ ~Foreign(q)' =>
               \E s \in sources' : s.path = q /\ s.hash = c /\ Done(s)' /\ ~Foreign(s.to)'
                   /\ Sound(s.to, c)'
        BY <3>0, <4>1, <4>2, <4>3, <1>2, <1>7, <1>8, <1>10, <1>12 DEF StubOK
      <4>5. ASSUME Foreign(q), NEW x \in Path, stubs[q].of = x, Relies(x)'
            PROVE  StillNamed(x, q)'
        <5>1. CASE x = p
          <6>1. Placed(p, h)
            BY <5>1, <4>5, <1>1, <1>2 DEF Relies, Confirmed, Removed, NoRow, Absent, Synced
          <6>2. Sits(p, x, remote[x].hash)'
            BY <5>1, <6>1, <1>2 DEF Sits, Placed
          <6> QED  BY <6>2, <5>1, <3>0 DEF StillNamed
        <5>2. CASE x # p
          <6>1. Relies(x)
            BY <5>2, <4>5, <1>1, <1>2 DEF Relies
          <6>2. StillNamed(x, q)
            BY <4>1, <4>5, <6>1, <1>1 DEF StubOK
          <6>3. \A r \in Path \ {q} : Sits(r, x, remote[x].hash) => r # p \/ stubs'[r] = stubs[r]
            <7> SUFFICES ASSUME Sits(p, x, remote[x].hash), q # p PROVE FALSE
              OBVIOUS
            <7>1. stubs[p].of = x /\ x \notin {NoPath, p, q}
              BY <5>2, <4>5, PathAssumption DEF Sits, Foreign
            <7> QED  BY <7>1, <4>5, <3>0, <1>0 DEF NamesApart
          <6>4. \A r \in Path \ {q} : Sits(r, x, remote[x].hash) => Sits(r, x, remote[x].hash)'
            BY <6>3, <1>2, <1>5 DEF Sits
          <6> QED  BY <6>2, <6>4, <1>2 DEF StillNamed, Lost
        <5> QED  BY <5>1, <5>2
      <4>6. Foreign(q) => stubs[q].of \in Path
        BY <3>0, <1>0 DEF Foreign, Types, DiskTypes
      <4>7. Foreign(q)' /\ Relies(stubs[q].of)' => StillNamed(stubs[q].of, q)'
        <5> HAVE Foreign(q)' /\ Relies(stubs[q].of)'
        <5> PICK x : x = stubs[q].of
          OBVIOUS
        <5>1. x \in Path /\ Foreign(q) /\ stubs'[q].of = x
          BY <4>6, <1>5, <1>8, <3>0
        <5>2. Relies(x)'
          BY <5>1
        <5>3. StillNamed(x, q)'
          BY <5>1, <5>2, <4>5
        <5> QED  BY <5>1, <5>3
      <4>8. files'[q] = NoHash /\ scan'[q] = NoHash /\ view'[q].hash = k /\ k # NoHash
        BY <4>1, <1>2 DEF StubOK
      <4> QED  BY <4>4, <4>7, <4>8 DEF StubOK
    <3> QED  BY <3>1, <3>2, <3>3 DEF OpOK
  <2>2. \A i \in DOMAIN ops' : \A x : x = ops'[i] => OpOK(x)'
    BY <2>1, <1>1
  <2>3. \A i \in DOMAIN ops' : OpOK(ops[i])'
    BY <2>2
  <2>4. \A q : ~InPlan(q)'
    BY <1>1, <1>2 DEF InPlan
  <2> QED  BY <2>3, <2>4, <1>1 DEF Rec2
<1> QED
  BY <1>20, <1>21, <1>22, <1>23, <1>24, <1>25, <1>26, <1>27, <1>28, <1>29, <1>30 DEF Parts, Types

(***************************************************************************)
(* The evictions of a pass.                                                *)
(***************************************************************************)
(* Outside of the plan nothing is said of it. *)
LEMMA OffPlan ==
    ASSUME pc' \notin {"preserve", "apply", "record"}
    PROVE  Preserving' /\ Plan1' /\ Plan2' /\ Rec1' /\ Rec2'
  BY DEF Preserving, Plan1, Plan2, Rec1, Rec2, InPass

(* The scan changes no path's agreement with the log. *)
LEMMA RecordScanKeeps ==
    ASSUME ResidencyInv, RecordScan
    PROVE  ResidencyInv'
<1>0. Types /\ Stages /\ Stored /\ NamesApart /\ Views /\ Kept1 /\ Kept2 /\ Kept3 /\ KeptS /\ Rec1
  BY DEF ResidencyInv, Base, Safe
<1>1. /\ UNCHANGED <<files, stubs, aside, litter, mode, remote, losers, objects, scan, view,
                     sources, todo, pinned, plan, arrived, deltas, ops, cur, owed, gone>>
      /\ pc = "record" /\ pc' = "evictions" /\ ops = <<>>
  BY DEF RecordScan, log_vars, disk
<1>2. /\ rows' \in [Path -> RowType]
      /\ \A p \in Path : /\ rows'[p].synced = rows[p].synced
                         /\ scan[p] = NoHash => rows'[p] = rows[p]
                         /\ rows'[p].evicted => rows[p].evicted
  <2>1. \A p \in Path : scan[p] \in Hash /\ rows[p] \in RowType
    BY <1>0 DEF Types, DiskTypes, RowType
  <2>2. \A p \in Path : rows'[p] = IF scan[p] = NoHash THEN rows[p]
                                   ELSE [rows[p] EXCEPT !.hash = scan[p], !.evicted = FALSE]
    BY DEF RecordScan
  <2>3. \A p \in Path : rows'[p] \in RowType
    BY <2>1, <2>2 DEF RowType
  <2>4. rows' \in [Path -> RowType]
    BY <2>3 DEF RecordScan
  <2> QED  BY <2>1, <2>2, <2>4 DEF RowType
<1>3. \A d : Known(d)' <=> Known(d)
  BY <1>1, ObjectsStay
<1>4. DiskTypes' /\ LogTypes' /\ PassTypes' /\ Stages'
  <2>1. DiskTypes'
    BY <1>0, <1>1, <1>2 DEF Types, DiskTypes, RowType
  <2>2. LogTypes'
    BY <1>0, <1>1 DEF Types, LogTypes, ObjHash
  <2>3. PassTypes' /\ Stages'
    BY <1>0, <1>1 DEF Types, PassTypes, Stages, Pcs, Evicting, Underway
  <2> QED  BY <2>1, <2>2, <2>3
<1>5. Stored'
  BY <1>0, <1>1, <1>2, <1>3 DEF Stored, Known
<1>6. NamesApart' /\ Views'
  BY <1>0, <1>1 DEF NamesApart, Views, Foreign, Named
<1>7. \A p \in Path : \A c : PendingLoser(p, c)' => PendingLoser(p, c)
  BY <1>1, <1>2 DEF PendingLoser
<1>8. Kept1'
  <2> SUFFICES ASSUME NEW p \in Path, Apart(p)', ~Foreign(p)'
               PROVE  /\ rows'[p].evicted /\ files'[p] = NoHash
                      /\ (\E r \in Path : Sits(r, p, remote[p].hash)') \/ Lost(p, remote[p].hash)'
    BY DEF Kept1
  <2>1. Apart(p) /\ ~Foreign(p)
    BY <1>1, <1>2 DEF Apart, Foreign
  <2>2. rows[p].evicted /\ files[p] = NoHash
         /\ ((\E r \in Path : Sits(r, p, remote[p].hash)) \/ Lost(p, remote[p].hash))
    BY <2>1, <1>0 DEF Kept1
  <2>3. scan[p] = NoHash
    <3>1. view[p] = remote[p]
      BY <1>0, <1>1 DEF Views
    <3> QED  BY <3>1, <2>1, <2>2, <1>0, <1>1 DEF Rec1, InPass, Apart
  <2> QED  BY <2>2, <2>3, <1>1, <1>2 DEF Sits, Lost
<1>9. Kept2' /\ Kept3'
  BY <1>0, <1>1, <1>2, <1>7 DEF Kept2, Kept3, Lost
<1>10. KeptS'
  <2>1. \A q, d : Health(q, d)' = Health(q, d)
    BY <1>1, ObjectsStay
  <2>2. \A d : OnDisk(d) => OnDisk(d)'
    BY <1>1 DEF OnDisk, Contents
  <2>3. \A q \in Path : \A d : Live(q, d) => Live(q, d)'
    BY <1>1 DEF Live, Foreign
  <2>4. \A q \in Path, d \in owed : PendingLoser(q, d) => PendingLoser(q, d)'
    BY <1>0, <1>1, <1>2 DEF Rec1, InPass, PendingLoser
  <2>5. \A q \in Path, d \in owed : Waits(q, d) => Waits(q, d)'
    BY <2>4, <1>1 DEF Waits, Foreign
  <2> QED  BY <1>0, <1>1, <2>1, <2>2, <2>3, <2>5 DEF KeptS, Held
<1>11. Evictions'
  BY <1>0, <1>1 DEF Evictions, Stages, Underway, Evicting
<1>12. Preserving' /\ Plan1' /\ Plan2' /\ Rec1' /\ Rec2'
  BY <1>1, OffPlan
<1> QED  BY <1>4, <1>5, <1>6, <1>8, <1>9, <1>10, <1>11, <1>12 DEF ResidencyInv, Base, Safe, Types

(* What a step keeps that leaves the disk, the rows, the log and the objects. *)
LEMMA StillSafe ==
    ASSUME Types, Stored, NamesApart, Kept1, Kept2, Kept3, KeptS,
           UNCHANGED <<disk, rows, mode, log_vars, objects, view, scan, sources, ops, owed, gone>>
    PROVE  DiskTypes' /\ LogTypes' /\ Stored' /\ NamesApart' /\ Kept1' /\ Kept2' /\ Kept3'
               /\ KeptS'
<1>0. UNCHANGED <<files, stubs, aside, litter, rows, mode, remote, losers, objects, view, scan,
                  sources, ops, owed, gone>>
  BY DEF disk, log_vars
<1>1. DiskTypes'
  BY <1>0 DEF Types, DiskTypes
<1>2. LogTypes'
  BY <1>0 DEF Types, LogTypes, ObjHash
<1>3. Stored'
  <2>1. \A d : Known(d)' <=> Known(d)
    BY <1>0, ObjectsStay
  <2> QED  BY <1>0, <2>1 DEF Stored, Known
<1>4. NamesApart' /\ Kept1' /\ Kept2' /\ Kept3'
  BY <1>0 DEF NamesApart, Kept1, Kept2, Kept3, Apart, Foreign, Named, Sits, Lost, PendingLoser
<1>5. KeptS'
  BY KeptStays
<1> QED  BY <1>1, <1>2, <1>3, <1>4, <1>5

(* The candidates are paths. *)
LEMMA PlanEvictionsKeeps ==
    ASSUME ResidencyInv, PlanEvictions
    PROVE  ResidencyInv'
<1>0. Types /\ Stages /\ Stored /\ NamesApart /\ Views /\ Kept1 /\ Kept2 /\ Kept3 /\ KeptS
  BY DEF ResidencyInv, Base, Safe
<1>1. /\ UNCHANGED <<disk, rows, mode, log_vars, objects, view, scan, plan, sources, pinned,
                     arrived, deltas, ops, cur, owed, gone>>
      /\ pc = "evictions" /\ pc' = "evict"
  BY DEF PlanEvictions
<1>2. todo' \subseteq Path
  BY DEF PlanEvictions
<1>3. DiskTypes' /\ LogTypes' /\ Stored' /\ NamesApart' /\ Kept1' /\ Kept2' /\ Kept3' /\ KeptS'
  BY <1>0, <1>1, StillSafe
<1>4. PassTypes' /\ Stages'
  BY <1>0, <1>1, <1>2 DEF Types, PassTypes, Stages, Pcs, Evicting, Underway, disk
<1>5. Views'
  BY <1>0, <1>1 DEF Views, Evicting, log_vars
<1>6. Evictions'
  BY <1>0, <1>1 DEF Evictions, Stages, Underway, Evicting
<1>7. Preserving' /\ Plan1' /\ Plan2' /\ Rec1' /\ Rec2'
  BY <1>1, OffPlan
<1> QED  BY <1>3, <1>4, <1>5, <1>6, <1>7 DEF ResidencyInv, Base, Safe, Types

(* The checks before an eviction: the object is good. *)
LEMMA CheckFileKeeps ==
    ASSUME NEW p \in Path, ResidencyInv, Gates, CheckFile(p)
    PROVE  ResidencyInv'
<1>0. Types /\ Stages /\ Stored /\ NamesApart /\ Views /\ Kept1 /\ Kept2 /\ Kept3 /\ KeptS
  BY DEF ResidencyInv, Base, Safe
<1>1. /\ UNCHANGED <<disk, rows, mode, log_vars, objects, view, scan, plan, sources, pinned,
                     arrived, deltas, ops, owed, gone>>
      /\ pc = "evict" /\ todo' \subseteq todo
  BY DEF CheckFile
<1>2. \/ UNCHANGED <<pc, cur>>
      \/ /\ eligible(p) /\ files[p] = view[p].hash /\ Health(p, view[p].hash) = "good"
         /\ pc' = "mark" /\ cur' = [path |-> p, hash |-> files[p]]
  BY DEF CheckFile, RemoteOk, Gates
<1>3. DiskTypes' /\ LogTypes' /\ Stored' /\ NamesApart' /\ Kept1' /\ Kept2' /\ Kept3' /\ KeptS'
  BY <1>0, <1>1, StillSafe
<1>4. cur = NoCur
  BY <1>0, <1>1 DEF Stages, Underway
<1>5. CASE UNCHANGED <<pc, cur>>
  <2>1. PassTypes' /\ Stages'
    BY <1>0, <1>1, <1>5 DEF Types, PassTypes, Stages, Evicting, Underway, disk
  <2>2. Views'
    BY <1>0, <1>1, <1>5 DEF Views, Evicting, log_vars
  <2>3. Evictions'
    BY <1>4, <1>5 DEF Evictions, NoCur
  <2>4. Preserving' /\ Plan1' /\ Plan2' /\ Rec1' /\ Rec2'
    BY <1>1, <1>5, OffPlan
  <2> QED  BY <1>3, <2>1, <2>2, <2>3, <2>4 DEF ResidencyInv, Base, Safe, Types
<1>6. CASE /\ eligible(p) /\ files[p] = view[p].hash /\ Health(p, view[p].hash) = "good"
           /\ pc' = "mark" /\ cur' = [path |-> p, hash |-> files[p]]
  <2>1. view[p] = remote[p]
    BY <1>0, <1>1 DEF Views, Evicting
  <2> PICK c : c = files[p]
    OBVIOUS
  <2>2. c # NoHash /\ c \in Content /\ remote[p].hash = c /\ rows[p].synced = c
            /\ Health(p, c) = "good"
    BY <1>0, <1>6, <2>1 DEF eligible, Types, DiskTypes, Hash
  <2>3. ~Foreign(p)
    BY <1>0, <2>2 DEF NamesApart
  <2>4. cur' \in [path : Path, hash : Content] /\ cur'.path = p /\ cur'.hash = c /\ cur' # NoCur
    <3>1. cur' = [path |-> p, hash |-> c]
      BY <1>6
    <3>2. cur'.path = p /\ cur'.hash = c
      BY <3>1
    <3> QED  BY <3>1, <3>2, <2>2, PathAssumption DEF NoCur
  <2>5. PassTypes' /\ Stages'
    BY <1>0, <1>1, <1>6, <2>4 DEF Types, PassTypes, Stages, Pcs, Evicting, Underway, disk
  <2>6. Views'
    BY <1>0, <1>1, <1>6 DEF Views, Evicting, log_vars
  <2>7. Evictions'
    <3>1. Health(p, c)' = "good"
      BY <2>2, <1>1, ObjectsStay
    <3>2. /\ remote'[p].hash = c /\ rows'[p].synced = c /\ ~Foreign(p)' /\ files'[p] = c
      BY <1>1, <2>2, <2>3 DEF log_vars, disk, Foreign
    <3>3. Health(cur.path, cur.hash)' = "good" /\ ~Foreign(cur.path)'
      BY <3>1, <3>2, <2>4
    <3> QED  BY <3>2, <3>3, <2>4, <1>6 DEF Evictions
  <2>8. Preserving' /\ Plan1' /\ Plan2' /\ Rec1' /\ Rec2'
    BY <1>6, OffPlan
  <2> QED  BY <1>3, <2>5, <2>6, <2>7, <2>8 DEF ResidencyInv, Base, Safe, Types
<1> QED  BY <1>2, <1>5, <1>6

(* What is known of the file that is being evicted. *)
LEMMA EvictFacts ==
    ASSUME ResidencyInv, pc \in Underway
    PROVE  \E p \in Path, c \in Content :
               /\ cur = [path |-> p, hash |-> c] /\ cur.path = p /\ cur.hash = c /\ cur # NoCur
                      /\ c # NoHash
               /\ remote[p].hash = c /\ rows[p].synced = c /\ ~Foreign(p)
               /\ Health(p, c) = "good" \/ c \in gone
<1>0. Types /\ Stages /\ Evictions
  BY DEF ResidencyInv, Base
<1>1. cur # NoCur /\ cur \in [path : Path, hash : Content]
  BY <1>0 DEF Stages, Types, PassTypes
<1> QED  BY <1>0, <1>1, ContentAssumption DEF Evictions

(* What no step of an eviction touches. *)
LEMMA EvictRest ==
    ASSUME ResidencyInv, pc \in Evicting, pc' \in Evicting,
           UNCHANGED <<mode, log_vars, objects, view, scan, plan, sources, todo, pinned, arrived,
                       deltas, ops, owed, gone>>,
           cur' \in {cur, NoCur},
           aside' \in Hash, aside' # NoHash => pc' \in {"stat", "unlink", "putback"},
           cur' = NoCur <=> pc' = "evict"
    PROVE  /\ LogTypes' /\ PassTypes' /\ Stages' /\ Views'
           /\ Preserving' /\ Plan1' /\ Plan2' /\ Rec1' /\ Rec2'
           /\ \A q, d : Health(q, d)' = Health(q, d)
           /\ \A d : Known(d)' <=> Known(d)
<1>0. Types /\ Stages /\ Views
  BY DEF ResidencyInv, Base
<1>1. LogTypes'
  BY <1>0 DEF Types, LogTypes, ObjHash, log_vars
<1>2. PassTypes'
  BY <1>0 DEF Types, PassTypes, Pcs, Evicting, log_vars
<1>3. Stages'
  BY <1>0 DEF Stages, Evicting, Underway
<1>4. Views'
  BY <1>0 DEF Views, Evicting, log_vars
<1>5. Preserving' /\ Plan1' /\ Plan2' /\ Rec1' /\ Rec2'
  BY OffPlan DEF Evicting
<1> QED  BY <1>1, <1>2, <1>3, <1>4, <1>5, ObjectsStay

(* The row is marked while the file is there. *)
LEMMA MarkEvictedKeeps ==
    ASSUME ResidencyInv, MarkEvicted
    PROVE  ResidencyInv'
<1>0. Types /\ Stages /\ Stored /\ NamesApart /\ Views /\ Kept1 /\ Kept2 /\ Kept3 /\ KeptS
          /\ Evictions
  BY DEF ResidencyInv, Base, Safe
<1>1. /\ UNCHANGED <<disk, cur, mode, log_vars, objects, view, scan, plan, sources, todo, pinned,
                     arrived, deltas, ops, owed, gone>>
      /\ pc = "mark" /\ pc' = "stub"
  BY DEF MarkEvicted, EvictStep
<1>2. UNCHANGED <<files, stubs, aside, litter, remote, losers>>
  BY <1>1 DEF disk, log_vars
<1>3. PICK p \in Path, c \in Content :
               /\ cur = [path |-> p, hash |-> c] /\ cur.path = p /\ cur.hash = c /\ cur # NoCur
                      /\ c # NoHash
               /\ remote[p].hash = c /\ rows[p].synced = c /\ ~Foreign(p)
               /\ Health(p, c) = "good" \/ c \in gone
  BY <1>1, EvictFacts DEF Underway, Evicting
<1>4. files[p] # c => c \notin owed
  BY <1>0, <1>1, <1>3 DEF Evictions
<1>5. /\ rows' \in [Path -> RowType] /\ rows'[p].synced = c /\ rows'[p].evicted
      /\ \A q \in Path \ {p} : rows'[q] = rows[q]
  <2>1. rows' = [rows EXCEPT ![p].evicted = TRUE]
    BY <1>3 DEF MarkEvicted
  <2> QED  BY <2>1, <1>0, <1>3 DEF Types, DiskTypes, RowType
<1>6. /\ LogTypes' /\ PassTypes' /\ Stages' /\ Views'
      /\ Preserving' /\ Plan1' /\ Plan2' /\ Rec1' /\ Rec2'
      /\ \A q, d : Health(q, d)' = Health(q, d)
      /\ \A d : Known(d)' <=> Known(d)
  BY <1>0, <1>1, <1>2, <1>3, EvictRest DEF Evicting, Stages, Types, DiskTypes
<1>7. DiskTypes'
  BY <1>0, <1>1, <1>2, <1>3, <1>5 DEF Types, DiskTypes, RowType
<1>8. Stored'
  BY <1>0, <1>1, <1>2, <1>3, <1>5, <1>6 DEF Stored, Known
<1>9. NamesApart'
  BY <1>0, <1>2 DEF NamesApart, Foreign, Named
<1>10. Kept1' /\ Kept2'
  BY <1>0, <1>1, <1>2, <1>3, <1>4, <1>5 DEF Kept1, Kept2, Apart, Foreign, Sits, Lost
<1>11. Kept3'
  BY <1>0, <1>1, <1>2, <1>3, <1>4, <1>5 DEF Kept3, PendingLoser
<1>12. KeptS'
  <2>1. \A d : OnDisk(d) => OnDisk(d)'
    BY <1>2 DEF OnDisk, Contents
  <2>2. \A q \in Path : \A d : (Live(q, d) => Live(q, d)') /\ (Waits(q, d) => Waits(q, d)')
    BY <1>2, <1>3, <1>5 DEF Live, Waits, PendingLoser, Foreign
  <2> QED  BY <1>0, <1>1, <1>6, <2>1, <2>2 DEF KeptS, Held
<1>13. Evictions'
  <2>1. Health(cur.path, cur.hash)' = Health(p, c) /\ ~Foreign(cur.path)' /\ cur'.path = p
            /\ cur'.hash = c
    BY <1>1, <1>2, <1>3, <1>6 DEF Foreign
  <2> QED  BY <2>1, <1>1, <1>2, <1>3, <1>4, <1>5 DEF Evictions
<1> QED  BY <1>6, <1>7, <1>8, <1>9, <1>10, <1>11, <1>12, <1>13 DEF ResidencyInv, Base, Safe, Types

(* The placeholder names what the row does. *)
LEMMA WriteStubKeeps ==
    ASSUME ResidencyInv, WriteStub
    PROVE  ResidencyInv'
<1>0. Types /\ Stages /\ Stored /\ NamesApart /\ Views /\ Kept1 /\ Kept2 /\ Kept3 /\ KeptS
          /\ Evictions
  BY DEF ResidencyInv, Base, Safe
<1>1. /\ UNCHANGED <<files, aside, litter, rows, cur, mode, log_vars, objects, view, scan, plan,
                     sources, todo, pinned, arrived, deltas, ops, owed, gone>>
      /\ pc = "stub" /\ pc' = "aside"
  BY DEF WriteStub, EvictStep
<1>2. UNCHANGED <<remote, losers>>
  BY <1>1 DEF log_vars
<1>3. PICK p \in Path, c \in Content :
               /\ cur = [path |-> p, hash |-> c] /\ cur.path = p /\ cur.hash = c /\ cur # NoCur
                      /\ c # NoHash
               /\ remote[p].hash = c /\ rows[p].synced = c /\ ~Foreign(p)
               /\ Health(p, c) = "good" \/ c \in gone
  BY <1>1, EvictFacts DEF Underway, Evicting
<1>4. (files[p] # c => c \notin owed) /\ rows[p].evicted
  BY <1>0, <1>1, <1>3 DEF Evictions
<1>5. /\ stubs' \in [Path -> StubType] /\ stubs'[p] = [of |-> p, hash |-> c]
      /\ \A q \in Path \ {p} : stubs'[q] = stubs[q]
  <2>1. stubs' = [stubs EXCEPT ![p] = [of |-> p, hash |-> c]]
    BY <1>3 DEF WriteStub
  <2> QED  BY <2>1, <1>0, <1>3 DEF Types, DiskTypes, StubType, Hash
<1>6. /\ LogTypes' /\ PassTypes' /\ Stages' /\ Views'
      /\ Preserving' /\ Plan1' /\ Plan2' /\ Rec1' /\ Rec2'
      /\ \A q, d : Health(q, d)' = Health(q, d)
      /\ \A d : Known(d)' <=> Known(d)
  BY <1>0, <1>1, <1>2, <1>3, EvictRest DEF Evicting, Stages, Types, DiskTypes
<1>7. DiskTypes'
  <2>1. \A q \in Path : stubs'[q].of = NoPath => stubs'[q] = NoStub
    BY <1>0, <1>5, PathAssumption DEF Types, DiskTypes
  <2> QED  BY <2>1, <1>0, <1>1, <1>5 DEF Types, DiskTypes, StubType
<1>8. Stored'
  <2>1. Known(c)
    BY <1>0, <1>3 DEF Stored
  <2>2. \A q \in Path : Known(stubs'[q].hash)
    BY <2>1, <1>0, <1>5 DEF Stored
  <2> QED  BY <2>2, <1>0, <1>1, <1>2, <1>6 DEF Stored, Known
<1>9. \A q \in Path : (Foreign(q)' <=> Foreign(q)) /\ (Named(q)' => Named(q))
  BY <1>3, <1>5 DEF Foreign, Named
<1>10. NamesApart'
  <2>1. \A q \in Path : Foreign(q)' => files'[q] = NoHash /\ ~Named(q)'
    BY <1>0, <1>1, <1>9 DEF NamesApart
  <2>2. \A q, r \in Path : stubs'[q].of = stubs'[r].of /\ stubs'[q].of \notin {NoPath, q, r}
            => q = r
    BY <1>0, <1>5 DEF NamesApart
  <2>3. \A q, r \in Path :
          /\ Foreign(r)' /\ stubs'[r].of = q /\ stubs'[q].of = q
          /\ stubs'[r].hash = remote[q].hash /\ remote[q].hash # NoHash
          => stubs'[q].hash = remote[q].hash
    BY <1>0, <1>3, <1>5, <1>9 DEF NamesApart
  <2> QED  BY <2>1, <2>2, <2>3, <1>2 DEF NamesApart
<1>11. Kept1'
  <2> SUFFICES ASSUME NEW q \in Path, Apart(q), ~Foreign(q)
               PROVE  /\ rows[q].evicted /\ files[q] = NoHash
                      /\ (\E r \in Path : Sits(r, q, remote[q].hash)') \/ Lost(q, remote[q].hash)
    BY <1>1, <1>2, <1>9 DEF Kept1, Apart, Lost
  <2>1. rows[q].evicted /\ files[q] = NoHash
         /\ ((\E r \in Path : Sits(r, q, remote[q].hash)) \/ Lost(q, remote[q].hash))
    BY <1>0 DEF Kept1
  <2>2. q # p
    BY <1>3, <1>4 DEF Apart
  <2>3. \A r \in Path : Sits(r, q, remote[q].hash) => Sits(r, q, remote[q].hash)'
    BY <1>2, <1>3, <1>5, <2>2, PathAssumption DEF Sits, Foreign
  <2> QED  BY <2>1, <2>3, <1>2
<1>12. Kept2' /\ Kept3'
  BY <1>0, <1>1, <1>2 DEF Kept2, Kept3, PendingLoser, Lost
<1>13. KeptS'
  <2>1. \A d : OnDisk(d) => OnDisk(d)'
    BY <1>1 DEF OnDisk, Contents
  <2>2. \A q \in Path : \A d : (Live(q, d) => Live(q, d)') /\ (Waits(q, d) => Waits(q, d)')
    BY <1>1, <1>2, <1>3, <1>5, <1>9 DEF Live, Waits, PendingLoser, Foreign
  <2> QED  BY <1>0, <1>1, <1>6, <2>1, <2>2 DEF KeptS, Held
<1>14. Evictions'
  <2>1. Health(cur.path, cur.hash)' = Health(p, c) /\ ~Foreign(cur.path)' /\ cur'.path = p
            /\ cur'.hash = c
    BY <1>1, <1>3, <1>6, <1>9
  <2>2. Sits(cur.path, cur.path, cur.hash)'
    BY <1>1, <1>3, <1>5 DEF Sits
  <2> QED  BY <2>1, <2>2, <1>1, <1>2, <1>3, <1>4 DEF Evictions
<1> QED  BY <1>6, <1>7, <1>8, <1>10, <1>11, <1>12, <1>13, <1>14
            DEF ResidencyInv, Base, Safe, Types

(* The file that is moved aside is held there. *)
LEMMA MovedAsideKeeps ==
    ASSUME ResidencyInv, MoveAside, files[cur.path] # NoHash
    PROVE  ResidencyInv'
<1>0. Types /\ Stages /\ Stored /\ NamesApart /\ Views /\ Kept1 /\ Kept2 /\ Kept3 /\ KeptS
          /\ Evictions
  BY DEF ResidencyInv, Base, Safe
<1>1. /\ UNCHANGED <<stubs, litter, rows, cur, mode, log_vars, objects, view, scan, plan, sources,
                     todo, pinned, arrived, deltas, ops, owed, gone>>
      /\ pc = "aside" /\ pc' = "stat" /\ aside' = files[cur.path]
  BY DEF MoveAside
<1>2. UNCHANGED <<remote, losers>>
  BY <1>1 DEF log_vars
<1>3. PICK p \in Path, c \in Content :
               /\ cur = [path |-> p, hash |-> c] /\ cur.path = p /\ cur.hash = c /\ cur # NoCur
                      /\ c # NoHash
               /\ remote[p].hash = c /\ rows[p].synced = c /\ ~Foreign(p)
               /\ Health(p, c) = "good" \/ c \in gone
  BY <1>1, EvictFacts DEF Underway, Evicting
<1>4. (files[p] # c => c \notin owed) /\ rows[p].evicted /\ Sits(p, p, c) /\ aside = NoHash
  BY <1>0, <1>1, <1>3 DEF Evictions, Stages
<1>5. /\ files' \in [Path -> Hash] /\ files'[p] = NoHash
             /\ \A q \in Path \ {p} : files'[q] = files[q]
      /\ aside' = files[p] /\ files[p] # NoHash /\ files[p] \in Hash
  <2>1. files' = [files EXCEPT ![p] = NoHash]
    BY <1>3 DEF MoveAside
  <2> QED  BY <2>1, <1>0, <1>1, <1>3 DEF Types, DiskTypes, Hash
<1>6. /\ LogTypes' /\ PassTypes' /\ Stages' /\ Views'
      /\ Preserving' /\ Plan1' /\ Plan2' /\ Rec1' /\ Rec2'
      /\ \A q, d : Health(q, d)' = Health(q, d)
      /\ \A d : Known(d)' <=> Known(d)
  BY <1>0, <1>1, <1>3, <1>5, EvictRest DEF Evicting, Stages, Types, DiskTypes
<1>7. DiskTypes'
  BY <1>0, <1>1, <1>5 DEF Types, DiskTypes
<1>8. Stored'
  BY <1>0, <1>1, <1>2, <1>6 DEF Stored, Known
<1>9. NamesApart'
  BY <1>0, <1>1, <1>2, <1>5 DEF NamesApart, Foreign, Named
<1>10. Kept1'
  <2> SUFFICES ASSUME NEW q \in Path, Apart(q)', ~Foreign(q)
               PROVE  /\ rows[q].evicted /\ files'[q] = NoHash
                      /\ (\E r \in Path : Sits(r, q, remote[q].hash)) \/ Lost(q, remote[q].hash)
    BY <1>1, <1>2 DEF Kept1, Foreign, Lost, Sits
  <2>1. CASE q = p
    BY <2>1, <1>3, <1>4, <1>5
  <2>2. CASE q # p
    BY <2>2, <1>0, <1>1, <1>2, <1>5 DEF Kept1, Apart
  <2> QED  BY <2>1, <2>2
<1>11. Kept2' /\ Kept3'
  BY <1>0, <1>1, <1>2, <1>5 DEF Kept2, Kept3, PendingLoser, Lost
<1>12. KeptS'
  <2>0. NoHash \notin owed
    BY <1>0, ContentAssumption DEF Types, LogTypes
  <2>1. \A d \in owed : OnDisk(d) => OnDisk(d)'
    <3> SUFFICES ASSUME NEW d \in owed, OnDisk(d) PROVE OnDisk(d)'
      OBVIOUS
    <3>1. CASE d \in litter
      BY <3>1, <1>1 DEF OnDisk
    <3>2. ASSUME NEW q \in Path, files[q] = d PROVE OnDisk(d)'
      <4>1. d \in Contents' \/ d = aside'
        BY <3>2, <1>5 DEF Contents
      <4> QED  BY <4>1 DEF OnDisk
    <3> QED  BY <3>1, <3>2, <2>0, <1>4 DEF OnDisk, Contents
  <2>2. \A q \in Path : \A d : (Live(q, d) => Live(q, d)') /\ (Waits(q, d) => Waits(q, d)')
    <3>1. \A q \in Path : Foreign(q) => stubs[q].of \in Path
      BY <1>0 DEF Foreign, Types, DiskTypes
    <3> QED  BY <3>1, <1>1, <1>2, <1>5 DEF Live, Waits, PendingLoser, Foreign
  <2> QED  BY <1>0, <1>1, <1>6, <2>1, <2>2 DEF KeptS, Held
<1>13. Evictions'
  <2>1. Health(cur.path, cur.hash)' = Health(p, c) /\ ~Foreign(cur.path)' /\ cur'.path = p
            /\ cur'.hash = c
    BY <1>1, <1>3, <1>6 DEF Foreign
  <2> QED  BY <2>1, <1>1, <1>2, <1>3, <1>4, <1>5 DEF Evictions
<1> QED  BY <1>6, <1>7, <1>8, <1>9, <1>10, <1>11, <1>12, <1>13 DEF ResidencyInv, Base, Safe, Types

(* It goes on only if it is still the version that was checked. *)
LEMMA RestatKeeps ==
    ASSUME ResidencyInv, Restat
    PROVE  ResidencyInv'
<1>0. Types /\ Stages /\ Stored /\ NamesApart /\ Views /\ Kept1 /\ Kept2 /\ Kept3 /\ KeptS
          /\ Evictions
  BY DEF ResidencyInv, Base, Safe
<1>1. /\ UNCHANGED <<disk, rows, cur, mode, log_vars, objects, view, scan, plan, sources, todo,
                     pinned, arrived, deltas, ops, owed, gone>>
      /\ pc = "stat" /\ pc' = IF aside = cur.hash THEN "unlink" ELSE "putback"
  BY DEF Restat, EvictStep
<1>2. UNCHANGED <<files, stubs, aside, litter, remote, losers>>
  BY <1>1 DEF log_vars, disk
<1>3. PICK p \in Path, c \in Content :
               /\ cur = [path |-> p, hash |-> c] /\ cur.path = p /\ cur.hash = c /\ cur # NoCur
                      /\ c # NoHash
               /\ remote[p].hash = c /\ rows[p].synced = c /\ ~Foreign(p)
               /\ Health(p, c) = "good" \/ c \in gone
  BY <1>1, EvictFacts DEF Underway, Evicting
<1>4. aside # NoHash /\ (aside # c => c \notin owed /\ files[p] = NoHash)
  BY <1>0, <1>1, <1>3 DEF Evictions
<1>5. pc' \in {"unlink", "putback"}
  BY <1>1
<1>6. /\ LogTypes' /\ PassTypes' /\ Stages' /\ Views'
      /\ Preserving' /\ Plan1' /\ Plan2' /\ Rec1' /\ Rec2'
      /\ \A q, d : Health(q, d)' = Health(q, d)
      /\ \A d : Known(d)' <=> Known(d)
  BY <1>0, <1>1, <1>2, <1>3, <1>5, EvictRest DEF Evicting, Types, DiskTypes
<1>7. DiskTypes' /\ Stored' /\ NamesApart' /\ Kept1' /\ Kept2' /\ Kept3' /\ KeptS'
  BY <1>0, <1>1, StillSafe
<1>8. Evictions'
  <2>1. Health(cur.path, cur.hash)' = Health(p, c) /\ ~Foreign(cur.path)' /\ cur'.path = p
            /\ cur'.hash = c
    BY <1>1, <1>2, <1>3, <1>6 DEF Foreign
  <2> QED  BY <2>1, <1>1, <1>2, <1>3, <1>4 DEF Evictions
<1> QED  BY <1>6, <1>7, <1>8 DEF ResidencyInv, Base, Safe, Types

(* What is unlinked is in the store. *)
LEMMA UnlinkKeeps ==
    ASSUME ResidencyInv, Unlink
    PROVE  ResidencyInv'
<1>0. Types /\ Stages /\ Stored /\ NamesApart /\ Views /\ Kept1 /\ Kept2 /\ Kept3 /\ KeptS
          /\ Evictions
  BY DEF ResidencyInv, Base, Safe
<1>1. /\ UNCHANGED <<files, stubs, litter, rows, mode, log_vars, objects, view, scan, plan,
                     sources, todo, pinned, arrived, deltas, ops, owed, gone>>
      /\ pc = "unlink" /\ pc' = "evict" /\ aside' = NoHash /\ cur' = NoCur
  BY DEF Unlink, EvictStep
<1>2. UNCHANGED <<remote, losers>>
  BY <1>1 DEF log_vars
<1>3. PICK p \in Path, c \in Content :
               /\ cur = [path |-> p, hash |-> c] /\ cur.path = p /\ cur.hash = c /\ cur # NoCur
                      /\ c # NoHash
               /\ remote[p].hash = c /\ rows[p].synced = c /\ ~Foreign(p)
               /\ Health(p, c) = "good" \/ c \in gone
  BY <1>1, EvictFacts DEF Underway, Evicting
<1>4. aside = c
  BY <1>0, <1>1, <1>3 DEF Evictions
<1>6. /\ LogTypes' /\ PassTypes' /\ Stages' /\ Views'
      /\ Preserving' /\ Plan1' /\ Plan2' /\ Rec1' /\ Rec2'
      /\ \A q, d : Health(q, d)' = Health(q, d)
      /\ \A d : Known(d)' <=> Known(d)
  BY <1>0, <1>1, <1>3, EvictRest DEF Evicting, Hash
<1>7. DiskTypes'
  BY <1>0, <1>1 DEF Types, DiskTypes, Hash
<1>8. Stored'
  BY <1>0, <1>1, <1>2, <1>6 DEF Stored, Known
<1>9. NamesApart'
  BY <1>0, <1>1, <1>2 DEF NamesApart, Foreign, Named
<1>10. Kept1' /\ Kept2'
  BY <1>0, <1>1, <1>2 DEF Kept1, Kept2, Apart, Foreign, Sits, Lost
<1>11. Kept3'
  BY <1>0, <1>1, <1>2 DEF Kept3, PendingLoser
<1>12. KeptS'
  <2>1. \A d : OnDisk(d) /\ d # c => OnDisk(d)'
    BY <1>1, <1>4 DEF OnDisk, Contents
  <2>2. \A q \in Path : \A d : (Live(q, d) => Live(q, d)') /\ (Waits(q, d) => Waits(q, d)')
    BY <1>1, <1>2 DEF Live, Waits, PendingLoser, Foreign
  <2>3. Live(p, c)
    BY <1>3 DEF Live
  <2>4. \A d \in owed \ gone : Held(d)'
    BY <1>0, <1>3, <1>6, <2>1, <2>2, <2>3 DEF KeptS, Held
  <2> QED  BY <2>4, <1>1 DEF KeptS
<1>13. Evictions'
  BY <1>1 DEF Evictions
<1> QED  BY <1>6, <1>7, <1>8, <1>9, <1>10, <1>11, <1>12, <1>13 DEF ResidencyInv, Base, Safe, Types

(* A file that changed is put back, or is left as litter. *)
LEMMA PutBackKeeps ==
    ASSUME ResidencyInv, PutBack
    PROVE  ResidencyInv'
<1>0. Types /\ Stages /\ Stored /\ NamesApart /\ Views /\ Kept1 /\ Kept2 /\ Kept3 /\ KeptS
          /\ Evictions
  BY DEF ResidencyInv, Base, Safe
<1>1. /\ UNCHANGED <<stubs, litter, rows, cur, mode, log_vars, objects, view, scan, plan, sources,
                     todo, pinned, arrived, deltas, ops, owed, gone>>
      /\ pc = "putback" /\ pc' = "unstub" /\ aside' = NoHash
  BY DEF PutBack, EvictStep
<1>2. UNCHANGED <<remote, losers>>
  BY <1>1 DEF log_vars
<1>3. PICK p \in Path, c \in Content :
               /\ cur = [path |-> p, hash |-> c] /\ cur.path = p /\ cur.hash = c /\ cur # NoCur
                      /\ c # NoHash
               /\ remote[p].hash = c /\ rows[p].synced = c /\ ~Foreign(p)
               /\ Health(p, c) = "good" \/ c \in gone
  BY <1>1, EvictFacts DEF Underway, Evicting
<1>4. aside \notin {NoHash, c} /\ files[p] = NoHash /\ c \notin owed /\ aside \in Content
  BY <1>0, <1>1, <1>3 DEF Evictions, Types, DiskTypes, Hash
<1>5. /\ files' \in [Path -> Hash] /\ files'[p] = aside
             /\ \A q \in Path \ {p} : files'[q] = files[q]
  <2>1. files' = [files EXCEPT ![p] = aside]
    BY <1>3 DEF PutBack
  <2> QED  BY <2>1, <1>0, <1>3 DEF Types, DiskTypes, Hash
<1>6. /\ LogTypes' /\ PassTypes' /\ Stages' /\ Views'
      /\ Preserving' /\ Plan1' /\ Plan2' /\ Rec1' /\ Rec2'
      /\ \A q, d : Health(q, d)' = Health(q, d)
      /\ \A d : Known(d)' <=> Known(d)
  BY <1>0, <1>1, <1>3, EvictRest DEF Evicting, Hash
<1>7. DiskTypes'
  BY <1>0, <1>1, <1>5 DEF Types, DiskTypes, Hash
<1>8. Stored'
  BY <1>0, <1>1, <1>2, <1>6 DEF Stored, Known
<1>9. NamesApart'
  BY <1>0, <1>1, <1>2, <1>3, <1>5 DEF NamesApart, Foreign, Named
<1>10. Kept1' /\ Kept2'
  <2>1. \A q \in Path : Apart(q)' => q # p /\ Apart(q)
    BY <1>1, <1>2, <1>3, <1>4, <1>5 DEF Apart
  <2>2. Kept1'
    BY <2>1, <1>0, <1>1, <1>2, <1>5 DEF Kept1, Foreign, Sits, Lost
  <2>3. Kept2'
    BY <1>0, <1>1, <1>2, <1>3, <1>4, <1>5 DEF Kept2, Lost
  <2> QED  BY <2>2, <2>3
<1>11. Kept3'
  BY <1>0, <1>1, <1>2, <1>3, <1>4, <1>5 DEF Kept3, PendingLoser
<1>12. KeptS'
  <2>1. \A d \in Content : OnDisk(d) => OnDisk(d)'
    BY <1>0, <1>1, <1>3, <1>4, <1>5, ContentAssumption DEF OnDisk, Contents
  <2>2. \A q \in Path : \A d : Waits(q, d) => Waits(q, d)'
    BY <1>1, <1>2 DEF Waits, PendingLoser, Foreign
  <2>3. \A q \in Path : \A d : Live(q, d) => Live(q, d)'
    <3> SUFFICES ASSUME NEW q \in Path, NEW d, Live(q, d),
                        Foreign(q) PROVE files'[stubs[q].of] = NoHash
      BY <1>1, <1>2 DEF Live, Foreign
    <3>1. stubs[q].of # p
      BY <1>3 DEF Live, Absent
    <3>2. stubs[q].of \in Path
      BY <1>0 DEF Types, DiskTypes, Foreign
    <3> QED  BY <3>1, <3>2, <1>5 DEF Live
  <2> QED  BY <1>0, <1>1, <1>6, <2>1, <2>2, <2>3 DEF KeptS, Held, Types, LogTypes
<1>13. Evictions'
  <2>1. Health(cur.path, cur.hash)' = Health(p, c) /\ ~Foreign(cur.path)' /\ cur'.path = p
            /\ cur'.hash = c
    BY <1>1, <1>2, <1>3, <1>6 DEF Foreign
  <2> QED  BY <2>1, <1>1, <1>2, <1>3, <1>4 DEF Evictions
<1> QED  BY <1>6, <1>7, <1>8, <1>9, <1>10, <1>11, <1>12, <1>13 DEF ResidencyInv, Base, Safe, Types

(* Putting back removes the placeholder. *)
LEMMA RemoveStubKeeps ==
    ASSUME ResidencyInv, RemoveStub
    PROVE  ResidencyInv'
<1>0. Types /\ Stages /\ Stored /\ NamesApart /\ Views /\ Kept1 /\ Kept2 /\ Kept3 /\ KeptS
          /\ Evictions
  BY DEF ResidencyInv, Base, Safe
<1>1. /\ UNCHANGED <<files, aside, litter, rows, cur, mode, log_vars, objects, view, scan, plan,
                     sources, todo, pinned, arrived, deltas, ops, owed, gone>>
      /\ pc = "unstub" /\ pc' = "unmark"
  BY DEF RemoveStub, EvictStep
<1>2. UNCHANGED <<remote, losers>>
  BY <1>1 DEF log_vars
<1>3. PICK p \in Path, c \in Content :
               /\ cur = [path |-> p, hash |-> c] /\ cur.path = p /\ cur.hash = c /\ cur # NoCur
                      /\ c # NoHash
               /\ remote[p].hash = c /\ rows[p].synced = c /\ ~Foreign(p)
               /\ Health(p, c) = "good" \/ c \in gone
  BY <1>1, EvictFacts DEF Underway, Evicting
<1>4. c \notin owed /\ aside = NoHash
  BY <1>0, <1>1, <1>3 DEF Evictions, Stages
<1>5. /\ stubs' \in [Path -> StubType] /\ stubs'[p] = NoStub /\ stubs'[p].of = NoPath
      /\ \A q \in Path \ {p} : stubs'[q] = stubs[q]
  <2>1. stubs' = [stubs EXCEPT ![p] = NoStub]
    BY <1>3 DEF RemoveStub
  <2> QED  BY <2>1, <1>0, <1>3 DEF Types, DiskTypes, StubType, Hash, NoStub
<1>6. /\ LogTypes' /\ PassTypes' /\ Stages' /\ Views'
      /\ Preserving' /\ Plan1' /\ Plan2' /\ Rec1' /\ Rec2'
      /\ \A q, d : Health(q, d)' = Health(q, d)
      /\ \A d : Known(d)' <=> Known(d)
  BY <1>0, <1>1, <1>3, <1>4, EvictRest DEF Evicting, Hash
<1>7. DiskTypes'
  BY <1>0, <1>1, <1>5 DEF Types, DiskTypes, StubType
<1>8. Stored'
  <2>1. \A q \in Path : Known(stubs'[q].hash)
    BY <1>0, <1>5 DEF Stored, Known, NoStub
  <2> QED  BY <2>1, <1>0, <1>1, <1>2, <1>6 DEF Stored, Known
<1>9. \A q \in Path : (Foreign(q)' <=> Foreign(q)) /\ (Named(q)' => Named(q))
  BY <1>3, <1>5, PathAssumption DEF Foreign, Named
<1>14. NamesApart'
  <2>1. \A q \in Path : Foreign(q)' => files'[q] = NoHash /\ ~Named(q)'
    BY <1>0, <1>1, <1>9 DEF NamesApart
  <2>2. \A q, r \in Path : stubs'[q].of = stubs'[r].of /\ stubs'[q].of \notin {NoPath, q, r}
            => q = r
    BY <1>0, <1>5 DEF NamesApart
  <2>3. \A q, r \in Path :
          /\ Foreign(r)' /\ stubs'[r].of = q /\ stubs'[q].of = q
          /\ stubs'[r].hash = remote[q].hash /\ remote[q].hash # NoHash
          => stubs'[q].hash = remote[q].hash
    BY <1>0, <1>3, <1>5, <1>9, PathAssumption DEF NamesApart
  <2> QED  BY <2>1, <2>2, <2>3, <1>2 DEF NamesApart
<1>10. Kept1' /\ Kept2'
  <2>1. Kept1'
    <3> SUFFICES ASSUME NEW q \in Path, Apart(q), ~Foreign(q)
                 PROVE  /\ rows[q].evicted /\ files[q] = NoHash
                        /\ (\E r \in Path : Sits(r, q, remote[q].hash)')
                               \/ Lost(q, remote[q].hash)
      BY <1>1, <1>2, <1>9 DEF Kept1, Apart, Lost
    <3>1. rows[q].evicted /\ files[q] = NoHash
              /\ ((\E r \in Path : Sits(r, q, remote[q].hash)) \/ Lost(q, remote[q].hash))
      BY <1>0 DEF Kept1
    <3>2. q # p
      BY <1>3, <1>4 DEF Apart
    <3>3. \A r \in Path : Sits(r, q, remote[q].hash) => Sits(r, q, remote[q].hash)'
      BY <1>2, <1>3, <1>5, <3>2, PathAssumption DEF Sits, Foreign
    <3> QED  BY <3>1, <3>3, <1>2
  <2>2. Kept2'
    BY <1>0, <1>1, <1>2 DEF Kept2, Lost
  <2> QED  BY <2>1, <2>2
<1>11. Kept3'
  BY <1>0, <1>1, <1>2 DEF Kept3, PendingLoser
<1>12. KeptS'
  <2>1. \A d : OnDisk(d) => OnDisk(d)'
    BY <1>1 DEF OnDisk, Contents
  <2>2. \A q \in Path : \A d : (Live(q, d) => Live(q, d)') /\ (Waits(q, d) => Waits(q, d)')
    BY <1>1, <1>2, <1>3, <1>5, <1>9 DEF Live, Waits, PendingLoser, Foreign
  <2> QED  BY <1>0, <1>1, <1>6, <2>1, <2>2 DEF KeptS, Held
<1>13. Evictions'
  <2>1. Health(cur.path, cur.hash)' = Health(p, c) /\ ~Foreign(cur.path)' /\ cur'.path = p
            /\ cur'.hash = c
    BY <1>1, <1>3, <1>6, <1>9
  <2> QED  BY <2>1, <1>1, <1>2, <1>3, <1>4 DEF Evictions
<1> QED  BY <1>6, <1>7, <1>8, <1>14, <1>10, <1>11, <1>12, <1>13
            DEF ResidencyInv, Base, Safe, Types

(* And then the mark. *)
LEMMA MarkLocalKeeps ==
    ASSUME ResidencyInv, MarkLocal
    PROVE  ResidencyInv'
<1>0. Types /\ Stages /\ Stored /\ NamesApart /\ Views /\ Kept1 /\ Kept2 /\ Kept3 /\ KeptS
          /\ Evictions
  BY DEF ResidencyInv, Base, Safe
<1>1. /\ UNCHANGED <<disk, mode, log_vars, objects, view, scan, plan, sources, todo, pinned,
                     arrived, deltas, ops, owed, gone>>
      /\ pc = "unmark" /\ pc' = "evict" /\ cur' = NoCur
  BY DEF MarkLocal, EvictStep
<1>2. UNCHANGED <<files, stubs, aside, litter, remote, losers>>
  BY <1>1 DEF disk, log_vars
<1>3. PICK p \in Path, c \in Content :
               /\ cur = [path |-> p, hash |-> c] /\ cur.path = p /\ cur.hash = c /\ cur # NoCur
                      /\ c # NoHash
               /\ remote[p].hash = c /\ rows[p].synced = c /\ ~Foreign(p)
               /\ Health(p, c) = "good" \/ c \in gone
  BY <1>1, EvictFacts DEF Underway, Evicting
<1>4. c \notin owed /\ aside = NoHash
  BY <1>0, <1>1, <1>3 DEF Evictions, Stages
<1>5. /\ rows' \in [Path -> RowType] /\ rows'[p].synced = c /\ ~rows'[p].evicted
      /\ \A q \in Path \ {p} : rows'[q] = rows[q]
  <2>1. rows' = [rows EXCEPT ![p].evicted = FALSE]
    BY <1>3 DEF MarkLocal
  <2> QED  BY <2>1, <1>0, <1>3 DEF Types, DiskTypes, RowType
<1>6. /\ LogTypes' /\ PassTypes' /\ Stages' /\ Views'
      /\ Preserving' /\ Plan1' /\ Plan2' /\ Rec1' /\ Rec2'
      /\ \A q, d : Health(q, d)' = Health(q, d)
      /\ \A d : Known(d)' <=> Known(d)
  BY <1>0, <1>1, <1>2, <1>3, <1>4, EvictRest DEF Evicting, Hash
<1>7. DiskTypes'
  BY <1>0, <1>1, <1>2, <1>3, <1>5 DEF Types, DiskTypes, RowType
<1>8. Stored'
  BY <1>0, <1>1, <1>2, <1>3, <1>5, <1>6 DEF Stored, Known
<1>9. NamesApart'
  BY <1>0, <1>2 DEF NamesApart, Foreign, Named
<1>10. Kept1' /\ Kept2'
  BY <1>0, <1>1, <1>2, <1>3, <1>4, <1>5 DEF Kept1, Kept2, Apart, Foreign, Sits, Lost
<1>11. Kept3'
  BY <1>0, <1>1, <1>2, <1>3, <1>4, <1>5 DEF Kept3, PendingLoser
<1>12. KeptS'
  <2>1. \A d : OnDisk(d) => OnDisk(d)'
    BY <1>2 DEF OnDisk, Contents
  <2>2. \A q \in Path : \A d : (Live(q, d) => Live(q, d)')
            /\ (Waits(q, d) /\ d # c => Waits(q, d)')
    BY <1>2, <1>3, <1>5 DEF Live, Waits, PendingLoser, Foreign
  <2> QED  BY <1>0, <1>1, <1>4, <1>6, <2>1, <2>2 DEF KeptS, Held
<1>13. Evictions'
  BY <1>1 DEF Evictions
<1> QED  BY <1>6, <1>7, <1>8, <1>9, <1>10, <1>11, <1>12, <1>13 DEF ResidencyInv, Base, Safe, Types

(***************************************************************************)
(* The end of a pass, and crashes.                                         *)
(***************************************************************************)
(* A pass that ends forgets its plan. *)
LEMMA ForgetKeeps ==
    ASSUME ResidencyInv, Forget, UNCHANGED <<files, stubs, rows, mode, log_vars, objects, owed,
                                             gone>>,
           aside' = NoHash, litter' = litter \cup ({aside} \ {NoHash})
    PROVE  ResidencyInv'
<1>0. Types /\ Stages /\ Stored /\ NamesApart /\ Views /\ Kept1 /\ Kept2 /\ Kept3 /\ KeptS
  BY DEF ResidencyInv, Base, Safe
<1>1. UNCHANGED <<remote, losers>>
  BY DEF log_vars
<1>2. /\ pc' = "idle" /\ view' = [p \in Path |-> Absent] /\ scan' = [p \in Path |-> NoHash]
      /\ plan' = {} /\ sources' = {} /\ todo' = {} /\ pinned' = {} /\ arrived' = {}
      /\ deltas' = {} /\ ops' = <<>> /\ cur' = NoCur
  BY DEF Forget
<1>3. DiskTypes'
  BY <1>0, <1>2 DEF Types, DiskTypes, Hash
<1>4. LogTypes'
  BY <1>0, <1>1, <1>2 DEF Types, LogTypes, ObjHash, Absent, Hash
<1>5. PassTypes'
  BY <1>2 DEF PassTypes, Pcs, Evicting
<1>6. Stages'
  BY <1>2 DEF Stages, Underway, Evicting
<1>7. Stored'
  <2>1. \A d : Known(d)' <=> Known(d)
    BY ObjectsStay
  <2> QED  BY <2>1, <1>0, <1>1, <1>2 DEF Stored, Known, Absent
<1>8. NamesApart' /\ Kept1' /\ Kept2' /\ Kept3'
  BY <1>0, <1>1
     DEF NamesApart, Kept1, Kept2, Kept3, Apart, Foreign, Named, Sits, Lost, PendingLoser
<1>9. Views'
  BY <1>2 DEF Views, Evicting
<1>10. KeptS'
  <2>1. \A q, d : Health(q, d)' = Health(q, d)
    BY ObjectsStay
  <2>2. \A d \in Content : OnDisk(d) => OnDisk(d)'
    BY ContentAssumption DEF OnDisk, Contents
  <2>3. \A q \in Path : \A d : (Live(q, d) => Live(q, d)') /\ (Waits(q, d) => Waits(q, d)')
    BY <1>1 DEF Live, Waits, PendingLoser, Foreign
  <2> QED  BY <1>0, <2>1, <2>2, <2>3 DEF KeptS, Held, Types, LogTypes
<1>11. Evictions'
  BY <1>2 DEF Evictions
<1>12. Preserving' /\ Plan1' /\ Plan2' /\ Rec1' /\ Rec2'
  BY <1>2, OffPlan
<1> QED  BY <1>3, <1>4, <1>5, <1>6, <1>7, <1>8, <1>9, <1>10, <1>11, <1>12
            DEF ResidencyInv, Base, Safe, Types

(* Moving aside, or nothing there to move. *)
LEMMA MoveAsideKeeps ==
    ASSUME ResidencyInv, MoveAside
    PROVE  ResidencyInv'
<1>1. CASE files[cur.path] # NoHash
  BY <1>1, MovedAsideKeeps
<1>2. CASE files[cur.path] = NoHash
  <2>1. aside = NoHash
    BY DEF ResidencyInv, Base, Stages, MoveAside
  <2> QED  BY <2>1, <1>2, ForgetKeeps DEF MoveAside
<1> QED  BY <1>1, <1>2

(* A pass is over. *)
LEMMA PassDoneKeeps ==
    ASSUME ResidencyInv, PassDone
    PROVE  ResidencyInv'
<1>1. aside = NoHash
  BY DEF ResidencyInv, Base, Stages, PassDone
<1> QED  BY <1>1, ForgetKeeps DEF PassDone, disk

(* A crash leaves litter where an eviction had a file aside. *)
LEMMA CrashKeeps ==
    ASSUME ResidencyInv, Crash
    PROVE  ResidencyInv'
  BY ForgetKeeps DEF Crash

(***************************************************************************)
(* The store damages an object.                                            *)
(***************************************************************************)
(* The object that is damaged is gone: with nothing else to hold its version it
   leaves what is owed. *)
LEMMA DamageKeeps ==
    ASSUME ResidencyInv, NEW k \in DOMAIN objects, NEW how \in {"missing", "rotten"},
           Damage(k, how)
    PROVE  ResidencyInv'
<1>0. /\ Types /\ Stages /\ Stored /\ NamesApart /\ Views /\ Kept1 /\ Kept2 /\ Kept3 /\ KeptS
      /\ Preserving /\ Plan1 /\ Plan2 /\ Rec1 /\ Rec2 /\ Evictions
  BY DEF ResidencyInv, Base, Safe
<1>1. PICK p \in Path, c \in Content : k = <<p, c>> /\ k[1] = p /\ k[2] = c
  BY <1>0 DEF Types, LogTypes
<1>2. UNCHANGED <<files, stubs, aside, litter, rows, mode, remote, losers, pc, view, scan, plan,
                  sources, todo, pinned, arrived, deltas, ops, cur, owed>>
  BY DEF Damage, disk, log_vars, pass_vars
<1>3. /\ SetHealth(p, c, how)
      /\ gone' = IF c \in Contents /\ c # cur.hash THEN gone ELSE gone \cup {c}
  BY <1>1 DEF Damage
<1>4. /\ DOMAIN objects' = DOMAIN objects \cup {<<p, c>>}
      /\ ObjHash' = ObjHash \cup {c}
      /\ \A d : Known(d) => Known(d)'
  BY <1>3, ObjectsSet, Zenon
<1>14. OthersStay(p, c)
  BY <1>3, ObjectsSet, Zenon
<1>5. c \in ObjHash
  BY <1>1 DEF ObjHash
<1>6. \A q, d : d # c => Health(q, d)' = Health(q, d)
  BY <1>14 DEF OthersStay
<1>7. c \in gone' \/ (c \in Contents /\ c # cur.hash)
  BY <1>3
<1>8. gone \subseteq gone'
  BY <1>3
<1>9. DiskTypes' /\ LogTypes' /\ PassTypes' /\ Stages'
  <2>1. DiskTypes'
    BY <1>0, <1>2 DEF Types, DiskTypes
  <2>2. LogTypes'
    BY <1>0, <1>2, <1>3, <1>4, <1>5 DEF Types, LogTypes
  <2>3. PassTypes'
    BY <1>0, <1>2 DEF Types, PassTypes
  <2>4. Stages'
    BY <1>0, <1>2 DEF Stages
  <2> QED  BY <2>1, <2>2, <2>3, <2>4
<1>10. Stored'
  BY <1>0, <1>2, <1>4 DEF Stored
<1>11. NamesApart' /\ Views' /\ Kept1' /\ Kept2' /\ Kept3'
  BY <1>0, <1>2
     DEF NamesApart, Views, Kept1, Kept2, Kept3, Apart, Foreign, Named, Sits, Lost, PendingLoser
<1>12. KeptS'
  <2>1. \A d : OnDisk(d)' <=> OnDisk(d)
    BY <1>2 DEF OnDisk, Contents
  <2>2. \A q, d : (Live(q, d)' <=> Live(q, d)) /\ (Waits(q, d)' <=> Waits(q, d))
    BY <1>2 DEF Live, Waits, PendingLoser, Foreign
  <2> SUFFICES ASSUME NEW d \in owed, d \notin gone' PROVE Held(d)'
    BY <1>2 DEF KeptS
  <2>3. Held(d)
    BY <1>0, <1>8 DEF KeptS
  <2>4. CASE d = c
    <3>1. OnDisk(d)
      BY <2>4, <1>7 DEF OnDisk
    <3> QED  BY <3>1, <2>1 DEF Held
  <2>5. CASE d # c
    BY <2>3, <2>5, <2>1, <2>2, <1>6 DEF Held
  <2> QED  BY <2>4, <2>5
<1>13. \A q, d : Sound(q, d) => Sound(q, d)'
  <2> SUFFICES ASSUME NEW q, NEW d, Sound(q, d) PROVE Sound(q, d)'
    OBVIOUS
  <2>1. CASE d # c
    BY <2>1, <1>2, <1>6, <1>8 DEF Sound, OnDisk, Contents
  <2>2. CASE d = c
    BY <2>2, <1>2, <1>7 DEF Sound, OnDisk, Contents
  <2> QED  BY <2>1, <2>2
<1>15. Preserving' /\ Plan1' /\ Plan2'
  <2>1. Preserving'
    BY <1>0, <1>2 DEF Preserving, LoserSource, OneTarget, PendingLoser, Lost, Named
  <2>2. Plan1'
    BY <1>0, <1>2
       DEF Plan1, PlanOK, ArrivedOK, DeltaOK, InPlan, InOps, InDeltas, NoLoserAt, Logged, Foreign
  <2>3. Plan2'
    BY <1>0, <1>2
       DEF Plan2, LoserSource, MovedSource, Planned, Logged, PendingLoser, Relies, StillNamed,
           Lost, Sits, InOps, InPlan, Named
  <2> QED  BY <2>1, <2>2, <2>3
<1>16. Rec1'
  BY <1>0, <1>2, <1>13 DEF Rec1, InPass, OneTarget, Logged, PendingLoser
<1>17. Rec2'
  <2>1. \A o \in OpType : OpOK(o) => OpOK(o)'
    <3> SUFFICES ASSUME NEW o \in OpType, OpOK(o) PROVE OpOK(o)'
      OBVIOUS
    <3>1. \A q \in Path : \A h : ConfirmOK(q, h) => ConfirmOK(q, h)'
      BY <1>2 DEF ConfirmOK, PendingLoser
    <3>2. \A q \in Path : \A h : StubOK(q, h) => StubOK(q, h)'
      <4> SUFFICES ASSUME NEW q \in Path, NEW h, StubOK(q, h) PROVE StubOK(q, h)'
        OBVIOUS
      <4>1. /\ files'[q] = NoHash /\ scan'[q] = NoHash /\ view'[q].hash = h /\ h # NoHash
        BY <1>2 DEF StubOK
      <4>2. \A s : Done(s) => Done(s)'
        BY <1>2 DEF Done, Logged
      <4>3. \A d \in owed' : PendingLoser(q, d)' /\ ~Foreign(q)' =>
               \E s \in sources' : s.path = q /\ s.hash = d /\ Done(s)' /\ ~Foreign(s.to)'
                   /\ Sound(s.to, d)'
        BY <1>2, <1>13, <4>2 DEF StubOK, PendingLoser, Foreign
      <4>4. Foreign(q)' /\ Relies(stubs[q].of)' =>
           \/ StillNamed(stubs[q].of, q)'
           \/ pc' = "apply" /\ (Planned(stubs[q].of, "DeleteRemote")' \/ Logged(stubs[q].of, NoHash)')
        BY <1>2 DEF StubOK, Foreign, Relies, StillNamed, Lost, Sits, Planned, Logged
      <4> QED  BY <4>1, <4>3, <4>4 DEF StubOK
    <3>3. o.path \in Path
      BY DEF OpType
    <3>4. ConfirmOK(o.path, o.hash) => ConfirmOK(o.path, o.hash)'
      BY <3>1, <3>3
    <3>5. StubOK(o.path, o.hash) => StubOK(o.path, o.hash)'
      BY <3>2, <3>3
    <3> QED  BY <3>4, <3>5, <1>2 DEF OpOK
  <2>2. \A i \in DOMAIN ops : ops[i] \in OpType
    BY <1>0 DEF Types, PassTypes
  <2>3. InPass' <=> InPass
    BY <1>2 DEF InPass
  <2>4. ASSUME InPass PROVE \A i \in DOMAIN ops : OpOK(ops[i])'
    <3> SUFFICES ASSUME NEW i \in DOMAIN ops PROVE OpOK(ops[i])'
      OBVIOUS
    <3>1. PICK o \in OpType : o = ops[i]
      BY <2>2
    <3>2. OpOK(o)
      BY <3>1, <2>4, <1>0 DEF Rec2
    <3>3. OpOK(o)'
      BY <3>2, <2>1
    <3>4. ops'[i] = o
      BY <3>1, <1>2
    <3> QED  BY <3>3, <3>4
  <2> QED  BY <1>0, <1>2, <2>3, <2>4 DEF Rec2, InOps, InPlan
<1>18. Evictions'
  <2>1. \A q, d : Health(q, d) = "good" \/ d \in gone
            => Health(q, d)' = "good" \/ d \in gone' \/ (d = c /\ c \notin gone')
    BY <1>6, <1>8
  <2>2. cur # NoCur => (Health(cur.path, cur.hash) = "good" \/ cur.hash \in gone =>
                           Health(cur.path, cur.hash)' = "good" \/ cur.hash \in gone')
    BY <2>1, <1>2, <1>7
  <2> QED  BY <2>2, <1>0, <1>2 DEF Evictions, Foreign, Sits
<1> QED  BY <1>9, <1>10, <1>11, <1>12, <1>15, <1>16, <1>17, <1>18
            DEF ResidencyInv, Base, Safe, Types

(***************************************************************************)
(* The users and the other devices.                                        *)
(***************************************************************************)
(* A user or another device does not touch the pass. *)
LEMMA BetweenPasses ==
    ASSUME Types, Stages, Views, pc \in {"idle"} \cup Evicting, UNCHANGED <<pass_vars, aside>>,
           pc # "idle" => UNCHANGED remote
    PROVE  /\ PassTypes' /\ Stages' /\ Views'
           /\ Preserving' /\ Plan1' /\ Plan2' /\ Rec1' /\ Rec2'
           /\ pc = "idle" => Evictions'
<1>1. UNCHANGED <<pc, view, scan, plan, sources, todo, pinned, arrived, deltas, ops, cur>>
  BY DEF pass_vars
<1>2. PassTypes'
  BY <1>1 DEF Types, PassTypes, Evicting
<1>3. Stages'
  BY <1>1 DEF Stages
<1>4. Views'
  <2>1. deltas = {}
    BY DEF Stages, Evicting
  <2> QED  BY <2>1, <1>1 DEF Views, Evicting
<1>5. Preserving' /\ Plan1' /\ Plan2' /\ Rec1' /\ Rec2'
  BY <1>1, OffPlan DEF Evicting
<1>6. pc = "idle" => Evictions'
  BY <1>1 DEF Stages, Underway, Evicting, Evictions
<1> QED  BY <1>2, <1>3, <1>4, <1>5, <1>6

(* The user saves, deletes and moves. *)
LEMMA WriteKeeps ==
    ASSUME NEW p \in Path, NEW c \in Content, ResidencyInv, Gates, Write(p, c)
    PROVE  ResidencyInv'
<1>0. Types /\ Stages /\ Stored /\ NamesApart /\ Views /\ Kept1 /\ Kept2 /\ Kept3 /\ KeptS
          /\ Evictions
  BY DEF ResidencyInv, Base, Safe
<1>1. /\ UNCHANGED <<stubs, rows, mode, scan, aside, litter, remote, losers, objects, pass_vars,
                     view, sources, ops, cur, gone>>
      /\ pc \in {"idle"} \cup Evicting /\ ~Foreign(p) /\ ~Named(p)
      /\ files' = [files EXCEPT ![p] = c]
  BY DEF Write, Gates, Editing, PeerStep, disk, log_vars, pass_vars
<1>11. NewTo(c)
  BY WriteNew
<1>2. DiskTypes'
  BY <1>0, <1>1 DEF Types, DiskTypes, Hash
<1>3. LogTypes'
  BY <1>0, WriteLog
<1>4. Stored'
  BY <1>0, <1>1, ObjectsStay DEF Stored, Known
<1>5. NamesApart'
  BY <1>0, <1>1 DEF NamesApart, Foreign, Named, Types, DiskTypes
<1>6. Kept1'
  BY <1>0, <1>11, WriteKept1
<1>7. Kept2'
  BY <1>0, <1>11, WriteKept2
<1>8. Kept3'
  BY <1>0, <1>11, WriteKept3
<1>9. KeptS'
  BY <1>0, <1>11, WriteKeptS
<1>10. PassTypes' /\ Stages' /\ Views' /\ Preserving' /\ Plan1' /\ Plan2' /\ Rec1' /\ Rec2'
           /\ Evictions'
  BY <1>0, <1>1, <1>11, BetweenPasses, WriteEvictions
<1> QED  BY <1>2, <1>3, <1>4, <1>5, <1>6, <1>7, <1>8, <1>9, <1>10
            DEF ResidencyInv, Base, Safe, Types

(* A deletion. *)
LEMMA DeleteKeeps ==
    ASSUME NEW p \in Path, ResidencyInv, Gates, Delete(p)
    PROVE  ResidencyInv'
<1>0. Types /\ Stages /\ Stored /\ NamesApart /\ Views /\ Kept1 /\ Kept2 /\ Kept3 /\ KeptS
          /\ Evictions
  BY DEF ResidencyInv, Base, Safe
<1>1. /\ UNCHANGED <<stubs, rows, mode, scan, aside, litter, remote, losers, objects, pass_vars,
                     view, sources, ops, cur, gone>>
      /\ pc \in {"idle"} \cup Evicting /\ owed' = owed \ {files[p]}
      /\ files' = [files EXCEPT ![p] = NoHash]
  BY DEF Delete, Editing, PeerStep, disk, log_vars, pass_vars
<1>2. DiskTypes'
  BY <1>0, <1>1 DEF Types, DiskTypes, Hash
<1>3. LogTypes'
  BY <1>0, <1>1, ObjectsStay DEF Types, LogTypes
<1>4. Stored'
  BY <1>0, <1>1, ObjectsStay DEF Stored, Known
<1>5. NamesApart'
  BY <1>0, <1>1 DEF NamesApart, Foreign, Named, Types, DiskTypes
<1>6. Kept1'
  BY <1>0, <1>1 DEF Kept1, Apart, Foreign, Sits, Lost, Types, DiskTypes
<1>7. Kept2'
  BY <1>0, <1>1 DEF Kept2, Lost, Types, DiskTypes
<1>8. Kept3'
  BY <1>0, <1>1 DEF Kept3, PendingLoser, Types, DiskTypes
<1>9. KeptS'
  BY <1>0, DeleteKeptS
<1>10. PassTypes' /\ Stages' /\ Views' /\ Preserving' /\ Plan1' /\ Plan2' /\ Rec1' /\ Rec2'
           /\ Evictions'
  BY <1>0, <1>1, BetweenPasses, DeleteEvictions
<1> QED  BY <1>2, <1>3, <1>4, <1>5, <1>6, <1>7, <1>8, <1>9, <1>10
            DEF ResidencyInv, Base, Safe, Types

(* A placeholder's deletion. *)
LEMMA DeleteStubKeeps ==
    ASSUME NEW p \in Path, ResidencyInv, Gates, DeleteStub(p)
    PROVE  ResidencyInv'
<1>0. Types /\ Stages /\ Stored /\ NamesApart /\ Views /\ Kept1 /\ Kept2 /\ Kept3 /\ KeptS
          /\ Evictions
  BY DEF ResidencyInv, Base, Safe
<1>1. /\ UNCHANGED <<files, rows, mode, scan, aside, litter, remote, losers, objects, pass_vars,
                     view, sources, ops, cur, gone>>
      /\ pc = "idle" /\ owed' \subseteq owed /\ stubs[p].hash \notin owed'
      /\ Foreign(p) => remote[p].hash \notin owed'
      /\ stubs' = [stubs EXCEPT ![p] = NoStub]
  BY DEF DeleteStub, Editing, PeerStep, disk, log_vars, pass_vars
<1>2. DiskTypes'
  BY <1>0, <1>1 DEF Types, DiskTypes, NoStub, Hash
<1>3. LogTypes'
  BY <1>0, <1>1, ObjectsStay DEF Types, LogTypes
<1>4. Stored'
  BY <1>0, <1>1, ObjectsStay DEF Stored, Known, Types, DiskTypes, NoStub
<1>5. NamesApart'
  BY <1>0, <1>1, PathAssumption DEF NamesApart, Foreign, Named, Types, DiskTypes, NoStub
<1>6. Kept1'
  BY <1>0, <1>1, PathAssumption DEF Kept1, Apart, Foreign, Sits, Lost, Types, DiskTypes, NoStub
<1>7. Kept2'
  BY <1>0, <1>1 DEF Kept2, Lost
<1>8. Kept3'
  BY <1>0, <1>1 DEF Kept3, PendingLoser
<1>9. KeptS'
  BY <1>0, DeleteStubKeptS
<1>10. PassTypes' /\ Stages' /\ Views' /\ Preserving' /\ Plan1' /\ Plan2' /\ Rec1' /\ Rec2'
           /\ Evictions'
  BY <1>0, <1>1, BetweenPasses
<1> QED  BY <1>2, <1>3, <1>4, <1>5, <1>6, <1>7, <1>8, <1>9, <1>10
            DEF ResidencyInv, Base, Safe, Types

(* A placeholder's move. *)
LEMMA MoveStubKeeps ==
    ASSUME NEW p \in Path, NEW q \in Path, ResidencyInv, Gates, MoveStub(p, q)
    PROVE  ResidencyInv'
<1>0. Types /\ Stages /\ Stored /\ NamesApart /\ Views /\ Kept1 /\ Kept2 /\ Kept3 /\ KeptS
          /\ Evictions
  BY DEF ResidencyInv, Base, Safe
<1>1. /\ UNCHANGED <<files, rows, mode, owed, scan, aside, litter, remote, losers, objects,
                     pass_vars, view, sources, ops, cur, gone>>
      /\ pc = "idle" /\ stubs' = [stubs EXCEPT ![p] = NoStub, ![q] = stubs[p]]
  BY DEF MoveStub, Editing, PeerStep, disk, log_vars, pass_vars
<1>11. stubs[p] # NoStub /\ stubs[q] = NoStub /\ ~Foreign(p) /\ ~Named(p) /\ ~Named(q)
           /\ files[q] = NoHash
  BY DEF MoveStub, Gates
<1>2. DiskTypes'
  BY <1>0, <1>1 DEF Types, DiskTypes, NoStub, Hash
<1>3. LogTypes'
  BY <1>0, <1>1, ObjectsStay DEF Types, LogTypes
<1>4. Stored'
  BY <1>0, <1>1, ObjectsStay DEF Stored, Known, Types, DiskTypes, NoStub
<1>5. NamesApart'
  <2>1. stubs[p].of = p /\ p # q /\ stubs'[p].of = NoPath /\ stubs'[q] = stubs[p]
        /\ \A r \in Path \ {p, q} : stubs'[r] = stubs[r]
    BY <1>0, <1>1, <1>11 DEF Types, DiskTypes, Foreign, NoStub
  <2>2. \A r \in Path : Foreign(r)' => r = q \/ (r # p /\ r # q /\ Foreign(r))
    BY <2>1, PathAssumption DEF Foreign
  <2>6. \A r \in Path \ {p} : Named(r)' => Named(r)
    BY <2>1, PathAssumption DEF Named
  <2>3. \A r \in Path : Foreign(r)' => files'[r] = NoHash /\ ~Named(r)'
    BY <1>0, <1>1, <1>11, <2>1, <2>2, <2>6 DEF NamesApart
  <2>4. \A r, t \in Path : stubs'[r].of = stubs'[t].of /\ stubs'[r].of \notin {NoPath, r, t}
            => r = t
    BY <1>0, <1>1, <1>11, <2>1 DEF NamesApart, Foreign, Named
  <2>5. \A r, t \in Path :
          /\ Foreign(t)' /\ stubs'[t].of = r /\ stubs'[r].of = r
          /\ stubs'[t].hash = remote'[r].hash /\ remote'[r].hash # NoHash
          => stubs'[r].hash = remote'[r].hash
    <3> SUFFICES ASSUME NEW r \in Path, NEW t \in Path, Foreign(t)', stubs'[t].of = r,
                        stubs'[r].of = r,
                        stubs'[t].hash = remote[r].hash, remote[r].hash # NoHash
                 PROVE  stubs'[r].hash = remote[r].hash
      BY <1>1
    <3>1. t # q
      BY <2>1, PathAssumption
    <3>2. Foreign(t) /\ t # p /\ r # p /\ r # q
      BY <3>1, <2>1, <2>2, <1>11, PathAssumption DEF Named, Foreign
    <3> QED  BY <3>1, <3>2, <1>0, <2>1 DEF NamesApart
  <2> QED  BY <2>3, <2>4, <2>5 DEF NamesApart
<1>6. Kept1'
  BY <1>0, MoveStubKept1
<1>7. Kept2'
  BY <1>0, <1>1 DEF Kept2, Lost
<1>8. Kept3'
  BY <1>0, <1>1 DEF Kept3, PendingLoser
<1>9. KeptS'
  BY <1>0, MoveStubKeptS
<1>10. PassTypes' /\ Stages' /\ Views' /\ Preserving' /\ Plan1' /\ Plan2' /\ Rec1' /\ Rec2'
           /\ Evictions'
  BY <1>0, <1>1, BetweenPasses
<1> QED  BY <1>2, <1>3, <1>4, <1>5, <1>6, <1>7, <1>8, <1>9, <1>10
            DEF ResidencyInv, Base, Safe, Types

(* A pin. *)
LEMMA PinKeeps ==
    ASSUME NEW p \in Path, NEW m \in Mode, ResidencyInv, Gates, Pin(p, m)
    PROVE  ResidencyInv'
<1>0. Types /\ Stages /\ Stored /\ NamesApart /\ Views /\ Kept1 /\ Kept2 /\ Kept3 /\ KeptS
          /\ Evictions
  BY DEF ResidencyInv, Base, Safe
<1>1. /\ UNCHANGED <<files, stubs, rows, owed, scan, aside, litter, remote, losers, objects,
                     pass_vars, view, sources, ops, cur, gone>>
      /\ pc = "idle" /\ mode' = [mode EXCEPT ![p] = m]
  BY DEF Pin, Editing, PeerStep, disk, log_vars, pass_vars
<1>2. DiskTypes'
  BY <1>0, <1>1 DEF Types, DiskTypes
<1>3. LogTypes'
  BY <1>0, <1>1, ObjectsStay DEF Types, LogTypes
<1>4. Stored'
  BY <1>0, <1>1, ObjectsStay DEF Stored, Known
<1>5. NamesApart'
  BY <1>0, <1>1 DEF NamesApart, Foreign, Named
<1>6. Kept1'
  BY <1>0, <1>1 DEF Kept1, Apart, Foreign, Sits, Lost
<1>7. Kept2'
  BY <1>0, <1>1 DEF Kept2, Lost
<1>8. Kept3'
  BY <1>0, <1>1 DEF Kept3, PendingLoser
<1>9. KeptS'
  BY <1>0, PinKeptS
<1>10. PassTypes' /\ Stages' /\ Views' /\ Preserving' /\ Plan1' /\ Plan2' /\ Rec1' /\ Rec2'
           /\ Evictions'
  BY <1>0, <1>1, BetweenPasses
<1> QED  BY <1>2, <1>3, <1>4, <1>5, <1>6, <1>7, <1>8, <1>9, <1>10
            DEF ResidencyInv, Base, Safe, Types

(* The other devices edit, win conflicts and delete. *)
LEMMA PeerEditKeeps ==
    ASSUME NEW p \in Path, NEW c \in Content, ResidencyInv, Gates, PeerEdit(p, c)
    PROVE  ResidencyInv'
<1>0. Types /\ Stages /\ Stored /\ NamesApart /\ Views /\ Kept1 /\ Kept2 /\ Kept3 /\ KeptS
          /\ Evictions
  BY DEF ResidencyInv, Base, Safe
<1>1. /\ UNCHANGED <<losers, scan, files, stubs, aside, litter, rows, mode, pass_vars, view,
                     sources, ops, cur, gone>>
      /\ pc = "idle"
  BY DEF PeerEdit, Editing, PeerStep, disk, log_vars, pass_vars
<1>11. /\ remote' = [remote EXCEPT ![p] = [hash |-> c, ours |-> FALSE]]
      /\ \A d : Known(d) => Known(d)'
      /\ ObjHash' = ObjHash \cup {c}
      /\ NewTo(c) /\ ~Foreign(p)
  BY <1>0, PeerVersionFacts, PeerEditFacts
<1>2. DiskTypes'
  BY <1>0, <1>1 DEF Types, DiskTypes, pass_vars
<1>3. LogTypes'
  BY <1>0, PeerEditLogTypes
<1>4. Stored'
  BY <1>0, <1>1, <1>11 DEF Stored, Known, Types, LogTypes
<1>5. NamesApart'
  <2>1. \A q \in Path : stubs[q].hash # c
    BY <1>0, <1>11, ContentAssumption DEF Stored, Known, NewTo
  <2> QED  BY <2>1, <1>0, <1>1, <1>11 DEF NamesApart, Foreign, Named, Types, LogTypes
<1>6. Kept1'
  BY <1>0, PeerEditKept1
<1>7. Kept2'
  BY <1>0, PeerEditKept2
<1>8. Kept3'
  BY <1>0, PeerEditKept3
<1>9. KeptS'
  BY <1>0, PeerEditKeptS
<1>10. PassTypes' /\ Stages' /\ Views' /\ Preserving' /\ Plan1' /\ Plan2' /\ Rec1' /\ Rec2'
           /\ Evictions'
  BY <1>0, <1>1, BetweenPasses
<1> QED  BY <1>2, <1>3, <1>4, <1>5, <1>6, <1>7, <1>8, <1>9, <1>10
            DEF ResidencyInv, Base, Safe, Types

(* A conflict. *)
LEMMA PeerConflictKeeps ==
    ASSUME NEW p \in Path, NEW c \in Content, ResidencyInv, Gates, PeerConflict(p, c)
    PROVE  ResidencyInv'
<1>0. Types /\ Stages /\ Stored /\ NamesApart /\ Views /\ Kept1 /\ Kept2 /\ Kept3 /\ KeptS
          /\ Evictions
  BY DEF ResidencyInv, Base, Safe
<1>1. /\ UNCHANGED <<scan, files, stubs, aside, litter, rows, mode, pass_vars, view, sources, ops,
                     cur, gone>>
      /\ pc = "idle"
  BY DEF PeerConflict, Editing, PeerStep, disk, log_vars, pass_vars
<1>11. /\ remote' = [remote EXCEPT ![p] = [hash |-> c, ours |-> FALSE]]
      /\ \A d : Known(d) => Known(d)'
      /\ ObjHash' = ObjHash \cup {c}
      /\ NewTo(c) /\ ~Foreign(p)
  BY <1>0, PeerVersionFacts, PeerConflictFacts
<1>2. DiskTypes'
  BY <1>0, <1>1 DEF Types, DiskTypes, pass_vars
<1>3. LogTypes'
  BY <1>0, PeerConflictLogTypes
<1>4. Stored'
  BY <1>0, PeerConflictStored
<1>5. NamesApart'
  <2>1. \A q \in Path : stubs[q].hash # c
    BY <1>0, <1>11, ContentAssumption DEF Stored, Known, NewTo
  <2> QED  BY <2>1, <1>0, <1>1, <1>11 DEF NamesApart, Foreign, Named, Types, LogTypes
<1>6. Kept1'
  BY <1>0, PeerConflictKept1
<1>7. Kept2'
  BY <1>0, PeerConflictKept2
<1>8. Kept3'
  BY <1>0, PeerConflictKept3
<1>9. KeptS'
  BY <1>0, PeerConflictKeptS
<1>10. PassTypes' /\ Stages' /\ Views' /\ Preserving' /\ Plan1' /\ Plan2' /\ Rec1' /\ Rec2'
           /\ Evictions'
  BY <1>0, <1>1, BetweenPasses
<1> QED  BY <1>2, <1>3, <1>4, <1>5, <1>6, <1>7, <1>8, <1>9, <1>10
            DEF ResidencyInv, Base, Safe, Types

(* A deletion elsewhere. *)
LEMMA PeerDeleteKeeps ==
    ASSUME NEW p \in Path, ResidencyInv, Gates, PeerDelete(p)
    PROVE  ResidencyInv'
<1>0. Types /\ Stages /\ Stored /\ NamesApart /\ Views /\ Kept1 /\ Kept2 /\ Kept3 /\ KeptS
          /\ Evictions
  BY DEF ResidencyInv, Base, Safe
<1>1. /\ UNCHANGED <<losers, objects, scan, files, stubs, aside, litter, rows, mode, pass_vars,
                     view, sources, ops, cur, gone>>
      /\ pc = "idle" /\ owed' = owed \ {remote[p].hash}
      /\ remote' = [remote EXCEPT ![p] = Absent]
  BY DEF PeerDelete, Editing, PeerStep, disk, log_vars, pass_vars
<1>2. DiskTypes'
  BY <1>0, <1>1 DEF Types, DiskTypes, pass_vars
<1>3. LogTypes'
  BY <1>0, <1>1, ObjectsStay DEF Types, LogTypes, Absent, Hash
<1>4. Stored'
  BY <1>0, <1>1, ObjectsStay DEF Stored, Known, Types, LogTypes, Absent
<1>5. NamesApart'
  BY <1>0, <1>1 DEF NamesApart, Foreign, Named, Types, LogTypes, Absent
<1>6. Kept1'
  <2>1. \A q \in Path : Apart(q)' => q # p /\ remote'[q] = remote[q] /\ Apart(q)
    BY <1>0, <1>1 DEF Apart, Types, LogTypes, Absent
  <2> QED  BY <2>1, <1>0, <1>1 DEF Kept1, Foreign, Sits, Lost
<1>7. Kept2'
  BY <1>0, <1>1 DEF Kept2, Lost, Types, LogTypes, Absent
<1>8. Kept3'
  BY <1>0, <1>1 DEF Kept3, PendingLoser
<1>9. KeptS'
  BY <1>0, PeerDeleteKeptS
<1>10. PassTypes' /\ Stages' /\ Views' /\ Preserving' /\ Plan1' /\ Plan2' /\ Rec1' /\ Rec2'
           /\ Evictions'
  BY <1>0, <1>1, BetweenPasses
<1> QED  BY <1>2, <1>3, <1>4, <1>5, <1>6, <1>7, <1>8, <1>9, <1>10
            DEF ResidencyInv, Base, Safe, Types

(***************************************************************************)
(* The beginning of a pass.                                                *)
(***************************************************************************)
(* The log is read. *)
LEMMA ReadLogKeeps ==
    ASSUME ResidencyInv, ReadLog
    PROVE  ResidencyInv'
<1>0. Types /\ Stages /\ Stored /\ NamesApart /\ Views /\ Kept1 /\ Kept2 /\ Kept3 /\ KeptS
          /\ Evictions
  BY DEF ResidencyInv, Base, Safe
<1>1. /\ UNCHANGED <<files, stubs, rows, mode, aside, litter, remote, losers, objects, scan, plan,
                     sources, pinned, arrived, deltas, ops, cur, owed, gone>>
      /\ pc = "idle" /\ pc' = "preserve" /\ view' = remote /\ todo' = losers
  BY DEF ReadLog, disk, log_vars
<1>2. DiskTypes' /\ LogTypes' /\ PassTypes'
  <2>1. DiskTypes'
    BY <1>0, <1>1 DEF Types, DiskTypes
  <2>2. LogTypes'
    BY <1>0, <1>1, ObjectsStay DEF Types, LogTypes
  <2>3. PassTypes'
    BY <1>0, <1>1 DEF Types, PassTypes, Pcs, Evicting
  <2> QED  BY <2>1, <2>2, <2>3
<1>3. Stages' /\ Views'
  BY <1>0, <1>1 DEF Stages, Views, Underway, Evicting
<1>4. Stored'
  BY <1>0, <1>1, ObjectsStay DEF Stored, Known
<1>5. NamesApart' /\ Kept1' /\ Kept2' /\ Kept3'
  BY <1>0, <1>1
     DEF NamesApart, Kept1, Kept2, Kept3, Apart, Foreign, Named, Sits, Lost, PendingLoser
<1>6. KeptS'
  BY <1>0, KeptStays DEF ReadLog
<1>7. Preserving' /\ Plan1' /\ Plan2' /\ Rec1' /\ Rec2' /\ Evictions'
  BY <1>0, ReadLogPhases
<1> QED  BY <1>2, <1>3, <1>4, <1>5, <1>6, <1>7 DEF ResidencyInv, Base, Safe, Types

(* A loser is preserved, in one of its three ways. *)
LEMMA PreserveLoserKeeps ==
    ASSUME NEW l \in todo, ResidencyInv, PreserveLoser(l)
    PROVE  ResidencyInv'
<1>0. /\ Types /\ Stages /\ Stored /\ NamesApart /\ Views /\ Kept1 /\ Kept2 /\ Kept3 /\ KeptS
      /\ Preserving
  BY DEF ResidencyInv, Base, Safe
<1>1. /\ LoserFrame(l)
      /\ l \in losers /\ l.path \in Path /\ l.hash \in Content /\ l.hash # NoHash
      /\ l = [path |-> l.path, hash |-> l.hash]
      /\ \/ \E q \in Path : LoserRenamed(l, q)
         \/ \E q \in Path : LoserRelocated(l, q)
         \/ LoserPassed(l)
  BY <1>0, PreserveLoserCases
<1>2. DiskTypes' /\ Stored' /\ NamesApart' /\ Kept1' /\ Kept2' /\ Kept3' /\ KeptS' /\ Preserving'
  <2>1. ASSUME NEW q \in Path, LoserRenamed(l, q)
        PROVE  DiskTypes' /\ Stored' /\ NamesApart' /\ Kept1' /\ Kept2' /\ Kept3' /\ KeptS'
                   /\ Preserving'
    BY <2>1, <1>0, <1>1, LoserRenamedKeeps
  <2>2. ASSUME NEW q \in Path, LoserRelocated(l, q)
        PROVE  DiskTypes' /\ Stored' /\ NamesApart' /\ Kept1' /\ Kept2' /\ Kept3' /\ KeptS'
                   /\ Preserving'
    BY <2>2, <1>0, <1>1, LoserRelocatedKeeps
  <2>3. ASSUME LoserPassed(l)
        PROVE  DiskTypes' /\ Stored' /\ NamesApart' /\ Kept1' /\ Kept2' /\ Kept3' /\ KeptS'
                   /\ Preserving'
    BY <2>3, <1>0, <1>1, LoserPassedKeeps
  <2> QED  BY <2>1, <2>2, <2>3, <1>1
<1>3. /\ UNCHANGED <<aside, remote, losers, objects, pc, view, plan, pinned, arrived, deltas, ops,
                     cur, owed, gone>>
      /\ pc = "preserve" /\ todo' = todo \ {l}
      /\ \/ sources' = sources
         \/ \E q \in Path : sources' = sources \cup {[to |-> q, path |-> l.path, hash |-> l.hash]}
  BY <1>1 DEF LoserFrame, LoserRenamed, LoserRelocated, LoserPassed, log_vars
<1>4. LogTypes'
  BY <1>0, <1>3, ObjectsStay DEF Types, LogTypes
<1>5. PassTypes'
  <2>1. sources' \subseteq [to : Path, path : Path, hash : Content]
    BY <1>0, <1>1, <1>3 DEF Types, PassTypes
  <2> QED  BY <2>1, <1>0, <1>3 DEF Types, PassTypes, Evicting
<1>6. Stages' /\ Views'
  BY <1>0, <1>3 DEF Stages, Views
<1>7. Plan1' /\ Plan2' /\ Rec1' /\ Rec2'
  BY <1>3 DEF Plan1, Plan2, Rec1, Rec2, InPass
<1>8. Evictions'
  BY <1>0, <1>3 DEF Stages, Evictions, Underway, Evicting
<1> QED  BY <1>2, <1>4, <1>5, <1>6, <1>7, <1>8 DEF ResidencyInv, Base, Safe, Types

(* The plan is made. *)
LEMMA PlanPassKeeps ==
    ASSUME ResidencyInv, PlanPass
    PROVE  ResidencyInv'
<1>0. /\ Types /\ Stages /\ Stored /\ NamesApart /\ Views /\ Kept1 /\ Kept2 /\ Kept3 /\ KeptS
      /\ Preserving
  BY DEF ResidencyInv, Base, Safe
<1>1. PlanFrame /\ \E kind : PlanMade(kind)
  BY <1>0, PlanPassMade
<1>2. PICK kind : PlanMade(kind)
  BY <1>1
<1>3. DiskTypes' /\ LogTypes' /\ NamesApart' /\ Views' /\ Kept1' /\ Kept2' /\ Kept3' /\ KeptS'
  BY <1>0, <1>1, PlanPassBase
<1>4. PassTypes' /\ Stages' /\ Stored'
  BY <1>0, <1>1, <1>2, PlanPassTypes
<1>5. Plan1' /\ Plan2'
  BY <1>0, <1>1, <1>2, PlanPassPlan1, PlanPassPlan2
<1>6. Rec1' /\ Rec2' /\ Preserving' /\ Evictions'
  BY <1>0, <1>1, <1>2, PlanPassRec
<1> QED  BY <1>3, <1>4, <1>5, <1>6 DEF ResidencyInv, Base, Safe, Types

(* In the plan and its records nothing but Parts is at stake. *)
LEMMA PartsSuffice ==
    ASSUME ResidencyInv, pc' \in {"apply", "record"}, Parts => Parts'
    PROVE  ResidencyInv'
<1>1. Parts'
  BY DEF ResidencyInv, Base, Safe, Parts
<1>2. Preserving' /\ Evictions'
  BY <1>1 DEF Parts, Stages, Underway, Evicting, Preserving, Evictions
<1> QED  BY <1>1, <1>2 DEF ResidencyInv, Base, Safe, Parts

(* So for every step of it. *)
LEMMA PlanStepKeeps ==
    ASSUME ResidencyInv,
           \/ LogDelta \/ Record
           \/ \E s \in sources : Relocate(s)
           \/ \E p \in Path : \/ Upload(p) \/ Hydrated(p) \/ PlacePlaceholder(p)
                              \/ DeleteLocal(p) \/ DeleteRemote(p) \/ Conflict(p)
                                     \/ TransferFails(p)
                              \/ \E k \in {"Download", "Hydrate"} : Download(p, k)
    PROVE  ResidencyInv'
<1>1. CASE LogDelta
  BY <1>1, LogDeltaKeeps, PartsSuffice DEF LogDelta
<1>2. CASE Record
  BY <1>2, RecordKeeps, PartsSuffice DEF Record
<1>3. ASSUME NEW s \in sources, Relocate(s) PROVE ResidencyInv'
  BY <1>3, RelocateKeeps, PartsSuffice DEF Relocate, Take
<1>4. ASSUME NEW p \in Path, Upload(p) PROVE ResidencyInv'
  BY <1>4, UploadKeeps, PartsSuffice DEF Upload, Take
<1>5. ASSUME NEW p \in Path, Hydrated(p) PROVE ResidencyInv'
  <2>1. pc' = "apply"
    BY <1>5 DEF Hydrated, ResidencyInv, Base, Stages
  <2> QED  BY <2>1, <1>5, HydratedKeeps, PartsSuffice
<1>6. ASSUME NEW p \in Path, PlacePlaceholder(p) PROVE ResidencyInv'
  BY <1>6, PlacePlaceholderKeeps, PartsSuffice DEF PlacePlaceholder, Take
<1>7. ASSUME NEW p \in Path, DeleteLocal(p) PROVE ResidencyInv'
  BY <1>7, DeleteLocalKeeps, PartsSuffice DEF DeleteLocal, Take
<1>8. ASSUME NEW p \in Path, DeleteRemote(p) PROVE ResidencyInv'
  BY <1>8, DeleteRemoteKeeps, PartsSuffice DEF DeleteRemote, Take
<1>9. ASSUME NEW p \in Path, Conflict(p) PROVE ResidencyInv'
  BY <1>9, ConflictKeeps, PartsSuffice DEF Conflict, Take
<1>10. ASSUME NEW p \in Path, TransferFails(p) PROVE ResidencyInv'
  BY <1>10, TransferFailsKeeps, PartsSuffice DEF TransferFails, Take
<1>11. ASSUME NEW p \in Path, NEW k \in {"Download", "Hydrate"},
              Download(p, k) PROVE ResidencyInv'
  BY <1>11, DownloadKeeps, PartsSuffice DEF Download, Take
<1> QED  BY <1>1, <1>2, <1>3, <1>4, <1>5, <1>6, <1>7, <1>8, <1>9, <1>10, <1>11

(***************************************************************************)
(* The invariant.                                                          *)
(***************************************************************************)
(* At first nothing is mirrored. *)
LEMMA ResidencyInit ==
    ASSUME Init
    PROVE  ResidencyInv
<1>1. PICK p \in Path \ Copy, c \in Content :
          /\ files = [q \in Path |-> IF q = p THEN c ELSE NoHash]
          /\ rows = [q \in Path |-> IF q = p THEN [hash |-> c, synced |-> c, evicted |-> FALSE] ELSE NoRow]
          /\ remote = [q \in Path |-> IF q = p THEN [hash |-> c, ours |-> TRUE] ELSE Absent]
          /\ objects = [k \in {<<p, c>>} |-> "good"]
          /\ owed = {c}
  <2>1. (CHOOSE q \in Path \ Copy : TRUE) \in Path \ Copy
    BY PathAssumption
  <2>2. (CHOOSE d \in Content : TRUE) \in Content
    BY ContentAssumption
  <2> QED  BY <2>1, <2>2 DEF Init
<1>2. /\ stubs = [q \in Path |-> NoStub]
      /\ mode = [q \in Path |-> "auto"]
      /\ aside = NoHash /\ litter = {} /\ losers = {}
      /\ pc = "idle" /\ view = [q \in Path |-> Absent] /\ scan = [q \in Path |-> NoHash]
      /\ plan = {} /\ sources = {} /\ todo = {} /\ pinned = {} /\ arrived = {}
      /\ deltas = {} /\ ops = <<>> /\ cur = NoCur /\ gone = {}
  BY DEF Init
<1>3. c # NoHash /\ ObjHash = {c}
  BY <1>1, ContentAssumption DEF ObjHash
<1>4. \A q \in Path : ~Foreign(q) /\ ~Named(q) /\ stubs[q].of = NoPath /\ stubs[q] = NoStub
  BY <1>2, PathAssumption DEF Foreign, Named, NoStub
<1>5. DiskTypes
  BY <1>1, <1>2 DEF DiskTypes, Hash, NoStub, NoRow, Mode
<1>6. LogTypes
  BY <1>1, <1>2, <1>3 DEF LogTypes, Hash, Absent
<1>7. PassTypes
  BY <1>2 DEF PassTypes, Pcs, Evicting
<1>8. Stages /\ Views
  BY <1>2 DEF Stages, Views, Underway, Evicting
<1>9. Stored
  BY <1>1, <1>2, <1>3 DEF Stored, Known, NoRow, Absent, NoStub
<1>10. NamesApart
  BY <1>4 DEF NamesApart
<1>11. Kept1 /\ Kept2 /\ Kept3
  BY <1>1, <1>2, <1>3 DEF Kept1, Kept2, Kept3, Apart, PendingLoser, NoRow, Absent
<1>12. KeptS
  <2>1. c \in Contents
    BY <1>1 DEF Contents
  <2> QED  BY <2>1, <1>1 DEF KeptS, Held, OnDisk
<1>13. Preserving /\ Plan1 /\ Plan2 /\ Rec1 /\ Rec2 /\ Evictions
  BY <1>2 DEF Preserving, Plan1, Plan2, Rec1, Rec2, InPass, Evictions
<1> QED  BY <1>5, <1>6, <1>7, <1>8, <1>9, <1>10, <1>11, <1>12, <1>13
            DEF ResidencyInv, Base, Safe, Types

(* The steps of the user, *)
LEMMA UserKeeps ==
    ASSUME ResidencyInv, Gates, User
    PROVE  ResidencyInv'
  BY WriteKeeps, DeleteKeeps, DeleteStubKeeps, MoveStubKeeps, PinKeeps DEF User

(* of the other devices, *)
LEMMA PeerKeeps ==
    ASSUME ResidencyInv, Gates, Peer
    PROVE  ResidencyInv'
  BY PeerEditKeeps, PeerConflictKeeps, PeerDeleteKeeps DEF Peer

(* of the pass, *)
LEMMA PassStepKeeps ==
    ASSUME ResidencyInv, Gates, PassStep
    PROVE  ResidencyInv'
<1>1. CASE ReadLog \/ PlanPass \/ RecordScan \/ PlanEvictions
  BY <1>1, ReadLogKeeps, PlanPassKeeps, RecordScanKeeps, PlanEvictionsKeeps
<1>2. CASE MarkEvicted \/ WriteStub \/ MoveAside \/ Restat \/ Unlink
  BY <1>2, MarkEvictedKeeps, WriteStubKeeps, MoveAsideKeeps, RestatKeeps, UnlinkKeeps
<1>3. CASE PutBack \/ RemoveStub \/ MarkLocal \/ PassDone
  BY <1>3, PutBackKeeps, RemoveStubKeeps, MarkLocalKeeps, PassDoneKeeps
<1>4. CASE \E l \in todo : PreserveLoser(l)
  BY <1>4, PreserveLoserKeeps
<1>5. CASE \E p \in Path : CheckFile(p)
  BY <1>5, CheckFileKeeps
<1>6. CASE \/ LogDelta \/ Record
           \/ \E s \in sources : Relocate(s)
           \/ \E p \in Path : \/ Upload(p) \/ Hydrated(p) \/ PlacePlaceholder(p)
                              \/ DeleteLocal(p) \/ DeleteRemote(p) \/ Conflict(p)
                              \/ \E k \in {"Download", "Hydrate"} : Download(p, k)
  BY <1>6, PlanStepKeeps
<1> QED  BY <1>1, <1>2, <1>3, <1>4, <1>5, <1>6 DEF PassStep

(* and the faults keep it. *)
LEMMA FaultKeeps ==
    ASSUME ResidencyInv, Fault
    PROVE  ResidencyInv'
<1>1. CASE Crash
  BY <1>1, CrashKeeps
<1>2. CASE \E p \in Path : TransferFails(p)
  BY <1>2, PlanStepKeeps
<1>3. CASE \E k \in DOMAIN objects, how \in {"missing", "rotten"} : Damage(k, how)
  BY <1>3, DamageKeeps
<1> QED  BY <1>1, <1>2, <1>3 DEF Fault

(* A step that changes nothing keeps it. *)
LEMMA StutterKeeps ==
    ASSUME ResidencyInv, UNCHANGED vars
    PROVE  ResidencyInv'
<1>1. UNCHANGED <<files, stubs, aside, litter, rows, mode, remote, losers, objects, pc, view,
                  scan, plan, sources, todo, pinned, arrived, deltas, ops, cur, owed, gone>>
  BY DEF vars, disk, log_vars, pass_vars
<1>2. /\ Types /\ Stages /\ Stored /\ NamesApart /\ Views /\ Kept1 /\ Kept2 /\ Kept3 /\ KeptS
      /\ Preserving /\ Plan1 /\ Plan2 /\ Rec1 /\ Rec2 /\ Evictions
  BY DEF ResidencyInv, Base, Safe
<1>3. DiskTypes' /\ LogTypes' /\ Stored' /\ NamesApart' /\ Kept1' /\ Kept2' /\ Kept3' /\ KeptS'
  BY <1>1, <1>2, StillSafe DEF disk, log_vars
<1>4. PassTypes' /\ Stages' /\ Views'
  BY <1>1, <1>2 DEF Types, PassTypes, Stages, Views
<1>5. Preserving' /\ Plan1' /\ Plan2'
  <2>1. Preserving'
    BY <1>1, <1>2 DEF Preserving, LoserSource, OneTarget, PendingLoser, Lost, Named
  <2>2. Plan1'
    BY <1>1, <1>2
       DEF Plan1, PlanOK, ArrivedOK, DeltaOK, InPlan, InOps, InDeltas, NoLoserAt, Logged, Foreign
  <2>3. Plan2'
    BY <1>1, <1>2
       DEF Plan2, LoserSource, MovedSource, Planned, Logged, PendingLoser, Relies, StillNamed,
           Lost, Sits, InOps, InPlan, Named
  <2> QED  BY <2>1, <2>2, <2>3
<1>6. \A q, d : Health(q, d)' = Health(q, d)
  BY <1>1, ObjectsStay
<1>7. Rec1'
  BY <1>1, <1>2, <1>6 DEF Rec1, InPass, OneTarget, Logged, PendingLoser, Sound, OnDisk, Contents
<1>8. Rec2'
  <2>1. \A i \in DOMAIN ops : OpOK(ops[i]) => OpOK(ops[i])'
    BY <1>1, <1>6
       DEF OpOK, ConfirmOK, StubOK, Sound, OnDisk, Contents, PendingLoser, Foreign, Done, Logged,
           Relies, StillNamed, Lost, Sits, Planned
  <2> QED  BY <2>1, <1>1, <1>2 DEF Rec2, InPass, InOps, InPlan
<1>9. Evictions'
  BY <1>1, <1>2, <1>6 DEF Evictions, Foreign, Sits
<1> QED  BY <1>3, <1>4, <1>5, <1>7, <1>8, <1>9 DEF ResidencyInv, Base, Safe, Types

(* The invariant is inductive, *)
LEMMA NextKeeps ==
    ASSUME ResidencyInv, Gates, [Next]_vars
    PROVE  ResidencyInv'
  BY UserKeeps, PeerKeeps, PassStepKeeps, FaultKeeps, StutterKeeps DEF Next

(* and so holds, *)
LEMMA ResidencyHolds ==
    ASSUME Gates
    PROVE  Spec => []ResidencyInv
<1>1. Init => ResidencyInv
  BY ResidencyInit
<1>2. ResidencyInv /\ [Next]_vars => ResidencyInv'
  BY NextKeeps
<1> QED  BY <1>1, <1>2, PTL DEF Spec

(* and implies what the runs check. *)
LEMMA InvariantSuffices ==
    ASSUME ResidencyInv
    PROVE  Consistent
<1>0. Types /\ Stages /\ KeptS
  BY DEF ResidencyInv, Base, Safe
<1>1. TypeOK
  <2>1. files \in [Path -> Content \cup {NoHash}] /\ scan \in [Path -> Content \cup {NoHash}]
    BY <1>0 DEF Types, DiskTypes, Hash
  <2>2. \A p \in Path : /\ stubs[p].of \in Path \cup {NoPath}
                        /\ rows[p] \in [hash : Content \cup {NoHash}, synced : Content \cup {NoHash},
                                        evicted : BOOLEAN]
                        /\ rows[p].evicted => rows[p].synced # NoHash
    BY <1>0 DEF Types, DiskTypes, Hash
  <2>3. \A p \in Path : {remote[p].hash, view[p].hash} \subseteq Content \cup {NoHash}
    BY <1>0 DEF Types, LogTypes, Hash
  <2>4. mode \in [Path -> Mode] /\ aside \in Content \cup {NoHash} /\ litter \subseteq Content
    BY <1>0 DEF Types, DiskTypes, Hash
  <2>5. (\A d \in deltas : d.hash \in Content \cup {NoHash})
            /\ \A a \in plan : a.kind \in ActionKind
    BY <1>0 DEF Types, PassTypes, Hash
  <2>6. cur.path \in Path <=> pc \in Evicting \ {"evict"}
    BY <1>0, PathAssumption DEF Types, PassTypes, Stages, Underway, NoCur
  <2> QED  BY <2>1, <2>2, <2>3, <2>4, <2>5, <2>6 DEF TypeOK
<1>2. Kept
  BY <1>0 DEF KeptS, Held, OnDisk, Live, Waits, Kept
<1> QED  BY <1>1, <1>2 DEF Consistent

(* Eviction, hydration, relocation, deletions and crashes, of one device among
   others, lose no version that nobody replaced or deleted, and the rows stay
   well formed (evict_one, relocate, apply): for any files, contents and numbers
   of edits and faults.  Each hypothesis is needed: evictions are verified, users
   keep names apart and do not save while an eviction puts a file back, and no
   other device deletes a file whose loser waits here. *)
THEOREM NoVersionIsLost ==
    ASSUME ~Collisions, ~SecondSaves, ~LoserDeletes, Verify
    PROVE  Spec => []Consistent
<1> Gates
  BY DEF Gates
<1>1. ResidencyInv => Consistent
  BY InvariantSuffices
<1> QED  BY <1>1, ResidencyHolds, PTL

(* Only the flush changes the log during the plan. *)
LEMMA OnlyLogDeltaDeletes ==
    ASSUME ResidencyInv, [Next]_vars, pc = "apply", remote' # remote
    PROVE  LogDelta
<1>1. Next /\ ~(remote' = remote)
  BY DEF vars, log_vars
<1>2. ~User
  BY <1>1 DEF User, Write, Delete, DeleteStub, MoveStub, Pin, Editing, Evicting
<1>3. ~Peer
  BY <1>1 DEF Peer, PeerEdit, PeerConflict, PeerDelete, PeerStep
<1>4. ~Fault
  BY <1>1 DEF Fault, Crash, TransferFails, Damage, log_vars
<1>5. PassStep
  BY <1>1, <1>2, <1>3, <1>4 DEF Next
<1>6. ~(ReadLog \/ PlanPass \/ Record \/ RecordScan \/ PlanEvictions \/ PassDone)
  BY <1>1 DEF ReadLog, PlanPass, Record, RecordScan, PlanEvictions, PassDone
<1>7. ~(MarkEvicted \/ WriteStub \/ MoveAside \/ Restat \/ Unlink \/ PutBack \/ RemoveStub \/ MarkLocal)
  BY <1>1
     DEF MarkEvicted, WriteStub, MoveAside, Restat, Unlink, PutBack, RemoveStub, MarkLocal,
         EvictStep
<1>8. \A l \in todo : ~PreserveLoser(l)
  BY <1>1 DEF PreserveLoser
<1>9. \A s \in sources : ~Relocate(s)
  BY <1>1 DEF Relocate, log_vars
<1>10. \A p \in Path : ~(Upload(p) \/ Hydrated(p) \/ PlacePlaceholder(p)
                         \/ DeleteLocal(p) \/ DeleteRemote(p) \/ Conflict(p) \/ CheckFile(p))
  BY <1>1
     DEF Upload, Hydrated, PlacePlaceholder, DeleteLocal, DeleteRemote, Conflict, CheckFile,
         log_vars
<1>11. \A p \in Path, k \in {"Download", "Hydrate"} : ~Download(p, k)
  BY <1>1 DEF Download, log_vars
<1> QED  BY <1>5, <1>6, <1>7, <1>8, <1>9, <1>10, <1>11 DEF PassStep

(* A pass tombstones only what a user deleted or moved here (delete_remote,
   and the pinned sources of apply), on the same four hypotheses: evictions are
   verified, users keep names apart and do not save while an eviction puts a file
   back, and no other device deletes a file whose loser waits here. *)
THEOREM DeletionsAreDue ==
    ASSUME ~Collisions, ~SecondSaves, ~LoserDeletes, Verify
    PROVE  Spec => NoStrayDelete
<1> Gates
  BY DEF Gates
<1>1. ASSUME ResidencyInv, [Next]_vars
      PROVE  [\A p \in Path : remote[p] # Absent /\ remote'[p] = Absent /\ pc = "apply" =>
                 \/ remote[p].hash \notin owed
                 \/ \E q \in Path \ {p} : remote'[q].hash = remote[p].hash]_remote
  <2> SUFFICES ASSUME remote' # remote, pc = "apply",
                      NEW p \in Path, remote[p] # Absent, remote'[p] = Absent
               PROVE  \/ remote[p].hash \notin owed
                      \/ \E q \in Path \ {p} : remote'[q].hash = remote[p].hash
    OBVIOUS
  <2>1. LogDelta
    BY <1>1, OnlyLogDeltaDeletes
  <2>2. Parts
    BY <1>1 DEF ResidencyInv, Base, Safe, Parts
  <2> QED  BY <2>1, <2>2, LogDeltaDeletes
<1> QED  BY <1>1, ResidencyHolds, PTL DEF Spec, NoStrayDelete

(***************************************************************************)
(* Setup: vaults, devices and the keys they write under.                   *)
(***************************************************************************)

Header == [salt : Nat, pass : Pass \cup {None}]

(* What holds of the vaults: one that exists has a salt that was drawn. *)
VaultShape ==
    /\ vaults \in Nat
    /\ vault \in [Prefix -> Header]
    /\ \A x \in Prefix : vault[x] = NoVault \/ (vault[x].salt \in 1..vaults /\ vault[x].pass \in Pass)

(* What holds of the devices' own state. *)
DeviceShape ==
    /\ config \in [Device -> Prefix \cup {None}]
    /\ passfile \in [Device -> Pass \cup {None}]
    /\ file \in [Device -> {NoHash, Version}] /\ base \in [Device -> {NoHash, Version}]
    /\ opening \in [Device -> {None, "absent", "creating", "open", "failed"}]

(* An init that will create a vault is the only one, and the vault it looked
   for is still not there. *)
InitShape ==
    /\ DOMAIN init = Device
    /\ \A d, e \in Device : init[d] # Idle /\ init[e] # Idle => d = e
    /\ \A d \in Device :
          \/ init[d] = Idle
          \/ \E x \in Prefix : init[d] = [at |-> "load", prefix |-> x]
          \/ \E x \in Prefix : init[d] = [at |-> "create", prefix |-> x] /\ vault[x] = NoVault
          \/ \E h \in Header : init[d] = [at |-> "join", header |-> h] /\ h.pass \in Pass
          \/ \E pass \in Pass : init[d] = [at |-> "save", pass |-> pass]

(* What is in use or stored under a prefix is under the keys of its vault. *)
Uses(r) == \E x \in Prefix : vault[x] # NoVault /\ r = [prefix |-> x, key |-> vault[x]]

RunShape ==
    /\ DOMAIN run = Device
    /\ \A d \in Device : run[d] = NoRun \/ Uses(run[d])
    /\ \A d \in Device : run[d] = NoRun => opening[d] = None

StoredShape ==
    /\ DOMAIN log = Prefix /\ DOMAIN repo = Prefix
    /\ \A x \in Prefix :
          \/ log[x] = Gone
          \/ /\ vault[x] # NoVault
             /\ \E h \in {NoHash, Version} : log[x] = [hash |-> h, key |-> vault[x]]
    /\ \A x \in Prefix : repo[x] = NoVault \/ (vault[x] # NoVault /\ repo[x] = vault[x])

SetupInv == VaultShape /\ DeviceShape /\ InitShape /\ RunShape /\ StoredShape

-----------------------------------------------------------------------------
(* The keys of a vault are its salt and passphrase. *)
LEMMA KeysOfVault == ASSUME VaultShape, NEW x \in Prefix PROVE VaultKeys(x) = vault[x]
  BY DEF VaultShape, Header, VaultKeys, Keys

LEMMA NoneIsNew == NoRun.prefix = None /\ None \notin Prefix /\ None \notin Pass
  BY NoneAssumption DEF NoRun

LEMMA SetupInitHolds == SetupInit => SetupInv
  BY DEF SetupInit, SetupInv, VaultShape, DeviceShape, InitShape, RunShape, StoredShape, Header,
         NoVault, Gone, NoRun, Idle

(* The shapes give what the runs check. *)
LEMMA ShapesSuffice == SetupInv => SetupConsistent
  <1> SUFFICES ASSUME SetupInv PROVE SetupConsistent
    OBVIOUS
  <1>1. SetupTypeOK
    BY NoneIsNew DEF SetupTypeOK, SetupInv, VaultShape, DeviceShape, RunShape, Uses, NoVault
  <1>2. ASSUME NEW x \in Prefix
        PROVE  /\ log[x] # Gone => log[x].key = VaultKeys(x)
               /\ repo[x] # NoVault => repo[x] = VaultKeys(x)
    BY <1>2, KeysOfVault DEF SetupInv, StoredShape
  <1>3. ASSUME NEW x \in Prefix, NEW d \in Device, run[d].prefix = x
        PROVE  run[d].key = VaultKeys(x)
    BY <1>3, KeysOfVault, NoneIsNew DEF SetupInv, RunShape, Uses
  <1>4. QED
    BY <1>1, <1>2, <1>3 DEF SetupConsistent, Readable

-----------------------------------------------------------------------------
(* `rfm init`: only CreateVault changes a vault, and only one that was not
   there and so is not in use. *)
LEMMA StartInitStep ==
    ASSUME SetupInv, ~MayOverlap, NEW d \in Device, NEW x \in Prefix, StartInit(d, x)
    PROVE  SetupInv'
  <1>1. VaultShape' /\ DeviceShape' /\ RunShape' /\ StoredShape'
    BY DEF SetupInv, VaultShape, DeviceShape, RunShape, StoredShape, Uses, StartInit, InitStep, root, Header
  <1>2. InitShape'
    BY DEF SetupInv, InitShape, StartInit, Idle
  <1>3. QED
    BY <1>1, <1>2 DEF SetupInv

LEMMA LoadVaultStep ==
    ASSUME SetupInv, NEW d \in Device, LoadVault(d)
    PROVE  SetupInv'
  <1>1. VaultShape' /\ DeviceShape' /\ RunShape' /\ StoredShape'
    BY DEF SetupInv, VaultShape, DeviceShape, RunShape, StoredShape, Uses, LoadVault, InitStep, root, device, Header
  <1>2. PICK x \in Prefix : init[d] = [at |-> "load", prefix |-> x]
    BY DEF SetupInv, InitShape, LoadVault, Idle
  <1>3. vault[x] = NoVault \/ (vault[x] \in Header /\ vault[x].pass \in Pass)
    BY DEF SetupInv, VaultShape
  <1>4. InitShape'
    BY <1>2, <1>3 DEF SetupInv, InitShape, LoadVault, Idle
  <1>5. QED
    BY <1>1, <1>4 DEF SetupInv

LEMMA JoinVaultStep ==
    ASSUME SetupInv, NEW d \in Device, NEW pass \in Pass, JoinVault(d, pass)
    PROVE  SetupInv'
  BY DEF SetupInv, VaultShape, DeviceShape, InitShape, RunShape, StoredShape, Uses, JoinVault,
         verify_passphrase, InitStep, root, Header, Idle

LEMMA CreateVaultStep ==
    ASSUME SetupInv, NEW d \in Device, NEW pass \in Pass, CreateVault(d, pass)
    PROVE  SetupInv'
  <1>1. PICK y \in Prefix : init[d] = [at |-> "create", prefix |-> y] /\ vault[y] = NoVault
    BY DEF SetupInv, InitShape, CreateVault, Idle
  <1> DEFINE made == [salt |-> vaults + 1, pass |-> pass]
  <1>2. vault' = [vault EXCEPT ![y] = made] /\ vaults' = vaults + 1
    BY <1>1 DEF CreateVault
  <1>3. /\ \A x \in Prefix : x # y => vault'[x] = vault[x]
        /\ vault'[y] = made /\ made \in Header
    BY <1>2 DEF SetupInv, VaultShape, Header
  <1>4. VaultShape'
    BY <1>2, <1>3 DEF SetupInv, VaultShape
  <1>5. DeviceShape'
    BY DEF SetupInv, DeviceShape, CreateVault, device, InitStep, root
  <1>6. InitShape'
    BY <1>1, <1>2, <1>3 DEF SetupInv, InitShape, CreateVault, Idle
  <1>7. RunShape'
    BY <1>1, <1>3 DEF SetupInv, RunShape, Uses, CreateVault, InitStep
  <1>8. StoredShape'
    BY <1>1, <1>3 DEF SetupInv, StoredShape, CreateVault, InitStep
  <1>9. QED
    BY <1>4, <1>5, <1>6, <1>7, <1>8 DEF SetupInv

LEMMA SavePassphraseStep ==
    ASSUME SetupInv, NEW d \in Device, SavePassphrase(d)
    PROVE  SetupInv'
  BY DEF SetupInv, VaultShape, DeviceShape, InitShape, RunShape, StoredShape, Uses,
         SavePassphrase, InitStep, root, Header, Idle

LEMMA AbortInitStep ==
    ASSUME SetupInv, NEW d \in Device, AbortInit(d)
    PROVE  SetupInv'
  BY DEF SetupInv, VaultShape, DeviceShape, InitShape, RunShape, StoredShape, Uses,
         AbortInit, InitStep, root, device, Header, Idle

-----------------------------------------------------------------------------
(* Commands and the daemon: keys come from the vault of the prefix they are
   used under, and what is written is written under them. *)
LEMMA StartStep ==
    ASSUME SetupInv, NEW d \in Device, Start(d)
    PROVE  SetupInv'
  <1>1. VaultShape' /\ DeviceShape' /\ InitShape' /\ StoredShape'
    BY DEF SetupInv, VaultShape, DeviceShape, InitShape, StoredShape, Start, bucket, device, root, Header
  <1>2. config[d] \in Prefix
    BY DEF SetupInv, DeviceShape, Start
  <1>3. Keys(vault[config[d]].salt, vault[config[d]].pass) = vault[config[d]]
    BY <1>2 DEF SetupInv, VaultShape, Header, Keys
  <1>4. run' = [run EXCEPT ![d] = [prefix |-> config[d], key |-> vault[config[d]]]]
    BY <1>3 DEF Start, derive_enc_keys, verify_passphrase
  <1>5. RunShape'
    BY <1>2, <1>4 DEF SetupInv, RunShape, Uses, Start, bucket, NoRun
  <1>6. QED
    BY <1>1, <1>5 DEF SetupInv

LEMMA ExitStep ==
    ASSUME SetupInv, NEW d \in Device, Exit(d)
    PROVE  SetupInv'
  BY DEF SetupInv, VaultShape, DeviceShape, InitShape, RunShape, StoredShape, Uses,
         Exit, bucket, device, root, Header

LEMMA SyncPassStep ==
    ASSUME SetupInv, NEW d \in Device, SyncPass(d)
    PROVE  SetupInv'
  <1> DEFINE x == run[d].prefix
  <1>1. run[d] # NoRun
    BY DEF SyncPass
  <1>2. x \in Prefix /\ vault[x] # NoVault /\ run[d].key = vault[x]
    BY <1>1 DEF SetupInv, RunShape, Uses
  <1>3. file[d] \in {NoHash, Version} /\ log[x].hash \in {NoHash, Version}
    BY <1>2 DEF SetupInv, DeviceShape, StoredShape, Gone
  <1>4. \/ /\ log' = [log EXCEPT ![x] = [hash |-> file[d], key |-> vault[x]]]
           /\ base' = [base EXCEPT ![d] = file[d]] /\ file' = file
        \/ /\ log' = log
           /\ \E h \in {NoHash, Version} :
                 file' = [file EXCEPT ![d] = h] /\ base' = [base EXCEPT ![d] = h]
    BY <1>2, <1>3 DEF SyncPass
  <1>5. UNCHANGED <<vault, repo, config, passfile, init, run, opening, vaults>>
    BY DEF SyncPass, device
  <1>6. VaultShape' /\ InitShape' /\ RunShape'
    BY <1>5 DEF SetupInv, VaultShape, InitShape, RunShape, Uses, Header
  <1>7. DeviceShape'
    BY <1>3, <1>4, <1>5 DEF SetupInv, DeviceShape
  <1>8. StoredShape'
    BY <1>2, <1>3, <1>4, <1>5 DEF SetupInv, StoredShape
  <1>9. QED
    BY <1>6, <1>7, <1>8 DEF SetupInv

LEMMA OpenRepoStep ==
    ASSUME SetupInv, NEW d \in Device, OpenRepo(d) \/ RepoAbsent(d)
    PROVE  SetupInv'
  <1>1. UNCHANGED <<vault, log, repo, config, passfile, init, run, file, base, vaults>>
    BY DEF OpenRepo, RepoAbsent, Backup, device, root
  <1>2. run[d] # NoRun /\ \E o \in {"absent", "creating", "open", "failed"} :
            opening' = [opening EXCEPT ![d] = o]
    BY DEF OpenRepo, RepoAbsent
  <1>3. QED
    BY <1>1, <1>2 DEF SetupInv, VaultShape, DeviceShape, InitShape, RunShape, StoredShape, Uses, Header

LEMMA CreateRepoStep ==
    ASSUME SetupInv, NEW d \in Device, CreateRepo(d)
    PROVE  SetupInv'
  <1> DEFINE x == run[d].prefix
  <1>1. run[d] # NoRun
    BY DEF SetupInv, RunShape, CreateRepo, None
  <1>2. x \in Prefix /\ vault[x] # NoVault /\ run[d].key = vault[x]
    BY <1>1 DEF SetupInv, RunShape, Uses
  <1>3. /\ repo' = [repo EXCEPT ![x] = vault[x]]
        /\ opening' = [opening EXCEPT ![d] = "open"]
        /\ UNCHANGED <<vault, log, config, passfile, init, run, file, base, vaults>>
    BY <1>2 DEF CreateRepo, Backup, device, root
  <1>4. VaultShape' /\ DeviceShape' /\ InitShape' /\ RunShape'
    BY <1>1, <1>3 DEF SetupInv, VaultShape, DeviceShape, InitShape, RunShape, Uses, Header
  <1>5. StoredShape'
    BY <1>2, <1>3 DEF SetupInv, StoredShape
  <1>6. QED
    BY <1>4, <1>5 DEF SetupInv

LEMMA SetupStutterStep == SetupInv /\ UNCHANGED setup_vars => SetupInv'
  BY DEF SetupInv, VaultShape, DeviceShape, InitShape, RunShape, StoredShape, Uses, Header,
         setup_vars, bucket, device, root

LEMMA SetupInductive == ASSUME SetupInv, ~MayOverlap, [SetupNext]_setup_vars PROVE SetupInv'
  <1>1. CASE UNCHANGED setup_vars
    BY <1>1, SetupStutterStep
  <1>2. ASSUME NEW d \in Device,
               \/ \E x \in Prefix : StartInit(d, x)
               \/ LoadVault(d) \/ SavePassphrase(d) \/ AbortInit(d)
               \/ \E pass \in Pass : JoinVault(d, pass) \/ CreateVault(d, pass)
               \/ Start(d) \/ Exit(d) \/ SyncPass(d)
               \/ OpenRepo(d) \/ RepoAbsent(d) \/ CreateRepo(d)
        PROVE  SetupInv'
    BY <1>2, StartInitStep, LoadVaultStep, JoinVaultStep, CreateVaultStep, SavePassphraseStep,
       AbortInitStep, StartStep, ExitStep, SyncPassStep, OpenRepoStep, CreateRepoStep
  <1>3. QED
    BY <1>1, <1>2 DEF SetupNext

(* While no two devices run `init` at once, no device ever mirrors, backs up or
   holds keys under a prefix that the prefix's vault and passphrase do not
   open (derive_enc_keys, verify_passphrase, init). *)
THEOREM SetupIsReadable == ASSUME ~MayOverlap PROVE SetupSpec => []SetupConsistent
  <1>1. SetupInit => SetupInv
    BY SetupInitHolds
  <1>2. SetupInv /\ [SetupNext]_setup_vars => SetupInv'
    BY SetupInductive
  <1>3. SetupInv => SetupConsistent
    BY ShapesSuffice
  <1>4. QED
    BY <1>1, <1>2, <1>3, PTL DEF SetupSpec
=============================================================================
