---------------------------- MODULE MirrorProofs ----------------------------
(***************************************************************************)
(* The inductive invariants of Mirror and the theorems they carry: IInv,   *)
(* about the log and the rows, then EditInv, about contents.               *)
(*                                                                         *)
(* BaselineLogged is not inductive: a queued Confirm is justified by an    *)
(* entry that may still wait in the batch, the batch is only safe because  *)
(* its object's key is new, and the key is new because the pass's lamport  *)
(* is above everything the device logged before it.  The invariant says    *)
(* all of that, device by device.  The types of the operators and of every *)
(* step, and the facts about the engine, come first.                       *)
(***************************************************************************)
EXTENDS Mirror, ManifestProofs

-----------------------------------------------------------------------------
(* The reconcile engine, for every hash. *)

(* classify in one line per change. *)
LEMMA Classified ==
    ASSUME NEW current \in Nat, NEW row \in Nat
    PROVE  /\ classify(current, row) \in Change
           /\ classify(current, row) = "Unchanged" <=> current = row
           /\ classify(current, row) = "Deleted" <=> current # row /\ current = NoHash
           /\ classify(current, row) \in Moved <=> current # row /\ current # NoHash
  BY DEF classify, Change, Moved, NoHash

(* Without placeholders and policies the plan of a path is decide's. *)
LEMMA PlainReconcile ==
    ASSUME NEW here \in Nat, NEW row \in Nat, NEW there \in Nat
    PROVE  reconcile(here, row, there)
             = decide(classify(here, row), classify(there, row), here, there)
  <1> DEFINE v == PlainView(here, row, there)
  <1>1. /\ v.here = here /\ v.base = row /\ v.there = there /\ v.stub = "none"
        /\ v.evicted = FALSE /\ v.onlineOnly = FALSE
    BY DEF PlainView
  <1> HIDE DEF v
  <1>2. reconcile_path(v) = decide(classify(here, row), classify(there, row), here, there)
    BY <1>1 DEF reconcile_path
  <1>3. QED
    BY <1>2 DEF reconcile, v

(* The truth table, read from the action to what it presupposes. *)
LEMMA Decided ==
    ASSUME NEW here \in Change, NEW there \in Change, NEW l \in Nat, NEW r \in Nat
    PROVE  LET kind == decide(here, there, l, r) IN
           /\ kind \in {"None", "Download", "Upload", "DeleteLocal", "DeleteRemote", "Conflict"}
           /\ kind = "None" => \/ here = "Unchanged" /\ there = "Unchanged"
                               \/ here \in Moved /\ there \in Moved /\ l = r
                               \/ here = "Deleted" /\ there = "Deleted"
           /\ kind = "Download" => here = "Unchanged" /\ there \in Moved
           /\ kind = "DeleteLocal" => here = "Unchanged" /\ there = "Deleted"
           /\ kind = "Upload" => here \in Moved /\ there = "Unchanged"
           /\ kind = "DeleteRemote" => here = "Deleted" /\ there = "Unchanged"
  BY DEF decide, Row, Change, Moved

(* reconcile plans nothing for a path only if the local and the remote side
   already agree: decide leaves no difference standing. *)
THEOREM NoActionAgrees ==
    ASSUME NEW here \in Nat, NEW row \in Nat, NEW there \in Nat,
           reconcile(here, row, there) = "None"
    PROVE  here = there
  BY Classified, PlainReconcile, Decided

(* reconcile knows what it destroys: a file is overwritten or deleted only if
   it still is what was last agreed, and so is a remote version that is
   replaced or tombstoned. *)
THEOREM DestroysOnlyAgreed ==
    ASSUME NEW here \in Nat, NEW row \in Nat, NEW there \in Nat
    PROVE  LET kind == reconcile(here, row, there) IN
           /\ kind \in {"None", "Download", "Upload", "DeleteLocal", "DeleteRemote", "Conflict"}
           /\ kind = "Download" => here = row /\ there # NoHash
           /\ kind = "DeleteLocal" => here = row /\ there = NoHash
           /\ kind = "DeleteRemote" => there = row /\ here = NoHash
           /\ kind = "Upload" => there = row /\ here # NoHash
  BY Classified, PlainReconcile, Decided

(* What each action presupposes of the three hashes, side by side. *)
LEMMA Presupposed ==
    ASSUME NEW here \in Nat, NEW row \in Nat, NEW there \in Nat
    PROVE  LET kind == reconcile(here, row, there) IN
           /\ kind = "Download" => here = row /\ there # row /\ there # NoHash
           /\ kind = "DeleteLocal" => here = row /\ there # row /\ there = NoHash
           /\ kind = "Upload" => here # row /\ here # NoHash /\ there = row
           /\ kind = "DeleteRemote" => here # row /\ here = NoHash /\ there = row
           /\ kind = "Conflict" => here # row /\ there # row /\ here # there
  <1> DEFINE h == classify(here, row)
             t == classify(there, row)
  <1>1. /\ h \in Change /\ (h = "Unchanged" <=> here = row)
        /\ (h = "Deleted" <=> here # row /\ here = NoHash)
        /\ (h \in Moved <=> here # row /\ here # NoHash)
    BY Classified
  <1>2. /\ t \in Change /\ (t = "Unchanged" <=> there = row)
        /\ (t = "Deleted" <=> there # row /\ there = NoHash)
        /\ (t \in Moved <=> there # row /\ there # NoHash)
    BY Classified
  <1>3. reconcile(here, row, there) = decide(h, t, here, there)
    BY PlainReconcile
  <1> HIDE DEF h, t
  <1>4. ASSUME decide(h, t, here, there) = "Conflict"
        PROVE  here # row /\ there # row /\ here # there
    BY <1>1, <1>2, <1>4 DEF decide, Row, Change, Moved
  <1>5. QED
    BY <1>1, <1>2, <1>3, <1>4, Decided

-----------------------------------------------------------------------------
(* Types. *)

(* The clocks in the log are bounded: the log grew one delta at a time. *)
LogBounded == \E n \in Nat : \A e \in Entries(log) : e.lamport <= n

LEMMA Numbers ==
    /\ Device \subseteq Nat /\ Content \subseteq Nat
    /\ None \notin Content /\ None \in Hash /\ Content \subseteq Hash /\ Hash \subseteq Nat
  BY DeviceAssumption, ContentAssumption DEF Hash, None

LEMMA EntriesType ==
    ASSUME TypeOK
    PROVE  Entries(log) \subseteq Entry
  BY DEF TypeOK, Entries, DeltaObject

(* A pass's lamport is a number above every clock it read. *)
LEMMA NextLamportAbove ==
    ASSUME TypeOK, LogBounded, NEW d \in Device
    PROVE  /\ NextLamport(d, Entries(log)) \in Nat
           /\ \A e \in Entries(log) : e.lamport < NextLamport(d, Entries(log))
  <1>1. PICK n \in Nat : \A e \in Entries(log) : e.lamport <= n
    BY DEF LogBounded
  <1>2. /\ RemoteLamport(Entries(log)) \in Nat
        /\ \A e \in Entries(log) : e.lamport <= RemoteLamport(Entries(log))
    BY <1>1, EntriesType, RemoteLamportBounds
  <1>3. clock[d] \in Nat /\ \A e \in Entries(log) : e.lamport \in Nat
    BY EntriesType DEF TypeOK, Entry
  <1>4. QED
    BY <1>2, <1>3 DEF NextLamport

LEMMA KnownHashType ==
    ASSUME NEW m \in SUBSET Entry, NEW p \in Path
    PROVE  KnownHash(m, p) \in Hash
  <1>1. ASSUME EntriesAt(m, p) # {} PROVE EntryAt(m, p) \in Entry
    BY <1>1 DEF EntriesAt, EntryAt
  <1>2. QED
    BY <1>1, Numbers DEF KnownHash, Entry

LEMMA NewDeltaType ==
    ASSUME TypeOK, NEW d \in Device, NEW p \in Path, NEW c \in Content, NEW del \in BOOLEAN
    PROVE  NewDelta(d, p, c, del) \in Entry
  <1>1. KnownHash(view[d], p) \in Content \cup {None}
    BY KnownHashType DEF TypeOK, Hash
  <1>2. stamp[d] \in Nat
    BY DEF TypeOK
  <1>3. QED
    BY <1>1, <1>2 DEF NewDelta, Entry

LEMMA RemoteType ==
    ASSUME NEW m \in SUBSET Entry, NEW p \in Path
    PROVE  Remote(m, p) \in Nat
  <1>1. ASSUME \E e \in m : e.path = p /\ ~e.deleted PROVE EntryAt(m, p) \in Entry
    BY <1>1 DEF EntryAt
  <1>2. QED
    BY <1>1, Numbers DEF Remote, Entry, NoHash

LEMMA PlanType ==
    ASSUME NEW f, NEW b, NEW m, NEW skipped,
           f \in [Path -> Nat], b \in [Path -> Nat], m \in SUBSET Entry
    PROVE  PlanFor(f, b, m, skipped) \in SUBSET Action
  <1> DEFINE here(p) == IF p \in skipped THEN NoHash ELSE f[p]
             kind(p) == reconcile(here(p), b[p], Remote(m, p))
  <1>1. ASSUME NEW p \in Path PROVE Remote(m, p) \in Nat
    BY RemoteType
  <1>2. ASSUME NEW p \in Path, kind(p) # "None" PROVE kind(p) \in ActionKind
    <2>1. here(p) \in Nat /\ b[p] \in Nat
      BY DEF NoHash
    <2>2. kind(p) \in {"None", "Download", "Upload", "DeleteLocal", "DeleteRemote", "Conflict"}
      BY <1>1, <2>1, DestroysOnlyAgreed
    <2>3. QED
      BY <1>2, <2>2 DEF ActionKind, TransferKind, LateKind
  <1>3. PlanFor(f, b, m, skipped)
          = {[path |-> p, kind |-> kind(p)] : p \in {q \in Path : kind(q) # "None"}}
    BY DEF PlanFor
  <1> HIDE DEF kind
  <1>4. QED
    BY <1>2, <1>3 DEF Action

LEMMA InsertType ==
    ASSUME NEW m \in SUBSET Entry, NEW e \in Entry
    PROVE  Insert(m, e) \in SUBSET Entry
  BY DEF Insert, EntriesAt

(* Updating one path of one device. *)
LEMMA UpdateType ==
    ASSUME NEW f \in [Device -> [Path -> Hash]], NEW d \in Device, NEW p \in Path, NEW h \in Hash
    PROVE  [f EXCEPT ![d][p] = h] \in [Device -> [Path -> Hash]]
  OBVIOUS

LEMMA RenamedAsideType ==
    ASSUME TypeOK, NEW d \in Device, NEW p \in Path, NEW q \in FreshCopies
    PROVE  RenamedAside(d, p, q) \in [Device -> [Path -> Hash]]
  <1>1. q \in Path
    BY CopyAssumption DEF FreshCopies
  <1>2. QED
    BY <1>1, Numbers DEF RenamedAside, TypeOK

LEMMA AppendType ==
    ASSUME TypeOK, NEW d \in Device, NEW op \in BaselineOp, Push(d, op)
    PROVE  ops' \in [Device -> Seq(BaselineOp)]
  BY DEF TypeOK, Push

LEMMA ExecutingType ==
    ASSUME TypeOK, NEW d \in Device, NEW p, NEW kind, Executing(d, p, kind)
    PROVE  plan' \in [Device -> SUBSET Action] /\ p \in Path
  BY DEF TypeOK, Executing, Action

VolatileType ==
    /\ pc \in [Device -> {"idle", "preserve", "apply", "flush"}]
    /\ view \in [Device -> SUBSET Entry]
    /\ losers \in [Device -> SUBSET Entry]
    /\ plan \in [Device -> SUBSET Action]
    /\ stamp \in [Device -> Nat]
    /\ seq \in [Device -> Nat]
    /\ deltas \in [Device -> SUBSET Entry]
    /\ ops \in [Device -> Seq(BaselineOp)]

LEMMA ForgetType ==
    ASSUME TypeOK, NEW d \in Device, Forget(d)
    PROVE  VolatileType'
  BY DEF TypeOK, Forget, VolatileType

LEMMA TypeStep ==
    ASSUME TypeOK, LogBounded, [Next]_vars
    PROVE  TypeOK'
  <1> USE DEF folder, volatile, store, budget
  <1>1. CASE UNCHANGED vars
    BY <1>1 DEF vars, TypeOK
  <1>2. CASE Rest
    BY <1>2 DEF Rest, vars, TypeOK
  <1>3. ASSUME NEW d \in Device, User(d) PROVE TypeOK'
    <2>1. ASSUME NEW p \in Name, NEW c \in Content, UserWrite(d, p, c) PROVE TypeOK'
      <3>1. p \in Path /\ c \in Hash
        BY Numbers DEF Name
      <3>2. files' \in [Device -> [Path -> Hash]]
        BY <2>1, <3>1, UpdateType DEF UserWrite, TypeOK
      <3>3. QED
        BY <2>1, <3>2 DEF UserWrite, TypeOK
    <2>2. ASSUME NEW p \in Name, UserDelete(d, p) PROVE TypeOK'
      <3>1. p \in Path /\ None \in Hash
        BY Numbers DEF Name
      <3>2. files' \in [Device -> [Path -> Hash]]
        BY <2>2, <3>1, UpdateType DEF UserDelete, TypeOK
      <3>3. QED
        BY <2>2, <3>2 DEF UserDelete, TypeOK
    <2>3. QED
      BY <1>3, <2>1, <2>2 DEF User
  <1>4. ASSUME NEW d \in Device, Fault(d) PROVE TypeOK'
    <2>1. ASSUME NEW p, NEW kind, TransferFails(d, p, kind) PROVE TypeOK'
      BY <2>1, ExecutingType DEF TransferFails, Failing, TypeOK
    <2>2. CASE Abort(d)
      <3>1. VolatileType'
        BY <2>2, ForgetType DEF Abort
      <3>2. QED
        BY <2>2, <3>1 DEF Abort, Failing, TypeOK, VolatileType
    <2>3. ASSUME NEW p \in Path, AbortInRename(d, p) PROVE TypeOK'
      <3>1. VolatileType'
        BY <2>3, ForgetType DEF AbortInRename
      <3>2. files' \in [Device -> [Path -> Hash]]
        BY <2>3, RenamedAsideType DEF AbortInRename
      <3>3. QED
        BY <2>3, <3>1, <3>2 DEF AbortInRename, Failing, TypeOK, VolatileType
    <2>4. QED
      BY <1>4, <2>1, <2>2, <2>3 DEF Fault
  <1>5. ASSUME NEW d \in Device, PassStep(d) PROVE TypeOK'
    <2>1. CASE ReadLog(d)
      <3>1. Merged(Entries(log)) \in SUBSET Entry
        BY EntriesType DEF Merged
      <3>2. OwnLosers(d, Entries(log)) \in SUBSET Entry
        BY EntriesType DEF OwnLosers, LogConflicts
      <3>3. NextLamport(d, Entries(log)) \in Nat
        BY NextLamportAbove
      <3>4. QED
        BY <2>1, <3>1, <3>2, <3>3 DEF ReadLog, TypeOK
    <2>2. ASSUME NEW e \in losers[d], Preserve(d, e) PROVE TypeOK'
      <3>1. e.path \in Path
        BY DEF TypeOK, Entry
      <3>2. files' \in [Device -> [Path -> Hash]]
        <4>1. CASE UNCHANGED <<files, base>>
          BY <4>1 DEF TypeOK
        <4>2. CASE \E q \in FreshCopies : files' = RenamedAside(d, e.path, q)
          BY <3>1, <4>2, RenamedAsideType
        <4>3. QED
          BY <2>2, <4>1, <4>2 DEF Preserve
      <3>3. base' \in [Device -> [Path -> Hash]]
        <4>1. CASE UNCHANGED <<files, base>>
          BY <4>1 DEF TypeOK
        <4>2. CASE base' = [base EXCEPT ![d][e.path] = None]
          BY <3>1, <4>2, Numbers DEF TypeOK
        <4>3. QED
          BY <2>2, <4>1, <4>2 DEF Preserve
      <3>4. QED
        BY <2>2, <3>2, <3>3 DEF Preserve, TypeOK
    <2>3. CASE Scan(d)
      <3>1. files[d] \in [Path -> Nat] /\ base[d] \in [Path -> Nat] /\ view[d] \in SUBSET Entry
        <4>1. files[d] \in [Path -> Hash] /\ base[d] \in [Path -> Hash]
          BY DEF TypeOK
        <4>2. QED
          BY <4>1, Numbers DEF TypeOK
      <3>2. \A skipped : PlanFor(files[d], base[d], view[d], skipped) \in SUBSET Action
        BY <3>1, PlanType
      <3>3. plan' \in [Device -> SUBSET Action]
        BY <2>3, <3>2 DEF Scan, TypeOK
      <3>4. QED
        BY <2>3, <3>3 DEF Scan, TypeOK
    <2>4. ASSUME NEW p \in Path, Upload(d, p) PROVE TypeOK'
      <3>1. files[d][p] \in Content
        BY <2>4 DEF Upload, TypeOK, Hash
      <3>2. NewDelta(d, p, files[d][p], FALSE) \in Entry
        BY <3>1, NewDeltaType
      <3>3. deltas' \in [Device -> SUBSET Entry]
        BY <2>4, <3>2 DEF Upload, TypeOK
      <3>8. objects' \subseteq Path \X Content
        BY <2>4, <3>1 DEF Upload, TypeOK
      <3>4. view' \in [Device -> SUBSET Entry]
        BY <2>4, <3>2, InsertType DEF Upload, TypeOK
      <3>5. ops' \in [Device -> Seq(BaselineOp)]
        BY <2>4, <3>1, AppendType DEF Upload, BaselineOp
      <3>6. plan' \in [Device -> SUBSET Action]
        BY <2>4, ExecutingType DEF Upload
      <3>7. QED
        BY <2>4, <3>3, <3>4, <3>5, <3>6, <3>8 DEF Upload, TypeOK
    <2>5. ASSUME NEW p \in Path, UploadVanished(d, p) PROVE TypeOK'
      BY <2>5, ExecutingType DEF UploadVanished, TypeOK
    <2>6. ASSUME NEW p \in Path, Download(d, p) PROVE TypeOK'
      <3> DEFINE c == EntryAt(view[d], p).hash
      <3>1. c \in Content /\ c \in Hash
        BY <2>6, Numbers DEF Download, TypeOK
      <3>2. files' \in [Device -> [Path -> Hash]]
        BY <2>6, <3>1, UpdateType DEF Download, TypeOK
      <3>3. ops' \in [Device -> Seq(BaselineOp)]
        BY <2>6, <3>1, AppendType DEF Download, BaselineOp
      <3>4. plan' \in [Device -> SUBSET Action]
        BY <2>6, ExecutingType DEF Download
      <3>5. QED
        BY <2>6, <3>2, <3>3, <3>4 DEF Download, TypeOK
    <2>7. ASSUME NEW p \in Path, DeleteLocal(d, p) PROVE TypeOK'
      <3>1. files' \in [Device -> [Path -> Hash]]
        BY <2>7, Numbers, UpdateType DEF DeleteLocal, TypeOK
      <3>2. ops' \in [Device -> Seq(BaselineOp)]
        BY <2>7, AppendType DEF DeleteLocal, BaselineOp
      <3>3. plan' \in [Device -> SUBSET Action]
        BY <2>7, ExecutingType DEF DeleteLocal, ExecutingLate
      <3>4. QED
        BY <2>7, <3>1, <3>2, <3>3 DEF DeleteLocal, TypeOK
    <2>8. ASSUME NEW p \in Path, DeleteRemote(d, p) PROVE TypeOK'
      <3>1. \A e \in EntriesAt(view[d], p) : NewDelta(d, p, e.hash, TRUE) \in Entry
        <4>1. \A e \in EntriesAt(view[d], p) : e.hash \in Content
          BY DEF TypeOK, EntriesAt, Entry
        <4>2. QED
          BY <4>1, NewDeltaType
      <3>2. deltas' \in [Device -> SUBSET Entry]
        <4> DEFINE tombs == {NewDelta(d, p, e.hash, TRUE) : e \in EntriesAt(view[d], p)}
        <4>1. tombs \in SUBSET Entry
          BY <3>1
        <4>2. deltas' = [deltas EXCEPT ![d] = @ \cup tombs]
          BY <2>8 DEF DeleteRemote
        <4> HIDE DEF tombs
        <4>3. QED
          BY <4>1, <4>2 DEF TypeOK
      <3>6. view' \in [Device -> SUBSET Entry]
        BY <2>8 DEF DeleteRemote, TypeOK
      <3>3. ops' \in [Device -> Seq(BaselineOp)]
        BY <2>8, AppendType DEF DeleteRemote, BaselineOp
      <3>4. plan' \in [Device -> SUBSET Action]
        BY <2>8, ExecutingType DEF DeleteRemote, ExecutingLate
      <3>5. QED
        BY <2>8, <3>2, <3>3, <3>4, <3>6 DEF DeleteRemote, TypeOK
    <2>9. ASSUME NEW p \in Path, Conflict(d, p) PROVE TypeOK'
      <3>1. files' \in [Device -> [Path -> Hash]]
        BY <2>9, RenamedAsideType DEF Conflict, TypeOK
      <3>2. base' \in [Device -> [Path -> Hash]]
        BY <2>9, Numbers, UpdateType DEF Conflict, TypeOK
      <3>3. plan' \in [Device -> SUBSET Action]
        BY <2>9, ExecutingType DEF Conflict, ExecutingLate
      <3>4. QED
        BY <2>9, <3>1, <3>2, <3>3 DEF Conflict, TypeOK
    <2>10. CASE FlushLog(d)
      <3>1. deltas[d] \in SUBSET Entry /\ stamp[d] \in Nat /\ seq[d] \in Nat
        BY DEF TypeOK
      <3>2. [lamport |-> stamp[d], dev |-> d, seq |-> seq[d], entries |-> deltas[d]]
              \in DeltaObject
        BY <3>1 DEF DeltaObject
      <3>3. log' \subseteq DeltaObject
        BY <2>10, <3>2 DEF FlushLog, PutObject, TypeOK
      <3>4. seq' \in [Device -> Nat] /\ deltas' \in [Device -> SUBSET Entry]
        <4>1. CASE deltas[d] = {}
          BY <2>10, <4>1 DEF FlushLog, TypeOK
        <4>2. CASE deltas[d] # {}
          <5>1. seq' = [seq EXCEPT ![d] = @ + 1] /\ deltas' = [deltas EXCEPT ![d] = {}]
            BY <2>10, <4>2 DEF FlushLog
          <5>2. QED
            BY <3>1, <5>1 DEF TypeOK
        <4>3. QED
          BY <4>1, <4>2
      <3>5. QED
        BY <2>10, <3>3, <3>4 DEF FlushLog, TypeOK
    <2>11. CASE FlushOp(d)
      <3>1. ops[d] \in Seq(BaselineOp) /\ ops[d] # <<>>
        BY <2>11 DEF FlushOp, TypeOK
      <3>2. Head(ops[d]) \in BaselineOp /\ Tail(ops[d]) \in Seq(BaselineOp)
        BY <3>1
      <3>3. /\ Head(ops[d]).path \in Path
            /\ Head(ops[d]).op = "Confirm" => Head(ops[d]).hash \in Hash
        BY <3>2, Numbers DEF BaselineOp
      <3>4. base' \in [Device -> [Path -> Hash]]
        BY <2>11, <3>3, Numbers, UpdateType DEF FlushOp, TypeOK
      <3>5. ops' \in [Device -> Seq(BaselineOp)]
        BY <2>11, <3>2 DEF FlushOp, TypeOK
      <3>6. QED
        BY <2>11, <3>4, <3>5 DEF FlushOp, TypeOK
    <2>12. CASE FlushDone(d)
      BY <2>12 DEF FlushDone, TypeOK
    <2>13. CASE Finish(d)
      <3>1. VolatileType'
        BY <2>13, ForgetType DEF Finish
      <3>2. QED
        BY <2>13, <3>1 DEF Finish, TypeOK, VolatileType
    <2>14. QED
      BY <1>5, <2>1, <2>2, <2>3, <2>4, <2>5, <2>6, <2>7, <2>8, <2>9, <2>10, <2>11,
         <2>12, <2>13 DEF PassStep
  <1>6. QED
    BY <1>1, <1>2, <1>3, <1>4, <1>5 DEF Next

-----------------------------------------------------------------------------
(* The inductive invariant. *)


(* What d's pass may rely on: the log and its own batch. *)
Known(d) == Entries(log) \cup deltas[d]

Distinct(es) ==
    \A e, f \in es : e.path = f.path /\ e.lamport = f.lamport /\ e.dev = f.dev => e = f

Functional(m) == \A e, f \in m : e.path = f.path => e = f

(* A delta object holds entries, and they carry its key's stamp. *)
LogShape ==
    \A o \in log : /\ o.entries # {}
                   /\ \A e \in o.entries : e.lamport = o.lamport /\ e.dev = o.dev

PassShape(d) ==
    /\ pc[d] \in {"idle", "preserve"} => deltas[d] = {} /\ seq[d] = 0 /\ plan[d] = {}
    /\ pc[d] = "flush" => deltas[d] = {}

(* The next delta object of d has a key above all of d's keys in the log. *)
StampAhead(d) ==
    pc[d] # "idle" =>
        \A o \in log : o.dev = d =>
            o.lamport < stamp[d] \/ (o.lamport = stamp[d] /\ o.seq < seq[d])

PlanShape(d) ==
    /\ \A a, b \in plan[d] : a.path = b.path => a = b
    /\ \A a \in plan[d] : a.kind = "Download" =>
          \E e \in view[d] : e.path = a.path /\ ~e.deleted

ViewShape(d) == view[d] \subseteq Known(d) /\ Functional(view[d])

DeltaShape(d) == \A e \in deltas[d] : e.lamport = stamp[d] /\ e.dev = d

(* A path still in the plan has no entry with this pass's stamp yet. *)
Unspent(d) ==
    \A e \in Known(d), a \in plan[d] :
        e.dev = d /\ e.lamport = stamp[d] => a.path # e.path

Stored(d) == \A e \in Known(d) : <<e.path, e.hash>> \in objects

Core(d) ==
    /\ PassShape(d) /\ StampAhead(d) /\ PlanShape(d) /\ ViewShape(d)
    /\ DeltaShape(d) /\ Unspent(d) /\ Distinct(Known(d)) /\ Stored(d)

Recorded(es, p, h) == \E e \in es : e.path = p /\ e.hash = h /\ ~e.deleted

(* Every queued Confirm is backed by an entry in the log or in the batch. *)
OpsShape(d) ==
    /\ pc[d] \in {"idle", "preserve"} => ops[d] = <<>>
    /\ \A i \in 1..Len(ops[d]) :
          ops[d][i].op = "Confirm" => Recorded(Known(d), ops[d][i].path, ops[d][i].hash)

IInv ==
    /\ TypeOK
    /\ LogBounded
    /\ LogShape
    /\ BaselineLogged
    /\ \A d \in Device : Core(d) /\ OpsShape(d)

-----------------------------------------------------------------------------
(* Frame lemmas: what leaves a device's part of the invariant alone. *)

(* The step changes nothing the invariant says about d, but for the plan. *)
Still(d) ==
    /\ pc'[d] = pc[d] /\ view'[d] = view[d] /\ stamp'[d] = stamp[d]
    /\ seq'[d] = seq[d] /\ deltas'[d] = deltas[d]

LEMMA CoreFrame ==
    ASSUME NEW d \in Device, Core(d), Still(d), log' = log,
           objects \subseteq objects', plan'[d] \subseteq plan[d]
    PROVE  Core(d)'
  <1>1. Known(d)' = Known(d)
    BY DEF Known, Entries, Still
  <1>2. PassShape(d)'
    BY DEF Core, PassShape, Still
  <1>3. StampAhead(d)'
    BY DEF Core, StampAhead, Still
  <1>4. PlanShape(d)'
    BY DEF Core, PlanShape, Still
  <1>5. ViewShape(d)'
    BY <1>1 DEF Core, ViewShape, Functional, Still
  <1>6. DeltaShape(d)'
    BY DEF Core, DeltaShape, Still
  <1>7. Unspent(d)'
    BY <1>1 DEF Core, Unspent, Still
  <1>8. Distinct(Known(d))'
    BY <1>1 DEF Core, Distinct
  <1>9. Stored(d)'
    BY <1>1 DEF Core, Stored
  <1>10. QED
    BY <1>2, <1>3, <1>4, <1>5, <1>6, <1>7, <1>8, <1>9 DEF Core

LEMMA OpsFrame ==
    ASSUME NEW d \in Device, OpsShape(d), ops'[d] = ops[d], pc'[d] = pc[d],
           Known(d) \subseteq Known(d)'
    PROVE  OpsShape(d)'
  BY DEF OpsShape, Recorded

LEMMA OpsAppend ==
    ASSUME TypeOK, NEW d \in Device, OpsShape(d), NEW op \in BaselineOp,
           ops'[d] = Append(ops[d], op), pc'[d] = "apply", Known(d) \subseteq Known(d)',
           op.op = "Confirm" => Recorded(Known(d)', op.path, op.hash)
    PROVE  OpsShape(d)'
  <1>1. ops[d] \in Seq(BaselineOp)
    BY DEF TypeOK
  <1>2. /\ Len(ops'[d]) = Len(ops[d]) + 1
        /\ \A i \in 1..Len(ops[d]) : ops'[d][i] = ops[d][i]
        /\ ops'[d][Len(ops[d]) + 1] = op
    BY <1>1
  <1>3. ASSUME NEW i \in 1..Len(ops'[d]), ops'[d][i].op = "Confirm"
        PROVE  Recorded(Known(d)', ops'[d][i].path, ops'[d][i].hash)
    <2>1. CASE i \in 1..Len(ops[d])
      BY <1>2, <1>3, <2>1 DEF OpsShape, Recorded
    <2>2. CASE i = Len(ops[d]) + 1
      BY <1>2, <1>3, <2>2
    <2>3. QED
      BY <1>1, <1>2, <2>1, <2>2
  <1>4. QED
    BY <1>3 DEF OpsShape, Recorded

(* A pass that ends or dies leaves only what the log says. *)
LEMMA ForgetInv ==
    ASSUME TypeOK, NEW d \in Device, Core(d), Forget(d), log' = log, objects' = objects
    PROVE  Core(d)' /\ OpsShape(d)'
  <1>1. /\ pc'[d] = "idle" /\ view'[d] = {} /\ plan'[d] = {} /\ seq'[d] = 0
        /\ deltas'[d] = {} /\ ops'[d] = <<>>
    BY DEF TypeOK, Forget
  <1>2. Known(d)' = Entries(log)
    BY <1>1 DEF Known, Entries
  <1>3. Distinct(Known(d))' /\ Stored(d)'
    BY <1>2 DEF Core, Distinct, Stored, Known
  <1>4. PassShape(d)' /\ StampAhead(d)' /\ PlanShape(d)' /\ ViewShape(d)' /\ DeltaShape(d)'
    BY <1>1 DEF PassShape, StampAhead, PlanShape, ViewShape, Functional, DeltaShape
  <1>5. Unspent(d)'
    BY <1>1 DEF Unspent
  <1>6. OpsShape(d)'
    BY <1>1 DEF OpsShape
  <1>7. QED
    BY <1>3, <1>4, <1>5, <1>6 DEF Core

(* The rows stay backed while the log keeps its entries. *)
LEMMA BaselineFrame ==
    ASSUME BaselineLogged, Entries(log) \subseteq Entries(log)',
           \A d \in Device, p \in Path : base'[d][p] = base[d][p] \/ base'[d][p] = None
    PROVE  BaselineLogged'
  BY DEF BaselineLogged

-----------------------------------------------------------------------------
(* The initial states. *)

LEMMA InitInv == Init => IInv
  <1> SUFFICES ASSUME Init PROVE IInv
    OBVIOUS
  <1>1. TypeOK
    BY Numbers DEF Init, TypeOK
  <1>2. Entries(log) = {}
    BY DEF Init, Entries
  <1>3. LogBounded /\ LogShape
    BY <1>2 DEF Init, LogBounded, LogShape
  <1>4. BaselineLogged
    BY DEF Init, BaselineLogged
  <1>5. ASSUME NEW d \in Device PROVE Core(d) /\ OpsShape(d)
    <2>1. /\ pc[d] = "idle" /\ view[d] = {} /\ plan[d] = {} /\ seq[d] = 0
          /\ deltas[d] = {} /\ ops[d] = <<>>
      BY DEF Init
    <2>2. Known(d) = {}
      BY <1>2, <2>1 DEF Known
    <2>3. PassShape(d) /\ StampAhead(d) /\ PlanShape(d) /\ ViewShape(d) /\ DeltaShape(d)
      BY <2>1 DEF PassShape, StampAhead, PlanShape, ViewShape, Functional, DeltaShape
    <2>4. Unspent(d) /\ Distinct(Known(d)) /\ Stored(d) /\ OpsShape(d)
      BY <2>1, <2>2 DEF Unspent, Distinct, Stored, OpsShape
    <2>5. QED
      BY <2>3, <2>4 DEF Core
  <1>6. QED
    BY <1>1, <1>3, <1>4, <1>5 DEF IInv

-----------------------------------------------------------------------------
(* The steps of a pass, seen by the device that takes them. *)

(* A new pass: its lamport is above every clock in the log it read. *)
LEMMA ReadLogInv ==
    ASSUME IInv, NEW d \in Device, ReadLog(d)
    PROVE  Core(d)' /\ OpsShape(d)'
  <1> DEFINE es == Entries(log)
  <1>1. /\ TypeOK /\ LogBounded /\ LogShape /\ Core(d) /\ OpsShape(d)
    BY DEF IInv
  <1>2. /\ pc[d] = "idle" /\ pc'[d] = "preserve" /\ view'[d] = Merged(es)
        /\ stamp'[d] = NextLamport(d, es)
        /\ plan'[d] = plan[d] /\ seq'[d] = seq[d] /\ deltas'[d] = deltas[d]
        /\ ops'[d] = ops[d] /\ log' = log /\ objects' = objects
    BY <1>1 DEF ReadLog, TypeOK, store
  <1>3. deltas[d] = {} /\ seq[d] = 0 /\ plan[d] = {} /\ ops[d] = <<>>
    BY <1>1, <1>2 DEF Core, PassShape, OpsShape
  <1>4. Known(d)' = es /\ Known(d) = es
    BY <1>2, <1>3 DEF Known, Entries
  <1>5. view'[d] \subseteq es /\ Functional(view'[d])
    BY <1>1, <1>2, EntriesType, MergedFunctional DEF Functional
  <1>6. PassShape(d)' /\ PlanShape(d)' /\ DeltaShape(d)' /\ Unspent(d)' /\ OpsShape(d)'
    BY <1>2, <1>3 DEF PassShape, PlanShape, DeltaShape, Unspent, OpsShape
  <1>7. ViewShape(d)'
    BY <1>4, <1>5 DEF ViewShape, Functional
  <1>8. StampAhead(d)'
    <2>1. ASSUME NEW o \in log PROVE o.lamport < stamp'[d]
      <3>1. PICK e \in o.entries : e.lamport = o.lamport
        BY <1>1 DEF LogShape
      <3>2. e \in es
        BY <3>1 DEF Entries
      <3>3. QED
        BY <1>1, <1>2, <3>1, <3>2, NextLamportAbove
    <2>2. QED
      BY <1>2, <2>1 DEF StampAhead
  <1>9. Distinct(Known(d))' /\ Stored(d)'
    BY <1>1, <1>2, <1>4 DEF Core, Distinct, Stored
  <1>10. QED
    BY <1>6, <1>7, <1>8, <1>9 DEF Core

(* A plan has one action per path, and downloads only what the manifest has. *)
LEMMA PlanFunctional ==
    ASSUME NEW f \in [Path -> Nat], NEW b \in [Path -> Nat], NEW m \in SUBSET Entry, NEW skipped,
           Functional(m)
    PROVE  LET pl == PlanFor(f, b, m, skipped) IN
           /\ \A x, y \in pl : x.path = y.path => x = y
           /\ \A x \in pl : x.kind = "Download" => \E e \in m : e.path = x.path /\ ~e.deleted
  <1> DEFINE here(p) == IF p \in skipped THEN NoHash ELSE f[p]
             kind(p) == reconcile(here(p), b[p], Remote(m, p))
             pl == PlanFor(f, b, m, skipped)
  <1>1. pl = {[path |-> p, kind |-> kind(p)] : p \in {q \in Path : kind(q) # "None"}}
    BY DEF PlanFor
  <1>2. ASSUME NEW p \in Path, kind(p) = "Download"
        PROVE  \E e \in m : e.path = p /\ ~e.deleted
    <2>1. SUFFICES ASSUME ~\E e \in m : e.path = p /\ ~e.deleted PROVE FALSE
      OBVIOUS
    <2>2. Remote(m, p) = NoHash
      BY <2>1 DEF Remote
    <2>3. here(p) \in Nat /\ b[p] \in Nat /\ NoHash \in Nat
      BY DEF NoHash
    <2>4. QED
      BY <1>2, <2>2, <2>3, DestroysOnlyAgreed
  <1> HIDE DEF kind
  <1>3. QED
    BY <1>1, <1>2

LEMMA ScanInv ==
    ASSUME IInv, NEW d \in Device, Scan(d)
    PROVE  Core(d)' /\ OpsShape(d)'
  <1>1. TypeOK /\ LogShape /\ Core(d) /\ OpsShape(d)
    BY DEF IInv
  <1>2. /\ pc[d] = "preserve" /\ pc'[d] = "apply" /\ view'[d] = view[d] /\ stamp'[d] = stamp[d]
        /\ seq'[d] = seq[d] /\ deltas'[d] = deltas[d] /\ ops'[d] = ops[d]
        /\ log' = log /\ objects' = objects
    BY <1>1 DEF Scan, TypeOK, store
  <1>3. deltas[d] = {} /\ seq[d] = 0 /\ ops[d] = <<>>
    BY <1>1, <1>2 DEF Core, PassShape, OpsShape
  <1>4. Known(d)' = Known(d) /\ Known(d) = Entries(log)
    BY <1>2, <1>3 DEF Known, Entries
  <1>5. PlanShape(d)'
    <2>1. PICK skipped : plan'[d] = PlanFor(files[d], base[d], view[d], skipped)
      BY <1>1 DEF Scan, TypeOK
    <2>2. files[d] \in [Path -> Hash] /\ base[d] \in [Path -> Hash] /\ view[d] \in SUBSET Entry
      BY <1>1 DEF TypeOK
    <2>3. files[d] \in [Path -> Nat] /\ base[d] \in [Path -> Nat] /\ Functional(view[d])
      BY <1>1, <2>2, Numbers DEF Core, ViewShape
    <2>4. QED
      BY <1>2, <2>1, <2>2, <2>3, PlanFunctional DEF PlanShape
  <1>6. \A e \in Known(d) : ~(e.dev = d /\ e.lamport = stamp[d])
    <2>1. ASSUME NEW e \in Entries(log), e.dev = d, e.lamport = stamp[d] PROVE FALSE
      <3>1. PICK o \in log : e \in o.entries
        BY <2>1 DEF Entries
      <3>2. o.dev = d /\ o.lamport = stamp[d] /\ o.seq \in Nat /\ stamp[d] \in Nat
        BY <1>1, <2>1, <3>1 DEF LogShape, TypeOK, DeltaObject
      <3>3. o.lamport < stamp[d] \/ o.seq < 0
        BY <1>1, <1>2, <1>3, <3>2 DEF Core, StampAhead
      <3>4. QED
        BY <3>2, <3>3
    <2>2. QED
      BY <1>4, <2>1
  <1>7. Unspent(d)'
    BY <1>2, <1>4, <1>6 DEF Unspent
  <1>8. PassShape(d)' /\ StampAhead(d)' /\ DeltaShape(d)'
    BY <1>1, <1>2, <1>3 DEF Core, PassShape, StampAhead, DeltaShape
  <1>9. ViewShape(d)' /\ Distinct(Known(d))' /\ Stored(d)'
    BY <1>1, <1>2, <1>4 DEF Core, ViewShape, Functional, Distinct, Stored
  <1>10. OpsShape(d)'
    BY <1>2, <1>3 DEF OpsShape
  <1>11. QED
    BY <1>5, <1>7, <1>8, <1>9, <1>10 DEF Core

(* An action of the plan that adds entries of its path to the batch. *)
LEMMA BatchGrows ==
    ASSUME IInv, NEW d \in Device, NEW p, NEW kind, Executing(d, p, kind), kind # "Download",
           NEW N, deltas'[d] = deltas[d] \cup N,
           \A n \in N : n.path = p /\ n.lamport = stamp[d] /\ n.dev = d
                          /\ <<p, n.hash>> \in objects',
           \A m, n \in N : m = n,
           view'[d] \subseteq view[d] \cup N, Functional(view'[d]),
           \A e \in view[d] : e.path # p => e \in view'[d],
           pc'[d] = pc[d], stamp'[d] = stamp[d], seq'[d] = seq[d],
           log' = log, objects \subseteq objects'
    PROVE  Core(d)' /\ Known(d)' = Known(d) \cup N
  <1> DEFINE act == [path |-> p, kind |-> kind]
  <1>1. TypeOK /\ Core(d)
    BY DEF IInv
  <1>2. pc[d] = "apply" /\ act \in plan[d] /\ plan'[d] = plan[d] \ {act}
    BY <1>1 DEF Executing, TypeOK
  <1>3. Known(d)' = Known(d) \cup N
    BY DEF Known, Entries
  <1>4. \A a \in plan[d] : a.path = p => a = act
    BY <1>1, <1>2 DEF Core, PlanShape
  <1>5. PassShape(d)' /\ StampAhead(d)' /\ DeltaShape(d)'
    BY <1>1, <1>2 DEF Core, PassShape, StampAhead, DeltaShape
  <1>6. PlanShape(d)'
    <2>1. ASSUME NEW a \in plan'[d], a.kind = "Download"
          PROVE  \E e \in view'[d] : e.path = a.path /\ ~e.deleted
      <3>1. a \in plan[d] /\ a.path # p
        BY <1>2, <1>4, <2>1
      <3>2. QED
        BY <1>1, <2>1, <3>1 DEF Core, PlanShape
    <2>2. QED
      BY <1>1, <1>2, <2>1 DEF Core, PlanShape
  <1>7. ViewShape(d)'
    BY <1>1, <1>3 DEF Core, ViewShape, Functional
  <1>8. Unspent(d)'
    <2>1. ASSUME NEW e \in Known(d)', NEW a \in plan'[d], e.dev = d, e.lamport = stamp[d]
          PROVE  a.path # e.path
      <3>1. a \in plan[d] /\ a.path # p
        BY <1>2, <1>4
      <3>2. CASE e \in N
        BY <3>1, <3>2
      <3>3. CASE e \in Known(d)
        BY <1>1, <2>1, <3>1, <3>3 DEF Core, Unspent
      <3>4. QED
        BY <1>3, <3>2, <3>3
    <2>2. QED
      BY <2>1 DEF Unspent
  <1>9. Distinct(Known(d))'
    <2>1. ASSUME NEW e \in Known(d), NEW n \in N
          PROVE  ~(e.path = n.path /\ e.lamport = n.lamport /\ e.dev = n.dev)
      BY <1>1, <1>2 DEF Core, Unspent
    <2>2. QED
      BY <1>1, <1>3, <2>1 DEF Core, Distinct
  <1>10. Stored(d)'
    BY <1>1, <1>3 DEF Core, Stored
  <1>11. QED
    BY <1>3, <1>5, <1>6, <1>7, <1>8, <1>9, <1>10 DEF Core

LEMMA UploadInv ==
    ASSUME IInv, NEW d \in Device, NEW p \in Path, Upload(d, p)
    PROVE  Core(d)' /\ OpsShape(d)'
  <1> DEFINE c == files[d][p]
             n == NewDelta(d, p, c, FALSE)
             op == [op |-> "Confirm", path |-> p, hash |-> c]
  <1>1. TypeOK /\ Core(d) /\ OpsShape(d)
    BY DEF IInv
  <1>2. /\ Executing(d, p, "Upload") /\ pc[d] = "apply" /\ pc'[d] = pc[d] /\ stamp'[d] = stamp[d]
        /\ seq'[d] = seq[d] /\ deltas'[d] = deltas[d] \cup {n} /\ view'[d] = Insert(view[d], n)
        /\ ops'[d] = Append(ops[d], op) /\ log' = log /\ objects' = objects \cup {<<p, c>>}
        /\ c \in Content
    BY <1>1 DEF Upload, Executing, Push, TypeOK, Hash
  <1>3. n.path = p /\ n.lamport = stamp[d] /\ n.dev = d /\ n.hash = c /\ n.deleted = FALSE
    BY DEF NewDelta
  <1> HIDE DEF n
  <1>4. Functional(view'[d])
    BY <1>1, <1>2, InsertFunctional DEF Core, ViewShape, Functional
  <1>5. /\ view'[d] \subseteq view[d] \cup {n}
        /\ \A e \in view[d] : e.path # p => e \in view'[d]
    BY <1>2, <1>3 DEF Insert, EntriesAt
  <1>6. Core(d)' /\ Known(d)' = Known(d) \cup {n}
    <2> DEFINE N == {n}
    <2>1. \A x \in N : x.path = p /\ x.lamport = stamp[d] /\ x.dev = d
                         /\ <<p, x.hash>> \in objects'
      BY <1>2, <1>3
    <2>2. /\ deltas'[d] = deltas[d] \cup N /\ view'[d] \subseteq view[d] \cup N
          /\ \A x, y \in N : x = y
      BY <1>2, <1>5
    <2>3. objects \subseteq objects' /\ "Upload" # "Download"
      BY <1>2
    <2> HIDE DEF N
    <2>4. Core(d)' /\ Known(d)' = Known(d) \cup N
      BY <1>2, <1>4, <1>5, <2>1, <2>2, <2>3, BatchGrows
    <2>5. QED
      BY <2>4 DEF N
  <1>7. op \in BaselineOp /\ op.op = "Confirm" /\ op.path = p /\ op.hash = c
    BY <1>2 DEF BaselineOp
  <1>8. Recorded(Known(d)', p, c)
    BY <1>3, <1>6 DEF Recorded
  <1> HIDE DEF op
  <1>9. OpsShape(d)'
    BY <1>1, <1>2, <1>6, <1>7, <1>8, OpsAppend
  <1>10. QED
    BY <1>6, <1>9

LEMMA DeleteRemoteInv ==
    ASSUME IInv, NEW d \in Device, NEW p \in Path, DeleteRemote(d, p)
    PROVE  Core(d)' /\ OpsShape(d)'
  <1> DEFINE N == {NewDelta(d, p, e.hash, TRUE) : e \in EntriesAt(view[d], p)}
             op == [op |-> "Remove", path |-> p]
  <1>1. TypeOK /\ Core(d) /\ OpsShape(d)
    BY DEF IInv
  <1>2. /\ Executing(d, p, "DeleteRemote") /\ pc[d] = "apply" /\ pc'[d] = pc[d]
        /\ stamp'[d] = stamp[d] /\ seq'[d] = seq[d] /\ log' = log /\ objects' = objects
        /\ ops'[d] = Append(ops[d], op)
    BY <1>1 DEF DeleteRemote, ExecutingLate, Executing, Push, TypeOK, store
  <1>3. deltas'[d] = deltas[d] \cup N /\ view'[d] = view[d] \ EntriesAt(view[d], p)
    BY <1>1 DEF DeleteRemote, TypeOK
  <1>4. ASSUME NEW n \in N
        PROVE  n.path = p /\ n.lamport = stamp[d] /\ n.dev = d /\ <<p, n.hash>> \in objects'
    <2>1. PICK e \in EntriesAt(view[d], p) : n = NewDelta(d, p, e.hash, TRUE)
      OBVIOUS
    <2>2. n.path = p /\ n.lamport = stamp[d] /\ n.dev = d /\ n.hash = e.hash
      BY <2>1 DEF NewDelta
    <2>3. e.path = p /\ e \in Known(d)
      BY <1>1 DEF EntriesAt, Core, ViewShape
    <2>4. QED
      BY <1>1, <1>2, <2>2, <2>3 DEF Core, Stored
  <1>5. \A m, n \in N : m = n
    BY <1>1 DEF Core, ViewShape, Functional, EntriesAt
  <1>6. /\ view'[d] \subseteq view[d] \cup N /\ Functional(view'[d])
        /\ \A e \in view[d] : e.path # p => e \in view'[d]
    BY <1>1, <1>3 DEF Core, ViewShape, Functional, EntriesAt
  <1> HIDE DEF N
  <1>7. Core(d)' /\ Known(d)' = Known(d) \cup N
    BY <1>2, <1>3, <1>4, <1>5, <1>6, BatchGrows
  <1>8. op \in BaselineOp /\ op.op # "Confirm"
    BY DEF BaselineOp
  <1> HIDE DEF op
  <1>9. OpsShape(d)'
    BY <1>1, <1>2, <1>7, <1>8, OpsAppend
  <1>10. QED
    BY <1>7, <1>9

(* An executed action only leaves the plan; the rest of Core is untouched. *)
LEMMA ExecutedCore ==
    ASSUME IInv, NEW d \in Device, NEW p, NEW kind, Executing(d, p, kind),
           UNCHANGED <<pc, view, stamp, seq, deltas, log, objects>>
    PROVE  Core(d)' /\ Known(d)' = Known(d) /\ pc[d] = "apply" /\ pc'[d] = "apply"
  <1>1. TypeOK /\ Core(d)
    BY DEF IInv
  <1>2. plan'[d] \subseteq plan[d] /\ pc[d] = "apply"
    BY <1>1 DEF Executing, TypeOK
  <1>3. Still(d)
    BY DEF Still
  <1>4. QED
    BY <1>1, <1>2, <1>3, CoreFrame DEF Known, Entries

LEMMA DownloadInv ==
    ASSUME IInv, NEW d \in Device, NEW p \in Path, Download(d, p)
    PROVE  Core(d)' /\ OpsShape(d)'
  <1> DEFINE c == EntryAt(view[d], p).hash
             op == [op |-> "Confirm", path |-> p, hash |-> c]
  <1>1. TypeOK /\ Core(d) /\ OpsShape(d)
    BY DEF IInv
  <1>2. Executing(d, p, "Download") /\ UNCHANGED <<pc, view, stamp, seq, deltas, log, objects>>
    BY DEF Download, store
  <1>3. Core(d)' /\ Known(d)' = Known(d) /\ pc'[d] = "apply"
    BY <1>2, ExecutedCore
  <1>4. c \in Content /\ ops'[d] = Append(ops[d], op)
    BY <1>1 DEF Download, Push, TypeOK
  <1>5. Recorded(Known(d)', p, c)
    <2>1. [path |-> p, kind |-> "Download"] \in plan[d]
      BY <1>2 DEF Executing
    <2>2. PICK e \in view[d] : e.path = p /\ ~e.deleted
      BY <1>1, <2>1 DEF Core, PlanShape
    <2>3. EntryAt(view[d], p) = e
      BY <1>1, <2>2 DEF EntryAt, Core, ViewShape, Functional
    <2>4. e \in Known(d)
      BY <1>1 DEF Core, ViewShape
    <2>5. QED
      BY <1>3, <2>2, <2>3, <2>4 DEF Recorded
  <1>6. op \in BaselineOp /\ op.op = "Confirm" /\ op.path = p /\ op.hash = c
    BY <1>4 DEF BaselineOp
  <1> HIDE DEF op, c
  <1>7. OpsShape(d)'
    BY <1>1, <1>3, <1>4, <1>5, <1>6, OpsAppend
  <1>8. QED
    BY <1>3, <1>7

LEMMA DeleteLocalInv ==
    ASSUME IInv, NEW d \in Device, NEW p \in Path, DeleteLocal(d, p)
    PROVE  Core(d)' /\ OpsShape(d)'
  <1> DEFINE op == [op |-> "Remove", path |-> p]
  <1>1. TypeOK /\ OpsShape(d)
    BY DEF IInv
  <1>2. /\ Executing(d, p, "DeleteLocal")
        /\ UNCHANGED <<pc, view, stamp, seq, deltas, log, objects>>
    BY DEF DeleteLocal, ExecutingLate, store
  <1>3. Core(d)' /\ Known(d)' = Known(d) /\ pc'[d] = "apply"
    BY <1>2, ExecutedCore
  <1>4. ops'[d] = Append(ops[d], op)
    BY <1>1 DEF DeleteLocal, Push, TypeOK
  <1>5. op \in BaselineOp /\ op.op # "Confirm"
    BY DEF BaselineOp
  <1> HIDE DEF op
  <1>6. OpsShape(d)'
    BY <1>1, <1>3, <1>4, <1>5, OpsAppend
  <1>7. QED
    BY <1>3, <1>6

(* Actions that queue nothing: a conflict, a vanished file, a failed transfer. *)
LEMMA QueueNothingInv ==
    ASSUME IInv, NEW d \in Device, NEW p, NEW kind, Executing(d, p, kind),
           UNCHANGED <<pc, view, stamp, seq, deltas, log, objects, ops>>
    PROVE  Core(d)' /\ OpsShape(d)'
  <1>1. OpsShape(d)
    BY DEF IInv
  <1>2. Core(d)' /\ Known(d)' = Known(d)
    BY ExecutedCore
  <1>3. QED
    BY <1>1, <1>2, OpsFrame

(* One renamed-aside loser: nothing the pass relies on changes. *)
LEMMA PreserveInv ==
    ASSUME IInv, NEW d \in Device, NEW e, Preserve(d, e)
    PROVE  Core(d)' /\ OpsShape(d)'
  <1>1. Core(d) /\ OpsShape(d)
    BY DEF IInv
  <1>2. UNCHANGED <<pc, view, plan, stamp, seq, deltas, ops, log, objects>>
    BY DEF Preserve, store
  <1>3. Still(d) /\ Known(d)' = Known(d)
    BY <1>2 DEF Still, Known, Entries
  <1>4. QED
    BY <1>1, <1>2, <1>3, CoreFrame, OpsFrame

(* The batch moves into the log under a key no object of the log has. *)
LEMMA FlushedLog ==
    ASSUME IInv, NEW d \in Device, FlushLog(d)
    PROVE  /\ log \subseteq log'
           /\ Entries(log)' = Known(d)
           /\ deltas'[d] = {}
           /\ \A o \in log' \ log : /\ o.dev = d /\ o.lamport = stamp[d] /\ o.seq = seq[d]
                                    /\ o.entries = deltas[d] /\ deltas[d] # {}
                                    /\ seq'[d] = seq[d] + 1
           /\ seq'[d] = seq[d] \/ seq'[d] = seq[d] + 1
  <1>1. TypeOK /\ StampAhead(d) /\ pc[d] = "apply"
    BY DEF IInv, Core, FlushLog
  <1>2. CASE deltas[d] = {}
    <2>1. log' = log /\ seq' = seq /\ deltas' = deltas
      BY <1>2 DEF FlushLog
    <2>2. QED
      BY <1>2, <2>1 DEF Known, Entries
  <1>3. CASE deltas[d] # {}
    <2> DEFINE o == [lamport |-> stamp[d], dev |-> d, seq |-> seq[d], entries |-> deltas[d]]
    <2>1. /\ log' = PutObject(log, o) /\ seq'[d] = seq[d] + 1 /\ deltas'[d] = {}
      BY <1>1, <1>3 DEF FlushLog, TypeOK
    <2>2. o.lamport = stamp[d] /\ o.dev = d /\ o.seq = seq[d] /\ o.entries = deltas[d]
      OBVIOUS
    <2> HIDE DEF o
    <2>3. ASSUME NEW x \in log, x.lamport = o.lamport, x.dev = o.dev, x.seq = o.seq
          PROVE  FALSE
      <3>1. x.lamport < stamp[d] \/ x.seq < seq[d]
        BY <1>1, <2>2, <2>3 DEF StampAhead
      <3>2. stamp[d] \in Nat /\ seq[d] \in Nat
        BY <1>1 DEF TypeOK
      <3>3. QED
        BY <2>2, <2>3, <3>1, <3>2
    <2>4. log' = log \cup {o}
      BY <2>1, <2>3 DEF PutObject
    <2>5. Entries(log)' = Entries(log) \cup deltas[d]
      BY <2>2, <2>4 DEF Entries
    <2>6. QED
      BY <1>3, <2>1, <2>2, <2>4, <2>5 DEF Known
  <1>4. QED
    BY <1>2, <1>3

LEMMA FlushLogInv ==
    ASSUME IInv, NEW d \in Device, FlushLog(d)
    PROVE  Core(d)' /\ OpsShape(d)'
  <1>1. TypeOK /\ Core(d) /\ OpsShape(d) /\ pc[d] = "apply"
    BY DEF IInv, FlushLog
  <1>2. /\ pc'[d] = "flush" /\ view'[d] = view[d] /\ plan'[d] = plan[d]
        /\ stamp'[d] = stamp[d] /\ ops'[d] = ops[d] /\ objects' = objects
    BY <1>1 DEF FlushLog, TypeOK
  <1>3. Known(d)' = Known(d) /\ deltas'[d] = {}
    BY FlushedLog DEF Known
  <1>4. StampAhead(d)'
    <2>1. stamp[d] \in Nat /\ seq[d] \in Nat /\ log \subseteq DeltaObject
      BY <1>1 DEF TypeOK
    <2>2. ASSUME NEW o \in log', o.dev = d
          PROVE  o.lamport < stamp[d] \/ (o.lamport = stamp[d] /\ o.seq < seq'[d])
      <3>1. CASE o \in log
        <4>1. o.seq \in Nat
          BY <2>1, <3>1 DEF DeltaObject
        <4>2. o.lamport < stamp[d] \/ (o.lamport = stamp[d] /\ o.seq < seq[d])
          BY <1>1, <2>2, <3>1 DEF Core, StampAhead
        <4>3. QED
          BY <2>1, <4>1, <4>2, FlushedLog
      <3>2. CASE o \in log' \ log
        <4>1. o.lamport = stamp[d] /\ o.seq = seq[d] /\ seq'[d] = seq[d] + 1
          BY <3>2, FlushedLog
        <4>2. QED
          BY <2>1, <4>1
      <3>3. QED
        BY <3>1, <3>2
    <2>3. QED
      BY <1>2, <2>2 DEF StampAhead
  <1>5. PassShape(d)' /\ PlanShape(d)' /\ DeltaShape(d)'
    BY <1>1, <1>2, <1>3 DEF Core, PassShape, PlanShape, DeltaShape
  <1>6. ViewShape(d)' /\ Unspent(d)' /\ Distinct(Known(d))' /\ Stored(d)'
    BY <1>1, <1>2, <1>3 DEF Core, ViewShape, Functional, Unspent, Distinct, Stored
  <1>7. OpsShape(d)'
    BY <1>1, <1>2, <1>3 DEF OpsShape
  <1>8. QED
    BY <1>4, <1>5, <1>6, <1>7 DEF Core

(* ... and the other devices, whose stamps the new object does not carry. *)
LEMMA FlushLogOther ==
    ASSUME IInv, NEW d \in Device, FlushLog(d), NEW g \in Device, g # d
    PROVE  Core(g)' /\ OpsShape(g)'
  <1>1. TypeOK /\ Core(d) /\ Core(g) /\ OpsShape(g)
    BY DEF IInv
  <1>2. Still(g) /\ plan' = plan /\ ops' = ops /\ objects' = objects
    BY <1>1 DEF Still, FlushLog, TypeOK
  <1>3. Known(g)' = Known(g) \cup deltas[d]
    BY <1>2, FlushedLog DEF Known, Still
  <1>4. \A e \in deltas[d] : e.dev # g
    BY <1>1 DEF Core, DeltaShape
  <1>5. PassShape(g)' /\ PlanShape(g)' /\ DeltaShape(g)'
    BY <1>1, <1>2 DEF Core, PassShape, PlanShape, DeltaShape, Still
  <1>6. StampAhead(g)'
    BY <1>1, <1>2, FlushedLog DEF Core, StampAhead, Still
  <1>7. ViewShape(g)'
    BY <1>1, <1>2, <1>3 DEF Core, ViewShape, Functional, Still
  <1>8. Unspent(g)'
    BY <1>1, <1>2, <1>3, <1>4 DEF Core, Unspent, Still
  <1>9. Distinct(Known(g))'
    <2>1. ASSUME NEW e \in Known(g)', NEW f \in Known(g)',
                 e.path = f.path, e.lamport = f.lamport, e.dev = f.dev
          PROVE  e = f
      <3>1. CASE e \in Known(g) /\ f \in Known(g)
        BY <1>1, <2>1, <3>1 DEF Core, Distinct
      <3>2. CASE e \in Known(d) /\ f \in Known(d)
        BY <1>1, <2>1, <3>2 DEF Core, Distinct
      <3>3. CASE (e \in deltas[d] /\ f \in deltas[g]) \/ (e \in deltas[g] /\ f \in deltas[d])
        BY <1>1, <1>4, <2>1, <3>3 DEF Core, DeltaShape
      <3>4. QED
        BY <1>3, <3>1, <3>2, <3>3 DEF Known
    <2>2. QED
      BY <2>1 DEF Distinct
  <1>10. Stored(g)'
    BY <1>1, <1>2, <1>3 DEF Core, Stored, Known
  <1>11. OpsShape(g)'
    BY <1>1, <1>2, <1>3, OpsFrame DEF Still
  <1>12. QED
    BY <1>5, <1>6, <1>7, <1>8, <1>9, <1>10, <1>11 DEF Core

LEMMA FlushOpInv ==
    ASSUME IInv, NEW d \in Device, FlushOp(d)
    PROVE  Core(d)' /\ OpsShape(d)' /\ BaselineLogged'
  <1> DEFINE o == Head(ops[d])
  <1>1. TypeOK /\ Core(d) /\ OpsShape(d) /\ BaselineLogged
    BY DEF IInv
  <1>2. /\ pc[d] = "flush" /\ ops[d] # <<>> /\ ops'[d] = Tail(ops[d])
        /\ UNCHANGED <<pc, view, plan, stamp, seq, deltas, log, objects>>
    BY <1>1 DEF FlushOp, TypeOK, store
  <1>3. Still(d) /\ Known(d)' = Known(d) /\ Known(d) = Entries(log) /\ Entries(log)' = Entries(log)
    BY <1>1, <1>2 DEF Still, Known, Entries, Core, PassShape
  <1>4. Core(d)'
    BY <1>1, <1>2, <1>3, CoreFrame
  <1>5. ops[d] \in Seq(BaselineOp)
    BY <1>1 DEF TypeOK
  <1>6. OpsShape(d)'
    <2>1. \A i \in 1..Len(ops'[d]) : i + 1 \in 1..Len(ops[d]) /\ ops'[d][i] = ops[d][i + 1]
      BY <1>2, <1>5
    <2>2. QED
      BY <1>1, <1>2, <1>3, <2>1 DEF OpsShape
  <1>7. o.op = "Confirm" => Recorded(Entries(log), o.path, o.hash)
    <2>1. 1 \in 1..Len(ops[d]) /\ o = ops[d][1]
      BY <1>2, <1>5
    <2>2. QED
      BY <1>1, <1>3, <2>1 DEF OpsShape
  <1>8. o.path \in Path
    <2>1. o \in BaselineOp
      BY <1>2, <1>5
    <2>2. QED
      BY <2>1 DEF BaselineOp
  <1>9. base' = [base EXCEPT ![d][o.path] = IF o.op = "Confirm" THEN o.hash ELSE None]
    BY DEF FlushOp
  <1> HIDE DEF o
  <1>10. BaselineLogged'
    <2>1. ASSUME NEW g \in Device, NEW p \in Path, base'[g][p] # None
          PROVE  \E e \in Entries(log) : e.path = p /\ e.hash = base'[g][p] /\ ~e.deleted
      <3>1. base \in [Device -> [Path -> Hash]]
        BY <1>1 DEF TypeOK
      <3>2. CASE g = d /\ p = o.path
        BY <1>7, <1>9, <2>1, <3>1, <3>2 DEF Recorded
      <3>3. CASE ~(g = d /\ p = o.path)
        <4>1. base'[g][p] = base[g][p]
          BY <1>8, <1>9, <3>1, <3>3
        <4>2. QED
          BY <1>1, <2>1, <4>1 DEF BaselineLogged
      <3>4. QED
        BY <3>2, <3>3
    <2>2. QED
      BY <1>3, <2>1 DEF BaselineLogged
  <1>11. QED
    BY <1>4, <1>6, <1>10

-----------------------------------------------------------------------------
(* One step of the system. *)

(* What a step of d leaves to the other devices. *)
Apart(g) == Still(g) /\ plan'[g] = plan[g] /\ ops'[g] = ops[g]

LEMMA OthersApart ==
    ASSUME TypeOK, NEW d \in Device, PassStep(d) \/ Fault(d) \/ User(d),
           NEW g \in Device, g # d
    PROVE  Apart(g)
  <1> USE DEF TypeOK, Apart, Still, volatile
  <1>1. CASE User(d)
    BY <1>1 DEF User, UserWrite, UserDelete
  <1>2. CASE Fault(d)
    <2>1. ASSUME NEW p \in Path, NEW kind, TransferFails(d, p, kind) PROVE Apart(g)
      BY <2>1 DEF TransferFails, Executing
    <2>2. CASE Abort(d)
      BY <2>2 DEF Abort, Forget
    <2>3. ASSUME NEW p \in Path, AbortInRename(d, p) PROVE Apart(g)
      BY <2>3 DEF AbortInRename, Forget
    <2>4. QED
      BY <1>2, <2>1, <2>2, <2>3 DEF Fault
  <1>3. CASE PassStep(d)
    <2>1. CASE ReadLog(d)
      BY <2>1 DEF ReadLog
    <2>2. ASSUME NEW e, Preserve(d, e) PROVE Apart(g)
      BY <2>2 DEF Preserve
    <2>3. CASE Scan(d)
      BY <2>3 DEF Scan
    <2>4. ASSUME NEW p \in Path, Upload(d, p) PROVE Apart(g)
      BY <2>4 DEF Upload, Executing, Push
    <2>5. ASSUME NEW p \in Path, UploadVanished(d, p) PROVE Apart(g)
      BY <2>5 DEF UploadVanished, Executing
    <2>6. ASSUME NEW p \in Path, Download(d, p) PROVE Apart(g)
      BY <2>6 DEF Download, Executing, Push
    <2>7. ASSUME NEW p \in Path, DeleteLocal(d, p) PROVE Apart(g)
      BY <2>7 DEF DeleteLocal, ExecutingLate, Executing, Push
    <2>8. ASSUME NEW p \in Path, DeleteRemote(d, p) PROVE Apart(g)
      BY <2>8 DEF DeleteRemote, ExecutingLate, Executing, Push
    <2>9. ASSUME NEW p \in Path, Conflict(d, p) PROVE Apart(g)
      BY <2>9 DEF Conflict, ExecutingLate, Executing
    <2>10. CASE FlushLog(d)
      BY <2>10 DEF FlushLog
    <2>11. CASE FlushOp(d)
      BY <2>11 DEF FlushOp
    <2>12. CASE FlushDone(d)
      BY <2>12 DEF FlushDone
    <2>13. CASE Finish(d)
      BY <2>13 DEF Finish, Forget
    <2>14. QED
      BY <1>3, <2>1, <2>2, <2>3, <2>4, <2>5, <2>6, <2>7, <2>8, <2>9, <2>10, <2>11,
         <2>12, <2>13 DEF PassStep
  <1>4. QED
    BY <1>1, <1>2, <1>3

(* Rows change only in a flush; elsewhere they are kept or dropped. *)
RowsKept == \A d \in Device, p \in Path : base'[d][p] = base[d][p] \/ base'[d][p] = None

(* Every step but a flush leaves the log alone. *)
Quiet == log' = log /\ objects \subseteq objects' /\ RowsKept

LEMMA RowDropped ==
    ASSUME TypeOK, NEW d \in Device, NEW q \in Path, base' = [base EXCEPT ![d][q] = None]
    PROVE  RowsKept
  BY DEF TypeOK, RowsKept

(* The acting device's part of the invariant, for every step but a flush. *)
LEMMA QuietStep ==
    ASSUME IInv, NEW d \in Device, PassStep(d) \/ Fault(d) \/ User(d),
           ~FlushLog(d), ~FlushOp(d)
    PROVE  Quiet /\ Core(d)' /\ OpsShape(d)'
  <1>1. TypeOK /\ Core(d) /\ OpsShape(d)
    BY DEF IInv
  <1>2. ASSUME base' = base PROVE RowsKept
    BY <1>2 DEF RowsKept
  <1> DEFINE Good == Quiet /\ Core(d)' /\ OpsShape(d)'
  <1>3. CASE User(d)
    <2>1. UNCHANGED <<base, pc, view, plan, stamp, seq, deltas, ops, log, objects>>
      BY <1>3 DEF User, UserWrite, UserDelete, volatile, store
    <2>2. Still(d) /\ Known(d)' = Known(d)
      BY <2>1 DEF Still, Known, Entries
    <2>3. QED
      BY <1>1, <1>2, <2>1, <2>2, CoreFrame, OpsFrame DEF Quiet
  <1>4. CASE Fault(d)
    <2>1. ASSUME NEW p \in Path, NEW kind, TransferFails(d, p, kind) PROVE Good
      <3>1. /\ Executing(d, p, kind) /\ base' = base
            /\ UNCHANGED <<pc, view, stamp, seq, deltas, log, objects, ops>>
        BY <2>1 DEF TransferFails, store
      <3>2. QED
        BY <1>2, <3>1, QueueNothingInv DEF Quiet
    <2>2. CASE Abort(d)
      <3>1. Forget(d) /\ UNCHANGED <<base, log, objects>>
        BY <2>2 DEF Abort, store
      <3>2. QED
        BY <1>1, <1>2, <3>1, ForgetInv DEF Quiet
    <2>3. ASSUME NEW p \in Path, AbortInRename(d, p) PROVE Good
      <3>1. Forget(d) /\ UNCHANGED <<base, log, objects>>
        BY <2>3 DEF AbortInRename, store
      <3>2. QED
        BY <1>1, <1>2, <3>1, ForgetInv DEF Quiet
    <2>4. QED
      BY <1>4, <2>1, <2>2, <2>3 DEF Fault
  <1>5. CASE PassStep(d)
    <2>1. CASE ReadLog(d)
      BY <1>2, <2>1, ReadLogInv DEF ReadLog, Quiet, store
    <2>2. ASSUME NEW e \in losers[d], Preserve(d, e) PROVE Good
      <3>1. e.path \in Path
        BY <1>1 DEF TypeOK, Entry
      <3>2. base' = base \/ base' = [base EXCEPT ![d][e.path] = None]
        BY <2>2 DEF Preserve
      <3>3. RowsKept
        BY <1>1, <1>2, <3>1, <3>2, RowDropped
      <3>4. QED
        BY <2>2, <3>3, PreserveInv DEF Preserve, Quiet, store
    <2>3. CASE Scan(d)
      BY <1>2, <2>3, ScanInv DEF Scan, Quiet, store
    <2>4. ASSUME NEW p \in Path, Upload(d, p) PROVE Good
      <3>1. base' = base /\ log' = log /\ objects \subseteq objects'
        BY <2>4 DEF Upload
      <3>2. QED
        BY <1>2, <2>4, <3>1, UploadInv DEF Quiet
    <2>5. ASSUME NEW p \in Path, UploadVanished(d, p) PROVE Good
      <3>1. /\ Executing(d, p, "Upload") /\ base' = base
            /\ UNCHANGED <<pc, view, stamp, seq, deltas, log, objects, ops>>
        BY <2>5 DEF UploadVanished, store
      <3>2. QED
        BY <1>2, <3>1, QueueNothingInv DEF Quiet
    <2>6. ASSUME NEW p \in Path, Download(d, p) PROVE Good
      BY <1>2, <2>6, DownloadInv DEF Download, Quiet, store
    <2>7. ASSUME NEW p \in Path, DeleteLocal(d, p) PROVE Good
      BY <1>2, <2>7, DeleteLocalInv DEF DeleteLocal, Quiet, store
    <2>8. ASSUME NEW p \in Path, DeleteRemote(d, p) PROVE Good
      BY <1>2, <2>8, DeleteRemoteInv DEF DeleteRemote, Quiet, store
    <2>9. ASSUME NEW p \in Path, Conflict(d, p) PROVE Good
      <3>1. /\ Executing(d, p, "Conflict") /\ base' = [base EXCEPT ![d][p] = None]
            /\ UNCHANGED <<pc, view, stamp, seq, deltas, log, objects, ops>>
        BY <2>9 DEF Conflict, ExecutingLate, store
      <3>2. RowsKept
        BY <1>1, <3>1, RowDropped
      <3>3. QED
        BY <3>1, <3>2, QueueNothingInv DEF Quiet
    <2>10. CASE FlushDone(d)
      <3>1. /\ pc[d] = "flush" /\ pc'[d] = "apply"
            /\ UNCHANGED <<base, view, plan, stamp, seq, deltas, ops, log, objects>>
        BY <1>1, <2>10 DEF FlushDone, TypeOK, store
      <3>2. Known(d)' = Known(d)
        BY <3>1 DEF Known, Entries
      <3>3. PassShape(d)' /\ StampAhead(d)' /\ PlanShape(d)' /\ DeltaShape(d)'
        BY <1>1, <3>1 DEF Core, PassShape, StampAhead, PlanShape, DeltaShape
      <3>4. ViewShape(d)' /\ Unspent(d)' /\ Distinct(Known(d))' /\ Stored(d)'
        BY <1>1, <3>1, <3>2 DEF Core, ViewShape, Functional, Unspent, Distinct, Stored
      <3>5. OpsShape(d)'
        BY <1>1, <3>1, <3>2 DEF OpsShape
      <3>6. QED
        BY <1>2, <3>1, <3>3, <3>4, <3>5 DEF Core, Quiet
    <2>11. CASE Finish(d)
      <3>1. Forget(d) /\ UNCHANGED <<base, log, objects>>
        BY <2>11 DEF Finish, store
      <3>2. QED
        BY <1>1, <1>2, <3>1, ForgetInv DEF Quiet
    <2>12. QED
      BY <1>5, <2>1, <2>2, <2>3, <2>4, <2>5, <2>6, <2>7, <2>8, <2>9, <2>10, <2>11
         DEF PassStep
  <1>6. QED
    BY <1>3, <1>4, <1>5

(* What a step does to the log: it grows, by entries that are known. *)
LEMMA LogStep ==
    ASSUME IInv, [Next]_vars
    PROVE  log \subseteq log' /\ LogBounded' /\ LogShape'
  <1>1. TypeOK /\ LogBounded /\ LogShape
    BY DEF IInv
  <1>2. ASSUME log' = log PROVE log \subseteq log' /\ LogBounded' /\ LogShape'
    BY <1>1, <1>2 DEF LogBounded, LogShape, Entries
  <1>3. ASSUME NEW d \in Device, FlushLog(d)
        PROVE  log \subseteq log' /\ LogBounded' /\ LogShape'
    <2>1. DeltaShape(d) /\ stamp[d] \in Nat /\ Entries(log) \subseteq Entry
      BY <1>1, EntriesType DEF IInv, Core, TypeOK
    <2>2. LogBounded'
      <3>1. PICK n \in Nat : \A e \in Entries(log) : e.lamport <= n
        BY <1>1 DEF LogBounded
      <3> DEFINE top == IF n > stamp[d] THEN n ELSE stamp[d]
      <3>2. top \in Nat /\ n <= top /\ stamp[d] <= top
        BY <2>1
      <3> HIDE DEF top
      <3>3. ASSUME NEW e \in Entries(log)' PROVE e.lamport <= top
        <4>1. CASE e \in deltas[d]
          BY <2>1, <3>2, <4>1 DEF DeltaShape
        <4>2. CASE e \in Entries(log)
          BY <2>1, <3>1, <3>2, <4>2 DEF Entry
        <4>3. QED
          BY <1>3, <4>1, <4>2, FlushedLog DEF Known
      <3>4. QED
        BY <3>2, <3>3 DEF LogBounded
    <2>3. LogShape'
      BY <1>1, <1>3, <2>1, FlushedLog DEF LogShape, DeltaShape
    <2>4. QED
      BY <1>3, <2>2, <2>3, FlushedLog
  <1>4. ASSUME NEW d \in Device, PassStep(d) \/ Fault(d) \/ User(d), ~FlushLog(d)
        PROVE  log' = log
    <2>1. CASE FlushOp(d)
      BY <2>1 DEF FlushOp, store
    <2>2. CASE ~FlushOp(d)
      BY <1>4, <2>2, QuietStep DEF Quiet
    <2>3. QED
      BY <2>1, <2>2
  <1>5. CASE UNCHANGED vars \/ Rest
    BY <1>2, <1>5 DEF Rest, vars, store
  <1>6. QED
    BY <1>2, <1>3, <1>4, <1>5 DEF Next

LEMMA NextInv == IInv /\ [Next]_vars => IInv'
  <1> SUFFICES ASSUME IInv, [Next]_vars PROVE IInv'
    OBVIOUS
  <1>1. TypeOK'
    BY TypeStep DEF IInv
  <1>2. LogBounded' /\ LogShape' /\ Entries(log) \subseteq Entries(log)'
    BY LogStep DEF Entries
  <1>3. CASE UNCHANGED vars \/ Rest
    <2>1. UNCHANGED vars
      BY <1>3 DEF Rest
    <2>2. UNCHANGED <<base, pc, view, plan, stamp, seq, deltas, ops, log, objects>>
      BY <2>1 DEF vars, volatile, store
    <2>3. ASSUME NEW d \in Device PROVE Core(d)' /\ OpsShape(d)'
      <3>1. Core(d) /\ OpsShape(d) /\ Still(d) /\ Known(d)' = Known(d)
        BY <2>2 DEF IInv, Still, Known, Entries
      <3>2. QED
        BY <2>2, <3>1, CoreFrame, OpsFrame
    <2>4. BaselineLogged'
      BY <1>2, <2>2, BaselineFrame DEF IInv
    <2>5. QED
      BY <1>1, <1>2, <2>3, <2>4 DEF IInv
  <1>4. ASSUME NEW d \in Device, PassStep(d) \/ Fault(d) \/ User(d) PROVE IInv'
    <2>1. CASE FlushLog(d)
      <3>1. ASSUME NEW g \in Device PROVE Core(g)' /\ OpsShape(g)'
        BY <2>1, FlushLogInv, FlushLogOther
      <3>2. BaselineLogged'
        BY <1>2, <2>1, BaselineFrame DEF IInv, FlushLog
      <3>3. QED
        BY <1>1, <1>2, <3>1, <3>2 DEF IInv
    <2>2. CASE ~FlushLog(d)
      <3>1. /\ log' = log /\ objects \subseteq objects' /\ BaselineLogged'
            /\ Core(d)' /\ OpsShape(d)'
        <4>1. CASE FlushOp(d)
          BY <4>1, FlushOpInv DEF FlushOp, store
        <4>2. CASE ~FlushOp(d)
          <5>1. Quiet /\ Core(d)' /\ OpsShape(d)'
            BY <1>4, <2>2, <4>2, QuietStep
          <5>2. BaselineLogged'
            BY <1>2, <5>1, BaselineFrame DEF IInv, Quiet, RowsKept
          <5>3. QED
            BY <5>1, <5>2 DEF Quiet
        <4>3. QED
          BY <4>1, <4>2
      <3>2. ASSUME NEW g \in Device, g # d PROVE Core(g)' /\ OpsShape(g)'
        <4>1. Core(g) /\ OpsShape(g) /\ Apart(g)
          BY <1>4, <3>2, OthersApart DEF IInv
        <4>2. Known(g)' = Known(g)
          BY <3>1, <4>1 DEF Known, Entries, Apart, Still
        <4>3. QED
          BY <3>1, <4>1, <4>2, CoreFrame, OpsFrame DEF Apart, Still
      <3>3. QED
        BY <1>1, <1>2, <3>1, <3>2 DEF IInv
    <2>3. QED
      BY <2>1, <2>2
  <1>5. QED
    BY <1>3, <1>4 DEF Next

-----------------------------------------------------------------------------
(* The theorems. *)

(* The invariant holds throughout every behaviour. *)
THEOREM Inductive == Spec => []IInv
  <1>1. Init => IInv
    BY InitInv
  <1>2. IInv /\ [Next]_vars => IInv'
    BY NextInv
  <1>3. QED
    BY <1>1, <1>2, PTL DEF Spec

(* The model never leaves its types. *)
THEOREM TypeCorrect == Spec => []TypeOK
  <1>1. IInv => TypeOK
    BY DEF IInv
  <1>2. QED
    BY <1>1, Inductive, PTL

(* A baseline row never claims a sync the log does not record, whatever
   fails or dies between the transfer, the delta and the row (flush). *)
THEOREM RowsAreLogged == Spec => []BaselineLogged
  <1>1. IInv => BaselineLogged
    BY DEF IInv
  <1>2. QED
    BY <1>1, Inductive, PTL

(* Two entries of a path with one (lamport, device) are one entry, so
   winner_key's order leaves no tie to the hashes, across crashed and
   repeated passes (merge_deltas). *)
THEOREM StampsAreUnique == Spec => []UniqueStamp
  <1>1. ASSUME IInv PROVE UniqueStamp
    <2>1. ASSUME NEW e \in Entries(log), NEW f \in Entries(log),
                 e.path = f.path, e.lamport = f.lamport, e.dev = f.dev
          PROVE  e = f
      <3>1. e.dev \in Device
        BY <1>1, EntriesType DEF IInv, Entry
      <3>2. Distinct(Known(e.dev))
        BY <1>1, <3>1 DEF IInv, Core
      <3>3. QED
        BY <2>1, <3>2 DEF Distinct, Known
    <2>2. QED
      BY <2>1 DEF UniqueStamp
  <1>2. QED
    BY <1>1, Inductive, PTL

(* The mirror's state is well formed and no two log entries of a path have the
   same stamp (Consistent). *)
THEOREM StateIsConsistent == Spec => []Consistent
  <1>1. TypeOK /\ UniqueStamp => Consistent
    BY DEF Consistent
  <1>2. QED
    BY <1>1, TypeCorrect, StampsAreUnique, PTL

(* A version in the log can always be fetched: the object is stored before
   the delta that names it is written (upload, then flush). *)
THEOREM LogIsFetchable == Spec => []LogPointsAtObjects
  <1>1. ASSUME IInv PROVE LogPointsAtObjects
    <2>1. ASSUME NEW e \in Entries(log) PROVE <<e.path, e.hash>> \in objects
      <3>1. e.dev \in Device
        BY <1>1, EntriesType DEF IInv, Entry
      <3>2. Stored(e.dev)
        BY <1>1, <3>1 DEF IInv, Core
      <3>3. QED
        BY <3>2 DEF Stored, Known
    <2>2. QED
      BY <2>1 DEF LogPointsAtObjects
  <1>2. QED
    BY <1>1, Inductive, PTL

(* log_delta never replaces an object: no step takes a delta out of the log. *)
THEOREM LogOnlyGrows == Spec => NothingOverwritten
  <1>1. IInv /\ [Next]_vars => [log \subseteq log']_log
    BY LogStep
  <1>2. QED
    BY <1>1, Inductive, PTL DEF Spec, NothingOverwritten

(* A device whose next pass has nothing to do holds exactly the files of the
   merged log, hence the same files as every other such device (plan_pass). *)
THEOREM RestMeansAgreement == Spec => []RestConverged
  <1>1. ASSUME TypeOK PROVE RestConverged
    <2> DEFINE m == Merged(Entries(log))
    <2>1. m \in SUBSET Entry
      BY <1>1, EntriesType DEF Merged
    <2> HIDE DEF m
    <2>2. ASSUME NEW d \in Device, ~WorkToDo(d), NEW p \in Path
          PROVE  files[d][p] = Remote(m, p)
      <3> DEFINE kind(q) == reconcile(files[d][q], base[d][q], Remote(m, q))
      <3>1. PlanFor(files[d], base[d], m, {}) = {}
        BY <2>2 DEF WorkToDo, m
      <3>2. kind(p) = "None"
        BY <3>1 DEF PlanFor
      <3>3. files[d][p] \in Hash /\ base[d][p] \in Hash
        BY <1>1 DEF TypeOK
      <3>4. files[d][p] \in Nat /\ base[d][p] \in Nat /\ Remote(m, p) \in Nat
        BY <2>1, <3>3, Numbers, RemoteType
      <3>5. QED
        BY <3>2, <3>4, NoActionAgrees
    <2>3. QED
      BY <2>2 DEF RestConverged, m
  <1>2. QED
    BY <1>1, TypeCorrect, PTL

-----------------------------------------------------------------------------
(***************************************************************************)
(* No edit is lost: the inductive invariant about contents and the         *)
(* theorems it carries, for any number of devices, edits and faults.       *)
(*                                                                         *)
(* NoLostEdit is far from inductive.  A download overwrites a file whose   *)
(* version other devices wrote, so it is safe only because the author of   *)
(* a version keeps it, as the file or as a conflicted copy, until its user *)
(* writes over it (AuthorHolds).  The author in turn overwrites its own    *)
(* version only once it is merged below a version written over it, for     *)
(* otherwise the log's conflicts make it a loser, which is renamed aside   *)
(* first (Preserving, by the immediate successor in the merge order).      *)
(* That needs entries that replace nothing live (Replaced), one entry per  *)
(* content (OneEntry), and rows that trail their files only where nothing  *)
(* rests on them (RowsBehind), crashes between any two writes included.    *)
(***************************************************************************)

(* The entries that are logged, or wait in some batch to be. *)
Every == Entries(log) \cup UNION {deltas[d] : d \in Device}

Logged(p, c) == \E e \in Entries(log) : e.path = p /\ e.hash = c

(* The log holds an entry of p that beats the version y. *)
Superseded(p, y) ==
    \E e, w \in Entries(log) : e.path = p /\ w.path = p /\ e.hash = y /\ Beats(w, e)

(* Contents are numbered in the order users write them. *)
Old ==
    /\ \A d \in Device, p \in Path : files[d][p] <= edits
    /\ \A e \in Every : e.hash <= edits
    /\ \A c \in live : c <= edits

(* Two devices hold one content only if it went through the log. *)
OneOwner ==
    \A d, g \in Device, p \in Path :
        d # g /\ files[d][p] # None /\ files[d][p] = files[g][p] => Logged(p, files[d][p])

OneEntry == \A e, f \in Every : e.path = f.path /\ e.hash = f.hash => e = f

NoTombstone == \A e \in Every : ~e.deleted

(* A copy's name has one content, and its author keeps it. *)
CopyKept ==
    /\ \A d, g \in Device, q \in Copy :
          files[d][q] # None /\ files[g][q] # None => files[d][q] = files[g][q]
    /\ \A e \in Every : e.path \in Copy => files[e.dev][e.path] = e.hash

Holds(d, p, c) == files[d][p] = c \/ \E q \in Copy : files[d][q] = c

(* The device that wrote a live version still holds it, or a copy of it. *)
AuthorHolds == \A e \in Entries(log) : e.hash \in live => Holds(e.dev, e.path, e.hash)

BatchInPlace(d) == \A e \in deltas[d] : files[d][e.path] = e.hash

(* An entry replaces only what its author gave up, and beats it. *)
Replaced ==
    \A e \in Every :
        /\ e.base \notin live
        /\ e.base # None => \E f \in Entries(log) : f.path = e.path /\ f.hash = e.base /\ Beats(e, f)

(* Where a file differs from its row, the row's version was replaced here or
   has lost: so nothing rests on it. *)
RowsBehind(d) ==
    \A p \in Path : base[d][p] # None /\ files[d][p] # base[d][p] =>
        /\ files[d][p] = None => Superseded(p, base[d][p])
        /\ base[d][p] \notin live \/ Superseded(p, base[d][p])
        /\ \A e \in Known(d), f \in Entries(log) :
              e.path = p /\ f.path = p /\ e.hash = files[d][p] /\ f.hash = base[d][p] => Beats(e, f)

(* A queued row update says what the file holds, and the plan is done with it. *)
OpsInPlace(d) ==
    \A i \in 1..Len(ops[d]) :
        /\ ops[d][i].op = "Confirm"
        /\ files[d][ops[d][i].path] = ops[d][i].hash
        /\ \A a \in plan[d] : a.path # ops[d][i].path

(* The pass read e: its manifest holds e or a version that beats it. *)
Seen(d, e) ==
    /\ e.lamport < stamp[d]
    /\ \E w \in view[d] : w.path = e.path /\ (w = e \/ Beats(w, e))

(* Until its scan, a pass has read all the log says about its own files and
   rows, and whatever it wrote and lost is among its losers, or was given up. *)
Preserving(d) ==
    pc[d] = "preserve" =>
        /\ \A e \in Entries(log) : e.hash \in {files[d][e.path], base[d][e.path]} => Seen(d, e)
        /\ \A e \in Entries(log) :
              e.hash = files[d][e.path] /\ e.dev = d /\ e \notin view[d]
                  => e \in losers[d] \/ e.hash \notin live
        /\ \A w \in view[d] :
              w.hash = base[d][w.path] /\ files[d][w.path] # w.hash
                  => files[d][w.path] # None /\ w.hash \notin live
        /\ \A e \in losers[d] :
              e \in Entries(log) /\ \E w \in view[d] : w.path = e.path /\ Beats(w, e)

(* What a planned action presupposes, until it is executed: an upload is of
   content nobody logged, over a version its author gave up ... *)
UploadOk(d, p) ==
    /\ ~Logged(p, files[d][p])
    /\ base[d][p] \notin live
    /\ base[d][p] = None => EntriesAt(view[d], p) = {}
    /\ base[d][p] # None =>
          \E w \in view[d] \cap Entries(log) :
              w.path = p /\ w.hash = base[d][p] /\ w.lamport < stamp[d]

(* ... a download is over content that is not this device's to keep ... *)
DownloadOk(d, p) ==
    /\ files[d][p] = base[d][p]
    /\ \A e \in Entries(log) : e.path = p /\ e.hash = files[d][p] /\ e.dev = d => e.hash \notin live
    /\ \E w \in view[d] \cap Entries(log) :
          /\ w.path = p /\ w.hash # files[d][p]
          /\ \A f \in Entries(log) : f.path = p /\ f.hash = base[d][p] => Beats(w, f)

(* ... and a conflict is about a version that lost. *)
ConflictOk(d, p) ==
    /\ p \notin Copy
    /\ base[d][p] # None => Superseded(p, base[d][p])
    /\ files[d][p] # Remote(view[d], p)

PlanOk(d) ==
    \A a \in plan[d] :
        \/ a.kind = "Upload" /\ UploadOk(d, a.path)
        \/ a.kind = "Download" /\ DownloadOk(d, a.path)
        \/ a.kind = "Conflict" /\ ConflictOk(d, a.path)

DevicesBounded == \E n \in Nat : \A e \in Entries(log) : e.dev <= n

(* The invariant: what all devices share, and what each keeps. *)
Shared ==
    /\ Old /\ OneOwner /\ OneEntry /\ NoTombstone /\ CopyKept /\ AuthorHolds /\ Replaced
    /\ NoLostEdit /\ DevicesBounded

Local(d) == BatchInPlace(d) /\ RowsBehind(d) /\ OpsInPlace(d) /\ Preserving(d) /\ PlanOk(d)

EditInv == Shared /\ \A d \in Device : Local(d)

(* The user waits for a running pass, deletes nothing and never writes the
   same content twice, and files hold still while they are hashed. *)
Calm == FreshContent /\ ~Deletes /\ ~EditsDuringPass /\ ~UnstableFiles

-----------------------------------------------------------------------------
(* What the types give. *)

LEMMA EntryParts ==
    ASSUME NEW e \in Entry
    PROVE  /\ e.path \in Path /\ e.dev \in Device /\ e.lamport \in Nat /\ e.dev \in Nat
           /\ e.hash \in Content /\ e.hash \in Nat /\ e.hash # None
           /\ e.base \in Content \cup {None}
  BY Numbers DEF Entry

LEMMA EveryType ==
    ASSUME TypeOK
    PROVE  /\ Every \subseteq Entry
           /\ Entries(log) \subseteq Every
           /\ \A d \in Device : deltas[d] \subseteq Every /\ Known(d) \subseteq Every
           /\ \A d \in Device : Known(d) \subseteq Entry /\ Entries(log) \subseteq Known(d)
  BY EntriesType DEF Every, Known, TypeOK

LEMMA EveryMember ==
    ASSUME NEW e \in Every
    PROVE  e \in Entries(log) \/ \E d \in Device : e \in deltas[d]
  BY DEF Every

(* A row is backed by an entry of the log. *)
LEMMA RowLogged ==
    ASSUME IInv, NEW d \in Device, NEW p \in Path, base[d][p] # None
    PROVE  \E e \in Entries(log) : e.path = p /\ e.hash = base[d][p]
  BY DEF IInv, BaselineLogged

(* What a row says is not newer than the edits. *)
LEMMA RowOld ==
    ASSUME IInv, Old, NEW d \in Device, NEW p \in Path
    PROVE  base[d][p] \in Nat /\ base[d][p] <= edits
  <1>1. TypeOK /\ edits \in Nat /\ base[d][p] \in Hash
    BY DEF IInv, TypeOK
  <1>2. CASE base[d][p] = None
    BY <1>1, <1>2 DEF None
  <1>3. CASE base[d][p] # None
    <2>1. PICK e \in Entries(log) : e.hash = base[d][p]
      BY <1>3, RowLogged
    <2>2. e \in Every
      BY <1>1, EveryType
    <2>3. e.hash <= edits
      BY <2>2 DEF Old
    <2>4. base[d][p] \in Nat
      BY <1>1, Numbers
    <2> QED
      BY <2>1, <2>3, <2>4
  <1>4. QED
    BY <1>2, <1>3

(* The manifest of a pass has at most one entry of a path, and Remote is its hash. *)
LEMMA RemoteIs ==
    ASSUME NEW m, Functional(m), NEW w \in m, ~w.deleted
    PROVE  Remote(m, w.path) = w.hash /\ KnownHash(m, w.path) = w.hash /\ EntryAt(m, w.path) = w
  <1>1. EntryAt(m, w.path) = w
    BY DEF EntryAt, Functional
  <1>2. EntriesAt(m, w.path) # {}
    BY DEF EntriesAt
  <1>3. QED
    BY <1>1, <1>2 DEF Remote, KnownHash

LEMMA RemoteNone ==
    ASSUME NEW m, NEW p, \A w \in m : w.path # p
    PROVE  Remote(m, p) = None /\ KnownHash(m, p) = None
  BY DEF Remote, KnownHash, EntriesAt, NoHash, None

LEMMA RemoteCases ==
    ASSUME NEW m, Functional(m), \A w \in m : ~w.deleted, NEW p
    PROVE  \/ Remote(m, p) = None /\ \A w \in m : w.path # p
           \/ \E w \in m : w.path = p /\ Remote(m, p) = w.hash
  BY RemoteIs, RemoteNone

(* The entries of a pass's manifest are in the log or in its batch. *)
LEMMA ViewIs ==
    ASSUME IInv, NEW d \in Device
    PROVE  view[d] \subseteq Known(d) /\ view[d] \subseteq Every /\ view[d] \subseteq Entry
           /\ Functional(view[d])
  BY EveryType DEF IInv, Core, ViewShape

-----------------------------------------------------------------------------
(* What leaves the invariant alone. *)

LEMMA SharedFrame ==
    ASSUME TypeOK, Shared, files' = files, live' = live, edits' = edits, log' = log,
           \A g \in Device : deltas'[g] \subseteq deltas[g]
    PROVE  Shared'
  <1>1. Entries(log)' = Entries(log)
    BY DEF Entries
  <1>2. Every' \subseteq Every
    BY <1>1 DEF Every
  <1>3. Old'
    BY <1>2 DEF Shared, Old
  <1>4. OneOwner'
    BY <1>1 DEF Shared, OneOwner, Logged
  <1>5. OneEntry' /\ NoTombstone'
    BY <1>2 DEF Shared, OneEntry, NoTombstone
  <1>6. CopyKept'
    BY <1>2 DEF Shared, CopyKept
  <1>7. AuthorHolds'
    BY <1>1 DEF Shared, AuthorHolds, Holds
  <1>8. Replaced'
    BY <1>1, <1>2 DEF Shared, Replaced
  <1>9. NoLostEdit' /\ DevicesBounded'
    BY <1>1 DEF Shared, NoLostEdit, DevicesBounded
  <1>10. QED
    BY <1>3, <1>4, <1>5, <1>6, <1>7, <1>8, <1>9 DEF Shared

(* ... and one device's part of it. *)
LEMMA LocalFrame ==
    ASSUME TypeOK, NEW g \in Device, Local(g), files'[g] = files[g], base'[g] = base[g],
           live' = live, log' = log, deltas'[g] \subseteq deltas[g], plan'[g] \subseteq plan[g],
           ops'[g] = ops[g] \/ ops'[g] = <<>>,
           plan'[g] = {} \/ (view'[g] = view[g] /\ stamp'[g] = stamp[g]),
           \/ pc'[g] # "preserve"
           \/ /\ pc'[g] = pc[g] /\ view'[g] = view[g] /\ stamp'[g] = stamp[g]
              /\ losers'[g] = losers[g]
    PROVE  Local(g)'
  <1>1. Entries(log)' = Entries(log) /\ Known(g)' \subseteq Known(g)
    BY DEF Entries, Known
  <1>2. BatchInPlace(g)'
    BY DEF Local, BatchInPlace
  <1>3. \A p, y : Superseded(p, y)' = Superseded(p, y)
    BY <1>1 DEF Superseded
  <1>4. RowsBehind(g)'
    BY <1>1, <1>3 DEF Local, RowsBehind
  <1>5. OpsInPlace(g)'
    <2>1. CASE ops'[g] = <<>>
      BY <2>1 DEF OpsInPlace
    <2>2. CASE ops'[g] = ops[g]
      BY <2>2 DEF Local, OpsInPlace
    <2>3. QED
      BY <2>1, <2>2
  <1>6. Preserving(g)'
    BY <1>1 DEF Local, Preserving, Seen
  <1>7. PlanOk(g)'
    <2>1. CASE plan'[g] = {}
      BY <2>1 DEF PlanOk
    <2>2. CASE view'[g] = view[g] /\ stamp'[g] = stamp[g]
      <3>1. ASSUME NEW p
            PROVE  /\ UploadOk(g, p) => UploadOk(g, p)'
                   /\ DownloadOk(g, p) => DownloadOk(g, p)'
                   /\ ConflictOk(g, p) => ConflictOk(g, p)'
        <4>1. Logged(p, files[g][p])' = Logged(p, files[g][p])
          BY <1>1 DEF Logged
        <4>2. QED
          BY <1>1, <1>3, <2>2, <4>1 DEF UploadOk, DownloadOk, ConflictOk
      <3>2. QED
        BY <3>1 DEF Local, PlanOk
    <2>3. QED
      BY <2>1, <2>2
  <1>8. QED
    BY <1>2, <1>4, <1>5, <1>6, <1>7 DEF Local

(* A step of d touches no other device's folder, rows or losers. *)
LEMMA OthersStay ==
    ASSUME TypeOK, NEW d \in Device, PassStep(d) \/ Fault(d) \/ User(d),
           NEW g \in Device, g # d
    PROVE  files'[g] = files[g] /\ base'[g] = base[g] /\ losers'[g] = losers[g]
  <1> DEFINE Stays == files'[g] = files[g] /\ base'[g] = base[g] /\ losers'[g] = losers[g]
  <1> USE DEF TypeOK, folder, volatile, RenamedAside
  <1>1. CASE User(d)
    BY <1>1 DEF User, UserWrite, UserDelete
  <1>2. CASE Fault(d)
    <2>1. ASSUME NEW p \in Path, NEW kind, TransferFails(d, p, kind) PROVE Stays
      BY <2>1 DEF TransferFails
    <2>2. CASE Abort(d)
      BY <2>2 DEF Abort, Forget
    <2>3. ASSUME NEW p \in Path, AbortInRename(d, p) PROVE Stays
      BY <2>3 DEF AbortInRename, Forget
    <2>4. QED
      BY <1>2, <2>1, <2>2, <2>3 DEF Fault
  <1>3. CASE PassStep(d)
    <2>1. CASE ReadLog(d)
      BY <2>1 DEF ReadLog
    <2>2. ASSUME NEW e, Preserve(d, e) PROVE Stays
      BY <2>2 DEF Preserve
    <2>3. CASE Scan(d)
      BY <2>3 DEF Scan
    <2>4. ASSUME NEW p \in Path, Upload(d, p) PROVE Stays
      BY <2>4 DEF Upload
    <2>5. ASSUME NEW p \in Path, UploadVanished(d, p) PROVE Stays
      BY <2>5 DEF UploadVanished
    <2>6. ASSUME NEW p \in Path, Download(d, p) PROVE Stays
      BY <2>6 DEF Download
    <2>7. ASSUME NEW p \in Path, DeleteLocal(d, p) PROVE Stays
      BY <2>7 DEF DeleteLocal
    <2>8. ASSUME NEW p \in Path, DeleteRemote(d, p) PROVE Stays
      BY <2>8 DEF DeleteRemote
    <2>9. ASSUME NEW p \in Path, Conflict(d, p) PROVE Stays
      BY <2>9 DEF Conflict
    <2>10. CASE FlushLog(d)
      BY <2>10 DEF FlushLog
    <2>11. CASE FlushOp(d)
      BY <2>11 DEF FlushOp
    <2>12. CASE FlushDone(d)
      BY <2>12 DEF FlushDone
    <2>13. CASE Finish(d)
      BY <2>13 DEF Finish, Forget
    <2>14. QED
      BY <1>3, <2>1, <2>2, <2>3, <2>4, <2>5, <2>6, <2>7, <2>8, <2>9, <2>10, <2>11,
         <2>12, <2>13 DEF PassStep
  <1>4. QED
    BY <1>1, <1>2, <1>3
-----------------------------------------------------------------------------
(* Steps that move no file. *)

(* A pass reads the log: what its view shows, and what its losers are. *)
LEMMA ReadLogEdits ==
    ASSUME IInv, EditInv, NEW d \in Device, ReadLog(d)
    PROVE  Shared' /\ Local(d)'
  <1> DEFINE es == Entries(log)
  <1>1. /\ TypeOK /\ Shared /\ Local(d) /\ LogBounded /\ Distinct(Known(d)) /\ PassShape(d)
        /\ OpsShape(d)
    BY DEF IInv, EditInv, Core
  <1>2. /\ pc[d] = "idle" /\ pc'[d] = "preserve" /\ view'[d] = Merged(es)
        /\ losers'[d] = OwnLosers(d, es) /\ stamp'[d] = NextLamport(d, es)
        /\ plan' = plan /\ deltas' = deltas /\ ops' = ops
        /\ log' = log /\ files' = files /\ base' = base /\ live' = live /\ edits' = edits
    BY <1>1 DEF ReadLog, TypeOK, store, folder
  <1>3. plan[d] = {} /\ ops[d] = <<>>
    BY <1>1, <1>2 DEF PassShape, OpsShape
  <1>4. Shared'
    BY <1>1, <1>2, SharedFrame
  <1>5. es \subseteq Entry /\ es' = es /\ es \subseteq Every /\ Known(d)' = Known(d) /\ es \subseteq Known(d)
    BY <1>1, <1>2, EveryType DEF Entries, Known
  <1>6. BatchInPlace(d)' /\ OpsInPlace(d)' /\ PlanOk(d)'
    BY <1>1, <1>2, <1>3 DEF Local, BatchInPlace, OpsInPlace, PlanOk
  <1>7. RowsBehind(d)'
    BY <1>1, <1>2, <1>5 DEF Local, RowsBehind, Superseded
  <1> HIDE DEF es
  <1>8. \A e, f \in es : e.path = f.path /\ e.lamport = f.lamport /\ e.dev = f.dev => e = f
    BY <1>1, <1>5 DEF Distinct
  <1>9. ASSUME NEW e \in es
        PROVE  \E w \in Merged(es) : w.path = e.path /\ (w = e \/ Beats(w, e))
    <2>1. PICK n \in Nat : \A x \in es : x.lamport <= n
      BY <1>1 DEF LogBounded, es
    <2>2. PICK k \in Nat : \A x \in es : x.dev <= k
      BY <1>1 DEF Shared, DevicesBounded, es
    <2>3. QED
      BY <1>5, <1>8, <2>1, <2>2, MergedDominates
  <1>10. ASSUME NEW e \in es PROVE Seen(d, e)'
    <2>1. e.lamport < stamp'[d]
      BY <1>1, <1>2, NextLamportAbove DEF es
    <2>2. QED
      BY <1>2, <1>9, <2>1 DEF Seen
  <1>11. ASSUME NEW e \in es, e.dev = d, e \notin view'[d]
         PROVE  e \in losers'[d] \/ e.hash \notin live
    <2>1. PICK f \in es : /\ f.path = e.path /\ Beats(f, e)
                          /\ \A h \in EntriesAt(es, e.path) : ~(Beats(f, h) /\ Beats(h, e))
      BY <1>2, <1>5, <1>8, <1>11, Successor
    <2>2. CASE Forked(f, e)
      <3> DEFINE k == [winner |-> f, loser |-> e]
      <3>1. k \in LogConflicts(es)
        BY <2>1, <2>2 DEF LogConflicts
      <3>2. k.loser = e
        OBVIOUS
      <3> HIDE DEF k
      <3>3. e \in OwnLosers(d, es)
        BY <1>11, <3>1, <3>2 DEF OwnLosers
      <3>4. QED
        BY <1>2, <3>3
    <2>3. CASE f.hash = e.hash
      <3>1. f = e
        BY <1>1, <1>5, <2>1, <2>3 DEF Shared, OneEntry
      <3>2. QED
        BY <1>5, <2>1, <3>1, BeatsIrreflexive
    <2>4. CASE f.base = e.hash
      BY <1>1, <1>5, <2>4 DEF Shared, Replaced
    <2>5. CASE e.base = f.hash
      <3>1. e.base # None /\ e \in Every
        BY <1>5, <2>5, EntryParts
      <3>2. PICK f2 \in es : f2.path = e.path /\ f2.hash = e.base /\ Beats(e, f2)
        BY <1>1, <3>1 DEF Shared, Replaced, es
      <3>3. f2 = f
        BY <1>1, <1>5, <2>1, <2>5, <3>2 DEF Shared, OneEntry
      <3>4. QED
        BY <1>5, <2>1, <3>2, <3>3, BeatsAsymmetric
    <2>6. QED
      BY <2>2, <2>3, <2>4, <2>5 DEF Forked
  <1>12. ASSUME NEW w \in view'[d], w.hash = base[d][w.path], files[d][w.path] # w.hash
         PROVE  files[d][w.path] # None /\ w.hash \notin live
    <2>1. w \in es /\ \A f \in es : f.path = w.path => ~Beats(f, w)
      BY <1>2, <1>12 DEF Merged
    <2>2. w.path \in Path /\ w.hash # None /\ w \in Every
      BY <1>5, <2>1, EntryParts
    <2>3. ~Superseded(w.path, base[d][w.path])
      <3>1. SUFFICES ASSUME NEW e \in es, NEW f \in es, e.path = w.path, f.path = w.path,
                            e.hash = w.hash, Beats(f, e)
                     PROVE  FALSE
        BY <1>12 DEF Superseded, es
      <3>2. e = w
        BY <1>1, <1>5, <2>2, <3>1 DEF Shared, OneEntry
      <3>3. QED
        BY <2>1, <3>1, <3>2
    <2>4. QED
      BY <1>1, <1>12, <2>2, <2>3 DEF Local, RowsBehind
  <1>13. ASSUME NEW e \in losers'[d]
         PROVE  e \in es /\ \E w \in view'[d] : w.path = e.path /\ Beats(w, e)
    <2>1. PICK k \in LogConflicts(es) : e = k.loser
      BY <1>2, <1>13 DEF OwnLosers
    <2>2. e \in es /\ k.winner \in es /\ k.winner.path = e.path /\ Beats(k.winner, e)
      BY <2>1 DEF LogConflicts
    <2>3. e \notin Merged(es)
      BY <2>2 DEF Merged
    <2>4. QED
      BY <1>2, <1>9, <2>2, <2>3
  <1>14. Preserving(d)'
    BY <1>2, <1>5, <1>10, <1>11, <1>12, <1>13 DEF Preserving, es
  <1>15. QED
    BY <1>4, <1>6, <1>7, <1>14 DEF Local

(* The plan a scan makes: an upload is of content nobody logged, over a version
   its author replaced; a download is over content that others hold; a conflict
   is over a version that has lost. *)
LEMMA ScanEdits ==
    ASSUME Calm, IInv, EditInv, NEW d \in Device, Scan(d)
    PROVE  Shared' /\ Local(d)'
  <1> DEFINE es == Entries(log)
  <1>1. TypeOK /\ Shared /\ Local(d) /\ PassShape(d) /\ OpsShape(d)
    BY DEF IInv, EditInv, Core
  <1>2. /\ pc[d] = "preserve" /\ pc'[d] = "apply" /\ losers[d] = {}
        /\ view' = view /\ stamp' = stamp /\ deltas' = deltas /\ ops' = ops
        /\ log' = log /\ files' = files /\ base' = base /\ live' = live /\ edits' = edits
        /\ plan'[d] = PlanFor(files[d], base[d], view[d], {})
    BY <1>1 DEF Scan, TypeOK, store, folder, Calm
  <1>3. deltas[d] = {} /\ ops[d] = <<>>
    BY <1>1, <1>2 DEF PassShape, OpsShape
  <1>4. Shared'
    BY <1>1, <1>2, SharedFrame
  <1>5. es \subseteq Entry /\ es' = es /\ es \subseteq Every /\ Known(d)' = Known(d) /\ Known(d) = es
    BY <1>1, <1>2, <1>3, EveryType DEF Entries, Known
  <1>6. BatchInPlace(d)' /\ OpsInPlace(d)' /\ Preserving(d)'
    BY <1>1, <1>2, <1>3 DEF Local, BatchInPlace, OpsInPlace, Preserving
  <1>7. RowsBehind(d)'
    BY <1>1, <1>2, <1>5 DEF Local, RowsBehind, Superseded
  <1>8. /\ view[d] \subseteq es /\ Functional(view[d]) /\ view[d] \subseteq Entry
        /\ \A w \in view[d] : ~w.deleted
    BY <1>1, <1>5, ViewIs DEF Shared, NoTombstone
  <1> HIDE DEF es
  <1>9. /\ \A e \in es : e.hash \in {files[d][e.path], base[d][e.path]} => Seen(d, e)
        /\ \A e \in es : e.hash = files[d][e.path] /\ e.dev = d /\ e \notin view[d] => e.hash \notin live
        /\ \A w \in view[d] : w.hash = base[d][w.path] /\ files[d][w.path] # w.hash
                                 => files[d][w.path] # None /\ w.hash \notin live
    BY <1>1, <1>2 DEF Local, Preserving, es
  <1>10. ASSUME NEW p \in Path
         PROVE  LET kind == reconcile(files[d][p], base[d][p], Remote(view[d], p)) IN
                kind = "None" \/ (kind = "Upload" /\ UploadOk(d, p))
                  \/ (kind = "Download" /\ DownloadOk(d, p)) \/ (kind = "Conflict" /\ ConflictOk(d, p))
    <2> DEFINE here == files[d][p]
               row == base[d][p]
               there == Remote(view[d], p)
               kind == reconcile(here, row, there)
    <2>1. here \in Nat /\ row \in Nat /\ there \in Nat
      <3>1. here \in Hash /\ row \in Hash
        BY <1>1 DEF TypeOK
      <3>2. QED
        BY <1>8, <3>1, Numbers, RemoteType
    <2>2. kind \in {"None", "Download", "Upload", "DeleteLocal", "DeleteRemote", "Conflict"}
      BY <2>1, DestroysOnlyAgreed
    <2>3. /\ kind = "Download" => here = row /\ there # row /\ there # None
          /\ kind = "DeleteLocal" => here = row /\ there # row /\ there = None
          /\ kind = "Upload" => here # row /\ here # None /\ there = row
          /\ kind = "DeleteRemote" => here # row /\ here = None /\ there = row
          /\ kind = "Conflict" => here # row /\ there # row /\ here # there
      BY <2>1, Presupposed DEF NoHash, None
    <2>4. \/ there = None /\ \A w \in view[d] : w.path # p
          \/ \E w \in view[d] : w.path = p /\ there = w.hash
      BY <1>8, RemoteCases
    <2>5. ASSUME row # None
          PROVE  \E e \in es, w \in view[d] :
                    /\ e.path = p /\ e.hash = row /\ Seen(d, e) /\ w.path = p
                    /\ there = w.hash /\ (w = e \/ Beats(w, e))
      <3>1. PICK e \in es : e.path = p /\ e.hash = row
        BY <2>5, RowLogged DEF es
      <3>2. Seen(d, e)
        BY <1>9, <3>1
      <3>3. PICK w \in view[d] : w.path = p /\ (w = e \/ Beats(w, e))
        BY <3>1, <3>2 DEF Seen
      <3>4. there = w.hash
        BY <1>8, <3>3, RemoteIs
      <3>5. QED
        BY <3>1, <3>2, <3>3, <3>4
    <2>6. \A w \in view[d] : w \in es /\ w \in Every /\ w \in Entry /\ w.hash # None
      BY <1>5, <1>8, EntryParts
    <2>7. CASE kind = "DeleteLocal"
      <3>1. row # None
        BY <2>3, <2>7
      <3>2. QED
        BY <2>3, <2>5, <2>6, <2>7, <3>1
    <2>8. CASE kind = "DeleteRemote"
      <3>1. PICK w \in view[d] : w.path = p /\ w.hash = row
        BY <2>3, <2>4, <2>8
      <3>2. QED
        BY <1>9, <2>3, <2>8, <3>1
    <2>9. CASE kind = "Upload"
      <3>1. ~Logged(p, here)
        <4>1. SUFFICES ASSUME NEW e \in es, e.path = p, e.hash = here PROVE FALSE
          BY DEF Logged, es
        <4>2. PICK w \in view[d] : w.path = p /\ (w = e \/ Beats(w, e))
          BY <1>9, <4>1 DEF Seen
        <4>3. w.hash = row
          BY <1>8, <2>3, <2>9, <4>2, RemoteIs
        <4>4. Beats(w, e)
          BY <2>3, <2>9, <4>1, <4>2, <4>3
        <4>5. row # None
          BY <2>6, <4>3
        <4>6. Beats(e, w)
          BY <1>1, <1>5, <2>3, <2>6, <2>9, <4>1, <4>2, <4>3, <4>5 DEF Local, RowsBehind, es
        <4>7. QED
          BY <1>5, <2>6, <4>4, <4>6, BeatsAsymmetric
      <3>2. row \notin live
        <4>1. CASE row = None
          BY <1>1, <4>1, Numbers DEF TypeOK
        <4>2. CASE row # None
          <5>1. PICK w \in view[d] : w.path = p /\ w.hash = row
            BY <2>3, <2>5, <2>9, <4>2
          <5>2. QED
            BY <1>9, <2>3, <2>9, <5>1
        <4>3. QED
          BY <4>1, <4>2
      <3>3. row = None => EntriesAt(view[d], p) = {}
        BY <2>3, <2>4, <2>6, <2>9 DEF EntriesAt
      <3>4. ASSUME row # None
            PROVE  \E w \in view[d] \cap es : w.path = p /\ w.hash = row /\ w.lamport < stamp[d]
        <4>1. PICK w \in view[d] : w.path = p /\ w.hash = row
          BY <2>3, <2>5, <2>9, <3>4
        <4>2. Seen(d, w)
          BY <1>9, <2>6, <4>1
        <4>3. QED
          BY <2>6, <4>1, <4>2 DEF Seen
      <3>5. UploadOk(d, p)
        BY <3>1, <3>2, <3>3, <3>4 DEF UploadOk, es
      <3>6. QED
        BY <2>9, <3>5
    <2>10. CASE kind = "Download"
      <3>1. PICK w \in view[d] : w.path = p /\ w.hash = there
        BY <2>3, <2>4, <2>10
      <3>2. ASSUME NEW e \in es, e.path = p, e.hash = here, e.dev = d PROVE e.hash \notin live
        <4>1. e \notin view[d]
          <5>1. SUFFICES ASSUME e \in view[d] PROVE FALSE
            OBVIOUS
          <5>2. there = e.hash
            BY <1>8, <3>2, <5>1, RemoteIs
          <5>3. QED
            BY <2>3, <2>10, <3>2, <5>2
        <4>2. QED
          BY <1>9, <3>2, <4>1
      <3>3. ASSUME NEW f \in es, f.path = p, f.hash = row PROVE Beats(w, f)
        <4>1. PICK w2 \in view[d] : w2.path = p /\ (w2 = f \/ Beats(w2, f))
          BY <1>9, <3>3 DEF Seen
        <4>2. w2 = w
          BY <1>8, <3>1, <4>1 DEF Functional
        <4>3. QED
          BY <2>3, <2>10, <3>1, <3>3, <4>1, <4>2
      <3>4. DownloadOk(d, p)
        BY <2>3, <2>6, <2>10, <3>1, <3>2, <3>3 DEF DownloadOk, es
      <3>5. QED
        BY <2>10, <3>4
    <2>11. CASE kind = "Conflict"
      <3>1. row # None => Superseded(p, row)
        BY <1>5, <2>3, <2>5, <2>6, <2>11 DEF Superseded, es
      <3>2. p \notin Copy
        <4>1. SUFFICES ASSUME p \in Copy PROVE FALSE
          OBVIOUS
        <4>2. ASSUME NEW e \in es, NEW f \in es, e.path = p, f.path = p PROVE e = f
          <5>1. files[e.dev][p] = e.hash /\ files[f.dev][p] = f.hash
            BY <1>1, <1>5, <4>1, <4>2 DEF Shared, CopyKept
          <5>2. e.hash # None /\ f.hash # None /\ e.dev \in Device /\ f.dev \in Device
            BY <1>5, EntryParts
          <5>3. e.hash = f.hash
            BY <1>1, <4>1, <5>1, <5>2 DEF Shared, CopyKept
          <5>4. QED
            BY <1>1, <1>5, <4>2, <5>3 DEF Shared, OneEntry
        <4>3. row = None
          <5>1. SUFFICES ASSUME Superseded(p, row) PROVE FALSE
            BY <3>1
          <5>2. PICK e \in es, w \in es : e.path = p /\ w.path = p /\ Beats(w, e)
            BY <5>1 DEF Superseded, es
          <5>3. QED
            BY <1>5, <4>2, <5>2, BeatsIrreflexive
        <4>4. PICK w \in view[d] : w.path = p /\ there = w.hash
          BY <2>3, <2>4, <2>11, <4>3
        <4>5. files[w.dev][p] = w.hash /\ w.dev \in Device
          BY <1>1, <2>6, <4>1, <4>4, EntryParts DEF Shared, CopyKept
        <4>6. here = w.hash
          BY <1>1, <2>3, <2>6, <2>11, <4>1, <4>3, <4>5 DEF Shared, CopyKept
        <4>7. QED
          BY <2>3, <2>11, <4>4, <4>6
      <3>3. ConflictOk(d, p)
        BY <2>3, <2>11, <3>1, <3>2 DEF ConflictOk
      <3>4. QED
        BY <2>11, <3>3
    <2>12. QED
      BY <2>2, <2>7, <2>8, <2>9, <2>10, <2>11
  <1>11. ASSUME NEW a \in plan'[d]
         PROVE  \/ a.kind = "Upload" /\ UploadOk(d, a.path)
                \/ a.kind = "Download" /\ DownloadOk(d, a.path)
                \/ a.kind = "Conflict" /\ ConflictOk(d, a.path)
    <2>1. PICK p \in Path : /\ a.path = p /\ a.kind # "None"
                            /\ a.kind = reconcile(files[d][p], base[d][p], Remote(view[d], p))
      BY <1>2, <1>11 DEF PlanFor
    <2>2. QED
      BY <1>10, <2>1
  <1>12. PlanOk(d)'
    <2>1. ASSUME NEW p
          PROVE  /\ UploadOk(d, p) => UploadOk(d, p)'
                 /\ DownloadOk(d, p) => DownloadOk(d, p)'
                 /\ ConflictOk(d, p) => ConflictOk(d, p)'
      BY <1>2, <1>5 DEF UploadOk, DownloadOk, ConflictOk, Logged, Superseded, es
    <2>2. QED
      BY <1>11, <2>1 DEF PlanOk
  <1>13. QED
    BY <1>4, <1>6, <1>7, <1>12 DEF Local
-----------------------------------------------------------------------------
(* Transfers. *)

(* The plan's action for a path is the only one, and is as the scan left it. *)
LEMMA ExecutingOk ==
    ASSUME IInv, EditInv, NEW d \in Device, NEW p, NEW kind, Executing(d, p, kind)
    PROVE  /\ kind = "Upload" => UploadOk(d, p)
           /\ kind = "Download" => DownloadOk(d, p)
           /\ kind = "Conflict" => ConflictOk(d, p)
           /\ kind \in {"Upload", "Download", "Conflict"}
           /\ pc[d] = "apply" /\ p \in Path /\ plan'[d] \subseteq plan[d]
           /\ \A a \in plan'[d] : a.path # p
           /\ \A e \in deltas[d] : e.path # p
           /\ \A i \in 1..Len(ops[d]) : ops[d][i].path # p
  <1> DEFINE act == [path |-> p, kind |-> kind]
  <1>1. TypeOK /\ Core(d) /\ Local(d)
    BY DEF IInv, EditInv
  <1>2. act \in plan[d] /\ plan'[d] = plan[d] \ {act} /\ pc[d] = "apply"
    BY <1>1 DEF Executing, TypeOK
  <1>3. p \in Path
    BY <1>1, <1>2 DEF TypeOK, Action
  <1>4. \/ kind = "Upload" /\ UploadOk(d, p)
        \/ kind = "Download" /\ DownloadOk(d, p)
        \/ kind = "Conflict" /\ ConflictOk(d, p)
    BY <1>1, <1>2 DEF Local, PlanOk
  <1>5. \A a \in plan'[d] : a.path # p
    BY <1>1, <1>2 DEF Core, PlanShape
  <1>6. \A e \in deltas[d] : e.path # p
    BY <1>1, <1>2 DEF Core, DeltaShape, Unspent, Known
  <1>7. \A i \in 1..Len(ops[d]) : ops[d][i].path # p
    BY <1>1, <1>2 DEF Local, OpsInPlace
  <1>8. QED
    BY <1>2, <1>3, <1>4, <1>5, <1>6, <1>7

(* A queued Confirm of what the path now holds. *)
LEMMA ConfirmQueued ==
    ASSUME TypeOK, NEW d \in Device, OpsInPlace(d), NEW p \in Path, NEW c \in Content,
           ops'[d] = Append(ops[d], [op |-> "Confirm", path |-> p, hash |-> c]),
           files'[d][p] = c, \A r \in Path : r # p => files'[d][r] = files[d][r],
           \A i \in 1..Len(ops[d]) : ops[d][i].path # p,
           plan'[d] \subseteq plan[d], \A a \in plan'[d] : a.path # p
    PROVE  OpsInPlace(d)'
  <1> DEFINE op == [op |-> "Confirm", path |-> p, hash |-> c]
  <1>1. ops[d] \in Seq(BaselineOp)
    BY DEF TypeOK
  <1>2. op.op = "Confirm" /\ op.path = p /\ op.hash = c
    OBVIOUS
  <1> HIDE DEF op
  <1>3. /\ Len(ops'[d]) = Len(ops[d]) + 1
        /\ \A i \in 1..Len(ops[d]) : ops'[d][i] = ops[d][i]
        /\ ops'[d][Len(ops[d]) + 1] = op
    BY <1>1 DEF op
  <1>4. ASSUME NEW i \in 1..Len(ops'[d])
        PROVE  /\ ops'[d][i].op = "Confirm"
               /\ files'[d][ops'[d][i].path] = ops'[d][i].hash
               /\ \A a \in plan'[d] : a.path # ops'[d][i].path
    <2>1. CASE i \in 1..Len(ops[d])
      <3>1. ops[d][i] \in BaselineOp
        BY <1>1, <2>1
      <3>2. ops[d][i].path \in Path
        BY <3>1 DEF BaselineOp
      <3>3. QED
        BY <1>3, <2>1, <3>2 DEF OpsInPlace
    <2>2. CASE i = Len(ops[d]) + 1
      BY <1>2, <1>3, <2>2
    <2>3. QED
      BY <1>1, <1>3, <2>1, <2>2
  <1>5. QED
    BY <1>4 DEF OpsInPlace

(* The uploaded version is new to the log, replaces only what its author gave
   up, and beats it. *)
LEMMA UploadEdits ==
    ASSUME IInv, EditInv, NEW d \in Device, NEW p \in Path, Upload(d, p)
    PROVE  Shared' /\ Local(d)'
  <1> DEFINE c == files[d][p]
             n == NewDelta(d, p, c, FALSE)
             es == Entries(log)
  <1>1. TypeOK /\ Shared /\ Local(d) /\ PassShape(d)
    BY DEF IInv, EditInv, Core
  <1>2. /\ Executing(d, p, "Upload") /\ pc' = pc /\ stamp' = stamp
        /\ deltas' = [deltas EXCEPT ![d] = deltas[d] \cup {n}] /\ view'[d] = Insert(view[d], n)
        /\ ops'[d] = Append(ops[d], [op |-> "Confirm", path |-> p, hash |-> c])
        /\ log' = log /\ files' = files /\ base' = base /\ live' = live /\ edits' = edits
        /\ c \in Content
    BY <1>1 DEF Upload, Executing, Push, TypeOK, Hash, folder
  <1>3. /\ UploadOk(d, p) /\ pc[d] = "apply" /\ plan'[d] \subseteq plan[d]
        /\ \A a \in plan'[d] : a.path # p
        /\ \A e \in deltas[d] : e.path # p
        /\ \A i \in 1..Len(ops[d]) : ops[d][i].path # p
    BY <1>2, ExecutingOk
  <1>4. /\ n.path = p /\ n.hash = c /\ ~n.deleted /\ n.lamport = stamp[d] /\ n.dev = d
        /\ n.base = KnownHash(view[d], p) /\ n \in Entry
    BY <1>1, <1>2, NewDeltaType DEF NewDelta
  <1> HIDE DEF n
  <1>5. deltas'[d] = deltas[d] \cup {n} /\ \A g \in Device : g # d => deltas'[g] = deltas[g]
    BY <1>1, <1>2 DEF TypeOK
  <1>6. /\ es' = es /\ Every' \subseteq Every \cup {n} /\ Known(d)' = Known(d) \cup {n}
        /\ es \subseteq Every /\ es \subseteq Entry /\ Every \subseteq Entry
    BY <1>1, <1>2, <1>5, EveryType DEF Entries, Every, Known
  <1>7. view[d] \subseteq Every /\ view[d] \subseteq Entry /\ Functional(view[d])
    BY ViewIs
  <1> HIDE DEF es
  <1>8. /\ n.base = base[d][p]
        /\ base[d][p] # None =>
              \E w \in es : w.path = p /\ w.hash = base[d][p] /\ Beats(n, w)
    <2>1. CASE base[d][p] = None
      BY <1>3, <1>4, <2>1 DEF UploadOk, KnownHash
    <2>2. CASE base[d][p] # None
      <3>1. PICK w \in view[d] \cap es : w.path = p /\ w.hash = base[d][p] /\ w.lamport < stamp[d]
        BY <1>3, <2>2 DEF UploadOk, es
      <3>2. ~w.deleted
        BY <1>1, <1>6, <3>1 DEF Shared, NoTombstone
      <3>3. n.base = base[d][p]
        BY <1>4, <1>7, <3>1, <3>2, RemoteIs
      <3>4. Beats(n, w)
        BY <1>4, <3>1 DEF Beats
      <3>5. QED
        BY <3>1, <3>3, <3>4
    <2>3. QED
      BY <2>1, <2>2
  <1>9. ASSUME NEW e \in Every, e.path = p, e.hash = c PROVE FALSE
    <2>1. CASE e \in es
      BY <1>3, <1>9, <2>1 DEF UploadOk, Logged, es
    <2>2. ASSUME NEW g \in Device, e \in deltas[g], e \notin es PROVE FALSE
      <3>1. g # d
        BY <1>3, <1>9, <2>2
      <3>2. files[g][p] = c
        BY <1>9, <2>2 DEF EditInv, Local, BatchInPlace
      <3>3. Logged(p, c)
        BY <1>1, <1>2, <3>1, <3>2, Numbers DEF Shared, OneOwner
      <3>4. QED
        BY <1>3, <3>3 DEF UploadOk
    <2>3. QED
      BY <2>1, <2>2, EveryMember DEF es
  <1>10. Old'
    <2>1. c <= edits
      BY <1>1 DEF Shared, Old
    <2>2. QED
      BY <1>1, <1>2, <1>4, <1>6, <2>1 DEF Shared, Old
  <1>11. OneOwner' /\ AuthorHolds' /\ NoLostEdit' /\ DevicesBounded'
    BY <1>1, <1>2, <1>6
       DEF Shared, OneOwner, AuthorHolds, NoLostEdit, DevicesBounded, Logged, Holds, es
  <1>12. OneEntry' /\ NoTombstone'
    BY <1>1, <1>4, <1>6, <1>9 DEF Shared, OneEntry, NoTombstone
  <1>13. CopyKept'
    BY <1>1, <1>2, <1>4, <1>6 DEF Shared, CopyKept
  <1>14. Replaced'
    <2>1. base[d][p] \notin live
      BY <1>3 DEF UploadOk
    <2>2. QED
      BY <1>1, <1>2, <1>4, <1>6, <1>8, <2>1 DEF Shared, Replaced, es
  <1>15. Shared'
    BY <1>10, <1>11, <1>12, <1>13, <1>14 DEF Shared
  <1>16. BatchInPlace(d)'
    BY <1>1, <1>2, <1>4, <1>5 DEF Local, BatchInPlace
  <1>17. RowsBehind(d)'
    <2>1. ASSUME NEW f \in es, f.path = p, f.hash = base[d][p] PROVE Beats(n, f)
      <3>1. base[d][p] # None
        BY <1>6, <2>1, EntryParts
      <3>2. PICK w \in es : w.path = p /\ w.hash = base[d][p] /\ Beats(n, w)
        BY <1>8, <3>1
      <3>3. w = f
        BY <1>1, <1>6, <2>1, <3>2 DEF Shared, OneEntry
      <3>4. QED
        BY <3>2, <3>3
    <2>2. QED
      BY <1>1, <1>2, <1>4, <1>6, <2>1 DEF Local, RowsBehind, Superseded, es
  <1>18. OpsInPlace(d)'
    BY <1>1, <1>2, <1>3, ConfirmQueued DEF Local
  <1>19. Preserving(d)'
    BY <1>2, <1>3 DEF Preserving
  <1>20. ASSUME NEW a \in plan'[d]
         PROVE  /\ EntriesAt(view'[d], a.path) = EntriesAt(view[d], a.path)
                /\ \A w \in view[d] : w.path = a.path => w \in view'[d]
                /\ Remote(view'[d], a.path) = Remote(view[d], a.path)
    <2>1. a.path # p
      BY <1>3
    <2>2. /\ EntriesAt(view'[d], a.path) = EntriesAt(view[d], a.path)
          /\ \A w \in view[d] : w.path = a.path => w \in view'[d]
          /\ \A w \in view'[d] : w.path = a.path => w \in view[d]
      BY <1>2, <1>4, <2>1 DEF Insert, EntriesAt
    <2>3. Functional(view'[d]) /\ \A w \in view'[d] : w.deleted = FALSE \/ w \in view[d]
      BY <1>2, <1>4, <1>7, InsertFunctional DEF Functional, Insert
    <2>4. \A w \in view[d] : ~w.deleted
      BY <1>1, <1>7 DEF Shared, NoTombstone
    <2>5. CASE \A w \in view[d] : w.path # a.path
      BY <2>2, <2>5, RemoteNone
    <2>6. ASSUME NEW w \in view[d], w.path = a.path
          PROVE  Remote(view'[d], a.path) = Remote(view[d], a.path)
      BY <1>7, <2>2, <2>3, <2>4, <2>6, RemoteIs
    <2>7. QED
      BY <2>2, <2>5, <2>6
  <1>21. PlanOk(d)'
    <2>1. ASSUME NEW a \in plan'[d]
          PROVE  /\ UploadOk(d, a.path) => UploadOk(d, a.path)'
                 /\ DownloadOk(d, a.path) => DownloadOk(d, a.path)'
                 /\ ConflictOk(d, a.path) => ConflictOk(d, a.path)'
      <3>1. UploadOk(d, a.path) => UploadOk(d, a.path)'
        BY <1>2, <1>6, <1>20 DEF UploadOk, Logged, es
      <3>2. DownloadOk(d, a.path) => DownloadOk(d, a.path)'
        BY <1>2, <1>6, <1>20 DEF DownloadOk, es
      <3>3. ConflictOk(d, a.path) => ConflictOk(d, a.path)'
        BY <1>2, <1>6, <1>20 DEF ConflictOk, Superseded, es
      <3>4. QED
        BY <3>1, <3>2, <3>3
    <2>2. QED
      BY <1>1, <1>3, <2>1 DEF Local, PlanOk
  <1>22. QED
    BY <1>15, <1>16, <1>17, <1>18, <1>19, <1>21 DEF Local

(* What a download overwrites is given up by its author or held by another
   device, in its place or as a copy. *)
LEMMA DownloadEdits ==
    ASSUME IInv, EditInv, NEW d \in Device, NEW p \in Path, Download(d, p)
    PROVE  Shared' /\ Local(d)'
  <1> DEFINE c == EntryAt(view[d], p).hash
             x == files[d][p]
             es == Entries(log)
  <1>1. TypeOK /\ Shared /\ Local(d) /\ PassShape(d)
    BY DEF IInv, EditInv, Core
  <1>2. /\ Executing(d, p, "Download") /\ UNCHANGED <<base, pc, view, stamp, deltas, log, edits, live>>
        /\ files' = [files EXCEPT ![d][p] = c]
        /\ ops'[d] = Append(ops[d], [op |-> "Confirm", path |-> p, hash |-> c])
    BY <1>1 DEF Download, Push, TypeOK, store
  <1>3. /\ DownloadOk(d, p) /\ pc[d] = "apply" /\ plan'[d] \subseteq plan[d]
        /\ \A a \in plan'[d] : a.path # p
        /\ \A e \in deltas[d] : e.path # p
        /\ \A i \in 1..Len(ops[d]) : ops[d][i].path # p
    BY <1>2, ExecutingOk
  <1>4. /\ es' = es /\ Every' = Every /\ Known(d)' = Known(d)
        /\ es \subseteq Every /\ es \subseteq Entry /\ Every \subseteq Entry
        /\ es \subseteq Known(d) /\ Known(d) \subseteq Every
    BY <1>1, <1>2, EveryType DEF Entries, Every, Known
  <1>5. view[d] \subseteq Every /\ view[d] \subseteq Entry /\ Functional(view[d])
    BY ViewIs
  <1> HIDE DEF es
  <1>6. PICK w \in view[d] \cap es :
            /\ w.path = p /\ w.hash # x
            /\ \A f \in es : f.path = p /\ f.hash = base[d][p] => Beats(w, f)
    BY <1>3 DEF DownloadOk, es
  <1>7. /\ w.hash = c /\ c \in Content /\ c # None /\ w.dev \in Device /\ w \in Every
        /\ w \in Entry
    <2>1. ~w.deleted
      BY <1>1, <1>4, <1>6 DEF Shared, NoTombstone
    <2>2. EntryAt(view[d], p) = w
      BY <1>5, <1>6, <2>1, RemoteIs
    <2>3. QED
      BY <1>4, <1>6, <2>2, EntryParts
  <1> HIDE DEF c
  <1>8. /\ files'[d][p] = c /\ x = base[d][p]
        /\ \A r \in Path : r # p => files'[d][r] = files[d][r]
        /\ \A g \in Device : g # d => files'[g] = files[g]
        /\ x \in Hash
    BY <1>1, <1>2, <1>3 DEF TypeOK, DownloadOk
  <1>9. p \in Copy => x = None
    <2>1. SUFFICES ASSUME p \in Copy, x # None PROVE FALSE
      OBVIOUS
    <2>2. files[w.dev][p] = c
      BY <1>1, <1>6, <1>7, <2>1 DEF Shared, CopyKept
    <2>3. x = c
      BY <1>1, <1>7, <2>1, <2>2 DEF Shared, CopyKept
    <2>4. QED
      BY <1>6, <1>7, <2>3
  <1> HIDE DEF x
  <1>10. Old'
    <2>1. c <= edits
      BY <1>1, <1>7 DEF Shared, Old
    <2>2. QED
      BY <1>1, <1>2, <1>4, <1>8, <2>1 DEF Shared, Old
  <1>11. OneOwner'
    <2>1. Logged(p, c)
      BY <1>6, <1>7 DEF Logged, es
    <2>2. \A r, y : Logged(r, y)' = Logged(r, y)
      BY <1>4 DEF Logged, es
    <2>3. ASSUME NEW a \in Device, NEW g \in Device, NEW r \in Path,
                 a # g, files'[a][r] # None, files'[a][r] = files'[g][r]
          PROVE  Logged(r, files'[a][r])
      <3>1. CASE r = p /\ (a = d \/ g = d)
        BY <1>8, <2>1, <2>3, <3>1
      <3>2. CASE r # p \/ (a # d /\ g # d)
        <4>1. files'[a][r] = files[a][r] /\ files'[g][r] = files[g][r]
          BY <1>8, <3>2
        <4>2. QED
          BY <1>1, <2>3, <4>1 DEF Shared, OneOwner
      <3>3. QED
        BY <3>1, <3>2
    <2>4. QED
      BY <2>2, <2>3 DEF OneOwner
  <1>12. OneEntry' /\ NoTombstone' /\ Replaced' /\ DevicesBounded'
    BY <1>1, <1>2, <1>4 DEF Shared, OneEntry, NoTombstone, Replaced, DevicesBounded, es
  <1>13. CopyKept'
    <2>1. ASSUME NEW g \in Device, p \in Copy, files[g][p] # None PROVE files[g][p] = c
      <3>1. files[w.dev][p] = c
        BY <1>1, <1>6, <1>7, <2>1 DEF Shared, CopyKept
      <3>2. QED
        BY <1>1, <1>7, <2>1, <3>1 DEF Shared, CopyKept
    <2>2. ASSUME NEW a \in Device, NEW g \in Device, NEW q \in Copy,
                 files'[a][q] # None, files'[g][q] # None
          PROVE  files'[a][q] = files'[g][q]
      <3>1. q \in Path
        BY CopyAssumption
      <3>2. CASE q = p
        BY <1>8, <2>1, <2>2, <3>2
      <3>3. CASE q # p
        <4>1. files'[a][q] = files[a][q] /\ files'[g][q] = files[g][q]
          BY <1>8, <3>1, <3>3
        <4>2. QED
          BY <1>1, <2>2, <4>1 DEF Shared, CopyKept
      <3>4. QED
        BY <3>2, <3>3
    <2>3. ASSUME NEW e \in Every, e.path \in Copy PROVE files'[e.dev][e.path] = e.hash
      <3>1. files[e.dev][e.path] = e.hash /\ e.hash # None /\ e.dev \in Device /\ e.path \in Path
        BY <1>1, <1>4, <2>3, EntryParts DEF Shared, CopyKept
      <3>2. CASE e.dev = d /\ e.path = p
        BY <1>8, <2>1, <2>3, <3>1, <3>2
      <3>3. CASE ~(e.dev = d /\ e.path = p)
        BY <1>8, <3>1, <3>3
      <3>4. QED
        BY <3>2, <3>3
    <2>4. QED
      BY <1>4, <2>2, <2>3 DEF CopyKept
  <1>14. \A e \in es : e.path = p /\ e.hash = x /\ e.dev = d => e.hash \notin live
    BY <1>3 DEF DownloadOk, es, x
  <1>15. AuthorHolds'
    <2>1. ASSUME NEW e \in es, e.hash \in live PROVE Holds(e.dev, e.path, e.hash)'
      <3>1. /\ Holds(e.dev, e.path, e.hash) /\ e.dev \in Device /\ e.path \in Path
            /\ e.hash # None
        BY <1>1, <1>4, <2>1, EntryParts DEF Shared, AuthorHolds, es
      <3>2. CASE files[e.dev][e.path] = e.hash
        <4>1. ~(e.dev = d /\ e.path = p)
          BY <1>14, <2>1, <3>2 DEF x
        <4>2. files'[e.dev][e.path] = e.hash
          BY <1>8, <3>1, <3>2, <4>1
        <4>3. QED
          BY <4>2 DEF Holds
      <3>3. ASSUME NEW q \in Copy, files[e.dev][q] = e.hash PROVE Holds(e.dev, e.path, e.hash)'
        <4>1. q \in Path /\ ~(e.dev = d /\ q = p)
          BY <1>9, <3>1, <3>3, CopyAssumption DEF x
        <4>2. files'[e.dev][q] = e.hash
          BY <1>8, <3>1, <3>3, <4>1
        <4>3. QED
          BY <4>2 DEF Holds
      <3>4. QED
        BY <3>1, <3>2, <3>3 DEF Holds
    <2>2. QED
      BY <1>2, <1>4, <2>1 DEF AuthorHolds, es
  <1>16. ASSUME x # None PROVE \E e \in es : e.path = p /\ e.hash = x
    BY <1>8, <1>16, RowLogged DEF es
  <1>17. NoLostEdit'
    <2>1. ASSUME NEW y \in live PROVE \E a \in Device, r \in Path : files'[a][r] = y
      <3>1. PICK a \in Device, r \in Path : files[a][r] = y
        BY <1>1, <2>1 DEF Shared, NoLostEdit
      <3>2. CASE ~(a = d /\ r = p)
        <4>1. files'[a][r] = y
          BY <1>8, <3>1, <3>2
        <4>2. QED
          BY <4>1
      <3>3. CASE a = d /\ r = p
        <4>1. y = x /\ x # None
          BY <1>1, <2>1, <3>1, <3>3, Numbers DEF x, TypeOK
        <4>2. PICK e \in es : e.path = p /\ e.hash = x
          BY <1>16, <4>1
        <4>3. e.dev # d /\ e.dev \in Device
          BY <1>4, <1>14, <2>1, <4>1, <4>2, EntryParts
        <4>4. Holds(e.dev, p, x)
          BY <1>1, <2>1, <4>1, <4>2 DEF Shared, AuthorHolds, es
        <4>5. PICK r2 \in Path : files[e.dev][r2] = x
          BY <4>4, CopyAssumption DEF Holds
        <4>6. files'[e.dev][r2] = y
          BY <1>8, <4>1, <4>3, <4>5
        <4>7. QED
          BY <4>3, <4>6
      <3>4. QED
        BY <3>2, <3>3
    <2>2. QED
      BY <1>2, <2>1 DEF NoLostEdit
  <1>18. Shared'
    BY <1>10, <1>11, <1>12, <1>13, <1>15, <1>17 DEF Shared
  <1>19. BatchInPlace(d)'
    <2>1. \A e \in deltas[d] : e.path \in Path
      BY <1>1, EntryParts DEF TypeOK
    <2>2. QED
      BY <1>1, <1>2, <1>3, <1>8, <2>1 DEF Local, BatchInPlace
  <1>20. RowsBehind(d)'
    <2>1. \A r, y : Superseded(r, y)' = Superseded(r, y)
      BY <1>4 DEF Superseded, es
    <2>2. ASSUME x # None PROVE Superseded(p, x)
      BY <1>6, <1>8, <1>16, <2>2 DEF Superseded, es
    <2>3. ASSUME NEW e \in Known(d), NEW f \in es,
                 e.path = p, f.path = p, e.hash = c, f.hash = x
          PROVE  Beats(e, f)
      <3>1. e = w
        BY <1>1, <1>4, <1>6, <1>7, <2>3 DEF Shared, OneEntry
      <3>2. QED
        BY <1>6, <1>8, <2>3, <3>1
    <2>4. ASSUME NEW r \in Path, base'[d][r] # None, files'[d][r] # base'[d][r]
          PROVE  /\ files'[d][r] = None => Superseded(r, base'[d][r])
                 /\ base'[d][r] \notin live \/ Superseded(r, base'[d][r])
                 /\ \A e \in Known(d), f \in es :
                       e.path = r /\ f.path = r /\ e.hash = files'[d][r] /\ f.hash = base'[d][r]
                         => Beats(e, f)
      <3>1. CASE r = p
        BY <1>2, <1>7, <1>8, <2>2, <2>3, <2>4, <3>1
      <3>2. CASE r # p
        BY <1>1, <1>2, <1>8, <2>4, <3>2 DEF Local, RowsBehind, es
      <3>3. QED
        BY <3>1, <3>2
    <2>5. QED
      BY <1>2, <1>4, <2>1, <2>4 DEF RowsBehind, es
  <1>21. OpsInPlace(d)'
    BY <1>1, <1>2, <1>3, <1>7, <1>8, ConfirmQueued DEF Local
  <1>22. Preserving(d)'
    BY <1>2, <1>3 DEF Preserving
  <1>23. PlanOk(d)'
    <2>1. ASSUME NEW a \in plan'[d]
          PROVE  /\ UploadOk(d, a.path) => UploadOk(d, a.path)'
                 /\ DownloadOk(d, a.path) => DownloadOk(d, a.path)'
                 /\ ConflictOk(d, a.path) => ConflictOk(d, a.path)'
      <3>1. a.path # p /\ a.path \in Path
        BY <1>1, <1>3 DEF TypeOK, Action
      <3>2. files'[d][a.path] = files[d][a.path]
        BY <1>8, <3>1
      <3>3. QED
        BY <1>2, <1>4, <3>2 DEF UploadOk, DownloadOk, ConflictOk, Logged, Superseded, es
    <2>2. QED
      BY <1>1, <1>3, <2>1 DEF Local, PlanOk
  <1>24. QED
    BY <1>18, <1>19, <1>20, <1>21, <1>22, <1>23 DEF Local
-----------------------------------------------------------------------------
(* Renaming aside. *)

(* A version that lost its path is renamed to a name nobody used. *)
LEMMA AsideEdits ==
    ASSUME IInv, EditInv, NEW d \in Device, NEW p \in Path, NEW q \in FreshCopies,
           files[d][p] # None, p \notin Copy, files' = RenamedAside(d, p, q),
           base' = base \/ base' = [base EXCEPT ![d][p] = None],
           base[d][p] # None => base'[d][p] = None \/ Superseded(p, base[d][p]),
           UNCHANGED <<live, edits, log>>,
           \A g \in Device : deltas'[g] \subseteq deltas[g],
           \A e \in deltas'[d] : e.path # p
    PROVE  /\ Shared' /\ BatchInPlace(d)' /\ RowsBehind(d)'
           /\ q \in Path /\ q \in Copy /\ files'[d][p] = None /\ files[d][q] = None
           /\ base[d][q] = None
           /\ \A e \in Entries(log) : e.path # q
           /\ \A r \in Path : r # p /\ r # q => files'[d][r] = files[d][r]
           /\ \A r \in Path : r # p => base'[d][r] = base[d][r]
  <1> DEFINE es == Entries(log)
  <1>1. TypeOK /\ Shared /\ Local(d)
    BY DEF IInv, EditInv
  <1>2. /\ q \in Copy /\ q \in Path /\ q # p
        /\ \A g \in Device : files[g][q] = None
        /\ \A e \in es : e.path # q
    BY CopyAssumption DEF FreshCopies
  <1>3. /\ files'[d][q] = files[d][p] /\ files'[d][p] = None
        /\ \A r \in Path : r # p /\ r # q => files'[d][r] = files[d][r]
        /\ \A g \in Device : g # d => files'[g] = files[g]
    BY <1>1, <1>2 DEF RenamedAside, TypeOK
  <1>4. \A r \in Path : r # p => base'[d][r] = base[d][r]
    BY <1>1 DEF TypeOK
  <1>5. /\ es' = es /\ Every' \subseteq Every /\ Known(d)' \subseteq Known(d)
        /\ es \subseteq Every /\ es \subseteq Entry /\ Every \subseteq Entry
        /\ es \subseteq Known(d) /\ Known(d) \subseteq Every
    BY <1>1, EveryType DEF Entries, Every, Known
  <1> HIDE DEF es
  <1>6. base[d][q] = None
    BY <1>2, RowLogged DEF es
  <1>7. Old'
    BY <1>1, <1>2, <1>3, <1>5 DEF Shared, Old, None
  <1>8. OneOwner'
    <2>1. \A r, y : Logged(r, y)' = Logged(r, y)
      BY <1>5 DEF Logged, es
    <2>2. ASSUME NEW a \in Device, NEW g \in Device, NEW r \in Path,
                 a # g, files'[a][r] # None, files'[a][r] = files'[g][r]
          PROVE  Logged(r, files'[a][r])
      <3>1. ~(r = q /\ (a = d \/ g = d))
        BY <1>2, <1>3, <2>2
      <3>2. ~(r = p /\ (a = d \/ g = d))
        BY <1>3, <2>2
      <3>3. files'[a][r] = files[a][r] /\ files'[g][r] = files[g][r]
        BY <1>3, <3>1, <3>2
      <3>4. QED
        BY <1>1, <2>2, <3>3 DEF Shared, OneOwner
    <2>3. QED
      BY <2>1, <2>2 DEF OneOwner
  <1>9. OneEntry' /\ NoTombstone' /\ Replaced' /\ DevicesBounded'
    BY <1>1, <1>5 DEF Shared, OneEntry, NoTombstone, Replaced, DevicesBounded, es
  <1>10. ASSUME NEW a \in Device, NEW r \in Path, NEW y, y # None, files[a][r] = y
         PROVE  \/ files'[a][r] = y
                \/ a = d /\ r = p /\ files'[a][q] = y
    BY <1>2, <1>3, <1>10
  <1>11. CopyKept'
    <2>1. ASSUME NEW a \in Device, NEW g \in Device, NEW r \in Copy,
                 files'[a][r] # None, files'[g][r] # None
          PROVE  files'[a][r] = files'[g][r]
      <3>1. r \in Path /\ r # p
        BY CopyAssumption
      <3>2. CASE r = q
        BY <1>2, <1>3, <2>1, <3>2
      <3>3. CASE r # q
        BY <1>1, <1>3, <2>1, <3>1, <3>3 DEF Shared, CopyKept
      <3>4. QED
        BY <3>2, <3>3
    <2>2. ASSUME NEW e \in Every, e.path \in Copy PROVE files'[e.dev][e.path] = e.hash
      <3>1. files[e.dev][e.path] = e.hash /\ e.hash # None /\ e.dev \in Device /\ e.path \in Path
        BY <1>1, <1>5, <2>2, EntryParts DEF Shared, CopyKept
      <3>2. QED
        BY <1>10, <2>2, <3>1
    <2>3. QED
      BY <1>5, <2>1, <2>2 DEF CopyKept
  <1>12. AuthorHolds'
    <2>1. ASSUME NEW e \in es, e.hash \in live PROVE Holds(e.dev, e.path, e.hash)'
      <3>1. /\ Holds(e.dev, e.path, e.hash) /\ e.dev \in Device /\ e.path \in Path
            /\ e.hash # None
        BY <1>1, <1>5, <2>1, EntryParts DEF Shared, AuthorHolds, es
      <3>2. CASE files[e.dev][e.path] = e.hash
        BY <1>2, <1>10, <3>1, <3>2 DEF Holds
      <3>3. ASSUME NEW r \in Copy, files[e.dev][r] = e.hash PROVE Holds(e.dev, e.path, e.hash)'
        <4>1. r \in Path /\ r # p
          BY CopyAssumption
        <4>2. files'[e.dev][r] = e.hash
          BY <1>10, <3>1, <3>3, <4>1
        <4>3. QED
          BY <4>2 DEF Holds
      <3>4. QED
        BY <3>1, <3>2, <3>3 DEF Holds
    <2>2. QED
      BY <1>5, <2>1 DEF AuthorHolds, es
  <1>13. NoLostEdit'
    <2>1. ASSUME NEW y \in live PROVE \E a \in Device, r \in Path : files'[a][r] = y
      <3>1. y # None
        BY <1>1, Numbers DEF TypeOK
      <3>2. PICK a \in Device, r \in Path : files[a][r] = y
        BY <1>1, <2>1 DEF Shared, NoLostEdit
      <3>3. QED
        BY <1>2, <1>10, <3>1, <3>2
    <2>2. QED
      BY <2>1 DEF NoLostEdit
  <1>14. Shared'
    BY <1>7, <1>8, <1>9, <1>11, <1>12, <1>13 DEF Shared
  <1>15. BatchInPlace(d)'
    <2>1. ASSUME NEW e \in deltas'[d] PROVE files'[d][e.path] = e.hash
      <3>1. e \in deltas[d] /\ e.path # p /\ files[d][e.path] = e.hash /\ e.path \in Path /\ e.hash # None
        BY <1>1, EntryParts DEF Local, BatchInPlace, TypeOK
      <3>2. QED
        BY <1>10, <3>1
    <2>2. QED
      BY <2>1 DEF BatchInPlace
  <1>16. RowsBehind(d)'
    <2>1. \A r, y : Superseded(r, y)' = Superseded(r, y)
      BY <1>5 DEF Superseded, es
    <2>2. ASSUME NEW r \in Path, base'[d][r] # None, files'[d][r] # base'[d][r]
          PROVE  /\ files'[d][r] = None => Superseded(r, base'[d][r])
                 /\ base'[d][r] \notin live \/ Superseded(r, base'[d][r])
                 /\ \A e \in Known(d), f \in es :
                       e.path = r /\ f.path = r /\ e.hash = files'[d][r] /\ f.hash = base'[d][r]
                         => Beats(e, f)
      <3>1. CASE r = p
        <4>1. base'[d][p] = base[d][p] /\ base[d][p] # None
          BY <1>1, <2>2, <3>1 DEF TypeOK
        <4>2. Superseded(p, base'[d][p])
          BY <2>2, <3>1, <4>1
        <4>3. \A e \in Known(d) : e.hash # files'[d][p]
          BY <1>3, <1>5, EntryParts
        <4>4. QED
          BY <3>1, <4>2, <4>3
      <3>2. CASE r = q
        BY <1>2, <1>4, <1>6, <2>2, <3>2
      <3>3. CASE r # p /\ r # q
        BY <1>1, <1>3, <1>4, <2>2, <3>3 DEF Local, RowsBehind, es
      <3>4. QED
        BY <3>1, <3>2, <3>3
    <2>3. QED
      BY <1>5, <2>1, <2>2 DEF RowsBehind, es
  <1>17. QED
    BY <1>2, <1>3, <1>4, <1>6, <1>14, <1>15, <1>16 DEF es

(* Nobody's copy is a loser: copies have one author. *)
LEMMA LoserIsNoCopy ==
    ASSUME IInv, EditInv, NEW d \in Device, pc[d] = "preserve", NEW e \in losers[d],
           files[d][e.path] = e.hash
    PROVE  /\ e.path \in Path /\ e.path \notin Copy /\ e \in Entries(log)
           /\ e.hash # None /\ e.hash # Remote(view[d], e.path)
           /\ base[d][e.path] # None => Superseded(e.path, base[d][e.path])
  <1> DEFINE es == Entries(log)
  <1>1. TypeOK /\ Shared /\ Local(d) /\ PassShape(d)
    BY DEF IInv, EditInv, Core
  <1>2. deltas[d] = {} /\ view[d] \subseteq es /\ Functional(view[d]) /\ view[d] \subseteq Entry
    BY <1>1, ViewIs DEF PassShape, Known
  <1>3. es \subseteq Entry /\ es \subseteq Every
    BY <1>1, EveryType
  <1> HIDE DEF es
  <1>4. e \in es /\ \E w \in view[d] : w.path = e.path /\ Beats(w, e)
    BY <1>1 DEF Local, Preserving, es
  <1>5. PICK w \in view[d] : w.path = e.path /\ Beats(w, e)
    BY <1>4
  <1>6. w # e /\ w.hash # e.hash
    <2>1. w # e
      BY <1>3, <1>4, <1>5, BeatsIrreflexive
    <2>2. QED
      BY <1>1, <1>2, <1>3, <1>4, <1>5, <2>1 DEF Shared, OneEntry
  <1>7. e.path \notin Copy
    <2>1. SUFFICES ASSUME e.path \in Copy PROVE FALSE
      OBVIOUS
    <2>2. files[e.dev][e.path] = e.hash /\ files[w.dev][e.path] = w.hash
      BY <1>1, <1>2, <1>3, <1>4, <1>5, <2>1 DEF Shared, CopyKept
    <2>3. e.dev \in Device /\ w.dev \in Device /\ e.hash # None /\ w.hash # None
      BY <1>2, <1>3, <1>4, EntryParts
    <2>4. e.hash = w.hash
      BY <1>1, <2>1, <2>2, <2>3 DEF Shared, CopyKept
    <2>5. QED
      BY <1>6, <2>4
  <1>8. Remote(view[d], e.path) = w.hash
    <2>1. ~w.deleted
      BY <1>1, <1>2, <1>3 DEF Shared, NoTombstone
    <2>2. QED
      BY <1>2, <1>5, <2>1, RemoteIs
  <1>9. Superseded(e.path, e.hash)
    BY <1>2, <1>4, <1>5 DEF Superseded, es
  <1>11. e.path \in Path /\ e.hash # None
    BY <1>3, <1>4, EntryParts
  <1>10. ASSUME base[d][e.path] # None, base[d][e.path] # e.hash
         PROVE  Superseded(e.path, base[d][e.path])
    <2>1. PICK b \in es : b.path = e.path /\ b.hash = base[d][e.path]
      BY <1>10, <1>11, RowLogged DEF es
    <2>2. e \in Known(d)
      BY <1>4 DEF Known, es
    <2>3. Beats(e, b)
      BY <1>1, <1>10, <1>11, <2>1, <2>2 DEF Local, RowsBehind, es
    <2>4. QED
      BY <1>4, <2>1, <2>3 DEF Superseded, es
  <1>12. QED
    BY <1>4, <1>6, <1>7, <1>8, <1>9, <1>10, <1>11 DEF es
(* One loser renamed aside, or left where the file changed since. *)
LEMMA PreserveEdits ==
    ASSUME Calm, IInv, EditInv, NEW d \in Device, NEW e \in losers[d], Preserve(d, e)
    PROVE  Shared' /\ Local(d)'
  <1> DEFINE p == e.path
             es == Entries(log)
  <1>1. TypeOK /\ Shared /\ Local(d) /\ PassShape(d) /\ OpsShape(d)
    BY DEF IInv, EditInv, Core
  <1>2. /\ pc[d] = "preserve" /\ losers'[d] = losers[d] \ {e}
        /\ UNCHANGED <<pc, view, plan, stamp, deltas, ops, log, edits, live>>
    BY <1>1 DEF Preserve, TypeOK, store
  <1>3. plan[d] = {} /\ deltas[d] = {} /\ ops[d] = <<>>
    BY <1>1, <1>2 DEF PassShape, OpsShape
  <1>4. es' = es /\ Known(d)' = Known(d) /\ es \subseteq Entry /\ view[d] \subseteq Entry
    BY <1>1, <1>2, EveryType, ViewIs DEF Entries, Known
  <1>5. OpsInPlace(d)' /\ PlanOk(d)'
    BY <1>2, <1>3 DEF OpsInPlace, PlanOk
  <1> HIDE DEF es
  <1>6. /\ \A f \in es : f.hash \in {files[d][f.path], base[d][f.path]} => Seen(d, f)
        /\ \A f \in es : f.hash = files[d][f.path] /\ f.dev = d /\ f \notin view[d]
                            => f \in losers[d] \/ f.hash \notin live
        /\ \A w \in view[d] : w.hash = base[d][w.path] /\ files[d][w.path] # w.hash
                                 => files[d][w.path] # None /\ w.hash \notin live
        /\ \A f \in losers[d] : f \in es /\ \E w \in view[d] : w.path = f.path /\ Beats(w, f)
    BY <1>1, <1>2 DEF Local, Preserving, es
  <1>7. \A f : Seen(d, f)' = Seen(d, f)
    BY <1>2 DEF Seen
  <1>8. CASE files[d][p] # e.hash /\ UNCHANGED <<files, base>>
    <2>1. Shared'
      BY <1>1, <1>2, <1>8, SharedFrame
    <2>2. BatchInPlace(d)' /\ RowsBehind(d)'
      BY <1>1, <1>2, <1>4, <1>8 DEF Local, BatchInPlace, RowsBehind, Superseded, es
    <2>3. Preserving(d)'
      BY <1>2, <1>4, <1>6, <1>7, <1>8 DEF Preserving, es
    <2>4. QED
      BY <1>5, <2>1, <2>2, <2>3 DEF Local
  <1>9. ASSUME NEW q \in FreshCopies, files[d][p] = e.hash, files' = RenamedAside(d, p, q),
               base' = [base EXCEPT ![d][p] = None]
        PROVE  Shared' /\ Local(d)'
    <2>1. p \in Path /\ p \notin Copy /\ e.hash # None
      BY <1>2, <1>9, LoserIsNoCopy
    <2>2. base'[d][p] = None
      BY <1>1, <1>9, <2>1 DEF TypeOK
    <2>3. /\ Shared' /\ BatchInPlace(d)' /\ RowsBehind(d)'
          /\ q \in Path /\ files'[d][p] = None /\ base[d][q] = None
          /\ \A f \in es : f.path # q
          /\ \A r \in Path : r # p /\ r # q => files'[d][r] = files[d][r]
          /\ \A r \in Path : r # p => base'[d][r] = base[d][r]
      <3> HIDE DEF p
      <3>1. /\ \A g \in Device : deltas'[g] \subseteq deltas[g]
            /\ \A x \in deltas'[d] : x.path # p
            /\ UNCHANGED <<live, edits, log>> /\ files[d][p] # None
        BY <1>2, <1>3, <1>9, <2>1
      <3>2. QED
        BY <1>9, <2>1, <2>2, <3>1, AsideEdits DEF es
    <2>4. ASSUME NEW f \in es
          PROVE  /\ f.hash # None /\ f.path # q /\ f.path \in Path
                 /\ f.path # p => files'[d][f.path] = files[d][f.path]
                                   /\ base'[d][f.path] = base[d][f.path]
      BY <1>4, <2>3, EntryParts
    <2>5. view[d] \subseteq es
      BY <1>3, ViewIs DEF Known, es
    <2>6. \A f \in es : f.hash \in {files'[d][f.path], base'[d][f.path]} => Seen(d, f)
      BY <1>6, <2>2, <2>3, <2>4
    <2>7. ASSUME NEW f \in es, f.hash = files'[d][f.path], f.dev = d, f \notin view[d]
          PROVE  f \in losers'[d] \/ f.hash \notin live
      <3>1. f.path # p
        BY <2>3, <2>4, <2>7
      <3>2. f \in losers[d] \/ f.hash \notin live
        BY <1>6, <2>4, <2>7, <3>1
      <3>3. QED
        BY <1>2, <3>1, <3>2
    <2>8. \A w \in view[d] : w.hash = base'[d][w.path] /\ files'[d][w.path] # w.hash
                                => files'[d][w.path] # None /\ w.hash \notin live
      BY <1>6, <2>2, <2>4, <2>5
    <2>9. Preserving(d)'
      BY <1>2, <1>4, <1>6, <1>7, <2>6, <2>7, <2>8 DEF Preserving, es
    <2>10. QED
      BY <1>5, <2>3, <2>9 DEF Local
  <1>10. QED
    BY <1>8, <1>9 DEF Preserve, Calm

LEMMA ConflictEdits ==
    ASSUME IInv, EditInv, NEW d \in Device, NEW p \in Path, Conflict(d, p)
    PROVE  Shared' /\ Local(d)'
  <1> DEFINE es == Entries(log)
  <1>1. TypeOK /\ Shared /\ Local(d)
    BY DEF IInv, EditInv
  <1>2. /\ Executing(d, p, "Conflict") /\ base' = [base EXCEPT ![d][p] = None]
        /\ UNCHANGED <<pc, view, losers, stamp, deltas, ops, log, edits, live>>
        /\ \A a \in plan[d] : a.kind \notin TransferKind
    BY DEF Conflict, ExecutingLate, store
  <1>3. /\ ConflictOk(d, p) /\ pc[d] = "apply" /\ plan'[d] \subseteq plan[d]
        /\ \A a \in plan'[d] : a.path # p
        /\ \A e \in deltas[d] : e.path # p
        /\ \A i \in 1..Len(ops[d]) : ops[d][i].path # p
    BY <1>2, ExecutingOk
  <1>4. base'[d][p] = None
    BY <1>1, <1>2 DEF TypeOK
  <1>5. es' = es /\ Known(d)' = Known(d) /\ es \subseteq Known(d) /\ Known(d) \subseteq Entry
    BY <1>1, <1>2, EveryType DEF Entries, Known
  <1>6. ops[d] \in Seq(BaselineOp) /\ \A i \in 1..Len(ops[d]) : ops[d][i] \in BaselineOp
    BY <1>1 DEF TypeOK
  <1> DEFINE Rest1 == /\ Shared' /\ BatchInPlace(d)' /\ RowsBehind(d)' /\ OpsInPlace(d)'
                      /\ \A a \in plan'[d] : files'[d][a.path] = files[d][a.path]
  <1>7. ASSUME NEW a \in plan'[d]
        PROVE  /\ a.kind = "Conflict" /\ ConflictOk(d, a.path) /\ a.path # p /\ a.path \in Path
               /\ a.path \notin Copy
    <2>1. a \in plan[d] /\ a.kind # "Upload" /\ a.kind # "Download"
      BY <1>2, <1>3 DEF TransferKind
    <2>2. a.kind = "Conflict" /\ ConflictOk(d, a.path)
      BY <1>1, <2>1 DEF Local, PlanOk
    <2>3. a.path \in Path
      BY <1>1, <2>1 DEF TypeOK, Action
    <2>4. QED
      BY <1>3, <2>2, <2>3 DEF ConflictOk
  <1>8. ASSUME NEW q \in FreshCopies, files[d][p] # None, files' = RenamedAside(d, p, q)
        PROVE  Rest1
    <2>1. /\ Shared' /\ BatchInPlace(d)' /\ RowsBehind(d)'
          /\ q \in Path /\ q \in Copy /\ files[d][q] = None
          /\ \A r \in Path : r # p /\ r # q => files'[d][r] = files[d][r]
      BY <1>2, <1>3, <1>4, <1>8, AsideEdits DEF ConflictOk
    <2>2. OpsInPlace(d)'
      <3>1. ASSUME NEW i \in 1..Len(ops[d])
            PROVE  ops[d][i].op = "Confirm" /\ files'[d][ops[d][i].path] = ops[d][i].hash
        <4>1. ops[d][i].op = "Confirm" /\ files[d][ops[d][i].path] = ops[d][i].hash
          BY <1>1 DEF Local, OpsInPlace
        <4>2. ops[d][i].hash # None /\ ops[d][i].path \in Path
          BY <1>6, <4>1, Numbers DEF BaselineOp
        <4>3. ops[d][i].path # q /\ ops[d][i].path # p
          BY <1>3, <2>1, <4>1, <4>2
        <4>4. QED
          BY <2>1, <4>1, <4>2, <4>3
      <3>2. QED
        BY <1>1, <1>2, <1>3, <3>1 DEF Local, OpsInPlace
    <2>3. QED
      BY <1>7, <2>1, <2>2
  <1>9. ASSUME files[d][p] = None, files' = files
        PROVE  Rest1
    <2>1. Shared'
      BY <1>1, <1>2, <1>9, SharedFrame
    <2>2. BatchInPlace(d)' /\ OpsInPlace(d)'
      BY <1>1, <1>2, <1>3, <1>9 DEF Local, BatchInPlace, OpsInPlace
    <2>3. \A r \in Path : base'[d][r] = base[d][r] \/ base'[d][r] = None
      BY <1>1, <1>2 DEF TypeOK
    <2>4. RowsBehind(d)'
      BY <1>1, <1>2, <1>5, <1>9, <2>3 DEF Local, RowsBehind, Superseded
    <2>5. QED
      BY <1>9, <2>1, <2>2, <2>4
  <1>10. Rest1
    BY <1>8, <1>9 DEF Conflict
  <1>11. Preserving(d)'
    BY <1>2, <1>3 DEF Preserving
  <1>12. PlanOk(d)'
    <2>1. ASSUME NEW a \in plan'[d] PROVE a.kind = "Conflict" /\ ConflictOk(d, a.path)'
      <3>1. base'[d][a.path] = base[d][a.path]
        BY <1>1, <1>2, <1>7 DEF TypeOK
      <3>2. QED
        BY <1>2, <1>5, <1>7, <1>10, <3>1 DEF ConflictOk, Superseded
    <2>2. QED
      BY <2>1 DEF PlanOk
  <1>13. QED
    BY <1>10, <1>11, <1>12 DEF Local

(* A pass that forgets its plan leaves nothing to justify but rows and files. *)
LEMMA ForgetEdits ==
    ASSUME TypeOK, NEW d \in Device, Forget(d)
    PROVE  /\ BatchInPlace(d)' /\ OpsInPlace(d)' /\ Preserving(d)' /\ PlanOk(d)'
           /\ \A g \in Device : deltas'[g] \subseteq deltas[g]
           /\ deltas'[d] = {} /\ plan'[d] = {} /\ ops'[d] = <<>> /\ pc'[d] = "idle"
  <1>1. /\ pc'[d] = "idle" /\ plan'[d] = {} /\ deltas'[d] = {} /\ ops'[d] = <<>>
        /\ \A g \in Device : deltas'[g] \subseteq deltas[g]
    BY DEF TypeOK, Forget
  <1>2. QED
    BY <1>1 DEF BatchInPlace, OpsInPlace, Preserving, PlanOk

LEMMA AbortInRenameEdits ==
    ASSUME IInv, EditInv, NEW d \in Device, NEW p \in Path, AbortInRename(d, p)
    PROVE  Shared' /\ Local(d)'
  <1>1. TypeOK /\ Local(d)
    BY DEF IInv, EditInv
  <1>2. Forget(d) /\ UNCHANGED <<base, log, edits, live>>
    BY DEF AbortInRename, store
  <1>3. /\ BatchInPlace(d)' /\ OpsInPlace(d)' /\ Preserving(d)' /\ PlanOk(d)'
        /\ deltas'[d] = {} /\ \A g \in Device : deltas'[g] \subseteq deltas[g]
    BY <1>1, <1>2, ForgetEdits
  <1>4. /\ files[d][p] # None /\ p \notin Copy
        /\ base[d][p] # None => Superseded(p, base[d][p])
    <2>1. ASSUME NEW e \in losers[d], pc[d] = "preserve", e.path = p, files[d][p] = e.hash
          PROVE  /\ files[d][p] # None /\ p \notin Copy
                 /\ base[d][p] # None => Superseded(p, base[d][p])
      BY <2>1, LoserIsNoCopy
    <2>2. ASSUME [path |-> p, kind |-> "Conflict"] \in plan[d] PROVE ConflictOk(d, p)
      BY <1>1, <2>2 DEF Local, PlanOk
    <2>3. QED
      BY <2>1, <2>2 DEF AbortInRename, ConflictOk
  <1>5. PICK q \in FreshCopies : files' = RenamedAside(d, p, q)
    BY DEF AbortInRename
  <1>6. Shared' /\ RowsBehind(d)'
    BY <1>2, <1>3, <1>4, <1>5, AsideEdits
  <1>7. QED
    BY <1>3, <1>6 DEF Local
-----------------------------------------------------------------------------
(* Flushes. *)

(* An entry of d's batch that another device's file or row could be mistaken
   for is in the log already. *)
LEMMA BatchIsNews ==
    ASSUME IInv, EditInv, NEW d \in Device, NEW e \in deltas[d], NEW g \in Device,
           (g # d /\ e.hash = files[g][e.path]) \/ e.hash = base[g][e.path]
    PROVE  e \in Entries(log)
  <1>1. TypeOK /\ Shared /\ BatchInPlace(d)
    BY DEF IInv, EditInv, Local
  <1>2. e \in Every /\ e \in Entry /\ Entries(log) \subseteq Every
    BY <1>1, EveryType
  <1>3. e.path \in Path /\ e.hash # None
    BY <1>2, EntryParts
  <1>4. ASSUME NEW f \in Entries(log), f.path = e.path, f.hash = e.hash PROVE e \in Entries(log)
    BY <1>1, <1>2, <1>4 DEF Shared, OneEntry
  <1>5. CASE g # d /\ e.hash = files[g][e.path]
    <2>1. files[d][e.path] = e.hash
      BY <1>1 DEF BatchInPlace
    <2>2. Logged(e.path, e.hash)
      BY <1>1, <1>3, <1>5, <2>1 DEF Shared, OneOwner
    <2>3. QED
      BY <1>4, <2>2 DEF Logged
  <1>6. CASE e.hash = base[g][e.path]
    BY <1>3, <1>4, <1>6, RowLogged
  <1>7. QED
    BY <1>5, <1>6

(* The batch becomes part of the log: for what all devices share ... *)
LEMMA FlushLogShared ==
    ASSUME IInv, EditInv, NEW d \in Device, FlushLog(d)
    PROVE  Shared'
  <1>1. TypeOK /\ Shared /\ Local(d)
    BY DEF IInv, EditInv
  <1>2. UNCHANGED <<files, base, live, edits>>
    BY DEF FlushLog, folder
  <1>3. Entries(log)' = Entries(log) \cup deltas[d]
    BY FlushedLog DEF Known
  <1>4. \A g \in Device : deltas'[g] \subseteq deltas[g]
    BY <1>1 DEF FlushLog, TypeOK
  <1>5. Every' \subseteq Every /\ Entries(log) \subseteq Entries(log)'
    BY <1>3, <1>4 DEF Every
  <1>6. Old' /\ OneEntry' /\ NoTombstone' /\ CopyKept' /\ NoLostEdit'
    BY <1>1, <1>2, <1>5 DEF Shared, Old, OneEntry, NoTombstone, CopyKept, NoLostEdit
  <1>7. OneOwner' /\ Replaced'
    BY <1>1, <1>2, <1>5 DEF Shared, OneOwner, Replaced, Logged
  <1>8. AuthorHolds'
    <2>1. ASSUME NEW e \in deltas[d] PROVE Holds(e.dev, e.path, e.hash)'
      <3>1. e.dev = d
        BY <2>1 DEF IInv, Core, DeltaShape
      <3>2. files[d][e.path] = e.hash
        BY <1>1 DEF Local, BatchInPlace
      <3>3. QED
        BY <1>2, <3>1, <3>2 DEF Holds
    <2>2. QED
      BY <1>1, <1>2, <1>3, <2>1 DEF Shared, AuthorHolds, Holds
  <1>9. DevicesBounded'
    <2>1. PICK n \in Nat : \A e \in Entries(log) : e.dev <= n
      BY <1>1 DEF Shared, DevicesBounded
    <2> DEFINE top == IF n > d THEN n ELSE d
    <2>2. top \in Nat /\ n <= top /\ d <= top
      BY Numbers
    <2> HIDE DEF top
    <2>3. ASSUME NEW e \in Entries(log) PROVE e.dev <= top
      BY <1>1, <2>1, <2>2, EveryType, EntryParts
    <2>4. \A e \in deltas[d] : e.dev = d
      BY DEF IInv, Core, DeltaShape
    <2>5. QED
      BY <1>3, <2>2, <2>3, <2>4 DEF DevicesBounded
  <1>10. QED
    BY <1>6, <1>7, <1>8, <1>9 DEF Shared

(* ... and for each device, the one that flushed or another. *)
LEMMA FlushLogLocal ==
    ASSUME IInv, EditInv, NEW d \in Device, FlushLog(d), NEW g \in Device
    PROVE  Local(g)'
  <1> DEFINE es == Entries(log)
  <1>1. TypeOK /\ Shared /\ Local(g) /\ Core(g) /\ Core(d)
    BY DEF IInv, EditInv
  <1>2. /\ UNCHANGED <<files, base, live, view, losers, plan, stamp, ops>>
        /\ pc' = [pc EXCEPT ![d] = "flush"] /\ pc[d] = "apply"
    BY DEF FlushLog, folder
  <1>3. es' = es \cup deltas[d] /\ deltas'[d] = {}
    BY FlushedLog DEF Known
  <1>4. deltas'[g] \subseteq deltas[g] /\ (g # d => deltas'[g] = deltas[g] /\ pc'[g] = pc[g])
    BY <1>1, <1>2 DEF FlushLog, TypeOK
  <1>5. Known(g)' \subseteq Known(g) \cup deltas[d] /\ es \subseteq Known(g)
        /\ deltas[g] \subseteq Known(g)
    BY <1>3, <1>4 DEF Known
  <1>6. ASSUME NEW e \in deltas[d], (g # d /\ e.hash = files[g][e.path]) \/ e.hash = base[g][e.path]
        PROVE  e \in es
    BY <1>6, BatchIsNews
  <1>7. \A e \in deltas[d] : e.dev = d /\ e.lamport = stamp[d]
    BY <1>1 DEF Core, DeltaShape
  <1> HIDE DEF es
  <1>8. \A p, y : Superseded(p, y) => Superseded(p, y)'
    BY <1>3 DEF Superseded, es
  <1>9. BatchInPlace(g)' /\ OpsInPlace(g)'
    BY <1>1, <1>2, <1>4 DEF Local, BatchInPlace, OpsInPlace
  <1>10. RowsBehind(g)'
    <2>1. ASSUME NEW e \in Known(g)', NEW f \in es', e.path = f.path,
                 e.hash = files[g][e.path], f.hash = base[g][e.path]
          PROVE  e \in Known(g) /\ f \in es
      <3>1. f \in es
        BY <1>3, <1>6, <2>1
      <3>2. e \in Known(g)
        <4>1. CASE e \in deltas[d] /\ g # d
          BY <1>5, <1>6, <2>1, <4>1
        <4>2. CASE e \in deltas[d] /\ g = d
          BY <1>5, <4>2
        <4>3. QED
          BY <1>5, <4>1, <4>2
      <3>3. QED
        BY <3>1, <3>2
    <2>2. QED
      BY <1>1, <1>2, <1>8, <2>1 DEF Local, RowsBehind, es
  <1>11. Preserving(g)'
    <2>1. CASE g = d
      BY <1>1, <1>2, <2>1 DEF Preserving, TypeOK
    <2>2. CASE g # d
      <3>1. ASSUME NEW e \in es', e.hash \in {files[g][e.path], base[g][e.path]} PROVE e \in es
        BY <1>3, <1>6, <2>2, <3>1
      <3>2. \A e : Seen(g, e)' = Seen(g, e)
        BY <1>2 DEF Seen
      <3>3. es \subseteq es'
        BY <1>3
      <3>4. QED
        BY <1>1, <1>2, <1>4, <2>2, <3>1, <3>2, <3>3 DEF Local, Preserving, es
    <2>3. QED
      BY <2>1, <2>2
  <1>12. ASSUME NEW a \in plan[g]
         PROVE  /\ UploadOk(g, a.path) => UploadOk(g, a.path)'
                /\ DownloadOk(g, a.path) => DownloadOk(g, a.path)'
                /\ ConflictOk(g, a.path) => ConflictOk(g, a.path)'
    <2> DEFINE p == a.path
    <2>1. ASSUME g = d, NEW e \in deltas[d] PROVE e.path # p
      BY <1>1, <1>7, <2>1 DEF Core, Unspent, Known
    <2> HIDE DEF p
    <2>2. ASSUME NEW e \in es', e.path = p, e.hash = files[g][p] PROVE e \in es
      BY <1>3, <1>6, <2>1, <2>2
    <2>3. ASSUME NEW e \in es', e.path = p, e.hash = base[g][p] PROVE e \in es
      BY <1>3, <1>6, <2>3
    <2>4. es \subseteq es'
      BY <1>3
    <2>5. UploadOk(g, p) => UploadOk(g, p)'
      BY <1>2, <2>2, <2>4 DEF UploadOk, Logged, es
    <2>6. DownloadOk(g, p) => DownloadOk(g, p)'
      BY <1>2, <2>2, <2>3, <2>4 DEF DownloadOk, es
    <2>7. ConflictOk(g, p) => ConflictOk(g, p)'
      BY <1>2, <1>8 DEF ConflictOk
    <2>8. QED
      BY <2>5, <2>6, <2>7 DEF p
  <1>13. PlanOk(g)'
    BY <1>1, <1>2, <1>12 DEF Local, PlanOk
  <1>14. QED
    BY <1>9, <1>10, <1>11, <1>13 DEF Local

(* A row is set to what its file holds. *)
LEMMA FlushOpEdits ==
    ASSUME IInv, EditInv, NEW d \in Device, FlushOp(d)
    PROVE  Shared' /\ Local(d)'
  <1> DEFINE o == Head(ops[d])
             p == o.path
  <1>1. TypeOK /\ Shared /\ Local(d)
    BY DEF IInv, EditInv
  <1>2. /\ pc[d] = "flush" /\ ops[d] # <<>> /\ ops'[d] = Tail(ops[d])
        /\ base' = [base EXCEPT ![d][p] = IF o.op = "Confirm" THEN o.hash ELSE None]
        /\ UNCHANGED <<files, live, edits, pc, view, losers, plan, stamp, deltas, log>>
    BY <1>1 DEF FlushOp, TypeOK, store, folder
  <1>3. ops[d] \in Seq(BaselineOp)
    BY <1>1 DEF TypeOK
  <1>4. o \in BaselineOp /\ 1 \in 1..Len(ops[d]) /\ o = ops[d][1]
    BY <1>2, <1>3
  <1>5. /\ o.op = "Confirm" /\ files[d][p] = o.hash /\ p \in Path
        /\ \A a \in plan[d] : a.path # p
    BY <1>1, <1>4 DEF Local, OpsInPlace, BaselineOp
  <1> HIDE DEF o, p
  <1>6. base'[d][p] = files[d][p] /\ \A r \in Path : r # p => base'[d][r] = base[d][r]
    BY <1>1, <1>2, <1>5 DEF TypeOK
  <1>7. Shared'
    BY <1>1, <1>2, SharedFrame
  <1>8. BatchInPlace(d)' /\ Preserving(d)'
    BY <1>1, <1>2 DEF Local, BatchInPlace, Preserving
  <1>9. Entries(log)' = Entries(log) /\ Known(d)' = Known(d)
    BY <1>2 DEF Entries, Known
  <1>10. RowsBehind(d)'
    BY <1>1, <1>2, <1>6, <1>9 DEF Local, RowsBehind, Superseded
  <1>11. OpsInPlace(d)'
    <2>1. \A i \in 1..Len(ops'[d]) : i + 1 \in 1..Len(ops[d]) /\ ops'[d][i] = ops[d][i + 1]
      BY <1>2, <1>3
    <2>2. QED
      BY <1>1, <1>2, <2>1 DEF Local, OpsInPlace
  <1>12. PlanOk(d)'
    <2>1. ASSUME NEW a \in plan[d]
          PROVE  /\ UploadOk(d, a.path) => UploadOk(d, a.path)'
                 /\ DownloadOk(d, a.path) => DownloadOk(d, a.path)'
                 /\ ConflictOk(d, a.path) => ConflictOk(d, a.path)'
      <3>1. a.path \in Path /\ a.path # p
        BY <1>1, <1>5 DEF TypeOK, Action
      <3>2. base'[d][a.path] = base[d][a.path]
        BY <1>6, <3>1
      <3>3. QED
        BY <1>2, <1>9, <3>2 DEF UploadOk, DownloadOk, ConflictOk, Logged, Superseded
    <2>2. QED
      BY <1>1, <1>2, <2>1 DEF Local, PlanOk
  <1>13. QED
    BY <1>7, <1>8, <1>10, <1>11, <1>12 DEF Local

-----------------------------------------------------------------------------
(* The user. *)

(* A new content is larger than every content the system knows. *)
LEMMA WriteFacts ==
    ASSUME Calm, IInv, EditInv, NEW d \in Device, NEW p \in Name, NEW c \in Content,
           UserWrite(d, p, c)
    PROVE  /\ p \in Path /\ p \notin Copy /\ pc[d] = "idle" /\ c = edits + 1 /\ edits \in Nat
           /\ files'[d][p] = c /\ edits' = edits + 1
           /\ \A r \in Path : r # p => files'[d][r] = files[d][r]
           /\ \A g \in Device : g # d => files'[g] = files[g]
           /\ live' = (live \ {files[d][p]}) \cup {c}
           /\ UNCHANGED <<base, pc, view, losers, plan, stamp, deltas, ops, log>>
           /\ Every' = Every /\ Entries(log)' = Entries(log)
           /\ \A e \in Every : e.hash # c /\ e.hash <= edits
           /\ \A g \in Device, r \in Path : files[g][r] # c /\ base[g][r] # c
           /\ \A y : y # c /\ y \notin live => y \notin live'
  <1>1. TypeOK /\ Old /\ p \in Path /\ p \notin Copy
    BY DEF IInv, EditInv, Shared, Name
  <1>2. /\ pc[d] = "idle" /\ c = edits + 1 /\ edits' = edits + 1
        /\ files' = [files EXCEPT ![d][p] = c] /\ live' = (live \ {files[d][p]}) \cup {c}
        /\ UNCHANGED <<base, pc, view, losers, plan, stamp, deltas, ops, log>>
    BY DEF UserWrite, MayTouch, Calm, volatile, store
  <1>3. edits \in Nat
    BY <1>1 DEF TypeOK
  <1>4. /\ files'[d][p] = c /\ \A r \in Path : r # p => files'[d][r] = files[d][r]
        /\ \A g \in Device : g # d => files'[g] = files[g]
    BY <1>1, <1>2 DEF TypeOK
  <1>5. Every' = Every /\ Entries(log)' = Entries(log)
    BY <1>2 DEF Every, Entries
  <1>6. ASSUME NEW e \in Every PROVE e.hash # c /\ e.hash <= edits
    <2>1. e.hash <= edits /\ e.hash \in Nat
      BY <1>1, EveryType, EntryParts DEF Old
    <2>2. QED
      BY <1>2, <1>3, <2>1
  <1>7. ASSUME NEW g \in Device, NEW r \in Path PROVE files[g][r] # c /\ base[g][r] # c
    <2>1. files[g][r] <= edits /\ base[g][r] <= edits /\ files[g][r] \in Hash
      BY <1>1, RowOld DEF Old, TypeOK
    <2>2. files[g][r] \in Nat /\ base[g][r] \in Nat
      BY <1>1, <2>1, RowOld, Numbers
    <2>3. QED
      BY <1>2, <1>3, <2>1, <2>2
  <1>8. QED
    BY <1>1, <1>2, <1>3, <1>4, <1>5, <1>6, <1>7

LEMMA WriteShared ==
    ASSUME Calm, IInv, EditInv, NEW d \in Device, NEW p \in Name, NEW c \in Content,
           UserWrite(d, p, c)
    PROVE  Shared'
  <1> DEFINE es == Entries(log)
             x == files[d][p]
  <1>1. TypeOK /\ Shared /\ PassShape(d)
    BY DEF IInv, EditInv, Core
  <1>2. /\ p \in Path /\ p \notin Copy /\ pc[d] = "idle" /\ c = edits + 1 /\ edits \in Nat
        /\ files'[d][p] = c /\ edits' = edits + 1
        /\ \A r \in Path : r # p => files'[d][r] = files[d][r]
        /\ \A g \in Device : g # d => files'[g] = files[g]
        /\ live' = (live \ {x}) \cup {c} /\ deltas' = deltas
        /\ Every' = Every /\ es' = es
        /\ \A e \in Every : e.hash # c /\ e.hash <= edits
        /\ \A g \in Device, r \in Path : files[g][r] # c
    BY WriteFacts
  <1>3. Every \subseteq Entry /\ es \subseteq Every
    BY <1>1, EveryType
  <1> HIDE DEF es, x
  <1>4. Old'
    <2>1. ASSUME NEW g \in Device, NEW r \in Path PROVE files[g][r] <= edits /\ files[g][r] \in Nat
      <3>1. files[g][r] \in Hash
        BY <1>1 DEF TypeOK
      <3>2. QED
        BY <1>1, <3>1, Numbers DEF Shared, Old
    <2>2. \A y \in live : y <= edits /\ y \in Nat
      BY <1>1, Numbers DEF Shared, Old, TypeOK
    <2>3. \A e \in Every : e.hash \in Nat
      BY <1>3, EntryParts
    <2>4. ASSUME NEW g \in Device, NEW r \in Path PROVE files'[g][r] <= edits'
      <3>1. CASE g = d /\ r = p
        BY <1>2, <3>1
      <3>2. CASE ~(g = d /\ r = p)
        <4>1. files'[g][r] = files[g][r]
          BY <1>2, <3>2
        <4>2. QED
          BY <1>2, <2>1, <4>1
      <3>3. QED
        BY <3>1, <3>2
    <2>5. \A e \in Every : e.hash <= edits'
      BY <1>2, <2>3
    <2>6. \A y \in live' : y <= edits'
      BY <1>2, <2>2
    <2>7. QED
      BY <1>2, <2>4, <2>5, <2>6 DEF Old
  <1>5. OneOwner'
    <2>1. \A r, y : Logged(r, y)' = Logged(r, y)
      BY <1>2 DEF Logged, es
    <2>2. ASSUME NEW a \in Device, NEW g \in Device, NEW r \in Path,
                 a # g, files'[a][r] # None, files'[a][r] = files'[g][r]
          PROVE  Logged(r, files'[a][r])
      <3>1. ~(r = p /\ (a = d \/ g = d))
        BY <1>2, <2>2
      <3>2. files'[a][r] = files[a][r] /\ files'[g][r] = files[g][r]
        BY <1>2, <3>1
      <3>3. QED
        BY <1>1, <2>2, <3>2 DEF Shared, OneOwner
    <2>3. QED
      BY <2>1, <2>2 DEF OneOwner
  <1>6. OneEntry' /\ NoTombstone' /\ DevicesBounded'
    BY <1>1, <1>2 DEF Shared, OneEntry, NoTombstone, DevicesBounded, es
  <1>7. CopyKept'
    <2>1. \A g \in Device, q \in Copy : files'[g][q] = files[g][q]
      BY <1>2, CopyAssumption
    <2>2. \A e \in Every : e.dev \in Device
      BY <1>3, EntryParts
    <2>3. QED
      BY <1>1, <1>2, <2>1, <2>2 DEF Shared, CopyKept
  <1>8. AuthorHolds'
    <2>1. ASSUME NEW e \in es, e.hash \in live' PROVE Holds(e.dev, e.path, e.hash)'
      <3>1. e.hash \in live /\ e.hash # x
        BY <1>2, <1>3, <2>1
      <3>2. Holds(e.dev, e.path, e.hash) /\ e.dev \in Device /\ e.path \in Path
        BY <1>1, <1>3, <3>1, EntryParts DEF Shared, AuthorHolds, es
      <3>3. CASE files[e.dev][e.path] = e.hash
        <4>1. ~(e.dev = d /\ e.path = p)
          BY <3>1, <3>3 DEF x
        <4>2. QED
          BY <1>2, <3>2, <3>3, <4>1 DEF Holds
      <3>4. ASSUME NEW q \in Copy, files[e.dev][q] = e.hash PROVE Holds(e.dev, e.path, e.hash)'
        <4>1. files'[e.dev][q] = e.hash
          BY <1>2, <3>2, <3>4, CopyAssumption
        <4>2. QED
          BY <4>1 DEF Holds
      <3>5. QED
        BY <3>2, <3>3, <3>4 DEF Holds
    <2>2. QED
      BY <1>2, <2>1 DEF AuthorHolds, es
  <1>9. Replaced'
    <2>1. ASSUME NEW e \in Every PROVE e.base \notin live'
      <3>1. e.base # c
        <4>1. CASE e.base = None
          BY <4>1, Numbers
        <4>2. CASE e.base # None
          BY <1>1, <1>2, <1>3, <4>2 DEF Shared, Replaced, es
        <4>3. QED
          BY <4>1, <4>2
      <3>2. e.base \notin live
        BY <1>1 DEF Shared, Replaced
      <3>3. QED
        BY <1>2, <3>1, <3>2
    <2>2. QED
      BY <1>1, <1>2, <2>1 DEF Shared, Replaced, es
  <1>10. NoLostEdit'
    <2>1. ASSUME NEW y \in live' PROVE \E a \in Device, r \in Path : files'[a][r] = y
      <3>1. CASE y = c
        BY <1>2, <3>1
      <3>2. CASE y # c
        <4>1. y \in live /\ y # x
          BY <1>2, <2>1, <3>2
        <4>2. PICK a \in Device, r \in Path : files[a][r] = y
          BY <1>1, <4>1 DEF Shared, NoLostEdit
        <4>3. ~(a = d /\ r = p)
          BY <4>1, <4>2 DEF x
        <4>4. files'[a][r] = y
          BY <1>2, <4>2, <4>3
        <4>5. QED
          BY <4>4
      <3>3. QED
        BY <3>1, <3>2
    <2>2. QED
      BY <2>1 DEF NoLostEdit
  <1>11. QED
    BY <1>4, <1>5, <1>6, <1>7, <1>8, <1>9, <1>10 DEF Shared

LEMMA WriteLocal ==
    ASSUME Calm, IInv, EditInv, NEW d \in Device, NEW p \in Name, NEW c \in Content,
           UserWrite(d, p, c), NEW g \in Device
    PROVE  Local(g)'
  <1> DEFINE es == Entries(log)
             x == files[d][p]
  <1>1. TypeOK /\ Shared /\ Local(g) /\ PassShape(g) /\ OpsShape(g)
    BY DEF IInv, EditInv, Core
  <1>2. /\ p \in Path /\ p \notin Copy /\ pc[d] = "idle"
        /\ files'[d][p] = c
        /\ \A r \in Path : r # p => files'[d][r] = files[d][r]
        /\ g # d => files'[g] = files[g]
        /\ live' = (live \ {x}) \cup {c}
        /\ UNCHANGED <<base, pc, view, losers, plan, stamp, deltas, ops, log>>
        /\ es' = es
        /\ \A e \in Every : e.hash # c
        /\ \A r \in Path : files[g][r] # c /\ base[g][r] # c
        /\ \A y : y # c /\ y \notin live => y \notin live'
    BY WriteFacts
  <1>3. /\ Known(g)' = Known(g) /\ Known(g) \subseteq Every /\ es \subseteq Every
        /\ view[g] \subseteq Every /\ Every \subseteq Entry
    BY <1>1, <1>2, EveryType, ViewIs DEF Known
  <1> HIDE DEF es, x
  <1>4. \A r, y : Superseded(r, y)' = Superseded(r, y)
    BY <1>2 DEF Superseded, es
  <1>5. g = d => plan[g] = {} /\ deltas[g] = {} /\ ops[g] = <<>>
    BY <1>1, <1>2 DEF PassShape, OpsShape
  <1>6. BatchInPlace(g)' /\ OpsInPlace(g)'
    <2>1. CASE g = d
      BY <1>2, <1>5, <2>1 DEF BatchInPlace, OpsInPlace
    <2>2. CASE g # d
      BY <1>1, <1>2, <2>2 DEF Local, BatchInPlace, OpsInPlace
    <2>3. QED
      BY <2>1, <2>2
  <1>7. RowsBehind(g)'
    <2>1. ASSUME NEW r \in Path, base[g][r] # None, files'[g][r] # base[g][r]
          PROVE  /\ files'[g][r] = None => Superseded(r, base[g][r])
                 /\ base[g][r] \notin live' \/ Superseded(r, base[g][r])
                 /\ \A e \in Known(g), f \in es :
                       e.path = r /\ f.path = r /\ e.hash = files'[g][r] /\ f.hash = base[g][r]
                         => Beats(e, f)
      <3>1. CASE g = d /\ r = p
        <4>1. files'[g][r] = c /\ c # None
          BY <1>2, <3>1, Numbers
        <4>2. \A e \in Known(g) : e.hash # c
          BY <1>2, <1>3
        <4>3. base[g][r] \notin live' \/ Superseded(r, base[g][r])
          <5>1. CASE files[g][r] = base[g][r]
            BY <1>2, <3>1, <5>1 DEF x
          <5>2. CASE files[g][r] # base[g][r]
            BY <1>1, <1>2, <2>1, <5>2 DEF Local, RowsBehind
          <5>3. QED
            BY <5>1, <5>2
        <4>4. QED
          BY <4>1, <4>2, <4>3
      <3>2. CASE ~(g = d /\ r = p)
        <4>1. files'[g][r] = files[g][r]
          BY <1>2, <3>2
        <4>2. QED
          BY <1>1, <1>2, <2>1, <4>1 DEF Local, RowsBehind, es
      <3>3. QED
        BY <3>1, <3>2
    <2>2. QED
      BY <1>2, <1>3, <1>4, <2>1 DEF RowsBehind, es
  <1>8. Preserving(g)'
    <2>1. CASE g = d
      BY <1>2, <2>1 DEF Preserving
    <2>2. CASE g # d
      <3>1. \A e : Seen(g, e)' = Seen(g, e)
        BY <1>2 DEF Seen
      <3>2. \A e \in Every : e.hash \notin live => e.hash \notin live'
        BY <1>2
      <3>3. QED
        BY <1>1, <1>2, <1>3, <2>2, <3>1, <3>2 DEF Local, Preserving, es
    <2>3. QED
      BY <2>1, <2>2
  <1>9. PlanOk(g)'
    <2>1. CASE g = d
      BY <1>2, <1>5, <2>1 DEF PlanOk
    <2>2. CASE g # d
      <3>1. ASSUME NEW a \in plan[g]
            PROVE  /\ UploadOk(g, a.path) => UploadOk(g, a.path)'
                   /\ DownloadOk(g, a.path) => DownloadOk(g, a.path)'
                   /\ ConflictOk(g, a.path) => ConflictOk(g, a.path)'
        <4>1. a.path \in Path
          BY <1>1 DEF TypeOK, Action
        <4>2. base[g][a.path] \notin live => base[g][a.path] \notin live'
          BY <1>2, <4>1
        <4>3. \A e \in es : e.hash \notin live => e.hash \notin live'
          BY <1>2, <1>3
        <4>4. UploadOk(g, a.path) => UploadOk(g, a.path)'
          BY <1>2, <2>2, <4>2 DEF UploadOk, Logged, es
        <4>5. DownloadOk(g, a.path) => DownloadOk(g, a.path)'
          BY <1>2, <2>2, <4>3 DEF DownloadOk, es
        <4>6. ConflictOk(g, a.path) => ConflictOk(g, a.path)'
          BY <1>2, <1>4, <2>2 DEF ConflictOk
        <4>7. QED
          BY <4>4, <4>5, <4>6
      <3>2. QED
        BY <1>1, <1>2, <3>1 DEF Local, PlanOk
    <2>3. QED
      BY <2>1, <2>2
  <1>10. QED
    BY <1>6, <1>7, <1>8, <1>9 DEF Local
-----------------------------------------------------------------------------
(* Every step. *)

LEMMA InitEdits == Init => EditInv
  <1> SUFFICES ASSUME Init PROVE EditInv
    OBVIOUS
  <1>1. /\ Entries(log) = {} /\ Every = {} /\ live = {} /\ edits = 0
        /\ \A d \in Device, p \in Path : files[d][p] = None /\ base[d][p] = None
        /\ \A d \in Device : /\ deltas[d] = {} /\ ops[d] = <<>> /\ plan[d] = {} /\ pc[d] = "idle"
                              /\ Known(d) = {}
    BY DEF Init, Entries, Every, Known
  <1>2. Old /\ OneOwner /\ OneEntry /\ NoTombstone /\ AuthorHolds /\ Replaced /\ NoLostEdit
    BY <1>1 DEF Old, OneOwner, OneEntry, NoTombstone, AuthorHolds, Replaced, NoLostEdit, None
  <1>3. CopyKept /\ DevicesBounded
    BY <1>1, CopyAssumption DEF CopyKept, DevicesBounded
  <1>4. ASSUME NEW d \in Device PROVE Local(d)
    <2>1. BatchInPlace(d) /\ OpsInPlace(d) /\ Preserving(d) /\ PlanOk(d)
      BY <1>1 DEF BatchInPlace, OpsInPlace, Preserving, PlanOk
    <2>2. RowsBehind(d)
      BY <1>1 DEF RowsBehind
    <2>3. QED
      BY <2>1, <2>2 DEF Local
  <1>5. QED
    BY <1>2, <1>3, <1>4 DEF EditInv, Shared

(* A step that moves no file, sets no row and starts nothing. *)
LEMMA IdleEdits ==
    ASSUME IInv, EditInv, NEW d \in Device,
           UNCHANGED <<files, base, live, edits, log>>,
           \/ \E p, kind : Executing(d, p, kind) /\ UNCHANGED <<pc, view, losers, stamp, deltas, ops>>
           \/ Forget(d)
           \/ pc' = [pc EXCEPT ![d] = "apply"] /\ UNCHANGED <<view, losers, plan, stamp, deltas, ops>>
    PROVE  Shared' /\ Local(d)'
  <1>1. TypeOK /\ Shared /\ Local(d)
    BY DEF IInv, EditInv
  <1>2. /\ \A g \in Device : deltas'[g] \subseteq deltas[g]
        /\ plan'[d] \subseteq plan[d] /\ (ops'[d] = ops[d] \/ ops'[d] = <<>>)
        /\ plan'[d] = {} \/ (view'[d] = view[d] /\ stamp'[d] = stamp[d])
        /\ \/ pc'[d] # "preserve"
           \/ pc'[d] = pc[d] /\ view'[d] = view[d] /\ stamp'[d] = stamp[d] /\ losers'[d] = losers[d]
    <2>1. ASSUME NEW p, NEW kind, Executing(d, p, kind),
                 UNCHANGED <<pc, view, losers, stamp, deltas, ops>>
          PROVE  plan'[d] \subseteq plan[d]
      BY <2>1, ExecutingOk
    <2>2. CASE Forget(d)
      BY <1>1, <2>2, ForgetEdits
    <2>3. CASE pc' = [pc EXCEPT ![d] = "apply"] /\ UNCHANGED <<view, losers, plan, stamp, deltas, ops>>
      BY <1>1, <2>3 DEF TypeOK
    <2>4. QED
      BY <2>1, <2>2, <2>3
  <1>3. Shared'
    BY <1>1, <1>2, SharedFrame
  <1>4. Local(d)'
    BY <1>1, <1>2, LocalFrame
  <1>5. QED
    BY <1>3, <1>4

(* The plan holds no deletion, so none is executed. *)
LEMMA NoDeletion ==
    ASSUME IInv, EditInv, NEW d \in Device, NEW p \in Path
    PROVE  ~DeleteLocal(d, p) /\ ~DeleteRemote(d, p)
  <1>1. ASSUME DeleteLocal(d, p) PROVE FALSE
    <2>1. Executing(d, p, "DeleteLocal")
      BY <1>1 DEF DeleteLocal, ExecutingLate
    <2>2. QED
      BY <2>1, ExecutingOk
  <1>2. ASSUME DeleteRemote(d, p) PROVE FALSE
    <2>1. Executing(d, p, "DeleteRemote")
      BY <1>2 DEF DeleteRemote, ExecutingLate
    <2>2. QED
      BY <2>1, ExecutingOk
  <1>3. QED
    BY <1>1, <1>2

(* The steps that neither log nor write a new content. *)
LEMMA ActorEdits ==
    ASSUME Calm, IInv, EditInv, NEW d \in Device, PassStep(d) \/ Fault(d), ~FlushLog(d)
    PROVE  Shared' /\ Local(d)' /\ live' = live /\ log' = log
  <1> DEFINE Goal == Shared' /\ Local(d)' /\ live' = live /\ log' = log
  <1> USE DEF folder, store
  <1>1. CASE Fault(d)
    <2>1. ASSUME NEW p \in Path, NEW kind, TransferFails(d, p, kind) PROVE Goal
      <3>1. /\ UNCHANGED <<files, base, live, edits, log, pc, view, losers, stamp, deltas, ops>>
            /\ Executing(d, p, kind)
        BY <2>1 DEF TransferFails
      <3>2. QED
        BY <3>1, IdleEdits
    <2>2. CASE Abort(d)
      <3>1. UNCHANGED <<files, base, live, edits, log>> /\ Forget(d)
        BY <2>2 DEF Abort
      <3>2. QED
        BY <3>1, IdleEdits
    <2>3. ASSUME NEW p \in Path, AbortInRename(d, p) PROVE Goal
      BY <2>3, AbortInRenameEdits DEF AbortInRename
    <2>4. QED
      BY <1>1, <2>1, <2>2, <2>3 DEF Fault
  <1>2. CASE PassStep(d)
    <2>1. CASE ReadLog(d)
      BY <2>1, ReadLogEdits DEF ReadLog
    <2>2. ASSUME NEW e \in losers[d], Preserve(d, e) PROVE Goal
      BY <2>2, PreserveEdits DEF Preserve
    <2>3. CASE Scan(d)
      BY <2>3, ScanEdits DEF Scan
    <2>4. ASSUME NEW p \in Path, Upload(d, p) PROVE Goal
      BY <2>4, UploadEdits DEF Upload
    <2>5. ASSUME NEW p \in Path, UploadVanished(d, p) PROVE Goal
      <3>1. /\ UNCHANGED <<files, base, live, edits, log, pc, view, losers, stamp, deltas, ops>>
            /\ Executing(d, p, "Upload")
        BY <2>5 DEF UploadVanished
      <3>2. QED
        BY <3>1, IdleEdits
    <2>6. ASSUME NEW p \in Path, Download(d, p) PROVE Goal
      BY <2>6, DownloadEdits DEF Download
    <2>7. ASSUME NEW p \in Path, DeleteLocal(d, p) \/ DeleteRemote(d, p) PROVE Goal
      BY <2>7, NoDeletion
    <2>8. ASSUME NEW p \in Path, Conflict(d, p) PROVE Goal
      BY <2>8, ConflictEdits DEF Conflict
    <2>9. CASE FlushOp(d)
      BY <2>9, FlushOpEdits DEF FlushOp
    <2>10. CASE FlushDone(d)
      <3>1. /\ UNCHANGED <<files, base, live, edits, log, view, losers, plan, stamp, deltas, ops>>
            /\ pc' = [pc EXCEPT ![d] = "apply"]
        BY <2>10 DEF FlushDone
      <3>2. QED
        BY <3>1, IdleEdits
    <2>11. CASE Finish(d)
      <3>1. UNCHANGED <<files, base, live, edits, log>> /\ Forget(d)
        BY <2>11 DEF Finish
      <3>2. QED
        BY <3>1, IdleEdits
    <2>12. QED
      BY <1>2, <2>1, <2>2, <2>3, <2>4, <2>5, <2>6, <2>7, <2>8, <2>9, <2>10, <2>11 DEF PassStep
  <1>3. QED
    BY <1>1, <1>2

LEMMA NextEdits ==
    ASSUME Calm, IInv, EditInv, [Next]_vars
    PROVE  EditInv'
  <1>1. TypeOK
    BY DEF IInv
  <1>2. CASE UNCHANGED vars \/ Rest
    <2>1. UNCHANGED vars
      BY <1>2 DEF Rest
    <2>2. UNCHANGED <<files, base, live, edits, log, pc, view, losers, plan, stamp, deltas, ops>>
      BY <2>1 DEF vars, volatile, store
    <2>3. Shared'
      BY <1>1, <2>2, SharedFrame DEF EditInv
    <2>4. ASSUME NEW g \in Device PROVE Local(g)'
      BY <1>1, <2>2, LocalFrame DEF EditInv
    <2>5. QED
      BY <2>3, <2>4 DEF EditInv
  <1>3. ASSUME NEW d \in Device, FlushLog(d) PROVE EditInv'
    BY <1>3, FlushLogShared, FlushLogLocal DEF EditInv
  <1>4. ASSUME NEW d \in Device, User(d) PROVE EditInv'
    <2>1. PICK p \in Name, c \in Content : UserWrite(d, p, c)
      BY <1>4 DEF User, UserDelete, Calm
    <2>2. QED
      BY <2>1, WriteShared, WriteLocal DEF EditInv
  <1>5. ASSUME NEW d \in Device, PassStep(d) \/ Fault(d), ~FlushLog(d) PROVE EditInv'
    <2>1. Shared' /\ Local(d)' /\ live' = live /\ log' = log
      BY <1>5, ActorEdits
    <2>2. ASSUME NEW g \in Device, g # d PROVE Local(g)'
      <3>1. Apart(g) /\ files'[g] = files[g] /\ base'[g] = base[g] /\ losers'[g] = losers[g]
        BY <1>1, <1>5, <2>2, OthersApart, OthersStay
      <3>2. Local(g)
        BY DEF EditInv
      <3>3. QED
        BY <1>1, <2>1, <3>1, <3>2, LocalFrame DEF Apart, Still
    <2>3. QED
      BY <2>1, <2>2 DEF EditInv
  <1>6. QED
    BY <1>2, <1>3, <1>4, <1>5 DEF Next

-----------------------------------------------------------------------------
(* The theorems. *)

(* The invariant about edits holds throughout every behaviour of a calm user. *)
THEOREM EditsInductive ==
    ASSUME Calm
    PROVE  Spec => [](IInv /\ EditInv)
  <1>1. Init => IInv /\ EditInv
    BY InitInv, InitEdits
  <1>2. (IInv /\ EditInv) /\ [Next]_vars => (IInv /\ EditInv)'
    BY NextInv, NextEdits
  <1>3. QED
    BY <1>1, <1>2, PTL DEF Spec

(* No step of any device, and no crash at any point of a pass, loses an edit:
   what a user wrote and nobody replaced is in some folder, under its name or
   as a conflicted copy (preserve_conflict_losers, conflict, download). *)
THEOREM NoEditIsLost ==
    ASSUME Calm
    PROVE  Spec => []NoLostEdit
  <1>1. IInv /\ EditInv => NoLostEdit
    BY DEF EditInv, Shared
  <1>2. QED
    BY <1>1, EditsInductive, PTL

(* What is renamed aside is never the version that won the path. *)
LEMMA AsideLost ==
    ASSUME Calm, IInv, EditInv, [Next]_vars,
           NEW d \in Device, NEW p \in Name, NEW q \in Copy, Aside(d, p, q)
    PROVE  files[d][p] # Remote(view[d], p)
  <1>1. TypeOK /\ Local(d) /\ p \in Path /\ q \in Path /\ p # q
    BY CopyAssumption DEF IInv, EditInv, Name
  <1>2. files[d][p] # None /\ files'[d][p] = None
    BY DEF Aside
  <1>3. ASSUME NEW e \in losers[d], pc[d] = "preserve", files[d][e.path] = e.hash, e.path = p
        PROVE  files[d][p] # Remote(view[d], p)
    BY <1>3, LoserIsNoCopy
  <1>4. ASSUME NEW kind, [path |-> p, kind |-> kind] \in plan[d], kind = "Conflict"
        PROVE  files[d][p] # Remote(view[d], p)
    BY <1>1, <1>4 DEF Local, PlanOk, ConflictOk
  <1>5. ASSUME NEW r, NEW t \in FreshCopies, files' = RenamedAside(d, r, t) PROVE r = p
    <2>1. t # p
      BY <1>2 DEF FreshCopies
    <2>2. QED
      BY <1>1, <1>2, <1>5, <2>1 DEF RenamedAside, TypeOK
  <1>6. PICK g \in Device : PassStep(g) \/ Fault(g) \/ User(g)
    <2>1. files' # files
      BY <1>2
    <2>2. QED
      BY <2>1 DEF Next, Rest, vars
  <1>7. g = d
    BY <1>1, <1>2, <1>6, OthersStay
  <1>8. CASE User(d)
    <2>1. PICK r \in Name, c \in Content : UserWrite(d, r, c)
      BY <1>8 DEF User, UserDelete, Calm
    <2>2. files'[d][p] # None
      BY <1>1, <1>2, <2>1, Numbers DEF UserWrite, TypeOK
    <2>3. QED
      BY <1>2, <2>2
  <1>9. CASE Fault(d)
    <2>1. PICK r \in Path : AbortInRename(d, r)
      <3>1. files' # files
        BY <1>2
      <3>2. QED
        BY <1>9, <3>1 DEF Fault, TransferFails, Abort, folder
    <2>2. r = p
      BY <1>5, <2>1 DEF AbortInRename
    <2>3. QED
      BY <1>3, <1>4, <2>1, <2>2 DEF AbortInRename
  <1>10. CASE PassStep(d)
    <2>1. files' # files
      BY <1>2
    <2>2. \/ \E e \in losers[d] : Preserve(d, e)
          \/ \E r \in Path : Download(d, r) \/ Conflict(d, r)
      BY <1>10, <2>1, NoDeletion
         DEF PassStep, ReadLog, Scan, Upload, UploadVanished, FlushLog, FlushOp, FlushDone, Finish, folder
    <2>3. ASSUME NEW e \in losers[d], Preserve(d, e) PROVE files[d][p] # Remote(view[d], p)
      <3>1. files[d][e.path] = e.hash /\ pc[d] = "preserve" /\ \E t \in FreshCopies : files' = RenamedAside(d, e.path, t)
        BY <2>1, <2>3 DEF Preserve
      <3>2. e.path = p
        BY <1>5, <3>1
      <3>3. QED
        BY <1>3, <3>1, <3>2
    <2>4. ASSUME NEW r \in Path, Download(d, r) PROVE FALSE
      <3>1. EntryAt(view[d], r).hash # None /\ files' = [files EXCEPT ![d][r] = EntryAt(view[d], r).hash]
        BY <1>1, <2>4, Numbers DEF Download, TypeOK
      <3>2. QED
        BY <1>1, <1>2, <3>1 DEF TypeOK
    <2>5. ASSUME NEW r \in Path, Conflict(d, r) PROVE files[d][p] # Remote(view[d], p)
      <3>1. [path |-> r, kind |-> "Conflict"] \in plan[d] /\ \E t \in FreshCopies : files' = RenamedAside(d, r, t)
        BY <2>1, <2>5 DEF Conflict, ExecutingLate, Executing
      <3>2. r = p
        BY <1>5, <3>1
      <3>3. QED
        BY <1>4, <3>1, <3>2
    <2>6. QED
      BY <2>2, <2>3, <2>4, <2>5
  <1>11. QED
    BY <1>6, <1>7, <1>8, <1>9, <1>10

(* The winner keeps its path on every device: a step that renames a file to a
   conflicted copy never takes the version the pass's own manifest holds there. *)
THEOREM WinnerStays ==
    ASSUME Calm
    PROVE  Spec => WinnerKeepsPath
  <1>1. IInv /\ EditInv /\ [Next]_vars
          => [\A d \in Device, p \in Name, q \in Copy :
                 Aside(d, p, q) => files[d][p] # Remote(view[d], p)]_files
    BY AsideLost
  <1>2. QED
    BY <1>1, EditsInductive, PTL DEF Spec, WinnerKeepsPath
=============================================================================
