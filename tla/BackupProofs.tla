---------------------------- MODULE BackupProofs ----------------------------
(***************************************************************************)
(* Of Backup, for any clients, blobs and bounds: the types, that no run    *)
(* stores a blob twice, that a prune which holds its lock is alone, that   *)
(* every snapshot can be restored, through every failure and crash, and    *)
(* that a prune leaves nothing behind that no snapshot needs.              *)
(***************************************************************************)
EXTENDS Backup, TLAPS

(* What a listing, a snapshot and a run may be. *)
Good == {l \in Listing : l.blobs \subseteq l.pack.blobs}
Snapshot == [run : RunId, host : Client, blobs : SUBSET Blob]
IndexObject == [run : RunId, packs : SUBSET Good]

State == {"idle", "opened", "locking", "listed", "held", "failed", "release"}
         \cup Writing \cup Pruning

Field == {"id", "exclusive", "known", "parent", "tree", "writer", "inflight", "newPacks",
          "lost", "refreshing", "others", "staleThen", "forget", "needed", "sources", "kept",
          "repack", "doomed", "spared"}

RunOk(r) ==
    /\ DOMAIN r = Field
    /\ r.exclusive \in BOOLEAN
    /\ r.known \subseteq Good /\ r.newPacks \subseteq Good /\ r.kept \subseteq Good
    /\ r.parent \subseteq Blob /\ r.tree \subseteq Blob /\ r.writer \subseteq Blob
    /\ r.inflight \subseteq Pack
    /\ r.repack \subseteq {l \in Good : l.blobs # {}}

Typed ==
    /\ packs \subseteq Pack /\ aged \subseteq packs
    /\ indexes \subseteq IndexObject
    /\ snaps \subseteq Snapshot
    /\ locks \subseteq Lock /\ stale \subseteq locks
    /\ pc \in [Client -> State]
    /\ DOMAIN run = Client /\ \A c \in Client : RunOk(run[c])
    /\ \A c \in Client : IF pc[c] = "idle" THEN ~run[c].refreshing ELSE run[c].id \in RunId
    /\ runs \in Nat /\ runs <= MaxRuns + 2

-----------------------------------------------------------------------------
(* Types. *)

LEMMA TypedSuffices == Typed => TypeOK
  BY DEF Typed, TypeOK, Good, Snapshot, IndexObject

LEMMA NoRunTyped == RunOk(NoRun)
  BY DEF NoRun, RunOk, Field

(* Listings made of packs, and what is read from indexes, are good ones. *)
LEMMA AsListingsGood == ASSUME NEW ps \in SUBSET Pack PROVE AsListings(ps) \in SUBSET Good
  BY DEF AsListings, Good, Listing, Pack

LEMMA ListingsGood == ASSUME NEW is \in SUBSET IndexObject PROVE Listings(is) \in SUBSET Good
  BY DEF Listings, IndexObject

LEMMA CoveredBlobs == ASSUME NEW ls \in SUBSET Good PROVE Covered(ls) \in SUBSET Blob
  BY DEF Covered, Good, Listing, Pack

(* One run moves: what is to be shown of its step. *)
RunsOk ==
    /\ pc \in [Client -> State]
    /\ DOMAIN run = Client /\ \A d \in Client : RunOk(run[d])
    /\ \A d \in Client : IF pc[d] = "idle" THEN ~run[d].refreshing ELSE run[d].id \in RunId

LEMMA RunMoves ==
    ASSUME Typed, NEW c \in Client, NEW s \in State, NEW r, RunOk(r), r.id \in RunId, s # "idle",
           pc' = [pc EXCEPT ![c] = s], run' = [run EXCEPT ![c] = r]
    PROVE  RunsOk'
  BY DEF Typed, RunsOk

LEMMA RunEnds ==
    ASSUME Typed, NEW c \in Client, Set(c, "idle", NoRun)
    PROVE  RunsOk'
  <1>1. "idle" \in State /\ ~NoRun.refreshing
    BY DEF State, NoRun
  <1>2. QED
    BY <1>1, NoRunTyped DEF Typed, RunsOk, Set

(* What a step that only moves c's run has to show. *)
LEMMA OnlyRunMoves ==
    ASSUME Typed, NEW c \in Client, NEW s \in State, NEW r, RunOk(r), r.id \in RunId, s # "idle",
           pc' = [pc EXCEPT ![c] = s], run' = [run EXCEPT ![c] = r],
           UNCHANGED <<bucket, runs>>
    PROVE  Typed'
  <1>1. UNCHANGED <<packs, aged, indexes, snaps, locks, stale, runs>>
    BY DEF bucket
  <1>2. QED
    BY <1>1, RunMoves DEF Typed, RunsOk

LEMMA RunTyped ==
    ASSUME Typed, NEW c \in Client, pc[c] # "idle"
    PROVE  RunOk(run[c]) /\ run[c].id \in RunId /\ pc[c] \in State
  BY DEF Typed

LEMMA MyLockTyped ==
    ASSUME Typed, NEW c \in Client, pc[c] # "idle"
    PROVE  MyLock(c) \in Lock
  BY DEF Typed, RunOk, MyLock, Lock

LEMMA InitTyped == Init => Typed
  <1> SUFFICES ASSUME Init PROVE Typed
    OBVIOUS
  <1>0. 1 \in RunId /\ 2 \in RunId /\ 2 <= MaxRuns + 2
    BY LimitAssumption DEF RunId
  <1>1. PICK h \in Client, s \in (SUBSET Blob) \ {{}}, t \in (SUBSET Blob) \ {{}} :
          /\ snaps = {[run |-> 1, host |-> h, blobs |-> s],
                      [run |-> 2, host |-> h, blobs |-> t]}
          /\ packs = {p \in {[run |-> 1, blobs |-> s], [run |-> 2, blobs |-> t \ s]} :
                         p.blobs # {}}
    BY DEF Init
  <1>2. packs \subseteq Pack
    BY <1>0, <1>1 DEF Pack
  <1>3. snaps \subseteq Snapshot
    BY <1>0, <1>1 DEF Snapshot
  <1>4. \A p \in packs : /\ [pack |-> p, blobs |-> p.blobs] \in Good
                         /\ p.run \in RunId
    BY <1>2 DEF Good, Listing, Pack
  <1>5. indexes \subseteq IndexObject
    <2>1. indexes = {[run |-> p.run, packs |-> {[pack |-> p, blobs |-> p.blobs]}] : p \in packs}
      BY DEF Init
    <2>2. ASSUME NEW p \in packs
          PROVE  [run |-> p.run, packs |-> {[pack |-> p, blobs |-> p.blobs]}] \in IndexObject
      BY <1>4 DEF IndexObject
    <2>3. QED
      BY <2>1, <2>2
  <1>6. pc \in [Client -> State] /\ \A c \in Client : run[c] = NoRun
    BY DEF Init, State
  <1>7. QED
    BY <1>0, <1>2, <1>3, <1>5, <1>6, NoRunTyped DEF Init, Typed, NoRun

LEMMA OpenTyped == ASSUME Typed, NEW c \in Client, OpenBackup(c) \/ OpenPrune(c) PROVE Typed'
  <1>1. runs' = runs + 1 /\ runs' \in RunId /\ runs' \in Nat /\ runs' <= MaxRuns + 2
    <2>1. runs < MaxRuns + 2 /\ runs' = runs + 1
      BY DEF OpenBackup, OpenPrune, Start
    <2>2. QED
      BY <2>1, LimitAssumption DEF Typed, RunId
  <1>2. RunOk(Opened) /\ Opened.id = runs'
    <2>1. Listings(indexes) \subseteq Good
      BY ListingsGood DEF Typed
    <2>2. QED
      BY <2>1, NoRunTyped DEF Opened, RunOk, Field
  <1>3. \E r : RunOk(r) /\ r.id = runs' /\ Set(c, "opened", r)
    <2>1. CASE OpenBackup(c)
      <3>1. PICK parents \in {{}, Newest(c)} :
              Set(c, "opened", [Opened EXCEPT !.parent = UNION {s.blobs : s \in parents}])
        BY <2>1 DEF OpenBackup
      <3>2. UNION {s.blobs : s \in parents} \in SUBSET Blob
        BY <3>1 DEF Newest, Typed, Snapshot
      <3>3. QED
        BY <3>1, <3>2, <1>2 DEF RunOk, Field
    <2>2. CASE OpenPrune(c)
      <3>1. PICK forget \in SUBSET {s \in snaps : s \notin Newest(s.host)} :
              Set(c, "opened", [Opened EXCEPT !.exclusive = TRUE, !.forget = forget])
        BY <2>2 DEF OpenPrune
      <3>2. QED
        BY <3>1, <1>2 DEF RunOk, Field
    <2>3. QED
      BY <2>1, <2>2
  <1>4. UNCHANGED <<packs, aged, indexes, snaps, locks, stale>>
    BY DEF OpenBackup, OpenPrune, bucket
  <1>5. QED
    BY <1>1, <1>3, <1>4, RunMoves DEF Typed, RunsOk, Set, State

LEMMA LockTyped ==
    ASSUME Typed, NEW c \in Client, PutLock(c) \/ ListLocks(c) \/ Judge(c) \/ EnsureHeld(c) \/ Release(c)
    PROVE  Typed'
  <1>1. CASE PutLock(c)
    BY <1>1, RunTyped, MyLockTyped DEF PutLock, Typed, State, counters
  <1>2. CASE ListLocks(c)
    <2> DEFINE r == [run[c] EXCEPT !.others = locks \ (stale \cup {MyLock(c)}), !.staleThen = stale]
    <2>1. RunOk(r) /\ r.id = run[c].id
      BY <1>2, RunTyped DEF ListLocks, RunOk, Field
    <2>2. QED
      BY <1>2, <2>1, RunTyped, OnlyRunMoves DEF ListLocks, Set, State, counters
  <1>3. CASE Judge(c)
    <2>1. CASE Conflicting(c)
      BY <1>3, <2>1, RunEnds DEF Judge, Typed, RunsOk, counters
    <2>2. CASE ~Conflicting(c)
      <3> DEFINE r == [run[c] EXCEPT !.others = {}]
      <3>1. RunOk(r) /\ r.id = run[c].id
        BY <1>3, RunTyped DEF Judge, RunOk, Field
      <3>2. QED
        BY <1>3, <2>2, <3>1, RunTyped, OnlyRunMoves DEF Judge, Set, State, counters, bucket
    <2>3. QED
      BY <2>1, <2>2
  <1>4. CASE EnsureHeld(c)
    BY <1>4 DEF EnsureHeld, Typed, State, Writing, Pruning, bucket, counters
  <1>5. CASE Release(c)
    BY <1>5, RunEnds DEF Release, Typed, RunsOk, counters
  <1>6. QED
    BY <1>1, <1>2, <1>3, <1>4, <1>5

LEMMA RefreshTyped ==
    ASSUME Typed, NEW c \in Client, RefreshHead(c) \/ RefreshPut(c)
    PROVE  Typed'
  <1>1. CASE RefreshHead(c)
    <2>1. pc[c] # "idle"
      BY <1>1 DEF RefreshHead, Holding, Writing, Pruning
    <2>2. \E r : RunOk(r) /\ r.id = run[c].id /\ run' = [run EXCEPT ![c] = r]
      BY <1>1, <2>1, RunTyped DEF RefreshHead, RunOk, Field
    <2>3. QED
      BY <1>1, <2>1, <2>2, RunTyped DEF RefreshHead, Typed, bucket, counters
  <1>2. CASE RefreshPut(c)
    <2>1. pc[c] # "idle"
      BY <1>2 DEF RefreshPut, Typed
    <2>2. \A d \in Client : run'[d] = [run[d] EXCEPT
             !.refreshing = IF d = c THEN FALSE ELSE @, !.staleThen = @ \ {MyLock(c)}]
      BY <1>2 DEF RefreshPut
    <2>3. ASSUME NEW d \in Client
          PROVE  /\ RunOk(run'[d]) /\ run'[d].id = run[d].id
                 /\ run'[d].refreshing => run[d].refreshing
      <3>1. RunOk(run[d])
        BY DEF Typed
      <3>2. QED
        BY <2>2, <3>1 DEF RunOk, Field
    <2>4. DOMAIN run' = Client
      BY <1>2 DEF RefreshPut
    <2>5. QED
      BY <1>2, <2>1, <2>3, <2>4, MyLockTyped DEF RefreshPut, Typed, counters
  <1>3. QED
    BY <1>1, <1>2

-----------------------------------------------------------------------------
(* Types, continued: backups. *)

LEMMA AdoptTyped == ASSUME Typed, NEW c \in Client, Adopt(c) PROVE Typed'
  <1>1. PICK adopted \in SUBSET Orphans(run[c].known) :
          Set(c, "archive", [run[c] EXCEPT !.known = @ \cup AsListings(adopted),
                                           !.newPacks = AsListings(adopted)])
    BY DEF Adopt
  <1>2. AsListings(adopted) \subseteq Good
    BY <1>1, AsListingsGood DEF Orphans, Typed
  <1>3. pc[c] # "idle"
    BY DEF Adopt
  <1> DEFINE r == [run[c] EXCEPT !.known = @ \cup AsListings(adopted), !.newPacks = AsListings(adopted)]
  <1>4. RunOk(r) /\ r.id = run[c].id
    BY <1>2, <1>3, RunTyped DEF RunOk, Field
  <1>5. QED
    BY <1>1, <1>3, <1>4, RunTyped, OnlyRunMoves DEF Adopt, Set, State, Writing, counters

LEMMA WalkTyped == ASSUME Typed, NEW c \in Client, ReuseUnchanged(c) \/ SaveBlob(c) PROVE Typed'
  <1>1. pc[c] # "idle"
    BY DEF ReuseUnchanged, SaveBlob
  <1>2. \E r : RunOk(r) /\ r.id = run[c].id /\ run' = [run EXCEPT ![c] = r]
    <2>1. CASE ReuseUnchanged(c)
      <3>1. PICK b \in run[c].parent \ run[c].tree : run' = [run EXCEPT ![c].tree = @ \cup {b}]
        BY <2>1 DEF ReuseUnchanged
      <3>2. QED
        BY <1>1, <3>1, RunTyped DEF RunOk, Field
    <2>2. CASE SaveBlob(c)
      <3>1. PICK b \in Blob, full \in BOOLEAN :
              LET filled == run[c].writer \cup {b}
                  seen   == [run[c] EXCEPT !.tree = @ \cup {b}]
              IN  run' = [run EXCEPT ![c] =
                    IF b \in Covered(@.known) \/ is_pending(c, b) THEN seen
                    ELSE IF ~full THEN [seen EXCEPT !.writer = filled]
                    ELSE [seen EXCEPT !.writer = {},
                            !.inflight = @ \cup {[run |-> run[c].id, blobs |-> filled]}]]
        BY <2>2 DEF SaveBlob
      <3> DEFINE filled == run[c].writer \cup {b}
                 seen   == [run[c] EXCEPT !.tree = @ \cup {b}]
                 sent   == [run |-> run[c].id, blobs |-> filled]
                 open   == [seen EXCEPT !.writer = filled]
                 off    == [seen EXCEPT !.writer = {}, !.inflight = @ \cup {sent}]
      <3>2. RunOk(seen) /\ seen.id = run[c].id
        BY <1>1, RunTyped DEF RunOk, Field
      <3>3. filled \in (SUBSET Blob) \ {{}} /\ sent \in Pack
        BY <1>1, RunTyped DEF RunOk, Pack
      <3>4. RunOk(open) /\ open.id = run[c].id
        BY <3>2, <3>3 DEF RunOk, Field
      <3>5. RunOk(off) /\ off.id = run[c].id
        BY <3>2, <3>3 DEF RunOk, Field
      <3>6. QED
        BY <3>1, <3>2, <3>4, <3>5
    <2>3. QED
      BY <2>1, <2>2
  <1>3. UNCHANGED <<bucket, pc, counters>>
    BY DEF ReuseUnchanged, SaveBlob
  <1>4. QED
    BY <1>1, <1>2, <1>3, RunTyped DEF Typed, bucket, counters

LEMMA UploadPackTyped == ASSUME Typed, NEW c \in Client, UploadPack(c) PROVE Typed'
  <1>1. pc[c] # "idle"
    BY DEF UploadPack
  <1>2. PICK p \in run[c].inflight :
          /\ packs' = packs \cup {p}
          /\ run' = [run EXCEPT ![c].inflight = @ \ {p},
                                ![c].known = @ \cup AsListings({p}),
                                ![c].newPacks = @ \cup AsListings({p})]
    BY DEF UploadPack
  <1>3. p \in Pack /\ AsListings({p}) \subseteq Good
    <2>1. p \in Pack
      BY <1>1, <1>2, RunTyped DEF RunOk
    <2>2. QED
      BY <2>1, AsListingsGood
  <1> DEFINE r == [run[c] EXCEPT !.inflight = @ \ {p}, !.known = @ \cup AsListings({p}),
                                 !.newPacks = @ \cup AsListings({p})]
  <1>4. RunOk(r) /\ r.id = run[c].id
    BY <1>1, <1>3, RunTyped DEF RunOk, Field
  <1>5. run' = [run EXCEPT ![c] = r]
    BY <1>1, <1>2, RunTyped DEF Typed, RunOk, Field
  <1>6. QED
    BY <1>1, <1>2, <1>3, <1>4, <1>5, RunTyped DEF UploadPack, Typed, counters

LEMMA CloseArchiveTyped == ASSUME Typed, NEW c \in Client, CloseArchive(c) PROVE Typed'
  <1> DEFINE closed == {[run |-> run[c].id, blobs |-> w] : w \in {run[c].writer} \ {{}}}
             r == [run[c] EXCEPT !.writer = {}, !.inflight = closed]
  <1>1. pc[c] # "idle"
    BY DEF CloseArchive
  <1>2. closed \subseteq Pack
    BY <1>1, RunTyped DEF RunOk, Pack
  <1>3. RunOk(r) /\ r.id = run[c].id
    BY <1>1, <1>2, RunTyped DEF RunOk, Field
  <1>4. QED
    BY <1>1, <1>3, RunTyped, OnlyRunMoves DEF CloseArchive, Set, State, Writing, counters

LEMMA SaveIndexTyped == ASSUME Typed, NEW c \in Client, SaveIndex(c) PROVE Typed'
  <1> DEFINE r == [run[c] EXCEPT !.newPacks = {}]
  <1>1. pc[c] # "idle"
    BY DEF SaveIndex
  <1>2. RunOk(r) /\ r.id = run[c].id
    BY <1>1, RunTyped DEF RunOk, Field
  <1>3. {[run |-> run[c].id, packs |-> n] : n \in {run[c].newPacks} \ {{}}} \subseteq IndexObject
    BY <1>1, RunTyped DEF RunOk, IndexObject
  <1>4. QED
    BY <1>1, <1>2, <1>3, RunTyped, RunMoves
       DEF SaveIndex, Set, Typed, RunsOk, State, Writing, counters

LEMMA SaveSnapshotTyped == ASSUME Typed, NEW c \in Client, SaveSnapshot(c) PROVE Typed'
  <1>1. pc[c] # "idle"
    BY DEF SaveSnapshot
  <1>2. [run |-> run[c].id, host |-> c, blobs |-> run[c].tree] \in Snapshot
    BY <1>1, RunTyped DEF RunOk, Snapshot
  <1>3. QED
    BY <1>1, <1>2, RunTyped DEF SaveSnapshot, Typed, State, counters

-----------------------------------------------------------------------------
(* Types, continued: prunes. *)

LEMMA MarkTyped == ASSUME Typed, NEW c \in Client, RemoveStale(c) \/ Mark(c) PROVE Typed'
  <1>1. pc[c] # "idle"
    BY DEF RemoveStale, Mark
  <1>2. CASE RemoveStale(c)
    BY <1>1, <1>2, RunTyped DEF RemoveStale, Typed, State, Pruning, counters
  <1>3. CASE Mark(c)
    <2> DEFINE marked == UNION {s.blobs : s \in snaps \ run[c].forget}
               r == [run[c] EXCEPT !.known = Listings(indexes), !.sources = indexes,
                                   !.needed = marked]
    <2>1. Listings(indexes) \subseteq Good
      BY ListingsGood DEF Typed
    <2>2. RunOk(r) /\ r.id = run[c].id
      BY <1>1, <2>1, RunTyped DEF RunOk, Field
    <2>3. Set(c, "marked", r) \/ Set(c, "failed", run[c])
      BY <1>3 DEF Mark
    <2>4. UNCHANGED <<bucket, counters>> /\ {"marked", "failed"} \subseteq State
      BY <1>3 DEF Mark, State, Pruning
    <2>5. CASE Set(c, "marked", r)
      BY <1>1, <2>2, <2>4, <2>5, RunTyped, OnlyRunMoves DEF Set, counters
    <2>6. CASE Set(c, "failed", run[c])
      BY <1>1, <2>4, <2>6, RunTyped, OnlyRunMoves DEF Set, counters
    <2>7. QED
      BY <2>3, <2>5, <2>6
  <1>4. QED
    BY <1>2, <1>3

(* What a plan lists of a pack is in that pack, and what it repacks is needed. *)
LEMMA PlanSweepTyped == ASSUME Typed, NEW c \in Client, PlanSweep(c) PROVE Typed'
  <1>1. pc[c] # "idle"
    BY DEF PlanSweep
  <1>2. PICK f \in Locations(run[c].known) :
       LET here(p)   == {b \in DOMAIN f : f[b] = p}
           useful(p) == here(p) \cap run[c].needed
           unlisted  == {p \in packs : here(p) = {}}
           used      == {p \in packs : useful(p) # {}}
       IN  \E repack \in SUBSET {p \in used : here(p) # useful(p)} :
           Set(c, "planned",
               [run[c] EXCEPT
                  !.doomed = (packs \ (used \cup unlisted)) \cup {p \in unlisted : ~Recent(p)},
                  !.spared = {p \in unlisted : Recent(p)},
                  !.repack = {[pack |-> p, blobs |-> useful(p)] : p \in repack},
                  !.kept = {[pack |-> p, blobs |-> here(p)] : p \in used \ repack}])
    BY DEF PlanSweep
  <1> DEFINE here(p)   == {b \in DOMAIN f : f[b] = p}
             useful(p) == here(p) \cap run[c].needed
             unlisted  == {p \in packs : here(p) = {}}
             used      == {p \in packs : useful(p) # {}}
  <1>3. PICK repack \in SUBSET {p \in used : here(p) # useful(p)} :
           Set(c, "planned",
               [run[c] EXCEPT
                  !.doomed = (packs \ (used \cup unlisted)) \cup {p \in unlisted : ~Recent(p)},
                  !.spared = {p \in unlisted : Recent(p)},
                  !.repack = {[pack |-> p, blobs |-> useful(p)] : p \in repack},
                  !.kept = {[pack |-> p, blobs |-> here(p)] : p \in used \ repack}])
    BY <1>2
  <1> DEFINE moved == {[pack |-> p, blobs |-> useful(p)] : p \in repack}
             left  == {[pack |-> p, blobs |-> here(p)] : p \in used \ repack}
  <1>4. ASSUME NEW p \in packs PROVE here(p) \subseteq p.blobs
    <2>1. SUFFICES ASSUME NEW b \in here(p) PROVE b \in p.blobs
      OBVIOUS
    <2>2. b \in Covered(run[c].known) /\ f[b] = p
      BY DEF Locations
    <2>3. PICK l \in run[c].known : l.pack = p /\ b \in l.blobs
      BY <2>2 DEF Locations
    <2>4. QED
      BY <1>1, <2>3, RunTyped DEF RunOk, Good
  <1>5. ASSUME NEW p \in packs
        PROVE  /\ p \in Pack /\ here(p) \in SUBSET Blob /\ useful(p) \in SUBSET Blob
               /\ useful(p) \subseteq p.blobs
    BY <1>4 DEF Typed, Pack
  <1>6. ASSUME NEW p \in packs, NEW bs \in SUBSET p.blobs
        PROVE  [pack |-> p, blobs |-> bs] \in Good
    BY <1>5 DEF Good, Listing, Pack
  <1>7. left \subseteq Good
    BY <1>4, <1>6
  <1>8. moved \subseteq {l \in Good : l.blobs # {}}
    <2>1. \A p \in repack : p \in packs /\ useful(p) # {} /\ useful(p) \subseteq p.blobs
      BY <1>5
    <2>2. QED
      BY <1>6, <2>1
  <1> DEFINE doom == (packs \ (used \cup unlisted)) \cup {p \in unlisted : ~Recent(p)}
             spare == {p \in unlisted : Recent(p)}
  <1> HIDE DEF moved, left, doom, spare
  <1> DEFINE r == [run[c] EXCEPT !.doomed = doom, !.spared = spare, !.repack = moved, !.kept = left]
  <1>9. RunOk(r) /\ r.id = run[c].id
    BY <1>1, <1>7, <1>8, RunTyped DEF RunOk, Field
  <1>10. Set(c, "planned", r)
    BY <1>3 DEF moved, left, doom, spare
  <1>11. "planned" \in State /\ UNCHANGED <<bucket, runs>>
    BY DEF State, Pruning, PlanSweep, counters
  <1> HIDE DEF r
  <1>12. QED
    BY <1>1, <1>9, <1>10, <1>11, RunTyped, OnlyRunMoves DEF Set

LEMMA ForgetTyped == ASSUME Typed, NEW c \in Client, ForgetSnapshot(c) PROVE Typed'
  <1>1. pc[c] # "idle"
    BY DEF ForgetSnapshot
  <1>2. \E s \in {"forget", "repack"} : \E r : RunOk(r) /\ r.id = run[c].id /\ Set(c, s, r)
    <2>1. CASE run[c].forget = {}
      BY <1>1, <2>1, RunTyped DEF ForgetSnapshot
    <2>2. CASE run[c].forget # {}
      <3>1. PICK s \in run[c].forget : Set(c, "forget", [run[c] EXCEPT !.forget = @ \ {s}])
        BY <2>2 DEF ForgetSnapshot
      <3>2. QED
        BY <1>1, <3>1, RunTyped DEF RunOk, Field
    <2>3. QED
      BY <2>1, <2>2
  <1>3. snaps' \subseteq snaps
    BY DEF ForgetSnapshot
  <1>4. {"forget", "repack"} \subseteq State /\ "idle" \notin {"forget", "repack"}
    BY DEF State, Pruning
  <1>5. RunsOk'
    BY <1>1, <1>2, <1>4, RunTyped, RunMoves DEF Set
  <1>6. QED
    BY <1>3, <1>5 DEF ForgetSnapshot, Typed, RunsOk, counters

LEMMA CopyTyped == ASSUME Typed, NEW c \in Client, CopyNeeded(c) PROVE Typed'
  <1>1. pc[c] # "idle"
    BY DEF CopyNeeded
  <1>2. PICK l \in run[c].repack :
          LET copy == [run |-> run[c].id, blobs |-> l.blobs] IN
          /\ packs' = packs \cup {copy}
          /\ run' = [run EXCEPT ![c].repack = @ \ {l},
                                ![c].kept = @ \cup AsListings({copy}),
                                ![c].doomed = @ \cup {l.pack}]
    BY DEF CopyNeeded
  <1> DEFINE copy == [run |-> run[c].id, blobs |-> l.blobs]
             r == [run[c] EXCEPT !.repack = @ \ {l}, !.kept = @ \cup AsListings({copy}),
                                 !.doomed = @ \cup {l.pack}]
  <1>3. copy \in Pack
    BY <1>1, RunTyped DEF RunOk, Good, Listing, Pack
  <1>4. AsListings({copy}) \subseteq Good
    BY <1>3, AsListingsGood
  <1>5. RunOk(r) /\ r.id = run[c].id
    BY <1>1, <1>4, RunTyped DEF RunOk, Field
  <1>6. run' = [run EXCEPT ![c] = r]
    BY <1>1, <1>2, RunTyped DEF Typed, RunOk, Field
  <1>7. packs' = packs \cup {copy}
    BY <1>2
  <1> HIDE DEF r, copy
  <1>8. QED
    BY <1>1, <1>3, <1>5, <1>6, <1>7, RunTyped DEF CopyNeeded, Typed, counters

LEMMA SaveNewIndexTyped == ASSUME Typed, NEW c \in Client, SaveNewIndex(c) PROVE Typed'
  <1>1. pc[c] # "idle"
    BY DEF SaveNewIndex
  <1>2. {[run |-> run[c].id, packs |-> k] : k \in {run[c].kept} \ {{}}} \subseteq IndexObject
    BY <1>1, RunTyped DEF RunOk, IndexObject
  <1>3. indexes' \subseteq IndexObject
    BY <1>2 DEF SaveNewIndex, Typed
  <1>4. QED
    BY <1>1, <1>3, RunTyped DEF SaveNewIndex, Typed, State, Pruning, counters

LEMMA DeleteTyped == ASSUME Typed, NEW c \in Client, DeleteIndex(c) \/ DeletePack(c) PROVE Typed'
  <1>1. pc[c] = "sweep" /\ {"release", "sweep"} \subseteq State
    BY DEF DeleteIndex, DeletePack, State, Pruning
  <1>2. CASE DeleteIndex(c)
    <2>1. PICK i \in run[c].sources : indexes' = indexes \ {i} /\ run' = [run EXCEPT ![c].sources = @ \ {i}]
      BY <1>2 DEF DeleteIndex
    <2> DEFINE r == [run[c] EXCEPT !.sources = @ \ {i}]
    <2>2. RunOk(r) /\ r.id = run[c].id
      BY <1>1, RunTyped DEF RunOk, Field
    <2>3. QED
      BY <1>1, <1>2, <2>1, <2>2, RunTyped DEF DeleteIndex, Typed, counters
  <1>3. CASE DeletePack(c)
    <2>1. CASE run[c].doomed = {}
      BY <1>1, <1>3, <2>1, RunTyped, OnlyRunMoves DEF DeletePack, Set, bucket, counters
    <2>2. CASE run[c].doomed # {}
      <3>1. PICK p \in run[c].doomed : /\ packs' = packs \ {p} /\ aged' = aged \ {p}
                                       /\ Set(c, "sweep", [run[c] EXCEPT !.doomed = @ \ {p}])
        BY <1>3, <2>2 DEF DeletePack
      <3> DEFINE r == [run[c] EXCEPT !.doomed = @ \ {p}]
      <3>2. RunOk(r) /\ r.id = run[c].id
        BY <1>1, RunTyped DEF RunOk, Field
      <3>3. RunsOk'
        BY <1>1, <3>1, <3>2, RunTyped, RunMoves DEF Set
      <3>4. QED
        BY <1>3, <3>1, <3>3 DEF DeletePack, Typed, RunsOk, counters
    <2>3. QED
      BY <2>1, <2>2
  <1>4. QED
    BY <1>2, <1>3

LEMMA FaultTyped == ASSUME Typed, NEW c \in Client, Fail(c) \/ Crash(c) \/ Sleep(c) PROVE Typed'
  <1>1. CASE Fail(c)
    <2>1. pc[c] # "idle" /\ "failed" \in State
      BY <1>1 DEF Fail, Holding, Writing, Pruning, State
    <2>2. QED
      BY <1>1, <2>1, RunTyped DEF Fail, Typed, bucket
  <1>2. CASE Crash(c)
    BY <1>2, RunEnds DEF Crash, Typed, RunsOk, bucket
  <1>3. CASE Sleep(c)
    BY <1>3 DEF Sleep, Typed
  <1>4. QED
    BY <1>1, <1>2, <1>3

LEMMA TypedInductive == ASSUME Typed, [Next]_vars PROVE Typed'
  <1>1. ASSUME NEW c \in Client, LockStep(c) PROVE Typed'
    BY <1>1, LockTyped, RefreshTyped DEF LockStep
  <1>2. ASSUME NEW c \in Client, BackupStep(c) PROVE Typed'
    BY <1>2, OpenTyped, AdoptTyped, WalkTyped, UploadPackTyped, CloseArchiveTyped,
       SaveIndexTyped, SaveSnapshotTyped DEF BackupStep
  <1>3. ASSUME NEW c \in Client, PruneStep(c) PROVE Typed'
    BY <1>3, OpenTyped, MarkTyped, PlanSweepTyped, ForgetTyped, CopyTyped, SaveNewIndexTyped,
       DeleteTyped DEF PruneStep
  <1>4. ASSUME NEW l \in locks, Abandon(l) PROVE Typed'
    BY <1>4 DEF Abandon, Typed, counters
  <1>5. CASE AgePacks
    BY <1>5 DEF AgePacks, Typed, counters
  <1>6. CASE UNCHANGED vars
    BY <1>6 DEF vars, bucket, counters, Typed
  <1>7. QED
    BY <1>1, <1>2, <1>3, <1>4, <1>5, <1>6, FaultTyped DEF Next

-----------------------------------------------------------------------------
(* No blob is stored twice by a run: a run that is not a backup under way has
   nothing in its writer and nothing on its way up. *)

Storing == {"archive", "flush", "indexed", "publish", "failed", "release"}

Once(r) ==
    /\ r.writer \cap (Covered(r.known) \cup BlobsOf(r.inflight)) = {}
    /\ \A p, q \in r.inflight : p # q => p.blobs \cap q.blobs = {}
    /\ BlobsOf(r.inflight) \cap Covered(r.known) = {}

Nothing(r) == r.writer = {} /\ r.inflight = {}

StoreInv == \A c \in Client : Once(run[c]) /\ (pc[c] \notin Storing => Nothing(run[c]))

(* A step of c that stores nothing. *)
StoresNothing(c) ==
    /\ run'[c].writer = run[c].writer /\ run'[c].inflight = run[c].inflight
    /\ run'[c].known = run[c].known \/ pc[c] \notin Storing
    /\ pc'[c] \in Storing \/ pc[c] \notin Storing

LEMMA BlobsOfMore == ASSUME NEW ps, NEW p PROVE BlobsOf(ps \cup {p}) = BlobsOf(ps) \cup p.blobs
  BY DEF BlobsOf

LEMMA CoveredMore ==
    ASSUME NEW ls, NEW p
    PROVE  Covered(ls \cup AsListings({p})) = Covered(ls) \cup p.blobs
  <1>1. AsListings({p}) = {[pack |-> p, blobs |-> p.blobs]}
    BY DEF AsListings
  <1> DEFINE l == [pack |-> p, blobs |-> p.blobs]
  <1>2. l.blobs = p.blobs
    OBVIOUS
  <1> HIDE DEF l
  <1>3. Covered(ls \cup {l}) = Covered(ls) \cup l.blobs
    BY DEF Covered
  <1>4. QED
    BY <1>1, <1>2, <1>3 DEF l

LEMMA NothingOnce == ASSUME NEW r, Nothing(r) PROVE Once(r)
  BY DEF Nothing, Once, BlobsOf

LEMMA StoreFrame ==
    ASSUME StoreInv, \A c \in Client : StoresNothing(c) \/ Nothing(run'[c])
    PROVE  StoreInv'
  <1> SUFFICES ASSUME NEW c \in Client
               PROVE  Once(run'[c]) /\ (pc'[c] \notin Storing => Nothing(run'[c]))
    BY DEF StoreInv
  <1>1. CASE Nothing(run'[c])
    BY <1>1, NothingOnce
  <1>2. CASE StoresNothing(c) /\ pc[c] \notin Storing
    BY <1>2, NothingOnce DEF StoreInv, StoresNothing, Nothing
  <1>3. CASE StoresNothing(c) /\ pc[c] \in Storing
    BY <1>3 DEF StoreInv, StoresNothing, Once
  <1>4. QED
    BY <1>1, <1>2, <1>3

LEMMA StoreInit == Init => StoreInv
  <1>1. Nothing(NoRun)
    BY DEF NoRun, Nothing
  <1>2. QED
    BY <1>1, NothingOnce DEF Init, StoreInv

LEMMA QuietLockSteps ==
    ASSUME Typed, StoreInv, NEW c \in Client, LockStep(c)
    PROVE  StoreInv'
  <1>0. Nothing(NoRun) /\ RunOk(run[c])
    BY DEF NoRun, Nothing, Typed
  <1>1. CASE PutLock(c)
    BY <1>1, StoreFrame DEF PutLock, StoresNothing, Typed, Storing
  <1>2. CASE ListLocks(c)
    BY <1>0, <1>2, StoreFrame DEF ListLocks, Set, StoresNothing, Typed, RunOk, Field, Storing
  <1>3. CASE Judge(c)
    BY <1>0, <1>3, StoreFrame DEF Judge, Set, StoresNothing, Typed, RunOk, Field, Storing
  <1>4. CASE EnsureHeld(c)
    BY <1>4, StoreFrame DEF EnsureHeld, StoresNothing, Typed, Storing
  <1>5. CASE Release(c)
    BY <1>0, <1>5, StoreFrame DEF Release, Set, StoresNothing, Typed, Storing
  <1>6. CASE RefreshHead(c)
    BY <1>0, <1>6, StoreFrame DEF RefreshHead, StoresNothing, Typed, RunOk, Field, Storing
  <1>7. CASE RefreshPut(c)
    <2>1. ASSUME NEW d \in Client PROVE StoresNothing(d)
      <3>1. RunOk(run[d])
        BY DEF Typed
      <3>2. QED
        BY <1>7, <3>1 DEF RefreshPut, StoresNothing, RunOk, Field
    <2>2. QED
      BY <2>1, StoreFrame
  <1>8. QED
    BY <1>1, <1>2, <1>3, <1>4, <1>5, <1>6, <1>7 DEF LockStep

LEMMA QuietPruneSteps ==
    ASSUME Typed, StoreInv, NEW c \in Client, PruneStep(c)
    PROVE  StoreInv'
  <1>0. Nothing(NoRun) /\ RunOk(run[c]) /\ RunOk(NoRun)
    BY NoRunTyped DEF NoRun, Nothing, Typed
  <1>1. CASE OpenPrune(c)
    BY <1>0, <1>1, StoreFrame DEF OpenPrune, Opened, Set, StoresNothing, Nothing, Typed, RunOk, Field, Storing
  <1>2. CASE RemoveStale(c)
    BY <1>2, StoreFrame DEF RemoveStale, StoresNothing, Typed, Storing
  <1>3. CASE Mark(c)
    <2> DEFINE marked == UNION {s.blobs : s \in snaps \ run[c].forget}
               r == [run[c] EXCEPT !.known = Listings(indexes), !.sources = indexes,
                                   !.needed = marked]
    <2>1. pc[c] = "swept" /\ (Set(c, "marked", r) \/ Set(c, "failed", run[c]))
      BY <1>3 DEF Mark
    <2>2. r.writer = run[c].writer /\ r.inflight = run[c].inflight
      BY <1>0 DEF RunOk, Field
    <2> HIDE DEF r
    <2>3. \A d \in Client : StoresNothing(d)
      BY <2>1, <2>2 DEF Set, StoresNothing, Typed, Storing
    <2>4. QED
      BY <2>3, StoreFrame
  <1>4. CASE PlanSweep(c)
    <2>1. \E ds, ss, rs, ks : Set(c, "planned", [run[c] EXCEPT !.doomed = ds, !.spared = ss,
                                                              !.repack = rs, !.kept = ks])
      BY <1>4 DEF PlanSweep
    <2>2. pc[c] = "marked"
      BY <1>4 DEF PlanSweep
    <2>3. QED
      BY <1>0, <2>1, <2>2, StoreFrame DEF Set, StoresNothing, Typed, RunOk, Field, Storing
  <1>5. CASE ForgetSnapshot(c)
    BY <1>0, <1>5, StoreFrame DEF ForgetSnapshot, Set, StoresNothing, Typed, RunOk, Field, Storing
  <1>6. CASE CopyNeeded(c)
    <2>1. PICK l \in run[c].repack :
            LET copy == [run |-> run[c].id, blobs |-> l.blobs] IN
            run' = [run EXCEPT ![c].repack = @ \ {l}, ![c].kept = @ \cup AsListings({copy}),
                               ![c].doomed = @ \cup {l.pack}]
      BY <1>6 DEF CopyNeeded
    <2>2. QED
      BY <1>0, <1>6, <2>1, StoreFrame DEF CopyNeeded, StoresNothing, Typed, RunOk, Field, Storing
  <1>7. CASE SaveNewIndex(c)
    BY <1>7, StoreFrame DEF SaveNewIndex, StoresNothing, Typed, Storing
  <1>8. CASE DeleteIndex(c)
    BY <1>0, <1>8, StoreFrame DEF DeleteIndex, StoresNothing, Typed, RunOk, Field, Storing
  <1>9. CASE DeletePack(c)
    BY <1>0, <1>9, StoreFrame DEF DeletePack, Set, StoresNothing, Typed, RunOk, Field, Storing
  <1>10. QED
    BY <1>1, <1>2, <1>3, <1>4, <1>5, <1>6, <1>7, <1>8, <1>9 DEF PruneStep

(* save_blob puts only what is nowhere yet into the writer. *)
LEMMA SaveBlobOnce ==
    ASSUME Typed, StoreInv, NEW c \in Client, SaveBlob(c)
    PROVE  Once(run'[c])
  <1> DEFINE r == run[c]
  <1>1. RunOk(r) /\ Once(r)
    BY DEF Typed, StoreInv
  <1>2. PICK b \in Blob, full \in BOOLEAN :
          LET filled == r.writer \cup {b}
              seen   == [r EXCEPT !.tree = @ \cup {b}]
          IN  run' = [run EXCEPT ![c] =
                IF b \in Covered(@.known) \/ is_pending(c, b) THEN seen
                ELSE IF ~full THEN [seen EXCEPT !.writer = filled]
                ELSE [seen EXCEPT !.writer = {},
                        !.inflight = @ \cup {[run |-> r.id, blobs |-> filled]}]]
    BY DEF SaveBlob
  <1> DEFINE filled == r.writer \cup {b}
             sent   == [run |-> r.id, blobs |-> filled]
  <1>3. CASE b \in Covered(r.known) \/ is_pending(c, b)
    BY <1>1, <1>2, <1>3 DEF Typed, RunOk, Field, Once
  <1>4. CASE ~(b \in Covered(r.known) \/ is_pending(c, b))
    <2>1. filled \cap (Covered(r.known) \cup BlobsOf(r.inflight)) = {}
      BY <1>1, <1>4 DEF Once, is_pending
    <2>2. CASE ~full
      <3>1. /\ run'[c].writer = filled /\ run'[c].inflight = r.inflight
            /\ run'[c].known = r.known
        BY <1>1, <1>2, <1>4, <2>2 DEF Typed, RunOk, Field
      <3>2. QED
        BY <1>1, <2>1, <3>1 DEF Once
    <2>3. CASE full
      <3>1. /\ run'[c].writer = {} /\ run'[c].inflight = r.inflight \cup {sent}
            /\ run'[c].known = r.known
        BY <1>1, <1>2, <1>4, <2>3 DEF Typed, RunOk, Field
      <3>2. sent.blobs = filled /\ \A p \in r.inflight : p.blobs \cap filled = {}
        BY <2>1 DEF BlobsOf
      <3> HIDE DEF sent, filled
      <3>3. BlobsOf(run'[c].inflight) = BlobsOf(r.inflight) \cup filled
        BY <3>1, <3>2, BlobsOfMore
      <3>4. BlobsOf(run'[c].inflight) \cap Covered(r.known) = {}
        BY <1>1, <2>1, <3>3 DEF Once
      <3>5. \A p, q \in r.inflight \cup {sent} : p # q => p.blobs \cap q.blobs = {}
        BY <1>1, <3>2 DEF Once
      <3>6. QED
        BY <3>1, <3>4, <3>5 DEF Once
    <2>4. QED
      BY <2>2, <2>3
  <1>5. QED
    BY <1>3, <1>4

(* upload_pack moves a pack from on its way up to known. *)
LEMMA UploadPackOnce ==
    ASSUME Typed, StoreInv, NEW c \in Client, UploadPack(c)
    PROVE  Once(run'[c])
  <1> DEFINE r == run[c]
  <1>1. RunOk(r) /\ Once(r)
    BY DEF Typed, StoreInv
  <1>2. PICK p \in r.inflight :
          run' = [run EXCEPT ![c].inflight = @ \ {p},
                             ![c].known = @ \cup AsListings({p}),
                             ![c].newPacks = @ \cup AsListings({p})]
    BY DEF UploadPack
  <1>3. /\ run'[c].writer = r.writer /\ run'[c].inflight = r.inflight \ {p}
        /\ run'[c].known = r.known \cup AsListings({p})
    BY <1>1, <1>2 DEF Typed, RunOk, Field
  <1>4. Covered(run'[c].known) = Covered(r.known) \cup p.blobs
    BY <1>3, CoveredMore
  <1>5. p.blobs \subseteq BlobsOf(r.inflight) /\ BlobsOf(r.inflight \ {p}) \subseteq BlobsOf(r.inflight)
    BY DEF BlobsOf
  <1>6. BlobsOf(r.inflight \ {p}) \cap p.blobs = {}
    BY <1>1 DEF Once, BlobsOf
  <1>7. QED
    BY <1>1, <1>3, <1>4, <1>5, <1>6 DEF Once

LEMMA CloseArchiveOnce ==
    ASSUME Typed, StoreInv, NEW c \in Client, CloseArchive(c)
    PROVE  Once(run'[c])
  <1> DEFINE r == run[c]
             closed == {[run |-> r.id, blobs |-> w] : w \in {r.writer} \ {{}}}
  <1>1. RunOk(r) /\ Once(r)
    BY DEF Typed, StoreInv
  <1>2. run'[c].writer = {} /\ run'[c].known = r.known /\ run'[c].inflight = closed
    BY <1>1 DEF CloseArchive, Set, Typed, RunOk, Field
  <1>3. BlobsOf(closed) \subseteq r.writer /\ \A p, q \in closed : p = q
    BY DEF BlobsOf
  <1>4. QED
    BY <1>1, <1>2, <1>3 DEF Once

LEMMA BackupStoresOnce ==
    ASSUME Typed, StoreInv, NEW c \in Client, BackupStep(c)
    PROVE  StoreInv'
  <1>0. Nothing(NoRun) /\ RunOk(run[c]) /\ RunOk(NoRun)
    BY NoRunTyped DEF NoRun, Nothing, Typed
  <1>1. CASE OpenBackup(c)
    BY <1>0, <1>1, StoreFrame DEF OpenBackup, Opened, Set, StoresNothing, Nothing, Typed, RunOk, Field, Storing
  <1>2. CASE Adopt(c)
    BY <1>0, <1>2, StoreFrame DEF Adopt, Set, StoresNothing, Typed, RunOk, Field, Storing
  <1>3. CASE ReuseUnchanged(c)
    BY <1>0, <1>3, StoreFrame DEF ReuseUnchanged, StoresNothing, Typed, RunOk, Field, Storing
  <1>4. CASE SaveBlob(c)
    <2>1. pc'[c] \in Storing /\ \A d \in Client \ {c} : run'[d] = run[d] /\ pc'[d] = pc[d]
      BY <1>4 DEF SaveBlob, Typed, Storing
    <2>2. QED
      BY <1>4, <2>1, SaveBlobOnce DEF StoreInv
  <1>5. CASE UploadPack(c)
    <2>1. pc'[c] \in Storing /\ \A d \in Client \ {c} : run'[d] = run[d] /\ pc'[d] = pc[d]
      BY <1>5 DEF UploadPack, Typed, Storing
    <2>2. QED
      BY <1>5, <2>1, UploadPackOnce DEF StoreInv
  <1>6. CASE CloseArchive(c)
    <2>1. pc'[c] \in Storing /\ \A d \in Client \ {c} : run'[d] = run[d] /\ pc'[d] = pc[d]
      BY <1>6 DEF CloseArchive, Set, Typed, Storing
    <2>2. QED
      BY <1>6, <2>1, CloseArchiveOnce DEF StoreInv
  <1>7. CASE SaveIndex(c)
    BY <1>0, <1>7, StoreFrame DEF SaveIndex, Set, StoresNothing, Typed, RunOk, Field, Storing
  <1>8. CASE SaveSnapshot(c)
    BY <1>8, StoreFrame DEF SaveSnapshot, StoresNothing, Typed, Storing
  <1>9. QED
    BY <1>1, <1>2, <1>3, <1>4, <1>5, <1>6, <1>7, <1>8 DEF BackupStep

LEMMA StoreInductive == ASSUME Typed, StoreInv, [Next]_vars PROVE StoreInv'
  <1>1. ASSUME NEW c \in Client, Fail(c) \/ Crash(c) \/ Sleep(c) PROVE StoreInv'
    <2>1. Nothing(NoRun)
      BY DEF NoRun, Nothing
    <2>2. QED
      BY <1>1, <2>1, StoreFrame DEF Fail, Crash, Sleep, Set, StoresNothing, Typed, Storing
  <1>2. ASSUME UNCHANGED <<pc, run>> PROVE StoreInv'
    BY <1>2 DEF StoreInv
  <1>3. QED
    BY <1>1, <1>2, QuietLockSteps, QuietPruneSteps, BackupStoresOnce
       DEF Next, Abandon, AgePacks, vars

-----------------------------------------------------------------------------
(* A prune that holds its lock is alone.  Of two runs that have listed the
   locks, the one that listed later has seen the other's lock: it was put
   before the listing, and nothing removes a lock whose run has not slept. *)

Live(c) == pc[c] # "idle"
Awake(c) == Live(c) /\ run[c].id \notin slept
Locked(c) == pc[c] \notin {"idle", "opened"}
Past(c) == pc[c] \notin {"idle", "opened", "locking"}
Saw(c, d) == pc[c] = "listed" /\ MyLock(d) \in run[c].others

(* Ids are drawn once: no two runs share one, no lock has one to come. *)
IdsOk ==
    /\ \A c \in Client : Live(c) => run[c].id <= runs
    /\ \A c, d \in Client : c # d /\ Live(c) /\ Live(d) => run[c].id # run[d].id
    /\ \A l \in locks : l.run <= runs
    /\ \A c \in Client : \A l \in run[c].staleThen : l.run \in RunId /\ l.run <= runs

(* The lock of a run that has not slept is not stale, nor was it when some
   prune listed the locks. *)
FreshOk ==
    \A c \in Client : Awake(c) =>
        /\ \A l \in stale : l.run # run[c].id
        /\ \A d \in Client : \A l \in run[d].staleThen : l.run # run[c].id

(* It stays where it was put. *)
ThereOk == \A c \in Client : Awake(c) /\ Locked(c) => MyLock(c) \in locks

SeenOk ==
    \A c, d \in Client :
        /\ c # d /\ Past(c) /\ Past(d) /\ Awake(c) /\ Awake(d)
        /\ run[c].exclusive \/ run[d].exclusive
        => Saw(c, d) \/ Saw(d, c)

LockInv == IdsOk /\ FreshOk /\ ThereOk /\ SeenOk

LEMMA LockInvSuffices == ASSUME LockInv PROVE Exclusion
  <1> SUFFICES ASSUME NEW c \in Client, NEW d \in Client, c # d, Holding(c), Holding(d),
                      run[c].exclusive, {run[c].id, run[d].id} \cap slept = {}
               PROVE  FALSE
    BY DEF Exclusion
  <1>1. Past(c) /\ Past(d) /\ pc[c] # "listed" /\ pc[d] # "listed"
    BY DEF Holding, Writing, Pruning, Past
  <1>2. Awake(c) /\ Awake(d)
    BY <1>1 DEF Awake, Live, Past
  <1>3. QED
    BY <1>1, <1>2 DEF LockInv, SeenOk, Saw

LEMMA LockInit == Init => LockInv
  BY DEF Init, LockInv, IdsOk, FreshOk, ThereOk, SeenOk, Live, Awake, Locked, Past, NoRun

(* Steps that take no new lock: of every run they leave alone what its lock
   depends on, or they end it. *)
Keeps(c) ==
    /\ Live(c) /\ run'[c].id = run[c].id /\ run'[c].exclusive = run[c].exclusive
    /\ \/ pc'[c] = pc[c] /\ run'[c].others = run[c].others
       \/ Holding(c) /\ Holding(c)'

LeavesAlone(c) ==
    /\ run'[c].staleThen \subseteq run[c].staleThen
    /\ pc'[c] = "idle" \/ Keeps(c)

LEMMA LockFrame ==
    ASSUME LockInv, runs' = runs, slept \subseteq slept', stale' \subseteq stale,
           \A l \in locks' : l.run <= runs,
           \A c \in Client : Awake(c) /\ Locked(c) /\ pc'[c] # "idle" => MyLock(c) \in locks',
           \A c \in Client : LeavesAlone(c)
    PROVE  LockInv'
  <1>1. ASSUME NEW c \in Client, pc'[c] # "idle"
        PROVE  /\ Live(c) /\ run'[c].id = run[c].id /\ run'[c].exclusive = run[c].exclusive
               /\ MyLock(c)' = MyLock(c)
               /\ Awake(c)' => Awake(c)
               /\ Locked(c)' => Locked(c)
               /\ Past(c)' => Past(c)
    BY <1>1 DEF LeavesAlone, Keeps, MyLock, Awake, Live, Locked, Past, Holding, Writing, Pruning
  <1>2. IdsOk'
    BY <1>1 DEF LockInv, IdsOk, LeavesAlone, Live
  <1>3. FreshOk'
    BY <1>1 DEF LockInv, FreshOk, LeavesAlone, Awake, Live
  <1>4. ThereOk'
    BY <1>1 DEF ThereOk, Awake, Live
  <1>5. SeenOk'
    <2> SUFFICES ASSUME NEW c \in Client, NEW d \in Client,
                        c # d, Past(c)', Past(d)', Awake(c)', Awake(d)',
                        run'[c].exclusive \/ run'[d].exclusive
                 PROVE  Saw(c, d)' \/ Saw(d, c)'
      BY DEF SeenOk
    <2>1. pc'[c] # "idle" /\ pc'[d] # "idle"
      BY DEF Past
    <2>2. ASSUME NEW e \in Client, NEW f \in Client, pc'[e] # "idle", pc'[f] # "idle", Saw(e, f)
          PROVE  Saw(e, f)'
      BY <1>1, <2>2 DEF Saw, LeavesAlone, Keeps, Holding, Writing, Pruning
    <2>3. Saw(c, d) \/ Saw(d, c)
      BY <1>1, <2>1 DEF LockInv, SeenOk
    <2>4. QED
      BY <2>1, <2>2, <2>3
  <1>6. QED
    BY <1>2, <1>3, <1>4, <1>5 DEF LockInv

(* Most steps of a run that holds its lock touch no lock at all. *)
Works(c) ==
    /\ Holding(c) /\ Holding(c)'
    /\ run'[c].id = run[c].id /\ run'[c].exclusive = run[c].exclusive
    /\ run'[c].staleThen = run[c].staleThen
    /\ \A d \in Client \ {c} : pc'[d] = pc[d] /\ run'[d] = run[d]

LEMMA LocksUntouched ==
    ASSUME Typed, LockInv, UNCHANGED <<locks, stale, runs, slept>>,
           NEW c \in Client, Works(c)
    PROVE  LockInv'
  <1>1. \A d \in Client : LeavesAlone(d)
    BY DEF Works, LeavesAlone, Keeps, Live, Holding, Writing, Pruning
  <1>2. QED
    BY <1>1, LockFrame DEF LockInv, IdsOk, ThereOk

-----------------------------------------------------------------------------
(* The steps that put, list, judge and remove locks. *)

LEMMA OpenSteps == ASSUME Typed, LockInv, NEW c \in Client, OpenBackup(c) \/ OpenPrune(c) PROVE LockInv'
  <1>0. RunOk(NoRun) /\ NoRun.staleThen = {}
    BY NoRunTyped DEF NoRun
  <1>1. /\ runs' = runs + 1 /\ pc[c] = "idle" /\ pc'[c] = "opened"
        /\ run'[c].id = runs + 1 /\ run'[c].staleThen = {}
        /\ \A d \in Client \ {c} : pc'[d] = pc[d] /\ run'[d] = run[d]
    <2>1. Opened.id = runs' /\ Opened.staleThen = {} /\ DOMAIN Opened = Field
      BY <1>0 DEF Opened, RunOk, Field
    <2>2. /\ runs' = runs + 1 /\ pc[c] = "idle"
          /\ \E parent, forget : \/ Set(c, "opened", [Opened EXCEPT !.parent = parent])
                                \/ Set(c, "opened", [Opened EXCEPT !.exclusive = TRUE, !.forget = forget])
      BY DEF OpenBackup, OpenPrune, Start
    <2>3. QED
      BY <2>1, <2>2 DEF Set, Typed, Field
  <1>2. UNCHANGED <<locks, stale, slept>>
    BY DEF OpenBackup, OpenPrune, bucket
  <1>3. \A l \in locks : l.run \in Nat /\ l.run <= runs
    BY DEF Typed, LockInv, IdsOk, Lock, RunId
  <1>4. \A d \in Client : Live(d) => run[d].id \in Nat /\ run[d].id <= runs
    BY DEF Typed, LockInv, IdsOk, RunId, Live
  <1>5. \A d \in Client : \A l \in run'[d].staleThen : l.run \in RunId /\ l.run <= runs
    BY <1>1 DEF Typed, LockInv, IdsOk
  <1>6. runs \in Nat
    BY DEF Typed
  <1>7. IdsOk'
    BY <1>1, <1>2, <1>3, <1>4, <1>5, <1>6 DEF IdsOk, Live, RunId, LockInv
  <1>8. FreshOk'
    BY <1>1, <1>2, <1>3, <1>5, <1>6 DEF LockInv, FreshOk, Awake, Live, Typed, RunId
  <1>9. ThereOk' /\ SeenOk'
    BY <1>1, <1>2 DEF LockInv, ThereOk, SeenOk, Awake, Live, Locked, Past, Saw, MyLock
  <1>10. QED
    BY <1>7, <1>8, <1>9 DEF LockInv

LEMMA PutLockStep == ASSUME Typed, LockInv, NEW c \in Client, PutLock(c) PROVE LockInv'
  <1>1. /\ pc[c] = "opened" /\ pc' = [pc EXCEPT ![c] = "locking"]
        /\ locks' = locks \cup {MyLock(c)}
        /\ UNCHANGED <<stale, run, runs, slept>>
    BY DEF PutLock, counters
  <1>2. \A d \in Client : Live(d)' => Live(d)
    BY <1>1 DEF Live, Typed
  <1>3. IdsOk'
    BY <1>1, <1>2 DEF LockInv, IdsOk, MyLock, Live
  <1>4. FreshOk' /\ SeenOk'
    BY <1>1 DEF LockInv, FreshOk, SeenOk, Awake, Live, Past, Saw, MyLock, Typed
  <1>5. ThereOk'
    BY <1>1 DEF LockInv, ThereOk, Awake, Live, Locked, MyLock, Typed
  <1>6. QED
    BY <1>3, <1>4, <1>5 DEF LockInv

LEMMA ListLocksStep == ASSUME Typed, LockInv, NEW c \in Client, ListLocks(c) PROVE LockInv'
  <1>1. /\ pc[c] = "locking" /\ pc'[c] = "listed"
        /\ run'[c].id = run[c].id /\ run'[c].exclusive = run[c].exclusive
        /\ run'[c].others = locks \ (stale \cup {MyLock(c)}) /\ run'[c].staleThen = stale
        /\ \A d \in Client \ {c} : pc'[d] = pc[d] /\ run'[d] = run[d]
    BY DEF ListLocks, Set, Typed, RunOk, Field
  <1>2. UNCHANGED <<locks, stale, runs, slept>>
    BY DEF ListLocks, bucket, counters
  <1>3. \A d \in Client : /\ Live(d)' <=> Live(d)
                          /\ Awake(d)' <=> Awake(d)
                          /\ MyLock(d)' = MyLock(d)
                          /\ Locked(d)' <=> Locked(d)
    BY <1>1, <1>2 DEF Live, Awake, MyLock, Locked
  <1>4. IdsOk'
    BY <1>1, <1>2, <1>3 DEF LockInv, IdsOk, Typed, Lock
  <1>5. FreshOk'
    BY <1>1, <1>2, <1>3 DEF LockInv, FreshOk
  <1>6. ThereOk'
    BY <1>2, <1>3 DEF LockInv, ThereOk
  <1>7. ASSUME NEW d \in Client, d # c, Locked(d), Awake(d), Awake(c)
        PROVE  Saw(c, d)'
    <2>1. MyLock(d) \in locks
      BY <1>7 DEF LockInv, ThereOk
    <2>2. MyLock(d) \notin stale
      BY <1>7 DEF LockInv, FreshOk, MyLock
    <2>3. MyLock(d) # MyLock(c)
      BY <1>7 DEF LockInv, IdsOk, Awake, MyLock
    <2>4. QED
      BY <1>1, <1>3, <2>1, <2>2, <2>3 DEF Saw
  <1>8. SeenOk'
    <2>1. ASSUME NEW d \in Client, d # c, Past(d), Awake(d), Awake(c)
          PROVE  Saw(c, d)'
      BY <1>7, <2>1 DEF Past, Locked
    <2>2. \A d \in Client \ {c} : Past(d)' <=> Past(d)
      BY <1>1 DEF Past
    <2>3. ASSUME NEW d \in Client \ {c}, NEW e \in Client \ {c}, Saw(d, e) PROVE Saw(d, e)'
      BY <1>1, <1>3, <2>3 DEF Saw
    <2>4. QED
      BY <1>1, <1>3, <2>1, <2>2, <2>3 DEF LockInv, SeenOk
  <1>9. QED
    BY <1>4, <1>5, <1>6, <1>8 DEF LockInv

(* The locks of the others are other locks. *)
LEMMA OthersLocks ==
    ASSUME LockInv, NEW c \in Client, NEW d \in Client, c # d, Live(c), Awake(d)
    PROVE  MyLock(d) # MyLock(c)
  BY DEF LockInv, IdsOk, Awake, MyLock

(* A run ends, and takes its lock along. *)
LEMMA EndStep ==
    ASSUME Typed, LockInv, NEW c \in Client, Live(c), Set(c, "idle", NoRun),
           runs' = runs, slept' = slept, stale' \subseteq stale,
           locks' \in {locks, locks \ {MyLock(c)}}
    PROVE  LockInv'
  <1>1. /\ pc'[c] = "idle" /\ run'[c].staleThen = {}
        /\ \A d \in Client \ {c} : pc'[d] = pc[d] /\ run'[d] = run[d]
    BY DEF Set, Typed, NoRun
  <1>2. \A d \in Client : LeavesAlone(d)
    <2>1. \A d \in Client : pc'[d] # "idle" => d # c
      BY <1>1
    <2>2. QED
      BY <1>1, <2>1 DEF LeavesAlone, Keeps, Live
  <1>3. \A d \in Client : Awake(d) /\ Locked(d) /\ pc'[d] # "idle" => MyLock(d) \in locks'
    BY <1>1, OthersLocks DEF LockInv, ThereOk
  <1>4. \A l \in locks' : l.run <= runs
    BY DEF LockInv, IdsOk
  <1>5. QED
    BY <1>2, <1>3, <1>4, LockFrame

LEMMA JudgeStep == ASSUME Typed, LockInv, NEW c \in Client, Judge(c) PROVE LockInv'
  <1>1. CASE Conflicting(c)
    BY <1>1, EndStep DEF Judge, Live, counters
  <1>2. CASE ~Conflicting(c)
    <2>1. /\ pc[c] = "listed" /\ pc'[c] = "held"
          /\ run'[c].id = run[c].id /\ run'[c].exclusive = run[c].exclusive
          /\ run'[c].staleThen = run[c].staleThen
          /\ \A d \in Client \ {c} : pc'[d] = pc[d] /\ run'[d] = run[d]
      BY <1>2 DEF Judge, Set, Typed, RunOk, Field
    <2>2. UNCHANGED <<locks, stale, runs, slept>>
      BY <1>2 DEF Judge, counters
    <2>3. \A d \in Client : /\ Live(d)' <=> Live(d)
                            /\ Awake(d)' <=> Awake(d)
                            /\ MyLock(d)' = MyLock(d)
                            /\ Locked(d)' <=> Locked(d)
                            /\ Past(d)' <=> Past(d)
                            /\ run'[d].exclusive = run[d].exclusive
      BY <2>1, <2>2 DEF Live, Awake, MyLock, Locked, Past
    <2>4. IdsOk'
      BY <2>1, <2>2, <2>3 DEF LockInv, IdsOk
    <2>5. FreshOk'
      BY <2>1, <2>2, <2>3 DEF LockInv, FreshOk
    <2>6. ThereOk'
      BY <2>2, <2>3 DEF LockInv, ThereOk
    <2>7. ASSUME NEW d \in Client, NEW e \in Client, d # e, Saw(d, e),
                 run[d].exclusive \/ run[e].exclusive
          PROVE  Saw(d, e)'
      <3>1. d # c
        BY <1>2, <2>7 DEF Saw, Conflicting, MyLock
      <3>2. QED
        BY <2>1, <2>3, <2>7, <3>1 DEF Saw
    <2>8. SeenOk'
      <3> SUFFICES ASSUME NEW d \in Client, NEW e \in Client,
                          d # e, Past(d)', Past(e)', Awake(d)', Awake(e)',
                          run'[d].exclusive \/ run'[e].exclusive
                   PROVE  Saw(d, e)' \/ Saw(e, d)'
        BY DEF SeenOk
      <3>1. run[d].exclusive \/ run[e].exclusive
        BY <2>3
      <3>2. Saw(d, e) \/ Saw(e, d)
        BY <2>3, <3>1 DEF LockInv, SeenOk
      <3>3. QED
        BY <2>7, <3>1, <3>2
    <2>9. QED
      BY <2>4, <2>5, <2>6, <2>8 DEF LockInv
  <1>3. QED
    BY <1>1, <1>2

LEMMA RefreshPutStep == ASSUME Typed, LockInv, NEW c \in Client, RefreshPut(c) PROVE LockInv'
  <1>1. Live(c)
    BY DEF RefreshPut, Typed, Live
  <1>2. \A d \in Client : run'[d] = [run[d] EXCEPT
           !.refreshing = IF d = c THEN FALSE ELSE @, !.staleThen = @ \ {MyLock(c)}]
    BY DEF RefreshPut
  <1>3. ASSUME NEW d \in Client PROVE LeavesAlone(d)
    <2>1. /\ run'[d].id = run[d].id /\ run'[d].exclusive = run[d].exclusive
          /\ run'[d].others = run[d].others /\ run'[d].staleThen \subseteq run[d].staleThen
      <3>1. RunOk(run[d])
        BY DEF Typed
      <3> DEFINE still == IF d = c THEN FALSE ELSE run[d].refreshing
      <3>2. run'[d] = [run[d] EXCEPT !.refreshing = still, !.staleThen = @ \ {MyLock(c)}]
        BY <1>2
      <3> HIDE DEF still
      <3>3. QED
        BY <3>1, <3>2 DEF RunOk, Field
    <2>2. QED
      BY <2>1 DEF RefreshPut, LeavesAlone, Keeps, Live
  <1>4. locks' = locks \cup {MyLock(c)} /\ stale' \subseteq stale /\ UNCHANGED <<runs, slept>>
    BY DEF RefreshPut, counters
  <1>5. \A l \in locks' : l.run <= runs
    BY <1>1, <1>4 DEF LockInv, IdsOk, MyLock
  <1>6. QED
    BY <1>3, <1>4, <1>5, LockFrame DEF LockInv, ThereOk

LEMMA RemoveStaleStep == ASSUME Typed, LockInv, NEW c \in Client, RemoveStale(c) PROVE LockInv'
  <1>1. \A d \in Client : LeavesAlone(d)
    BY DEF RemoveStale, LeavesAlone, Keeps, Live, Holding, Writing, Pruning, Typed
  <1>2. \A d \in Client : Awake(d) /\ Locked(d) => MyLock(d) \in locks'
    BY DEF RemoveStale, LockInv, ThereOk, FreshOk, MyLock
  <1>3. \A l \in locks' : l.run <= runs
    BY DEF RemoveStale, LockInv, IdsOk
  <1>4. stale' \subseteq stale /\ UNCHANGED <<runs, slept>>
    BY DEF RemoveStale, counters
  <1>5. QED
    BY <1>1, <1>2, <1>3, <1>4, LockFrame

(* A lock goes stale: its run sleeps, or is no more. *)
LEMMA StaleSteps ==
    ASSUME Typed, LockInv, (\E c \in Client : Sleep(c)) \/ (\E l \in locks : Abandon(l))
    PROVE  LockInv'
  <1>1. /\ UNCHANGED <<locks, pc, run, runs>> /\ slept \subseteq slept'
        /\ \A l \in stale' \ stale : \A c \in Client : run[c].id = l.run => l.run \in slept'
    <2>1. ASSUME NEW c \in Client, Sleep(c)
          PROVE  /\ UNCHANGED <<locks, pc, run, runs>> /\ slept \subseteq slept'
                 /\ \A l \in stale' \ stale : l.run \in slept'
      BY <2>1 DEF Sleep, MyLock
    <2>2. ASSUME NEW l \in locks, Abandon(l)
          PROVE  /\ UNCHANGED <<locks, pc, run, runs>> /\ slept' = slept
                 /\ \A k \in stale' \ stale : \A c \in Client : run[c].id # k.run
      BY <2>2 DEF Abandon, counters
    <2>3. QED
      BY <2>1, <2>2
  <1>2. \A c \in Client : Awake(c)' => Awake(c)
    BY <1>1 DEF Awake, Live
  <1>3. FreshOk'
    BY <1>1, <1>2 DEF LockInv, FreshOk, Awake
  <1>4. IdsOk' /\ ThereOk' /\ SeenOk'
    BY <1>1, <1>2 DEF LockInv, IdsOk, ThereOk, SeenOk, Live, Locked, Past, Saw, MyLock
  <1>5. QED
    BY <1>3, <1>4 DEF LockInv

-----------------------------------------------------------------------------
(* The steps of a run that holds its lock. *)

LEMMA WorkingBackup ==
    ASSUME Typed, NEW c \in Client, BackupStep(c), ~OpenBackup(c)
    PROVE  Works(c) /\ UNCHANGED <<locks, stale, runs, slept>>
  <1>0. RunOk(run[c])
    BY DEF Typed
  <1>1. CASE Adopt(c)
    BY <1>0, <1>1 DEF Adopt, Set, Works, Holding, Writing, Typed, RunOk, Field, bucket, counters
  <1>2. CASE ReuseUnchanged(c)
    BY <1>0, <1>2 DEF ReuseUnchanged, Works, Holding, Writing, Typed, RunOk, Field, bucket, counters
  <1>3. CASE SaveBlob(c)
    <2>1. UNCHANGED <<pc, locks, stale, runs, slept>> /\ pc[c] = "archive"
      BY <1>3 DEF SaveBlob, bucket, counters
    <2>2. PICK b \in Blob, full \in BOOLEAN :
            LET filled == run[c].writer \cup {b}
                seen   == [run[c] EXCEPT !.tree = @ \cup {b}]
            IN  run' = [run EXCEPT ![c] =
                  IF b \in Covered(@.known) \/ is_pending(c, b) THEN seen
                  ELSE IF ~full THEN [seen EXCEPT !.writer = filled]
                  ELSE [seen EXCEPT !.writer = {},
                          !.inflight = @ \cup {[run |-> run[c].id, blobs |-> filled]}]]
      BY <1>3 DEF SaveBlob
    <2>3. /\ run'[c].id = run[c].id /\ run'[c].exclusive = run[c].exclusive
          /\ run'[c].staleThen = run[c].staleThen
          /\ \A d \in Client \ {c} : run'[d] = run[d]
      BY <1>0, <2>2 DEF Typed, RunOk, Field
    <2>4. QED
      BY <2>1, <2>3 DEF Works, Holding, Writing
  <1>4. CASE UploadPack(c)
    BY <1>0, <1>4 DEF UploadPack, Works, Holding, Writing, Typed, RunOk, Field, counters
  <1>5. CASE CloseArchive(c)
    BY <1>0, <1>5 DEF CloseArchive, Set, Works, Holding, Writing, Typed, RunOk, Field, bucket, counters
  <1>6. CASE SaveIndex(c)
    BY <1>0, <1>6 DEF SaveIndex, Set, Works, Holding, Writing, Typed, RunOk, Field, counters
  <1>7. CASE SaveSnapshot(c)
    BY <1>7 DEF SaveSnapshot, Works, Holding, Writing, Typed, counters
  <1>8. QED
    BY <1>1, <1>2, <1>3, <1>4, <1>5, <1>6, <1>7 DEF BackupStep

LEMMA WorkingPrune ==
    ASSUME Typed, NEW c \in Client, PruneStep(c), ~OpenPrune(c), ~RemoveStale(c)
    PROVE  Works(c) /\ UNCHANGED <<locks, stale, runs, slept>>
  <1>0. RunOk(run[c])
    BY DEF Typed
  <1>1. CASE Mark(c)
    <2> DEFINE marked == UNION {s.blobs : s \in snaps \ run[c].forget}
               r == [run[c] EXCEPT !.known = Listings(indexes), !.sources = indexes,
                                   !.needed = marked]
    <2>1. pc[c] = "swept" /\ (Set(c, "marked", r) \/ Set(c, "failed", run[c]))
      BY <1>1 DEF Mark
    <2>2. /\ r.id = run[c].id /\ r.exclusive = run[c].exclusive
          /\ r.staleThen = run[c].staleThen
      BY <1>0 DEF RunOk, Field
    <2>3. UNCHANGED <<locks, stale, runs, slept>>
      BY <1>1 DEF Mark, bucket, counters
    <2> HIDE DEF r
    <2>4. QED
      BY <2>1, <2>2, <2>3 DEF Set, Works, Holding, Pruning, Typed
  <1>2. CASE PlanSweep(c)
    <2>1. pc[c] = "marked" /\ \E ds, ss, rs, ks :
             Set(c, "planned", [run[c] EXCEPT !.doomed = ds, !.spared = ss, !.repack = rs, !.kept = ks])
      BY <1>2 DEF PlanSweep
    <2>2. UNCHANGED <<locks, stale, runs, slept>>
      BY <1>2 DEF PlanSweep, bucket, counters
    <2>3. QED
      BY <1>0, <2>1, <2>2 DEF Set, Works, Holding, Pruning, Typed, RunOk, Field
  <1>3. CASE ForgetSnapshot(c)
    BY <1>0, <1>3 DEF ForgetSnapshot, Set, Works, Holding, Pruning, Typed, RunOk, Field, counters
  <1>4. CASE CopyNeeded(c)
    <2>1. PICK l \in run[c].repack :
            LET copy == [run |-> run[c].id, blobs |-> l.blobs] IN
            run' = [run EXCEPT ![c].repack = @ \ {l}, ![c].kept = @ \cup AsListings({copy}),
                               ![c].doomed = @ \cup {l.pack}]
      BY <1>4 DEF CopyNeeded
    <2>2. pc[c] = "repack" /\ UNCHANGED <<pc, locks, stale, runs, slept>>
      BY <1>4 DEF CopyNeeded, counters
    <2>3. QED
      BY <1>0, <2>1, <2>2 DEF Works, Holding, Pruning, Typed, RunOk, Field
  <1>5. CASE SaveNewIndex(c)
    BY <1>5 DEF SaveNewIndex, Works, Holding, Pruning, Typed, counters
  <1>6. CASE DeleteIndex(c)
    BY <1>0, <1>6 DEF DeleteIndex, Works, Holding, Pruning, Typed, RunOk, Field, counters
  <1>7. CASE DeletePack(c)
    BY <1>0, <1>7 DEF DeletePack, Set, Works, Holding, Pruning, Typed, RunOk, Field, counters
  <1>8. QED
    BY <1>1, <1>2, <1>3, <1>4, <1>5, <1>6, <1>7 DEF PruneStep

LEMMA WorkingElse ==
    ASSUME Typed, NEW c \in Client, EnsureHeld(c) \/ RefreshHead(c) \/ Fail(c)
    PROVE  Works(c) /\ UNCHANGED <<locks, stale, runs, slept>>
  <1>0. RunOk(run[c])
    BY DEF Typed
  <1>1. CASE EnsureHeld(c)
    BY <1>1 DEF EnsureHeld, Works, Holding, Writing, Pruning, Typed, bucket, counters
  <1>2. CASE RefreshHead(c)
    BY <1>0, <1>2 DEF RefreshHead, Works, Holding, Typed, RunOk, Field, bucket, counters
  <1>3. CASE Fail(c)
    BY <1>3 DEF Fail, Works, Holding, Typed, bucket
  <1>4. QED
    BY <1>1, <1>2, <1>3

LEMMA LockInductive == ASSUME Typed, LockInv, [Next]_vars PROVE LockInv'
  <1>1. ASSUME NEW c \in Client, Works(c), UNCHANGED <<locks, stale, runs, slept>> PROVE LockInv'
    BY <1>1, LocksUntouched
  <1>2. ASSUME NEW c \in Client, Release(c) \/ Crash(c) PROVE LockInv'
    BY <1>2, EndStep DEF Release, Crash, Live, bucket, counters
  <1>3. ASSUME NEW c \in Client, LockStep(c) PROVE LockInv'
    BY <1>1, <1>2, <1>3, PutLockStep, ListLocksStep, JudgeStep, RefreshPutStep, WorkingElse DEF LockStep
  <1>4. ASSUME NEW c \in Client, BackupStep(c) PROVE LockInv'
    BY <1>1, <1>4, OpenSteps, WorkingBackup
  <1>5. ASSUME NEW c \in Client, PruneStep(c) PROVE LockInv'
    BY <1>1, <1>5, OpenSteps, RemoveStaleStep, WorkingPrune
  <1>6. ASSUME UNCHANGED <<locks, stale, pc, run, runs, slept>> PROVE LockInv'
    BY <1>6 DEF LockInv, IdsOk, FreshOk, ThereOk, SeenOk, Awake, Live, Locked, Past, Saw, MyLock
  <1>7. QED
    BY <1>1, <1>2, <1>3, <1>4, <1>5, <1>6, StaleSteps, WorkingElse
       DEF Next, AgePacks, vars, bucket, counters

-----------------------------------------------------------------------------
(* For any clients, blobs and bounds, and whatever fails, dies or sleeps: the
   repository is well formed, no run stores a blob twice (save_blob,
   upload_pack), and while a prune holds its lock no run holds one unless one
   of the two slept through STALE_AFTER (Lock::acquire). *)
THEOREM RepositoryIsConsistent == Spec => []Consistent
  <1> DEFINE IInv == Typed /\ StoreInv /\ LockInv
  <1>1. Init => IInv
    BY InitTyped, StoreInit, LockInit
  <1>2. IInv /\ [Next]_vars => IInv'
    BY TypedInductive, StoreInductive, LockInductive
  <1>3. IInv => Consistent
    BY TypedSuffices, LockInvSuffices DEF Consistent, StoreInv, StoredOnce, Once
  <1> HIDE DEF IInv
  <1>4. QED
    BY <1>1, <1>2, <1>3, PTL DEF Spec

-----------------------------------------------------------------------------
(* Every snapshot can be restored at every moment, as long as no run sleeps  *)
(* through STALE_AFTER: wherever a blob is listed its pack is stored, and    *)
(* unless the backup that made the snapshot was overtaken all are listed.    *)

Listed == Listings(indexes)

(* The bucket: what an index lists is stored, what a snapshot needs is listed
   unless its backup was overtaken. *)
BucketOk ==
    /\ \A l \in Listed : l.pack \in packs
    /\ \A s \in snaps : s.run \notin overtaken => s.blobs \subseteq Covered(Listed)
    /\ \A p \in packs : p.run <= runs
    /\ \A i \in indexes : i.run <= runs

(* A backup: what it will list is stored.  If it was not overtaken, what it
   knows is listed, or still to be listed by it, and what its snapshot will need
   is known, or in its hands. *)
BackupOk(c) ==
    /\ pc[c] \notin Pruning
    /\ \A l \in run[c].newPacks : l.pack \in packs
    /\ pc[c] \notin {"archive", "flush", "failed"} => run[c].newPacks = {}
    /\ \A p \in run[c].inflight : p.run = run[c].id
    /\ pc[c] \in {"flush", "indexed", "publish"} => run[c].writer = {}
    /\ pc[c] \in {"indexed", "publish"} => run[c].inflight = {}
    /\ run[c].id \notin overtaken =>
          /\ run[c].known \subseteq Listed \cup run[c].newPacks
          /\ run[c].parent \subseteq Covered(run[c].known)
          /\ run[c].tree \subseteq
                Covered(run[c].known) \cup run[c].writer \cup BlobsOf(run[c].inflight)

(* A prune has written nothing before it copies ... *)
Early == {"opened", "locking", "listed", "held", "swept", "marked", "planned", "forget"}

(* ... and nothing of what it will delete is needed. *)
Planned == {"planned", "forget", "repack", "reindexed", "sweep"}

NewIndex(c) == [run |-> run[c].id, packs |-> run[c].kept]

PruneOk(c) ==
    /\ Nothing(run[c]) /\ pc[c] \notin Writing
    /\ pc[c] \in Early => \A p \in packs : p.run # run[c].id
    /\ pc[c] \in Early \cup {"repack"} => \A i \in indexes : i.run # run[c].id
    /\ pc[c] \in {"marked", "planned", "forget", "repack"} => run[c].sources = indexes
    /\ pc[c] = "marked" => run[c].known = Listed
    /\ pc[c] = "marked" => run[c].needed \subseteq Covered(Listed)
    /\ pc[c] \in {"marked", "planned", "forget"} =>
          \A s \in snaps \ run[c].forget : s.blobs \subseteq run[c].needed
    /\ pc[c] \in {"repack", "reindexed", "sweep"} => \A s \in snaps : s.blobs \subseteq run[c].needed
    /\ pc[c] \in Planned => run[c].needed \subseteq Covered(run[c].kept) \cup Covered(run[c].repack)
    /\ pc[c] \in Planned =>
          /\ \A l \in run[c].kept : l.pack \in packs /\ l.pack \notin run[c].doomed
          /\ \A l \in run[c].repack, k \in run[c].kept : l.pack # k.pack
          /\ \A p \in run[c].doomed : p.run # run[c].id
          /\ \A l \in run[c].repack : l.pack.run # run[c].id
    /\ pc[c] \in {"reindexed", "sweep"} =>
          /\ run[c].repack = {}
          /\ \A i \in indexes : i \in run[c].sources \/ i.packs = run[c].kept
          /\ \A i \in run[c].sources : i.run # run[c].id
          /\ run[c].kept # {} => NewIndex(c) \in indexes

RunOkay(c) ==
    pc[c] # "idle" => IF run[c].exclusive THEN PruneOk(c) ELSE BackupOk(c)

SafeInv == slept = {} => BucketOk /\ \A c \in Client : RunOkay(c)
-----------------------------------------------------------------------------
(* Listings, and what they cover. *)

LEMMA CoveredGrows == ASSUME NEW ks, NEW ls, ks \subseteq ls PROVE Covered(ks) \subseteq Covered(ls)
  BY DEF Covered

LEMMA ListingsGrow == ASSUME NEW is, NEW js, is \subseteq js PROVE Listings(is) \subseteq Listings(js)
  BY DEF Listings

LEMMA SafeSuffices == ASSUME SafeInv PROVE Restorable
  <1> SUFFICES ASSUME slept = {}, NEW s \in snaps, NEW b \in s.blobs
               PROVE  /\ s.run \notin overtaken => b \in Covered(Listings(indexes))
                      /\ \A l \in Listings(indexes) : b \in l.blobs => l.pack \in packs
    BY DEF Restorable
  <1>1. QED
    BY DEF SafeInv, BucketOk, Listed

LEMMA SafeInit == Init => SafeInv
  <1> SUFFICES ASSUME Init PROVE BucketOk /\ \A c \in Client : RunOkay(c)
    BY DEF SafeInv
  <1>1. PICK h \in Client, s \in (SUBSET Blob) \ {{}}, t \in (SUBSET Blob) \ {{}} :
          /\ snaps = {[run |-> 1, host |-> h, blobs |-> s],
                      [run |-> 2, host |-> h, blobs |-> t]}
          /\ packs = {p \in {[run |-> 1, blobs |-> s], [run |-> 2, blobs |-> t \ s]} :
                         p.blobs # {}}
    BY DEF Init
  <1>2. indexes = {[run |-> p.run, packs |-> {[pack |-> p, blobs |-> p.blobs]}] : p \in packs}
    BY DEF Init
  <1>3. \A l \in Listed : \E p \in packs : l = [pack |-> p, blobs |-> p.blobs]
    BY <1>2 DEF Listed, Listings
  <1>4. ASSUME NEW p \in packs PROVE p.blobs \subseteq Covered(Listed)
    <2> DEFINE l == [pack |-> p, blobs |-> p.blobs]
               i == [run |-> p.run, packs |-> {l}]
    <2>1. i \in indexes /\ l \in i.packs /\ l.blobs = p.blobs
      BY <1>2
    <2> HIDE DEF i, l
    <2>2. QED
      BY <2>1 DEF Listed, Listings, Covered
  <1>5. \A x \in snaps : x.blobs \subseteq Covered(Listed)
    <2>1. s \subseteq Covered(Listed)
      <3> DEFINE p == [run |-> 1, blobs |-> s]
      <3>1. p \in packs /\ p.blobs = s
        BY <1>1
      <3> HIDE DEF p
      <3>2. QED
        BY <1>4, <3>1
    <2>2. t \ s \subseteq Covered(Listed)
      <3> DEFINE p == [run |-> 2, blobs |-> t \ s]
      <3>1. t \ s # {} => p \in packs /\ p.blobs = t \ s
        BY <1>1
      <3> HIDE DEF p
      <3>2. QED
        BY <1>4, <3>1
    <2>3. QED
      BY <1>1, <2>1, <2>2
  <1>6. (\A p \in packs : p.run <= runs) /\ (\A i \in indexes : i.run <= runs)
    <2>1. \A p \in packs : p.run <= 2
      BY <1>1
    <2>2. QED
      BY <1>2, <2>1 DEF Init
  <1>7. BucketOk
    BY <1>3, <1>5, <1>6 DEF BucketOk
  <1>8. QED
    BY <1>7 DEF Init, RunOkay

-----------------------------------------------------------------------------
(* The other runs.  A prune that holds its lock is alone, so the bucket only *)
(* grows under a backup that holds its own, and changes under no prune that  *)
(* has begun.  A backup that has yet to take its lock is overtaken by the    *)
(* first index that a prune deletes.                                         *)

LEMMA NoneBeside ==
    ASSUME slept = {}, LockInv, NEW c \in Client, NEW d \in Client, c # d,
           run[c].exclusive \/ run[d].exclusive, Holding(c)
    PROVE  ~Holding(d)
  BY LockInvSuffices DEF Exclusion

(* A backup that does not move: what it is to list is still stored, and it is
   overtaken or indexes are only added. *)
LEMMA BackupRests ==
    ASSUME NEW d \in Client, BackupOk(d), pc'[d] = pc[d], run'[d] = run[d],
           packs \subseteq packs' \/ run[d].newPacks = {},
           indexes \subseteq indexes' \/ run[d].id \in overtaken',
           overtaken \subseteq overtaken'
    PROVE  BackupOk(d)'
  <1>1. run'[d].id \notin overtaken' => run[d].id \notin overtaken /\ Listed \subseteq Listed'
    BY ListingsGrow DEF Listed
  <1>2. QED
    BY <1>1 DEF BackupOk

(* A prune that has not begun, while others add what they write. *)
LEMMA PruneRests ==
    ASSUME NEW d \in Client, PruneOk(d), pc'[d] = pc[d], run'[d] = run[d], ~Holding(d),
           \A p \in packs' \ packs : p.run # run[d].id,
           \A i \in indexes' \ indexes : i.run # run[d].id
    PROVE  PruneOk(d)'
  BY DEF PruneOk, Early, Planned, Holding, Writing, Pruning

(* What the invariant reads of a run. *)
Alike(d) ==
    /\ pc'[d] = pc[d]
    /\ run'[d].id = run[d].id /\ run'[d].exclusive = run[d].exclusive
    /\ run'[d].known = run[d].known /\ run'[d].newPacks = run[d].newPacks
    /\ run'[d].parent = run[d].parent /\ run'[d].tree = run[d].tree
    /\ run'[d].writer = run[d].writer /\ run'[d].inflight = run[d].inflight
    /\ run'[d].sources = run[d].sources /\ run'[d].needed = run[d].needed
    /\ run'[d].forget = run[d].forget /\ run'[d].kept = run[d].kept
    /\ run'[d].repack = run[d].repack /\ run'[d].doomed = run[d].doomed

LEMMA AlikeKeeps ==
    ASSUME NEW d \in Client, Alike(d), RunOkay(d), UNCHANGED <<packs, indexes, snaps>>,
           overtaken \subseteq overtaken'
    PROVE  RunOkay(d)'
  <1>1. Listed' = Listed
    BY DEF Listed
  <1>2. CASE run[d].exclusive
    BY <1>1, <1>2 DEF RunOkay, PruneOk, Alike, Nothing, NewIndex
  <1>3. CASE ~run[d].exclusive
    BY <1>1, <1>3 DEF RunOkay, BackupOk, Alike
  <1>4. QED
    BY <1>2, <1>3

LEMMA SameIsAlike == ASSUME NEW d \in Client, pc'[d] = pc[d], run'[d] = run[d] PROVE Alike(d)
  BY DEF Alike

(* What is assumed of every step, and what a step of c leaves to be shown. *)
Before == Typed /\ StoreInv /\ LockInv /\ SafeInv /\ slept = {}

Alone(c) == \A d \in Client \ {c} : pc'[d] = pc[d] /\ run'[d] = run[d]

Adds(c) ==
    /\ \A p \in packs' \ packs : p.run = run[c].id
    /\ \A i \in indexes' \ indexes : i.run = run[c].id
    /\ run[c].exclusive \/ packs \subseteq packs'
    /\ \/ indexes \subseteq indexes'
       \/ /\ run[c].exclusive
          /\ \A d \in Client : Live(d) /\ ~run[d].exclusive => run[d].id \in overtaken'
    /\ overtaken \subseteq overtaken'

LEMMA QuietStep ==
    ASSUME Before, NEW c \in Client, Alone(c), UNCHANGED <<packs, indexes, snaps, runs, overtaken>>, RunOkay(c)'
    PROVE  SafeInv'
  <1>1. \A d \in Client \ {c} : RunOkay(d)'
    BY SameIsAlike, AlikeKeeps DEF Before, SafeInv, Alone
  <1>2. BucketOk'
    BY DEF Before, SafeInv, BucketOk, Listed
  <1>3. QED
    BY <1>1, <1>2 DEF SafeInv

LEMMA HeldStep ==
    ASSUME Before, NEW c \in Client, Alone(c), Holding(c), Adds(c), BucketOk', RunOkay(c)'
    PROVE  SafeInv'
  <1>1. ASSUME NEW d \in Client \ {c} PROVE RunOkay(d)'
    <2> SUFFICES ASSUME Live(d) PROVE RunOkay(d)'
      BY DEF Live, RunOkay, Alone
    <2>1. Live(c) /\ run[c].id # run[d].id
      BY DEF Before, LockInv, IdsOk, Live, Holding, Writing, Pruning
    <2>2. CASE run[d].exclusive
      <3>1. ~Holding(d)
        BY <2>2, NoneBeside DEF Before
      <3>2. PruneOk(d)
        BY <2>2 DEF Before, SafeInv, RunOkay, Live
      <3>3. PruneOk(d)'
        BY <2>1, <3>1, <3>2, PruneRests DEF Alone, Adds
      <3>4. QED
        BY <2>2, <3>3 DEF RunOkay, Alone
    <2>3. CASE ~run[d].exclusive
      <3>2. BackupOk(d)
        BY <2>3 DEF Before, SafeInv, RunOkay, Live
      <3>1. packs \subseteq packs' \/ run[d].newPacks = {}
        <4>1. CASE run[c].exclusive
          BY <3>2, <4>1, NoneBeside DEF Before, BackupOk, Holding, Writing
        <4>2. QED
          BY <4>1 DEF Adds
      <3>3. BackupOk(d)'
        BY <2>3, <3>1, <3>2, BackupRests DEF Alone, Adds
      <3>4. QED
        BY <2>3, <3>3 DEF RunOkay, Alone
    <2>4. QED
      BY <2>2, <2>3
  <1>2. QED
    BY <1>1 DEF SafeInv

(* A run's own field facts. *)
LEMMA Known ==
    ASSUME Before, NEW c \in Client
    PROVE  /\ DOMAIN run = Client /\ pc \in [Client -> State] /\ DOMAIN run[c] = Field
           /\ BucketOk /\ RunOkay(c)
           /\ Live(c) => run[c].id \in RunId /\ run[c].id <= runs /\ runs \in Nat
  BY DEF Before, Typed, RunOk, SafeInv, LockInv, IdsOk, Live

-----------------------------------------------------------------------------
(* Steps of the locks, ends and failures: nothing in the bucket changes. *)

LEMMA OpenSafe == ASSUME Before, NEW c \in Client, OpenBackup(c) \/ OpenPrune(c) PROVE SafeInv'
  <1>0. RunOk(NoRun)
    BY NoRunTyped
  <1>1. UNCHANGED <<packs, indexes, snaps, slept>> /\ runs' = runs + 1 /\ overtaken \subseteq overtaken'
    BY DEF OpenBackup, OpenPrune, Start, bucket
  <1>2. runs \in Nat /\ (\A p \in packs : p.run \in RunId) /\ (\A i \in indexes : i.run \in RunId)
    BY DEF Before, Typed, Pack, IndexObject
  <1>3. BucketOk /\ Listed' = Listed
    BY <1>1, Known DEF Listed
  <1>4. /\ \A p \in packs : p.run <= runs' /\ p.run # runs'
        /\ \A i \in indexes : i.run <= runs' /\ i.run # runs'
    BY <1>1, <1>2, <1>3 DEF BucketOk, RunId
  <1>5. BucketOk'
    BY <1>1, <1>3, <1>4 DEF BucketOk
  <1>6. Alone(c)
    BY DEF OpenBackup, OpenPrune, Set, Before, Typed, Alone
  <1>7. /\ DOMAIN Opened = Field /\ Opened.id = runs' /\ ~Opened.exclusive
        /\ Opened.known = Listed /\ Opened.newPacks = {} /\ Opened.parent = {} /\ Opened.tree = {}
        /\ Opened.writer = {} /\ Opened.inflight = {}
    BY <1>0 DEF Opened, NoRun, RunOk, Field, Listed
  <1>8. RunOkay(c)'
    <2>1. CASE OpenBackup(c)
      <3>1. PICK parents \in {{}, Newest(c)} :
              /\ Set(c, "opened", [Opened EXCEPT !.parent = UNION {s.blobs : s \in parents}])
              /\ overtaken' = overtaken \cup {runs' : s \in {q \in parents : q.run \in overtaken}}
        BY <2>1 DEF OpenBackup
      <3> DEFINE parent == UNION {s.blobs : s \in parents}
      <3>2. runs' \notin overtaken' => parent \subseteq Covered(Listed)
        <4>1. \A s \in parents : s \in snaps
          BY <3>1 DEF Newest
        <4>2. runs' \notin overtaken' => \A s \in parents : s.run \notin overtaken
          BY <3>1
        <4>3. QED
          BY <1>3, <4>1, <4>2 DEF BucketOk
      <3> HIDE DEF parent
      <3>3. /\ pc'[c] = "opened" /\ run'[c].parent = parent /\ ~run'[c].exclusive
            /\ run'[c].id = runs'
            /\ run'[c].known = Listed /\ run'[c].newPacks = {} /\ run'[c].tree = {}
            /\ run'[c].writer = {} /\ run'[c].inflight = {}
        BY <1>7, <3>1 DEF parent, Set, Before, Typed, Field
      <3>4. BackupOk(c)'
        BY <1>1, <1>3, <3>2, <3>3 DEF BackupOk, BucketOk, Pruning
      <3>5. QED
        BY <3>3, <3>4 DEF RunOkay
    <2>2. CASE OpenPrune(c)
      <3>1. PICK forget : Set(c, "opened", [Opened EXCEPT !.exclusive = TRUE, !.forget = forget])
        BY <2>2 DEF OpenPrune
      <3>2. /\ pc'[c] = "opened" /\ run'[c].id = runs' /\ run'[c].exclusive
            /\ run'[c].writer = {} /\ run'[c].inflight = {}
        BY <1>7, <3>1 DEF Set, Before, Typed, Field
      <3>3. PruneOk(c)'
        BY <1>1, <1>4, <3>2 DEF PruneOk, Nothing, Writing, Early, Planned
      <3>4. QED
        BY <3>2, <3>3 DEF RunOkay
    <2>3. QED
      BY <2>1, <2>2
  <1>9. \A d \in Client \ {c} : RunOkay(d)'
    BY <1>1, <1>6, SameIsAlike, AlikeKeeps DEF Before, SafeInv, Alone
  <1>10. QED
    BY <1>5, <1>8, <1>9 DEF SafeInv

LEMMA EndSafe ==
    ASSUME Before, NEW c \in Client, Set(c, "idle", NoRun), UNCHANGED <<packs, indexes, snaps, runs, overtaken>>
    PROVE  SafeInv'
  <1>1. Alone(c) /\ pc'[c] = "idle"
    BY Known DEF Set, Alone
  <1>2. RunOkay(c)'
    BY <1>1 DEF RunOkay
  <1>3. QED
    BY <1>1, <1>2, QuietStep

(* The same run at another point, which asks no more of it. *)
LEMMA MoveSafe ==
    ASSUME Before, NEW c \in Client, Alone(c), UNCHANGED <<packs, indexes, snaps, runs, overtaken>>,
           pc[c] # "idle",
           run'[c] = run[c],
           \/ pc[c] = "opened" /\ pc'[c] = "locking"
           \/ pc[c] = "indexed" /\ pc'[c] = "publish"
           \/ pc[c] = "planned" /\ pc'[c] = "forget"
           \/ pc[c] = "reindexed" /\ pc'[c] = "sweep"
           \/ run[c].exclusive /\ pc[c] = "held" /\ pc'[c] = "swept"
           \/ pc'[c] = "failed"
    PROVE  SafeInv'
  <1>1. RunOkay(c)
    BY Known
  <1>2. Listed' = Listed
    BY DEF Listed
  <1>3. CASE run[c].exclusive
    <2>1. PruneOk(c)
      BY <1>1, <1>3 DEF RunOkay
    <2>2. PruneOk(c)'
      BY <1>2, <2>1 DEF PruneOk, Nothing, Writing, Early, Planned, NewIndex
    <2>3. QED
      BY <1>3, <2>2, QuietStep DEF RunOkay
  <1>4. CASE ~run[c].exclusive
    <2>1. BackupOk(c)
      BY <1>1, <1>4 DEF RunOkay
    <2>2. BackupOk(c)'
      BY <1>2, <1>4, <2>1 DEF BackupOk, Pruning
    <2>3. QED
      BY <1>4, <2>2, QuietStep DEF RunOkay
  <1>5. QED
    BY <1>3, <1>4

(* A run that looks at the locks. *)
LEMMA LookSafe ==
    ASSUME Before, NEW c \in Client, NEW r, NEW s, Set(c, s, r),
           UNCHANGED <<packs, indexes, snaps, runs, overtaken>>,
           \/ pc[c] = "locking" /\ s = "listed"
           \/ pc[c] = "listed" /\ s = "held",
           \/ r = [run[c] EXCEPT !.others = {}]
           \/ r = [run[c] EXCEPT !.others = locks \ (stale \cup {MyLock(c)}), !.staleThen = stale]
    PROVE  SafeInv'
  <1>1. /\ r.id = run[c].id /\ r.exclusive = run[c].exclusive
        /\ r.known = run[c].known /\ r.newPacks = run[c].newPacks
        /\ r.parent = run[c].parent /\ r.tree = run[c].tree
        /\ r.writer = run[c].writer /\ r.inflight = run[c].inflight
    BY Known DEF Field
  <1>2. run'[c] = r /\ pc'[c] = s /\ Alone(c)
    BY Known DEF Set, Alone
  <1>3. RunOkay(c) /\ Listed' = Listed
    BY Known DEF Listed
  <1>4. RunOkay(c)'
    <2>1. CASE run[c].exclusive
      <3>1. PruneOk(c)
        BY <1>3, <2>1 DEF RunOkay
      <3>2. PruneOk(c)'
        BY <1>1, <1>2, <3>1 DEF PruneOk, Nothing, Writing, Early, Planned
      <3>3. QED
        BY <1>1, <1>2, <2>1, <3>2 DEF RunOkay
    <2>2. CASE ~run[c].exclusive
      <3>1. BackupOk(c)
        BY <1>3, <2>2 DEF RunOkay
      <3>2. BackupOk(c)'
        BY <1>1, <1>2, <1>3, <3>1 DEF BackupOk, Pruning
      <3>3. QED
        BY <1>1, <1>2, <2>2, <3>2 DEF RunOkay
    <2>3. QED
      BY <2>1, <2>2
  <1>5. QED
    BY <1>2, <1>4, QuietStep

LEMMA LockSafe ==
    ASSUME Before, NEW c \in Client,
           PutLock(c) \/ ListLocks(c) \/ Judge(c) \/ EnsureHeld(c) \/ Release(c) \/ RemoveStale(c)
    PROVE  SafeInv'
  <1>1. CASE PutLock(c) \/ EnsureHeld(c) \/ RemoveStale(c)
    <2>1. Alone(c) /\ run' = run
      BY <1>1, Known DEF PutLock, EnsureHeld, RemoveStale, Alone
    <2>2. UNCHANGED <<packs, indexes, snaps, runs, overtaken>> /\ pc[c] # "idle"
      BY <1>1 DEF PutLock, EnsureHeld, RemoveStale, bucket, counters
    <2>3. \/ pc[c] = "opened" /\ pc'[c] = "locking"
          \/ pc[c] = "indexed" /\ pc'[c] = "publish"
          \/ pc[c] = "planned" /\ pc'[c] = "forget"
          \/ pc[c] = "reindexed" /\ pc'[c] = "sweep"
          \/ run[c].exclusive /\ pc[c] = "held" /\ pc'[c] = "swept"
          \/ pc'[c] = "failed"
      BY <1>1, Known DEF PutLock, EnsureHeld, RemoveStale
    <2>4. QED
      BY <2>1, <2>2, <2>3, MoveSafe
  <1>2. ASSUME ListLocks(c) \/ (Judge(c) /\ ~Conflicting(c)) PROVE SafeInv'
    <2>1. UNCHANGED <<packs, indexes, snaps, runs, overtaken>>
      BY <1>2 DEF ListLocks, Judge, bucket, counters
    <2>2. CASE ListLocks(c)
      <3> DEFINE r == [run[c] EXCEPT !.others = locks \ (stale \cup {MyLock(c)}), !.staleThen = stale]
      <3>1. Set(c, "listed", r) /\ pc[c] = "locking"
        BY <2>2 DEF ListLocks
      <3>2. r = [run[c] EXCEPT !.others = locks \ (stale \cup {MyLock(c)}), !.staleThen = stale]
        OBVIOUS
      <3> HIDE DEF r
      <3>3. QED
        BY <2>1, <3>1, <3>2, LookSafe
    <2>3. CASE Judge(c) /\ ~Conflicting(c)
      BY <2>1, <2>3, LookSafe DEF Judge
    <2>4. QED
      BY <1>2, <2>2, <2>3
  <1>3. CASE Release(c) \/ (Judge(c) /\ Conflicting(c))
    BY <1>3, EndSafe DEF Release, Judge, counters
  <1>4. QED
    BY <1>1, <1>2, <1>3

LEMMA RefreshSafe == ASSUME Before, NEW c \in Client, RefreshHead(c) \/ RefreshPut(c) PROVE SafeInv'
  <1>1. UNCHANGED <<packs, indexes, snaps, runs, pc, overtaken>>
    BY DEF RefreshHead, RefreshPut, bucket, counters
  <1>2. ASSUME NEW d \in Client PROVE Alike(d)
    <2>1. DOMAIN run[d] = Field
      BY Known
    <2>2. CASE RefreshHead(c)
      <3>1. CASE d = c
        <4>1. \/ run'[d] = [run[d] EXCEPT !.refreshing = TRUE]
              \/ run'[d] = [run[d] EXCEPT !.lost = TRUE]
          BY <2>2, <3>1, Known DEF RefreshHead
        <4>2. QED
          BY <1>1, <2>1, <4>1 DEF Alike, Field
      <3>2. CASE d # c
        BY <1>1, <2>2, <3>2, Known DEF RefreshHead, Alike
      <3>3. QED
        BY <3>1, <3>2
    <2>3. CASE RefreshPut(c)
      <3>1. run'[d] = [run[d] EXCEPT !.refreshing = IF d = c THEN FALSE ELSE @,
                                     !.staleThen = @ \ {MyLock(c)}]
        BY <2>3 DEF RefreshPut
      <3>2. QED
        BY <1>1, <2>1, <3>1 DEF Alike, Field
    <2>4. QED
      BY <2>2, <2>3
  <1>3. \A d \in Client : RunOkay(d)'
    BY <1>1, <1>2, AlikeKeeps, Known
  <1>4. BucketOk'
    <2>1. BucketOk
      BY Known
    <2>2. QED
      BY <1>1, <2>1 DEF BucketOk, Listed
  <1>5. QED
    BY <1>3, <1>4 DEF SafeInv

LEMMA FaultSafe == ASSUME Before, NEW c \in Client, Fail(c) \/ Crash(c) \/ Sleep(c) PROVE SafeInv'
  <1>1. CASE Fail(c)
    <2>1. UNCHANGED <<packs, indexes, snaps, runs, run, overtaken>> /\ pc' = [pc EXCEPT ![c] = "failed"]
      BY <1>1 DEF Fail, bucket
    <2>2. pc[c] # "idle"
      BY <1>1 DEF Fail, Holding, Writing, Pruning
    <2>3. QED
      BY <2>1, <2>2, Known, MoveSafe DEF Alone
  <1>2. CASE Crash(c)
    BY <1>2, EndSafe DEF Crash, bucket
  <1>3. CASE Sleep(c)
    BY <1>3 DEF Sleep, SafeInv
  <1>4. QED
    BY <1>1, <1>2, <1>3

(* Nothing that the invariant reads changes. *)
LEMMA ElseSafe ==
    ASSUME Before, UNCHANGED <<packs, indexes, snaps, pc, run, runs, overtaken>>
    PROVE  SafeInv'
  <1>1. \A d \in Client : RunOkay(d)'
    BY SameIsAlike, AlikeKeeps, Known
  <1>2. BucketOk'
    BY DEF Before, SafeInv, BucketOk, Listed
  <1>3. QED
    BY <1>1, <1>2 DEF SafeInv, Before

-----------------------------------------------------------------------------
(* Steps of a backup. *)

LEMMA IsBackup ==
    ASSUME Before, NEW c \in Client, pc[c] \in Writing \/ (pc[c] # "idle" /\ ~Nothing(run[c]))
    PROVE  ~run[c].exclusive /\ BackupOk(c) /\ pc[c] # "idle"
  BY Known DEF RunOkay, PruneOk, Writing

LEMMA AdoptSafe == ASSUME Before, NEW c \in Client, Adopt(c) PROVE SafeInv'
  <1>1. UNCHANGED <<packs, indexes, snaps, runs, overtaken>> /\ Listed' = Listed
    BY DEF Adopt, bucket, counters, Listed
  <1>2. BackupOk(c) /\ ~run[c].exclusive /\ run[c].newPacks = {}
    BY Known DEF Adopt, RunOkay, BackupOk
  <1>3. PICK adopted \in SUBSET Orphans(run[c].known) :
          Set(c, "archive", [run[c] EXCEPT !.known = @ \cup AsListings(adopted),
                                           !.newPacks = AsListings(adopted)])
    BY DEF Adopt
  <1> DEFINE new == AsListings(adopted)
  <1>4. /\ run'[c].known = run[c].known \cup new /\ run'[c].newPacks = new
        /\ run'[c].exclusive = run[c].exclusive /\ run'[c].id = run[c].id
        /\ run'[c].parent = run[c].parent /\ run'[c].tree = run[c].tree
        /\ run'[c].writer = run[c].writer /\ run'[c].inflight = run[c].inflight
        /\ pc'[c] = "archive" /\ Alone(c)
    BY <1>3, Known DEF Set, Field, Alone
  <1>5. \A l \in new : l.pack \in packs
    BY DEF AsListings, Orphans
  <1> HIDE DEF new
  <1>6. Covered(run[c].known) \subseteq Covered(run'[c].known)
    BY <1>4, CoveredGrows
  <1>7. BackupOk(c)'
    BY <1>1, <1>2, <1>4, <1>5, <1>6 DEF BackupOk, Pruning
  <1>8. QED
    BY <1>1, <1>2, <1>4, <1>7, QuietStep DEF RunOkay

LEMMA ReuseSafe == ASSUME Before, NEW c \in Client, ReuseUnchanged(c) PROVE SafeInv'
  <1>1. UNCHANGED <<packs, indexes, snaps, runs, pc, overtaken>> /\ Listed' = Listed
    BY DEF ReuseUnchanged, bucket, counters, Listed
  <1>2. BackupOk(c) /\ ~run[c].exclusive
    BY IsBackup DEF ReuseUnchanged, Writing
  <1>3. PICK b \in run[c].parent : run' = [run EXCEPT ![c].tree = @ \cup {b}]
    BY DEF ReuseUnchanged
  <1>4. /\ run'[c].known = run[c].known /\ run'[c].newPacks = run[c].newPacks
        /\ run'[c].exclusive = run[c].exclusive /\ run'[c].id = run[c].id
        /\ run'[c].parent = run[c].parent /\ run'[c].tree = run[c].tree \cup {b}
        /\ run'[c].writer = run[c].writer /\ run'[c].inflight = run[c].inflight
        /\ Alone(c)
    BY <1>1, <1>3, Known DEF Field, Alone
  <1>5. BackupOk(c)'
    BY <1>1, <1>2, <1>4 DEF BackupOk
  <1>6. QED
    BY <1>1, <1>2, <1>4, <1>5, QuietStep DEF RunOkay

LEMMA SaveBlobSafe == ASSUME Before, NEW c \in Client, SaveBlob(c) PROVE SafeInv'
  <1>1. UNCHANGED <<packs, indexes, snaps, runs, pc, overtaken>> /\ Listed' = Listed
    BY DEF SaveBlob, bucket, counters, Listed
  <1>2. BackupOk(c) /\ ~run[c].exclusive /\ pc[c] = "archive"
    BY IsBackup DEF SaveBlob, Writing
  <1>3. PICK b \in Blob, full \in BOOLEAN :
          LET filled == run[c].writer \cup {b}
              seen   == [run[c] EXCEPT !.tree = @ \cup {b}]
          IN  run' = [run EXCEPT ![c] =
                IF b \in Covered(@.known) \/ is_pending(c, b) THEN seen
                ELSE IF ~full THEN [seen EXCEPT !.writer = filled]
                ELSE [seen EXCEPT !.writer = {},
                        !.inflight = @ \cup {[run |-> run[c].id, blobs |-> filled]}]]
    BY DEF SaveBlob
  <1> DEFINE filled == run[c].writer \cup {b}
             seen   == [run[c] EXCEPT !.tree = @ \cup {b}]
             sent   == [run |-> run[c].id, blobs |-> filled]
             open   == [seen EXCEPT !.writer = filled]
             off    == [seen EXCEPT !.writer = {}, !.inflight = @ \cup {sent}]
  <1>4. \/ run'[c] = seen /\ (b \in Covered(run[c].known) \/ is_pending(c, b))
        \/ run'[c] = open \/ run'[c] = off
    BY <1>3, Known
  <1>5. \A r \in {seen, open, off} :
          /\ r.known = run[c].known /\ r.newPacks = run[c].newPacks
          /\ r.exclusive = run[c].exclusive /\ r.id = run[c].id
          /\ r.parent = run[c].parent /\ r.tree = run[c].tree \cup {b}
    BY Known DEF Field
  <1>6. /\ seen.writer = run[c].writer /\ seen.inflight = run[c].inflight
        /\ open.writer = filled /\ open.inflight = run[c].inflight
        /\ off.writer = {} /\ off.inflight = run[c].inflight \cup {sent}
        /\ sent.run = run[c].id /\ sent.blobs = filled
    BY Known DEF Field
  <1> HIDE DEF seen, open, off, sent
  <1>7. BlobsOf(off.inflight) = BlobsOf(run[c].inflight) \cup filled
    BY <1>6, BlobsOfMore
  <1>8. run[c].id \notin overtaken =>
          run'[c].tree \subseteq Covered(run[c].known) \cup run'[c].writer \cup BlobsOf(run'[c].inflight)
    BY <1>2, <1>4, <1>5, <1>6, <1>7 DEF BackupOk, is_pending
  <1>9. \A p \in run'[c].inflight : p.run = run[c].id
    BY <1>2, <1>4, <1>6 DEF BackupOk
  <1>10. /\ run'[c].known = run[c].known /\ run'[c].newPacks = run[c].newPacks
         /\ run'[c].exclusive = run[c].exclusive /\ run'[c].id = run[c].id
         /\ run'[c].parent = run[c].parent
    BY <1>4, <1>5
  <1>11. Alone(c)
    BY <1>1, <1>3 DEF Alone
  <1>12. BackupOk(c)'
    BY <1>1, <1>2, <1>8, <1>9, <1>10 DEF BackupOk
  <1>13. QED
    BY <1>1, <1>2, <1>10, <1>11, <1>12, QuietStep DEF RunOkay

LEMMA UploadPackSafe == ASSUME Before, NEW c \in Client, UploadPack(c) PROVE SafeInv'
  <1>1. UNCHANGED <<indexes, snaps, runs, pc, overtaken>> /\ Listed' = Listed
    BY DEF UploadPack, counters, Listed
  <1>2. BackupOk(c) /\ ~run[c].exclusive
    BY IsBackup DEF UploadPack, Nothing
  <1>3. PICK p \in run[c].inflight :
          /\ packs' = packs \cup {p}
          /\ run' = [run EXCEPT ![c].inflight = @ \ {p},
                                ![c].known = @ \cup AsListings({p}),
                                ![c].newPacks = @ \cup AsListings({p})]
    BY DEF UploadPack
  <1> DEFINE new == AsListings({p})
  <1>4. /\ run'[c].known = run[c].known \cup new /\ run'[c].newPacks = run[c].newPacks \cup new
        /\ run'[c].inflight = run[c].inflight \ {p}
        /\ run'[c].exclusive = run[c].exclusive /\ run'[c].id = run[c].id
        /\ run'[c].parent = run[c].parent /\ run'[c].tree = run[c].tree
        /\ run'[c].writer = run[c].writer
        /\ Alone(c)
    BY <1>1, <1>3, Known DEF Field, Alone
  <1>5. (\A l \in new : l.pack = p) /\ Covered(new) = p.blobs
    <2> DEFINE l == [pack |-> p, blobs |-> p.blobs]
    <2>1. new = {l} /\ l.pack = p /\ l.blobs = p.blobs
      BY DEF AsListings
    <2> HIDE DEF new, l
    <2>2. QED
      BY <2>1 DEF Covered
  <1> HIDE DEF new
  <1>6. Covered(run'[c].known) = Covered(run[c].known) \cup p.blobs
    BY <1>4, <1>5 DEF Covered
  <1>7. BlobsOf(run[c].inflight) \subseteq BlobsOf(run'[c].inflight) \cup p.blobs
    BY <1>4 DEF BlobsOf
  <1>8. p.run = run[c].id /\ p.run <= runs
    <2>1. pc[c] # "idle"
      BY DEF UploadPack
    <2>2. QED
      BY <1>2, <2>1, Known DEF BackupOk, Live
  <1>9. BackupOk(c)'
    <2>1. \A l \in run'[c].newPacks : l.pack \in packs'
      BY <1>2, <1>3, <1>4, <1>5 DEF BackupOk
    <2>2. run[c].id \notin overtaken =>
            /\ run'[c].known \subseteq Listed \cup run'[c].newPacks
            /\ run'[c].parent \subseteq Covered(run'[c].known)
            /\ run'[c].tree \subseteq
                  Covered(run'[c].known) \cup run'[c].writer \cup BlobsOf(run'[c].inflight)
      BY <1>2, <1>4, <1>6, <1>7 DEF BackupOk
    <2>3. /\ pc[c] \in {"archive", "flush", "failed"}
          /\ \A q \in run'[c].inflight : q \in run[c].inflight
      BY <1>4 DEF UploadPack
    <2>4. QED
      BY <1>1, <1>2, <1>4, <2>1, <2>2, <2>3 DEF BackupOk
  <1>10. BucketOk'
    BY <1>1, <1>3, <1>8, Known DEF BucketOk
  <1>11. Adds(c) /\ Holding(c)
    BY <1>1, <1>2, <1>3, <1>8 DEF Adds, UploadPack, Holding, Writing
  <1>12. QED
    BY <1>2, <1>4, <1>9, <1>10, <1>11, HeldStep DEF RunOkay

LEMMA CloseArchiveSafe == ASSUME Before, NEW c \in Client, CloseArchive(c) PROVE SafeInv'
  <1> DEFINE closed == {[run |-> run[c].id, blobs |-> w] : w \in {run[c].writer} \ {{}}}
             r == [run[c] EXCEPT !.writer = {}, !.inflight = closed]
  <1>1. UNCHANGED <<packs, indexes, snaps, runs, overtaken>> /\ Listed' = Listed
    BY DEF CloseArchive, bucket, counters, Listed
  <1>2. BackupOk(c) /\ ~run[c].exclusive /\ run[c].inflight = {}
    BY IsBackup DEF CloseArchive, Writing
  <1>3. /\ r.known = run[c].known /\ r.newPacks = run[c].newPacks
        /\ r.exclusive = run[c].exclusive /\ r.id = run[c].id
        /\ r.parent = run[c].parent /\ r.tree = run[c].tree
        /\ r.writer = {} /\ r.inflight = closed
    BY Known DEF Field
  <1>4. run'[c] = r /\ pc'[c] = "flush" /\ Alone(c)
    BY Known DEF CloseArchive, Set, Alone
  <1>5. /\ \A p \in closed : p.run = run[c].id
        /\ run[c].writer \subseteq BlobsOf(closed) /\ BlobsOf({}) = {}
    <2> DEFINE q == [run |-> run[c].id, blobs |-> run[c].writer]
    <2>1. closed = IF run[c].writer = {} THEN {} ELSE {q}
      OBVIOUS
    <2>2. q.run = run[c].id /\ q.blobs = run[c].writer
      OBVIOUS
    <2> HIDE DEF closed, q
    <2>3. QED
      BY <2>1, <2>2 DEF BlobsOf
  <1> HIDE DEF closed, r
  <1>6. BackupOk(c)'
    BY <1>1, <1>2, <1>3, <1>4, <1>5 DEF BackupOk, Pruning
  <1>7. QED
    BY <1>1, <1>2, <1>3, <1>4, <1>6, QuietStep DEF RunOkay

LEMMA SaveIndexSafe == ASSUME Before, NEW c \in Client, SaveIndex(c) PROVE SafeInv'
  <1> DEFINE i == [run |-> run[c].id, packs |-> run[c].newPacks]
             r == [run[c] EXCEPT !.newPacks = {}]
  <1>1. UNCHANGED <<packs, snaps, runs, overtaken>> /\ pc[c] = "flush" /\ run[c].inflight = {}
    BY DEF SaveIndex, counters
  <1>2. BackupOk(c) /\ ~run[c].exclusive /\ pc[c] # "idle"
    BY <1>1, IsBackup DEF Writing
  <1>3. r.known = run[c].known /\ r.newPacks = {}
        /\ r.exclusive = run[c].exclusive /\ r.id = run[c].id
        /\ r.parent = run[c].parent /\ r.tree = run[c].tree
        /\ r.writer = run[c].writer /\ r.inflight = run[c].inflight
    BY Known DEF Field
  <1>4. run'[c] = r /\ pc'[c] = "indexed" /\ Alone(c)
    BY Known DEF SaveIndex, Set, Alone
  <1>5. i.run = run[c].id /\ i.packs = run[c].newPacks
    OBVIOUS
  <1>6. indexes' = IF run[c].newPacks = {} THEN indexes ELSE indexes \cup {i}
    BY DEF SaveIndex
  <1> HIDE DEF i, r
  <1>7. Listed' = Listed \cup run[c].newPacks
    BY <1>5, <1>6 DEF Listed, Listings
  <1>8. Covered(Listed) \subseteq Covered(Listed')
    BY <1>7, CoveredGrows
  <1>9. BackupOk(c)'
    BY <1>1, <1>2, <1>3, <1>4, <1>7 DEF BackupOk, Pruning
  <1>10. BucketOk'
    <2>1. \A l \in Listed' : l.pack \in packs'
      BY <1>1, <1>2, <1>7, Known DEF BackupOk, BucketOk
    <2>2. \A j \in indexes' : j.run <= runs'
      BY <1>1, <1>2, <1>5, <1>6, Known DEF BucketOk, Live
    <2>3. QED
      BY <1>1, <1>8, <2>1, <2>2, Known DEF BucketOk
  <1>11. Adds(c) /\ Holding(c)
    BY <1>1, <1>5, <1>6 DEF Adds, Holding, Writing
  <1>12. QED
    BY <1>2, <1>3, <1>4, <1>9, <1>10, <1>11, HeldStep DEF RunOkay

LEMMA SaveSnapshotSafe == ASSUME Before, NEW c \in Client, SaveSnapshot(c) PROVE SafeInv'
  <1> DEFINE s == [run |-> run[c].id, host |-> c, blobs |-> run[c].tree]
  <1>1. /\ UNCHANGED <<packs, indexes, runs, run, overtaken>> /\ Listed' = Listed /\ pc[c] = "publish"
        /\ pc'[c] = "release" /\ Alone(c)
    BY Known DEF SaveSnapshot, counters, Listed, Alone
  <1>2. snaps' = snaps \cup {s} /\ s.blobs = run[c].tree /\ s.run = run[c].id
    BY DEF SaveSnapshot
  <1> HIDE DEF s
  <1>3. BackupOk(c) /\ ~run[c].exclusive
    BY <1>1, IsBackup DEF Writing
  <1>4. ASSUME run[c].id \notin overtaken
        PROVE  run[c].tree \subseteq Covered(Listed)
    <2>1. run[c].known \subseteq Listed
      BY <1>1, <1>3, <1>4 DEF BackupOk
    <2>2. run[c].tree \subseteq Covered(run[c].known)
      BY <1>1, <1>3, <1>4 DEF BackupOk, BlobsOf
    <2>3. QED
      BY <2>1, <2>2, CoveredGrows
  <1>5. BucketOk'
    BY <1>1, <1>2, <1>4, Known DEF BucketOk
  <1>6. BackupOk(c)'
    BY <1>1, <1>3 DEF BackupOk, Pruning
  <1>7. Adds(c) /\ Holding(c)
    BY <1>1 DEF Adds, Holding, Writing
  <1>8. QED
    BY <1>1, <1>3, <1>5, <1>6, <1>7, HeldStep DEF RunOkay

-----------------------------------------------------------------------------
(* Steps of a prune. *)

LEMMA IsPrune ==
    ASSUME Before, NEW c \in Client, pc[c] \in Pruning
    PROVE  run[c].exclusive /\ PruneOk(c) /\ Holding(c) /\ pc[c] # "idle"
  BY Known DEF RunOkay, BackupOk, Pruning, Holding

LEMMA MarkSafe == ASSUME Before, NEW c \in Client, Mark(c) PROVE SafeInv'
  <1> DEFINE marked == UNION {s.blobs : s \in snaps \ run[c].forget}
             r == [run[c] EXCEPT !.known = Listings(indexes), !.sources = indexes, !.needed = marked]
  <1>1. UNCHANGED <<packs, indexes, snaps, runs, overtaken>> /\ Listed' = Listed /\ pc[c] = "swept"
    BY DEF Mark, bucket, counters, Listed
  <1>2. run[c].exclusive /\ PruneOk(c)
    BY <1>1, IsPrune DEF Pruning
  <1>3. CASE Set(c, "failed", run[c])
    BY <1>1, <1>3, MoveSafe, Known DEF Set, Alone
  <1>4. CASE marked \subseteq Covered(Listings(indexes)) /\ Set(c, "marked", r)
    <2>1. /\ r.known = Listed /\ r.sources = indexes /\ r.needed = marked
          /\ r.exclusive = run[c].exclusive /\ r.id = run[c].id /\ r.forget = run[c].forget
          /\ r.writer = run[c].writer /\ r.inflight = run[c].inflight
      BY Known DEF Field, Listed
    <2>2. \A s \in snaps \ run[c].forget : s.blobs \subseteq marked
      OBVIOUS
    <2> HIDE DEF marked, r
    <2>3. run'[c] = r /\ pc'[c] = "marked" /\ Alone(c)
      BY <1>4, Known DEF Set, Alone
    <2>4. PruneOk(c)'
      BY <1>1, <1>2, <1>4, <2>1, <2>2, <2>3
         DEF PruneOk, Nothing, Writing, Early, Planned, Listed
    <2>5. QED
      BY <1>1, <1>2, <2>1, <2>3, <2>4, QuietStep DEF RunOkay
  <1>5. QED
    BY <1>3, <1>4 DEF Mark

LEMMA PlanSweepSafe == ASSUME Before, NEW c \in Client, PlanSweep(c) PROVE SafeInv'
  <1>1. UNCHANGED <<packs, indexes, snaps, runs, overtaken>> /\ Listed' = Listed /\ pc[c] = "marked"
    BY DEF PlanSweep, bucket, counters, Listed
  <1>2. run[c].exclusive /\ PruneOk(c)
    BY <1>1, IsPrune DEF Pruning
  <1>3. /\ run[c].known = Listed /\ run[c].needed \subseteq Covered(Listed)
        /\ run[c].sources = indexes /\ Nothing(run[c])
        /\ (\A p \in packs : p.run # run[c].id) /\ \A i \in indexes : i.run # run[c].id
        /\ \A s \in snaps \ run[c].forget : s.blobs \subseteq run[c].needed
    BY <1>1, <1>2 DEF PruneOk, Early
  <1>4. PICK f \in Locations(run[c].known) :
          LET here(p)   == {b \in DOMAIN f : f[b] = p}
              useful(p) == here(p) \cap run[c].needed
              unlisted  == {p \in packs : here(p) = {}}
              used      == {p \in packs : useful(p) # {}}
          IN  \E repack \in SUBSET {p \in used : here(p) # useful(p)} :
              Set(c, "planned",
                  [run[c] EXCEPT
                     !.doomed = (packs \ (used \cup unlisted)) \cup {p \in unlisted : ~Recent(p)},
                     !.spared = {p \in unlisted : Recent(p)},
                     !.repack = {[pack |-> p, blobs |-> useful(p)] : p \in repack},
                     !.kept = {[pack |-> p, blobs |-> here(p)] : p \in used \ repack}])
    BY DEF PlanSweep
  <1> DEFINE here(p)   == {b \in DOMAIN f : f[b] = p}
             useful(p) == here(p) \cap run[c].needed
             unlisted  == {p \in packs : here(p) = {}}
             used      == {p \in packs : useful(p) # {}}
             doomed    == (packs \ (used \cup unlisted)) \cup {p \in unlisted : ~Recent(p)}
             spared    == {p \in unlisted : Recent(p)}
  <1>5. PICK repack \in SUBSET {p \in used : here(p) # useful(p)} :
          Set(c, "planned",
              [run[c] EXCEPT
                 !.doomed = doomed, !.spared = spared,
                 !.repack = {[pack |-> p, blobs |-> useful(p)] : p \in repack},
                 !.kept = {[pack |-> p, blobs |-> here(p)] : p \in used \ repack}])
    BY <1>4
  <1> DEFINE copies == {[pack |-> p, blobs |-> useful(p)] : p \in repack}
             stays  == {[pack |-> p, blobs |-> here(p)] : p \in used \ repack}
             r == [run[c] EXCEPT !.doomed = doomed, !.spared = spared,
                                 !.repack = copies, !.kept = stays]
  <1>6. Set(c, "planned", r)
    BY <1>5
  <1>7. /\ r.doomed = doomed /\ r.repack = copies /\ r.kept = stays
        /\ r.exclusive = run[c].exclusive /\ r.id = run[c].id
        /\ r.sources = run[c].sources /\ r.needed = run[c].needed /\ r.forget = run[c].forget
        /\ r.writer = run[c].writer /\ r.inflight = run[c].inflight
    BY Known DEF Field
  <1>8. /\ \A l \in stays : l.pack \in used \ repack /\ l.blobs = here(l.pack)
        /\ \A l \in copies : l.pack \in repack /\ l.blobs = useful(l.pack)
    OBVIOUS
  <1>9. \A p \in used : p \in packs /\ p \notin doomed
    OBVIOUS
  <1>10. \A p \in doomed : p \in packs
    OBVIOUS
  <1>11. ASSUME NEW b \in run[c].needed PROVE b \in Covered(stays) \cup Covered(copies)
    <2>1. b \in DOMAIN f /\ f[b] \in packs
      <3>1. DOMAIN f = Covered(Listed) /\ b \in Covered(Listed)
        BY <1>3 DEF Locations
      <3>2. \E l \in Listed : l.pack = f[b]
        BY <1>3, <3>1 DEF Locations
      <3>3. QED
        BY <3>1, <3>2, Known DEF BucketOk
    <2>2. b \in useful(f[b]) /\ b \in here(f[b]) /\ f[b] \in used
      BY <2>1
    <2>3. CASE f[b] \in repack
      <3> DEFINE l == [pack |-> f[b], blobs |-> useful(f[b])]
      <3>1. l \in copies /\ b \in l.blobs
        BY <2>2, <2>3
      <3> HIDE DEF l, copies
      <3>2. QED
        BY <3>1 DEF Covered
    <2>4. CASE f[b] \notin repack
      <3> DEFINE l == [pack |-> f[b], blobs |-> here(f[b])]
      <3>1. l \in stays /\ b \in l.blobs
        BY <2>2, <2>4
      <3> HIDE DEF l, stays
      <3>2. QED
        BY <3>1 DEF Covered
    <2>5. QED
      BY <2>3, <2>4
  <1>12. repack \subseteq used
    BY <1>5
  <1> HIDE DEF used, doomed, unlisted, copies, stays, r, here, useful
  <1>13. run'[c] = r /\ pc'[c] = "planned" /\ Alone(c)
    BY <1>6, Known DEF Set, Alone
  <1>14. PruneOk(c)'
    BY <1>1, <1>3, <1>7, <1>8, <1>9, <1>10, <1>11, <1>12, <1>13
       DEF PruneOk, Nothing, Writing, Early, Planned
  <1>15. QED
    BY <1>1, <1>2, <1>7, <1>13, <1>14, QuietStep DEF RunOkay

LEMMA ForgetSafe == ASSUME Before, NEW c \in Client, ForgetSnapshot(c) PROVE SafeInv'
  <1>1. /\ UNCHANGED <<packs, indexes, runs, overtaken>> /\ Listed' = Listed /\ pc[c] = "forget"
        /\ snaps' \subseteq snaps
    BY DEF ForgetSnapshot, counters, Listed
  <1>2. run[c].exclusive /\ PruneOk(c) /\ Holding(c)
    BY <1>1, IsPrune DEF Pruning
  <1>3. BucketOk' /\ Adds(c)
    BY <1>1, Known DEF BucketOk, Adds
  <1>4. CASE run[c].forget = {} /\ Set(c, "repack", run[c])
    <2>1. run'[c] = run[c] /\ pc'[c] = "repack" /\ Alone(c)
      BY <1>4, Known DEF Set, Alone
    <2>2. PruneOk(c)'
      BY <1>1, <1>2, <1>4, <2>1 DEF PruneOk, Nothing, Writing, Early, Planned
    <2>3. QED
      BY <1>2, <1>3, <2>1, <2>2, HeldStep DEF RunOkay
  <1>5. ASSUME NEW s \in run[c].forget, snaps' = snaps \ {s},
               Set(c, "forget", [run[c] EXCEPT !.forget = @ \ {s}])
        PROVE  SafeInv'
    <2> DEFINE r == [run[c] EXCEPT !.forget = @ \ {s}]
    <2>1. /\ r.forget = run[c].forget \ {s}
          /\ r.exclusive = run[c].exclusive /\ r.id = run[c].id
          /\ r.sources = run[c].sources /\ r.needed = run[c].needed
          /\ r.doomed = run[c].doomed /\ r.repack = run[c].repack /\ r.kept = run[c].kept
          /\ r.writer = run[c].writer /\ r.inflight = run[c].inflight
      BY Known DEF Field
    <2> HIDE DEF r
    <2>2. run'[c] = r /\ pc'[c] = "forget" /\ Alone(c)
      BY <1>5, Known DEF r, Set, Alone
    <2>3. snaps' \ r.forget \subseteq snaps \ run[c].forget
      BY <1>5, <2>1
    <2>4. PruneOk(c)'
      BY <1>1, <1>2, <2>1, <2>2, <2>3 DEF PruneOk, Nothing, Writing, Early, Planned
    <2>5. QED
      BY <1>2, <1>3, <2>1, <2>2, <2>4, HeldStep DEF RunOkay
  <1>6. QED
    BY <1>4, <1>5 DEF ForgetSnapshot

LEMMA CopySafe == ASSUME Before, NEW c \in Client, CopyNeeded(c) PROVE SafeInv'
  <1>1. UNCHANGED <<indexes, snaps, runs, pc, overtaken>> /\ Listed' = Listed /\ pc[c] = "repack"
    BY DEF CopyNeeded, counters, Listed
  <1>2. run[c].exclusive /\ PruneOk(c) /\ Holding(c) /\ pc[c] # "idle"
    BY <1>1, IsPrune DEF Pruning
  <1>3. PICK l \in run[c].repack :
          LET copy == [run |-> run[c].id, blobs |-> l.blobs] IN
          /\ packs' = packs \cup {copy}
          /\ run' = [run EXCEPT ![c].repack = @ \ {l},
                                ![c].kept = @ \cup AsListings({copy}),
                                ![c].doomed = @ \cup {l.pack}]
    BY DEF CopyNeeded
  <1> DEFINE copy == [run |-> run[c].id, blobs |-> l.blobs]
             new  == AsListings({copy})
  <1>4. /\ packs' = packs \cup {copy} /\ Alone(c)
        /\ run'[c].repack = run[c].repack \ {l} /\ run'[c].kept = run[c].kept \cup new
        /\ run'[c].doomed = run[c].doomed \cup {l.pack}
        /\ run'[c].exclusive = run[c].exclusive /\ run'[c].id = run[c].id
        /\ run'[c].sources = run[c].sources /\ run'[c].needed = run[c].needed
        /\ run'[c].writer = run[c].writer /\ run'[c].inflight = run[c].inflight
    BY <1>1, <1>3, Known DEF Field, Alone
  <1>5. copy.run = run[c].id /\ copy.blobs = l.blobs
    OBVIOUS
  <1> HIDE DEF copy
  <1>6. \A k \in new : k.pack = copy
    BY DEF AsListings
  <1>7. Covered(run'[c].kept) = Covered(run[c].kept) \cup l.blobs
    BY <1>4, <1>5, CoveredMore
  <1> HIDE DEF new
  <1>8. Covered(run[c].repack) \subseteq Covered(run'[c].repack) \cup l.blobs
    BY <1>4 DEF Covered
  <1>9. /\ run[c].sources = indexes /\ Nothing(run[c])
        /\ \A i \in indexes : i.run # run[c].id
        /\ \A s \in snaps : s.blobs \subseteq run[c].needed
        /\ run[c].needed \subseteq Covered(run[c].kept) \cup Covered(run[c].repack)
        /\ \A k \in run[c].kept : k.pack \in packs /\ k.pack \notin run[c].doomed
        /\ \A j \in run[c].repack, k \in run[c].kept : j.pack # k.pack
        /\ \A p \in run[c].doomed : p.run # run[c].id
        /\ \A j \in run[c].repack : j.pack.run # run[c].id
    BY <1>1, <1>2 DEF PruneOk, Planned
  <1>10. /\ \A k \in run'[c].kept : k.pack \in packs' /\ k.pack \notin run'[c].doomed
         /\ \A j \in run'[c].repack, k \in run'[c].kept : j.pack # k.pack
         /\ \A p \in run'[c].doomed : p.run # run[c].id
    <2>1. copy \notin run[c].doomed /\ copy # l.pack /\ \A j \in run[c].repack : j.pack # copy
      BY <1>3, <1>5, <1>9
    <2>2. ASSUME NEW k \in run'[c].kept
          PROVE  /\ k.pack \in packs' /\ k.pack \notin run'[c].doomed
                 /\ \A j \in run'[c].repack : j.pack # k.pack
      <3>1. CASE k \in run[c].kept
        BY <1>3, <1>4, <1>9, <3>1
      <3>2. CASE k \in new
        BY <1>4, <1>6, <2>1, <3>2
      <3>3. QED
        BY <1>4, <3>1, <3>2
    <2>3. \A p \in run'[c].doomed : p.run # run[c].id
      BY <1>3, <1>4, <1>9
    <2>4. QED
      BY <2>2, <2>3
  <1>11. PruneOk(c)'
    BY <1>1, <1>4, <1>7, <1>8, <1>9, <1>10 DEF PruneOk, Nothing, Writing, Early, Planned
  <1>12. BucketOk'
    <2>1. copy.run <= runs
      BY <1>2, <1>5, Known DEF Live
    <2>2. QED
      BY <1>1, <1>4, <2>1, Known DEF BucketOk
  <1>13. Adds(c)
    BY <1>1, <1>2, <1>4, <1>5 DEF Adds
  <1>14. QED
    BY <1>2, <1>4, <1>11, <1>12, <1>13, HeldStep DEF RunOkay

LEMMA SaveNewIndexSafe == ASSUME Before, NEW c \in Client, SaveNewIndex(c) PROVE SafeInv'
  <1>1. /\ UNCHANGED <<packs, snaps, runs, run, overtaken>> /\ pc[c] = "repack" /\ run[c].repack = {}
        /\ Alone(c)
    BY DEF SaveNewIndex, counters, Alone, Before, Typed
  <1>2. run[c].exclusive /\ PruneOk(c) /\ Holding(c) /\ pc[c] # "idle"
    BY <1>1, IsPrune DEF Pruning
  <1>3. CASE pc' = [pc EXCEPT ![c] = "release"] /\ UNCHANGED indexes
    <2>1. pc'[c] = "release"
      BY <1>3, Known
    <2>2. PruneOk(c)'
      BY <1>1, <1>2, <2>1 DEF PruneOk, Nothing, Writing, Early, Planned
    <2>3. QED
      BY <1>1, <1>2, <1>3, <2>2, QuietStep DEF RunOkay
  <1>4. ASSUME pc' = [pc EXCEPT ![c] = "reindexed"],
               indexes' = indexes \cup {[run |-> run[c].id, packs |-> k] : k \in {run[c].kept} \ {{}}}
        PROVE  SafeInv'
    <2>1. pc'[c] = "reindexed"
      BY <1>4, Known
    <2>2. indexes' = IF run[c].kept = {} THEN indexes ELSE indexes \cup {NewIndex(c)}
      BY <1>4 DEF NewIndex
    <2>3. NewIndex(c).run = run[c].id /\ NewIndex(c).packs = run[c].kept /\ NewIndex(c)' = NewIndex(c)
      BY <1>1 DEF NewIndex
    <2>4. PruneOk(c)'
      BY <1>1, <1>2, <2>1, <2>2, <2>3 DEF PruneOk, Nothing, Writing, Early, Planned
    <2>5. Listed' = Listed \cup run[c].kept
      BY <2>2, <2>3 DEF Listed, Listings
    <2>6. Covered(Listed) \subseteq Covered(Listed')
      BY <2>5, CoveredGrows
    <2>7. BucketOk'
      <3>1. \A l \in Listed' : l.pack \in packs'
        BY <1>1, <1>2, <2>5, Known DEF BucketOk, PruneOk, Planned
      <3>2. \A i \in indexes' : i.run <= runs'
        BY <1>1, <1>2, <2>2, <2>3, Known DEF BucketOk, Live
      <3>3. QED
        BY <1>1, <2>6, <3>1, <3>2, Known DEF BucketOk
    <2>8. Adds(c)
      BY <1>1, <1>2, <2>2, <2>3 DEF Adds
    <2>9. QED
      BY <1>1, <1>2, <2>4, <2>7, <2>8, HeldStep DEF RunOkay
  <1>5. QED
    BY <1>3, <1>4 DEF SaveNewIndex

LEMMA DeleteIndexSafe == ASSUME Before, NEW c \in Client, DeleteIndex(c) PROVE SafeInv'
  <1>1. /\ UNCHANGED <<packs, snaps, runs, pc>> /\ pc[c] = "sweep"
        /\ overtaken \subseteq overtaken'
        /\ \A d \in Client : Live(d) /\ ~run[d].exclusive => run[d].id \in overtaken'
    BY DEF DeleteIndex, Live
  <1>2. run[c].exclusive /\ PruneOk(c) /\ Holding(c)
    BY <1>1, IsPrune DEF Pruning
  <1>3. PICK i \in run[c].sources :
          indexes' = indexes \ {i} /\ run' = [run EXCEPT ![c].sources = @ \ {i}]
    BY DEF DeleteIndex
  <1>4. /\ run'[c].sources = run[c].sources \ {i} /\ Alone(c)
        /\ run'[c].exclusive = run[c].exclusive /\ run'[c].id = run[c].id
        /\ run'[c].needed = run[c].needed
        /\ run'[c].doomed = run[c].doomed /\ run'[c].repack = run[c].repack
        /\ run'[c].kept = run[c].kept
        /\ run'[c].writer = run[c].writer /\ run'[c].inflight = run[c].inflight
    BY <1>1, <1>3, Known DEF Field, Alone
  <1>5. i.run # run[c].id /\ NewIndex(c)' = NewIndex(c)
    BY <1>1, <1>2, <1>3, <1>4 DEF PruneOk, NewIndex
  <1>6. run[c].kept # {} => NewIndex(c) \in indexes'
    BY <1>1, <1>2, <1>3, <1>5 DEF PruneOk, NewIndex
  <1>7. PruneOk(c)'
    BY <1>1, <1>2, <1>3, <1>4, <1>5, <1>6 DEF PruneOk, Nothing, Writing, Early, Planned
  <1>8. run[c].kept \subseteq Listed'
    BY <1>6 DEF NewIndex, Listed, Listings
  <1>9. BucketOk'
    <2>1. Covered(run[c].kept) \subseteq Covered(Listed')
      BY <1>8, CoveredGrows
    <2>2. \A s \in snaps : s.blobs \subseteq Covered(run[c].kept)
      BY <1>1, <1>2 DEF PruneOk, Planned, Covered
    <2>3. Listed' \subseteq Listed
      BY <1>3, ListingsGrow DEF Listed
    <2>4. QED
      BY <1>1, <1>3, <2>1, <2>2, <2>3, Known DEF BucketOk
  <1>10. Adds(c)
    BY <1>1, <1>2, <1>3 DEF Adds
  <1>11. QED
    BY <1>2, <1>4, <1>7, <1>9, <1>10, HeldStep DEF RunOkay

LEMMA DeletePackSafe == ASSUME Before, NEW c \in Client, DeletePack(c) PROVE SafeInv'
  <1>1. /\ UNCHANGED <<indexes, snaps, runs, overtaken>> /\ pc[c] = "sweep" /\ run[c].sources = {}
        /\ Listed' = Listed
    BY DEF DeletePack, counters, Listed
  <1>2. run[c].exclusive /\ PruneOk(c) /\ Holding(c)
    BY <1>1, IsPrune DEF Pruning
  <1>3. CASE Set(c, "release", run[c]) /\ UNCHANGED packs
    <2>1. run'[c] = run[c] /\ pc'[c] = "release" /\ Alone(c)
      BY <1>3, Known DEF Set, Alone
    <2>2. PruneOk(c)'
      BY <1>1, <1>2, <2>1 DEF PruneOk, Nothing, Writing, Early, Planned
    <2>3. QED
      BY <1>1, <1>2, <1>3, <2>1, <2>2, QuietStep DEF RunOkay
  <1>4. ASSUME NEW p \in run[c].doomed, packs' = packs \ {p},
               Set(c, "sweep", [run[c] EXCEPT !.doomed = @ \ {p}])
        PROVE  SafeInv'
    <2> DEFINE r == [run[c] EXCEPT !.doomed = @ \ {p}]
    <2>1. /\ r.doomed = run[c].doomed \ {p}
          /\ r.exclusive = run[c].exclusive /\ r.id = run[c].id
          /\ r.sources = run[c].sources /\ r.needed = run[c].needed
          /\ r.repack = run[c].repack /\ r.kept = run[c].kept
          /\ r.writer = run[c].writer /\ r.inflight = run[c].inflight
      BY Known DEF Field
    <2> HIDE DEF r
    <2>2. run'[c] = r /\ pc'[c] = "sweep" /\ Alone(c)
      BY <1>4, Known DEF r, Set, Alone
    <2>3. NewIndex(c)' = NewIndex(c)
      BY <2>1, <2>2 DEF NewIndex
    <2>4. PruneOk(c)'
      BY <1>1, <1>2, <1>4, <2>1, <2>2, <2>3 DEF PruneOk, Nothing, Writing, Early, Planned
    <2>5. \A l \in Listed : l \in run[c].kept
      BY <1>1, <1>2 DEF PruneOk, Listed, Listings
    <2>6. \A l \in Listed : l.pack \in packs'
      BY <1>1, <1>2, <1>4, <2>5 DEF PruneOk, Planned
    <2>7. BucketOk'
      BY <1>1, <1>4, <2>6, Known DEF BucketOk
    <2>8. Adds(c)
      BY <1>1, <1>2, <1>4 DEF Adds
    <2>9. QED
      BY <1>2, <2>1, <2>2, <2>4, <2>7, <2>8, HeldStep DEF RunOkay
  <1>5. QED
    BY <1>3, <1>4 DEF DeletePack

-----------------------------------------------------------------------------
(* Who slept is not forgotten. *)
LEMMA SleptGrows == ASSUME [Next]_vars PROVE slept \subseteq slept'
  <1>1. CASE UNCHANGED vars
    BY <1>1 DEF vars, counters
  <1>2. CASE Next
    BY <1>2 DEF Next, LockStep, BackupStep, PruneStep, PutLock, ListLocks, Judge, EnsureHeld,
         Release, RefreshHead, RefreshPut, OpenBackup, Adopt, ReuseUnchanged, SaveBlob, UploadPack,
         CloseArchive, SaveIndex, SaveSnapshot, OpenPrune, RemoveStale, Mark, PlanSweep,
         ForgetSnapshot, CopyNeeded, SaveNewIndex, DeleteIndex, DeletePack, Fail, Crash, Sleep,
         Abandon, AgePacks, counters
  <1>3. QED
    BY <1>1, <1>2

LEMMA SafeInductive ==
    ASSUME Typed, StoreInv, LockInv, SafeInv, [Next]_vars
    PROVE  SafeInv'
  <1>1. slept \subseteq slept'
    BY SleptGrows
  <1>2. CASE slept # {}
    BY <1>1, <1>2 DEF SafeInv
  <1>3. CASE slept = {}
    <2>1. Before
      BY <1>3 DEF Before
    <2>2. CASE UNCHANGED vars
      BY <2>1, <2>2, ElseSafe DEF vars, bucket, counters
    <2>3. ASSUME NEW c \in Client, LockStep(c) PROVE SafeInv'
      BY <2>1, <2>3, LockSafe, RefreshSafe DEF LockStep
    <2>4. ASSUME NEW c \in Client, BackupStep(c) PROVE SafeInv'
      BY <2>1, <2>4, OpenSafe, AdoptSafe, ReuseSafe, SaveBlobSafe, UploadPackSafe, CloseArchiveSafe,
         SaveIndexSafe, SaveSnapshotSafe DEF BackupStep
    <2>5. ASSUME NEW c \in Client, PruneStep(c) PROVE SafeInv'
      BY <2>1, <2>5, OpenSafe, LockSafe, MarkSafe, PlanSweepSafe, ForgetSafe, CopySafe,
         SaveNewIndexSafe, DeleteIndexSafe, DeletePackSafe DEF PruneStep
    <2>6. ASSUME NEW c \in Client, Fail(c) \/ Crash(c) \/ Sleep(c) PROVE SafeInv'
      BY <2>1, <2>6, FaultSafe
    <2>7. ASSUME NEW l \in locks, Abandon(l) PROVE SafeInv'
      BY <2>1, <2>7, ElseSafe DEF Abandon, counters
    <2>8. CASE AgePacks
      BY <2>1, <2>8, ElseSafe DEF AgePacks, counters
    <2>9. QED
      BY <2>2, <2>3, <2>4, <2>5, <2>6, <2>7, <2>8 DEF Next
  <1>4. QED
    BY <1>2, <1>3

(* Restorable: unless some run slept through STALE_AFTER, every snapshot can be
   restored at every moment, after any failure or crash.  Every blob of it is
   listed, except of a backup that a prune overtook between its open and its
   lock, or that started from the snapshot of such a one, and wherever a blob
   is listed its pack is stored (the order of the writes in backup_locked, of the
   deletions in prune_locked, and Lock::acquire). *)
THEOREM SnapshotsStayRestorable == Spec => []Restorable
  <1> DEFINE Inv == Typed /\ StoreInv /\ LockInv /\ SafeInv
  <1>1. Init => Inv
    BY InitTyped, StoreInit, LockInit, SafeInit
  <1>2. Inv /\ [Next]_vars => Inv'
    BY TypedInductive, StoreInductive, LockInductive, SafeInductive
  <1>3. Inv => Restorable
    BY SafeSuffices
  <1>4. QED
    BY <1>1, <1>2, <1>3, PTL DEF Spec

-----------------------------------------------------------------------------
(* A prune that went through leaves no waste, if no run sleeps through       *)
(* STALE_AFTER.                                                              *)

Wanted(ss) == UNION {s.blobs : s \in ss}

(* What a prune leaves in the bucket: needed by a snapshot, listed by an index. *)
Useful(p) ==
    /\ \E s \in snaps : s.blobs \cap p.blobs # {}
    /\ \E l \in Listed : l.pack = p

Kind(c) ==
    /\ pc[c] \in Writing => ~run[c].exclusive
    /\ pc[c] \in Pruning => run[c].exclusive

(* Of a prune: what it marked is what the snapshots that stay need; of the
   packs, those it neither spares nor dooms hold some of it, and are listed
   already or will be by the index it writes. *)
PlanOk(c) ==
    /\ pc[c] \in Early \cup {"repack"} => \A i \in indexes : i.run # run[c].id
    /\ pc[c] = "marked" => run[c].known = Listed
    /\ pc[c] \in {"marked", "planned", "forget", "repack"} => run[c].sources = indexes
    /\ pc[c] \in {"marked", "planned", "forget"} =>
          run[c].needed \subseteq Wanted(snaps \ run[c].forget)
    /\ pc[c] \in {"repack", "reindexed", "sweep"} => run[c].needed \subseteq Wanted(snaps)
    /\ pc[c] \in Planned =>
          /\ \A l \in run[c].kept \cup run[c].repack : l.blobs \cap run[c].needed # {}
          /\ \A p \in packs \ (run[c].spared \cup run[c].doomed) :
                \E l \in run[c].kept \cup run[c].repack : l.pack = p
          /\ run[c].spared \cap aged = {}
    /\ pc[c] \in {"planned", "forget", "repack"} /\ run[c].doomed = {} =>
          \A k \in run[c].kept : \E l \in Listed : l.pack = k.pack
    /\ pc[c] \in {"reindexed", "sweep"} =>
          /\ run[c].repack = {}
          /\ \A i \in run[c].sources : i.run # run[c].id
          /\ run[c].kept # {} => NewIndex(c) \in indexes
    /\ pc[c] = "release" => \A p \in packs \ (run[c].spared \ aged) : Useful(p)

PlanOkay(c) == Live(c) => Kind(c) /\ (run[c].exclusive => PlanOk(c))

WasteInv ==
    slept = {} => (\A i \in indexes : i.run <= runs) /\ \A c \in Client : PlanOkay(c)

LEMMA WasteSuffices == ASSUME WasteInv PROVE PruneReclaims
  <1> SUFFICES ASSUME NEW c \in Client, pc[c] = "release", run[c].exclusive, slept = {},
                      NEW p \in packs \ (run[c].spared \ aged)
               PROVE  /\ \E s \in snaps : s.blobs \cap p.blobs # {}
                      /\ p \in {l.pack : l \in Listings(indexes)}
    BY DEF PruneReclaims
  <1>1. Useful(p)
    BY DEF WasteInv, PlanOkay, PlanOk, Live
  <1>2. QED
    BY <1>1 DEF Useful, Listed

LEMMA WasteInit == Init => WasteInv
  <1> SUFFICES ASSUME Init PROVE (\A i \in indexes : i.run <= runs) /\ \A c \in Client : PlanOkay(c)
    BY DEF WasteInv
  <1>1. \A p \in packs : p.run <= 2
    BY DEF Init
  <1>2. \A i \in indexes : i.run <= runs
    BY <1>1 DEF Init
  <1>3. QED
    BY <1>2 DEF Init, PlanOkay, Live

(* What a step may rely on. *)
Tidy == Typed /\ StoreInv /\ LockInv /\ WasteInv /\ slept = {}

LEMMA Facts ==
    ASSUME Tidy, NEW c \in Client
    PROVE  /\ DOMAIN run = Client /\ pc \in [Client -> State] /\ DOMAIN run[c] = Field
           /\ PlanOkay(c) /\ (\A i \in indexes : i.run <= runs)
           /\ Live(c) => run[c].id \in RunId /\ run[c].id <= runs /\ runs \in Nat
  BY DEF Tidy, Typed, RunOk, WasteInv, LockInv, IdsOk, Live

(* The other runs: what the invariant reads of them, and of the bucket under a
   prune that holds its lock, does not change. *)
SameRun(d) ==
    /\ pc'[d] = pc[d]
    /\ run'[d].id = run[d].id /\ run'[d].exclusive = run[d].exclusive
    /\ run'[d].known = run[d].known
    /\ run'[d].sources = run[d].sources /\ run'[d].needed = run[d].needed
    /\ run'[d].forget = run[d].forget /\ run'[d].kept = run[d].kept
    /\ run'[d].repack = run[d].repack /\ run'[d].doomed = run[d].doomed
    /\ run'[d].spared = run[d].spared

LEMMA PlanRests ==
    ASSUME NEW d \in Client, PlanOkay(d), SameRun(d),
           Live(d) /\ run[d].exclusive => \A i \in indexes' \ indexes : i.run # run[d].id,
           Holding(d) /\ run[d].exclusive => UNCHANGED <<packs, aged, indexes, snaps>>
    PROVE  PlanOkay(d)'
  <1> SUFFICES ASSUME Live(d) PROVE Kind(d)' /\ (run[d].exclusive => PlanOk(d)')
    BY DEF PlanOkay, SameRun, Live
  <1>1. Kind(d)'
    BY DEF PlanOkay, SameRun, Kind
  <1>2. ASSUME run[d].exclusive PROVE PlanOk(d)'
    <2>1. PlanOk(d)
      BY <1>2 DEF PlanOkay
    <2>2. CASE Holding(d)
      <3>1. UNCHANGED <<packs, aged, indexes, snaps>> /\ Listed' = Listed /\ NewIndex(d)' = NewIndex(d)
        BY <1>2, <2>2 DEF Listed, NewIndex, SameRun
      <3>2. \A p \in packs : Useful(p) => Useful(p)'
        BY <3>1 DEF Useful
      <3>3. QED
        BY <2>1, <3>1, <3>2 DEF PlanOk, SameRun
    <2>3. CASE ~Holding(d)
      BY <1>2, <2>1, <2>3 DEF PlanOk, SameRun, Holding, Pruning, Planned, Early
    <2>4. QED
      BY <2>2, <2>3
  <1>3. QED
    BY <1>1, <1>2

LEMMA SamePlan == ASSUME NEW d \in Client, pc'[d] = pc[d], run'[d] = run[d] PROVE SameRun(d)
  BY DEF SameRun

(* A step of c that changes nothing an idle prune or the bucket depends on. *)
LEMMA CalmStep ==
    ASSUME Tidy, NEW c \in Client, Alone(c), UNCHANGED <<packs, aged, indexes, snaps>>,
           runs <= runs', runs \in Nat, runs' \in Nat, PlanOkay(c)'
    PROVE  WasteInv'
  <1>1. \A d \in Client \ {c} : PlanOkay(d)'
    BY SamePlan, PlanRests, Facts DEF Alone
  <1>2. \A i \in indexes' : i.run <= runs'
    BY Facts DEF Tidy, Typed, IndexObject, RunId
  <1>3. QED
    BY <1>1, <1>2 DEF WasteInv

(* A step of c, which holds its lock: no other prune does, if c is one; and a
   prune that does is alone. *)
LEMMA WorkStep ==
    ASSUME Tidy, NEW c \in Client, Works(c), runs' = runs,
           \A i \in indexes' \ indexes : i.run = run[c].id, PlanOkay(c)'
    PROVE  WasteInv'
  <1>1. ASSUME NEW d \in Client \ {c} PROVE PlanOkay(d)'
    <2>1. SameRun(d)
      BY SamePlan DEF Works
    <2>2. ~(Holding(d) /\ run[d].exclusive)
      BY LockInvSuffices DEF Tidy, Exclusion, Works
    <2>3. Live(d) => run[c].id # run[d].id
      BY DEF Tidy, LockInv, IdsOk, Works, Live, Holding, Writing, Pruning
    <2>4. QED
      BY <2>1, <2>2, <2>3, PlanRests, Facts
  <1>2. \A i \in indexes' : i.run <= runs'
    <2>1. Live(c)
      BY DEF Works, Holding, Writing, Pruning, Live
    <2>2. QED
      BY <2>1, Facts
  <1>3. QED
    BY <1>1, <1>2 DEF WasteInv

LEMMA WasteOpens == ASSUME Tidy, NEW c \in Client, OpenBackup(c) \/ OpenPrune(c) PROVE WasteInv'
  <1>1. UNCHANGED <<packs, aged, indexes, snaps>> /\ runs' = runs + 1 /\ runs \in Nat
    BY DEF OpenBackup, OpenPrune, Start, bucket, Tidy, Typed
  <1>2. RunOk(NoRun)
    BY NoRunTyped
  <1>3. DOMAIN Opened = Field /\ Opened.id = runs' /\ ~Opened.exclusive
    BY <1>2 DEF Opened, NoRun, RunOk, Field
  <1>4. Alone(c) /\ pc'[c] = "opened" /\ run'[c].id = runs'
    <2>1. CASE OpenBackup(c)
      <3>1. PICK parent : Set(c, "opened", [Opened EXCEPT !.parent = parent])
        BY <2>1 DEF OpenBackup
      <3>2. QED
        BY <1>3, <3>1, Facts DEF Set, Alone, Field
    <2>2. CASE OpenPrune(c)
      <3>1. PICK forget : Set(c, "opened", [Opened EXCEPT !.exclusive = TRUE, !.forget = forget])
        BY <2>2 DEF OpenPrune
      <3>2. QED
        BY <1>3, <3>1, Facts DEF Set, Alone, Field
    <2>3. QED
      BY <2>1, <2>2
  <1>5. \A i \in indexes' : i.run # runs'
    BY <1>1, Facts DEF Tidy, Typed, IndexObject, RunId
  <1>6. PlanOkay(c)'
    BY <1>4, <1>5 DEF PlanOkay, PlanOk, Kind, Writing, Pruning, Planned
  <1>7. QED
    BY <1>1, <1>4, <1>6, CalmStep

LEMMA WasteEnds ==
    ASSUME Tidy, NEW c \in Client, Set(c, "idle", NoRun), UNCHANGED <<packs, aged, indexes, snaps, runs>>
    PROVE  WasteInv'
  <1>1. Alone(c) /\ pc'[c] = "idle"
    BY Facts DEF Set, Alone
  <1>2. PlanOkay(c)'
    BY <1>1 DEF PlanOkay, Live
  <1>3. runs \in Nat
    BY DEF Tidy, Typed
  <1>4. QED
    BY <1>1, <1>2, <1>3, CalmStep

(* The same run at another point, which asks no more of it. *)
LEMMA WasteMoves ==
    ASSUME Tidy, NEW c \in Client, Alone(c), UNCHANGED <<packs, aged, indexes, snaps, runs>>,
           run'[c].id = run[c].id, run'[c].exclusive = run[c].exclusive, Live(c),
           \/ pc[c] \in {"opened", "locking", "listed"} /\ pc'[c] \in {"locking", "listed", "held"}
           \/ pc[c] = "held" /\ run[c].exclusive /\ pc'[c] = "swept"
           \/ pc[c] = "indexed" /\ pc'[c] = "publish"
           \/ pc[c] = "planned" /\ pc'[c] = "forget" /\ run'[c] = run[c]
           \/ pc[c] = "reindexed" /\ pc'[c] = "sweep" /\ run'[c] = run[c]
           \/ pc'[c] = "failed"
    PROVE  WasteInv'
  <1>1. Kind(c) /\ (run[c].exclusive => PlanOk(c))
    BY Facts DEF PlanOkay
  <1>2. Kind(c)'
    BY <1>1 DEF Kind, Writing, Pruning
  <1>3. ASSUME run[c].exclusive PROVE PlanOk(c)'
    <2>1. Listed' = Listed
      BY DEF Listed
    <2>2. CASE pc'[c] \in {"forget", "sweep"}
      <3>1. /\ run'[c] = run[c] /\ NewIndex(c)' = NewIndex(c)
            /\ \/ pc[c] = "planned" /\ pc'[c] = "forget"
               \/ pc[c] = "reindexed" /\ pc'[c] = "sweep"
        BY <2>2 DEF NewIndex
      <3>2. PlanOk(c)
        BY <1>1, <1>3
      <3>3. CASE pc'[c] = "forget"
        BY <2>1, <3>1, <3>2, <3>3 DEF PlanOk, Early, Planned
      <3>4. CASE pc'[c] = "sweep"
        BY <2>1, <3>1, <3>2, <3>4 DEF PlanOk, Early, Planned
      <3>5. QED
        BY <2>2, <3>3, <3>4
    <2>3. CASE pc'[c] \notin {"forget", "sweep"}
      BY <1>1, <1>2, <1>3, <2>3 DEF PlanOk, Early, Planned, Kind, Writing
    <2>4. QED
      BY <2>2, <2>3
  <1>4. PlanOkay(c)'
    BY <1>2, <1>3 DEF PlanOkay
  <1>5. runs \in Nat
    BY DEF Tidy, Typed
  <1>6. QED
    BY <1>4, <1>5, CalmStep

LEMMA WasteLocks ==
    ASSUME Tidy, NEW c \in Client,
           PutLock(c) \/ ListLocks(c) \/ Judge(c) \/ EnsureHeld(c) \/ Release(c)
           \/ RemoveStale(c) \/ Fail(c) \/ Crash(c)
    PROVE  WasteInv'
  <1>1. UNCHANGED <<packs, aged, indexes, snaps, runs>>
    BY DEF PutLock, ListLocks, Judge, EnsureHeld, Release, RemoveStale, Fail, Crash, bucket, counters
  <1>2. CASE Set(c, "idle", NoRun)
    BY <1>1, <1>2, WasteEnds
  <1>3. CASE PutLock(c)
    BY <1>1, <1>3, WasteMoves, Facts DEF PutLock, Live, Alone
  <1>4. CASE ListLocks(c)
    <2> DEFINE r == [run[c] EXCEPT !.others = locks \ (stale \cup {MyLock(c)}), !.staleThen = stale]
    <2>1. r.id = run[c].id /\ r.exclusive = run[c].exclusive
      BY Facts DEF Field
    <2>2. Set(c, "listed", r) /\ pc[c] = "locking"
      BY <1>4 DEF ListLocks
    <2> HIDE DEF r
    <2>3. QED
      BY <1>1, <2>1, <2>2, WasteMoves, Facts DEF Set, Live, Alone
  <1>5. CASE Judge(c) /\ ~Set(c, "idle", NoRun)
    <2> DEFINE r == [run[c] EXCEPT !.others = {}]
    <2>1. r.id = run[c].id /\ r.exclusive = run[c].exclusive
      BY Facts DEF Field
    <2>2. Set(c, "held", r) /\ pc[c] = "listed"
      BY <1>5 DEF Judge
    <2> HIDE DEF r
    <2>3. QED
      BY <1>1, <2>1, <2>2, WasteMoves, Facts DEF Set, Live, Alone
  <1>6. CASE EnsureHeld(c)
    <2>1. run' = run /\ \E s : pc' = [pc EXCEPT ![c] = s]
      BY <1>6 DEF EnsureHeld
    <2>2. Alone(c)
      BY <2>1, Facts DEF Alone
    <2>3. Live(c) /\ \/ pc[c] = "indexed" /\ pc'[c] = "publish"
                     \/ pc[c] = "planned" /\ pc'[c] = "forget"
                     \/ pc[c] = "reindexed" /\ pc'[c] = "sweep"
                     \/ pc'[c] = "failed"
      BY <1>6, Facts DEF EnsureHeld, Live
    <2>4. QED
      BY <1>1, <2>1, <2>2, <2>3, WasteMoves
  <1>7. CASE RemoveStale(c)
    BY <1>1, <1>7, WasteMoves, Facts DEF RemoveStale, Live, Alone
  <1>8. CASE Fail(c)
    <2>1. Live(c)
      BY <1>8 DEF Fail, Live, Holding, Writing, Pruning
    <2>2. QED
      BY <1>1, <1>8, <2>1, WasteMoves, Facts DEF Fail, Alone, bucket
  <1>9. QED
    BY <1>2, <1>3, <1>4, <1>5, <1>6, <1>7, <1>8 DEF Release, Crash

LEMMA WasteRefresh == ASSUME Tidy, NEW c \in Client, RefreshHead(c) \/ RefreshPut(c) PROVE WasteInv'
  <1>1. UNCHANGED <<packs, aged, indexes, snaps, runs, pc>>
    BY DEF RefreshHead, RefreshPut, bucket, counters
  <1>2. ASSUME NEW d \in Client PROVE SameRun(d)
    <2>1. DOMAIN run[d] = Field
      BY Facts
    <2>2. CASE RefreshHead(c)
      <3>1. CASE d = c
        <4>1. \/ run'[d] = [run[d] EXCEPT !.refreshing = TRUE]
              \/ run'[d] = [run[d] EXCEPT !.lost = TRUE]
          BY <2>2, <3>1, Facts DEF RefreshHead
        <4>2. QED
          BY <1>1, <2>1, <4>1 DEF SameRun, Field
      <3>2. CASE d # c
        BY <1>1, <2>2, <3>2, Facts DEF RefreshHead, SameRun
      <3>3. QED
        BY <3>1, <3>2
    <2>3. CASE RefreshPut(c)
      <3>1. run'[d] = [run[d] EXCEPT !.refreshing = IF d = c THEN FALSE ELSE @,
                                     !.staleThen = @ \ {MyLock(c)}]
        BY <2>3 DEF RefreshPut
      <3>2. QED
        BY <1>1, <2>1, <3>1 DEF SameRun, Field
    <2>4. QED
      BY <2>2, <2>3
  <1>3. \A d \in Client : PlanOkay(d)'
    BY <1>1, <1>2, PlanRests, Facts
  <1>4. \A i \in indexes' : i.run <= runs'
    BY <1>1 DEF Tidy, WasteInv
  <1>5. QED
    BY <1>3, <1>4 DEF WasteInv

(* Nothing of what the invariant reads changes, or nobody runs. *)
LEMMA WasteElse ==
    ASSUME Tidy, UNCHANGED <<packs, indexes, snaps, pc, run, runs>>,
           aged' = aged \/ \A c \in Client : pc[c] = "idle"
    PROVE  WasteInv'
  <1>1. ASSUME NEW d \in Client PROVE PlanOkay(d)'
    <2>1. CASE pc[d] = "idle"
      BY <2>1 DEF PlanOkay, Live
    <2>2. CASE pc[d] # "idle"
      BY <2>2, SamePlan, PlanRests, Facts
    <2>3. QED
      BY <2>1, <2>2
  <1>2. \A i \in indexes' : i.run <= runs'
    BY DEF Tidy, WasteInv
  <1>3. QED
    BY <1>1, <1>2 DEF WasteInv

(* The steps of a backup make no prune of it. *)
LEMMA WasteBackup == ASSUME Tidy, NEW c \in Client, BackupStep(c), ~OpenBackup(c) PROVE WasteInv'
  <1>1. Works(c) /\ UNCHANGED <<locks, stale, runs, slept>>
    BY WorkingBackup DEF Tidy
  <1>2. Kind(c) /\ Live(c)
    BY <1>1, Facts DEF PlanOkay, Live, Works, Holding, Writing, Pruning
  <1>3. CASE UploadPack(c)
    <2>1. pc' = pc /\ indexes' = indexes /\ pc[c] \in {"archive", "flush", "failed"}
      BY <1>3 DEF UploadPack
    <2>2. PlanOkay(c)'
      <3>1. Kind(c)'
        BY <1>1, <1>2, <2>1 DEF Kind, Works
      <3>2. run[c].exclusive => pc[c] = "failed"
        BY <1>2, <2>1 DEF Kind, Writing
      <3>3. run[c].exclusive => PlanOk(c)'
        BY <2>1, <3>2 DEF PlanOk, Early, Planned
      <3>4. QED
        BY <1>1, <3>1, <3>3 DEF PlanOkay, Works
    <2>3. QED
      BY <1>1, <2>1, <2>2, WorkStep
  <1>4. CASE ~UploadPack(c)
    <2>1. pc[c] \in Writing \/ (pc[c] = "held" /\ ~run[c].exclusive)
      BY <1>4 DEF BackupStep, Adopt, ReuseUnchanged, SaveBlob, CloseArchive, SaveIndex, SaveSnapshot, Writing
    <2>2. ~run'[c].exclusive
      BY <1>1, <1>2, <2>1 DEF Kind, Works
    <2>3. pc'[c] \in Writing \cup {"release"}
      BY <1>4, Facts DEF BackupStep, Adopt, ReuseUnchanged, SaveBlob, CloseArchive, SaveIndex,
         SaveSnapshot, Set, Writing
    <2>4. PlanOkay(c)'
      BY <2>2, <2>3 DEF PlanOkay, Kind, Writing, Pruning
    <2>5. \A i \in indexes' \ indexes : i.run = run[c].id
      <3>1. CASE SaveIndex(c)
        <4>1. indexes' = indexes \cup {[run |-> run[c].id, packs |-> n] :
                                          n \in {run[c].newPacks} \ {{}}}
          BY <3>1 DEF SaveIndex
        <4>2. QED
          BY <4>1
      <3>2. CASE ~SaveIndex(c)
        BY <1>4, <3>2 DEF BackupStep, Adopt, ReuseUnchanged, SaveBlob, CloseArchive, SaveSnapshot, bucket
      <3>3. QED
        BY <3>1, <3>2
    <2>6. QED
      BY <1>1, <2>4, <2>5, WorkStep
  <1>5. QED
    BY <1>3, <1>4

-----------------------------------------------------------------------------
(* The steps of a prune. *)

LEMMA WasteIsPrune ==
    ASSUME Tidy, NEW c \in Client, PruneStep(c), ~OpenPrune(c), ~RemoveStale(c)
    PROVE  /\ Works(c) /\ UNCHANGED <<locks, stale, runs, slept>>
           /\ run[c].exclusive /\ run'[c].exclusive /\ PlanOk(c)
  <1>1. Works(c) /\ UNCHANGED <<locks, stale, runs, slept>>
    BY WorkingPrune DEF Tidy
  <1>2. pc[c] \in Pruning
    BY DEF PruneStep, Mark, PlanSweep, ForgetSnapshot, CopyNeeded, SaveNewIndex, DeleteIndex,
       DeletePack, Pruning
  <1>3. Live(c) /\ run[c].exclusive
    BY <1>2, Facts DEF PlanOkay, Live, Kind, Pruning
  <1>4. QED
    BY <1>1, <1>3, Facts DEF PlanOkay, Works

(* What is left to show of one. *)
LEMMA PruneWorks ==
    ASSUME Tidy, NEW c \in Client, PruneStep(c), ~OpenPrune(c), ~RemoveStale(c),
           \A i \in indexes' \ indexes : i.run = run[c].id, PlanOk(c)', pc'[c] \notin Writing
    PROVE  WasteInv'
  <1>1. PlanOkay(c)'
    BY WasteIsPrune DEF PlanOkay, Kind
  <1>2. QED
    BY <1>1, WasteIsPrune, WorkStep

LEMMA WasteMarks == ASSUME Tidy, NEW c \in Client, Mark(c) PROVE WasteInv'
  <1> DEFINE marked == Wanted(snaps \ run[c].forget)
             r == [run[c] EXCEPT !.known = Listings(indexes), !.sources = indexes, !.needed = marked]
  <1>1. UNCHANGED <<packs, aged, indexes, snaps, runs>> /\ Listed' = Listed /\ pc[c] = "swept"
    BY DEF Mark, bucket, counters, Listed
  <1>2. PruneStep(c) /\ ~OpenPrune(c) /\ ~RemoveStale(c)
    BY <1>1 DEF PruneStep, OpenPrune, RemoveStale
  <1>3. PlanOk(c)
    BY <1>2, WasteIsPrune
  <1>4. Set(c, "marked", r) \/ Set(c, "failed", run[c])
    BY DEF Mark, Wanted
  <1>5. CASE Set(c, "failed", run[c])
    <2>1. PlanOk(c)' /\ pc'[c] = "failed"
      BY <1>5, Facts DEF Set, PlanOk, Early, Planned
    <2>2. QED
      BY <1>1, <1>2, <2>1, PruneWorks DEF Writing
  <1>6. CASE Set(c, "marked", r)
    <2>1. /\ r.known = Listed /\ r.sources = indexes /\ r.needed = marked
          /\ r.id = run[c].id /\ r.forget = run[c].forget
      BY Facts DEF Field, Listed
    <2> HIDE DEF r
    <2>2. run'[c] = r /\ pc'[c] = "marked"
      BY <1>6, Facts DEF Set
    <2>3. run'[c].needed \subseteq Wanted(snaps' \ run'[c].forget)
      BY <1>1, <2>1, <2>2
    <2>4. PlanOk(c)'
      BY <1>1, <1>3, <2>1, <2>2, <2>3 DEF PlanOk, Early, Planned
    <2>5. QED
      BY <1>1, <1>2, <2>2, <2>4, PruneWorks DEF Writing
  <1>7. QED
    BY <1>4, <1>5, <1>6

LEMMA WastePlans == ASSUME Tidy, NEW c \in Client, PlanSweep(c) PROVE WasteInv'
  <1>1. UNCHANGED <<packs, aged, indexes, snaps, runs>> /\ Listed' = Listed /\ pc[c] = "marked"
    BY DEF PlanSweep, bucket, counters, Listed
  <1>2. PruneStep(c) /\ ~OpenPrune(c) /\ ~RemoveStale(c)
    BY <1>1 DEF PruneStep, OpenPrune, RemoveStale
  <1>3. PlanOk(c)
    BY <1>2, WasteIsPrune
  <1>4. PICK f \in Locations(run[c].known) :
          LET here(p)   == {b \in DOMAIN f : f[b] = p}
              useful(p) == here(p) \cap run[c].needed
              unlisted  == {p \in packs : here(p) = {}}
              used      == {p \in packs : useful(p) # {}}
          IN  \E repack \in SUBSET {p \in used : here(p) # useful(p)} :
              Set(c, "planned",
                  [run[c] EXCEPT
                     !.doomed = (packs \ (used \cup unlisted)) \cup {p \in unlisted : ~Recent(p)},
                     !.spared = {p \in unlisted : Recent(p)},
                     !.repack = {[pack |-> p, blobs |-> useful(p)] : p \in repack},
                     !.kept = {[pack |-> p, blobs |-> here(p)] : p \in used \ repack}])
    BY DEF PlanSweep
  <1> DEFINE here(p)   == {b \in DOMAIN f : f[b] = p}
             useful(p) == here(p) \cap run[c].needed
             unlisted  == {p \in packs : here(p) = {}}
             used      == {p \in packs : useful(p) # {}}
             doomed    == (packs \ (used \cup unlisted)) \cup {p \in unlisted : ~Recent(p)}
             spared    == {p \in unlisted : Recent(p)}
  <1>5. PICK repack \in SUBSET {p \in used : here(p) # useful(p)} :
          Set(c, "planned",
              [run[c] EXCEPT
                 !.doomed = doomed, !.spared = spared,
                 !.repack = {[pack |-> p, blobs |-> useful(p)] : p \in repack},
                 !.kept = {[pack |-> p, blobs |-> here(p)] : p \in used \ repack}])
    BY <1>4
  <1> DEFINE copies == {[pack |-> p, blobs |-> useful(p)] : p \in repack}
             stays  == {[pack |-> p, blobs |-> here(p)] : p \in used \ repack}
             r == [run[c] EXCEPT !.doomed = doomed, !.spared = spared,
                                 !.repack = copies, !.kept = stays]
  <1>6. Set(c, "planned", r)
    BY <1>5
  <1>7. /\ r.doomed = doomed /\ r.repack = copies /\ r.kept = stays /\ r.spared = spared
        /\ r.id = run[c].id /\ r.sources = run[c].sources /\ r.needed = run[c].needed
        /\ r.forget = run[c].forget
    BY Facts DEF Field
  <1>8. spared \cap aged = {}
    BY DEF Recent
  <1>9. packs \ (spared \cup doomed) \subseteq used
    OBVIOUS
  <1>10. \A l \in stays \cup copies : l.blobs \cap run[c].needed # {}
    <2>1. \A p \in used : here(p) \cap run[c].needed # {} /\ useful(p) \cap run[c].needed # {}
      OBVIOUS
    <2>2. repack \subseteq used
      BY <1>5
    <2> HIDE DEF here, useful, used
    <2>3. QED
      BY <2>1, <2>2
  <1>11. \A p \in used : \E l \in stays \cup copies : l.pack = p
    <2> HIDE DEF here, useful, used
    <2>1. ASSUME NEW p \in used PROVE \E l \in stays \cup copies : l.pack = p
      <3>1. CASE p \in repack
        <4> DEFINE l == [pack |-> p, blobs |-> useful(p)]
        <4>1. l \in copies /\ l.pack = p
          BY <3>1
        <4> HIDE DEF l, copies, stays
        <4>2. QED
          BY <4>1
      <3>2. CASE p \notin repack
        <4> DEFINE l == [pack |-> p, blobs |-> here(p)]
        <4>1. l \in stays /\ l.pack = p
          BY <3>2
        <4> HIDE DEF l, copies, stays
        <4>2. QED
          BY <4>1
      <3>3. QED
        BY <3>1, <3>2
    <2>2. QED
      BY <2>1
  <1>12. \A k \in stays : \E l \in Listed : l.pack = k.pack
    <2>1. run[c].known = Listed
      BY <1>1, <1>3 DEF PlanOk
    <2>2. ASSUME NEW p \in used PROVE \E l \in Listed : l.pack = p
      <3>1. PICK b \in DOMAIN f : f[b] = p
        OBVIOUS
      <3>2. DOMAIN f = Covered(Listed)
        BY <2>1 DEF Locations
      <3>3. QED
        BY <2>1, <3>1, <3>2 DEF Locations
    <2>3. \A k \in stays : k.pack \in used
      <3> HIDE DEF here, used
      <3>1. QED
        OBVIOUS
    <2>4. QED
      BY <2>2, <2>3
  <1> HIDE DEF here, useful, used, unlisted, doomed, spared, copies, stays, r
  <1>13. run'[c] = r /\ pc'[c] = "planned"
    BY <1>6, Facts DEF Set
  <1>14. PlanOk(c)'
    <2>1. /\ \A i \in indexes' : i.run # run'[c].id
          /\ run'[c].sources = indexes'
          /\ run'[c].needed \subseteq Wanted(snaps' \ run'[c].forget)
      BY <1>1, <1>3, <1>7, <1>13 DEF PlanOk, Early
    <2>2. /\ \A l \in run'[c].kept \cup run'[c].repack : l.blobs \cap run'[c].needed # {}
          /\ \A p \in packs' \ (run'[c].spared \cup run'[c].doomed) :
                \E l \in run'[c].kept \cup run'[c].repack : l.pack = p
          /\ run'[c].spared \cap aged' = {}
          /\ \A k \in run'[c].kept : \E l \in Listed' : l.pack = k.pack
      BY <1>1, <1>7, <1>8, <1>9, <1>10, <1>11, <1>12, <1>13
    <2>3. QED
      BY <1>13, <2>1, <2>2 DEF PlanOk, Early, Planned
  <1>15. QED
    BY <1>1, <1>2, <1>13, <1>14, PruneWorks DEF Writing

LEMMA WasteForgets == ASSUME Tidy, NEW c \in Client, ForgetSnapshot(c) PROVE WasteInv'
  <1>1. UNCHANGED <<packs, aged, indexes, runs>> /\ Listed' = Listed /\ pc[c] = "forget"
    BY DEF ForgetSnapshot, counters, Listed
  <1>2. PruneStep(c) /\ ~OpenPrune(c) /\ ~RemoveStale(c)
    BY <1>1 DEF PruneStep, OpenPrune, RemoveStale
  <1>3. PlanOk(c)
    BY <1>2, WasteIsPrune
  <1>4. run[c].needed \subseteq Wanted(snaps \ run[c].forget)
    BY <1>1, <1>3 DEF PlanOk
  <1>5. CASE run[c].forget = {} /\ Set(c, "repack", run[c]) /\ UNCHANGED snaps
    <2>1. run'[c] = run[c] /\ pc'[c] = "repack"
      BY <1>5, Facts DEF Set
    <2>2. snaps \ run[c].forget = snaps'
      BY <1>5
    <2>3. run'[c].needed \subseteq Wanted(snaps')
      BY <1>4, <2>1, <2>2
    <2>4. PlanOk(c)'
      BY <1>1, <1>3, <2>1, <2>3 DEF PlanOk, Early, Planned
    <2>5. QED
      BY <1>1, <1>2, <2>1, <2>4, PruneWorks DEF Writing
  <1>6. ASSUME NEW s \in run[c].forget, snaps' = snaps \ {s},
               Set(c, "forget", [run[c] EXCEPT !.forget = @ \ {s}])
        PROVE  WasteInv'
    <2> DEFINE r == [run[c] EXCEPT !.forget = @ \ {s}]
    <2>1. /\ r.forget = run[c].forget \ {s} /\ r.id = run[c].id
          /\ r.sources = run[c].sources /\ r.needed = run[c].needed
          /\ r.doomed = run[c].doomed /\ r.repack = run[c].repack /\ r.kept = run[c].kept
          /\ r.spared = run[c].spared
      BY Facts DEF Field
    <2> HIDE DEF r
    <2>2. run'[c] = r /\ pc'[c] = "forget"
      BY <1>6, Facts DEF r, Set
    <2>3. snaps' \ run'[c].forget = snaps \ run[c].forget
      BY <1>6, <2>1, <2>2
    <2>4. run'[c].needed \subseteq Wanted(snaps' \ run'[c].forget)
      BY <1>4, <2>1, <2>2, <2>3
    <2>5. PlanOk(c)'
      BY <1>1, <1>3, <2>1, <2>2, <2>4 DEF PlanOk, Early, Planned
    <2>6. QED
      BY <1>1, <1>2, <2>2, <2>5, PruneWorks DEF Writing
  <1>7. QED
    BY <1>5, <1>6 DEF ForgetSnapshot

LEMMA WasteCopies == ASSUME Tidy, NEW c \in Client, CopyNeeded(c) PROVE WasteInv'
  <1>1. UNCHANGED <<aged, indexes, snaps, runs, pc>> /\ Listed' = Listed /\ pc[c] = "repack"
    BY DEF CopyNeeded, counters, Listed
  <1>2. PruneStep(c) /\ ~OpenPrune(c) /\ ~RemoveStale(c)
    BY <1>1 DEF PruneStep, OpenPrune, RemoveStale
  <1>3. PlanOk(c)
    BY <1>2, WasteIsPrune
  <1>4. PICK l \in run[c].repack :
          LET copy == [run |-> run[c].id, blobs |-> l.blobs] IN
          /\ packs' = packs \cup {copy}
          /\ run' = [run EXCEPT ![c].repack = @ \ {l},
                                ![c].kept = @ \cup AsListings({copy}),
                                ![c].doomed = @ \cup {l.pack}]
    BY DEF CopyNeeded
  <1> DEFINE copy == [run |-> run[c].id, blobs |-> l.blobs]
             new  == [pack |-> copy, blobs |-> copy.blobs]
  <1>5. AsListings({copy}) = {new}
    BY DEF AsListings
  <1>6. /\ packs' = packs \cup {copy}
        /\ run'[c].repack = run[c].repack \ {l} /\ run'[c].kept = run[c].kept \cup {new}
        /\ run'[c].doomed = run[c].doomed \cup {l.pack} /\ run'[c].id = run[c].id
        /\ run'[c].sources = run[c].sources /\ run'[c].needed = run[c].needed
        /\ run'[c].spared = run[c].spared
    BY <1>4, <1>5, Facts DEF Field
  <1>7. new.pack = copy /\ new.blobs = l.blobs
    OBVIOUS
  <1> HIDE DEF copy, new
  <1>8. /\ \A k \in run[c].kept \cup run[c].repack : k.blobs \cap run[c].needed # {}
        /\ \A p \in packs \ (run[c].spared \cup run[c].doomed) :
              \E k \in run[c].kept \cup run[c].repack : k.pack = p
        /\ run[c].spared \cap aged = {}
    BY <1>1, <1>3 DEF PlanOk, Planned
  <1>9. \A k \in run'[c].kept \cup run'[c].repack : k.blobs \cap run'[c].needed # {}
    <2>1. new.blobs \cap run[c].needed # {}
      BY <1>4, <1>7, <1>8
    <2>2. run'[c].kept \cup run'[c].repack \subseteq (run[c].kept \cup run[c].repack) \cup {new}
      BY <1>6
    <2>3. QED
      BY <1>6, <1>8, <2>1, <2>2
  <1>10. ASSUME NEW p \in packs' \ (run'[c].spared \cup run'[c].doomed)
         PROVE  \E k \in run'[c].kept \cup run'[c].repack : k.pack = p
    <2>1. CASE p = copy
      BY <1>6, <1>7, <2>1
    <2>2. CASE p # copy
      <3>1. PICK k \in run[c].kept \cup run[c].repack : k.pack = p
        BY <1>6, <1>8, <2>2
      <3>2. k # l
        BY <1>6, <3>1
      <3>3. QED
        BY <1>6, <3>1, <3>2
    <2>3. QED
      BY <2>1, <2>2
  <1>11. run'[c].doomed # {}
    BY <1>6
  <1>12. PlanOk(c)'
    <2>1. run[c].needed \subseteq Wanted(snaps) /\ \A i \in indexes : i.run # run[c].id
      BY <1>1, <1>3 DEF PlanOk
    <2>2. run'[c].needed \subseteq Wanted(snaps')
      BY <1>1, <1>6, <2>1
    <2>3. run'[c].sources = indexes'
      BY <1>1, <1>3, <1>6 DEF PlanOk
    <2>4. QED
      BY <1>1, <1>6, <1>8, <1>9, <1>10, <1>11, <2>1, <2>2, <2>3 DEF PlanOk, Early, Planned
  <1>13. QED
    BY <1>1, <1>2, <1>12, PruneWorks DEF Writing

(* Of a listing that is kept, the pack holds what a snapshot needs. *)
LEMMA KeptIsWanted ==
    ASSUME Tidy, NEW c \in Client, Live(c), NEW l \in run[c].kept, l.blobs \cap run[c].needed # {},
           run[c].needed \subseteq Wanted(snaps)
    PROVE  \E s \in snaps : s.blobs \cap l.pack.blobs # {}
  <1>1. l.blobs \subseteq l.pack.blobs
    BY DEF Tidy, Typed, RunOk, Good
  <1>2. PICK b \in l.blobs : b \in Wanted(snaps)
    OBVIOUS
  <1>3. PICK s \in snaps : b \in s.blobs
    BY <1>2 DEF Wanted
  <1>4. QED
    BY <1>1, <1>2, <1>3

LEMMA WasteReindexes == ASSUME Tidy, NEW c \in Client, SaveNewIndex(c) PROVE WasteInv'
  <1>1. /\ UNCHANGED <<packs, aged, snaps, runs, run>> /\ pc[c] = "repack" /\ run[c].repack = {}
        /\ Live(c)
    BY DEF SaveNewIndex, counters, Live
  <1>2. PruneStep(c) /\ ~OpenPrune(c) /\ ~RemoveStale(c)
    BY <1>1 DEF PruneStep, OpenPrune, RemoveStale
  <1>3. PlanOk(c)
    BY <1>2, WasteIsPrune
  <1>4. /\ run[c].needed \subseteq Wanted(snaps)
        /\ \A l \in run[c].kept : l.blobs \cap run[c].needed # {}
        /\ \A p \in packs \ (run[c].spared \cup run[c].doomed) : \E l \in run[c].kept : l.pack = p
        /\ run[c].spared \cap aged = {}
        /\ \A i \in run[c].sources : i.run # run[c].id
    BY <1>1, <1>3 DEF PlanOk, Planned
  <1>5. CASE run[c].doomed = {}
    <2>1. pc'[c] = "release" /\ indexes' = indexes /\ Listed' = Listed
      BY <1>5, Facts DEF SaveNewIndex, Listed
    <2>2. ASSUME NEW p \in packs \ (run[c].spared \ aged) PROVE Useful(p)
      <3>1. PICK l \in run[c].kept : l.pack = p
        BY <1>4, <1>5
      <3>2. \E s \in snaps : s.blobs \cap p.blobs # {}
        BY <1>1, <1>4, <3>1, KeptIsWanted
      <3>3. \E k \in Listed : k.pack = p
        BY <1>1, <1>3, <1>5, <3>1 DEF PlanOk
      <3>4. QED
        BY <3>2, <3>3 DEF Useful
    <2>3. \A p \in packs' \ (run'[c].spared \ aged') : Useful(p)'
      BY <1>1, <2>1, <2>2 DEF Useful
    <2>4. PlanOk(c)'
      BY <2>1, <2>3 DEF PlanOk, Early, Planned
    <2>5. QED
      BY <1>2, <2>1, <2>4, PruneWorks DEF Writing
  <1>6. CASE run[c].doomed # {}
    <2>1. pc'[c] = "reindexed" /\ NewIndex(c)' = NewIndex(c)
      BY <1>1, <1>6, Facts DEF SaveNewIndex, NewIndex
    <2>2. indexes' = IF run[c].kept = {} THEN indexes ELSE indexes \cup {NewIndex(c)}
      BY <1>6 DEF SaveNewIndex, NewIndex
    <2>3. NewIndex(c).run = run[c].id
      BY DEF NewIndex
    <2>4. run'[c].needed \subseteq Wanted(snaps')
      BY <1>1, <1>4
    <2>5. PlanOk(c)'
      BY <1>1, <1>4, <2>1, <2>2, <2>4 DEF PlanOk, Early, Planned
    <2>6. QED
      BY <1>2, <2>1, <2>2, <2>3, <2>5, PruneWorks DEF Writing
  <1>7. QED
    BY <1>5, <1>6

LEMMA WasteDropsIndex == ASSUME Tidy, NEW c \in Client, DeleteIndex(c) PROVE WasteInv'
  <1>1. UNCHANGED <<packs, aged, snaps, runs, pc>> /\ pc[c] = "sweep"
    BY DEF DeleteIndex, counters
  <1>2. PruneStep(c) /\ ~OpenPrune(c) /\ ~RemoveStale(c)
    BY <1>1 DEF PruneStep, OpenPrune, RemoveStale
  <1>3. PlanOk(c)
    BY <1>2, WasteIsPrune
  <1>4. PICK i \in run[c].sources :
          indexes' = indexes \ {i} /\ run' = [run EXCEPT ![c].sources = @ \ {i}]
    BY DEF DeleteIndex
  <1>5. /\ run'[c].sources = run[c].sources \ {i} /\ run'[c].id = run[c].id
        /\ run'[c].needed = run[c].needed
        /\ run'[c].doomed = run[c].doomed /\ run'[c].repack = run[c].repack
        /\ run'[c].kept = run[c].kept /\ run'[c].spared = run[c].spared
    BY <1>1, <1>4, Facts DEF Field
  <1>6. NewIndex(c)' = NewIndex(c) /\ NewIndex(c).run = run[c].id
    BY <1>5 DEF NewIndex
  <1>7. run'[c].kept # {} => NewIndex(c)' \in indexes'
    BY <1>1, <1>3, <1>4, <1>5, <1>6 DEF PlanOk
  <1>8. run'[c].needed \subseteq Wanted(snaps')
    BY <1>1, <1>3, <1>5 DEF PlanOk
  <1>9. PlanOk(c)'
    BY <1>1, <1>3, <1>5, <1>7, <1>8 DEF PlanOk, Early, Planned
  <1>10. QED
    BY <1>1, <1>2, <1>4, <1>9, PruneWorks DEF Writing

LEMMA WasteDropsPack == ASSUME Tidy, NEW c \in Client, DeletePack(c) PROVE WasteInv'
  <1>1. /\ UNCHANGED <<indexes, snaps, runs>> /\ pc[c] = "sweep" /\ Listed' = Listed /\ Live(c)
    BY DEF DeletePack, counters, Listed, Live
  <1>2. PruneStep(c) /\ ~OpenPrune(c) /\ ~RemoveStale(c)
    BY <1>1 DEF PruneStep, OpenPrune, RemoveStale
  <1>3. PlanOk(c)
    BY <1>2, WasteIsPrune
  <1>4. /\ run[c].needed \subseteq Wanted(snaps) /\ run[c].repack = {}
        /\ \A l \in run[c].kept : l.blobs \cap run[c].needed # {}
        /\ \A p \in packs \ (run[c].spared \cup run[c].doomed) : \E l \in run[c].kept : l.pack = p
        /\ run[c].spared \cap aged = {}
        /\ \A i \in run[c].sources : i.run # run[c].id
        /\ run[c].kept # {} => NewIndex(c) \in indexes
    BY <1>1, <1>3 DEF PlanOk, Planned
  <1>5. CASE run[c].doomed = {} /\ Set(c, "release", run[c]) /\ UNCHANGED <<packs, aged>>
    <2>1. pc'[c] = "release" /\ run'[c] = run[c]
      BY <1>5, Facts DEF Set
    <2>2. ASSUME NEW p \in packs \ (run[c].spared \ aged) PROVE Useful(p)
      <3>1. PICK l \in run[c].kept : l.pack = p
        BY <1>4, <1>5
      <3>2. \E s \in snaps : s.blobs \cap p.blobs # {}
        BY <1>1, <1>4, <3>1, KeptIsWanted
      <3>3. NewIndex(c) \in indexes /\ NewIndex(c).packs = run[c].kept
        BY <1>4, <3>1 DEF NewIndex
      <3>4. l \in Listed
        BY <3>1, <3>3 DEF Listed, Listings
      <3>5. QED
        BY <3>1, <3>2, <3>4 DEF Useful
    <2>3. \A p \in packs' \ (run'[c].spared \ aged') : Useful(p)'
      BY <1>1, <1>5, <2>1, <2>2 DEF Useful
    <2>4. PlanOk(c)'
      BY <2>1, <2>3 DEF PlanOk, Early, Planned
    <2>5. QED
      BY <1>1, <1>2, <2>1, <2>4, PruneWorks DEF Writing
  <1>6. ASSUME NEW p \in run[c].doomed, packs' = packs \ {p}, aged' = aged \ {p},
               Set(c, "sweep", [run[c] EXCEPT !.doomed = @ \ {p}])
        PROVE  WasteInv'
    <2> DEFINE r == [run[c] EXCEPT !.doomed = @ \ {p}]
    <2>1. /\ r.doomed = run[c].doomed \ {p} /\ r.id = run[c].id
          /\ r.sources = run[c].sources /\ r.needed = run[c].needed
          /\ r.repack = run[c].repack /\ r.kept = run[c].kept /\ r.spared = run[c].spared
      BY Facts DEF Field
    <2> HIDE DEF r
    <2>2. run'[c] = r /\ pc'[c] = "sweep"
      BY <1>6, Facts DEF r, Set
    <2>3. NewIndex(c)' = NewIndex(c)
      BY <2>1, <2>2 DEF NewIndex
    <2>4. run'[c].needed \subseteq Wanted(snaps')
      BY <1>1, <1>4, <2>1, <2>2
    <2>5. packs' \ (run'[c].spared \cup run'[c].doomed) \subseteq packs \ (run[c].spared \cup run[c].doomed)
      BY <1>6, <2>1, <2>2
    <2>6. PlanOk(c)'
      BY <1>1, <1>4, <1>6, <2>1, <2>2, <2>3, <2>4, <2>5 DEF PlanOk, Early, Planned
    <2>7. QED
      BY <1>1, <1>2, <2>2, <2>6, PruneWorks DEF Writing
  <1>7. QED
    BY <1>5, <1>6 DEF DeletePack

-----------------------------------------------------------------------------
LEMMA WasteInductive == ASSUME Typed, StoreInv, LockInv, WasteInv, [Next]_vars PROVE WasteInv'
  <1>1. CASE slept' # {}
    BY <1>1 DEF WasteInv
  <1>2. CASE slept' = {}
    <2>1. Tidy
      BY <1>2, SleptGrows DEF Tidy
    <2>2. CASE UNCHANGED vars
      BY <2>1, <2>2, WasteElse DEF vars, bucket, counters
    <2>3. ASSUME NEW c \in Client, LockStep(c) PROVE WasteInv'
      BY <2>1, <2>3, WasteLocks, WasteRefresh DEF LockStep
    <2>4. ASSUME NEW c \in Client, BackupStep(c) PROVE WasteInv'
      BY <2>1, <2>4, WasteOpens, WasteBackup
    <2>5. ASSUME NEW c \in Client, PruneStep(c) PROVE WasteInv'
      BY <2>1, <2>5, WasteOpens, WasteLocks, WasteMarks, WastePlans, WasteForgets, WasteCopies,
         WasteReindexes, WasteDropsIndex, WasteDropsPack DEF PruneStep
    <2>6. ASSUME NEW c \in Client, Fail(c) \/ Crash(c) \/ Sleep(c) PROVE WasteInv'
      <3>1. ~Sleep(c)
        BY <1>2 DEF Sleep
      <3>2. QED
        BY <2>1, <2>6, <3>1, WasteLocks
    <2>7. ASSUME NEW l \in locks, Abandon(l) PROVE WasteInv'
      BY <2>1, <2>7, WasteElse DEF Abandon, counters
    <2>8. CASE AgePacks
      BY <2>1, <2>8, WasteElse DEF AgePacks, counters
    <2>9. QED
      BY <2>2, <2>3, <2>4, <2>5, <2>6, <2>7, <2>8 DEF Next
  <1>3. QED
    BY <1>1, <1>2

(* PruneReclaims: a prune that went through leaves only packs that some
   snapshot needs and some index lists, and recent ones in no index
   (prune_locked), unless some run slept through STALE_AFTER. *)
THEOREM PrunesLeaveNoWaste == Spec => []PruneReclaims
  <1> DEFINE Inv == Typed /\ StoreInv /\ LockInv /\ WasteInv
  <1>1. Init => Inv
    BY InitTyped, StoreInit, LockInit, WasteInit
  <1>2. Inv /\ [Next]_vars => Inv'
    BY TypedInductive, StoreInductive, LockInductive, WasteInductive
  <1>3. Inv => PruneReclaims
    BY WasteSuffices
  <1> HIDE DEF Inv
  <1>4. QED
    BY <1>1, <1>2, <1>3, PTL DEF Spec
=============================================================================
