-------------------------- MODULE CompactionProofs --------------------------
(***************************************************************************)
(* Compaction keeps what was logged: theorems about Compaction, for any    *)
(* writers, compactors, contents and bounds.                               *)
(*                                                                         *)
(* The newest snapshot and the log say what the history says because every *)
(* entry that wins over the whole history is in one of them (Complete).  A *)
(* compactor that is alone folds all of these into its own snapshot before *)
(* it prunes a delta (Folded), writes it under a generation above all      *)
(* others, and prunes the snapshot it read, which is then no longer the    *)
(* newest.  The GC spares the objects of the winners: those it has seen    *)
(* logged by reference, those logged since because a young object is never *)
(* among the expired ones (Spared).                                        *)
(***************************************************************************)
EXTENDS Compaction, ManifestProofs

States == {"idle", "snapshot", "read", "compact-snapshot", "compact-read", "put",
           "verify", "prune", "gc-read", "gc-list", "gc"}

Object(e) == <<e.path, e.hash>>

Job == [snap : [gen : Nat, manifest : SUBSET Entry], listed : SUBSET Entry,
        merged : SUBSET Entry, gen : Nat, doomed : SUBSET (Path \X Content),
        oldLog : SUBSET Entry, oldGen : SUBSET Nat, oldObjects : SUBSET (Path \X Content)]

(* Types of the volatile state; a job works on what was logged. *)
Volatile ==
    /\ pc \in [Device -> States] /\ job \in [Device -> Job]
    /\ pending \in [Device -> SUBSET [path : Path, hash : Content]]
    /\ overlapped \in BOOLEAN
    /\ \A d \in Device :
          job[d].snap.manifest \cup job[d].listed \cup job[d].merged \subseteq history

(* Each entry takes a new clock, and a history is finite. *)
Clocks ==
    /\ \A e, f \in history : e.lamport = f.lamport => e = f
    /\ \E n \in Nat : \A e \in history : e.lamport <= n /\ e.dev <= n

(* One snapshot per generation, and finitely many. *)
Generations ==
    /\ \A s, t \in snaps : s.gen = t.gen => s = t
    /\ \E n \in Nat : \A s \in snaps : s.gen <= n

(* The newest generation is no older than what a device has seen or a job
   has read, and a job that prunes has put a newer one. *)
Newest ==
    /\ NoFalseRollback
    /\ \A d \in Device :
          /\ job[d].snap.gen <= Latest(snaps).gen
          /\ pc[d] = "put" => job[d].snap.gen < job[d].gen
          /\ pc[d] \in {"verify", "prune"} => job[d].snap.gen < Latest(snaps).gen

TypeInv == TypeOK /\ Volatile /\ Clocks /\ Generations /\ Newest

(* While compactions do not overlap: a compactor is alone, *)
Alone == \A d, g \in Device : Compacting(d) /\ Compacting(g) => d = g

(* every winner is in the newest snapshot or the log, *)
Complete == Merged(history) \subseteq Latest(snaps).manifest \cup log

(* the compactor's base is the newest snapshot until it puts its own, above it, *)
OnNewest(d) ==
    /\ pc[d] \in {"compact-snapshot", "compact-read", "put"} => job[d].snap = Latest(snaps)
    /\ pc[d] = "put" => job[d].gen > Latest(snaps).gen
    /\ pc[d] = "prune" => Latest(snaps).manifest = job[d].merged

(* and its manifest holds every winner it may prune from the log. *)
Folded(d) ==
    /\ pc[d] \in {"compact-read", "put", "verify", "prune", "gc-read", "gc-list", "gc"} =>
          Merged(history) \subseteq job[d].merged \cup log
    /\ pc[d] \in {"compact-read", "put", "verify", "prune"} =>
          Merged(history) \cap job[d].listed \subseteq job[d].merged

LogInv == ~overlapped => Alone /\ Complete /\ \A d \in Device : OnNewest(d) /\ Folded(d)

(* An object in flight is young, and younger than every running pass. *)
Young ==
    /\ InFlight \cap expired = {}
    /\ \A d \in Device : InFlight \cap job[d].oldObjects = {}

(* The winners' objects are stored and so are those in flight, *)
Stored == InFlight \subseteq objects /\ \A e \in Merged(history) : Object(e) \in objects

(* and the GC takes none of them: a winner that it has not read is younger
   than its pass. *)
Spared(d) ==
    /\ pc[d] = "gc-list" =>
          \A e \in Merged(history) :
              \/ \E f \in job[d].merged \cup job[d].listed : Object(f) = Object(e)
              \/ Object(e) \notin expired \cup job[d].oldObjects
    /\ pc[d] = "gc" =>
          /\ job[d].doomed \subseteq objects \ InFlight
          /\ \A e \in Merged(history) : Object(e) \notin job[d].doomed

ObjectInv == Young /\ (~overlapped => Stored /\ \A d \in Device : Spared(d))

CompInv == TypeInv /\ LogInv /\ ObjectInv

-----------------------------------------------------------------------------
(* Facts about the operators. *)

Snap == [gen : Nat \ {0}, manifest : SUBSET Entry]

(* The newest of finitely many snapshots is one of them. *)
LEMMA LatestIs ==
    ASSUME NEW ss \in SUBSET Snap, NEW n \in Nat, \A s \in ss : s.gen <= n
    PROVE  /\ Latest(ss).gen \in Nat /\ Latest(ss).manifest \in SUBSET Entry
           /\ \A s \in ss : s.gen <= Latest(ss).gen
           /\ ss # {} => Latest(ss) \in ss
           /\ ss = {} => Latest(ss) = NoSnap
  <1>1. CASE ss = {}
    BY <1>1 DEF Latest, NoSnap
  <1>2. CASE ss # {}
    <2> DEFINE S == {s.gen : s \in ss}
    <2>1. S \in SUBSET Nat /\ S # {} /\ \A m \in S : m <= n
      BY <1>2 DEF Snap
    <2>2. \E m \in S : \A k \in S : k <= m
      <3> HIDE DEF S
      <3> QED BY <2>1, GreatestNat
    <2>3. \E s \in ss : \A t \in ss : t.gen <= s.gen
      BY <2>2
    <2>4. Latest(ss) \in ss /\ \A t \in ss : t.gen <= Latest(ss).gen
      BY <1>2, <2>3 DEF Latest
    <2>5. Latest(ss) \in Snap
      BY <2>4
    <2>6. QED
      BY <1>2, <2>4, <2>5 DEF Snap
  <1>3. QED
    BY <1>1, <1>2

(* ... the only one with its generation or a greater one. *)
LEMMA LatestUnique ==
    ASSUME NEW ss \in SUBSET Snap, NEW n \in Nat, \A s \in ss : s.gen <= n,
           \A s, t \in ss : s.gen = t.gen => s = t,
           NEW s \in ss, \A t \in ss : t.gen <= s.gen
    PROVE  Latest(ss) = s
  <1>1. Latest(ss) \in ss /\ s.gen <= Latest(ss).gen
    BY LatestIs
  <1>2. Latest(ss).gen <= s.gen /\ s.gen \in Nat /\ Latest(ss).gen \in Nat
    BY <1>1 DEF Snap
  <1> QED
    BY <1>1, <1>2

(* The newest snapshot of the store. *)
LEMMA LatestTyped ==
    ASSUME TypeOK, Generations
    PROVE  /\ Latest(snaps).gen \in Nat /\ Latest(snaps).manifest \in SUBSET Entry
           /\ Latest(snaps).manifest \subseteq history
           /\ \A s \in snaps : s.gen \in Nat \ {0} /\ s.gen <= Latest(snaps).gen
           /\ snaps # {} => Latest(snaps) \in snaps
           /\ snaps = {} => Latest(snaps) = NoSnap
  <1>1. snaps \in SUBSET Snap
    BY DEF TypeOK, Snap
  <1>2. PICK n \in Nat : \A s \in snaps : s.gen <= n
    BY DEF Generations
  <1>3. /\ Latest(snaps).gen \in Nat /\ Latest(snaps).manifest \in SUBSET Entry
        /\ \A s \in snaps : s.gen <= Latest(snaps).gen
        /\ snaps # {} => Latest(snaps) \in snaps
        /\ snaps = {} => Latest(snaps) = NoSnap
    BY <1>1, <1>2, LatestIs
  <1>4. Latest(snaps).manifest \subseteq history
    BY <1>3 DEF TypeOK, NoSnap
  <1> QED
    BY <1>1, <1>3, <1>4 DEF Snap

(* ... and after a step. *)
LEMMA LatestNext ==
    ASSUME TypeOK', Generations'
    PROVE  /\ Latest(snaps)'.gen \in Nat /\ Latest(snaps)'.manifest \in SUBSET Entry
           /\ \A s \in snaps' : s.gen \in Nat \ {0} /\ s.gen <= Latest(snaps)'.gen
           /\ snaps' # {} => Latest(snaps)' \in snaps'
           /\ snaps' = {} => Latest(snaps)' = NoSnap
  <1>1. snaps' \in SUBSET Snap
    BY DEF TypeOK, Snap
  <1>2. PICK n \in Nat : \A s \in snaps' : s.gen <= n
    BY DEF Generations
  <1>3. Latest(snaps)' = Latest(snaps')
    BY DEF Latest, NoSnap
  <1>4. /\ Latest(snaps').gen \in Nat /\ Latest(snaps').manifest \in SUBSET Entry
        /\ \A s \in snaps' : s.gen <= Latest(snaps').gen
        /\ snaps' # {} => Latest(snaps') \in snaps'
        /\ snaps' = {} => Latest(snaps') = NoSnap
    BY <1>1, <1>2, LatestIs
  <1> QED
    BY <1>1, <1>3, <1>4 DEF Snap

(* What two sets merge to is in them, and a winner of the whole is a winner
   of every part that has it. *)
LEMMA MergedParts ==
    ASSUME NEW es, NEW hs, es \subseteq hs
    PROVE  Merged(es) \subseteq es /\ Merged(hs) \cap es \subseteq Merged(es)
  BY DEF Merged

(* Every entry of the history is a winner or loses to one. *)
LEMMA HistoryDominated ==
    ASSUME TypeOK, Clocks, NEW e \in history
    PROVE  \E w \in Merged(history) : w.path = e.path /\ (w = e \/ Beats(w, e))
  <1>1. PICK n \in Nat : \A f \in history : f.lamport <= n /\ f.dev <= n
    BY DEF Clocks
  <1>2. history \in SUBSET Entry
    BY DEF TypeOK
  <1>3. \A f, g \in history : f.path = g.path /\ f.lamport = g.lamport /\ f.dev = g.dev => f = g
    BY DEF Clocks
  <1> QED
    BY <1>1, <1>2, <1>3, MergedDominates

(* A part of the history that has its winners merges to the same manifest. *)
LEMMA SameManifest ==
    ASSUME TypeOK, Clocks, NEW es, es \subseteq history, Merged(history) \subseteq es
    PROVE  Merged(es) = Merged(history)
  <1>1. Merged(history) \subseteq Merged(es)
    BY MergedParts
  <1>2. ASSUME NEW e \in Merged(es) PROVE e \in Merged(history)
    <2>1. e \in es /\ e \in history /\ \A f \in es : f.path = e.path => ~Beats(f, e)
      BY <1>2 DEF Merged
    <2>2. PICK w \in Merged(history) : w.path = e.path /\ (w = e \/ Beats(w, e))
      BY <2>1, HistoryDominated
    <2> QED
      BY <2>1, <2>2
  <1> QED
    BY <1>1, <1>2

(* A job's fields. *)
LEMMA JobFields ==
    ASSUME NEW j \in Job
    PROVE  /\ j.snap.gen \in Nat /\ j.snap.manifest \in SUBSET Entry
           /\ j.snap \in [gen : Nat, manifest : SUBSET Entry]
           /\ j.listed \in SUBSET Entry /\ j.merged \in SUBSET Entry /\ j.gen \in Nat
           /\ j.doomed \in SUBSET (Path \X Content)
           /\ j.oldLog \in SUBSET Entry /\ j.oldGen \in SUBSET Nat
           /\ j.oldObjects \in SUBSET (Path \X Content)
  BY DEF Job

LEMMA NoJobTyped == NoJob \in Job /\ NoJob.snap = NoSnap /\ NoJob.listed = {} /\ NoJob.merged = {}
                       /\ NoJob.oldObjects = {}
  BY DEF Job, NoJob, NoSnap

-----------------------------------------------------------------------------
(* Steps. *)

(* A device's step sets its own state and job. *)
LEMMA SetStep ==
    ASSUME Volatile, NEW d \in Device, NEW s \in States, NEW j \in Job, Set(d, s, j),
           j.snap.manifest \cup j.listed \cup j.merged \subseteq history',
           history \subseteq history', UNCHANGED overlapped \/ overlapped' \in BOOLEAN,
           pending' \in [Device -> SUBSET [path : Path, hash : Content]]
    PROVE  /\ Volatile'
           /\ pc'[d] = s /\ job'[d] = j
           /\ \A g \in Device \ {d} : pc'[g] = pc[g] /\ job'[g] = job[g]
  <1>1. /\ pc'[d] = s /\ job'[d] = j
        /\ \A g \in Device \ {d} : pc'[g] = pc[g] /\ job'[g] = job[g]
        /\ pc' \in [Device -> States] /\ job' \in [Device -> Job]
    BY DEF Set, Volatile
  <1>2. ASSUME NEW g \in Device
        PROVE  job'[g].snap.manifest \cup job'[g].listed \cup job'[g].merged \subseteq history'
    BY <1>1 DEF Volatile
  <1>3. overlapped' \in BOOLEAN
    BY Zenon DEF Volatile
  <1> QED
    BY <1>1, <1>2, <1>3 DEF Volatile

(* A logged entry is new and takes a clock above all others. *)
LEMMA Appended ==
    ASSUME TypeInv, NEW d \in Device, NEW p \in Path, NEW c \in Content,
           NEW b \in BOOLEAN, NEW over \in Content \cup {None}, Append1(d, p, c, b, over)
    PROVE  \E e \in Entry :
              /\ e \notin history /\ e.path = p /\ e.hash = c
              /\ log' = log \cup {e} /\ history' = history \cup {e}
              /\ Clocks'
  <1> DEFINE e == [path |-> p, hash |-> c, deleted |-> b, dev |-> d,
                   lamport |-> RemoteLamport(history) + 1, base |-> over]
  <1>1. PICK n \in Nat : \A f \in history : f.lamport <= n /\ f.dev <= n
    BY DEF TypeInv, Clocks
  <1>2. history \in SUBSET Entry
    BY DEF TypeInv, TypeOK
  <1>3. /\ RemoteLamport(history) \in Nat
        /\ \A f \in history : f.lamport <= RemoteLamport(history)
    BY <1>1, <1>2, RemoteLamportBounds
  <1>4. e \in Entry
    BY <1>3 DEF Entry
  <1>5. /\ e.path = p /\ e.hash = c /\ e.dev = d /\ e.lamport = RemoteLamport(history) + 1
        /\ log' = log \cup {e} /\ history' = history \cup {e}
    BY DEF Append1
  <1> HIDE DEF e
  <1>6. \A f \in history : f.lamport \in Nat /\ f.dev \in Nat /\ f.lamport < e.lamport
    BY <1>2, <1>3, <1>5, EntryFields
  <1>7. e \notin history
    BY <1>6
  <1>8. Clocks'
    <2>1. \A f, g \in history' : f.lamport = g.lamport => f = g
      BY <1>5, <1>6 DEF TypeInv, Clocks
    <2> DEFINE m == n + e.lamport + e.dev
    <2>2. m \in Nat /\ m >= n /\ m >= e.lamport /\ m >= e.dev
      BY <1>4, EntryFields
    <2>3. \A f \in history' : f.lamport <= m /\ f.dev <= m
      <3> HIDE DEF m
      <3>1. ASSUME NEW f \in history PROVE f.lamport <= m /\ f.dev <= m
        BY <1>1, <1>6, <2>2
      <3> QED BY <1>5, <2>2, <3>1
    <2> QED
      BY <2>1, <2>2, <2>3 DEF Clocks
  <1> QED
    BY <1>4, <1>5, <1>7, <1>8

(* Newest survives a step of d that takes no generation away above it. *)
LEMMA NewestStep ==
    ASSUME TypeInv, TypeOK', Generations', NEW d \in Device,
           Latest(snaps).gen <= Latest(snaps)'.gen,
           \A g \in Device \ {d} :
              /\ pc'[g] = pc[g] /\ seen'[g] = seen[g]
              /\ job'[g].snap = job[g].snap /\ job'[g].gen = job[g].gen,
           seen'[d] <= Latest(snaps)'.gen,
           job'[d].snap.gen <= Latest(snaps)'.gen,
           pc'[d] = "put" => job'[d].snap.gen < job'[d].gen,
           pc'[d] \in {"verify", "prune"} => job'[d].snap.gen < Latest(snaps)'.gen
    PROVE  Newest'
  <1>1. Latest(snaps).gen \in Nat /\ Latest(snaps)'.gen \in Nat
    BY LatestTyped, LatestNext DEF TypeInv
  <1>2. ASSUME NEW g \in Device
        PROVE  /\ seen'[g] <= Latest(snaps)'.gen
               /\ job'[g].snap.gen <= Latest(snaps)'.gen
               /\ pc'[g] = "put" => job'[g].snap.gen < job'[g].gen
               /\ pc'[g] \in {"verify", "prune"} => job'[g].snap.gen < Latest(snaps)'.gen
    <2>1. CASE g = d
      BY <2>1
    <2>2. CASE g # d
      <3>1. seen[g] \in Nat /\ job[g] \in Job
        BY DEF TypeInv, TypeOK, Volatile
      <3>2. job[g].snap.gen \in Nat
        BY <3>1, JobFields
      <3>3. /\ seen[g] <= Latest(snaps).gen /\ job[g].snap.gen <= Latest(snaps).gen
            /\ pc[g] = "put" => job[g].snap.gen < job[g].gen
            /\ pc[g] \in {"verify", "prune"} => job[g].snap.gen < Latest(snaps).gen
        BY DEF TypeInv, Newest, NoFalseRollback
      <3> QED
        BY <1>1, <2>2, <3>1, <3>2, <3>3
    <2> QED
      BY <2>1, <2>2
  <1> QED
    BY <1>2 DEF Newest, NoFalseRollback

(* Clocks and Generations are about the history and the snapshots alone. *)
LEMMA Unmoved ==
    ASSUME TypeInv, UNCHANGED <<snaps, history>>
    PROVE  Clocks' /\ Generations' /\ Latest(snaps)' = Latest(snaps)
  <1>1. Clocks' /\ Generations'
    BY DEF TypeInv, Clocks, Generations
  <1>2. Latest(snaps)' = Latest(snaps)
    BY DEF Latest, NoSnap
  <1> QED
    BY <1>1, <1>2

(* A step of d that leaves the log and the snapshots alone. *)
LEMMA QuietStep ==
    ASSUME TypeInv, NEW d \in Device, NEW s \in States, NEW j \in Job, Set(d, s, j),
           UNCHANGED <<remote, seen, history, overlapped>>,
           pending' \in [Device -> SUBSET [path : Path, hash : Content]],
           expired' \subseteq objects', objects' \subseteq objects,
           j.snap \in {job[d].snap, NoSnap}, j.listed \cup j.merged \subseteq history,
           s = "put" => j.snap.gen < j.gen,
           s \in {"verify", "prune"} => j.snap.gen < Latest(snaps).gen
    PROVE  TypeInv'
  <1>1. TypeOK'
    BY DEF TypeInv, TypeOK, remote
  <1>2. Clocks' /\ Generations' /\ Latest(snaps)' = Latest(snaps)
    BY Unmoved DEF remote
  <1>3. j.snap.manifest \subseteq history
    BY DEF TypeInv, Volatile, NoSnap
  <1>4. /\ Volatile' /\ pc'[d] = s /\ job'[d] = j
        /\ \A g \in Device \ {d} : pc'[g] = pc[g] /\ job'[g] = job[g]
    BY <1>3, SetStep DEF TypeInv
  <1>5. Newest'
    <2>1. /\ Latest(snaps).gen \in Nat /\ job[d].snap.gen <= Latest(snaps).gen
          /\ seen[d] <= Latest(snaps).gen
      BY LatestTyped DEF TypeInv, Newest, NoFalseRollback
    <2>2. j.snap.gen <= Latest(snaps).gen
      BY <2>1 DEF NoSnap
    <2>3. Latest(snaps).gen <= Latest(snaps)'.gen
      BY <1>2, <2>1
    <2> QED
      BY <1>1, <1>2, <1>4, <2>1, <2>2, <2>3, NewestStep
  <1> QED
    BY <1>1, <1>2, <1>4, <1>5 DEF TypeInv

(* Writers keep the types. *)
LEMMA TypeWrite ==
    ASSUME TypeInv, NEW d \in Device, Write(d)
    PROVE  TypeInv'
  <1>1. CASE \E p \in Path, c \in Content : StoreObject(d, p, c)
    <2>1. PICK p \in Path, c \in Content : StoreObject(d, p, c)
      BY <1>1
    <2> USE <2>1 DEF StoreObject, remote
    <2>2. TypeOK'
      BY DEF TypeInv, TypeOK
    <2>3. Clocks' /\ Generations' /\ Latest(snaps)' = Latest(snaps)
      BY Unmoved
    <2>4. ASSUME NEW g \in Device
          PROVE  /\ job'[g] \in Job /\ job'[g].snap = job[g].snap /\ job'[g].gen = job[g].gen
                 /\ job'[g].listed = job[g].listed /\ job'[g].merged = job[g].merged
      <3>1. job[g] \in Job /\ job'[g] = [job[g] EXCEPT !.oldObjects = @ \ {<<p, c>>}]
        BY DEF TypeInv, Volatile
      <3> QED
        BY <3>1 DEF Job
    <2>5. Volatile'
      <3>1. pc' \in [Device -> States] /\ overlapped' \in BOOLEAN
        BY DEF TypeInv, Volatile
      <3>2. pending' \in [Device -> SUBSET [path : Path, hash : Content]]
        BY DEF TypeInv, Volatile
      <3>3. job' \in [Device -> Job]
        BY <2>4
      <3>4. \A g \in Device :
               job'[g].snap.manifest \cup job'[g].listed \cup job'[g].merged \subseteq history'
        BY <2>4 DEF TypeInv, Volatile
      <3> QED
        BY <3>1, <3>2, <3>3, <3>4 DEF Volatile
    <2>6. Newest'
      BY <2>3, <2>4 DEF TypeInv, Newest, NoFalseRollback
    <2> QED
      BY <2>2, <2>3, <2>5, <2>6 DEF TypeInv
  <1>2. ASSUME NEW p \in Path, NEW c \in Content, NEW b \in BOOLEAN,
               NEW over \in Content \cup {None}, Append1(d, p, c, b, over),
               pending' \in [Device -> SUBSET [path : Path, hash : Content]],
               UNCHANGED <<agedLog, snaps, agedGen, content, seen, pc, job, overlapped>>
        PROVE  TypeInv'
    <2>1. PICK e \in Entry : /\ e \notin history /\ e.path = p /\ e.hash = c
                             /\ log' = log \cup {e} /\ history' = history \cup {e}
                             /\ Clocks'
      BY <1>2, Appended
    <2>2. TypeOK'
      <3>1. snaps \subseteq [gen : Nat \ {0}, manifest : SUBSET history']
        BY <2>1 DEF TypeInv, TypeOK
      <3> QED
        BY <1>2, <2>1, <3>1 DEF TypeInv, TypeOK, content
    <2>3. Volatile'
      BY <1>2, <2>1 DEF TypeInv, Volatile
    <2>4. Generations' /\ Newest'
      BY <1>2 DEF TypeInv, Generations, Newest, NoFalseRollback, Latest, NoSnap
    <2> QED
      BY <2>1, <2>2, <2>3, <2>4 DEF TypeInv
  <1>3. Current \subseteq Entry
    BY LatestTyped DEF TypeInv, TypeOK, Current, Merged
  <1>4. CASE LogUpload(d)
    <2>1. PICK u \in pending[d] :
             LET old == EntriesAt(Current, u.path)
             IN  Append1(d, u.path, u.hash, FALSE,
                         IF old = {} THEN None ELSE EntryAt(old, u.path).hash)
      BY <1>4 DEF LogUpload
    <2> DEFINE old == EntriesAt(Current, u.path)
               over == IF old = {} THEN None ELSE EntryAt(old, u.path).hash
    <2>2. u.path \in Path /\ u.hash \in Content
      BY DEF TypeInv, Volatile
    <2>3. over \in Content \cup {None}
      <3>1. CASE old # {}
        <4>1. EntryAt(old, u.path) \in old
          BY <3>1 DEF EntryAt, EntriesAt
        <4>2. EntryAt(old, u.path) \in Entry
          BY <1>3, <4>1 DEF EntriesAt
        <4> QED
          BY <3>1, <4>2 DEF Entry
      <3> QED
        BY <3>1
    <2>4. pending' \in [Device -> SUBSET [path : Path, hash : Content]]
      BY <1>4 DEF LogUpload, TypeInv, Volatile
    <2>5. Append1(d, u.path, u.hash, FALSE, over)
      BY <2>1
    <2>6. UNCHANGED <<agedLog, snaps, agedGen, content, seen, pc, job, overlapped>>
      BY <1>4 DEF LogUpload
    <2> HIDE DEF over
    <2> QED
      BY <1>2, <2>2, <2>3, <2>4, <2>5, <2>6
  <1>5. CASE \E p \in Path : LogTombstone(d, p)
    <2>1. PICK p \in Path : LogTombstone(d, p)
      BY <1>5
    <2>2. PICK e \in EntriesAt(Current, p) : Append1(d, p, e.hash, TRUE, e.hash)
      BY <2>1 DEF LogTombstone
    <2>3. e.hash \in Content
      BY <1>3 DEF EntriesAt, Entry
    <2>4. pending' \in [Device -> SUBSET [path : Path, hash : Content]]
      BY <2>1 DEF LogTombstone, TypeInv, Volatile
    <2>5. UNCHANGED <<agedLog, snaps, agedGen, content, seen, pc, job, overlapped>>
      BY <2>1 DEF LogTombstone
    <2> QED
      BY <1>2, <2>2, <2>3, <2>4, <2>5
  <1> QED
    BY <1>1, <1>4, <1>5 DEF Write

(* Time changes ages only. *)
LEMMA TypeTime ==
    ASSUME TypeInv, Time
    PROVE  TypeInv'
  <1>1. UNCHANGED <<log, snaps, objects, seen, pc, job, pending, history, overlapped>>
    BY DEF Time, AgeDelta, AgeSnap, Expire, remote, content
  <1>2. agedLog' \subseteq log /\ agedGen' \subseteq {s.gen : s \in snaps} /\ expired' \subseteq objects
    BY DEF Time, AgeDelta, AgeSnap, Expire, remote, content, TypeInv, TypeOK
  <1>3. Clocks' /\ Generations' /\ Latest(snaps)' = Latest(snaps)
    BY <1>1, Unmoved
  <1>4. Volatile' /\ Newest'
    BY <1>1, <1>3 DEF TypeInv, Volatile, Newest, NoFalseRollback
  <1>5. TypeOK'
    BY <1>1, <1>2 DEF TypeInv, TypeOK
  <1> QED
    BY <1>3, <1>4, <1>5 DEF TypeInv

(* from_store's answer is the newest snapshot, which the device has now seen. *)
LEMMA FromStoreStep ==
    ASSUME TypeInv, NEW d \in Device, NEW s \in States, NEW f \in Job, FromStore(d, s, f),
           f.listed \cup f.merged \subseteq history, s \notin {"put", "verify", "prune"},
           UNCHANGED <<remote, content, pending, history>>, overlapped' \in BOOLEAN
    PROVE  /\ TypeInv'
           /\ pc'[d] = s
           /\ job'[d] = [f EXCEPT !.snap = Latest(snaps)]
           /\ \A g \in Device \ {d} : pc'[g] = pc[g] /\ job'[g] = job[g]
  <1> DEFINE l == Latest(snaps)
             j == [f EXCEPT !.snap = l]
  <1>1. /\ l.gen \in Nat /\ l.manifest \in SUBSET Entry /\ l.manifest \subseteq history
        /\ l \in [gen : Nat, manifest : SUBSET Entry]
    <2>1. /\ l.gen \in Nat /\ l.manifest \in SUBSET Entry /\ l.manifest \subseteq history
          /\ l \in snaps \/ l = NoSnap
      BY LatestTyped DEF TypeInv
    <2>2. l \in [gen : Nat, manifest : SUBSET Entry]
      BY <2>1 DEF TypeInv, TypeOK, NoSnap
    <2> QED
      BY <2>1, <2>2
  <1> HIDE DEF l
  <1>2. /\ j \in Job /\ j.snap = l /\ j.listed = f.listed /\ j.merged = f.merged
    BY <1>1 DEF Job
  <1>3. Set(d, s, j) /\ seen' = [seen EXCEPT ![d] = IF l.gen > @ THEN l.gen ELSE @]
    BY DEF FromStore, l
  <1> HIDE DEF j
  <1>4. pending' \in [Device -> SUBSET [path : Path, hash : Content]]
    BY DEF TypeInv, Volatile
  <1>5. /\ Volatile' /\ pc'[d] = s /\ job'[d] = j
        /\ \A g \in Device \ {d} : pc'[g] = pc[g] /\ job'[g] = job[g]
    <2>1. j.snap.manifest \cup j.listed \cup j.merged \subseteq history'
      BY <1>1, <1>2
    <2> QED
      BY <1>2, <1>3, <1>4, <2>1, SetStep DEF TypeInv
  <1>6. TypeOK'
    <2>1. seen' \in [Device -> Nat]
      BY <1>1, <1>3 DEF TypeInv, TypeOK
    <2> QED
      BY <2>1 DEF TypeInv, TypeOK, remote, content
  <1>7. Clocks' /\ Generations' /\ Latest(snaps)' = l
    BY Unmoved DEF remote, l
  <1>8. Newest'
    <2>1. seen[d] \in Nat /\ seen[d] <= l.gen
      BY DEF TypeInv, TypeOK, Newest, NoFalseRollback, l
    <2>2. seen'[d] = IF l.gen > seen[d] THEN l.gen ELSE seen[d]
      BY <1>3 DEF TypeInv, TypeOK
    <2>3. seen'[d] <= l.gen /\ l.gen <= l.gen
      BY <1>1, <2>1, <2>2
    <2>4. \A g \in Device \ {d} : seen'[g] = seen[g]
      BY <1>3 DEF TypeInv, TypeOK
    <2> QED
      BY <1>2, <1>5, <1>6, <1>7, <2>3, <2>4, NewestStep DEF l
  <1> QED
    BY <1>5, <1>6, <1>7, <1>8 DEF TypeInv, j, l

(* Every step of a pass and a compaction keeps the types. *)
LEMMA TypePass ==
    ASSUME TypeInv, NEW d \in Device, Pass(d)
    PROVE  TypeInv'
  <1> DEFINE J == job[d]
  <1>1. /\ J \in Job /\ J.listed \cup J.merged \subseteq history
        /\ J.snap.manifest \subseteq history
    BY DEF TypeInv, Volatile
  <1>2. pending \in [Device -> SUBSET [path : Path, hash : Content]] /\ expired \subseteq objects
        /\ objects \subseteq Path \X Content /\ overlapped \in BOOLEAN
    BY Zenon DEF TypeInv, Volatile, TypeOK
  <1>3. log \subseteq history /\ log \in SUBSET Entry
    BY DEF TypeInv, TypeOK
  <1>4. CASE StartPass(d)
    <2> DEFINE f == [NoJob EXCEPT !.oldLog = log, !.oldGen = {s.gen : s \in snaps},
                                  !.oldObjects = objects \ InFlight]
    <2>1. {s.gen : s \in snaps} \in SUBSET Nat
      BY DEF TypeInv, TypeOK
    <2>2. f \in Job /\ f.listed = {} /\ f.merged = {}
      BY <1>2, <1>3, <2>1, NoJobTyped DEF Job
    <2>3. FromStore(d, "snapshot", f)
      BY <1>4 DEF StartPass
    <2>4. UNCHANGED <<remote, content, pending, history>> /\ overlapped' \in BOOLEAN
      BY <1>2, <1>4 DEF StartPass
    <2> HIDE DEF f
    <2> QED
      BY <2>2, <2>3, <2>4, FromStoreStep DEF States
  <1>5. CASE StartCompact(d)
    <2>1. FromStore(d, "compact-snapshot", J)
      BY <1>5 DEF StartCompact
    <2>2. UNCHANGED <<remote, content, pending, history>> /\ overlapped' \in BOOLEAN
      BY <1>2, <1>5 DEF StartCompact
    <2> QED
      BY <1>1, <2>1, <2>2, FromStoreStep DEF States
  <1>6. ASSUME UNCHANGED <<remote, seen, history, overlapped, pending>>,
               expired' \subseteq objects', objects' \subseteq objects,
               NEW s \in States, NEW j \in Job, Set(d, s, j), j.snap \in {J.snap, NoSnap},
               j.listed \cup j.merged \subseteq history,
               s = "put" => j.snap.gen < j.gen,
               s \in {"verify", "prune"} => j.snap.gen < Latest(snaps).gen
        PROVE  TypeInv'
    BY <1>2, <1>6, QuietStep
  <1>7. /\ NoJob \in Job /\ NoJob.snap = NoSnap /\ NoJob.listed \cup NoJob.merged \subseteq history
    BY NoJobTyped
  <1>8. CASE ReadDeltas(d)
    <2> DEFINE m == Merged(J.snap.manifest \cup log)
               j == [J EXCEPT !.listed = log, !.merged = m]
    <2>1. m \subseteq history /\ m \in SUBSET Entry
      BY <1>1, <1>3 DEF Merged, TypeInv, TypeOK
    <2> HIDE DEF m
    <2>2. j \in Job /\ j.snap = J.snap /\ j.listed = log /\ j.merged = m
      BY <1>1, <1>3, <2>1 DEF Job
    <2>3. UNCHANGED <<remote, content, seen, history, overlapped, pending>>
      BY <1>8 DEF ReadDeltas
    <2>4. \E s \in {"read", "compact-read"} : Set(d, s, j)
      BY <1>8 DEF ReadDeltas, m
    <2> HIDE DEF j
    <2> QED
      BY <1>2, <1>3, <1>6, <2>1, <2>2, <2>3, <2>4 DEF States, content
  <1>9. CASE EndPass(d) \/ EndCompact(d)
    <2>1. Set(d, "idle", NoJob) /\ UNCHANGED <<remote, content, seen, pending, history, overlapped>>
      BY <1>9 DEF EndPass, EndCompact
    <2> QED
      BY <1>2, <1>6, <1>7, <2>1 DEF States, content
  <1>10. CASE PickGeneration(d)
    <2> DEFINE n == (IF snaps = {} THEN seen[d] ELSE Latest(snaps).gen) + 1
               j == [J EXCEPT !.gen = n]
    <2>1. /\ Latest(snaps).gen \in Nat /\ seen[d] \in Nat /\ seen[d] <= Latest(snaps).gen
          /\ J.snap.gen <= Latest(snaps).gen /\ J.snap.gen \in Nat
          /\ snaps = {} => Latest(snaps).gen = 0
      BY <1>1, LatestTyped, JobFields DEF TypeInv, TypeOK, Newest, NoFalseRollback, NoSnap
    <2>2. n \in Nat /\ J.snap.gen < n
      BY <2>1
    <2> HIDE DEF n
    <2>3. j \in Job /\ j.snap = J.snap /\ j.listed = J.listed /\ j.merged = J.merged /\ j.gen = n
      BY <1>1, <2>2 DEF Job
    <2>4. Set(d, "put", j) /\ UNCHANGED <<remote, content, seen, pending, history, overlapped>>
      BY <1>10 DEF PickGeneration, n
    <2> HIDE DEF j
    <2> QED
      BY <1>1, <1>2, <1>6, <2>2, <2>3, <2>4 DEF States, content
  <1>11. CASE ReadReferences(d)
    <2> DEFINE j == [J EXCEPT !.listed = log]
    <2>1. j \in Job /\ j.snap = J.snap /\ j.listed = log /\ j.merged = J.merged
      BY <1>1, <1>3 DEF Job
    <2>2. Set(d, "gc-list", j) /\ UNCHANGED <<remote, content, seen, pending, history, overlapped>>
      BY <1>11 DEF ReadReferences
    <2> HIDE DEF j
    <2> QED
      BY <1>1, <1>2, <1>3, <1>6, <2>1, <2>2 DEF States, content
  <1>12. CASE ListGarbage(d)
    <2> DEFINE g == expired \ {<<e.path, e.hash>> : e \in J.merged \cup J.listed}
               j == [J EXCEPT !.doomed = g]
    <2>1. g \in SUBSET (Path \X Content)
      BY <1>2
    <2>2. Set(d, "gc", j) /\ UNCHANGED <<remote, content, seen, pending, history, overlapped>>
      BY <1>12 DEF ListGarbage
    <2> HIDE DEF g
    <2>3. j \in Job /\ j.snap = J.snap /\ j.listed = J.listed /\ j.merged = J.merged
      BY <1>1, <2>1 DEF Job
    <2> HIDE DEF j
    <2> QED
      BY <1>1, <1>2, <1>6, <2>2, <2>3 DEF States, content
  <1>13. CASE DeleteGarbage(d)
    <2>1. PICK o \in J.doomed :
             /\ objects' = objects \ {o} /\ expired' = expired \ {o}
             /\ Set(d, "gc", [J EXCEPT !.doomed = @ \ {o}])
      BY <1>13 DEF DeleteGarbage
    <2> DEFINE j == [J EXCEPT !.doomed = @ \ {o}]
    <2>2. j \in Job /\ j.snap = J.snap /\ j.listed = J.listed /\ j.merged = J.merged
      BY <1>1 DEF Job
    <2>3. UNCHANGED <<remote, seen, pending, history, overlapped>>
      BY <1>13 DEF DeleteGarbage
    <2>4. Set(d, "gc", j)
      BY <2>1
    <2> HIDE DEF j
    <2> QED
      BY <1>1, <1>2, <1>6, <2>1, <2>2, <2>3, <2>4 DEF States

  <1>14. CASE PutSnapshot(d)
    <2> DEFINE g == J.gen
    <2>1. PICK t : t = [gen |-> g, manifest |-> J.merged]
      OBVIOUS
    <2>2. /\ pc[d] = "put" /\ snaps' = {s \in snaps : s.gen # g} \cup {t}
          /\ agedGen' = agedGen \ {g} /\ seen' = [seen EXCEPT ![d] = IF g > @ THEN g ELSE @]
          /\ Set(d, "verify", J)
          /\ UNCHANGED <<log, agedLog, content, pending, history, overlapped>>
      BY <1>14, <2>1 DEF PutSnapshot
    <2>3. /\ J.snap.gen \in Nat /\ J.snap.gen < g /\ g \in Nat \ {0}
          /\ t.gen = g /\ t.manifest = J.merged
          /\ t \in [gen : Nat \ {0}, manifest : SUBSET history]
      <3>1. g \in Nat /\ J.snap.gen \in Nat /\ J.snap.gen < g
        BY <1>1, <2>2, JobFields DEF TypeInv, Newest
      <3>2. g \in Nat \ {0}
        BY <3>1
      <3> QED
        BY <1>1, <2>1, <3>1, <3>2
    <2>4. seen' \in [Device -> Nat] /\ seen'[d] = (IF g > seen[d] THEN g ELSE seen[d])
          /\ \A h \in Device \ {d} : seen'[h] = seen[h]
      BY <2>2, <2>3 DEF TypeInv, TypeOK
    <2>5. TypeOK'
      BY <2>2, <2>3, <2>4 DEF TypeInv, TypeOK, content
    <2>6. Clocks'
      BY <2>2 DEF TypeInv, Clocks
    <2>7. Generations'
      <3>1. PICK n \in Nat : \A s \in snaps : s.gen <= n
        BY DEF TypeInv, Generations
      <3>2. \A s, u \in snaps' : s.gen = u.gen => s = u
        BY <2>2, <2>3 DEF TypeInv, Generations
      <3>3. \A s \in snaps' : s.gen \in Nat /\ (s \in snaps \/ s.gen = g)
        BY <2>2, <2>3 DEF TypeInv, TypeOK
      <3>4. \A s \in snaps' : s.gen <= n + g
        BY <2>3, <3>1, <3>3
      <3>5. n + g \in Nat
        BY <2>3
      <3> QED
        BY <3>2, <3>4, <3>5 DEF Generations
    <2>8. Latest(snaps)'.gen \in Nat /\ g <= Latest(snaps)'.gen /\ Latest(snaps).gen <= Latest(snaps)'.gen
      <3>1. /\ Latest(snaps)'.gen \in Nat
            /\ \A s \in snaps' : s.gen \in Nat \ {0} /\ s.gen <= Latest(snaps)'.gen
        BY <2>5, <2>7, LatestNext
      <3>2. /\ snaps # {} => Latest(snaps) \in snaps
            /\ snaps = {} => Latest(snaps).gen = 0
        BY LatestTyped DEF TypeInv, NoSnap
      <3>3. t \in snaps' /\ \A s \in snaps : s \in snaps' \/ s.gen = g
        BY <2>2
      <3>4. g <= Latest(snaps)'.gen
        BY <2>3, <3>1, <3>3
      <3>5. Latest(snaps).gen <= Latest(snaps)'.gen
        BY <3>1, <3>2, <3>3, <3>4
      <3> QED
        BY <3>1, <3>4, <3>5
    <2>9. /\ Volatile' /\ pc'[d] = "verify" /\ job'[d] = J
          /\ \A h \in Device \ {d} : pc'[h] = pc[h] /\ job'[h] = job[h]
      BY <1>1, <1>2, <2>2, SetStep DEF TypeInv, States
    <2>10. Newest'
      <3>1. seen[d] \in Nat /\ seen[d] <= Latest(snaps).gen /\ Latest(snaps).gen \in Nat
        BY LatestTyped DEF TypeInv, TypeOK, Newest, NoFalseRollback
      <3>2. seen'[d] <= Latest(snaps)'.gen
        BY <2>4, <2>8, <3>1
      <3>3. J.snap.gen < Latest(snaps)'.gen /\ J.snap.gen <= Latest(snaps)'.gen
        BY <2>3, <2>8
      <3> QED
        BY <2>4, <2>5, <2>7, <2>8, <2>9, <3>2, <3>3, NewestStep
    <2> QED
      BY <2>5, <2>6, <2>7, <2>9, <2>10 DEF TypeInv
  <1>15. CASE Verify(d)
    <2> DEFINE l == Latest(snaps)
    <2>1. /\ l.gen \in Nat /\ l.gen >= seen[d] /\ seen' = [seen EXCEPT ![d] = l.gen]
          /\ pc[d] = "verify"
          /\ UNCHANGED <<remote, content, pending, history, overlapped>>
      BY <1>15, LatestTyped DEF Verify, TypeInv
    <2>2. \E s \in {"prune", "idle"}, j \in {J, NoJob} :
             Set(d, s, j) /\ (s = "prune" => j = J)
      BY <1>15 DEF Verify
    <2>3. PICK s \in {"prune", "idle"}, j \in {J, NoJob} : Set(d, s, j) /\ (s = "prune" => j = J)
      BY <2>2
    <2>4. TypeOK' /\ Clocks' /\ Generations' /\ Latest(snaps)' = l
      <3>1. seen' \in [Device -> Nat]
        BY <2>1 DEF TypeInv, TypeOK
      <3>2. TypeOK'
        BY <2>1, <3>1 DEF TypeInv, TypeOK, remote, content
      <3> QED
        BY <2>1, <3>2, Unmoved DEF remote
    <2>5. /\ Volatile' /\ pc'[d] = s /\ job'[d] = j
          /\ \A h \in Device \ {d} : pc'[h] = pc[h] /\ job'[h] = job[h]
      <3>1. j \in Job /\ j.snap.manifest \cup j.listed \cup j.merged \subseteq history'
        BY <1>1, <2>1, <2>3, NoJobTyped DEF NoSnap
      <3> QED
        BY <1>2, <2>1, <2>3, <3>1, SetStep DEF TypeInv, States
    <2>6. Newest'
      <3>1. /\ J.snap.gen < l.gen /\ NoJob.snap.gen = 0 /\ J.snap.gen <= l.gen
            /\ J.snap.gen \in Nat
        BY <1>1, <2>1, NoJobTyped, JobFields DEF TypeInv, Newest, NoSnap
      <3>2. /\ seen'[d] = l.gen /\ \A h \in Device \ {d} : seen'[h] = seen[h]
        BY <2>1 DEF TypeInv, TypeOK
      <3>3. j.snap.gen <= l.gen /\ (s = "prune" => j.snap.gen < l.gen)
        BY <2>1, <2>3, <3>1
      <3> HIDE DEF l
      <3>4. l.gen <= l.gen
        BY <2>1
      <3> QED
        BY <2>1, <2>3, <2>4, <2>5, <3>2, <3>3, <3>4, NewestStep DEF l
    <2> QED
      BY <2>4, <2>5, <2>6 DEF TypeInv
  <1>16. CASE PruneDelta(d)
    <2>1. PICK e \in J.listed \cap agedLog :
             /\ log' = log \ {e} /\ agedLog' = agedLog \ {e}
             /\ Set(d, "prune", [J EXCEPT !.listed = @ \ {e}])
      BY <1>16 DEF PruneDelta
    <2> DEFINE j == [J EXCEPT !.listed = @ \ {e}]
    <2>2. j \in Job /\ j.snap = J.snap /\ j.listed = J.listed \ {e} /\ j.merged = J.merged
      BY <1>1 DEF Job
    <2>3. pc[d] = "prune" /\ UNCHANGED <<snaps, agedGen, content, seen, pending, history, overlapped>>
      BY <1>16 DEF PruneDelta
    <2>4. Set(d, "prune", j)
      BY <2>1
    <2> HIDE DEF j
    <2>5. TypeOK'
      BY <2>1, <2>3 DEF TypeInv, TypeOK, content
    <2>6. Clocks' /\ Generations' /\ Latest(snaps)' = Latest(snaps)
      BY <2>3, Unmoved
    <2>7. /\ Volatile' /\ pc'[d] = "prune" /\ job'[d] = j
          /\ \A h \in Device \ {d} : pc'[h] = pc[h] /\ job'[h] = job[h]
      <3>1. j.snap.manifest \cup j.listed \cup j.merged \subseteq history'
        BY <1>1, <2>2, <2>3
      <3> QED
        BY <1>2, <2>2, <2>3, <2>4, <3>1, SetStep DEF TypeInv, States
    <2>8. Newest'
      BY <2>2, <2>3, <2>6, <2>7 DEF TypeInv, Newest, NoFalseRollback
    <2> QED
      BY <2>5, <2>6, <2>7, <2>8 DEF TypeInv
  <1>17. CASE PruneSnapshot(d)
    <2> DEFINE g == J.snap.gen
               l == Latest(snaps)
    <2>1. /\ pc[d] = "prune" /\ Set(d, "gc-read", J)
          /\ snaps' = {s \in snaps : ~(s.gen = g /\ g \in agedGen)}
          /\ agedGen' = agedGen \ {g}
          /\ UNCHANGED <<log, agedLog, content, seen, pending, history, overlapped>>
      BY <1>17 DEF PruneSnapshot
    <2>2. TypeOK'
      <3>1. agedGen' \subseteq {s.gen : s \in snaps'}
        BY <2>1 DEF TypeInv, TypeOK
      <3> QED
        BY <2>1, <3>1 DEF TypeInv, TypeOK, content
    <2>3. Clocks' /\ Generations'
      BY <2>1 DEF TypeInv, Clocks, Generations
    <2>4. l.gen \in Nat /\ Latest(snaps)'.gen = l.gen
      <3>1. /\ l.gen \in Nat /\ l \in snaps /\ g < l.gen /\ g \in Nat
            /\ \A s \in snaps : s.gen \in Nat /\ s.gen <= l.gen
        <4>1. /\ l.gen \in Nat
              /\ snaps # {} => l \in snaps
              /\ snaps = {} => l.gen = 0
              /\ \A s \in snaps : s.gen \in Nat \ {0} /\ s.gen <= l.gen
          BY LatestTyped DEF TypeInv, NoSnap
        <4>2. g < l.gen /\ g \in Nat
          BY <1>1, <2>1, JobFields DEF TypeInv, Newest
        <4> HIDE DEF l, g
        <4>3. l.gen # 0
          BY <4>1, <4>2
        <4>4. \A s \in snaps : s.gen \in Nat /\ s.gen <= l.gen
          BY <4>1
        <4> QED
          BY <4>1, <4>2, <4>3, <4>4
      <3>2. l \in snaps'
        BY <2>1, <3>1
      <3>3. /\ Latest(snaps)'.gen \in Nat /\ Latest(snaps)' \in snaps'
            /\ \A s \in snaps' : s.gen <= Latest(snaps)'.gen
        BY <2>2, <2>3, <3>2, LatestNext
      <3>4. l.gen <= Latest(snaps)'.gen /\ Latest(snaps)'.gen <= l.gen
        BY <2>1, <3>1, <3>2, <3>3
      <3> QED
        BY <3>1, <3>3, <3>4
    <2>5. /\ Volatile' /\ pc'[d] = "gc-read" /\ job'[d] = J
          /\ \A h \in Device \ {d} : pc'[h] = pc[h] /\ job'[h] = job[h]
      BY <1>1, <1>2, <2>1, SetStep DEF TypeInv, States
    <2>6. Newest'
      BY <2>1, <2>4, <2>5 DEF TypeInv, Newest, NoFalseRollback
    <2> QED
      BY <2>2, <2>3, <2>5, <2>6 DEF TypeInv
  <1> QED
    BY <1>4, <1>5, <1>8, <1>9, <1>10, <1>11, <1>12, <1>13, <1>14, <1>15, <1>16, <1>17 DEF Pass

(* The invariant about types and generations is inductive. *)
LEMMA TypeInvInit == Init => TypeInv
  <1> SUFFICES ASSUME Init PROVE TypeInv
    OBVIOUS
  <1>1. Latest(snaps) = NoSnap
    BY DEF Init, Latest
  <1>2. TypeOK
    BY DEF Init, TypeOK
  <1>3. Volatile
    <2>1. /\ NoJob \in Job /\ NoJob.snap.manifest \cup NoJob.listed \cup NoJob.merged = {}
      BY NoJobTyped DEF NoSnap
    <2> QED
      BY <2>1 DEF Init, Volatile, States
  <1>4. Clocks /\ Generations
    BY DEF Init, Clocks, Generations
  <1>5. Newest
    BY <1>1, NoJobTyped DEF Init, Newest, NoFalseRollback, NoSnap
  <1> QED
    BY <1>2, <1>3, <1>4, <1>5 DEF TypeInv

LEMMA TypeInvNext ==
    ASSUME TypeInv, [Next]_vars
    PROVE  TypeInv'
  <1>1. ASSUME NEW d \in Device, Abort(d) PROVE TypeInv'
    <2>1. /\ Set(d, "idle", NoJob) /\ pending' = [pending EXCEPT ![d] = {}]
          /\ UNCHANGED <<remote, content, seen, history, overlapped>>
      BY <1>1 DEF Abort
    <2>2. pending' \in [Device -> SUBSET [path : Path, hash : Content]]
      BY <2>1 DEF TypeInv, Volatile
    <2>3. expired' \subseteq objects' /\ objects' \subseteq objects
      BY <2>1 DEF TypeInv, TypeOK, content
    <2> QED
      BY <2>1, <2>2, <2>3, QuietStep, NoJobTyped DEF States
  <1>2. CASE UNCHANGED vars
    <2>1. UNCHANGED <<log, agedLog, snaps, agedGen, objects, expired, seen, pc, job, pending, history, overlapped>>
      BY <1>2 DEF vars, remote, content
    <2> QED
      BY <2>1 DEF TypeInv, TypeOK, Volatile, Clocks, Generations, Newest, NoFalseRollback, Latest, NoSnap
  <1> QED
    BY <1>1, <1>2, TypeWrite, TypePass, TypeTime DEF Next

(* The remote log is well formed, and no honest device is ever refused by
   from_store's rollback check: whatever compactions overlap, fail or die. *)
THEOREM NobodyIsRefused == Spec => []Consistent
  <1>1. TypeInv => Consistent
    BY DEF TypeInv, Newest, Consistent
  <1> QED
    BY <1>1, TypeInvInit, TypeInvNext, PTL DEF Spec

-----------------------------------------------------------------------------
(* The newest snapshot and the log say what the history says. *)

(* A step of d that leaves log, snapshots and history alone. *)
LEMMA LogQuiet ==
    ASSUME TypeInv, LogInv, ~overlapped, NEW d \in Device, UNCHANGED <<log, snaps, history>>,
           \A g \in Device \ {d} : pc'[g] = pc[g] /\ job'[g] = job[g],
           Compacting(d)' => Compacting(d) \/ \A g \in Device \ {d} : ~Compacting(g),
           OnNewest(d)', Folded(d)'
    PROVE  LogInv'
  <1>1. Latest(snaps)' = Latest(snaps) /\ Merged(history)' = Merged(history)
    BY Unmoved DEF Merged
  <1>2. Alone'
    BY DEF Alone, LogInv, Compacting
  <1>3. Complete'
    BY <1>1 DEF LogInv, Complete
  <1>4. ASSUME NEW g \in Device PROVE OnNewest(g)' /\ Folded(g)'
    <2>1. CASE g = d
      BY <2>1
    <2>2. CASE g # d
      BY <1>1, <2>2 DEF LogInv, OnNewest, Folded
    <2> QED
      BY <2>1, <2>2
  <1> QED
    BY <1>2, <1>3, <1>4 DEF LogInv

(* ... and one that changes no state and no manifest of a job. *)
LEMMA LogSame ==
    ASSUME TypeInv, LogInv, UNCHANGED <<log, snaps, history, pc, overlapped>>,
           \A g \in Device : /\ job'[g].snap = job[g].snap /\ job'[g].gen = job[g].gen
                             /\ job'[g].listed = job[g].listed /\ job'[g].merged = job[g].merged
    PROVE  LogInv'
  <1>1. Latest(snaps)' = Latest(snaps) /\ Merged(history)' = Merged(history)
    BY Unmoved DEF Merged
  <1>2. Alone => Alone'
    BY DEF Alone, Compacting
  <1>3. Complete => Complete'
    BY <1>1 DEF Complete
  <1>4. ASSUME NEW g \in Device, OnNewest(g), Folded(g) PROVE OnNewest(g)' /\ Folded(g)'
    BY <1>1, <1>4 DEF OnNewest, Folded
  <1> QED
    BY <1>2, <1>3, <1>4 DEF LogInv

(* An appended entry is in the log, and adds no other winner. *)
LEMMA LogAppend ==
    ASSUME TypeInv, LogInv, NEW e \in Entry, e \notin history,
           log' = log \cup {e}, history' = history \cup {e},
           UNCHANGED <<snaps, pc, job, overlapped>>
    PROVE  LogInv'
  <1>1. Merged(history)' \subseteq Merged(history) \cup {e}
    BY DEF Merged
  <1>2. Latest(snaps)' = Latest(snaps)
    BY DEF Latest, NoSnap
  <1>3. Alone => Alone'
    BY DEF Alone, Compacting
  <1>4. Complete => Complete'
    BY <1>1, <1>2 DEF Complete
  <1>5. ASSUME NEW g \in Device, OnNewest(g), Folded(g) PROVE OnNewest(g)' /\ Folded(g)'
    <2>1. e \notin job[g].listed
      BY DEF TypeInv, Volatile
    <2> QED
      BY <1>1, <1>2, <1>5, <2>1 DEF OnNewest, Folded
  <1> QED
    BY <1>3, <1>4, <1>5 DEF LogInv

(* While d compacts alone, a step of it that keeps all of d's own facts and
   the whole history's winners keeps the invariant. *)
LEMMA LogAlone ==
    ASSUME LogInv, ~overlapped, NEW d \in Device, Compacting(d),
           \A g \in Device \ {d} : pc'[g] = pc[g] /\ job'[g] = job[g],
           Complete', OnNewest(d)', Folded(d)'
    PROVE  LogInv'
  <1>1. \A g \in Device \ {d} : ~Compacting(g)
    BY DEF LogInv, Alone
  <1>2. \A g \in Device \ {d} : pc'[g] \in {"idle", "snapshot", "read"}
    BY <1>1 DEF Compacting
  <1>3. Alone'
    BY <1>2 DEF Alone, Compacting
  <1>4. ASSUME NEW g \in Device PROVE OnNewest(g)' /\ Folded(g)'
    <2>1. CASE g = d
      BY <2>1
    <2>2. CASE g # d
      BY <1>2, <2>2 DEF OnNewest, Folded
    <2> QED
      BY <2>1, <2>2
  <1> QED
    BY <1>3, <1>4 DEF LogInv

(* The state and the job that Set gives. *)
LEMMA SetIs ==
    ASSUME TypeInv, NEW d \in Device, NEW s, NEW j, Set(d, s, j)
    PROVE  /\ pc'[d] = s /\ job'[d] = j
           /\ \A g \in Device \ {d} : pc'[g] = pc[g] /\ job'[g] = job[g]
  BY DEF Set, TypeInv, Volatile

(* A pass or a compaction keeps it. *)
LEMMA LogPass ==
    ASSUME TypeInv, TypeInv', LogInv, NEW d \in Device, Pass(d), ~overlapped'
    PROVE  LogInv'
  <1> DEFINE J == job[d]
             Others == \A g \in Device \ {d} : pc'[g] = pc[g] /\ job'[g] = job[g]
  <1>1. overlapped \in BOOLEAN /\ J \in Job
    BY Zenon DEF TypeInv, Volatile
  <1>2. ~overlapped
    BY DEF Pass, StartPass, ReadDeltas, EndPass, StartCompact, PickGeneration, PutSnapshot, Verify,
           PruneDelta, PruneSnapshot, ReadReferences, ListGarbage, DeleteGarbage, EndCompact
  <1>3. Alone /\ Complete /\ OnNewest(d) /\ Folded(d)
    BY <1>2 DEF LogInv
  <1>4. Latest(snaps).manifest \subseteq history /\ log \subseteq history
    BY LatestTyped DEF TypeInv, TypeOK
  <1>5. CASE StartPass(d) \/ EndPass(d) \/ EndCompact(d)
    <2>1. \E s \in {"snapshot", "idle"} : \E j : Set(d, s, j)
      BY <1>5 DEF StartPass, EndPass, EndCompact, FromStore
    <2>2. pc'[d] \in {"snapshot", "idle"} /\ Others
      BY <2>1, SetIs
    <2>3. ~Compacting(d)' /\ OnNewest(d)' /\ Folded(d)'
      BY <2>2 DEF Compacting, OnNewest, Folded
    <2>4. UNCHANGED <<log, snaps, history>>
      BY <1>5 DEF StartPass, EndPass, EndCompact, remote
    <2> QED
      BY <1>2, <2>2, <2>3, <2>4, LogQuiet
  <1>6. CASE StartCompact(d)
    <2>1. /\ FromStore(d, "compact-snapshot", J) /\ UNCHANGED <<log, snaps, history>>
          /\ \A g \in Device \ {d} : ~Compacting(g)
      BY <1>6 DEF StartCompact, remote
    <2>2. /\ pc'[d] = "compact-snapshot" /\ job'[d] = [J EXCEPT !.snap = Latest(snaps)] /\ Others
      BY <2>1, SetIs DEF FromStore
    <2>3. job'[d].snap = Latest(snaps)
      BY <1>1, <2>2 DEF Job
    <2>4. OnNewest(d)' /\ Folded(d)'
      <3>1. Latest(snaps)' = Latest(snaps)
        BY <2>1, Unmoved
      <3> QED
        BY <2>2, <2>3, <3>1 DEF OnNewest, Folded
    <2> QED
      BY <1>2, <2>1, <2>2, <2>4, LogQuiet
  <1>7. CASE ReadDeltas(d)
    <2> DEFINE es == J.snap.manifest \cup log
               s == IF pc[d] = "snapshot" THEN "read" ELSE "compact-read"
    <2>1. /\ pc[d] \in {"snapshot", "compact-snapshot"} /\ UNCHANGED <<log, snaps, history>>
          /\ Set(d, s, [J EXCEPT !.listed = log, !.merged = Merged(es)])
      BY <1>7 DEF ReadDeltas, remote
    <2>2. /\ pc'[d] = s /\ job'[d] = [J EXCEPT !.listed = log, !.merged = Merged(es)] /\ Others
      BY <2>1, SetIs
    <2>3. job'[d].snap = J.snap /\ job'[d].listed = log /\ job'[d].merged = Merged(es)
      <3> HIDE DEF es
      <3> QED BY <1>1, <2>2 DEF Job
    <2>4. Latest(snaps)' = Latest(snaps) /\ Merged(history)' = Merged(history)
      BY <2>1, Unmoved DEF Merged
    <2>5. CASE pc[d] = "snapshot"
      <3>1. pc'[d] = "read"
        BY <2>2, <2>5
      <3>2. ~Compacting(d)' /\ OnNewest(d)' /\ Folded(d)'
        BY <3>1 DEF Compacting, OnNewest, Folded
      <3> QED
        BY <1>2, <2>1, <2>2, <3>2, LogQuiet
    <2>6. CASE pc[d] = "compact-snapshot"
      <3>1. pc'[d] = "compact-read" /\ J.snap = Latest(snaps)
        BY <1>3, <2>2, <2>6 DEF OnNewest
      <3>2. es \subseteq history /\ Merged(history) \subseteq es
        BY <1>3, <1>4, <3>1 DEF Complete
      <3>3. Merged(history) \subseteq Merged(es)
        BY <3>2, MergedParts
      <3>4. OnNewest(d)'
        BY <2>3, <2>4, <3>1 DEF OnNewest
      <3>5. Folded(d)'
        <4> HIDE DEF es
        <4> QED BY <2>3, <2>4, <3>1, <3>3 DEF Folded
      <3>6. Compacting(d)
        BY <2>6 DEF Compacting
      <3> QED
        BY <1>2, <2>1, <2>2, <3>4, <3>5, <3>6, LogQuiet
    <2> QED
      BY <2>1, <2>5, <2>6
  <1>8. CASE PickGeneration(d)
    <2> DEFINE n == (IF snaps = {} THEN seen[d] ELSE Latest(snaps).gen) + 1
    <2>1. /\ pc[d] = "compact-read" /\ Set(d, "put", [J EXCEPT !.gen = n])
          /\ UNCHANGED <<log, snaps, history>>
      BY <1>8 DEF PickGeneration, remote
    <2>2. n > Latest(snaps).gen
      <3>1. /\ Latest(snaps).gen \in Nat /\ seen[d] \in Nat
            /\ snaps = {} => Latest(snaps).gen = 0
        BY LatestTyped DEF TypeInv, TypeOK, NoSnap
      <3> QED
        BY <3>1
    <2> HIDE DEF n
    <2>3. pc'[d] = "put" /\ job'[d] = [J EXCEPT !.gen = n] /\ Others
      BY <2>1, SetIs
    <2>4. /\ job'[d].snap = J.snap /\ job'[d].gen = n
          /\ job'[d].listed = J.listed /\ job'[d].merged = J.merged
      BY <1>1, <2>3 DEF Job
    <2>5. Latest(snaps)' = Latest(snaps) /\ Merged(history)' = Merged(history)
      BY <2>1, Unmoved DEF Merged
    <2>6. OnNewest(d)'
      BY <1>3, <2>1, <2>2, <2>3, <2>4, <2>5 DEF OnNewest
    <2>7. Folded(d)' /\ Compacting(d)
      BY <1>3, <2>1, <2>3, <2>4, <2>5 DEF Folded, Compacting
    <2> QED
      BY <1>2, <2>1, <2>3, <2>6, <2>7, LogQuiet
  <1>9. CASE PutSnapshot(d)
    <2> DEFINE t == [gen |-> J.gen, manifest |-> J.merged]
    <2>1. /\ pc[d] = "put" /\ snaps' = {s \in snaps : s.gen # J.gen} \cup {t}
          /\ Set(d, "verify", J) /\ UNCHANGED <<log, history>>
      BY <1>9 DEF PutSnapshot
    <2>2. pc'[d] = "verify" /\ job'[d] = J /\ Others
      BY <2>1, SetIs
    <2>3. Latest(snaps)' = t
      <3>1. PICK n \in Nat : \A s \in snaps' : s.gen <= n
        BY DEF TypeInv, Generations
      <3>2. snaps' \in SUBSET Snap /\ \A s, u \in snaps' : s.gen = u.gen => s = u
        BY DEF TypeInv, TypeOK, Generations, Snap
      <3>3. J.gen > Latest(snaps).gen /\ J.gen \in Nat /\ Latest(snaps).gen \in Nat
            /\ \A s \in snaps : s.gen \in Nat /\ s.gen <= Latest(snaps).gen
        BY <1>1, <1>3, <2>1, JobFields, LatestTyped DEF OnNewest, TypeInv
      <3>4. \A s \in snaps : s.gen <= J.gen
        BY <3>3
      <3>5. t \in snaps' /\ t.gen = J.gen /\ J.gen <= J.gen
        BY <2>1, <3>3
      <3>6. \A s \in snaps' : s.gen <= t.gen
        BY <2>1, <3>4, <3>5
      <3> HIDE DEF t
      <3>7. Latest(snaps') = t
        BY <3>1, <3>2, <3>5, <3>6, LatestUnique
      <3> QED
        BY <3>7 DEF Latest, NoSnap
    <2>4. Merged(history)' = Merged(history)
      BY <2>1 DEF Merged
    <2>5. Complete'
      <3>1. t.manifest = J.merged
        OBVIOUS
      <3>2. Merged(history) \subseteq J.merged \cup log
        BY <1>3, <2>1 DEF Folded
      <3> HIDE DEF t
      <3> QED
        BY <2>1, <2>3, <2>4, <3>1, <3>2 DEF Complete
    <2>6. OnNewest(d)'
      BY <2>2 DEF OnNewest
    <2>7. Folded(d)' /\ Compacting(d)
      BY <1>3, <2>1, <2>2, <2>4 DEF Folded, Compacting
    <2> QED
      BY <1>2, <2>2, <2>5, <2>6, <2>7, LogAlone
  <1>10. CASE Verify(d)
    <2>1. /\ pc[d] = "verify" /\ UNCHANGED <<log, snaps, history>>
          /\ \/ Set(d, "prune", J) /\ Latest(snaps).manifest = J.merged
             \/ Set(d, "idle", NoJob)
      BY <1>10 DEF Verify, remote
    <2>2. /\ Others
          /\ \/ pc'[d] = "prune" /\ job'[d] = J /\ Latest(snaps).manifest = J.merged
             \/ pc'[d] = "idle"
      BY <2>1, SetIs
    <2>3. Latest(snaps)' = Latest(snaps) /\ Merged(history)' = Merged(history)
      BY <2>1, Unmoved DEF Merged
    <2>4. OnNewest(d)'
      BY <2>2, <2>3 DEF OnNewest
    <2>5. Folded(d)' /\ Compacting(d)
      BY <1>3, <2>1, <2>2, <2>3 DEF Folded, Compacting
    <2> QED
      BY <1>2, <2>1, <2>2, <2>4, <2>5, LogQuiet
  <1>11. CASE PruneDelta(d)
    <2>1. /\ pc[d] = "prune" /\ UNCHANGED <<snaps, history>>
          /\ \E e \in J.listed \cap agedLog :
                log' = log \ {e} /\ Set(d, "prune", [J EXCEPT !.listed = @ \ {e}])
      BY <1>11 DEF PruneDelta
    <2>2. PICK e \in J.listed :
             log' = log \ {e} /\ Set(d, "prune", [J EXCEPT !.listed = @ \ {e}])
      BY <2>1
    <2>3. pc'[d] = "prune" /\ job'[d] = [J EXCEPT !.listed = @ \ {e}] /\ Others
      BY <2>2, SetIs
    <2>4. job'[d].listed = J.listed \ {e} /\ job'[d].merged = J.merged
      BY <1>1, <2>3 DEF Job
    <2>5. Latest(snaps)' = Latest(snaps) /\ Merged(history)' = Merged(history)
      BY <2>1, Unmoved DEF Merged
    <2>6. /\ Latest(snaps).manifest = J.merged /\ Merged(history) \subseteq J.merged \cup log
          /\ Merged(history) \cap J.listed \subseteq J.merged
      BY <1>3, <2>1 DEF OnNewest, Folded
    <2>7. Merged(history) \subseteq J.merged \cup log'
      BY <2>2, <2>6
    <2>8. Complete' /\ OnNewest(d)'
      BY <2>3, <2>4, <2>5, <2>6, <2>7 DEF Complete, OnNewest
    <2>9. Folded(d)' /\ Compacting(d)
      BY <2>1, <2>3, <2>4, <2>5, <2>6, <2>7 DEF Folded, Compacting
    <2> QED
      BY <1>2, <2>3, <2>8, <2>9, LogAlone
  <1>12. CASE PruneSnapshot(d)
    <2> DEFINE g == J.snap.gen
               l == Latest(snaps)
    <2>1. /\ pc[d] = "prune" /\ Set(d, "gc-read", J)
          /\ snaps' = {s \in snaps : ~(s.gen = g /\ g \in agedGen)}
          /\ UNCHANGED <<log, history>>
      BY <1>12 DEF PruneSnapshot
    <2>2. pc'[d] = "gc-read" /\ job'[d] = J /\ Others
      BY <2>1, SetIs
    <2>3. Latest(snaps)' = l
      <3>1. PICK n \in Nat : \A s \in snaps' : s.gen <= n
        BY DEF TypeInv, Generations
      <3>2. snaps' \in SUBSET Snap /\ \A s, u \in snaps' : s.gen = u.gen => s = u
        BY DEF TypeInv, TypeOK, Generations, Snap
      <3>3. /\ l.gen \in Nat
            /\ snaps # {} => l \in snaps
            /\ snaps = {} => l.gen = 0
            /\ \A s \in snaps : s.gen \in Nat \ {0} /\ s.gen <= l.gen
        BY LatestTyped DEF TypeInv, NoSnap
      <3>4. g < l.gen /\ g \in Nat
        BY <1>1, <2>1, JobFields DEF TypeInv, Newest
      <3> HIDE DEF l, g
      <3>5. l.gen # g /\ l.gen # 0
        BY <3>3, <3>4
      <3>6. l \in snaps'
        BY <2>1, <3>3, <3>5
      <3>7. \A s \in snaps' : s.gen <= l.gen
        BY <2>1, <3>3
      <3>8. Latest(snaps') = l
        BY <3>1, <3>2, <3>6, <3>7, LatestUnique
      <3> QED
        BY <3>8 DEF Latest, NoSnap
    <2>4. Merged(history)' = Merged(history)
      BY <2>1 DEF Merged
    <2>5. Complete' /\ OnNewest(d)'
      BY <1>3, <2>1, <2>2, <2>3, <2>4 DEF Complete, OnNewest
    <2>6. Folded(d)' /\ Compacting(d)
      BY <1>3, <2>1, <2>2, <2>4 DEF Folded, Compacting
    <2> QED
      BY <1>2, <2>2, <2>5, <2>6, LogAlone
  <1>13. ASSUME pc[d] \in {"gc-read", "gc-list", "gc"}, pc'[d] \in {"gc-list", "gc"},
                job'[d].merged = J.merged, Others, UNCHANGED <<log, snaps, history>>
         PROVE  LogInv'
    <2>1. Merged(history)' = Merged(history)
      BY <1>13 DEF Merged
    <2>2. OnNewest(d)' /\ Folded(d)' /\ Compacting(d)
      BY <1>3, <1>13, <2>1 DEF OnNewest, Folded, Compacting
    <2> QED
      BY <1>2, <1>13, <2>2, LogQuiet
  <1>14. CASE ReadReferences(d) \/ ListGarbage(d) \/ DeleteGarbage(d)
    <2>1. /\ pc[d] \in {"gc-read", "gc-list", "gc"} /\ UNCHANGED <<log, snaps, history>>
          /\ \E s \in {"gc-list", "gc"} : \E x :
                Set(d, s, [J EXCEPT !.listed = x]) \/ Set(d, s, [J EXCEPT !.doomed = x])
      BY <1>14 DEF ReadReferences, ListGarbage, DeleteGarbage, remote
    <2>2. PICK s \in {"gc-list", "gc"} : \E x :
             Set(d, s, [J EXCEPT !.listed = x]) \/ Set(d, s, [J EXCEPT !.doomed = x])
      BY <2>1
    <2>3. PICK j : Set(d, s, j) /\ j.merged = J.merged
      <3>1. PICK x : Set(d, s, [J EXCEPT !.listed = x]) \/ Set(d, s, [J EXCEPT !.doomed = x])
        BY <2>2
      <3>2. [J EXCEPT !.listed = x].merged = J.merged /\ [J EXCEPT !.doomed = x].merged = J.merged
        BY <1>1 DEF Job
      <3> QED
        BY <3>1, <3>2
    <2>4. pc'[d] = s /\ job'[d] = j /\ Others
      BY <2>3, SetIs
    <2> QED
      BY <1>13, <2>1, <2>3, <2>4
  <1> QED
    BY <1>5, <1>6, <1>7, <1>8, <1>9, <1>10, <1>11, <1>12, <1>14 DEF Pass

(* Writers, time and aborts keep it. *)
LEMMA LogInvNext ==
    ASSUME TypeInv, TypeInv', LogInv, [Next]_vars
    PROVE  LogInv'
  <1>1. ASSUME NEW d \in Device, Write(d) PROVE LogInv'
    <2>1. CASE \E p \in Path, c \in Content : StoreObject(d, p, c)
      <3>1. PICK p \in Path, c \in Content : StoreObject(d, p, c)
        BY <2>1
      <3>2. UNCHANGED <<log, snaps, history, pc, overlapped>>
        BY <3>1 DEF StoreObject, remote
      <3>3. ASSUME NEW g \in Device
            PROVE  /\ job'[g].snap = job[g].snap /\ job'[g].gen = job[g].gen
                   /\ job'[g].listed = job[g].listed /\ job'[g].merged = job[g].merged
        <4>1. job[g] \in Job /\ job'[g] = [job[g] EXCEPT !.oldObjects = @ \ {<<p, c>>}]
          BY <3>1 DEF StoreObject, TypeInv, Volatile
        <4> QED
          BY <4>1 DEF Job
      <3> QED
        BY <3>2, <3>3, LogSame
    <2>2. CASE LogUpload(d) \/ \E p \in Path : LogTombstone(d, p)
      <3>1. UNCHANGED <<snaps, pc, job, overlapped>>
        BY <2>2 DEF LogUpload, LogTombstone
      <3>2. \E e : log' = log \cup {e} /\ history' = history \cup {e} /\ e.lamport = RemoteLamport(history) + 1
        <4>1. ASSUME NEW p, NEW c, NEW b, NEW over, Append1(d, p, c, b, over)
              PROVE  \E e : /\ log' = log \cup {e} /\ history' = history \cup {e}
                            /\ e.lamport = RemoteLamport(history) + 1
          <5> DEFINE x == [path |-> p, hash |-> c, deleted |-> b, dev |-> d,
                           lamport |-> RemoteLamport(history) + 1, base |-> over]
          <5>1. log' = log \cup {x} /\ history' = history \cup {x}
            BY <4>1 DEF Append1
          <5>2. x.lamport = RemoteLamport(history) + 1
            OBVIOUS
          <5> HIDE DEF x
          <5> QED
            BY <5>1, <5>2
        <4>2. CASE LogUpload(d)
          BY <4>1, <4>2 DEF LogUpload
        <4>3. CASE \E p \in Path : LogTombstone(d, p)
          BY <4>1, <4>3 DEF LogTombstone
        <4> QED
          BY <2>2, <4>2, <4>3
      <3>3. PICK e : /\ log' = log \cup {e} /\ history' = history \cup {e}
                     /\ e.lamport = RemoteLamport(history) + 1
        BY <3>2
      <3>4. e \in Entry /\ e \notin history
        <4>1. history' \subseteq Entry /\ history \in SUBSET Entry
          BY DEF TypeInv, TypeOK
        <4>2. PICK n \in Nat : \A f \in history : f.lamport <= n /\ f.dev <= n
          BY DEF TypeInv, Clocks
        <4>3. /\ RemoteLamport(history) \in Nat
              /\ \A f \in history : f.lamport <= RemoteLamport(history)
          BY <4>1, <4>2, RemoteLamportBounds
        <4>4. ~(e.lamport <= RemoteLamport(history))
          BY <3>3, <4>3
        <4> QED
          BY <3>3, <4>1, <4>3, <4>4
      <3> QED
        BY <3>1, <3>3, <3>4, LogAppend
    <2> QED
      BY <1>1, <2>1, <2>2 DEF Write
  <1>2. CASE Time
    <2>1. UNCHANGED <<log, snaps, history, pc, job, overlapped>>
      BY <1>2 DEF Time, AgeDelta, AgeSnap, Expire, remote
    <2> QED
      BY <2>1, LogSame
  <1>3. ASSUME NEW d \in Device, Abort(d) PROVE LogInv'
    <2>1. Set(d, "idle", NoJob) /\ UNCHANGED <<log, snaps, history, overlapped>>
      BY <1>3 DEF Abort, remote
    <2>2. pc'[d] = "idle" /\ \A g \in Device \ {d} : pc'[g] = pc[g] /\ job'[g] = job[g]
      BY <2>1, SetIs
    <2>3. ~Compacting(d)' /\ OnNewest(d)' /\ Folded(d)'
      BY <2>2 DEF Compacting, OnNewest, Folded
    <2>4. CASE overlapped
      BY <2>1, <2>4 DEF LogInv
    <2> QED
      BY <2>1, <2>2, <2>3, <2>4, LogQuiet
  <1>4. CASE UNCHANGED vars
    <2>1. UNCHANGED <<log, snaps, history, pc, job, overlapped>>
      BY <1>4 DEF vars, remote
    <2> QED
      BY <2>1, LogSame
  <1>5. ASSUME NEW d \in Device, Pass(d) PROVE LogInv'
    <2>1. CASE overlapped'
      BY <2>1 DEF LogInv
    <2> QED
      BY <1>5, <2>1, LogPass
  <1> QED
    BY <1>1, <1>2, <1>3, <1>4, <1>5 DEF Next

LEMMA LogInvInit == Init => LogInv
  <1> SUFFICES ASSUME Init PROVE LogInv
    OBVIOUS
  <1>1. Alone
    BY DEF Init, Alone, Compacting
  <1>2. Complete
    BY DEF Init, Complete, Merged
  <1>3. ASSUME NEW d \in Device PROVE OnNewest(d) /\ Folded(d)
    BY DEF Init, OnNewest, Folded
  <1> QED
    BY <1>1, <1>2, <1>3 DEF LogInv

(* What a reader merges at this instant is what the history says. *)
LEMMA CurrentIs ==
    ASSUME TypeInv, LogInv, ~overlapped
    PROVE  Current = Merged(history)
  <1>1. Latest(snaps).manifest \cup log \subseteq history
    BY LatestTyped DEF TypeInv, TypeOK
  <1>2. Merged(history) \subseteq Latest(snaps).manifest \cup log
    BY DEF LogInv, Complete
  <1> QED
    BY <1>1, <1>2, SameManifest DEF TypeInv, Current

-----------------------------------------------------------------------------
(* The GC keeps what a reader can see. *)

(* A logged entry names an object that was in flight, or a winner's. *)
LEMMA ObjectAppend ==
    ASSUME ObjectInv, NEW e, history' = history \cup {e},
           UNCHANGED <<content, pc, job, overlapped>>, InFlight' \subseteq InFlight,
           ~overlapped => \/ Object(e) \in InFlight
                          \/ \E w \in Merged(history) : Object(w) = Object(e)
    PROVE  ObjectInv'
  <1>1. Merged(history)' \subseteq Merged(history) \cup {e}
    BY DEF Merged
  <1>2. Young'
    BY DEF ObjectInv, Young, content
  <1>3. ASSUME ~overlapped PROVE Stored' /\ \A d \in Device : Spared(d)'
    <2>1. \A f \in Merged(history)' :
             Object(f) \in InFlight \/ \E w \in Merged(history) : Object(w) = Object(f)
      BY <1>1, <1>3
    <2>2. Stored'
      BY <1>3, <2>1 DEF ObjectInv, Stored, content
    <2>3. ASSUME NEW d \in Device PROVE Spared(d)'
      <3>1. Spared(d) /\ InFlight \cap expired = {} /\ InFlight \cap job[d].oldObjects = {}
        BY <1>3 DEF ObjectInv, Young
      <3>2. ASSUME pc[d] = "gc-list", NEW f \in Merged(history)'
            PROVE  \/ \E h \in job[d].merged \cup job[d].listed : Object(h) = Object(f)
                   \/ Object(f) \notin expired \cup job[d].oldObjects
        <4>1. CASE Object(f) \in InFlight
          BY <3>1, <4>1
        <4>2. ASSUME NEW w \in Merged(history), Object(w) = Object(f)
              PROVE  \/ \E h \in job[d].merged \cup job[d].listed : Object(h) = Object(f)
                     \/ Object(f) \notin expired \cup job[d].oldObjects
          BY <3>1, <3>2, <4>2 DEF Spared
        <4> QED
          BY <2>1, <4>1, <4>2
      <3>3. ASSUME pc[d] = "gc"
            PROVE  /\ job[d].doomed \subseteq objects \ InFlight'
                   /\ \A f \in Merged(history)' : Object(f) \notin job[d].doomed
        BY <2>1, <3>1, <3>3 DEF Spared
      <3> QED
        BY <3>2, <3>3 DEF Spared, content
    <2> QED
      BY <2>2, <2>3
  <1> QED
    BY <1>2, <1>3 DEF ObjectInv

(* A step of d that stores, deletes and logs nothing. *)
LEMMA ObjectQuiet ==
    ASSUME ObjectInv, NEW d \in Device, UNCHANGED <<content, history>>,
           InFlight' \subseteq InFlight,
           \A g \in Device \ {d} : pc'[g] = pc[g] /\ job'[g] = job[g],
           InFlight \cap job'[d].oldObjects = {}, ~overlapped' => ~overlapped,
           ~overlapped => Spared(d)'
    PROVE  ObjectInv'
  <1>1. Merged(history)' = Merged(history)
    BY DEF Merged
  <1>2. Young'
    <2>1. ASSUME NEW g \in Device PROVE InFlight' \cap job'[g].oldObjects = {}
      <3>1. CASE g = d
        BY <3>1
      <3>2. CASE g # d
        BY <3>2 DEF ObjectInv, Young
      <3> QED
        BY <3>1, <3>2
    <2> QED
      BY <2>1 DEF ObjectInv, Young, content
  <1>3. ASSUME ~overlapped PROVE Stored' /\ \A g \in Device : Spared(g)'
    <2>1. Stored'
      BY <1>1, <1>3 DEF ObjectInv, Stored, content
    <2>2. ASSUME NEW g \in Device PROVE Spared(g)'
      <3>1. CASE g = d
        BY <1>3, <3>1
      <3>2. CASE g # d
        BY <1>1, <1>3, <3>2 DEF ObjectInv, Spared, content
      <3> QED
        BY <3>1, <3>2
    <2> QED
      BY <2>1, <2>2
  <1> QED
    BY <1>2, <1>3 DEF ObjectInv

(* Writers keep it: an object is young when it is stored, and no GC has
   listed it, for it was not there. *)
LEMMA ObjectWrite ==
    ASSUME ~StoreAgain, TypeInv, TypeInv', LogInv, ObjectInv, NEW d \in Device, Write(d)
    PROVE  ObjectInv'
  <1>1. CASE \E p \in Path, c \in Content : StoreObject(d, p, c)
    <2>1. PICK p \in Path, c \in Content : StoreObject(d, p, c)
      BY <1>1
    <2> DEFINE o == <<p, c>>
    <2>2. /\ o \notin objects /\ objects' = objects \cup {o} /\ expired' = expired \ {o}
          /\ UNCHANGED <<pc, history, overlapped>> /\ pending[d] = {}
          /\ pending' = [pending EXCEPT ![d] = {[path |-> p, hash |-> c]}]
      BY <2>1 DEF StoreObject
    <2>3. ASSUME NEW g \in Device
          PROVE  /\ job'[g].oldObjects = job[g].oldObjects \ {o} /\ job'[g].doomed = job[g].doomed
                 /\ job'[g].listed = job[g].listed /\ job'[g].merged = job[g].merged
      <3>1. job[g] \in Job /\ job'[g] = [job[g] EXCEPT !.oldObjects = @ \ {<<p, c>>}]
        BY <2>1 DEF StoreObject, TypeInv, Volatile
      <3> QED
        BY <3>1 DEF Job
    <2>4. InFlight' \subseteq InFlight \cup {o}
      <3>1. ASSUME NEW g \in Device, NEW u \in pending'[g]
            PROVE  <<u.path, u.hash>> \in InFlight \cup {o}
        <4>1. CASE g = d
          <5>1. u = [path |-> p, hash |-> c]
            BY <2>2, <4>1 DEF TypeInv, Volatile
          <5> QED
            BY <5>1
        <4>2. CASE g # d
          <5>1. u \in pending[g]
            BY <2>2, <4>2 DEF TypeInv, Volatile
          <5> QED
            BY <5>1 DEF InFlight
        <4> QED
          BY <4>1, <4>2
      <3> QED
        BY <3>1 DEF InFlight
    <2>5. Merged(history)' = Merged(history)
      BY <2>2 DEF Merged
    <2> HIDE DEF o
    <2>6. Young'
      BY <2>2, <2>3, <2>4 DEF ObjectInv, Young
    <2>7. ASSUME ~overlapped PROVE Stored' /\ \A g \in Device : Spared(g)'
      <3>1. Stored'
        BY <2>2, <2>4, <2>5, <2>7 DEF ObjectInv, Stored
      <3>2. ASSUME NEW g \in Device PROVE Spared(g)'
        <4>1. Spared(g)
          BY <2>7 DEF ObjectInv
        <4>2. ASSUME pc[g] = "gc-list", NEW e \in Merged(history)
              PROVE  \/ \E f \in job'[g].merged \cup job'[g].listed : Object(f) = Object(e)
                     \/ Object(e) \notin expired' \cup job'[g].oldObjects
          BY <2>2, <2>3, <4>1, <4>2 DEF Spared
        <4>3. ASSUME pc[g] = "gc"
              PROVE  /\ job'[g].doomed \subseteq objects' \ InFlight'
                     /\ \A e \in Merged(history) : Object(e) \notin job'[g].doomed
          BY <2>2, <2>3, <2>4, <4>1, <4>3 DEF Spared
        <4> QED
          BY <2>2, <2>5, <4>2, <4>3 DEF Spared
      <3> QED
        BY <3>1, <3>2
    <2> QED
      BY <2>2, <2>6, <2>7 DEF ObjectInv
  <1>2. CASE LogUpload(d)
    <2>0. PICK u \in pending[d] : \E over : Append1(d, u.path, u.hash, FALSE, over)
      BY <1>2 DEF LogUpload
    <2>1. PICK over : Append1(d, u.path, u.hash, FALSE, over)
      BY <2>0
    <2> DEFINE e == [path |-> u.path, hash |-> u.hash, deleted |-> FALSE, dev |-> d,
                     lamport |-> RemoteLamport(history) + 1, base |-> over]
    <2>2. history' = history \cup {e} /\ e.path = u.path /\ e.hash = u.hash
      BY <2>1 DEF Append1
    <2>3. /\ UNCHANGED <<content, pc, job, overlapped>>
          /\ pending' = [pending EXCEPT ![d] = {}]
      BY <1>2 DEF LogUpload
    <2> HIDE DEF e
    <2>4. InFlight' \subseteq InFlight
      BY <2>3 DEF InFlight, TypeInv, Volatile
    <2>5. Object(e) \in InFlight
      BY <2>2 DEF InFlight, Object
    <2> QED
      BY <2>2, <2>3, <2>4, <2>5, ObjectAppend
  <1>3. CASE \E p \in Path : LogTombstone(d, p)
    <2>1. PICK p \in Path : LogTombstone(d, p)
      BY <1>3
    <2>2. PICK w \in EntriesAt(Current, p) : Append1(d, p, w.hash, TRUE, w.hash)
      BY <2>1 DEF LogTombstone
    <2> DEFINE e == [path |-> p, hash |-> w.hash, deleted |-> TRUE, dev |-> d,
                     lamport |-> RemoteLamport(history) + 1, base |-> w.hash]
    <2>3. history' = history \cup {e} /\ e.path = p /\ e.hash = w.hash
      BY <2>2 DEF Append1
    <2>4. UNCHANGED <<content, pc, job, pending, overlapped>>
      BY <2>1 DEF LogTombstone
    <2> HIDE DEF e
    <2>5. InFlight' = InFlight
      BY <2>4 DEF InFlight
    <2>6. ~overlapped => \E x \in Merged(history) : Object(x) = Object(e)
      <3>1. w \in Current /\ w.path = p
        BY DEF EntriesAt
      <3> QED
        BY <2>3, <3>1, CurrentIs DEF Object
    <2> QED
      BY <2>3, <2>4, <2>5, <2>6, ObjectAppend
  <1> QED
    BY <1>1, <1>2, <1>3 DEF Write

(* Expiry keeps it: what expires is older than every running pass. *)
LEMMA ObjectTime ==
    ASSUME TypeInv, LogInv, ObjectInv, Time
    PROVE  ObjectInv'
  <1>1. UNCHANGED <<objects, pc, job, pending, history, overlapped>>
    BY DEF Time, AgeDelta, AgeSnap, Expire, content
  <1>2. Merged(history)' = Merged(history) /\ InFlight' = InFlight
    BY <1>1 DEF Merged, InFlight
  <1>3. \A o \in expired' \ expired :
           o \notin InFlight /\ \A d \in Running : o \in job[d].oldObjects
    BY DEF Time, AgeDelta, AgeSnap, Expire, content
  <1>4. Young'
    BY <1>1, <1>2, <1>3 DEF ObjectInv, Young
  <1>5. ASSUME ~overlapped, NEW d \in Device PROVE Spared(d)'
    <2>1. Spared(d)
      BY <1>5 DEF ObjectInv
    <2>2. ASSUME pc[d] = "gc-list", NEW e \in Merged(history)
          PROVE  \/ \E f \in job[d].merged \cup job[d].listed : Object(f) = Object(e)
                 \/ Object(e) \notin expired' \cup job[d].oldObjects
      <3>1. d \in Running
        BY <2>2 DEF Running
      <3> QED
        BY <1>3, <2>1, <2>2, <3>1 DEF Spared
    <2> QED
      BY <1>1, <1>2, <2>1, <2>2 DEF Spared
  <1>6. ~overlapped => Stored'
    BY <1>1, <1>2 DEF ObjectInv, Stored
  <1> QED
    BY <1>1, <1>4, <1>5, <1>6 DEF ObjectInv

(* Passes and the GC keep it. *)
LEMMA ObjectPass ==
    ASSUME TypeInv, LogInv, ObjectInv, NEW d \in Device, Pass(d)
    PROVE  ObjectInv'
  <1> DEFINE J == job[d]
             Others == \A g \in Device \ {d} : pc'[g] = pc[g] /\ job'[g] = job[g]
  <1>1. J \in Job /\ InFlight \cap J.oldObjects = {}
    BY DEF TypeInv, Volatile, ObjectInv, Young
  <1>2. UNCHANGED <<pending, history>> /\ InFlight' = InFlight
    BY DEF Pass, StartPass, ReadDeltas, EndPass, StartCompact, PickGeneration, PutSnapshot, Verify,
           PruneDelta, PruneSnapshot, ReadReferences, ListGarbage, DeleteGarbage, EndCompact, InFlight
  <1>3. ~overlapped' => ~overlapped
    BY DEF Pass, StartPass, ReadDeltas, EndPass, StartCompact, PickGeneration, PutSnapshot, Verify,
           PruneDelta, PruneSnapshot, ReadReferences, ListGarbage, DeleteGarbage, EndCompact
  <1>4. Merged(history)' = Merged(history)
    BY <1>2 DEF Merged
  <1>5. ASSUME UNCHANGED content, NEW s \in States \ {"gc-list", "gc"}, NEW j, Set(d, s, j),
               InFlight \cap j.oldObjects = {}
        PROVE  ObjectInv'
    <2>1. pc'[d] = s /\ job'[d] = j /\ Others
      BY <1>5, SetIs
    <2>2. Spared(d)'
      BY <2>1 DEF Spared
    <2> QED
      BY <1>2, <1>3, <1>5, <2>1, <2>2, ObjectQuiet
  <1>6. CASE StartPass(d)
    <2> DEFINE f == [NoJob EXCEPT !.oldLog = log, !.oldGen = {s.gen : s \in snaps},
                                  !.oldObjects = objects \ InFlight]
    <2>1. UNCHANGED content /\ Set(d, "snapshot", [f EXCEPT !.snap = Latest(snaps)])
      BY <1>6 DEF StartPass, FromStore
    <2>2. [f EXCEPT !.snap = Latest(snaps)].oldObjects = objects \ InFlight
      BY DEF NoJob
    <2> HIDE DEF f
    <2> QED
      BY <1>5, <2>1, <2>2 DEF States
  <1>7. CASE StartCompact(d)
    <2>1. UNCHANGED content /\ Set(d, "compact-snapshot", [J EXCEPT !.snap = Latest(snaps)])
      BY <1>7 DEF StartCompact, FromStore
    <2>2. [J EXCEPT !.snap = Latest(snaps)].oldObjects = J.oldObjects
      BY <1>1 DEF Job
    <2> QED
      BY <1>1, <1>5, <2>1, <2>2 DEF States
  <1>8. CASE EndPass(d) \/ EndCompact(d)
    <2>1. UNCHANGED content /\ Set(d, "idle", NoJob)
      BY <1>8 DEF EndPass, EndCompact
    <2> QED
      BY <1>5, <2>1, NoJobTyped DEF States
  <1>9. CASE ReadDeltas(d)
    <2>1. UNCHANGED content /\ \E m : \E s \in {"read", "compact-read"} :
             Set(d, s, [J EXCEPT !.listed = log, !.merged = m])
      BY <1>9 DEF ReadDeltas
    <2>2. PICK m : \E s \in {"read", "compact-read"} :
             Set(d, s, [J EXCEPT !.listed = log, !.merged = m])
      BY <2>1
    <2>3. [J EXCEPT !.listed = log, !.merged = m].oldObjects = J.oldObjects
      BY <1>1 DEF Job
    <2> QED
      BY <1>1, <1>5, <2>1, <2>2, <2>3 DEF States
  <1>10. CASE PickGeneration(d)
    <2>1. UNCHANGED content /\ \E n : Set(d, "put", [J EXCEPT !.gen = n])
      BY <1>10 DEF PickGeneration
    <2>2. PICK n : Set(d, "put", [J EXCEPT !.gen = n])
      BY <2>1
    <2>3. [J EXCEPT !.gen = n].oldObjects = J.oldObjects
      BY <1>1 DEF Job
    <2> QED
      BY <1>1, <1>5, <2>1, <2>2, <2>3 DEF States
  <1>11. CASE PutSnapshot(d) \/ PruneSnapshot(d) \/ Verify(d)
    <2>1. UNCHANGED content /\ \E s \in {"verify", "gc-read", "prune", "idle"} :
             Set(d, s, J) \/ Set(d, s, NoJob)
      BY <1>11 DEF PutSnapshot, PruneSnapshot, Verify
    <2> QED
      BY <1>1, <1>5, <2>1, NoJobTyped DEF States
  <1>12. CASE PruneDelta(d)
    <2>1. UNCHANGED content /\ \E e : Set(d, "prune", [J EXCEPT !.listed = @ \ {e}])
      BY <1>12 DEF PruneDelta
    <2>2. PICK e : Set(d, "prune", [J EXCEPT !.listed = @ \ {e}])
      BY <2>1
    <2>3. [J EXCEPT !.listed = @ \ {e}].oldObjects = J.oldObjects
      BY <1>1 DEF Job
    <2> QED
      BY <1>1, <1>5, <2>1, <2>2, <2>3 DEF States
  <1>13. CASE ReadReferences(d)
    <2>1. pc[d] = "gc-read" /\ UNCHANGED content /\ Set(d, "gc-list", [J EXCEPT !.listed = log])
      BY <1>13 DEF ReadReferences
    <2>2. pc'[d] = "gc-list" /\ job'[d] = [J EXCEPT !.listed = log] /\ Others
      BY <2>1, SetIs
    <2>3. job'[d].oldObjects = J.oldObjects /\ job'[d].listed = log /\ job'[d].merged = J.merged
      BY <1>1, <2>2 DEF Job
    <2>4. ASSUME ~overlapped PROVE Spared(d)'
      <3>1. Merged(history) \subseteq J.merged \cup log
        BY <2>1, <2>4 DEF LogInv, Folded
      <3> QED
        BY <1>4, <2>2, <2>3, <3>1 DEF Spared
    <2> QED
      BY <1>1, <1>2, <1>3, <2>1, <2>2, <2>3, <2>4, ObjectQuiet
  <1>14. CASE ListGarbage(d)
    <2> DEFINE named == {<<e.path, e.hash>> : e \in J.merged \cup J.listed}
    <2>1. pc[d] = "gc-list" /\ UNCHANGED content /\ Set(d, "gc", [J EXCEPT !.doomed = expired \ named])
      BY <1>14 DEF ListGarbage
    <2>2. pc'[d] = "gc" /\ job'[d] = [J EXCEPT !.doomed = expired \ named] /\ Others
      BY <2>1, SetIs
    <2>3. \A f \in J.merged \cup J.listed : Object(f) \in named
      BY DEF Object
    <2> HIDE DEF named
    <2>4. job'[d].oldObjects = J.oldObjects /\ job'[d].doomed = expired \ named
      BY <1>1, <2>2 DEF Job
    <2>5. ASSUME ~overlapped PROVE Spared(d)'
      <3>1. expired \subseteq objects /\ InFlight \cap expired = {}
        BY DEF TypeInv, TypeOK, ObjectInv, Young
      <3>2. ASSUME NEW e \in Merged(history) PROVE Object(e) \notin expired \ named
        BY <2>1, <2>3, <2>5 DEF ObjectInv, Spared
      <3> QED
        BY <1>2, <1>4, <2>1, <2>2, <2>4, <3>1, <3>2 DEF Spared, content
    <2> QED
      BY <1>1, <1>2, <1>3, <2>1, <2>2, <2>4, <2>5, ObjectQuiet
  <1>15. CASE DeleteGarbage(d)
    <2>1. PICK o \in J.doomed :
             /\ objects' = objects \ {o} /\ expired' = expired \ {o}
             /\ Set(d, "gc", [J EXCEPT !.doomed = @ \ {o}])
      BY <1>15 DEF DeleteGarbage
    <2>2. pc[d] = "gc" /\ UNCHANGED overlapped
      BY <1>15 DEF DeleteGarbage
    <2>3. pc'[d] = "gc" /\ job'[d] = [J EXCEPT !.doomed = @ \ {o}] /\ Others
      BY <2>1, SetIs
    <2>4. job'[d].oldObjects = J.oldObjects /\ job'[d].doomed = J.doomed \ {o}
      BY <1>1, <2>3 DEF Job
    <2>5. Young'
      <3>1. ASSUME NEW g \in Device PROVE job'[g].oldObjects = job[g].oldObjects
        BY <2>3, <2>4
      <3> QED
        BY <1>2, <2>1, <3>1 DEF ObjectInv, Young
    <2>6. ASSUME ~overlapped PROVE Stored' /\ \A g \in Device : Spared(g)'
      <3>1. Spared(d) /\ Stored
        BY <2>6 DEF ObjectInv
      <3>2. /\ J.doomed \subseteq objects \ InFlight
            /\ \A e \in Merged(history) : Object(e) \notin J.doomed
        BY <2>2, <3>1 DEF Spared
      <3>3. Stored'
        BY <1>2, <1>4, <2>1, <3>1, <3>2 DEF Stored
      <3>4. ASSUME NEW g \in Device PROVE Spared(g)'
        <4>1. CASE g = d
          BY <1>2, <1>4, <2>1, <2>3, <2>4, <3>2, <4>1 DEF Spared
        <4>2. CASE g # d
          <5>1. ~Compacting(g)
            BY <2>2, <2>6, <4>2 DEF LogInv, Alone, Compacting
          <5>2. pc'[g] \notin {"gc-list", "gc"}
            BY <2>3, <4>2, <5>1 DEF Compacting
          <5> QED
            BY <5>2 DEF Spared
        <4> QED
          BY <4>1, <4>2
      <3> QED
        BY <3>3, <3>4
    <2> QED
      BY <2>2, <2>5, <2>6 DEF ObjectInv
  <1> QED
    BY <1>6, <1>7, <1>8, <1>9, <1>10, <1>11, <1>12, <1>13, <1>14, <1>15 DEF Pass

LEMMA ObjectInvInit == Init => ObjectInv
  <1> SUFFICES ASSUME Init PROVE ObjectInv
    OBVIOUS
  <1>1. InFlight = {} /\ Merged(history) = {}
    BY DEF Init, InFlight, Merged
  <1>2. \A d \in Device : Spared(d)
    BY DEF Init, Spared
  <1> QED
    BY <1>1, <1>2 DEF ObjectInv, Young, Stored

(* The invariant is inductive. *)
LEMMA CompInvNext ==
    ASSUME ~StoreAgain, CompInv, [Next]_vars
    PROVE  CompInv'
  <1>1. TypeInv' /\ LogInv'
    BY TypeInvNext, LogInvNext DEF CompInv
  <1>2. ASSUME NEW d \in Device, Abort(d) PROVE ObjectInv'
    <2>1. /\ Set(d, "idle", NoJob) /\ pending' = [pending EXCEPT ![d] = {}]
          /\ UNCHANGED <<content, history, overlapped>>
      BY <1>2 DEF Abort
    <2>2. pc'[d] = "idle" /\ job'[d] = NoJob /\ \A g \in Device \ {d} : pc'[g] = pc[g] /\ job'[g] = job[g]
      BY <2>1, SetIs DEF CompInv
    <2>3. InFlight' \subseteq InFlight
      BY <2>1 DEF InFlight, CompInv, TypeInv, Volatile
    <2>4. Spared(d)' /\ InFlight \cap job'[d].oldObjects = {}
      BY <2>2, NoJobTyped DEF Spared
    <2> QED
      BY <2>1, <2>2, <2>3, <2>4, ObjectQuiet DEF CompInv
  <1>3. ASSUME UNCHANGED vars PROVE ObjectInv'
    <2>1. UNCHANGED <<objects, expired, pc, job, pending, history, overlapped>>
      BY <1>3 DEF vars, content
    <2> QED
      BY <2>1 DEF CompInv, ObjectInv, Young, Stored, Spared, InFlight, Merged
  <1>4. ObjectInv'
    BY <1>1, <1>2, <1>3, ObjectWrite, ObjectPass, ObjectTime DEF Next, CompInv
  <1> QED
    BY <1>1, <1>4 DEF CompInv

(* Compaction loses nothing: as long as no two compactions overlap, the newest
   snapshot and the log say what every entry ever logged says, and the GC
   keeps every object they name; wherever a compaction fails or dies.  Assumes
   that no object is stored twice, without which it is false: the GC may have
   listed the object already. *)
THEOREM NothingIsLost ==
    ASSUME ~StoreAgain
    PROVE  Spec => []NothingLost
  <1>1. CompInv => NothingLost
    <2> SUFFICES ASSUME CompInv, ~overlapped
                 PROVE  Current = Merged(history) /\ \A e \in Current : <<e.path, e.hash>> \in objects
      BY DEF NothingLost, RemoteComplete, NoDanglingEntry
    <2>1. Current = Merged(history)
      BY CurrentIs DEF CompInv
    <2> QED
      BY <2>1 DEF CompInv, ObjectInv, Stored, Object
  <1>2. Init => CompInv
    BY TypeInvInit, LogInvInit, ObjectInvInit DEF CompInv
  <1>3. CompInv /\ [Next]_vars => CompInv'
    BY CompInvNext
  <1> QED
    BY <1>1, <1>2, <1>3, PTL DEF Spec
=============================================================================
