---------------------------- MODULE ArchiveProofs ----------------------------
(***************************************************************************)
(* Of files on their way into a snapshot and back.                         *)
(*                                                                         *)
(* Archive, for any directory, contents and bounds: whatever the owner and *)
(* the mirror do to the files while a run reads them, whatever fails, and  *)
(* whatever is resumed or reused.  The argument follows versions of files: *)
(* a change gives the inode a change time that no node made before it has, *)
(* so a node that still describes its file (SameVersion) was made of what  *)
(* the file holds (True).  Chunks that a worker has passed on are Known:   *)
(* listed, in the open pack, or on their way up with another worker.       *)
(*                                                                         *)
(* Restore, for any snapshot, repository, target and selection.            *)
(* Reached(p) says whether the restore has got to the name p.  What is     *)
(* there is then Final(p), and otherwise as it was before (Shape); each    *)
(* file that is written has an inode of its own, filled as far as the      *)
(* chunks that are not in todo (Filled).                                   *)
(***************************************************************************)
EXTENDS Archive, Restore, FiniteSetTheorems, SequenceTheorems, WellFoundedInduction, TLAPS

(* What the records of a run are made of. *)
Node == [content : Seq(Nat), hash : Seq(Nat), size : Nat, mtime : Nat, ctime : Nat,
         inode : Nat, links : Nat, offloaded : BOOLEAN]
NodeMap == UNION {[D -> Node] : D \in SUBSET Name}
StubFile == {NoStub} \cup [here : {TRUE}, content : Seq(Nat), mtime : Nat]
Seen == [here : {FALSE}] \cup [here : {TRUE}, content : Seq(Nat), inode : Nat, mtime : Nat]
Snapshot == [nodes : NodeMap, skipped : SUBSET Name, present : SUBSET Name,
             truth : UNION {[D -> Seen] : D \in SUBSET Name}]
Entry == [name : Name, node : Node]
Reading == [at : {"read"}, node : Node, handle : {0} \cup Inode, source : Seq(Nat), got : Seq(Nat)]

(* The directory: no file was changed later than the clock says. *)
DiskOk ==
    /\ dir \in [Name -> [real : {0} \cup Inode, stub : StubFile]]
    /\ inode \in [Inode -> [content : Seq(Nat), mtime : Nat, ctime : Nat]]
    /\ clock \in Nat /\ events \in Nat
    /\ \A i \in Inode : inode[i].ctime <= clock

(* Each event takes one inode at most into use, so there is always a fresh one. *)
Used == ({dir[n].real : n \in Name} \cup {Handle(n) : n \in Name}) \ {0}
Room == IsFiniteSet(Used) /\ Cardinality(Used) <= Cardinality(Name) + events

(* n still names the file that the node was made of, and nobody has changed it since. *)
SameVersion(n, node) ==
    /\ ~node.offloaded
    /\ dir[n].real # 0 /\ dir[n].real = node.inode
    /\ inode[dir[n].real].ctime = node.ctime

(* A finished node of n says what it is made of; as long as its file is the
   same version, this is what the file holds. *)
True(n, node) ==
    /\ node \in Node /\ node.ctime <= clock
    /\ node.hash = node.content /\ node.size = Len(node.content)
    /\ SameVersion(n, node) => node.content = inode[dir[n].real].content

RecordsTrue ==
    /\ journal \in Seq(Entry)
    /\ \A k \in DOMAIN journal : True(journal[k].name, journal[k].node)
    /\ snaps \in Seq(Snapshot)
    /\ \A k \in DOMAIN snaps : \A n \in DOMAIN snaps[k].nodes : True(n, snaps[k].nodes[n])

-----------------------------------------------------------------------------
(* A run. *)

Going == pc \notin {"idle", "saved"}

JobFields == {"offloaded", "parent", "resumed", "listing", "todo", "index", "fresh", "pack",
              "flying", "failed", "aborted", "skipped", "quiet", "present", "seen"}

(* What a worker is at; while it waits for an upload, what it comes back to. *)
Task(n) == IF work[n].at = "upload" THEN work[n].back ELSE work[n]

WorkShape(w) ==
    \/ w \in {NoWork, [at |-> "skipped"], [at |-> "error"]}
    \/ w \in [at : {"file", "stub", "done"}, node : Node]
    \/ w \in Reading
    \/ w = [at |-> "upload", up |-> w.up, back |-> w.back] /\ w.back \in Reading

JobShape ==
    /\ pc \in {"idle", "walk", "tree", "packed", "flushed", "saved"}
    /\ DOMAIN work = Name /\ \A n \in Name : WorkShape(work[n])
    /\ pc # "idle" => DOMAIN job = JobFields
    /\ Going =>
          /\ job.parent \in NodeMap
          /\ job.resumed \in UNION {[D -> Entry] : D \in SUBSET Nat}
          /\ job.listing \subseteq Name \X {0, 1} /\ job.todo \subseteq job.listing
          /\ job.skipped \subseteq Name /\ job.quiet \subseteq Name /\ job.present \subseteq Name
          /\ job.seen \in [Name -> Seen]
          /\ job.failed \in BOOLEAN /\ job.aborted \in BOOLEAN

(* Stages: workers work during the walk only. *)
StageOk ==
    /\ pc \in {"idle", "tree", "packed", "flushed", "saved"} =>
          \A n \in Name : work[n].at \in {"none", "skipped", "done"}
    /\ pc \in {"tree", "packed", "flushed"} => job.todo = {} /\ ~job.aborted

(* The blobs that the run may count on: stored, or on their way as long as nothing failed. *)
Known == IF pc \in {"walk", "tree"} THEN job.index \cup job.pack \cup job.flying ELSE job.index

BlobsOk ==
    /\ durable \subseteq stored
    /\ pc # "idle" => job.index \subseteq stored /\ job.fresh \subseteq stored
    /\ Going =>
          /\ job.index \subseteq durable \cup job.fresh
          /\ pc = "flushed" => job.fresh = {}
          /\ job.failed \/ job.flying \subseteq UNION {work[m].up : m \in {k \in Name : work[k].at = "upload"}}
          /\ \A n \in DOMAIN job.parent : Chunks(job.parent[n].content) \subseteq job.index
          /\ \A k \in DOMAIN job.resumed : Chunks(job.resumed[k].node.content) \subseteq job.index
          /\ \A n \in Name :
                /\ Task(n).at = "read" => Chunks(Task(n).got) \subseteq Known
                /\ Task(n).at = "done" => Chunks(Task(n).node.content) \subseteq Known
          /\ pc # "walk" => TreeBlob(Nodes) \in Known
    /\ \A k \in DOMAIN snaps : Reach(snaps[k]) \subseteq durable

EarlierTrue ==
    Going => /\ \A n \in DOMAIN job.parent : True(n, job.parent[n])
             /\ \A k \in DOMAIN job.resumed : True(job.resumed[k].name, job.resumed[k].node)

(* What a worker knows of its file: what it found out when it visited it, and
   what it has read, if the file is still the same version. *)
Statted(n, node) ==
    /\ ~node.offloaded
    /\ node.inode # 0 /\ node.ctime <= clock
    /\ SameVersion(n, node) => node.mtime = inode[dir[n].real].mtime
    /\ n \in job.quiet => SameVersion(n, node)

StandsFor(n, node) ==
    /\ node.offloaded
    /\ node.size = Len(node.hash) /\ node.ctime <= clock
    /\ n \in job.quiet => /\ dir[n].real = 0 /\ dir[n].stub.here
                          /\ node.hash = dir[n].stub.content /\ node.mtime = dir[n].stub.mtime

PrefixOf(got, content) == Len(got) <= Len(content) /\ \A k \in 1..Len(got) : got[k] = content[k]

TaskOk(n, w) ==
    /\ w.at = "file" =>
          /\ Statted(n, w.node)
          /\ SameVersion(n, w.node) => w.node.size = Len(inode[dir[n].real].content)
    /\ w.at = "stub" => StandsFor(n, w.node)
    /\ w.at = "read" /\ w.handle = 0 => StandsFor(n, w.node)
    /\ w.at = "read" /\ w.handle # 0 =>
          /\ Statted(n, w.node)
          /\ SameVersion(n, w.node) => /\ w.handle = dir[n].real
                                       /\ PrefixOf(w.got, inode[dir[n].real].content)
    /\ w.at = "done" =>
          /\ True(n, w.node)
          /\ Statted(n, w.node) \/ StandsFor(n, w.node)

WorkersOk == Going => \A n \in Name : TaskOk(n, Task(n))

(* The walk: what was listed is still to do, is some worker's, or was skipped. *)
Visited(n) == work[n].at # "none" \/ n \in job.skipped \/ job.aborted
Due(n) == <<n, 0>> \in job.todo \/ (<<n, 1>> \in job.todo /\ <<n, 0>> \notin job.listing)
Listed(n) == <<n, 0>> \in job.listing \/ <<n, 1>> \in job.listing

WalkOk ==
    Going =>
        \A n \in Name :
            /\ Listed(n) => Due(n) \/ Visited(n)
            /\ Due(n) => work[n].at = "none"
            /\ work[n].at # "none" => Listed(n)
            /\ work[n].at = "skipped" => n \in job.skipped
            /\ n \in job.present => Listed(n)
            /\ n \in job.quiet =>
                  /\ job.seen[n] = OnDisk(n)
                  /\ <<n, 0>> \in job.listing <=> dir[n].real # 0
                  /\ <<n, 1>> \in job.listing <=> dir[n].stub.here
                  /\ Listed(n) => n \in job.present

ArchiveInv ==
    /\ DiskOk /\ Room /\ RecordsTrue /\ JobShape /\ StageOk /\ BlobsOk /\ EarlierTrue
    /\ WorkersOk /\ WalkOk /\ SnapshotIsDisk /\ Accounted
-----------------------------------------------------------------------------
(* What the records are. *)
LEMMA MapOf ==
    ASSUME NEW f \in NodeMap
    PROVE  DOMAIN f \subseteq Name /\ \A n \in DOMAIN f : f[n] \in Node
  <1>1. PICK D \in SUBSET Name : f \in [D -> Node]
    BY DEF NodeMap
  <1>2. QED
    BY <1>1

LEMMA SnapshotOf ==
    ASSUME NEW s \in Snapshot
    PROVE  /\ s.nodes \in NodeMap /\ DOMAIN s.nodes \subseteq Name
           /\ \A n \in DOMAIN s.nodes : s.nodes[n] \in Node
  <1>1. s.nodes \in NodeMap
    BY DEF Snapshot
  <1>2. QED
    BY <1>1, MapOf

LEMMA JournalAt ==
    ASSUME RecordsTrue, NEW k \in DOMAIN journal
    PROVE  /\ journal[k] \in Entry /\ journal[k].name \in Name /\ journal[k].node \in Node
           /\ True(journal[k].name, journal[k].node)
  <1>1. journal[k] \in Entry
    BY LenProperties, ElementOfSeq DEF RecordsTrue
  <1>2. QED
    BY <1>1 DEF RecordsTrue, Entry

LEMMA SnapAt ==
    ASSUME RecordsTrue, NEW k \in DOMAIN snaps
    PROVE  /\ snaps[k] \in Snapshot /\ snaps[k].nodes \in NodeMap
           /\ DOMAIN snaps[k].nodes \subseteq Name
           /\ \A n \in DOMAIN snaps[k].nodes : snaps[k].nodes[n] \in Node /\ True(n, snaps[k].nodes[n])
  <1>1. snaps[k] \in Snapshot
    BY LenProperties, ElementOfSeq DEF RecordsTrue
  <1>2. QED
    BY <1>1, SnapshotOf DEF RecordsTrue

LEMMA EarlierAt ==
    ASSUME JobShape, Going
    PROVE  /\ DOMAIN job.parent \subseteq Name
           /\ \A n \in DOMAIN job.parent : job.parent[n] \in Node
           /\ \A k \in DOMAIN job.resumed : job.resumed[k].name \in Name /\ job.resumed[k].node \in Node
  <1>1. PICK D \in SUBSET Nat : job.resumed \in [D -> Entry]
    BY DEF JobShape
  <1>2. \A k \in DOMAIN job.resumed : job.resumed[k].name \in Name /\ job.resumed[k].node \in Node
    BY <1>1 DEF Entry
  <1>3. job.parent \in NodeMap
    BY DEF JobShape
  <1>4. QED
    BY <1>2, <1>3, MapOf

LEMMA TaskShape ==
    ASSUME JobShape, NEW n \in Name
    PROVE  /\ WorkShape(work[n])
           /\ work[n].at \in {"none", "skipped", "error", "file", "stub", "done", "read", "upload"}
           /\ Task(n).at \in {"none", "skipped", "error", "file", "stub", "done", "read"}
           /\ work[n].at # "upload" => Task(n) = work[n]
           /\ work[n].at = "upload" => Task(n) = work[n].back /\ Task(n).at = "read"
           /\ Task(n).at \in {"file", "stub", "done"} =>
                 Task(n) \in [at : {"file", "stub", "done"}, node : Node] /\ Task(n).node \in Node
           /\ Task(n).at = "read" =>
                 /\ Task(n) \in Reading /\ Task(n).node \in Node
                 /\ Task(n).handle \in {0} \cup Inode
                 /\ Task(n).source \in Seq(Nat) /\ Task(n).got \in Seq(Nat)
  <1>1. WorkShape(work[n])
    BY DEF JobShape
  <1>2. CASE work[n] \in {NoWork, [at |-> "skipped"], [at |-> "error"]}
    BY <1>1, <1>2 DEF NoWork, Task
  <1>3. CASE work[n] \in [at : {"file", "stub", "done"}, node : Node]
    BY <1>1, <1>3 DEF Task
  <1>4. CASE work[n] \in Reading
    BY <1>1, <1>4 DEF Task, Reading
  <1>5. CASE work[n] = [at |-> "upload", up |-> work[n].up, back |-> work[n].back] /\ work[n].back \in Reading
    <2>1. work[n].at = "upload" /\ Task(n) = work[n].back /\ Task(n) \in Reading
      BY <1>5 DEF Task
    <2>2. QED
      BY <1>1, <2>1 DEF Reading
  <1>6. QED
    BY <1>1, <1>2, <1>3, <1>4, <1>5 DEF WorkShape
-----------------------------------------------------------------------------
(* Names and inodes. *)
LEMMA NameFacts ==
    /\ IsFiniteSet(Name) /\ Cardinality(Name) \in Nat /\ MaxEvents \in Nat
    /\ Name \subseteq Inode /\ Inode \subseteq Nat /\ 0 \notin Inode
    /\ IsFiniteSet(Inode) /\ Cardinality(Inode) = Cardinality(Name) + MaxEvents
  <1>1. IsFiniteSet(Name) /\ Cardinality(Name) \in Nat /\ MaxEvents \in Nat
    BY NameAssumption, BoundAssumption, FS_CardinalityType
  <1>2. Name \subseteq Inode /\ Inode \subseteq Nat /\ 0 \notin Inode
    BY <1>1, NameAssumption DEF Inode
  <1>3. IsFiniteSet(Inode) /\ Cardinality(Inode) = Cardinality(Name) + MaxEvents
    <2>1. Cardinality(Name) + MaxEvents \in Nat
      BY <1>1
    <2>2. QED
      BY <2>1, FS_Interval DEF Inode
  <1>4. QED
    BY <1>1, <1>2, <1>3

(* A new inode is nobody's. *)
LEMMA FreshFacts ==
    ASSUME Room, events \in Nat, events < MaxEvents
    PROVE  Fresh \in Inode /\ Unused(Fresh)
  <1>1. ~(Inode \subseteq Used)
    <2>1. SUFFICES ASSUME Inode \subseteq Used PROVE FALSE
      OBVIOUS
    <2>2. Cardinality(Inode) <= Cardinality(Used) /\ Cardinality(Used) \in Nat
      BY <2>1, FS_Subset, FS_CardinalityType DEF Room
    <2>3. QED
      BY <2>2, NameFacts DEF Room
  <1>2. PICK i \in Inode : i \notin Used
    BY <1>1
  <1>3. i # 0
    BY NameFacts
  <1>4. Unused(i)
    BY <1>2, <1>3 DEF Used, Unused, SameFile
  <1>5. QED
    BY <1>4 DEF Fresh

LEMMA RoomGrows ==
    ASSUME Room, NEW x, Used' \subseteq Used \cup {x}, events \in Nat, events' = events + 1
    PROVE  Room'
  <1>1. IsFiniteSet(Used \cup {x}) /\ Cardinality(Used \cup {x}) <= Cardinality(Used) + 1
        /\ Cardinality(Used \cup {x}) \in Nat /\ Cardinality(Used) \in Nat
    <2>1. IsFiniteSet(Used)
      BY DEF Room
    <2>2. /\ IsFiniteSet(Used \cup {x})
          /\ Cardinality(Used \cup {x}) = IF x \in Used THEN Cardinality(Used) ELSE Cardinality(Used) + 1
      BY <2>1, FS_AddElement
    <2>3. Cardinality(Used) \in Nat /\ Cardinality(Used \cup {x}) \in Nat
      BY <2>1, <2>2, FS_CardinalityType
    <2>4. QED
      BY <2>2, <2>3
  <1>2. /\ IsFiniteSet(Used') /\ Cardinality(Used') <= Cardinality(Used \cup {x})
        /\ Cardinality(Used') \in Nat
    BY <1>1, FS_Subset, FS_CardinalityType
  <1>3. QED
    BY <1>1, <1>2, NameFacts DEF Room

LEMMA RoomStays ==
    ASSUME Room, Used' \subseteq Used, events \in Nat, events' \in {events, events + 1}
    PROVE  Room'
  <1>1. IsFiniteSet(Used) /\ Cardinality(Used) \in Nat
    BY FS_CardinalityType DEF Room
  <1>2. IsFiniteSet(Used') /\ Cardinality(Used') <= Cardinality(Used) /\ Cardinality(Used') \in Nat
    BY <1>1, FS_Subset, FS_CardinalityType
  <1>3. QED
    BY <1>1, <1>2, NameFacts DEF Room

-----------------------------------------------------------------------------
(* The directory changes. *)

Entries == [real : {0} \cup Inode, stub : StubFile]

(* What a change leaves: a name that leads to an inode with an old change time
   led there before, and the inode is as it was; names but ns are untouched. *)
Altered(ns) ==
    /\ ns \subseteq Name
    /\ DiskOk' /\ clock' = clock + 1
    /\ \A n \in Name : dir'[n].real # 0 /\ inode'[dir'[n].real].ctime <= clock =>
          dir[n].real = dir'[n].real /\ inode'[dir'[n].real] = inode[dir'[n].real]
    /\ \A n \in Name \ ns :
          dir'[n] = dir[n] /\ (dir[n].real # 0 => inode'[dir[n].real] = inode[dir[n].real])
    /\ \E x : {dir'[n].real : n \in Name} \subseteq {dir[n].real : n \in Name} \cup {x}

LEMMA DiskWritten ==
    ASSUME DiskOk, NEW i \in Inode, NEW c \in Seq(Nat), NEW time \in Nat,
           inode' = [inode EXCEPT ![i] = [content |-> c, mtime |-> time, ctime |-> clock + 1]],
           dir' \in [Name -> Entries], clock' = clock + 1, events' = events + 1
    PROVE  /\ DiskOk' /\ inode'[i].ctime = clock + 1
           /\ \A j \in Inode : j # i => inode'[j] = inode[j]
  <1> DEFINE new == [content |-> c, mtime |-> time, ctime |-> clock + 1]
  <1>1. new \in [content : Seq(Nat), mtime : Nat, ctime : Nat] /\ new.ctime = clock + 1
    BY DEF DiskOk
  <1>2. inode'[i] = new /\ \A j \in Inode : j # i => inode'[j] = inode[j]
    BY DEF DiskOk
  <1> HIDE DEF new
  <1>3. inode' \in [Inode -> [content : Seq(Nat), mtime : Nat, ctime : Nat]]
    BY <1>1, <1>2 DEF DiskOk, new
  <1>4. \A j \in Inode : inode'[j].ctime <= clock'
    <2>1. SUFFICES ASSUME NEW j \in Inode PROVE inode'[j].ctime <= clock'
      OBVIOUS
    <2>2. inode[j].ctime \in Nat /\ inode[j].ctime <= clock /\ clock \in Nat
      BY DEF DiskOk
    <2>3. QED
      BY <1>1, <1>2, <2>2
  <1>5. QED
    BY <1>1, <1>2, <1>3, <1>4 DEF DiskOk, Entries

LEMMA DiskTouched ==
    ASSUME DiskOk, NEW i \in Inode, inode' = [inode EXCEPT ![i].ctime = clock + 1],
           dir' \in [Name -> Entries], clock' = clock + 1, events' = events + 1
    PROVE  /\ DiskOk' /\ inode'[i].ctime = clock + 1
           /\ \A j \in Inode : j # i => inode'[j] = inode[j]
  <1>1. inode[i] \in [content : Seq(Nat), mtime : Nat, ctime : Nat] /\ DOMAIN inode = Inode
    BY DEF DiskOk
  <1>2. [inode[i] EXCEPT !.ctime = clock + 1]
          = [content |-> inode[i].content, mtime |-> inode[i].mtime, ctime |-> clock + 1]
    BY <1>1
  <1>3. inode' = [inode EXCEPT ![i] = [content |-> inode[i].content, mtime |-> inode[i].mtime,
                                       ctime |-> clock + 1]]
    BY <1>2
  <1>4. inode[i].content \in Seq(Nat) /\ inode[i].mtime \in Nat
    BY <1>1
  <1>5. QED
    BY <1>3, <1>4, DiskWritten

LEMMA DiskStub ==
    ASSUME DiskOk, inode' = inode, dir' \in [Name -> Entries], clock' = clock + 1, events' = events + 1
    PROVE  DiskOk'
  <1>1. \A j \in Inode : inode[j].ctime \in Nat
    BY DEF DiskOk
  <1>2. QED
    BY <1>1 DEF DiskOk, Entries

LEMMA EntryOf ==
    ASSUME DiskOk, NEW n \in Name
    PROVE  /\ dir[n] \in Entries /\ dir[n].real \in {0} \cup Inode /\ dir[n].stub \in StubFile
           /\ dir[n].real # 0 => /\ dir[n].real \in Inode
                                 /\ inode[dir[n].real] \in [content : Seq(Nat), mtime : Nat, ctime : Nat]
                                 /\ inode[dir[n].real].content \in Seq(Nat)
                                 /\ inode[dir[n].real].mtime \in Nat /\ inode[dir[n].real].ctime \in Nat
                                 /\ inode[dir[n].real].ctime <= clock
  <1>1. dir[n] \in Entries /\ dir[n].real \in {0} \cup Inode /\ dir[n].stub \in StubFile
    BY DEF DiskOk, Entries
  <1>2. CASE dir[n].real # 0
    BY <1>1, <1>2 DEF DiskOk
  <1>3. QED
    BY <1>1, <1>2

LEMMA StubOf ==
    ASSUME DiskOk, NEW n \in Name, dir[n].stub.here
    PROVE  dir[n].stub.content \in Seq(Nat) /\ dir[n].stub.mtime \in Nat
  <1>1. dir[n].stub # NoStub
    BY DEF NoStub
  <1>2. dir[n].stub \in [here : {TRUE}, content : Seq(Nat), mtime : Nat]
    BY <1>1, EntryOf DEF StubFile
  <1>3. QED
    BY <1>2

LEMMA WriteAlters ==
    ASSUME DiskOk, NEW n \in Name, Write(n)
    PROVE  \E ns : Altered(ns) /\ Edit(ns)
  <1> DEFINE i == dir[n].real
  <1>1. i \in Inode /\ inode[i].mtime \in Nat /\ clock \in Nat
    BY EntryOf DEF Write, DiskOk
  <1>2. clock' = clock + 1 /\ events' = events + 1 /\ dir' = dir
    BY DEF Write, Edit
  <1>3. PICK c \in Content, time \in {clock + 1, inode[dir[n].real].mtime} :
            inode' = [inode EXCEPT ![i] = [content |-> c, mtime |-> time, ctime |-> clock + 1]]
    BY DEF Write
  <1>0. c \in Seq(Nat) /\ time \in Nat
    BY <1>1, ContentAssumption
  <1>4. dir' \in [Name -> Entries]
    BY <1>2 DEF DiskOk, Entries
  <1>5. DiskOk' /\ inode'[i].ctime = clock + 1 /\ \A j \in Inode : j # i => inode'[j] = inode[j]
    BY <1>0, <1>1, <1>2, <1>3, <1>4, DiskWritten
  <1>6. Altered(SameFile(i))
    <2>1. ASSUME NEW m \in Name, dir'[m].real # 0, inode'[dir'[m].real].ctime <= clock
          PROVE  dir[m].real = dir'[m].real /\ inode'[dir'[m].real] = inode[dir'[m].real]
      BY <1>1, <1>2, <1>5, <2>1, EntryOf
    <2>2. ASSUME NEW m \in Name \ SameFile(i)
          PROVE  dir'[m] = dir[m] /\ (dir[m].real # 0 => inode'[dir[m].real] = inode[dir[m].real])
      BY <1>2, <1>5, EntryOf DEF SameFile
    <2>3. QED
      BY <1>2, <1>5, <2>1, <2>2 DEF Altered, SameFile
  <1>7. QED
    BY <1>6 DEF Write

LEMMA ReplaceAlters ==
    ASSUME DiskOk, Room, events < MaxEvents, NEW n \in Name, Replace(n)
    PROVE  \E ns : Altered(ns) /\ Edit(ns)
  <1> DEFINE i == Fresh
  <1>1. i \in Inode /\ Unused(i) /\ clock \in Nat /\ inode[dir[n].real].mtime \in Nat
    BY FreshFacts, EntryOf DEF DiskOk, Replace
  <1>2. clock' = clock + 1 /\ events' = events + 1 /\ dir' = [dir EXCEPT ![n].real = i]
    BY DEF Replace, Edit
  <1>3. PICK c \in Content, time \in {clock + 1, inode[dir[n].real].mtime} :
            inode' = [inode EXCEPT ![i] = [content |-> c, mtime |-> time, ctime |-> clock + 1]]
    BY DEF Replace
  <1>0. c \in Seq(Nat) /\ time \in Nat
    BY <1>1, ContentAssumption
  <1>4. /\ DOMAIN dir' = Name /\ \A m \in Name : m # n => dir'[m] = dir[m]
        /\ dir'[n].real = i /\ dir'[n] \in Entries
    BY <1>1, <1>2, EntryOf DEF DiskOk, Entries
  <1>5. dir' \in [Name -> Entries]
    BY <1>2, <1>4, EntryOf DEF DiskOk
  <1>6. DiskOk' /\ inode'[i].ctime = clock + 1 /\ \A j \in Inode : j # i => inode'[j] = inode[j]
    BY <1>0, <1>1, <1>2, <1>3, <1>5, DiskWritten
  <1>7. Altered({n})
    <2>1. ASSUME NEW m \in Name, dir'[m].real # 0, inode'[dir'[m].real].ctime <= clock
          PROVE  dir[m].real = dir'[m].real /\ inode'[dir'[m].real] = inode[dir'[m].real]
      BY <1>1, <1>4, <1>6, <2>1, EntryOf
    <2>2. ASSUME NEW m \in Name \ {n}
          PROVE  dir'[m] = dir[m] /\ (dir[m].real # 0 => inode'[dir[m].real] = inode[dir[m].real])
      BY <1>1, <1>4, <1>6, EntryOf DEF Unused, SameFile
    <2>3. {dir'[m].real : m \in Name} \subseteq {dir[m].real : m \in Name} \cup {i}
      BY <1>4
    <2>4. QED
      BY <1>2, <1>6, <2>1, <2>2, <2>3 DEF Altered
  <1>8. QED
    BY <1>7 DEF Replace

(* A file that is deleted, or given another name, gets a new change time. *)
LEMMA RelinkAlters ==
    ASSUME DiskOk, NEW n \in Name, dir[n].real # 0, NEW m \in Name, dir[m].real \in {0, dir[n].real},
           NEW r \in {0, dir[n].real},
           dir' = [dir EXCEPT ![m].real = r],
           inode' = [inode EXCEPT ![dir[n].real].ctime = clock + 1],
           clock' = clock + 1, events' = events + 1
    PROVE  Altered(SameFile(dir[n].real) \cup {m})
  <1> DEFINE i == dir[n].real
  <1>1. i \in Inode /\ clock \in Nat
    BY EntryOf DEF DiskOk
  <1>2. /\ DOMAIN dir' = Name /\ \A k \in Name : k # m => dir'[k] = dir[k]
        /\ dir'[m].real = r /\ dir'[m] \in Entries
    BY <1>1, EntryOf DEF DiskOk, Entries
  <1>3. dir' \in [Name -> Entries]
    BY <1>2, EntryOf DEF DiskOk
  <1>4. DiskOk' /\ inode'[i].ctime = clock + 1 /\ \A j \in Inode : j # i => inode'[j] = inode[j]
    BY <1>1, <1>3, DiskTouched
  <1>5. ASSUME NEW k \in Name, dir'[k].real # 0, inode'[dir'[k].real].ctime <= clock
        PROVE  dir[k].real = dir'[k].real /\ inode'[dir'[k].real] = inode[dir'[k].real]
    <2>1. k # m
      BY <1>1, <1>2, <1>4, <1>5
    <2>2. QED
      BY <1>1, <1>2, <1>4, <1>5, <2>1, EntryOf
  <1>6. ASSUME NEW k \in Name \ (SameFile(i) \cup {m})
        PROVE  dir'[k] = dir[k] /\ (dir[k].real # 0 => inode'[dir[k].real] = inode[dir[k].real])
    BY <1>2, <1>4, EntryOf DEF SameFile
  <1>7. {dir'[k].real : k \in Name} \subseteq {dir[k].real : k \in Name} \cup {r}
    BY <1>2
  <1>8. QED
    BY <1>4, <1>5, <1>6, <1>7 DEF Altered, SameFile

LEMMA DeleteAlters ==
    ASSUME DiskOk, NEW n \in Name, Delete(n) \/ EvictFile(n)
    PROVE  \E ns : Altered(ns) /\ Edit(ns)
  <1>1. /\ dir[n].real # 0 /\ dir' = [dir EXCEPT ![n].real = 0]
        /\ inode' = [inode EXCEPT ![dir[n].real].ctime = clock + 1]
        /\ clock' = clock + 1 /\ events' = events + 1 /\ Edit(SameFile(dir[n].real))
    BY DEF Delete, EvictFile, Edit
  <1>2. Altered(SameFile(dir[n].real) \cup {n})
    BY <1>1, RelinkAlters
  <1>3. SameFile(dir[n].real) \cup {n} = SameFile(dir[n].real)
    BY DEF SameFile
  <1>4. QED
    BY <1>1, <1>2, <1>3

LEMMA LinkToAlters ==
    ASSUME DiskOk, NEW n \in Name, NEW m \in Name, LinkTo(n, m)
    PROVE  \E ns : Altered(ns) /\ Edit(ns)
  <1>1. /\ dir[n].real # 0 /\ dir[m].real = 0 /\ dir' = [dir EXCEPT ![m].real = dir[n].real]
        /\ inode' = [inode EXCEPT ![dir[n].real].ctime = clock + 1]
        /\ clock' = clock + 1 /\ events' = events + 1 /\ Edit(SameFile(dir[n].real) \cup {m})
    BY DEF LinkTo, Edit, Absent
  <1>2. Altered(SameFile(dir[n].real) \cup {m})
    BY <1>1, RelinkAlters
  <1>3. QED
    BY <1>1, <1>2

LEMMA PlaceholderAlters ==
    ASSUME DiskOk, NEW n \in Name, EvictPlaceholder(n) \/ DropPlaceholder(n)
    PROVE  \E ns : Altered(ns) /\ Edit(ns)
  <1>1. clock' = clock + 1 /\ events' = events + 1 /\ inode' = inode /\ Edit({n})
    BY DEF EvictPlaceholder, DropPlaceholder, Edit
  <1>2. PICK s \in StubFile : dir' = [dir EXCEPT ![n].stub = s]
    <2>1. CASE EvictPlaceholder(n)
      <3>1. Stub(inode[dir[n].real].content, inode[dir[n].real].mtime) \in StubFile
        BY <2>1, EntryOf DEF EvictPlaceholder, Stub, StubFile
      <3>2. QED
        BY <2>1, <3>1 DEF EvictPlaceholder
    <2>2. CASE DropPlaceholder(n)
      BY <2>2 DEF DropPlaceholder, StubFile
    <2>3. QED
      BY <2>1, <2>2
  <1>3. /\ DOMAIN dir' = Name /\ \A m \in Name : m # n => dir'[m] = dir[m]
        /\ dir'[n].real = dir[n].real /\ dir'[n] \in Entries
    BY <1>2, EntryOf DEF DiskOk, Entries
  <1>4. DiskOk'
    <2>1. dir' \in [Name -> Entries]
      BY <1>2, <1>3, EntryOf DEF DiskOk
    <2>2. QED
      BY <1>1, <2>1, DiskStub
  <1>5. {dir'[m].real : m \in Name} \subseteq {dir[m].real : m \in Name} \cup {0}
    BY <1>3
  <1>6. Altered({n})
    BY <1>1, <1>3, <1>4, <1>5 DEF Altered
  <1>7. QED
    BY <1>1, <1>6

LEMMA HydrateAlters ==
    ASSUME DiskOk, Room, events < MaxEvents, NEW n \in Name, HydrateFile(n)
    PROVE  \E ns : Altered(ns) /\ Edit(ns)
  <1> DEFINE i == Fresh
  <1>1. i \in Inode /\ Unused(i) /\ clock \in Nat
    BY FreshFacts DEF DiskOk
  <1>2. dir[n].stub.content \in Seq(Nat) /\ dir[n].stub.mtime \in Nat
    BY StubOf DEF HydrateFile
  <1>3. clock' = clock + 1 /\ events' = events + 1 /\ dir' = [dir EXCEPT ![n].real = i]
        /\ inode' = [inode EXCEPT ![i] = [content |-> dir[n].stub.content, mtime |-> dir[n].stub.mtime,
                                          ctime |-> clock + 1]]
    BY DEF HydrateFile, Edit
  <1>4. /\ DOMAIN dir' = Name /\ \A m \in Name : m # n => dir'[m] = dir[m]
        /\ dir'[n].real = i /\ dir'[n] \in Entries
    BY <1>1, <1>3, EntryOf DEF DiskOk, Entries
  <1>5. dir' \in [Name -> Entries]
    BY <1>3, <1>4, EntryOf DEF DiskOk
  <1>6. DiskOk' /\ inode'[i].ctime = clock + 1 /\ \A j \in Inode : j # i => inode'[j] = inode[j]
    BY <1>1, <1>2, <1>3, <1>5, DiskWritten
  <1>7. Altered({n})
    <2>1. ASSUME NEW m \in Name, dir'[m].real # 0, inode'[dir'[m].real].ctime <= clock
          PROVE  dir[m].real = dir'[m].real /\ inode'[dir'[m].real] = inode[dir'[m].real]
      BY <1>1, <1>4, <1>6, <2>1, EntryOf
    <2>2. ASSUME NEW m \in Name \ {n}
          PROVE  dir'[m] = dir[m] /\ (dir[m].real # 0 => inode'[dir[m].real] = inode[dir[m].real])
      BY <1>1, <1>4, <1>6, EntryOf DEF Unused, SameFile
    <2>3. {dir'[m].real : m \in Name} \subseteq {dir[m].real : m \in Name} \cup {i}
      BY <1>4
    <2>4. QED
      BY <1>3, <1>6, <2>1, <2>2, <2>3 DEF Altered
  <1>8. QED
    BY <1>7 DEF HydrateFile

LEMMA OwnerAlters ==
    ASSUME DiskOk, Room, Owner
    PROVE  \E ns : Altered(ns) /\ Edit(ns)
  <1>1. PICK n \in Name :
          \/ Write(n) \/ Replace(n) \/ Delete(n) \/ \E m \in Name : LinkTo(n, m)
          \/ EvictPlaceholder(n) \/ EvictFile(n) \/ HydrateFile(n) \/ DropPlaceholder(n)
    BY DEF Owner
  <1>2. events < MaxEvents
    BY DEF Owner
  <1>3. QED
    BY <1>1, <1>2, WriteAlters, ReplaceAlters, DeleteAlters, LinkToAlters, PlaceholderAlters, HydrateAlters

LEMMA VersionBefore ==
    ASSUME NEW ns, Altered(ns), NEW n \in Name, NEW node, node.ctime <= clock, SameVersion(n, node)'
    PROVE  /\ SameVersion(n, node) /\ dir'[n].real = dir[n].real
           /\ inode'[dir'[n].real] = inode[dir[n].real]
  BY DEF Altered, SameVersion

LEMMA VersionAfter ==
    ASSUME NEW ns, Altered(ns), NEW n \in Name \ ns, NEW node, SameVersion(n, node)
    PROVE  SameVersion(n, node)'
  BY DEF Altered, SameVersion

LEMMA TrueStays ==
    ASSUME DiskOk, NEW ns, Altered(ns), NEW n \in Name, NEW node, True(n, node)
    PROVE  True(n, node)'
  <1>1. node \in Node /\ node.ctime <= clock /\ node.ctime \in Nat /\ clock \in Nat
    BY DEF True, Node, DiskOk
  <1>2. node.ctime <= clock'
    BY <1>1 DEF Altered
  <1>3. SameVersion(n, node)' => node.content = inode'[dir'[n].real].content
    BY <1>1, VersionBefore DEF True
  <1>4. QED
    BY <1>1, <1>2, <1>3 DEF True

LEMMA DisturbFields ==
    ASSUME JobShape, Going, NEW ns, Edit(ns)
    PROVE  /\ DOMAIN job' = JobFields
           /\ \A f \in JobFields \ {"quiet", "present"} : job'[f] = job[f]
           /\ job'.quiet = job.quiet \ ns
           /\ job'.present = job.present \ {n \in Name : dir'[n] = Absent}
  <1>1. job' = [job EXCEPT !.quiet = @ \ ns, !.present = @ \ {n \in Name : dir'[n] = Absent}]
    BY DEF Edit, Disturb, Going
  <1>2. DOMAIN job = JobFields
    BY DEF JobShape, Going
  <1>3. QED
    BY <1>1, <1>2 DEF JobFields

LEMMA OtherFields ==
    ASSUME \A f \in JobFields \ {"quiet", "present"} : job'[f] = job[f]
    PROVE  /\ job'.parent = job.parent /\ job'.resumed = job.resumed
           /\ job'.listing = job.listing /\ job'.todo = job.todo
           /\ job'.index = job.index /\ job'.fresh = job.fresh /\ job'.pack = job.pack
           /\ job'.flying = job.flying /\ job'.failed = job.failed /\ job'.aborted = job.aborted
           /\ job'.skipped = job.skipped /\ job'.seen = job.seen
  BY DEF JobFields

LEMMA OwnerRecords ==
    ASSUME DiskOk, RecordsTrue, NEW ns, Altered(ns), Edit(ns)
    PROVE  RecordsTrue'
  <1>1. journal' = journal /\ snaps' = snaps
    BY DEF Edit, bucket
  <1>2. \A k \in DOMAIN journal : journal[k].name \in Name
    BY JournalAt
  <1>3. \A k \in DOMAIN snaps : DOMAIN snaps[k].nodes \subseteq Name
    BY SnapAt
  <1>4. QED
    BY <1>1, <1>2, <1>3, TrueStays DEF RecordsTrue

LEMMA OwnerJob ==
    ASSUME JobShape, NEW ns, Edit(ns)
    PROVE  JobShape'
  <1>1. pc' = pc /\ work' = work
    BY DEF Edit
  <1>2. CASE Going
    BY <1>1, <1>2, DisturbFields, OtherFields DEF JobShape, Going
  <1>3. CASE ~Going
    <2>1. job' = job
      BY <1>3 DEF Edit, Disturb, Going
    <2>2. QED
      BY <1>1, <1>3, <2>1 DEF JobShape, Going
  <1>4. QED
    BY <1>2, <1>3

LEMMA OwnerStage ==
    ASSUME JobShape, StageOk, NEW ns, Edit(ns)
    PROVE  StageOk'
  <1>1. pc' = pc /\ work' = work
    BY DEF Edit
  <1>2. CASE Going
    BY <1>1, <1>2, DisturbFields, OtherFields DEF StageOk
  <1>3. CASE ~Going
    BY <1>1, <1>3 DEF StageOk, Going
  <1>4. QED
    BY <1>2, <1>3

LEMMA OwnerBlobs ==
    ASSUME JobShape, BlobsOk, NEW ns, Edit(ns)
    PROVE  BlobsOk'
  <1>1. pc' = pc /\ work' = work /\ stored' = stored /\ durable' = durable /\ snaps' = snaps
    BY DEF Edit, bucket
  <1>2. Nodes' = Nodes /\ \A n : Task(n)' = Task(n)
    BY <1>1 DEF Nodes, Task
  <1>3. CASE Going
    <2>1. Known' = Known
      BY <1>1, <1>3, DisturbFields, OtherFields DEF Known
    <2>2. QED
      BY <1>1, <1>2, <1>3, <2>1, DisturbFields, OtherFields DEF BlobsOk, Going
  <1>4. CASE ~Going
    <2>1. job' = job
      BY <1>4 DEF Edit, Disturb, Going
    <2>2. QED
      BY <1>1, <1>4, <2>1 DEF BlobsOk, Going
  <1>5. QED
    BY <1>3, <1>4

LEMMA OwnerEarlier ==
    ASSUME DiskOk, JobShape, EarlierTrue, NEW ns, Altered(ns), Edit(ns)
    PROVE  EarlierTrue'
  <1>1. pc' = pc
    BY DEF Edit
  <1>2. CASE Going
    <2>1. job'.parent = job.parent /\ job'.resumed = job.resumed
      BY <1>2, DisturbFields, OtherFields
    <2>2. \A n \in DOMAIN job.parent : n \in Name
      BY <1>2, EarlierAt
    <2>3. \A k \in DOMAIN job.resumed : job.resumed[k].name \in Name
      BY <1>2, EarlierAt
    <2>4. QED
      BY <1>2, <2>1, <2>2, <2>3, TrueStays DEF EarlierTrue
  <1>3. CASE ~Going
    BY <1>1, <1>3 DEF EarlierTrue, Going
  <1>4. QED
    BY <1>2, <1>3

LEMMA TaskStays ==
    ASSUME DiskOk, JobShape, Going, NEW ns, Altered(ns), Edit(ns), NEW n \in Name, NEW w,
           TaskOk(n, w), w.at \in {"file", "stub", "read", "done"} => w.node.ctime \in Nat
    PROVE  TaskOk(n, w)'
  <1>1. job'.quiet = job.quiet \ ns /\ clock \in Nat /\ clock' = clock + 1
    BY DisturbFields DEF DiskOk, Altered
  <1>2. ASSUME NEW node, Statted(n, node), node.ctime \in Nat
        PROVE  Statted(n, node)'
    <2>1. node.ctime <= clock /\ node.ctime <= clock'
      BY <1>1, <1>2 DEF Statted
    <2>2. SameVersion(n, node)' => node.mtime = inode'[dir'[n].real].mtime
      BY <1>2, <2>1, VersionBefore DEF Statted
    <2>3. n \in job'.quiet => SameVersion(n, node)'
      BY <1>1, <1>2, VersionAfter DEF Statted
    <2>4. QED
      BY <1>2, <2>1, <2>2, <2>3 DEF Statted
  <1>3. ASSUME NEW node, StandsFor(n, node), node.ctime \in Nat
        PROVE  StandsFor(n, node)'
    <2>1. node.ctime <= clock'
      BY <1>1, <1>3 DEF StandsFor
    <2>2. n \in job'.quiet => dir'[n] = dir[n] /\ n \in job.quiet
      BY <1>1 DEF Altered
    <2>3. QED
      BY <1>3, <2>1, <2>2 DEF StandsFor
  <1>4. QED
    BY <1>2, <1>3, TrueStays, VersionBefore DEF TaskOk, Statted

LEMMA OwnerWorkers ==
    ASSUME DiskOk, JobShape, WorkersOk, NEW ns, Altered(ns), Edit(ns)
    PROVE  WorkersOk'
  <1>1. pc' = pc /\ work' = work /\ \A n : Task(n)' = Task(n)
    BY DEF Edit, Task
  <1>2. ASSUME Going, NEW n \in Name
        PROVE  TaskOk(n, Task(n))'
    <2>1. Task(n).at \in {"file", "stub", "read", "done"} => Task(n).node.ctime \in Nat
      BY TaskShape DEF Node
    <2>2. TaskOk(n, Task(n))
      BY <1>2 DEF WorkersOk
    <2>3. \A w : w = Task(n) => TaskOk(n, w)'
      BY <1>2, <2>1, <2>2, TaskStays
    <2>4. QED
      BY <1>1, <2>3
  <1>3. QED
    BY <1>1, <1>2 DEF WorkersOk, Going

LEMMA OwnerWalk ==
    ASSUME DiskOk, JobShape, WalkOk, NEW ns, Altered(ns), Edit(ns)
    PROVE  WalkOk'
  <1>1. pc' = pc /\ work' = work
    BY DEF Edit
  <1>2. ASSUME Going, NEW n \in Name
        PROVE  /\ Listed(n)' = Listed(n) /\ Due(n)' = Due(n) /\ Visited(n)' = Visited(n)
               /\ job'.listing = job.listing /\ job'.skipped = job.skipped /\ job'.seen = job.seen
               /\ job'.quiet = job.quiet \ ns
               /\ job'.present = job.present \ {m \in Name : dir'[m] = Absent}
    BY <1>1, <1>2, DisturbFields, OtherFields DEF Listed, Due, Visited
  <1>3. ASSUME Going, NEW n \in Name, n \in job'.quiet
        PROVE  /\ job'.seen[n] = OnDisk(n)'
               /\ <<n, 0>> \in job'.listing <=> dir'[n].real # 0
               /\ <<n, 1>> \in job'.listing <=> dir'[n].stub.here
               /\ Listed(n)' => n \in job'.present
    <2>1. n \in job.quiet /\ n \notin ns
      BY <1>2, <1>3
    <2>2. dir'[n] = dir[n] /\ (dir[n].real # 0 => inode'[dir[n].real] = inode[dir[n].real])
      BY <2>1 DEF Altered
    <2>3. OnDisk(n)' = OnDisk(n)
      BY <2>2 DEF OnDisk
    <2>4. /\ job.seen[n] = OnDisk(n)
          /\ <<n, 0>> \in job.listing <=> dir[n].real # 0
          /\ <<n, 1>> \in job.listing <=> dir[n].stub.here
          /\ Listed(n) => n \in job.present
      BY <1>3, <2>1 DEF WalkOk
    <2>5. Listed(n) => dir[n] # Absent
      BY <2>4 DEF Listed, Absent, NoStub
    <2>6. QED
      BY <1>2, <1>3, <2>2, <2>3, <2>4, <2>5
  <1>4. QED
    BY <1>1, <1>2, <1>3 DEF WalkOk, Going

LEMMA OwnerStep ==
    ASSUME ArchiveInv, Owner
    PROVE  ArchiveInv'
  <1>1. PICK ns : Altered(ns) /\ Edit(ns)
    BY OwnerAlters DEF ArchiveInv
  <1>2. Room'
    <2>1. work' = work /\ events' = events + 1 /\ events \in Nat
      BY <1>1 DEF Edit, ArchiveInv, DiskOk
    <2>2. PICK x : {dir'[n].real : n \in Name} \subseteq {dir[n].real : n \in Name} \cup {x}
      BY <1>1 DEF Altered
    <2>3. Used' \subseteq Used \cup {x}
      BY <2>1, <2>2 DEF Used, Handle
    <2>4. QED
      BY <2>1, <2>3, RoomGrows DEF ArchiveInv
  <1>3. SnapshotIsDisk' /\ Accounted'
    BY <1>1 DEF Edit, bucket, ArchiveInv, SnapshotIsDisk, Accounted
  <1>4. DiskOk'
    BY <1>1 DEF Altered
  <1>5. QED
    BY <1>1, <1>2, <1>3, <1>4, OwnerRecords, OwnerJob, OwnerStage, OwnerBlobs, OwnerEarlier,
       OwnerWorkers, OwnerWalk DEF ArchiveInv

-----------------------------------------------------------------------------
(* A worker takes a step. *)

Uploading == {k \in Name : work[k].at = "upload"}
OnTheWay == UNION {work[m].up : m \in Uploading}

Recording ==
    \/ journal' = journal
    \/ \E e \in Entry : True(e.name, e.node) /\ journal' = Append(journal, e)

(* What a step of n's worker does, as far as the others can tell. *)
Advance(n) ==
    /\ pc = "walk" /\ pc' = "walk" /\ UNCHANGED <<disk, durable, snaps>>
    /\ events' \in {events, events + 1}
    /\ work[n].at \in {"file", "stub", "read", "upload"}
    /\ DOMAIN work' = Name /\ \A m \in Name \ {n} : work'[m] = work[m]
    /\ WorkShape(work'[n]) /\ work'[n].at # "none"
    /\ work'[n].at = "skipped" => n \in job'.skipped
    /\ Handle(n)' \in {0, Handle(n), dir[n].real}
    /\ DOMAIN job' = JobFields
    /\ job'.parent = job.parent /\ job'.resumed = job.resumed
    /\ job'.listing = job.listing /\ job'.todo = job.todo /\ job'.aborted = job.aborted
    /\ job'.quiet = job.quiet /\ job'.present = job.present /\ job'.seen = job.seen
    /\ job'.failed \in BOOLEAN
    /\ job.skipped \subseteq job'.skipped /\ job'.skipped \subseteq Name
    /\ stored \subseteq stored' /\ job.index \subseteq job'.index
    /\ job'.index \subseteq stored' /\ job'.fresh \subseteq stored'
    /\ job'.index \subseteq durable \cup job'.fresh
    /\ Known \subseteq Known'
    /\ job'.failed \/ job'.flying \subseteq OnTheWay'
    /\ TaskOk(n, Task(n))'
    /\ Task(n)'.at = "read" => Chunks(Task(n)'.got) \subseteq Known'
    /\ Task(n)'.at = "done" => Chunks(Task(n)'.node.content) \subseteq Known'
    /\ Recording

LEMMA TrueSame ==
    ASSUME UNCHANGED disk, NEW n, NEW node
    PROVE  True(n, node)' <=> True(n, node)
  BY DEF disk, True, SameVersion

LEMMA RecordingKeeps ==
    ASSUME RecordsTrue, UNCHANGED disk, UNCHANGED snaps, Recording
    PROVE  RecordsTrue'
  <1>1. \A n, node : True(n, node)' <=> True(n, node)
    BY TrueSame
  <1>2. CASE journal' = journal
    BY <1>1, <1>2 DEF RecordsTrue
  <1>3. ASSUME NEW e \in Entry, True(e.name, e.node), journal' = Append(journal, e)
        PROVE  RecordsTrue'
    <2>1. journal \in Seq(Entry)
      BY DEF RecordsTrue
    <2>2. /\ journal' \in Seq(Entry) /\ DOMAIN journal' = 1..(Len(journal) + 1)
          /\ journal'[Len(journal) + 1] = e /\ Len(journal) \in Nat
          /\ \A k \in 1..Len(journal) : journal'[k] = journal[k]
          /\ DOMAIN journal = 1..Len(journal)
      BY <1>3, <2>1
    <2>3. \A k \in DOMAIN journal' : k = Len(journal) + 1 \/ k \in 1..Len(journal)
      BY <2>2
    <2>4. ASSUME NEW k \in DOMAIN journal'
          PROVE  True(journal'[k].name, journal'[k].node)
      <3>1. CASE k = Len(journal) + 1
        BY <1>3, <2>2, <3>1
      <3>2. CASE k \in 1..Len(journal)
        BY <2>2, <3>2 DEF RecordsTrue
      <3>3. QED
        BY <2>3, <3>1, <3>2
    <2>5. QED
      BY <1>1, <2>2, <2>4 DEF RecordsTrue
  <1>4. QED
    BY <1>2, <1>3 DEF Recording

LEMMA AdvanceJob ==
    ASSUME JobShape, NEW n \in Name, Advance(n)
    PROVE  JobShape' /\ StageOk' /\ Going /\ Going'
  <1>1. Going /\ Going'
    BY DEF Going, Advance
  <1>2. \A m \in Name : WorkShape(work'[m])
    BY DEF JobShape, Advance
  <1>3. \A m \in Name : WorkShape(work[m])'
    BY <1>2 DEF WorkShape
  <1>4. /\ job'.todo \subseteq job'.listing /\ job'.listing \subseteq Name \X {0, 1}
        /\ job'.parent \in NodeMap /\ job'.resumed \in UNION {[D -> Entry] : D \in SUBSET Nat}
        /\ job'.skipped \subseteq Name /\ job'.quiet \subseteq Name /\ job'.present \subseteq Name
        /\ job'.seen \in [Name -> Seen] /\ job'.failed \in BOOLEAN /\ job'.aborted \in BOOLEAN
    BY <1>1 DEF JobShape, Advance
  <1>5. pc' = "walk" /\ DOMAIN work' = Name /\ DOMAIN job' = JobFields
    BY DEF Advance
  <1>6. JobShape'
    BY <1>1, <1>3, <1>4, <1>5 DEF JobShape
  <1>7. QED
    BY <1>1, <1>5, <1>6 DEF StageOk

LEMMA AdvanceBlobs ==
    ASSUME JobShape, BlobsOk, NEW n \in Name, Advance(n)
    PROVE  BlobsOk'
  <1>1. Going /\ Going' /\ pc' = "walk" /\ pc = "walk" /\ durable' = durable /\ snaps' = snaps
    BY DEF Going, Advance
  <1>2. \A m \in Name \ {n} : Task(m)' = Task(m)
    BY DEF Advance, Task
  <1>3. /\ durable \subseteq stored /\ stored \subseteq stored'
        /\ job'.index \subseteq stored' /\ job'.fresh \subseteq stored'
        /\ job'.index \subseteq durable \cup job'.fresh /\ job.index \subseteq job'.index
        /\ Known \subseteq Known' /\ job'.parent = job.parent /\ job'.resumed = job.resumed
    BY DEF BlobsOk, Advance
  <1>4. job'.failed \/ job'.flying \subseteq OnTheWay'
    BY DEF Advance
  <1>5. ASSUME NEW m \in Name
        PROVE  /\ Task(m)'.at = "read" => Chunks(Task(m)'.got) \subseteq Known'
               /\ Task(m)'.at = "done" => Chunks(Task(m)'.node.content) \subseteq Known'
    <2>1. CASE m = n
      BY <2>1 DEF Advance
    <2>2. CASE m # n
      <3>1. /\ Task(m).at = "read" => Chunks(Task(m).got) \subseteq Known
            /\ Task(m).at = "done" => Chunks(Task(m).node.content) \subseteq Known
        BY <1>1 DEF BlobsOk
      <3>2. QED
        BY <1>2, <1>3, <2>2, <3>1
    <2>3. QED
      BY <2>1, <2>2
  <1>6. /\ \A m \in DOMAIN job'.parent : Chunks(job'.parent[m].content) \subseteq job'.index
        /\ \A k \in DOMAIN job'.resumed : Chunks(job'.resumed[k].node.content) \subseteq job'.index
    BY <1>1, <1>3 DEF BlobsOk
  <1>7. \A k \in DOMAIN snaps' : Reach(snaps'[k]) \subseteq durable'
    BY <1>1 DEF BlobsOk
  <1>8. QED
    BY <1>1, <1>3, <1>4, <1>5, <1>6, <1>7 DEF BlobsOk, OnTheWay, Uploading

LEMMA AdvanceWorkers ==
    ASSUME JobShape, WorkersOk, NEW n \in Name, Advance(n)
    PROVE  WorkersOk'
  <1>1. /\ Going /\ UNCHANGED <<dir, inode, clock>> /\ job'.quiet = job.quiet
        /\ \A m \in Name \ {n} : Task(m)' = Task(m)
    BY DEF Going, Advance, Task, disk
  <1>2. ASSUME NEW m \in Name \ {n}
        PROVE  TaskOk(m, Task(m))'
    <2>1. TaskOk(m, Task(m))
      BY <1>1 DEF WorkersOk
    <2>2. QED
      BY <1>1, <2>1 DEF TaskOk, Statted, StandsFor, True, SameVersion
  <1>3. TaskOk(n, Task(n))'
    BY DEF Advance
  <1>4. QED
    BY <1>2, <1>3 DEF WorkersOk

LEMMA AdvanceWalk ==
    ASSUME JobShape, WalkOk, NEW n \in Name, Advance(n)
    PROVE  WalkOk'
  <1>1. Going /\ UNCHANGED <<dir, inode>>
    BY DEF Going, Advance, disk
  <1>2. ASSUME NEW m \in Name
        PROVE  /\ Listed(m)' = Listed(m) /\ Due(m)' = Due(m) /\ (Visited(m) => Visited(m)')
               /\ OnDisk(m)' = OnDisk(m)
               /\ work'[m].at = "none" <=> work[m].at = "none"
               /\ (work'[m].at = "skipped" => work[m].at = "skipped" \/ m \in job'.skipped)
    BY <1>1 DEF Listed, Due, Visited, OnDisk, Advance
  <1>3. /\ job'.present = job.present /\ job'.quiet = job.quiet /\ job'.listing = job.listing
        /\ job'.seen = job.seen /\ job.skipped \subseteq job'.skipped
    BY DEF Advance
  <1>4. QED
    BY <1>1, <1>2, <1>3 DEF WalkOk

LEMMA AdvanceKeeps ==
    ASSUME ArchiveInv, NEW n \in Name, Advance(n)
    PROVE  ArchiveInv'
  <1>1. UNCHANGED <<disk, dir, inode, clock, snaps>> /\ events' \in {events, events + 1} /\ events \in Nat
    BY DEF Advance, disk, ArchiveInv, DiskOk
  <1>2. DiskOk'
    BY <1>1 DEF ArchiveInv, DiskOk
  <1>3. Room'
    <2>1. \A m \in Name \ {n} : Handle(m)' = Handle(m)
      BY DEF Advance, Handle
    <2>2. Handle(n)' \in {0, Handle(n), dir[n].real}
      BY DEF Advance
    <2>3. Used' \subseteq Used
      BY <1>1, <2>1, <2>2 DEF Used
    <2>4. QED
      BY <1>1, <2>3, RoomStays DEF ArchiveInv
  <1>4. RecordsTrue'
    BY <1>1, RecordingKeeps DEF Advance, ArchiveInv
  <1>5. EarlierTrue'
    <2>1. job'.parent = job.parent /\ job'.resumed = job.resumed /\ Going
      BY DEF Advance, Going
    <2>2. QED
      BY <1>1, <2>1, TrueSame DEF EarlierTrue, ArchiveInv
  <1>6. SnapshotIsDisk' /\ Accounted'
    BY <1>1 DEF ArchiveInv, SnapshotIsDisk, Accounted
  <1>7. QED
    BY <1>2, <1>3, <1>4, <1>5, <1>6, AdvanceJob, AdvanceBlobs, AdvanceWorkers, AdvanceWalk DEF ArchiveInv

LEMMA Walking ==
    ASSUME ArchiveInv, NEW n \in Name, work[n].at \in {"file", "stub", "read", "upload"}
    PROVE  /\ pc = "walk" /\ Going /\ DOMAIN job = JobFields /\ TaskOk(n, Task(n))
           /\ Known = job.index \cup job.pack \cup job.flying
           /\ Task(n).at = "read" => Chunks(Task(n).got) \subseteq Known
           /\ events \in Nat /\ clock \in Nat
  <1>1. pc = "walk"
    BY DEF ArchiveInv, StageOk, JobShape
  <1>2. Going /\ DOMAIN job = JobFields /\ Known = job.index \cup job.pack \cup job.flying
    BY <1>1 DEF Going, ArchiveInv, JobShape, Known
  <1>3. TaskOk(n, Task(n)) /\ (Task(n).at = "read" => Chunks(Task(n).got) \subseteq Known)
    BY <1>2 DEF ArchiveInv, WorkersOk, BlobsOk
  <1>4. events \in Nat /\ clock \in Nat
    BY DEF ArchiveInv, DiskOk
  <1>5. QED
    BY <1>1, <1>2, <1>3, <1>4

(* A step that stores nothing, and what it makes of n's worker. *)
Light(n, w) ==
    /\ work[n].at \in {"file", "stub", "read"} /\ Worker
    /\ work' = [work EXCEPT ![n] = w] /\ WorkShape(w) /\ w.at \in {"skipped", "error", "done", "read"}
    /\ \/ job' = job /\ w.at # "skipped"
       \/ job' = [job EXCEPT !.skipped = @ \cup {n}]
    /\ events' \in {events, events + 1}
    /\ TaskOk(n, w)
    /\ w.at = "read" => w.handle \in {0, Handle(n), dir[n].real} /\ Chunks(w.got) \subseteq Known
    /\ w.at = "done" => Chunks(w.node.content) \subseteq Known
    /\ Recording

LEMMA LightStep ==
    ASSUME ArchiveInv, NEW n \in Name, NEW w, Light(n, w)
    PROVE  Advance(n)
  <1> USE DEF Light
  <1>1. pc = "walk" /\ Going /\ DOMAIN job = JobFields
    BY Walking
  <1>2. pc' = "walk" /\ UNCHANGED <<disk, durable, snaps>> /\ stored' = stored /\ UNCHANGED <<dir, inode, clock>>
    BY <1>1 DEF Worker, bucket, disk
  <1>3. /\ DOMAIN work' = Name /\ work'[n] = w /\ \A m \in Name \ {n} : work'[m] = work[m]
    BY DEF ArchiveInv, JobShape
  <1>4. /\ DOMAIN job' = JobFields
        /\ \A f \in JobFields \ {"skipped"} : job'[f] = job[f]
        /\ job.skipped \subseteq job'.skipped /\ job'.skipped \subseteq job.skipped \cup {n}
        /\ w.at = "skipped" => n \in job'.skipped
    BY <1>1 DEF JobFields
  <1>5. /\ job'.parent = job.parent /\ job'.resumed = job.resumed
        /\ job'.listing = job.listing /\ job'.todo = job.todo /\ job'.aborted = job.aborted
        /\ job'.quiet = job.quiet /\ job'.present = job.present /\ job'.seen = job.seen
        /\ job'.failed = job.failed /\ job'.index = job.index /\ job'.fresh = job.fresh
        /\ job'.flying = job.flying /\ job'.pack = job.pack
    BY <1>4 DEF JobFields
  <1>6. job'.failed \in BOOLEAN /\ job'.skipped \subseteq Name
    BY <1>1, <1>4, <1>5 DEF ArchiveInv, JobShape
  <1>7. job'.index \subseteq stored' /\ job'.fresh \subseteq stored' /\ job'.index \subseteq durable \cup job'.fresh
    BY <1>1, <1>2, <1>5 DEF ArchiveInv, BlobsOk, Going
  <1>8. Known' = Known
    BY <1>1, <1>2, <1>5 DEF Known
  <1>9. job'.failed \/ job'.flying \subseteq OnTheWay'
    <2>1. Uploading' = Uploading /\ n \notin Uploading
      BY <1>3 DEF Uploading
    <2>2. OnTheWay' = OnTheWay
      BY <1>3, <2>1 DEF OnTheWay, Uploading
    <2>3. job.failed \/ job.flying \subseteq OnTheWay
      BY <1>1 DEF ArchiveInv, BlobsOk, OnTheWay, Uploading
    <2>4. QED
      BY <1>5, <2>2, <2>3
  <1>10. Task(n)' = w
    BY <1>3 DEF Task
  <1>11. TaskOk(n, Task(n))'
    BY <1>2, <1>5, <1>10 DEF TaskOk, Statted, StandsFor, True, SameVersion
  <1>12. Handle(n)' \in {0, Handle(n), dir[n].real}
    BY <1>3 DEF Handle
  <1>13. WorkShape(work'[n]) /\ work'[n].at # "none" /\ (work'[n].at = "skipped" => n \in job'.skipped)
    BY <1>3, <1>4
  <1>14. /\ Task(n)'.at = "read" => Chunks(Task(n)'.got) \subseteq Known'
         /\ Task(n)'.at = "done" => Chunks(Task(n)'.node.content) \subseteq Known'
    BY <1>8, <1>10
  <1>15. work[n].at \in {"file", "stub", "read", "upload"}
    OBVIOUS
  <1>16. QED
    BY <1>1, <1>2, <1>3, <1>4, <1>5, <1>6, <1>7, <1>8, <1>9, <1>11, <1>12, <1>13, <1>14, <1>15
       DEF Advance

LEMMA FailedStep ==
    ASSUME ArchiveInv, NEW n \in Name, work[n].at \in {"file", "stub", "read"}, Worker,
           events' \in {events, events + 1}, journal' = journal,
           \/ SourceError(n)
           \/ work' = [work EXCEPT ![n] = [at |-> "error"]] /\ job' = job
    PROVE  Advance(n)
  <1>1. PICK w \in {[at |-> "skipped"], [at |-> "error"]} :
          /\ work' = [work EXCEPT ![n] = w]
          /\ \/ job' = job /\ w.at # "skipped"
             \/ job' = [job EXCEPT !.skipped = @ \cup {n}]
    BY DEF SourceError
  <1>2. w.at \in {"skipped", "error"} /\ WorkShape(w)
    BY DEF WorkShape
  <1>3. TaskOk(n, w)
    BY <1>2 DEF TaskOk
  <1>4. Recording
    BY DEF Recording
  <1>5. w.at \in {"skipped", "error", "done", "read"} /\ w.at # "read" /\ w.at # "done"
    BY <1>2
  <1>6. Light(n, w)
    BY <1>1, <1>2, <1>3, <1>4, <1>5 DEF Light
  <1>7. QED
    BY <1>6, LightStep

(* An earlier node of n: true, and its chunks are in the repository. *)
LEMMA EarlierFacts ==
    ASSUME ArchiveInv, Going, NEW n \in Name, NEW old \in Earlier(n)
    PROVE  old \in Node /\ True(n, old) /\ Chunks(old.content) \subseteq job.index
  <1>1. CASE n \in DOMAIN job.parent /\ old = job.parent[n]
    BY <1>1, EarlierAt DEF ArchiveInv, EarlierTrue, BlobsOk
  <1>2. CASE \E k \in DOMAIN job.resumed : job.resumed[k].name = n /\ old = job.resumed[k].node
    BY <1>2, EarlierAt DEF ArchiveInv, EarlierTrue, BlobsOk
  <1>3. old \in Resumed(n) => \E k \in DOMAIN job.resumed : job.resumed[k].name = n /\ old = job.resumed[k].node
    BY DEF Resumed
  <1>4. QED
    BY <1>1, <1>2, <1>3 DEF Earlier

LEMMA UnchangedAdvances ==
    ASSUME ArchiveInv, NEW n \in Name, Unchanged(n)
    PROVE  Advance(n)
  <1>1. work[n].at = "file" /\ Worker /\ job' = job /\ journal' = journal /\ events' = events
    BY DEF Unchanged
  <1>2. PICK old \in Earlier(n) :
            /\ same_content(old, work[n].node)
            /\ Done(n, [work[n].node EXCEPT !.content = old.content, !.hash = old.hash])
    BY DEF Unchanged
  <1> DEFINE node == work[n].node
             new == [node EXCEPT !.content = old.content, !.hash = old.hash]
             w == [at |-> "done", node |-> new]
  <1>3. pc = "walk" /\ Going /\ Task(n) = work[n] /\ TaskOk(n, Task(n)) /\ node \in Node
        /\ Known = job.index \cup job.pack \cup job.flying
    BY <1>1, Walking, TaskShape DEF ArchiveInv
  <1>4. Statted(n, node) /\ (SameVersion(n, node) => node.size = Len(inode[dir[n].real].content))
    BY <1>1, <1>3 DEF TaskOk
  <1>5. old \in Node /\ True(n, old) /\ Chunks(old.content) \subseteq job.index
    BY <1>3, EarlierFacts
  <1>6. /\ new \in Node /\ new.content = old.content /\ new.hash = old.hash /\ new.size = node.size
        /\ new.mtime = node.mtime /\ new.ctime = node.ctime /\ new.inode = node.inode
        /\ new.offloaded = node.offloaded
    BY <1>3, <1>5 DEF Node
  <1>7. ~old.offloaded /\ old.size = node.size /\ old.inode = node.inode /\ old.ctime = node.ctime
    BY <1>2 DEF same_content
  <1> HIDE DEF new
  <1>8. Statted(n, new)
    BY <1>4, <1>6 DEF Statted, SameVersion
  <1>9. True(n, new)
    <2>1. SameVersion(n, new) => SameVersion(n, old)
      BY <1>6, <1>7 DEF SameVersion
    <2>2. new.ctime <= clock
      BY <1>4, <1>6 DEF Statted
    <2>3. QED
      BY <1>5, <1>6, <1>7, <2>1, <2>2 DEF True
  <1>10. TaskOk(n, w)
    BY <1>8, <1>9 DEF TaskOk
  <1>11. WorkShape(w) /\ w.at = "done"
    BY <1>6 DEF WorkShape
  <1>12. work' = [work EXCEPT ![n] = w]
    BY <1>2 DEF Done, new
  <1>13. Chunks(w.node.content) \subseteq Known
    BY <1>3, <1>5, <1>6
  <1>14. Recording
    BY <1>1 DEF Recording
  <1> HIDE DEF w, node
  <1>15. Light(n, w)
    BY <1>1, <1>10, <1>11, <1>12, <1>13, <1>14 DEF Light
  <1>16. QED
    BY <1>15, LightStep

LEMMA OpenAdvances ==
    ASSUME ArchiveInv, NEW n \in Name, Open(n)
    PROVE  Advance(n)
  <1>1. work[n].at = "file" /\ Worker /\ journal' = journal /\ events' = events
    BY DEF Open
  <1>2. CASE dir[n].real = 0
    BY <1>1, <1>2, FailedStep DEF Open
  <1>3. CASE dir[n].real # 0
    <2> DEFINE w == [at |-> "read", node |-> work[n].node, handle |-> dir[n].real, source |-> <<>>, got |-> <<>>]
    <2>1. work' = [work EXCEPT ![n] = w] /\ job' = job
      BY <1>3 DEF Open
    <2>2. Task(n) = work[n] /\ TaskOk(n, Task(n)) /\ work[n].node \in Node
      BY <1>1, Walking, TaskShape DEF ArchiveInv
    <2>3. Statted(n, work[n].node)
      BY <1>1, <2>2 DEF TaskOk
    <2>4. dir[n].real \in Inode /\ inode[dir[n].real].content \in Seq(Nat)
      BY <1>3, EntryOf DEF ArchiveInv
    <2>5. <<>> \in Seq(Nat) /\ Len(<<>>) = 0 /\ Chunks(<<>>) = {}
      BY EmptySeq DEF Chunks
    <2>6. WorkShape(w) /\ w.at = "read" /\ w.handle = dir[n].real
      BY <2>2, <2>4, <2>5 DEF WorkShape, Reading
    <2>7. PrefixOf(w.got, inode[dir[n].real].content)
      BY <2>4, <2>5, LenProperties DEF PrefixOf
    <2>8. TaskOk(n, w)
      BY <1>3, <2>3, <2>6, <2>7 DEF TaskOk
    <2>9. Chunks(w.got) \subseteq Known
      BY <2>5
    <2>10. Recording
      BY <1>1 DEF Recording
    <2> HIDE DEF w
    <2>11. Light(n, w)
      BY <1>1, <2>1, <2>6, <2>8, <2>9, <2>10 DEF Light
    <2>12. QED
      BY <2>11, LightStep
  <1>4. QED
    BY <1>2, <1>3

(* What an offloaded node becomes, once its content is known. *)
LEMMA StubDone ==
    ASSUME NEW n, NEW node \in Node, StandsFor(n, node), NEW new,
           new = [node EXCEPT !.content = node.hash]
    PROVE  /\ new \in Node /\ new.content = node.hash
           /\ True(n, new) /\ StandsFor(n, new)
           /\ TaskOk(n, [at |-> "done", node |-> new]) /\ WorkShape([at |-> "done", node |-> new])
  <1>1. /\ new \in Node /\ new.content = node.hash /\ new.hash = node.hash /\ new.size = node.size
        /\ new.mtime = node.mtime /\ new.ctime = node.ctime /\ new.offloaded = node.offloaded
    BY DEF Node
  <1>2. StandsFor(n, new)
    BY <1>1 DEF StandsFor
  <1>3. True(n, new)
    BY <1>1, <1>2 DEF True, SameVersion, StandsFor
  <1>4. TaskOk(n, [at |-> "done", node |-> new])
    BY <1>2, <1>3 DEF TaskOk
  <1>5. WorkShape([at |-> "done", node |-> new])
    BY <1>1 DEF WorkShape
  <1>6. QED
    BY <1>1, <1>2, <1>3, <1>4, <1>5

LEMMA ReuseAdvances ==
    ASSUME ArchiveInv, NEW n \in Name, ReuseOffloaded(n)
    PROVE  Advance(n)
  <1> DEFINE node == work[n].node
  <1>1. work[n].at = "stub" /\ Worker /\ job' = job /\ journal' = journal /\ events' = events
    BY DEF ReuseOffloaded
  <1>2. PICK old \in reusable(node) : Done(n, [node EXCEPT !.content = old.content])
    BY DEF ReuseOffloaded
  <1>3. Going /\ Task(n) = work[n] /\ TaskOk(n, Task(n)) /\ node \in Node
        /\ Known = job.index \cup job.pack \cup job.flying
    BY <1>1, Walking, TaskShape DEF ArchiveInv
  <1>4. StandsFor(n, node)
    BY <1>1, <1>3 DEF TaskOk
  <1>5. old.hash = node.hash /\ Chunks(old.content) \subseteq job.index
        /\ (old \in {e.node : e \in Range(job.resumed)} \/ old \in Range(job.parent))
    BY <1>2 DEF reusable
  <1>6. old.content = old.hash
    <2>1. CASE \E k \in DOMAIN job.resumed : old = job.resumed[k].node
      BY <1>3, <2>1 DEF ArchiveInv, EarlierTrue, True
    <2>2. CASE \E m \in DOMAIN job.parent : old = job.parent[m]
      BY <1>3, <2>2 DEF ArchiveInv, EarlierTrue, True
    <2>3. QED
      BY <1>5, <2>1, <2>2 DEF Range
  <1>7. PICK new : new = [node EXCEPT !.content = node.hash]
    OBVIOUS
  <1>8. work' = [work EXCEPT ![n] = [at |-> "done", node |-> new]]
    BY <1>2, <1>5, <1>6, <1>7 DEF Done
  <1>9. /\ TaskOk(n, [at |-> "done", node |-> new]) /\ WorkShape([at |-> "done", node |-> new])
        /\ new.content = old.content
    BY <1>3, <1>4, <1>5, <1>6, <1>7, StubDone
  <1>10. Chunks(new.content) \subseteq Known
    BY <1>3, <1>5, <1>9
  <1>11. Recording
    BY <1>1 DEF Recording
  <1>12. Light(n, [at |-> "done", node |-> new])
    BY <1>1, <1>8, <1>9, <1>10, <1>11 DEF Light
  <1>13. QED
    BY <1>12, LightStep

LEMMA OpenOffloadedAdvances ==
    ASSUME ArchiveInv, NEW n \in Name, OpenOffloaded(n)
    PROVE  Advance(n)
  <1>1. work[n].at = "stub" /\ Worker /\ job' = job /\ journal' = journal
    BY DEF OpenOffloaded
  <1>2. PICK c \in Content :
            /\ IF c = work[n].node.hash THEN events' = events ELSE Fault
            /\ work' = [work EXCEPT ![n] = [at |-> "read", node |-> work[n].node,
                                            handle |-> 0, source |-> c, got |-> <<>>]]
    BY DEF OpenOffloaded
  <1> DEFINE w == [at |-> "read", node |-> work[n].node, handle |-> 0, source |-> c, got |-> <<>>]
  <1>3. Task(n) = work[n] /\ TaskOk(n, Task(n)) /\ work[n].node \in Node
    BY <1>1, Walking, TaskShape DEF ArchiveInv
  <1>4. StandsFor(n, work[n].node)
    BY <1>1, <1>3 DEF TaskOk
  <1>5. c \in Seq(Nat) /\ <<>> \in Seq(Nat) /\ Chunks(<<>>) = {}
    BY ContentAssumption, EmptySeq DEF Chunks
  <1>6. WorkShape(w) /\ w.at = "read" /\ w.handle = 0 /\ Chunks(w.got) = {}
    BY <1>3, <1>5 DEF WorkShape, Reading
  <1>7. TaskOk(n, w)
    BY <1>4, <1>6 DEF TaskOk
  <1>8. Recording
    BY <1>1 DEF Recording
  <1>9. events' \in {events, events + 1}
    BY <1>2 DEF Fault
  <1> HIDE DEF w
  <1>10. work' = [work EXCEPT ![n] = w]
    BY <1>2 DEF w
  <1>11. Light(n, w)
    BY <1>1, <1>6, <1>7, <1>8, <1>9, <1>10 DEF Light
  <1>12. QED
    BY <1>11, LightStep

LEMMA FailuresAdvance ==
    ASSUME ArchiveInv, NEW n \in Name, ReadFails(n) \/ Stop(n) \/ ReadRefused(n)
    PROVE  Advance(n)
  <1>1. CASE ReadFails(n)
    BY <1>1, FailedStep DEF ReadFails, Fault
  <1>2. CASE Stop(n)
    BY <1>2, FailedStep DEF Stop
  <1>3. CASE ReadRefused(n)
    BY <1>3, FailedStep DEF ReadRefused
  <1>4. QED
    BY <1>1, <1>2, <1>3

(* What a worker that reads knows. *)
LEMMA ReadFacts ==
    ASSUME ArchiveInv, NEW n \in Name, work[n].at = "read"
    PROVE  /\ Going /\ Task(n) = work[n] /\ work[n] \in Reading /\ work[n].node \in Node
           /\ work[n].handle \in {0} \cup Inode
           /\ work[n].got \in Seq(Nat) /\ Bytes(n) \in Seq(Nat)
           /\ Chunks(work[n].got) \subseteq Known
           /\ work[n].handle = 0 => StandsFor(n, work[n].node)
           /\ work[n].handle # 0 =>
                 /\ Statted(n, work[n].node)
                 /\ SameVersion(n, work[n].node) =>
                       /\ Bytes(n) = inode[dir[n].real].content
                       /\ PrefixOf(work[n].got, inode[dir[n].real].content)
  <1>1. /\ Going /\ Task(n) = work[n] /\ work[n] \in Reading /\ work[n].node \in Node
        /\ work[n].handle \in {0} \cup Inode /\ work[n].source \in Seq(Nat)
        /\ work[n].got \in Seq(Nat)
        /\ Chunks(work[n].got) \subseteq Known /\ TaskOk(n, work[n])
    BY Walking, TaskShape DEF ArchiveInv
  <1>2. Bytes(n) \in Seq(Nat)
    <2>1. CASE work[n].handle = 0
      BY <1>1, <2>1 DEF Bytes
    <2>2. CASE work[n].handle # 0
      <3>1. inode[work[n].handle] \in [content : Seq(Nat), mtime : Nat, ctime : Nat]
        BY <1>1, <2>2 DEF ArchiveInv, DiskOk
      <3>2. QED
        BY <2>2, <3>1 DEF Bytes
    <2>3. QED
      BY <2>1, <2>2
  <1>3. work[n].handle = 0 => StandsFor(n, work[n].node)
    BY <1>1 DEF TaskOk
  <1>4. ASSUME work[n].handle # 0
        PROVE  /\ Statted(n, work[n].node)
               /\ SameVersion(n, work[n].node) =>
                     /\ Bytes(n) = inode[dir[n].real].content
                     /\ PrefixOf(work[n].got, inode[dir[n].real].content)
    BY <1>1, <1>4 DEF TaskOk, Bytes
  <1>5. QED
    BY <1>1, <1>2, <1>3, <1>4

LEMMA FinishFileAdvances ==
    ASSUME ArchiveInv, NEW n \in Name, FinishFile(n)
    PROVE  Advance(n)
  <1> DEFINE node == work[n].node
             got == work[n].got
             new == [node EXCEPT !.content = got, !.hash = got, !.size = Len(got)]
  <1>1. /\ work[n].at = "read" /\ Len(got) >= Len(Bytes(n)) /\ work[n].handle # 0
        /\ Worker /\ job' = job /\ events' = events
        /\ Done(n, new) /\ Record(n, new)
    BY DEF FinishFile, Read
  <1>2. /\ node \in Node /\ got \in Seq(Nat) /\ Bytes(n) \in Seq(Nat) /\ Statted(n, node)
        /\ Chunks(got) \subseteq Known
        /\ SameVersion(n, node) => /\ Bytes(n) = inode[dir[n].real].content
                                   /\ PrefixOf(got, inode[dir[n].real].content)
    BY <1>1, ReadFacts
  <1>3. SameVersion(n, node) => got = inode[dir[n].real].content
    <2>1. SUFFICES ASSUME SameVersion(n, node) PROVE got = Bytes(n)
      BY <1>2
    <2>2. PrefixOf(got, Bytes(n))
      BY <1>2, <2>1
    <2>3. Len(got) = Len(Bytes(n)) /\ \A k \in 1..Len(got) : got[k] = Bytes(n)[k]
      <3>1. Len(got) \in Nat /\ Len(Bytes(n)) \in Nat
        BY <1>2, LenProperties
      <3>2. QED
        BY <1>1, <2>2, <3>1 DEF PrefixOf
    <2>4. QED
      BY <1>2, <2>3, SeqEqual
  <1>4. Len(got) \in Nat
    BY <1>2, LenProperties
  <1>5. /\ new \in Node /\ new.content = got /\ new.hash = got /\ new.size = Len(got)
        /\ new.mtime = node.mtime /\ new.ctime = node.ctime /\ new.inode = node.inode
        /\ new.offloaded = node.offloaded
    BY <1>2, <1>4 DEF Node
  <1> HIDE DEF new
  <1>6. Statted(n, new)
    BY <1>2, <1>5 DEF Statted, SameVersion
  <1>7. True(n, new)
    <2>1. SameVersion(n, new) => SameVersion(n, node)
      BY <1>5 DEF SameVersion
    <2>2. new.ctime <= clock
      BY <1>6 DEF Statted
    <2>3. QED
      BY <1>3, <1>5, <2>1, <2>2 DEF True
  <1> DEFINE w == [at |-> "done", node |-> new]
  <1>8. TaskOk(n, w) /\ WorkShape(w) /\ w.at = "done" /\ Chunks(w.node.content) \subseteq Known
    BY <1>2, <1>5, <1>6, <1>7 DEF TaskOk, WorkShape
  <1>9. Recording
    <2>1. [name |-> n, node |-> new] \in Entry
      BY <1>5 DEF Entry
    <2>2. QED
      BY <1>1, <1>7, <2>1 DEF Recording, Record
  <1>10. work' = [work EXCEPT ![n] = w]
    BY <1>1 DEF Done
  <1> HIDE DEF w, node, got
  <1>11. Light(n, w)
    BY <1>1, <1>8, <1>9, <1>10 DEF Light
  <1>12. QED
    BY <1>11, LightStep

LEMMA FinishOffloadedAdvances ==
    ASSUME ArchiveInv, NEW n \in Name, FinishOffloaded(n)
    PROVE  Advance(n)
  <1> DEFINE node == work[n].node
             got == work[n].got
  <1>1. /\ work[n].at = "read" /\ work[n].handle = 0 /\ Worker /\ events' = events
    BY DEF FinishOffloaded, Read
  <1>2. CASE ~Matches(n)
    BY <1>1, <1>2, FailedStep DEF FinishOffloaded
  <1>3. CASE Matches(n)
    <2>1. PICK new : new = [node EXCEPT !.content = node.hash]
      OBVIOUS
    <2>2. got = node.hash
      BY <1>3 DEF Matches
    <2>3. Done(n, new) /\ Record(n, new) /\ job' = job
      BY <1>3, <2>1, <2>2 DEF FinishOffloaded
    <2>4. node \in Node /\ Chunks(got) \subseteq Known /\ StandsFor(n, node)
      BY <1>1, ReadFacts
    <2> DEFINE w == [at |-> "done", node |-> new]
    <2>5. new \in Node /\ new.content = got /\ True(n, new) /\ TaskOk(n, w) /\ WorkShape(w)
      BY <2>1, <2>2, <2>4, StubDone
    <2>6. w.at = "done" /\ Chunks(w.node.content) \subseteq Known
      BY <2>4, <2>5
    <2>7. Recording
      <3>1. [name |-> n, node |-> new] \in Entry
        BY <2>5 DEF Entry
      <3>2. QED
        BY <2>3, <2>5, <3>1 DEF Recording, Record
    <2>8. work' = [work EXCEPT ![n] = w]
      BY <2>3 DEF Done
    <2> HIDE DEF w, node, got
    <2>9. Light(n, w)
      BY <1>1, <2>3, <2>5, <2>6, <2>7, <2>8 DEF Light
    <2>10. QED
      BY <2>9, LightStep
  <1>4. QED
    BY <1>2, <1>3

(* The next chunk of a file, added to what was read. *)
LEMMA ChunkRead ==
    ASSUME ArchiveInv, NEW n \in Name, work[n].at = "read", Len(work[n].got) < Len(Bytes(n)),
           NEW b, b = Bytes(n)[Len(work[n].got) + 1],
           NEW w, w = [work[n] EXCEPT !.got = Append(@, b)]
    PROVE  /\ w \in Reading /\ w.at = "read" /\ w.handle = work[n].handle /\ TaskOk(n, w)
           /\ Chunks(w.got) \subseteq Chunks(work[n].got) \cup {Chunk(b)}
  <1> DEFINE got == work[n].got
             more == Append(got, b)
  <1>1. /\ work[n] \in Reading /\ got \in Seq(Nat) /\ Bytes(n) \in Seq(Nat)
        /\ work[n].handle = 0 => StandsFor(n, work[n].node)
        /\ work[n].handle # 0 => Statted(n, work[n].node)
        /\ work[n].handle # 0 /\ SameVersion(n, work[n].node) =>
              /\ Bytes(n) = inode[dir[n].real].content
              /\ PrefixOf(got, inode[dir[n].real].content)
    BY ReadFacts
  <1>2. Len(got) \in Nat /\ Len(Bytes(n)) \in Nat /\ Len(got) + 1 \in 1..Len(Bytes(n))
    BY <1>1, LenProperties
  <1>3. b \in Nat
    BY <1>1, <1>2, ElementOfSeq
  <1>4. /\ more \in Seq(Nat) /\ Len(more) = Len(got) + 1 /\ DOMAIN more = 1..(Len(got) + 1)
        /\ \A k \in 1..Len(got) : more[k] = got[k]
        /\ more[Len(got) + 1] = b /\ DOMAIN got = 1..Len(got)
    BY <1>1, <1>3, AppendProperties, LenProperties
  <1>5. w \in Reading /\ w.at = "read" /\ w.handle = work[n].handle /\ w.node = work[n].node /\ w.got = more
    BY <1>1, <1>4 DEF Reading
  <1> HIDE DEF more
  <1>6. Chunks(w.got) \subseteq Chunks(got) \cup {Chunk(b)}
    <2>1. \A k \in DOMAIN more : k \in DOMAIN got \/ k = Len(got) + 1
      BY <1>2, <1>4
    <2>2. \A k \in DOMAIN more : Chunk(more[k]) \in Chunks(got) \cup {Chunk(b)}
      BY <1>4, <2>1 DEF Chunks
    <2>3. QED
      BY <1>5, <2>2 DEF Chunks
  <1>7. ASSUME PrefixOf(got, Bytes(n))
        PROVE  PrefixOf(more, Bytes(n))
    <2>1. Len(more) <= Len(Bytes(n))
      BY <1>2, <1>4
    <2>2. ASSUME NEW k \in 1..Len(more)
          PROVE  more[k] = Bytes(n)[k]
      <3>1. CASE k = Len(got) + 1
        BY <1>4, <3>1
      <3>2. CASE k \in 1..Len(got)
        BY <1>4, <1>7, <3>2 DEF PrefixOf
      <3>3. k = Len(got) + 1 \/ k \in 1..Len(got)
        <4>1. k \in 1..(Len(got) + 1) /\ Len(got) \in Nat
          BY <1>2, <1>4
        <4> HIDE DEF got
        <4>2. QED
          BY <4>1
      <3>4. QED
        BY <3>1, <3>2, <3>3
    <2>3. QED
      BY <2>1, <2>2 DEF PrefixOf
  <1>8. TaskOk(n, w)
    <2>1. ASSUME work[n].handle # 0, SameVersion(n, work[n].node)
          PROVE  w.handle = dir[n].real /\ PrefixOf(w.got, inode[dir[n].real].content)
      <3>1. work[n].handle = dir[n].real
        BY <2>1, Walking, TaskShape DEF ArchiveInv, TaskOk
      <3>2. QED
        BY <1>1, <1>5, <1>7, <2>1, <3>1
    <2>2. QED
      BY <1>1, <1>5, <2>1 DEF TaskOk
  <1>9. QED
    BY <1>5, <1>6, <1>8

LEMMA ReadChunkAdvances ==
    ASSUME ArchiveInv, NEW n \in Name, NEW full \in BOOLEAN, ReadChunk(n, full)
    PROVE  Advance(n)
  <1> DEFINE b == Bytes(n)[Len(work[n].got) + 1]
             new == Chunk(b) \notin job.index \cup job.pack \cup job.flying
             pack == job.pack \cup {Chunk(b)}
             w == [work[n] EXCEPT !.got = Append(@, b)]
  <1>1. /\ work[n].at = "read" /\ Len(work[n].got) < Len(Bytes(n))
        /\ Worker /\ journal' = journal /\ events' = events
        /\ full => new
        /\ job' = IF ~new THEN job
                  ELSE IF full THEN [job EXCEPT !.pack = {}, !.flying = @ \cup pack]
                  ELSE [job EXCEPT !.pack = pack]
        /\ work' = [work EXCEPT ![n] = IF full THEN [at |-> "upload", up |-> pack, back |-> w] ELSE w]
    BY DEF ReadChunk
  <1>2. /\ w \in Reading /\ w.at = "read" /\ w.handle = work[n].handle /\ TaskOk(n, w)
        /\ Chunks(w.got) \subseteq Chunks(work[n].got) \cup {Chunk(b)}
    BY <1>1, ChunkRead
  <1>3. /\ pc = "walk" /\ Going /\ DOMAIN job = JobFields
        /\ Known = job.index \cup job.pack \cup job.flying
        /\ Chunks(work[n].got) \subseteq Known
    BY <1>1, Walking, ReadFacts
  <1> HIDE DEF w, b
  <1>4. pc' = "walk" /\ UNCHANGED <<disk, durable, snaps>> /\ stored' = stored /\ UNCHANGED <<dir, inode, clock>>
    BY <1>1, <1>3 DEF Worker, bucket, disk
  <1>5. /\ DOMAIN job' = JobFields
        /\ \A f \in JobFields \ {"pack", "flying"} : job'[f] = job[f]
        /\ job'.pack = IF ~new THEN job.pack ELSE IF full THEN {} ELSE pack
        /\ job'.flying = IF full THEN job.flying \cup pack ELSE job.flying
    BY <1>1, <1>3 DEF JobFields
  <1>6. /\ job'.parent = job.parent /\ job'.resumed = job.resumed
        /\ job'.listing = job.listing /\ job'.todo = job.todo /\ job'.aborted = job.aborted
        /\ job'.quiet = job.quiet /\ job'.present = job.present /\ job'.seen = job.seen
        /\ job'.failed = job.failed /\ job'.index = job.index /\ job'.fresh = job.fresh
        /\ job'.skipped = job.skipped
    BY <1>5 DEF JobFields
  <1>7. Known \subseteq Known' /\ Chunk(b) \in Known'
    <2>1. Known' = job'.index \cup job'.pack \cup job'.flying
      BY <1>4 DEF Known
    <2>2. QED
      BY <1>1, <1>3, <1>5, <1>6, <2>1
  <1>8. Chunks(w.got) \subseteq Known'
    BY <1>2, <1>3, <1>7
  <1>9. /\ DOMAIN work' = Name /\ \A m \in Name \ {n} : work'[m] = work[m]
        /\ work'[n] = IF full THEN [at |-> "upload", up |-> pack, back |-> w] ELSE w
    BY <1>1 DEF ArchiveInv, JobShape
  <1>10. Task(n)' = w /\ WorkShape(work'[n]) /\ work'[n].at \notin {"none", "skipped"}
    BY <1>2, <1>9 DEF Task, WorkShape
  <1>11. Handle(n)' = Handle(n)
    BY <1>1, <1>2, <1>9 DEF Handle
  <1>12. job'.failed \/ job'.flying \subseteq OnTheWay'
    <2>1. job.failed \/ job.flying \subseteq OnTheWay
      BY <1>3 DEF ArchiveInv, BlobsOk, OnTheWay, Uploading
    <2>2. \A m \in Uploading : m # n /\ m \in Uploading' /\ work'[m] = work[m]
      BY <1>1, <1>9 DEF Uploading
    <2>3. OnTheWay \subseteq OnTheWay'
      BY <2>2 DEF OnTheWay
    <2>4. full => pack \subseteq OnTheWay'
      <3>1. full => n \in Uploading' /\ work'[n].up = pack
        BY <1>9 DEF Uploading
      <3>2. QED
        BY <3>1 DEF OnTheWay
    <2>5. QED
      BY <1>5, <1>6, <2>1, <2>3, <2>4
  <1>13. TaskOk(n, Task(n))'
    BY <1>2, <1>4, <1>6, <1>10 DEF TaskOk, Statted, StandsFor, True, SameVersion
  <1>14. /\ job'.index \subseteq stored' /\ job'.fresh \subseteq stored' /\ job'.index \subseteq durable \cup job'.fresh
         /\ job'.failed \in BOOLEAN /\ job'.skipped \subseteq Name
    BY <1>3, <1>4, <1>6 DEF ArchiveInv, BlobsOk, JobShape, Going
  <1>15. Recording
    BY <1>1 DEF Recording
  <1>16. /\ work[n].at \in {"file", "stub", "read", "upload"} /\ Task(n)'.at = "read"
         /\ Chunks(Task(n)'.got) \subseteq Known'
    BY <1>1, <1>2, <1>8, <1>10
  <1>17. QED
    BY <1>1, <1>3, <1>4, <1>5, <1>6, <1>7, <1>9, <1>10, <1>11, <1>12, <1>13, <1>14, <1>15, <1>16
       DEF Advance

(* A worker that waits for its pack. *)
LEMMA UploadFacts ==
    ASSUME ArchiveInv, NEW n \in Name, work[n].at = "upload"
    PROVE  /\ pc = "walk" /\ Going /\ DOMAIN job = JobFields
           /\ Known = job.index \cup job.pack \cup job.flying
           /\ work[n].back \in Reading /\ Task(n) = work[n].back /\ work[n].back.at = "read"
           /\ Chunks(work[n].back.got) \subseteq Known /\ TaskOk(n, work[n].back)
           /\ job.failed \/ job.flying \subseteq OnTheWay
           /\ job.index \subseteq stored /\ job.fresh \subseteq stored
           /\ job.index \subseteq durable \cup job.fresh /\ job.skipped \subseteq Name
           /\ job.failed \in BOOLEAN /\ events \in Nat
  <1>1. work[n].at \in {"file", "stub", "read", "upload"}
    OBVIOUS
  <1>2. /\ pc = "walk" /\ Going /\ DOMAIN job = JobFields /\ events \in Nat
        /\ Known = job.index \cup job.pack \cup job.flying
        /\ TaskOk(n, Task(n)) /\ (Task(n).at = "read" => Chunks(Task(n).got) \subseteq Known)
    BY <1>1, Walking
  <1>3. Task(n) = work[n].back /\ Task(n).at = "read" /\ Task(n) \in Reading
    BY TaskShape DEF ArchiveInv
  <1>4. /\ job.failed \/ job.flying \subseteq OnTheWay
        /\ job.index \subseteq stored /\ job.fresh \subseteq stored
        /\ job.index \subseteq durable \cup job.fresh /\ job.skipped \subseteq Name
        /\ job.failed \in BOOLEAN
    BY <1>2 DEF ArchiveInv, BlobsOk, JobShape, OnTheWay, Uploading
  <1>5. QED
    BY <1>2, <1>3, <1>4

LEMMA UploadPackAdvances ==
    ASSUME ArchiveInv, NEW n \in Name, UploadPack(n)
    PROVE  Advance(n)
  <1> DEFINE up == work[n].up
             w == work[n].back
  <1>1. /\ work[n].at = "upload" /\ stored' = stored \cup up
        /\ job' = [job EXCEPT !.index = @ \cup up, !.flying = @ \ up, !.fresh = @ \cup up]
        /\ work' = [work EXCEPT ![n] = w]
        /\ UNCHANGED <<disk, durable, snaps, journal, pc, counters>>
    BY DEF UploadPack, upload_pack
  <1>2. /\ pc = "walk" /\ Going /\ DOMAIN job = JobFields
        /\ Known = job.index \cup job.pack \cup job.flying
        /\ w \in Reading /\ Task(n) = w /\ w.at = "read"
        /\ Chunks(w.got) \subseteq Known /\ TaskOk(n, w)
        /\ job.failed \/ job.flying \subseteq OnTheWay
        /\ job.index \subseteq stored /\ job.fresh \subseteq stored
        /\ job.index \subseteq durable \cup job.fresh /\ job.skipped \subseteq Name
        /\ job.failed \in BOOLEAN
    BY <1>1, UploadFacts
  <1> HIDE DEF w, up
  <1>3. pc' = "walk" /\ UNCHANGED <<dir, inode, clock, durable>> /\ events' = events
    BY <1>1, <1>2 DEF disk, counters
  <1>4. /\ DOMAIN job' = JobFields
        /\ \A f \in JobFields \ {"index", "flying", "fresh"} : job'[f] = job[f]
        /\ job'.index = job.index \cup up /\ job'.flying = job.flying \ up /\ job'.fresh = job.fresh \cup up
    BY <1>1, <1>2 DEF JobFields
  <1>5. /\ job'.parent = job.parent /\ job'.resumed = job.resumed
        /\ job'.listing = job.listing /\ job'.todo = job.todo /\ job'.aborted = job.aborted
        /\ job'.quiet = job.quiet /\ job'.present = job.present /\ job'.seen = job.seen
        /\ job'.failed = job.failed /\ job'.pack = job.pack /\ job'.skipped = job.skipped
    BY <1>4 DEF JobFields
  <1>6. Known \subseteq Known'
    <2>1. Known' = job'.index \cup job'.pack \cup job'.flying
      BY <1>3 DEF Known
    <2>2. QED
      BY <1>2, <1>4, <1>5, <2>1
  <1>7. DOMAIN work' = Name /\ work'[n] = w /\ \A m \in Name \ {n} : work'[m] = work[m]
    BY <1>1 DEF ArchiveInv, JobShape
  <1>8. Task(n)' = w /\ WorkShape(work'[n]) /\ work'[n].at \notin {"none", "skipped"}
    BY <1>2, <1>7 DEF Task, WorkShape
  <1>9. Handle(n)' = Handle(n)
    BY <1>1, <1>2, <1>7 DEF Handle, w
  <1>10. job'.failed \/ job'.flying \subseteq OnTheWay'
    <2>1. \A m \in Uploading \ {n} : m \in Uploading' /\ work'[m] = work[m]
      BY <1>7 DEF Uploading
    <2>2. OnTheWay \subseteq OnTheWay' \cup up
      BY <2>1 DEF OnTheWay, up
    <2>3. QED
      BY <1>2, <1>4, <1>5, <2>2
  <1>11. TaskOk(n, Task(n))'
    BY <1>2, <1>3, <1>5, <1>8 DEF TaskOk, Statted, StandsFor, True, SameVersion
  <1>12. /\ job'.index \subseteq stored' /\ job'.fresh \subseteq stored' /\ job'.index \subseteq durable \cup job'.fresh
    BY <1>1, <1>2, <1>4
  <1>13. Recording
    BY <1>1 DEF Recording
  <1>14. /\ work[n].at \in {"file", "stub", "read", "upload"} /\ Task(n)'.at = "read"
         /\ Chunks(Task(n)'.got) \subseteq Known' /\ stored \subseteq stored' /\ job.index \subseteq job'.index
    BY <1>1, <1>2, <1>4, <1>6, <1>8
  <1>15. QED
    BY <1>1, <1>2, <1>3, <1>4, <1>5, <1>6, <1>7, <1>8, <1>9, <1>10, <1>11, <1>12, <1>13, <1>14
       DEF Advance

LEMMA UploadFailsAdvances ==
    ASSUME ArchiveInv, NEW n \in Name, UploadFails(n)
    PROVE  Advance(n)
  <1>1. /\ work[n].at = "upload" /\ stored \subseteq stored'
        /\ job' = [job EXCEPT !.failed = TRUE]
        /\ work' = [work EXCEPT ![n] = [at |-> "error"]] /\ events' = events + 1
        /\ UNCHANGED <<disk, durable, snaps, journal, pc, runs>>
    BY DEF UploadFails, Fault
  <1>2. /\ pc = "walk" /\ Going /\ DOMAIN job = JobFields
        /\ Known = job.index \cup job.pack \cup job.flying
        /\ job.index \subseteq stored /\ job.fresh \subseteq stored
        /\ job.index \subseteq durable \cup job.fresh /\ job.skipped \subseteq Name
    BY <1>1, UploadFacts
  <1>3. pc' = "walk" /\ UNCHANGED <<dir, inode, clock, durable>>
    BY <1>1, <1>2 DEF disk
  <1>4. /\ DOMAIN job' = JobFields
        /\ \A f \in JobFields \ {"failed"} : job'[f] = job[f]
        /\ job'.failed = TRUE
    BY <1>1, <1>2 DEF JobFields
  <1>5. /\ job'.parent = job.parent /\ job'.resumed = job.resumed
        /\ job'.listing = job.listing /\ job'.todo = job.todo /\ job'.aborted = job.aborted
        /\ job'.quiet = job.quiet /\ job'.present = job.present /\ job'.seen = job.seen
        /\ job'.index = job.index /\ job'.flying = job.flying /\ job'.fresh = job.fresh
        /\ job'.pack = job.pack /\ job'.skipped = job.skipped
    BY <1>4 DEF JobFields
  <1>6. Known' = Known
    BY <1>2, <1>3, <1>5 DEF Known
  <1>7. DOMAIN work' = Name /\ work'[n] = [at |-> "error"] /\ \A m \in Name \ {n} : work'[m] = work[m]
    BY <1>1 DEF ArchiveInv, JobShape
  <1>8. Task(n)'.at = "error" /\ WorkShape(work'[n]) /\ work'[n].at \notin {"none", "skipped"}
    BY <1>7 DEF Task, WorkShape
  <1>9. Handle(n)' = 0
    BY <1>7 DEF Handle
  <1>10. TaskOk(n, Task(n))'
    BY <1>8 DEF TaskOk
  <1>11. Recording
    BY <1>1 DEF Recording
  <1>12. /\ work[n].at \in {"file", "stub", "read", "upload"}
         /\ job'.index \subseteq stored' /\ job'.fresh \subseteq stored' /\ job'.index \subseteq durable \cup job'.fresh
    BY <1>1, <1>2, <1>5
  <1>13. QED
    BY <1>1, <1>2, <1>3, <1>4, <1>5, <1>6, <1>7, <1>8, <1>9, <1>10, <1>11, <1>12 DEF Advance

-----------------------------------------------------------------------------
(* The walk takes up an entry. *)

Look(n, e) ==
    /\ pc = "walk" /\ UNCHANGED <<disk, bucket, journal, pc, counters>>
    /\ e \in job.todo /\ e \in {<<n, 0>>, <<n, 1>>}
    /\ DOMAIN job' = JobFields
    /\ job'.todo = job.todo \ {e}
    /\ job'.parent = job.parent /\ job'.resumed = job.resumed /\ job'.listing = job.listing
    /\ job'.index = job.index /\ job'.fresh = job.fresh /\ job'.pack = job.pack
    /\ job'.flying = job.flying /\ job'.failed = job.failed
    /\ job'.quiet = job.quiet /\ job'.present = job.present /\ job'.seen = job.seen
    /\ job'.aborted \in BOOLEAN /\ (job.aborted => job'.aborted)
    /\ job.skipped \subseteq job'.skipped /\ job'.skipped \subseteq Name
    /\ \/ /\ work' = work
          /\ n \in job'.skipped \/ job'.aborted \/ (e = <<n, 1>> /\ <<n, 0>> \in job.listing)
       \/ /\ e = <<n, 0>> \/ <<n, 0>> \notin job.listing
          /\ \E w \in [at : {"file", "stub"}, node : Node] :
                work' = [work EXCEPT ![n] = w] /\ TaskOk(n, w)

LEMMA LookWorks ==
    ASSUME ArchiveInv, NEW n \in Name, NEW e, Look(n, e)
    PROVE  /\ Going /\ Going' /\ DOMAIN work' = Name /\ \A m \in Name \ {n} : work'[m] = work[m]
           /\ \/ /\ work' = work
                 /\ n \in job'.skipped \/ job'.aborted \/ (e = <<n, 1>> /\ <<n, 0>> \in job.listing)
              \/ /\ Due(n) /\ ~Due(n)' /\ work[n].at = "none"
                 /\ work'[n] \in [at : {"file", "stub"}, node : Node] /\ TaskOk(n, work'[n])
  <1>1. Going /\ Going' /\ DOMAIN work = Name /\ job.todo \subseteq job.listing
    BY DEF Look, Going, ArchiveInv, JobShape
  <1>2. CASE /\ work' = work
             /\ n \in job'.skipped \/ job'.aborted \/ (e = <<n, 1>> /\ <<n, 0>> \in job.listing)
    BY <1>1, <1>2 DEF Look
  <1>3. ASSUME e = <<n, 0>> \/ <<n, 0>> \notin job.listing,
               NEW w \in [at : {"file", "stub"}, node : Node],
               work' = [work EXCEPT ![n] = w], TaskOk(n, w)
        PROVE  /\ DOMAIN work' = Name /\ \A m \in Name \ {n} : work'[m] = work[m]
               /\ Due(n) /\ ~Due(n)' /\ work[n].at = "none"
               /\ work'[n] \in [at : {"file", "stub"}, node : Node] /\ TaskOk(n, work'[n])
    <2>1. e \in job.todo /\ job'.todo = job.todo \ {e} /\ job'.listing = job.listing
          /\ e \in {<<n, 0>>, <<n, 1>>}
      BY DEF Look
    <2>2. Due(n) /\ ~Due(n)'
      BY <1>1, <1>3, <2>1 DEF Due
    <2>3. work[n].at = "none"
      BY <1>1, <2>2 DEF ArchiveInv, WalkOk
    <2>4. /\ DOMAIN work' = Name /\ \A m \in Name \ {n} : work'[m] = work[m]
          /\ work'[n] = w
      BY <1>1, <1>3
    <2>5. QED
      BY <1>3, <2>2, <2>3, <2>4
  <1>4. QED
    BY <1>1, <1>2, <1>3 DEF Look

LEMMA LookJob ==
    ASSUME ArchiveInv, NEW n \in Name, NEW e, Look(n, e)
    PROVE  JobShape' /\ StageOk'
  <1>1. Going /\ Going' /\ DOMAIN work' = Name
    BY LookWorks
  <1>2. \A m \in Name : WorkShape(work'[m])
    <2>1. \A m \in Name : WorkShape(work[m])
      BY DEF ArchiveInv, JobShape
    <2>2. work'[n] \in [at : {"file", "stub"}, node : Node] => WorkShape(work'[n])
      BY DEF WorkShape
    <2>3. QED
      BY <2>1, <2>2, LookWorks
  <1>3. \A m \in Name : WorkShape(work[m])'
    BY <1>2 DEF WorkShape
  <1>4. /\ job'.todo \subseteq job'.listing /\ job'.listing \subseteq Name \X {0, 1}
        /\ job'.parent \in NodeMap /\ job'.resumed \in UNION {[D -> Entry] : D \in SUBSET Nat}
        /\ job'.skipped \subseteq Name /\ job'.quiet \subseteq Name /\ job'.present \subseteq Name
        /\ job'.seen \in [Name -> Seen] /\ job'.failed \in BOOLEAN /\ job'.aborted \in BOOLEAN
    BY <1>1 DEF ArchiveInv, JobShape, Look
  <1>5. pc' = "walk" /\ DOMAIN job' = JobFields
    BY DEF Look
  <1>6. JobShape'
    BY <1>1, <1>3, <1>4, <1>5 DEF JobShape
  <1>7. QED
    BY <1>5, <1>6 DEF StageOk

LEMMA LookBlobs ==
    ASSUME ArchiveInv, NEW n \in Name, NEW e, Look(n, e)
    PROVE  BlobsOk'
  <1>1. /\ Going /\ Going' /\ pc' = "walk" /\ pc = "walk" /\ UNCHANGED <<durable, snaps, stored>>
        /\ job'.index = job.index /\ job'.fresh = job.fresh /\ job'.pack = job.pack
        /\ job'.flying = job.flying /\ job'.failed = job.failed
        /\ job'.parent = job.parent /\ job'.resumed = job.resumed
    BY LookWorks DEF Look, bucket
  <1>2. Known' = Known
    BY <1>1 DEF Known
  <1>3. \A m \in Name : Task(m)' = Task(m) \/ Task(m)'.at \in {"file", "stub"}
    BY LookWorks DEF Task
  <1>4. Uploading \subseteq Uploading' /\ \A m \in Uploading : work'[m] = work[m]
    BY LookWorks DEF Uploading
  <1>5. job'.failed \/ job'.flying \subseteq OnTheWay'
    <2>1. job.failed \/ job.flying \subseteq OnTheWay
      BY <1>1 DEF ArchiveInv, BlobsOk, OnTheWay, Uploading
    <2>2. OnTheWay \subseteq OnTheWay'
      BY <1>4 DEF OnTheWay
    <2>3. QED
      BY <1>1, <2>1, <2>2
  <1>6. ASSUME NEW m \in Name
        PROVE  /\ Task(m)'.at = "read" => Chunks(Task(m)'.got) \subseteq Known'
               /\ Task(m)'.at = "done" => Chunks(Task(m)'.node.content) \subseteq Known'
    BY <1>1, <1>2, <1>3 DEF ArchiveInv, BlobsOk
  <1>7. /\ durable' \subseteq stored' /\ job'.index \subseteq stored' /\ job'.fresh \subseteq stored'
        /\ job'.index \subseteq durable' \cup job'.fresh
        /\ \A m \in DOMAIN job'.parent : Chunks(job'.parent[m].content) \subseteq job'.index
        /\ \A k \in DOMAIN job'.resumed : Chunks(job'.resumed[k].node.content) \subseteq job'.index
        /\ \A k \in DOMAIN snaps' : Reach(snaps'[k]) \subseteq durable'
    BY <1>1 DEF ArchiveInv, BlobsOk, Going
  <1>8. QED
    BY <1>1, <1>5, <1>6, <1>7 DEF BlobsOk, OnTheWay, Uploading

LEMMA LookWalk ==
    ASSUME ArchiveInv, NEW n \in Name, NEW e, Look(n, e)
    PROVE  WorkersOk' /\ WalkOk'
  <1>1. /\ Going /\ UNCHANGED <<dir, inode, clock>> /\ job'.quiet = job.quiet /\ pc = "walk"
        /\ job'.present = job.present /\ job'.seen = job.seen /\ job'.listing = job.listing
        /\ job.skipped \subseteq job'.skipped /\ (job.aborted => job'.aborted)
        /\ e \in job.todo /\ job'.todo = job.todo \ {e} /\ e \in {<<n, 0>>, <<n, 1>>}
        /\ job.todo \subseteq job.listing
    BY LookWorks DEF Look, disk, ArchiveInv, JobShape
  <1>2. ASSUME NEW m \in Name
        PROVE  TaskOk(m, Task(m))'
    <2>1. CASE work'[m] = work[m]
      <3>1. TaskOk(m, Task(m)) /\ Task(m)' = Task(m)
        BY <1>1, <2>1 DEF ArchiveInv, WorkersOk, Task
      <3>2. QED
        BY <1>1, <3>1 DEF TaskOk, Statted, StandsFor, True, SameVersion
    <2>2. CASE m = n /\ work'[n] \in [at : {"file", "stub"}, node : Node] /\ TaskOk(n, work'[n])
      <3>1. Task(n)' = work'[n]
        BY <2>2 DEF Task
      <3>2. QED
        BY <1>1, <2>2, <3>1 DEF TaskOk, Statted, StandsFor, True, SameVersion
    <2>3. QED
      BY <2>1, <2>2, LookWorks
  <1>3. ASSUME NEW m \in Name
        PROVE  /\ Listed(m)' = Listed(m) /\ OnDisk(m)' = OnDisk(m)
               /\ Due(m)' => Due(m) /\ work'[m].at = "none"
               /\ Listed(m) => Due(m)' \/ Visited(m)'
               /\ work'[m].at # "none" => Listed(m)
               /\ work'[m].at = "skipped" => m \in job'.skipped
    <2>1. Listed(m)' = Listed(m) /\ OnDisk(m)' = OnDisk(m)
      BY <1>1 DEF Listed, OnDisk
    <2>2. /\ Listed(m) => Due(m) \/ Visited(m)
          /\ Due(m) => work[m].at = "none"
          /\ work[m].at # "none" => Listed(m)
          /\ work[m].at = "skipped" => m \in job.skipped
      BY <1>1 DEF ArchiveInv, WalkOk
    <2>3. Due(m)' => Due(m)
      BY <1>1 DEF Due
    <2>4. CASE m # n
      <3>1. work'[m] = work[m]
        BY <2>4, LookWorks
      <3>3. <<m, 0>> # e /\ <<m, 1>> # e
        BY <1>1, <2>4
      <3>4. Due(m)' <=> Due(m)
        BY <1>1, <3>3 DEF Due
      <3>2. QED
        BY <1>1, <2>1, <2>2, <3>1, <3>4 DEF Visited
    <2>5. CASE /\ m = n /\ work' = work
               /\ n \in job'.skipped \/ job'.aborted \/ (e = <<n, 1>> /\ <<n, 0>> \in job.listing)
      <3>1. CASE n \in job'.skipped \/ job'.aborted
        BY <1>1, <2>1, <2>2, <2>3, <2>5, <3>1 DEF Visited
      <3>2. CASE e = <<n, 1>> /\ <<n, 0>> \in job.listing
        <4>1. Due(n)' = Due(n)
          BY <1>1, <3>2 DEF Due
        <4>2. QED
          BY <1>1, <2>1, <2>2, <2>5, <4>1 DEF Visited
      <3>3. QED
        BY <2>5, <3>1, <3>2
    <2>6. CASE m = n /\ Due(n) /\ ~Due(n)' /\ work'[n] \in [at : {"file", "stub"}, node : Node]
      <3>1. work'[n].at \notin {"none", "skipped"} /\ Listed(n)
        BY <1>1, <2>6 DEF Listed, Due
      <3>2. QED
        BY <2>1, <2>6, <3>1 DEF Visited
    <2>7. QED
      BY <2>4, <2>5, <2>6, LookWorks
  <1>4. ASSUME NEW m \in Name
        PROVE  /\ m \in job'.present => Listed(m)'
               /\ m \in job'.quiet =>
                     /\ job'.seen[m] = OnDisk(m)'
                     /\ <<m, 0>> \in job'.listing <=> dir'[m].real # 0
                     /\ <<m, 1>> \in job'.listing <=> dir'[m].stub.here
                     /\ Listed(m)' => m \in job'.present
    BY <1>1, <1>3 DEF ArchiveInv, WalkOk
  <1>5. WorkersOk'
    BY <1>2 DEF WorkersOk
  <1>6. WalkOk'
    BY <1>3, <1>4 DEF WalkOk
  <1>7. QED
    BY <1>5, <1>6

LEMMA LookKeeps ==
    ASSUME ArchiveInv, NEW n \in Name, NEW e, Look(n, e)
    PROVE  ArchiveInv'
  <1>1. UNCHANGED <<disk, dir, inode, clock, snaps, journal, events>>
    BY DEF Look, disk, bucket, counters
  <1>2. DiskOk'
    BY <1>1 DEF ArchiveInv, DiskOk
  <1>3. Room'
    <2>1. \A m \in Name : work'[m] = work[m] \/ Handle(m)' = 0
      BY LookWorks DEF Handle
    <2>2. \A m \in Name : Handle(m)' \in {0, Handle(m)}
      BY <2>1 DEF Handle
    <2>3. Used' \subseteq Used
      BY <1>1, <2>2 DEF Used
    <2>4. QED
      BY <1>1, <2>3, RoomStays DEF ArchiveInv, DiskOk
  <1>4. RecordsTrue'
    <2>1. Recording
      BY <1>1 DEF Recording
    <2>2. QED
      BY <1>1, <2>1, RecordingKeeps DEF ArchiveInv
  <1>5. EarlierTrue'
    <2>1. job'.parent = job.parent /\ job'.resumed = job.resumed /\ Going
      BY DEF Look, Going
    <2>2. QED
      BY <1>1, <2>1, TrueSame DEF EarlierTrue, ArchiveInv
  <1>6. SnapshotIsDisk' /\ Accounted'
    BY <1>1 DEF ArchiveInv, SnapshotIsDisk, Accounted
  <1>7. QED
    BY <1>2, <1>3, <1>4, <1>5, <1>6, LookJob, LookBlobs, LookWalk DEF ArchiveInv

LEMMA LeastNumber ==
    ASSUME NEW ns \in SUBSET Nat, IsFiniteSet(ns), ns # {}
    PROVE  \E n \in ns : \A m \in ns : n <= m
  <1> DEFINE Below(n) == {m \in ns : m < n}
             T == {Below(n) : n \in ns}
  <1>1. T \subseteq SUBSET ns /\ T # {}
    OBVIOUS
  <1>2. \E x \in T : \A y \in T : ~(<<y, x>> \in StrictSubsetOrdering(ns))
    <2>1. IsWellFoundedOn(StrictSubsetOrdering(ns), SUBSET ns)
      BY FS_StrictSubsetOrderingWellFounded, FS_FiniteSubsetsOfFinite
    <2> HIDE DEF T
    <2>2. QED
      BY <1>1, <2>1, WFMin
  <1>3. PICK n \in ns : \A y \in T : ~(<<y, Below(n)>> \in StrictSubsetOrdering(ns))
    BY <1>2
  <1>4. ASSUME NEW m \in ns, m < n
        PROVE  FALSE
    <2>1. m \in Nat /\ n \in Nat
      OBVIOUS
    <2>2. Below(m) \in T /\ m \notin Below(m) /\ m \in Below(n) /\ Below(m) \subseteq Below(n)
      <3>1. Below(m) \in T /\ m \in Below(n)
        BY <1>4
      <3>2. m \notin Below(m)
        BY <2>1
      <3>3. \A x \in ns : x \in Nat /\ (x < m => x < n)
        BY <1>4, <2>1
      <3>4. QED
        BY <3>1, <3>2, <3>3
    <2>3. Below(m) \subseteq ns /\ Below(n) \subseteq ns /\ Below(m) # Below(n)
      BY <2>2
    <2> HIDE DEF Below, T
    <2>4. <<Below(m), Below(n)>> \in StrictSubsetOrdering(ns)
      BY <2>2, <2>3 DEF StrictSubsetOrdering
    <2>5. QED
      BY <1>3, <2>2, <2>4
  <1>5. \A m \in ns : n \in Nat /\ m \in Nat
    OBVIOUS
  <1>6. QED
    BY <1>4, <1>5

(* There is a next entry: the lowest name, its file before its placeholder. *)
LEMMA NextFacts ==
    ASSUME job.todo \subseteq Name \X {0, 1}, job.todo # {}
    PROVE  NextEntry \in job.todo
  <1> DEFINE ns == {n \in Name : <<n, 0>> \in job.todo \/ <<n, 1>> \in job.todo}
  <1>1. Name \subseteq Nat
    BY NameFacts
  <1>2. ns \in SUBSET Nat /\ IsFiniteSet(ns) /\ ns # {}
    <2>1. IsFiniteSet(ns)
      BY NameFacts, FS_Subset
    <2>2. PICK f \in job.todo : TRUE
      OBVIOUS
    <2>3. PICK m \in Name, form \in {0, 1} : f = <<m, form>>
      OBVIOUS
    <2>4. m \in ns
      BY <2>2, <2>3
    <2>5. ns \subseteq Name
      OBVIOUS
    <2>6. QED
      BY <1>1, <2>1, <2>4, <2>5
  <1>3. PICK n \in ns : \A m \in ns : n <= m
    BY <1>2, LeastNumber
  <1>4. \A f \in job.todo : f[1] \in ns /\ f[2] \in {0, 1} /\ f = <<f[1], f[2]>>
    OBVIOUS
  <1>5. \A f \in job.todo : f[1] \in Nat /\ n <= f[1] /\ n \in Nat
    BY <1>2, <1>3, <1>4
  <1> DEFINE e == IF <<n, 0>> \in job.todo THEN <<n, 0>> ELSE <<n, 1>>
  <1>6. e \in job.todo /\ e[1] = n
    OBVIOUS
  <1>7. ASSUME NEW f \in job.todo
        PROVE  e[1] < f[1] \/ (e[1] = f[1] /\ e[2] <= f[2])
    <2>1. CASE f[1] = n
      <3>1. f = <<n, f[2]>> /\ f[2] \in {0, 1}
        BY <1>4, <2>1
      <3>2. e[2] <= f[2]
        BY <3>1
      <3>3. QED
        BY <1>6, <2>1, <3>2
    <2>2. CASE f[1] # n
      BY <1>5, <1>6, <2>2
    <2>3. QED
      BY <2>1, <2>2
  <1> HIDE DEF e
  <1>8. QED
    BY <1>6, <1>7 DEF NextEntry

LEMMA Visiting ==
    ASSUME ArchiveInv, NEW n \in Name, NEW form \in {0, 1}, Visit(<<n, form>>)
    PROVE  /\ pc = "walk" /\ Going /\ ~job.aborted /\ job.aborted \in BOOLEAN /\ DOMAIN job = JobFields
           /\ <<n, form>> \in job.todo /\ job.skipped \subseteq Name
           /\ UNCHANGED <<disk, bucket, journal, pc, counters>>
  <1>1. /\ pc = "walk" /\ ~job.aborted /\ job.todo # {} /\ <<n, form>> = NextEntry
        /\ UNCHANGED <<disk, bucket, journal, pc, counters>>
    BY DEF Visit
  <1>2. /\ Going /\ DOMAIN job = JobFields /\ job.skipped \subseteq Name /\ job.aborted \in BOOLEAN
        /\ job.todo \subseteq Name \X {0, 1}
    BY <1>1 DEF ArchiveInv, JobShape, Going
  <1>3. QED
    BY <1>1, <1>2, NextFacts

(* What the walk does to the job when it takes up e. *)
OnWalk(e) ==
    /\ DOMAIN job' = JobFields
    /\ job'.todo = job.todo \ {e}
    /\ job'.parent = job.parent /\ job'.resumed = job.resumed /\ job'.listing = job.listing
    /\ job'.index = job.index /\ job'.fresh = job.fresh /\ job'.pack = job.pack
    /\ job'.flying = job.flying /\ job'.failed = job.failed
    /\ job'.quiet = job.quiet /\ job'.present = job.present /\ job'.seen = job.seen
    /\ job'.aborted \in BOOLEAN /\ (job.aborted => job'.aborted)
    /\ job.skipped \subseteq job'.skipped /\ job'.skipped \subseteq Name

LEMMA WalkedOn ==
    ASSUME DOMAIN job = JobFields, NEW e, job.skipped \subseteq Name, job.aborted \in BOOLEAN,
           job' = Walked(e)
    PROVE  OnWalk(e)
  BY DEF Walked, JobFields, OnWalk

LEMMA WalkedSkipping ==
    ASSUME DOMAIN job = JobFields, NEW e, job.skipped \subseteq Name, job.aborted \in BOOLEAN, NEW n \in Name,
           job' = [Walked(e) EXCEPT !.skipped = @ \cup {n}]
    PROVE  OnWalk(e) /\ n \in job'.skipped
  BY DEF Walked, JobFields, OnWalk

LEMMA WalkedStopping ==
    ASSUME DOMAIN job = JobFields, NEW e, job.skipped \subseteq Name, job.aborted \in BOOLEAN,
           job' = [Walked(e) EXCEPT !.aborted = TRUE]
    PROVE  OnWalk(e) /\ job'.aborted
  BY DEF Walked, JobFields, OnWalk

LEMMA VisitGoneLooks ==
    ASSUME ArchiveInv, NEW n \in Name, NEW form \in {0, 1}, VisitGone(n, form)
    PROVE  Look(n, <<n, form>>)
  <1> DEFINE e == <<n, form>>
  <1>1. Visit(e) /\ work' = work
        /\ (job' = [Walked(e) EXCEPT !.skipped = @ \cup {n}] \/ job' = [Walked(e) EXCEPT !.aborted = TRUE])
    BY DEF VisitGone
  <1>2. /\ pc = "walk" /\ Going /\ ~job.aborted /\ DOMAIN job = JobFields
        /\ e \in job.todo /\ job.skipped \subseteq Name
        /\ UNCHANGED <<disk, bucket, journal, pc, counters>>
    BY <1>1, Visiting
  <1>3. e \in {<<n, 0>>, <<n, 1>>} /\ job.aborted \in BOOLEAN
    BY <1>1, Visiting
  <1> HIDE DEF e
  <1>4. OnWalk(e) /\ (n \in job'.skipped \/ job'.aborted)
    BY <1>1, <1>2, <1>3, WalkedSkipping, WalkedStopping
  <1>5. QED
    BY <1>1, <1>2, <1>3, <1>4 DEF Look, OnWalk, e

LEMMA VisitFileLooks ==
    ASSUME ArchiveInv, NEW n \in Name, VisitFile(n)
    PROVE  Look(n, <<n, 0>>)
  <1> DEFINE e == <<n, 0>>
             node == NodeOf(n)
             w == [at |-> "file", node |-> node]
  <1>1. Visit(e) /\ dir[n].real # 0 /\ job' = Walked(e) /\ work' = [work EXCEPT ![n] = w]
    BY DEF VisitFile
  <1>2. /\ pc = "walk" /\ Going /\ ~job.aborted /\ DOMAIN job = JobFields
        /\ e \in job.todo /\ job.skipped \subseteq Name
        /\ UNCHANGED <<disk, bucket, journal, pc, counters>>
    BY <1>1, Visiting
  <1>3. job.aborted \in BOOLEAN
    BY <1>1, Visiting
  <1>4. /\ dir[n].real \in Inode /\ inode[dir[n].real].content \in Seq(Nat)
        /\ inode[dir[n].real].mtime \in Nat /\ inode[dir[n].real].ctime \in Nat
        /\ inode[dir[n].real].ctime <= clock
    BY <1>1, EntryOf DEF ArchiveInv
  <1>5. Cardinality({m \in Name : dir[m].real = dir[n].real}) \in Nat
    BY NameFacts, FS_Subset, FS_CardinalityType
  <1>6. /\ node \in Node /\ ~node.offloaded /\ node.inode = dir[n].real /\ dir[n].real # 0
        /\ node.ctime = inode[dir[n].real].ctime /\ node.mtime = inode[dir[n].real].mtime
        /\ node.size = Len(inode[dir[n].real].content)
    <2>1. Len(inode[dir[n].real].content) \in Nat /\ <<>> \in Seq(Nat) /\ dir[n].real \in Nat
      BY <1>4, EmptySeq, LenProperties, NameFacts
    <2>2. QED
      BY <1>1, <1>4, <1>5, <2>1 DEF NodeOf, Node
  <1> HIDE DEF node, e
  <1>7. SameVersion(n, node) /\ Statted(n, node)
    BY <1>4, <1>6 DEF SameVersion, Statted
  <1>8. TaskOk(n, w) /\ w \in [at : {"file", "stub"}, node : Node]
    BY <1>6, <1>7 DEF TaskOk
  <1> HIDE DEF w
  <1>9. e = <<n, 0>>
    BY DEF e
  <1>10. OnWalk(e)
    BY <1>1, <1>2, <1>3, WalkedOn
  <1>11. QED
    BY <1>1, <1>2, <1>8, <1>9, <1>10 DEF Look, OnWalk

LEMMA VisitStubLooks ==
    ASSUME ArchiveInv, NEW n \in Name, VisitStub(n)
    PROVE  Look(n, <<n, 1>>)
  <1> DEFINE e == <<n, 1>>
  <1>1. Visit(e) /\ dir[n].stub.here
    BY DEF VisitStub
  <1>2. /\ pc = "walk" /\ Going /\ ~job.aborted /\ DOMAIN job = JobFields
        /\ e \in job.todo /\ job.skipped \subseteq Name
        /\ UNCHANGED <<disk, bucket, journal, pc, counters>>
    BY <1>1, Visiting
  <1>3. job.aborted \in BOOLEAN
    BY <1>1, Visiting
  <1>4. CASE job.offloaded = "skip" \/ <<n, 0>> \in job.listing
    <2>1. /\ work' = work
          /\ \/ <<n, 0>> \in job.listing /\ job' = Walked(e)
             \/ job' = [Walked(e) EXCEPT !.skipped = @ \cup {n}]
      BY <1>4 DEF VisitStub
    <2>2. OnWalk(e) /\ (<<n, 0>> \in job.listing \/ n \in job'.skipped)
      BY <1>2, <1>3, <2>1, WalkedOn, WalkedSkipping
    <2>3. QED
      BY <1>2, <2>1, <2>2 DEF Look, OnWalk
  <1>5. CASE ~(job.offloaded = "skip" \/ <<n, 0>> \in job.listing)
    <2> DEFINE node == NodeOfStub(dir[n].stub)
               w == [at |-> "stub", node |-> node]
    <2>1. job' = Walked(e) /\ work' = [work EXCEPT ![n] = w] /\ <<n, 0>> \notin job.listing
      BY <1>5 DEF VisitStub
    <2>2. dir[n].stub.content \in Seq(Nat) /\ dir[n].stub.mtime \in Nat /\ clock \in Nat
      BY <1>1, StubOf DEF ArchiveInv, DiskOk
    <2>3. Len(dir[n].stub.content) \in Nat /\ <<>> \in Seq(Nat)
      BY <2>2, EmptySeq, LenProperties
    <2>4. /\ node \in Node /\ node.offloaded /\ node.size = Len(node.hash) /\ node.ctime = 0
          /\ node.hash = dir[n].stub.content /\ node.mtime = dir[n].stub.mtime
      BY <2>2, <2>3 DEF NodeOfStub, Node
    <2> HIDE DEF node
    <2>5. n \in job.quiet => dir[n].real = 0
      BY <1>2, <2>1 DEF ArchiveInv, WalkOk
    <2>6. StandsFor(n, node)
      BY <1>1, <2>2, <2>4, <2>5 DEF StandsFor
    <2>7. TaskOk(n, w) /\ w \in [at : {"file", "stub"}, node : Node]
      BY <2>4, <2>6 DEF TaskOk
    <2> HIDE DEF w
    <2>8. OnWalk(e)
      BY <1>2, <1>3, <2>1, WalkedOn
    <2>9. QED
      BY <1>2, <2>1, <2>7, <2>8 DEF Look, OnWalk
  <1>6. QED
    BY <1>4, <1>5

-----------------------------------------------------------------------------
(* A run ends without a snapshot, or is over. *)
LEMMA EndKeeps ==
    ASSUME ArchiveInv, EndRun, UNCHANGED <<disk, bucket>>, journal' \in {journal, <<>>},
           events' \in {events, events + 1}
    PROVE  ArchiveInv'
  <1>1. /\ pc' = "idle" /\ work' = [n \in Name |-> NoWork] /\ ~Going'
        /\ UNCHANGED <<dir, inode, clock, stored, durable, snaps>> /\ events \in Nat
    BY DEF EndRun, disk, bucket, Going, ArchiveInv, DiskOk
  <1>2. DiskOk'
    BY <1>1 DEF ArchiveInv, DiskOk
  <1>3. Room'
    <2>1. \A m \in Name : work'[m].at = "none"
      BY <1>1 DEF NoWork
    <2>2. \A m \in Name : Handle(m)' = 0
      BY <2>1 DEF Handle
    <2>3. Used' \subseteq Used
      BY <1>1, <2>2 DEF Used
    <2>4. QED
      BY <1>1, <2>3, RoomStays DEF ArchiveInv
  <1>4. RecordsTrue'
    <2>1. \A n, node : True(n, node)' <=> True(n, node)
      BY TrueSame
    <2>2. CASE journal' = journal
      BY <1>1, <2>1, <2>2 DEF ArchiveInv, RecordsTrue
    <2>3. CASE journal' = <<>>
      <3>1. journal' \in Seq(Entry) /\ DOMAIN journal' = {}
        BY <2>3, EmptySeq
      <3>2. QED
        BY <1>1, <2>1, <3>1 DEF ArchiveInv, RecordsTrue
    <2>4. QED
      BY <2>2, <2>3
  <1>5. JobShape' /\ StageOk'
    <2>1. \A m \in Name : work'[m] = NoWork
      BY <1>1
    <2>2. \A m \in Name : WorkShape(work'[m])
      BY <2>1 DEF WorkShape
    <2>3. \A m \in Name : WorkShape(work[m])'
      BY <2>2 DEF WorkShape
    <2>4. JobShape'
      BY <1>1, <2>3 DEF JobShape
    <2>5. QED
      BY <1>1, <2>1, <2>4 DEF StageOk, NoWork
  <1>6. BlobsOk'
    BY <1>1 DEF ArchiveInv, BlobsOk
  <1>7. EarlierTrue' /\ WorkersOk' /\ WalkOk'
    BY <1>1 DEF EarlierTrue, WorkersOk, WalkOk
  <1>8. SnapshotIsDisk' /\ Accounted'
    BY <1>1 DEF ArchiveInv, SnapshotIsDisk, Accounted
  <1>9. QED
    BY <1>2, <1>3, <1>4, <1>5, <1>6, <1>7, <1>8 DEF ArchiveInv

-----------------------------------------------------------------------------
(* Steps of the whole run while no worker moves. *)

Alongside ==
    /\ UNCHANGED <<disk, snaps, journal, work, counters>>
    /\ Going /\ pc' \in {"walk", "tree", "packed", "flushed"}
    /\ DOMAIN job' = JobFields
    /\ job'.parent = job.parent /\ job'.resumed = job.resumed
    /\ job'.listing = job.listing /\ job'.todo = job.todo /\ job'.failed = job.failed
    /\ job'.skipped = job.skipped /\ job'.quiet = job.quiet /\ job'.present = job.present
    /\ job'.seen = job.seen
    /\ job'.aborted \in BOOLEAN /\ (job.aborted => job'.aborted)

LEMMA AlongsideKeeps ==
    ASSUME ArchiveInv, Alongside, StageOk', BlobsOk'
    PROVE  ArchiveInv'
  <1>1. UNCHANGED <<disk, dir, inode, clock, snaps, journal, events, work>> /\ Going /\ Going'
    BY DEF Alongside, disk, counters, Going
  <1>2. DiskOk'
    BY <1>1 DEF ArchiveInv, DiskOk
  <1>3. Room'
    <2>1. Used' = Used
      BY <1>1 DEF Used, Handle
    <2>2. QED
      BY <1>1, <2>1, RoomStays DEF ArchiveInv, DiskOk
  <1>4. RecordsTrue'
    <2>1. Recording
      BY <1>1 DEF Recording
    <2>2. QED
      BY <1>1, <2>1, RecordingKeeps DEF ArchiveInv
  <1>5. JobShape'
    <2>1. \A m \in Name : WorkShape(work[m])'
      BY <1>1 DEF ArchiveInv, JobShape, WorkShape
    <2>2. /\ job'.todo \subseteq job'.listing /\ job'.listing \subseteq Name \X {0, 1}
          /\ job'.parent \in NodeMap /\ job'.resumed \in UNION {[D -> Entry] : D \in SUBSET Nat}
          /\ job'.skipped \subseteq Name /\ job'.quiet \subseteq Name /\ job'.present \subseteq Name
          /\ job'.seen \in [Name -> Seen] /\ job'.failed \in BOOLEAN /\ job'.aborted \in BOOLEAN
      BY <1>1 DEF ArchiveInv, JobShape, Alongside
    <2>3. DOMAIN work' = Name /\ DOMAIN job' = JobFields
          /\ pc' \in {"idle", "walk", "tree", "packed", "flushed", "saved"}
      BY <1>1 DEF ArchiveInv, JobShape, Alongside
    <2>4. QED
      BY <2>1, <2>2, <2>3 DEF JobShape
  <1>6. EarlierTrue'
    <2>1. job'.parent = job.parent /\ job'.resumed = job.resumed
      BY DEF Alongside
    <2>2. QED
      BY <1>1, <2>1, TrueSame DEF EarlierTrue, ArchiveInv
  <1>7. WorkersOk'
    <2>1. job'.quiet = job.quiet
      BY DEF Alongside
    <2>2. ASSUME NEW m \in Name
          PROVE  TaskOk(m, Task(m))'
      <3>1. TaskOk(m, Task(m)) /\ Task(m)' = Task(m)
        BY <1>1 DEF ArchiveInv, WorkersOk, Task
      <3>2. QED
        BY <1>1, <2>1, <3>1 DEF TaskOk, Statted, StandsFor, True, SameVersion
    <2>3. QED
      BY <2>2 DEF WorkersOk
  <1>8. WalkOk'
    <2>1. /\ job'.listing = job.listing /\ job'.todo = job.todo /\ job'.skipped = job.skipped
          /\ job'.quiet = job.quiet /\ job'.present = job.present /\ job'.seen = job.seen
          /\ (job.aborted => job'.aborted)
      BY DEF Alongside
    <2>2. \A m \in Name : /\ Listed(m)' <=> Listed(m)
                          /\ Due(m)' <=> Due(m)
                          /\ Visited(m) => Visited(m)'
                          /\ OnDisk(m)' = OnDisk(m)
      BY <1>1, <2>1 DEF Listed, Due, Visited, OnDisk
    <2>3. QED
      BY <1>1, <2>1, <2>2 DEF ArchiveInv, WalkOk
  <1>9. SnapshotIsDisk' /\ Accounted'
    BY <1>1 DEF ArchiveInv, SnapshotIsDisk, Accounted
  <1>10. QED
    BY <1>2, <1>3, <1>4, <1>5, <1>6, <1>7, <1>8, <1>9 DEF ArchiveInv

(* What the run can count on stays, if it knows at least as much as before. *)
LEMMA AlongsideBlobs ==
    ASSUME ArchiveInv, Alongside, durable \subseteq durable', durable' \subseteq stored',
           job'.index \subseteq stored', job'.fresh \subseteq stored',
           job'.index \subseteq durable' \cup job'.fresh, pc' = "flushed" => job'.fresh = {},
           job.index \subseteq job'.index, job'.flying \subseteq job.flying, Known \subseteq Known',
           pc' # "walk" => TreeBlob(Nodes) \in Known'
    PROVE  BlobsOk'
  <1>1. /\ work' = work /\ snaps' = snaps /\ Going /\ Going' /\ job'.failed = job.failed
        /\ job'.parent = job.parent /\ job'.resumed = job.resumed
    BY DEF Alongside, Going
  <1>2. Nodes' = Nodes /\ \A m \in Name : Task(m)' = Task(m)
    BY <1>1 DEF Nodes, Task
  <1>3. job'.failed \/ job'.flying \subseteq UNION {work'[m].up : m \in {k \in Name : work'[k].at = "upload"}}
    BY <1>1 DEF ArchiveInv, BlobsOk
  <1>4. \A m \in Name :
           /\ Task(m)'.at = "read" => Chunks(Task(m)'.got) \subseteq Known'
           /\ Task(m)'.at = "done" => Chunks(Task(m)'.node.content) \subseteq Known'
    BY <1>1, <1>2 DEF ArchiveInv, BlobsOk
  <1>5. /\ \A m \in DOMAIN job'.parent : Chunks(job'.parent[m].content) \subseteq job'.index
        /\ \A k \in DOMAIN job'.resumed : Chunks(job'.resumed[k].node.content) \subseteq job'.index
    BY <1>1 DEF ArchiveInv, BlobsOk
  <1>6. \A k \in DOMAIN snaps' : Reach(snaps'[k]) \subseteq durable'
    BY <1>1 DEF ArchiveInv, BlobsOk
  <1>7. QED
    BY <1>1, <1>2, <1>3, <1>4, <1>5, <1>6 DEF BlobsOk

(* What a run has during its stages. *)
LEMMA RunFacts ==
    ASSUME ArchiveInv, Going
    PROVE  /\ DOMAIN job = JobFields /\ job.failed \in BOOLEAN /\ job.aborted \in BOOLEAN
           /\ durable \subseteq stored /\ job.index \subseteq stored /\ job.fresh \subseteq stored
           /\ job.index \subseteq durable \cup job.fresh /\ (pc = "flushed" => job.fresh = {})
           /\ pc # "walk" => TreeBlob(Nodes) \in Known
           /\ pc # "walk" => /\ job.todo = {} /\ ~job.aborted
                             /\ \A n \in Name : work[n].at \in {"none", "skipped", "done"}
           /\ pc # "walk" => job.failed \/ job.flying = {}
  <1>1. pc \in {"walk", "tree", "packed", "flushed"}
    BY DEF ArchiveInv, JobShape, Going
  <1>2. /\ DOMAIN job = JobFields /\ job.failed \in BOOLEAN /\ job.aborted \in BOOLEAN
    BY <1>1 DEF ArchiveInv, JobShape
  <1>3. /\ durable \subseteq stored /\ job.index \subseteq stored /\ job.fresh \subseteq stored
        /\ job.index \subseteq durable \cup job.fresh /\ (pc = "flushed" => job.fresh = {})
        /\ pc # "walk" => TreeBlob(Nodes) \in Known
    BY <1>1 DEF ArchiveInv, BlobsOk
  <1>4. pc # "walk" => /\ job.todo = {} /\ ~job.aborted
                       /\ \A n \in Name : work[n].at \in {"none", "skipped", "done"}
    BY <1>1 DEF ArchiveInv, StageOk
  <1>5. pc # "walk" => job.failed \/ job.flying = {}
    <2>1. job.failed \/ job.flying \subseteq UNION {work[m].up : m \in {k \in Name : work[k].at = "upload"}}
      BY DEF ArchiveInv, BlobsOk
    <2>2. pc # "walk" => {k \in Name : work[k].at = "upload"} = {}
      BY <1>4
    <2>3. QED
      BY <2>1, <2>2
  <1>6. QED
    BY <1>2, <1>3, <1>4, <1>5

LEMMA NoticeKeeps ==
    ASSUME ArchiveInv, Notice
    PROVE  ArchiveInv'
  <1>1. /\ pc = "walk" /\ Going /\ job' = [job EXCEPT !.aborted = TRUE]
        /\ UNCHANGED <<disk, bucket, journal, pc, work, counters>> /\ UNCHANGED <<stored, durable, snaps>>
    BY DEF Notice, Going, bucket
  <1>2. DOMAIN job = JobFields
    BY <1>1, RunFacts
  <1>3. /\ DOMAIN job' = JobFields
        /\ \A f \in JobFields \ {"aborted"} : job'[f] = job[f]
        /\ job'.aborted = TRUE
    BY <1>1, <1>2 DEF JobFields
  <1>4. Alongside /\ job'.index = job.index /\ job'.fresh = job.fresh /\ job'.pack = job.pack
        /\ job'.flying = job.flying
    BY <1>1, <1>3 DEF Alongside, JobFields
  <1>5. Known' = Known
    BY <1>1, <1>4 DEF Known
  <1>6. BlobsOk'
    BY <1>1, <1>4, <1>5, RunFacts, AlongsideBlobs
  <1>7. StageOk'
    BY <1>1 DEF StageOk
  <1>8. QED
    BY <1>4, <1>6, <1>7, AlongsideKeeps

LEMMA SaveTreeKeeps ==
    ASSUME ArchiveInv, SaveTree
    PROVE  ArchiveInv'
  <1>1. /\ pc = "walk" /\ Going /\ pc' = "tree" /\ ~job.aborted /\ job.todo = {}
        /\ \A n \in Name : work[n].at \in {"none", "skipped", "done"}
        /\ job' = IF TreeBlob(Nodes) \in job.index THEN job
                  ELSE [job EXCEPT !.pack = @ \cup {TreeBlob(Nodes)}]
        /\ UNCHANGED <<disk, bucket, journal, work, counters>> /\ UNCHANGED <<stored, durable, snaps>>
    BY DEF SaveTree, Going, bucket, Resting
  <1>2. DOMAIN job = JobFields /\ job.aborted \in BOOLEAN
    BY <1>1, RunFacts
  <1>3. /\ DOMAIN job' = JobFields
        /\ \A f \in JobFields \ {"pack"} : job'[f] = job[f]
        /\ job.pack \subseteq job'.pack
        /\ TreeBlob(Nodes) \in job.index \cup job'.pack
    BY <1>1, <1>2 DEF JobFields
  <1>4. Alongside /\ job'.index = job.index /\ job'.fresh = job.fresh /\ job'.flying = job.flying
    BY <1>1, <1>2, <1>3 DEF Alongside, JobFields
  <1>5. Known \subseteq Known' /\ TreeBlob(Nodes) \in Known'
    BY <1>1, <1>3, <1>4 DEF Known
  <1>6. BlobsOk'
    BY <1>1, <1>4, <1>5, RunFacts, AlongsideBlobs
  <1>7. StageOk'
    <2>1. job'.todo = {} /\ ~job'.aborted
      BY <1>1, <1>3 DEF JobFields
    <2>2. QED
      BY <1>1, <2>1 DEF StageOk
  <1>8. QED
    BY <1>4, <1>6, <1>7, AlongsideKeeps

LEMMA FlushPackKeeps ==
    ASSUME ArchiveInv, FlushPack
    PROVE  ArchiveInv'
  <1>1. /\ pc = "tree" /\ Going /\ pc' = "packed" /\ ~job.failed
        /\ stored' = stored \cup job.pack
        /\ job' = [job EXCEPT !.index = @ \cup job.pack, !.flying = @ \ job.pack, !.fresh = @ \cup job.pack]
        /\ UNCHANGED <<disk, durable, snaps, journal, work, counters>>
    BY DEF FlushPack, upload_pack, Going
  <1>2. /\ DOMAIN job = JobFields /\ job.aborted \in BOOLEAN
        /\ durable \subseteq stored /\ job.index \subseteq stored /\ job.fresh \subseteq stored
        /\ job.index \subseteq durable \cup job.fresh /\ TreeBlob(Nodes) \in Known
        /\ job.todo = {} /\ ~job.aborted /\ job.flying = {}
        /\ \A n \in Name : work[n].at \in {"none", "skipped", "done"}
    BY <1>1, RunFacts
  <1>3. /\ DOMAIN job' = JobFields
        /\ \A f \in JobFields \ {"index", "flying", "fresh"} : job'[f] = job[f]
        /\ job'.index = job.index \cup job.pack /\ job'.flying = job.flying \ job.pack
        /\ job'.fresh = job.fresh \cup job.pack
    BY <1>1, <1>2 DEF JobFields
  <1>4. Alongside
    BY <1>1, <1>2, <1>3 DEF Alongside, JobFields
  <1>5. Known \subseteq Known'
    BY <1>1, <1>2, <1>3 DEF Known
  <1>6. BlobsOk'
    <2>1. /\ durable \subseteq durable' /\ durable' \subseteq stored'
          /\ job'.index \subseteq stored' /\ job'.fresh \subseteq stored'
          /\ job'.index \subseteq durable' \cup job'.fresh /\ pc' # "flushed"
          /\ job.index \subseteq job'.index /\ job'.flying \subseteq job.flying
          /\ TreeBlob(Nodes) \in Known'
      BY <1>1, <1>2, <1>3, <1>5
    <2>2. QED
      BY <1>4, <1>5, <2>1, AlongsideBlobs
  <1>7. StageOk'
    <2>1. job'.todo = {} /\ ~job'.aborted
      BY <1>2, <1>3 DEF JobFields
    <2>2. QED
      BY <1>1, <1>2, <2>1 DEF StageOk
  <1>8. QED
    BY <1>4, <1>6, <1>7, AlongsideKeeps

LEMMA WriteIndexKeeps ==
    ASSUME ArchiveInv, WriteIndex
    PROVE  ArchiveInv'
  <1>1. /\ pc = "packed" /\ Going /\ pc' = "flushed"
        /\ durable' = durable \cup job.fresh /\ job' = [job EXCEPT !.fresh = {}, !.pack = {}]
        /\ UNCHANGED <<disk, stored, snaps, journal, work, counters>>
    BY DEF WriteIndex, Going
  <1>2. /\ DOMAIN job = JobFields /\ job.aborted \in BOOLEAN
        /\ durable \subseteq stored /\ job.index \subseteq stored /\ job.fresh \subseteq stored
        /\ job.index \subseteq durable \cup job.fresh /\ TreeBlob(Nodes) \in Known
        /\ job.todo = {} /\ ~job.aborted
        /\ \A n \in Name : work[n].at \in {"none", "skipped", "done"}
    BY <1>1, RunFacts
  <1>3. /\ DOMAIN job' = JobFields
        /\ \A f \in JobFields \ {"fresh", "pack"} : job'[f] = job[f]
        /\ job'.fresh = {}
    BY <1>1, <1>2 DEF JobFields
  <1>4. Alongside /\ job'.index = job.index /\ job'.flying = job.flying
    BY <1>1, <1>2, <1>3 DEF Alongside, JobFields
  <1>5. Known' = Known
    BY <1>1, <1>4 DEF Known
  <1>6. BlobsOk'
    <2>1. /\ durable \subseteq durable' /\ durable' \subseteq stored'
          /\ job'.index \subseteq stored' /\ job'.fresh \subseteq stored'
          /\ job'.index \subseteq durable' \cup job'.fresh
          /\ job.index \subseteq job'.index /\ job'.flying \subseteq job.flying
          /\ TreeBlob(Nodes) \in Known'
      BY <1>1, <1>2, <1>3, <1>4, <1>5
    <2>2. QED
      BY <1>3, <1>4, <1>5, <2>1, AlongsideBlobs
  <1>7. StageOk'
    <2>1. job'.todo = {} /\ ~job'.aborted
      BY <1>2, <1>3 DEF JobFields
    <2>2. QED
      BY <1>1, <1>2, <2>1 DEF StageOk
  <1>8. QED
    BY <1>4, <1>6, <1>7, AlongsideKeeps

-----------------------------------------------------------------------------
(* The snapshot. *)

TheSnapshot == [nodes |-> Nodes, skipped |-> job.skipped, present |-> job.present,
                truth |-> [n \in job.quiet |-> job.seen[n]]]

(* The walk is over: what was listed is done, or was skipped. *)
LEMMA Finished ==
    ASSUME ArchiveInv, pc = "flushed", NEW n \in Name
    PROVE  /\ Going /\ DOMAIN Nodes = {m \in Name : work[m].at = "done"}
           /\ Listed(n) => n \in DOMAIN Nodes \/ n \in job.skipped
           /\ n \in DOMAIN Nodes => /\ Listed(n) /\ Nodes[n] = work[n].node /\ Nodes[n] \in Node
                                    /\ True(n, Nodes[n])
                                    /\ Statted(n, Nodes[n]) \/ StandsFor(n, Nodes[n])
                                    /\ Chunks(Nodes[n].content) \subseteq job.index
  <1>1. Going /\ pc # "walk" /\ pc \notin {"walk", "tree"}
    BY DEF Going
  <1>2. /\ job.todo = {} /\ ~job.aborted /\ work[n].at \in {"none", "skipped", "done"}
    BY <1>1, RunFacts
  <1>3. DOMAIN Nodes = {m \in Name : work[m].at = "done"} /\ (n \in DOMAIN Nodes => Nodes[n] = work[n].node)
    BY DEF Nodes
  <1>4. Listed(n) => n \in DOMAIN Nodes \/ n \in job.skipped
    <2>1. /\ Listed(n) => Due(n) \/ Visited(n)
          /\ work[n].at = "skipped" => n \in job.skipped
      BY <1>1 DEF ArchiveInv, WalkOk
    <2>2. ~Due(n)
      BY <1>2 DEF Due
    <2>3. QED
      BY <1>2, <1>3, <2>1, <2>2 DEF Visited
  <1>5. ASSUME work[n].at = "done"
        PROVE  /\ Listed(n) /\ work[n].node \in Node /\ True(n, work[n].node)
               /\ Statted(n, work[n].node) \/ StandsFor(n, work[n].node)
               /\ Chunks(work[n].node.content) \subseteq job.index
    <2>1. Task(n) = work[n] /\ work[n].node \in Node
      BY <1>5, TaskShape DEF ArchiveInv
    <2>2. Listed(n)
      BY <1>1, <1>5 DEF ArchiveInv, WalkOk
    <2>3. TaskOk(n, work[n])
      BY <1>1, <2>1 DEF ArchiveInv, WorkersOk
    <2>4. Chunks(work[n].node.content) \subseteq Known
      BY <1>1, <1>5, <2>1 DEF ArchiveInv, BlobsOk
    <2>5. QED
      BY <1>1, <1>5, <2>1, <2>2, <2>3, <2>4 DEF TaskOk, Known
  <1>6. QED
    BY <1>1, <1>3, <1>4, <1>5

LEMMA TheSnapshotFacts ==
    ASSUME ArchiveInv, pc = "flushed"
    PROVE  /\ TheSnapshot \in Snapshot
           /\ \A n \in DOMAIN TheSnapshot.nodes : True(n, TheSnapshot.nodes[n])
           /\ Reach(TheSnapshot) \subseteq durable
           /\ TheSnapshot.present \subseteq DOMAIN TheSnapshot.nodes \cup TheSnapshot.skipped
           /\ \A n \in DOMAIN TheSnapshot.truth \ TheSnapshot.skipped :
                 IF TheSnapshot.truth[n].here
                 THEN /\ n \in DOMAIN TheSnapshot.nodes
                      /\ TheSnapshot.nodes[n].content = TheSnapshot.truth[n].content
                      /\ TheSnapshot.nodes[n].mtime = TheSnapshot.truth[n].mtime
                 ELSE n \notin DOMAIN TheSnapshot.nodes
  <1> DEFINE s == TheSnapshot
  <1>1. Going /\ pc # "walk" /\ pc \notin {"walk", "tree"}
    BY DEF Going
  <1>2. /\ s.nodes = Nodes /\ s.skipped = job.skipped /\ s.present = job.present
        /\ s.truth = [n \in job.quiet |-> job.seen[n]]
    BY DEF TheSnapshot
  <1>3. /\ job.skipped \subseteq Name /\ job.quiet \subseteq Name /\ job.present \subseteq Name
        /\ job.seen \in [Name -> Seen]
    BY <1>1 DEF ArchiveInv, JobShape
  <1>4. Nodes \in NodeMap
    <2>1. DOMAIN Nodes \subseteq Name /\ Nodes = [n \in DOMAIN Nodes |-> Nodes[n]]
      BY DEF Nodes
    <2>2. \A n \in DOMAIN Nodes : Nodes[n] \in Node
      BY <2>1, Finished
    <2>3. Nodes \in [DOMAIN Nodes -> Node]
      BY <2>1, <2>2
    <2>4. QED
      BY <2>1, <2>3 DEF NodeMap
  <1>5. s \in Snapshot
    <2>1. [n \in job.quiet |-> job.seen[n]] \in UNION {[D -> Seen] : D \in SUBSET Name}
      BY <1>3
    <2>2. QED
      BY <1>3, <1>4, <2>1 DEF Snapshot, TheSnapshot
  <1>6. DOMAIN Nodes \subseteq Name
    BY DEF Nodes
  <1>7. \A n \in DOMAIN s.nodes : True(n, s.nodes[n])
    BY <1>2, <1>6, Finished
  <1>8. Reach(s) \subseteq durable
    <2>1. TreeBlob(Nodes) \in Known /\ job.index \subseteq durable \cup job.fresh /\ job.fresh = {}
      BY <1>1, RunFacts
    <2>2. Known = job.index
      BY <1>1 DEF Known
    <2>3. \A n \in DOMAIN Nodes : Chunks(Nodes[n].content) \subseteq job.index
      BY <1>6, Finished
    <2>4. Reach(s) \subseteq job.index
      BY <1>2, <2>1, <2>2, <2>3 DEF Reach
    <2>5. QED
      BY <2>1, <2>4
  <1>9. s.present \subseteq DOMAIN s.nodes \cup s.skipped
    <2>1. \A n \in job.present : n \in Name /\ Listed(n)
      BY <1>1, <1>3 DEF ArchiveInv, WalkOk
    <2>2. QED
      BY <1>2, <2>1, Finished
  <1>10. ASSUME NEW n \in job.quiet, n \notin job.skipped
         PROVE  IF job.seen[n].here
                THEN /\ n \in DOMAIN Nodes
                     /\ Nodes[n].content = job.seen[n].content
                     /\ Nodes[n].mtime = job.seen[n].mtime
                ELSE n \notin DOMAIN Nodes
    <2>1. /\ n \in Name /\ job.seen[n] = OnDisk(n)
          /\ <<n, 0>> \in job.listing <=> dir[n].real # 0
          /\ <<n, 1>> \in job.listing <=> dir[n].stub.here
      BY <1>1, <1>3, <1>10 DEF ArchiveInv, WalkOk
    <2>2. CASE ~Listed(n)
      <3>1. dir[n].real = 0 /\ ~dir[n].stub.here
        BY <2>1, <2>2 DEF Listed
      <3>2. ~OnDisk(n).here
        BY <3>1 DEF OnDisk
      <3>3. n \notin DOMAIN Nodes
        BY <2>1, <2>2, Finished
      <3>4. QED
        BY <2>1, <3>2, <3>3
    <2>3. CASE Listed(n)
      <3>1. /\ n \in DOMAIN Nodes /\ True(n, Nodes[n])
            /\ Statted(n, Nodes[n]) \/ StandsFor(n, Nodes[n])
        BY <1>10, <2>1, <2>3, Finished
      <3>2. CASE Statted(n, Nodes[n])
        <4>1. /\ SameVersion(n, Nodes[n]) /\ dir[n].real # 0
              /\ Nodes[n].mtime = inode[dir[n].real].mtime
          BY <1>10, <3>2 DEF Statted, SameVersion
        <4>2. Nodes[n].content = inode[dir[n].real].content
          BY <3>1, <4>1 DEF True
        <4>3. OnDisk(n).here /\ OnDisk(n).content = inode[dir[n].real].content
              /\ OnDisk(n).mtime = inode[dir[n].real].mtime
          BY <4>1 DEF OnDisk
        <4>4. QED
          BY <2>1, <3>1, <4>1, <4>2, <4>3
      <3>3. CASE StandsFor(n, Nodes[n])
        <4>1. /\ dir[n].real = 0 /\ dir[n].stub.here
              /\ Nodes[n].hash = dir[n].stub.content /\ Nodes[n].mtime = dir[n].stub.mtime
          BY <1>10, <3>3 DEF StandsFor
        <4>2. Nodes[n].content = dir[n].stub.content
          BY <3>1, <4>1 DEF True
        <4>3. OnDisk(n).here /\ OnDisk(n).content = dir[n].stub.content
              /\ OnDisk(n).mtime = dir[n].stub.mtime
          BY <4>1 DEF OnDisk
        <4>4. QED
          BY <2>1, <3>1, <4>1, <4>2, <4>3
      <3>4. QED
        BY <3>1, <3>2, <3>3
    <2>4. QED
      BY <2>2, <2>3
  <1>11. QED
    BY <1>2, <1>5, <1>7, <1>8, <1>9, <1>10

LEMMA SaveSnapshotKeeps ==
    ASSUME ArchiveInv, SaveSnapshot
    PROVE  ArchiveInv'
  <1>1. /\ pc = "flushed" /\ pc' = "saved" /\ ~Going' /\ Going
        /\ snaps' = Append(snaps, TheSnapshot)
        /\ UNCHANGED <<disk, stored, durable, journal, job, work, counters>>
        /\ UNCHANGED <<dir, inode, clock, events>>
    BY DEF SaveSnapshot, Going, TheSnapshot, disk, counters
  <1>2. /\ TheSnapshot \in Snapshot
        /\ \A n \in DOMAIN TheSnapshot.nodes : True(n, TheSnapshot.nodes[n])
        /\ Reach(TheSnapshot) \subseteq durable
        /\ TheSnapshot.present \subseteq DOMAIN TheSnapshot.nodes \cup TheSnapshot.skipped
        /\ \A n \in DOMAIN TheSnapshot.truth \ TheSnapshot.skipped :
              IF TheSnapshot.truth[n].here
              THEN /\ n \in DOMAIN TheSnapshot.nodes
                   /\ TheSnapshot.nodes[n].content = TheSnapshot.truth[n].content
                   /\ TheSnapshot.nodes[n].mtime = TheSnapshot.truth[n].mtime
              ELSE n \notin DOMAIN TheSnapshot.nodes
    BY <1>1, TheSnapshotFacts
  <1> DEFINE s == TheSnapshot
  <1> HIDE DEF s
  <1>3. /\ snaps' \in Seq(Snapshot) /\ snaps'[Len(snaps) + 1] = s
        /\ \A k \in DOMAIN snaps' : k = Len(snaps) + 1 \/ (k \in DOMAIN snaps /\ snaps'[k] = snaps[k])
    <2>1. snaps \in Seq(Snapshot) /\ s \in Snapshot /\ snaps' = Append(snaps, s)
      BY <1>1, <1>2 DEF ArchiveInv, RecordsTrue, s
    <2>2. /\ snaps' \in Seq(Snapshot) /\ DOMAIN snaps' = 1..(Len(snaps) + 1)
          /\ snaps'[Len(snaps) + 1] = s /\ Len(snaps) \in Nat
          /\ \A k \in 1..Len(snaps) : snaps'[k] = snaps[k]
          /\ DOMAIN snaps = 1..Len(snaps)
      BY <2>1
    <2>3. QED
      BY <2>2
  <1>4. DiskOk' /\ Room'
    <2>1. Used' = Used
      BY <1>1 DEF Used, Handle
    <2>2. Room'
      BY <1>1, <2>1 DEF ArchiveInv, Room
    <2>3. QED
      BY <1>1, <2>2 DEF ArchiveInv, DiskOk
  <1>5. RecordsTrue'
    <2>1. \A n, node : True(n, node)' <=> True(n, node)
      BY <1>1, TrueSame
    <2>2. \A k \in DOMAIN snaps' : \A n \in DOMAIN snaps'[k].nodes : True(n, snaps'[k].nodes[n])
      BY <1>2, <1>3 DEF ArchiveInv, RecordsTrue, s
    <2>3. QED
      BY <1>1, <1>3, <2>1, <2>2 DEF ArchiveInv, RecordsTrue
  <1>6. JobShape' /\ StageOk'
    <2>1. \A m \in Name : WorkShape(work[m])'
      BY <1>1 DEF ArchiveInv, JobShape, WorkShape
    <2>2. DOMAIN work' = Name /\ DOMAIN job' = JobFields
          /\ \A n \in Name : work'[n].at \in {"none", "skipped", "done"}
      BY <1>1, RunFacts DEF ArchiveInv, JobShape
    <2>3. QED
      BY <1>1, <2>1, <2>2 DEF JobShape, StageOk
  <1>7. BlobsOk'
    <2>1. durable' \subseteq stored' /\ job'.index \subseteq stored' /\ job'.fresh \subseteq stored'
      BY <1>1, RunFacts
    <2>2. \A k \in DOMAIN snaps' : Reach(snaps'[k]) \subseteq durable'
      BY <1>1, <1>2, <1>3 DEF ArchiveInv, BlobsOk, s
    <2>3. QED
      BY <1>1, <2>1, <2>2 DEF BlobsOk
  <1>8. EarlierTrue' /\ WorkersOk' /\ WalkOk'
    BY <1>1 DEF EarlierTrue, WorkersOk, WalkOk
  <1>9. SnapshotIsDisk'
    <2>1. ASSUME NEW k \in DOMAIN snaps', NEW n \in DOMAIN snaps'[k].truth \ snaps'[k].skipped
          PROVE  IF snaps'[k].truth[n].here
                 THEN /\ n \in DOMAIN snaps'[k].nodes
                      /\ snaps'[k].nodes[n].content = snaps'[k].truth[n].content
                      /\ snaps'[k].nodes[n].mtime = snaps'[k].truth[n].mtime
                 ELSE n \notin DOMAIN snaps'[k].nodes
      <3>1. CASE snaps'[k] = s
        BY <1>2, <2>1, <3>1 DEF s
      <3>2. CASE k \in DOMAIN snaps /\ snaps'[k] = snaps[k]
        BY <2>1, <3>2 DEF ArchiveInv, SnapshotIsDisk
      <3>3. QED
        BY <1>3, <3>1, <3>2
    <2>2. QED
      BY <2>1 DEF SnapshotIsDisk
  <1>10. Accounted'
    BY <1>2, <1>3 DEF ArchiveInv, Accounted, s
  <1>11. QED
    BY <1>4, <1>5, <1>6, <1>7, <1>8, <1>9, <1>10 DEF ArchiveInv

-----------------------------------------------------------------------------
(* The newest snapshot. *)
LEMMA LastOf ==
    ASSUME ArchiveInv, snaps # <<>>
    PROVE  /\ Len(snaps) \in DOMAIN snaps /\ Last(snaps) = snaps[Len(snaps)]
           /\ Last(snaps) \in Snapshot /\ Last(snaps).nodes \in NodeMap
           /\ DOMAIN Last(snaps).nodes \subseteq Name
           /\ \A n \in DOMAIN Last(snaps).nodes : True(n, Last(snaps).nodes[n])
           /\ Reach(Last(snaps)) \subseteq durable
  <1>1. snaps \in Seq(Snapshot)
    BY DEF ArchiveInv, RecordsTrue
  <1>2. Len(snaps) \in DOMAIN snaps
    BY <1>1, EmptySeq, LenProperties
  <1>3. Last(snaps) = snaps[Len(snaps)]
    BY DEF Last
  <1>4. Reach(snaps[Len(snaps)]) \subseteq durable
    BY <1>2 DEF ArchiveInv, BlobsOk
  <1>5. QED
    BY <1>2, <1>3, <1>4, SnapAt DEF ArchiveInv

LEMMA PruneKeeps ==
    ASSUME ArchiveInv, Prune
    PROVE  ArchiveInv'
  <1> DEFINE s == Last(snaps)
             needed == Reach(s)
  <1>1. /\ pc = "idle" /\ snaps # <<>> /\ snaps' = <<s>>
        /\ durable' = durable \cap needed
        /\ UNCHANGED <<disk, journal, pc, job, work, counters>>
        /\ UNCHANGED <<dir, inode, clock, events>> /\ ~Going'
    BY DEF Prune, disk, counters, Going
  <1>2. stored \cap needed \subseteq stored'
    BY DEF Prune
  <1>3. /\ Len(snaps) \in DOMAIN snaps /\ s = snaps[Len(snaps)] /\ s \in Snapshot
        /\ needed \subseteq durable
    BY <1>1, LastOf
  <1> HIDE DEF s, needed
  <1>4. /\ snaps' \in Seq(Snapshot)
        /\ \A k \in DOMAIN snaps' : snaps'[k] = s
    BY <1>1, <1>3
  <1>5. DiskOk' /\ Room'
    <2>1. Used' = Used
      BY <1>1 DEF Used, Handle
    <2>2. Room'
      BY <1>1, <2>1 DEF ArchiveInv, Room
    <2>3. QED
      BY <1>1, <2>2 DEF ArchiveInv, DiskOk
  <1>6. RecordsTrue'
    <2>1. \A n, node : True(n, node)' <=> True(n, node)
      BY <1>1, TrueSame
    <2>2. \A n \in DOMAIN s.nodes : True(n, s.nodes[n])
      BY <1>3 DEF ArchiveInv, RecordsTrue
    <2>3. QED
      BY <1>1, <1>4, <2>1, <2>2 DEF ArchiveInv, RecordsTrue
  <1>7. JobShape' /\ StageOk'
    <2>1. \A m \in Name : WorkShape(work[m])'
      BY <1>1 DEF ArchiveInv, JobShape, WorkShape
    <2>2. DOMAIN work' = Name /\ \A n \in Name : work'[n].at \in {"none", "skipped", "done"}
      BY <1>1 DEF ArchiveInv, JobShape, StageOk
    <2>3. QED
      BY <1>1, <2>1, <2>2 DEF JobShape, StageOk
  <1>8. BlobsOk'
    <2>1. durable' \subseteq stored'
      BY <1>1, <1>2 DEF ArchiveInv, BlobsOk
    <2>2. needed \subseteq durable'
      BY <1>1, <1>3
    <2>3. \A k \in DOMAIN snaps' : Reach(snaps'[k]) \subseteq durable'
      BY <1>4, <2>2 DEF needed
    <2>4. QED
      BY <1>1, <2>1, <2>3 DEF BlobsOk
  <1>9. EarlierTrue' /\ WorkersOk' /\ WalkOk'
    BY <1>1 DEF EarlierTrue, WorkersOk, WalkOk
  <1>10. SnapshotIsDisk' /\ Accounted'
    BY <1>3, <1>4 DEF ArchiveInv, SnapshotIsDisk, Accounted
  <1>11. QED
    BY <1>5, <1>6, <1>7, <1>8, <1>9, <1>10 DEF ArchiveInv

-----------------------------------------------------------------------------
(* A run starts. *)
LEMMA ResumedFacts ==
    ASSUME ArchiveInv, NEW resumed, resumed \in {<<>>, LoadJournal(stored)}
    PROVE  /\ resumed \in UNION {[D -> Entry] : D \in SUBSET Nat}
           /\ \A k \in DOMAIN resumed : /\ True(resumed[k].name, resumed[k].node)
                                        /\ Chunks(resumed[k].node.content) \subseteq stored
  <1>1. CASE resumed = <<>>
    <2>1. resumed \in Seq(Entry) /\ DOMAIN resumed = {}
      BY <1>1, EmptySeq
    <2>2. resumed \in [{} -> Entry]
      BY <1>1, <2>1
    <2>3. {} \in SUBSET Nat
      OBVIOUS
    <2>4. QED
      BY <2>1, <2>2, <2>3
  <1>2. CASE resumed = LoadJournal(stored)
    <2> DEFINE D == {j \in DOMAIN journal : Chunks(journal[j].node.content) \subseteq stored}
    <2>1. resumed = [k \in D |-> journal[k]]
      BY <1>2 DEF LoadJournal
    <2>2. D \subseteq Nat
      <3>1. journal \in Seq(Entry)
        BY DEF ArchiveInv, RecordsTrue
      <3>2. DOMAIN journal \subseteq Nat
        BY <3>1
      <3>3. QED
        BY <3>2
    <2>3. \A k \in D : journal[k] \in Entry /\ True(journal[k].name, journal[k].node)
                       /\ Chunks(journal[k].node.content) \subseteq stored
      BY JournalAt DEF ArchiveInv
    <2> HIDE DEF D
    <2>4. resumed \in [D -> Entry]
      BY <2>1, <2>3
    <2>5. QED
      BY <2>1, <2>2, <2>3, <2>4
  <1>3. QED
    BY <1>1, <1>2

LEMMA ParentFacts ==
    ASSUME ArchiveInv, NEW parent, parent \in {<<>>} \/ (snaps # <<>> /\ parent = Last(snaps).nodes)
    PROVE  /\ parent \in NodeMap
           /\ \A n \in DOMAIN parent : True(n, parent[n]) /\ Chunks(parent[n].content) \subseteq stored
  <1>1. CASE parent = <<>>
    <2>1. parent \in Seq(Node) /\ DOMAIN parent = {}
      BY <1>1, EmptySeq
    <2>2. parent \in [{} -> Node] /\ {} \in SUBSET Name
      BY <1>1, <2>1
    <2>3. QED
      BY <2>1, <2>2 DEF NodeMap
  <1>2. CASE snaps # <<>> /\ parent = Last(snaps).nodes
    <2>1. /\ parent \in NodeMap /\ \A n \in DOMAIN parent : True(n, parent[n])
          /\ Reach(Last(snaps)) \subseteq durable
      BY <1>2, LastOf
    <2>2. durable \subseteq stored
      BY DEF ArchiveInv, BlobsOk
    <2>3. \A n \in DOMAIN parent : Chunks(parent[n].content) \subseteq Reach(Last(snaps))
      BY <1>2 DEF Reach
    <2>4. QED
      BY <2>1, <2>2, <2>3
  <1>3. QED
    BY <1>1, <1>2

LEMMA OpenRunKeeps ==
    ASSUME ArchiveInv, NEW offloaded, NEW everything, OpenRun(offloaded, everything)
    PROVE  ArchiveInv'
  <1>1. /\ pc = "idle" /\ pc' = "walk" /\ Going' /\ work' = [n \in Name |-> NoWork]
        /\ UNCHANGED <<disk, bucket, journal, events>>
        /\ UNCHANGED <<dir, inode, clock, stored, durable, snaps>>
    BY DEF OpenRun, disk, bucket, Going
  <1>2. /\ DOMAIN job' = JobFields
        /\ job'.parent \in {<<>>} \/ (snaps # <<>> /\ job'.parent = Last(snaps).nodes)
        /\ job'.resumed \in {<<>>, LoadJournal(stored)}
        /\ job'.listing = Listing /\ job'.todo = Listing
        /\ job'.index = stored /\ job'.fresh = stored \ durable
        /\ job'.pack = {} /\ job'.flying = {}
        /\ job'.failed = FALSE /\ job'.aborted = FALSE /\ job'.skipped = {}
        /\ job'.quiet = Name /\ job'.present = {n \in Name : dir[n] # Absent}
        /\ job'.seen = [n \in Name |-> OnDisk(n)]
    BY DEF OpenRun, JobFields
  <1>3. \A n \in Name : work'[n] = NoWork /\ Task(n)' = NoWork
    BY <1>1 DEF Task, NoWork
  <1>4. DiskOk' /\ Room'
    <2>1. \A n \in Name : Handle(n)' = 0
      <3>1. \A n \in Name : work'[n].at = "none"
        BY <1>3 DEF NoWork
      <3>2. QED
        BY <3>1 DEF Handle
    <2>2. Used' \subseteq Used
      BY <1>1, <2>1 DEF Used
    <2>3. Room'
      BY <1>1, <2>2, RoomStays DEF ArchiveInv, DiskOk
    <2>4. QED
      BY <1>1, <2>3 DEF ArchiveInv, DiskOk
  <1>5. RecordsTrue'
    <2>1. Recording
      BY <1>1 DEF Recording
    <2>2. QED
      BY <1>1, <2>1, RecordingKeeps DEF ArchiveInv
  <1>6. /\ job'.parent \in NodeMap
        /\ \A n \in DOMAIN job'.parent : True(n, job'.parent[n]) /\ Chunks(job'.parent[n].content) \subseteq stored
        /\ job'.resumed \in UNION {[D -> Entry] : D \in SUBSET Nat}
        /\ \A k \in DOMAIN job'.resumed : /\ True(job'.resumed[k].name, job'.resumed[k].node)
                                          /\ Chunks(job'.resumed[k].node.content) \subseteq stored
    BY <1>2, ResumedFacts, ParentFacts
  <1>7. JobShape' /\ StageOk'
    <2>1. \A m \in Name : WorkShape(work'[m])
      BY <1>3 DEF WorkShape
    <2>2. \A m \in Name : WorkShape(work[m])'
      BY <2>1 DEF WorkShape
    <2>3. job'.listing \subseteq Name \X {0, 1}
      BY <1>2 DEF Listing
    <2>4. job'.seen \in [Name -> Seen]
      <3>1. ASSUME NEW n \in Name
            PROVE  OnDisk(n) \in Seen
        <4>1. CASE dir[n].real # 0
          <5>1. /\ inode[dir[n].real].content \in Seq(Nat) /\ inode[dir[n].real].mtime \in Nat
                /\ dir[n].real \in Nat
            BY <4>1, EntryOf, NameFacts DEF ArchiveInv
          <5>2. QED
            BY <4>1, <5>1 DEF OnDisk, Seen
        <4>2. CASE dir[n].real = 0 /\ dir[n].stub.here
          <5>1. dir[n].stub.content \in Seq(Nat) /\ dir[n].stub.mtime \in Nat
            BY <4>2, StubOf DEF ArchiveInv
          <5>2. QED
            BY <4>2, <5>1 DEF OnDisk, Seen
        <4>3. CASE dir[n].real = 0 /\ ~dir[n].stub.here
          BY <4>3 DEF OnDisk, Seen
        <4>4. QED
          BY <4>1, <4>2, <4>3
      <3>2. QED
        BY <1>2, <3>1
    <2>5. DOMAIN work' = Name
      BY <1>1
    <2>6. JobShape'
      BY <1>1, <1>2, <1>6, <2>2, <2>3, <2>4, <2>5 DEF JobShape
    <2>7. QED
      BY <1>1, <2>6 DEF StageOk
  <1>8. BlobsOk'
    <2>1. durable \subseteq stored /\ \A k \in DOMAIN snaps : Reach(snaps[k]) \subseteq durable
      BY DEF ArchiveInv, BlobsOk
    <2>2. \A m \in Name : Task(m)'.at = "none"
      BY <1>3 DEF NoWork
    <2>3. QED
      BY <1>1, <1>2, <1>6, <2>1, <2>2 DEF BlobsOk
  <1>9. EarlierTrue'
    <2>1. \A n, node : True(n, node)' <=> True(n, node)
      BY <1>1, TrueSame
    <2>2. QED
      BY <1>6, <2>1 DEF EarlierTrue
  <1>10. WorkersOk'
    <2>1. \A m \in Name : Task(m)'.at = "none"
      BY <1>3 DEF NoWork
    <2>2. QED
      BY <2>1 DEF WorkersOk, TaskOk
  <1>11. WalkOk'
    <2>1. ASSUME NEW n \in Name
          PROVE  /\ work'[n].at = "none"
                 /\ <<n, 0>> \in Listing <=> dir[n].real # 0
                 /\ <<n, 1>> \in Listing <=> dir[n].stub.here
                 /\ dir[n] # Absent <=> (dir[n].real # 0 \/ dir[n].stub.here)
      <3>1. work'[n].at = "none"
        BY <1>3 DEF NoWork
      <3>2. /\ <<n, 0>> \in Listing <=> dir[n].real # 0
            /\ <<n, 1>> \in Listing <=> dir[n].stub.here
        BY DEF Listing
      <3>3. dir[n] = Absent => dir[n].real = 0 /\ ~dir[n].stub.here
        BY DEF Absent, NoStub
      <3>4. ASSUME dir[n].real = 0, ~dir[n].stub.here
            PROVE  dir[n] = Absent
        <4>1. dir[n] \in Entries /\ dir[n].stub \in StubFile
          BY EntryOf DEF ArchiveInv
        <4>2. dir[n].stub = NoStub
          BY <3>4, <4>1 DEF StubFile
        <4>3. QED
          BY <3>4, <4>1, <4>2 DEF Absent, Entries
      <3>5. QED
        BY <3>1, <3>2, <3>3, <3>4
    <2>2. ASSUME NEW n \in Name
          PROVE  /\ (Listed(n) => Due(n))' /\ (n \in job.present <=> Listed(n))'
                 /\ OnDisk(n)' = OnDisk(n) /\ (job.seen[n])' = OnDisk(n)
      <3>1. (Listed(n) => Due(n))'
        BY <1>2 DEF Listed, Due
      <3>2. (n \in job.present <=> Listed(n))'
        BY <1>2, <2>1 DEF Listed
      <3>3. OnDisk(n)' = OnDisk(n) /\ (job.seen[n])' = OnDisk(n)
        BY <1>1, <1>2 DEF OnDisk
      <3>4. QED
        BY <3>1, <3>2, <3>3
    <2>3. QED
      BY <1>1, <1>2, <2>1, <2>2 DEF WalkOk
  <1>12. SnapshotIsDisk' /\ Accounted'
    BY <1>1 DEF ArchiveInv, SnapshotIsDisk, Accounted
  <1>13. QED
    BY <1>4, <1>5, <1>7, <1>8, <1>9, <1>10, <1>11, <1>12 DEF ArchiveInv

-----------------------------------------------------------------------------
LEMMA ArchiveStarts ==
    ASSUME Init
    PROVE  ArchiveInv
  <1>1. PICK c \in First, away \in SUBSET Name :
            /\ dir = [n \in Name |->
                         IF n \in away THEN [real |-> 0, stub |-> Stub(c[n], 0)]
                                       ELSE [real |-> n, stub |-> NoStub]]
            /\ inode = [i \in Inode |->
                         [content |-> IF i \in Name THEN c[i] ELSE <<>>, mtime |-> 0, ctime |-> 0]]
    BY DEF Init
  <1>2. /\ clock = 0 /\ stored = {} /\ durable = {} /\ snaps = <<>> /\ journal = <<>>
        /\ pc = "idle" /\ work = [n \in Name |-> NoWork] /\ runs = 0 /\ events = 0 /\ ~Going
    BY DEF Init, Going
  <1>3. \A n \in Name : c[n] \in Seq(Nat)
    BY <1>1, ContentAssumption
  <1>4. DiskOk
    <2>1. dir \in [Name -> [real : {0} \cup Inode, stub : StubFile]]
      <3>1. ASSUME NEW n \in Name
            PROVE  /\ [real |-> 0, stub |-> Stub(c[n], 0)] \in Entries
                   /\ [real |-> n, stub |-> NoStub] \in Entries
        BY <1>3, NameFacts DEF Stub, StubFile, Entries
      <3>2. QED
        BY <1>1, <3>1 DEF Entries
    <2>2. inode \in [Inode -> [content : Seq(Nat), mtime : Nat, ctime : Nat]]
      <3>1. <<>> \in Seq(Nat)
        BY EmptySeq
      <3>2. QED
        BY <1>1, <1>3, <3>1
    <2>3. \A i \in Inode : inode[i].ctime = 0
      BY <1>1
    <2>4. QED
      BY <1>2, <2>1, <2>2, <2>3 DEF DiskOk
  <1>5. Room
    <2>1. \A n \in Name : dir[n].real \in Name \cup {0}
      BY <1>1
    <2>2. \A n \in Name : work[n].at = "none"
      BY <1>2 DEF NoWork
    <2>3. \A n \in Name : Handle(n) = 0
      BY <2>2 DEF Handle
    <2>4. Used \subseteq Name
      BY <2>1, <2>3 DEF Used
    <2>5. IsFiniteSet(Used) /\ Cardinality(Used) <= Cardinality(Name)
      BY <2>4, NameFacts, FS_Subset
    <2>6. Cardinality(Used) \in Nat /\ Cardinality(Name) \in Nat
      BY <2>5, NameFacts, FS_CardinalityType
    <2>7. QED
      BY <1>2, <2>5, <2>6 DEF Room
  <1>6. journal \in Seq(Entry) /\ snaps \in Seq(Snapshot) /\ DOMAIN journal = {} /\ DOMAIN snaps = {}
    BY <1>2, EmptySeq
  <1>7. RecordsTrue /\ SnapshotIsDisk /\ Accounted
    BY <1>6 DEF RecordsTrue, SnapshotIsDisk, Accounted
  <1>8. JobShape /\ StageOk
    <2>1. \A n \in Name : work[n] = NoWork /\ WorkShape(work[n]) /\ work[n].at = "none"
      BY <1>2 DEF WorkShape, NoWork
    <2>2. DOMAIN work = Name
      BY <1>2
    <2>3. QED
      BY <1>2, <2>1, <2>2 DEF JobShape, StageOk
  <1>9. BlobsOk
    BY <1>2, <1>6 DEF BlobsOk
  <1>10. EarlierTrue /\ WorkersOk /\ WalkOk
    BY <1>2 DEF EarlierTrue, WorkersOk, WalkOk
  <1>11. QED
    BY <1>4, <1>5, <1>7, <1>8, <1>9, <1>10 DEF ArchiveInv

LEMMA WorkerStep ==
    ASSUME ArchiveInv, NEW n \in Name,
           \/ Unchanged(n) \/ Open(n) \/ ReuseOffloaded(n) \/ OpenOffloaded(n)
           \/ ReadFails(n) \/ Stop(n) \/ ReadRefused(n)
           \/ \E full \in BOOLEAN : ReadChunk(n, full)
           \/ UploadPack(n) \/ UploadFails(n) \/ FinishFile(n) \/ FinishOffloaded(n)
    PROVE  ArchiveInv'
  <1>1. Advance(n)
    BY UnchangedAdvances, OpenAdvances, ReuseAdvances, OpenOffloadedAdvances, FailuresAdvance,
       ReadChunkAdvances, UploadPackAdvances, UploadFailsAdvances, FinishFileAdvances,
       FinishOffloadedAdvances
  <1>2. QED
    BY <1>1, AdvanceKeeps

LEMMA ArchiveStays ==
    ASSUME ArchiveInv, [Next]_vars
    PROVE  ArchiveInv'
  <1>1. CASE Owner
    BY <1>1, OwnerStep
  <1>2. ASSUME NEW o \in Options, OpenRun(o[1], o[2])
        PROVE  ArchiveInv'
    BY <1>2, OpenRunKeeps
  <1>3. ASSUME NEW n \in Name,
               (\E form \in {0, 1} : VisitGone(n, form)) \/ VisitFile(n) \/ VisitStub(n)
        PROVE  ArchiveInv'
    BY <1>3, VisitGoneLooks, VisitFileLooks, VisitStubLooks, LookKeeps
  <1>4. ASSUME NEW n \in Name,
               \/ Unchanged(n) \/ Open(n) \/ ReuseOffloaded(n) \/ OpenOffloaded(n)
               \/ ReadFails(n) \/ Stop(n) \/ ReadRefused(n)
               \/ \E full \in BOOLEAN : ReadChunk(n, full)
               \/ UploadPack(n) \/ UploadFails(n) \/ FinishFile(n) \/ FinishOffloaded(n)
        PROVE  ArchiveInv'
    BY <1>4, WorkerStep
  <1>5. CASE Notice \/ SaveTree \/ FlushPack \/ WriteIndex \/ SaveSnapshot \/ Prune
    BY <1>5, NoticeKeeps, SaveTreeKeeps, FlushPackKeeps, WriteIndexKeeps, SaveSnapshotKeeps, PruneKeeps
  <1>6. CASE GiveUp \/ RemoveJournal \/ Dies
    <2>1. CASE GiveUp
      BY <2>1, EndKeeps DEF GiveUp, counters
    <2>2. CASE RemoveJournal
      BY <2>2, EndKeeps DEF RemoveJournal, counters
    <2>3. CASE Dies
      BY <2>3, EndKeeps DEF Dies, Fault
    <2>4. QED
      BY <1>6, <2>1, <2>2, <2>3
  <1>7. CASE UNCHANGED vars
    <2>1. UNCHANGED <<dir, inode, clock, stored, durable, snaps, journal, pc, job, work, events>>
      BY <1>7 DEF vars, disk, bucket, counters
    <2>2. /\ DiskOk' = DiskOk /\ Room' = Room /\ RecordsTrue' = RecordsTrue /\ JobShape' = JobShape
          /\ StageOk' = StageOk
      BY <2>1 DEF DiskOk, Room, Used, Handle, RecordsTrue, True, SameVersion, JobShape, WorkShape, Going, StageOk
    <2>3. BlobsOk'
      <3>1. Nodes' = Nodes /\ Known' = Known /\ \A m \in Name : Task(m)' = Task(m)
        BY <2>1 DEF Nodes, Known, Task
      <3>2. QED
        BY <2>1, <3>1 DEF ArchiveInv, BlobsOk, Going
    <2>4. EarlierTrue' /\ WorkersOk'
      <3>1. \A n, node : True(n, node)' <=> True(n, node)
        BY <1>7, TrueSame DEF vars
      <3>2. \A m \in Name : Task(m)' = Task(m)
        BY <2>1 DEF Task
      <3>3. EarlierTrue'
        BY <2>1, <3>1 DEF ArchiveInv, EarlierTrue, Going
      <3>4. ASSUME Going', NEW m \in Name
            PROVE  TaskOk(m, Task(m))'
        <4>1. TaskOk(m, Task(m)) /\ Going
          BY <2>1, <3>4 DEF ArchiveInv, WorkersOk, Going
        <4>2. QED
          BY <2>1, <3>2, <4>1 DEF TaskOk, Statted, StandsFor, True, SameVersion
      <3>5. QED
        BY <3>3, <3>4 DEF WorkersOk
    <2>5. WalkOk'
      BY <2>1 DEF ArchiveInv, WalkOk, Going, Listed, Due, Visited, OnDisk
    <2>6. SnapshotIsDisk' /\ Accounted'
      BY <2>1 DEF ArchiveInv, SnapshotIsDisk, Accounted
    <2>7. QED
      BY <2>2, <2>3, <2>4, <2>5, <2>6 DEF ArchiveInv
  <1>8. Run => ArchiveInv'
    BY <1>2, <1>3, <1>4, <1>5, <1>6 DEF Run
  <1>9. QED
    BY <1>1, <1>7, <1>8 DEF Next

LEMMA ArchiveMeans ==
    ASSUME ArchiveInv
    PROVE  Consistent
  <1>1. TypeOK
    <2>1. \A n \in Name : dir[n].real \in 0..Cardinality(Inode)
      <3>1. \A n \in Name : dir[n].real \in {0} \cup Inode
        BY EntryOf DEF ArchiveInv
      <3>2. Cardinality(Inode) = Cardinality(Name) + MaxEvents /\ Cardinality(Name) + MaxEvents \in Nat
        BY NameFacts
      <3>3. QED
        BY <3>1, <3>2 DEF Inode
    <2>2. DOMAIN inode = Inode
      BY DEF ArchiveInv, DiskOk
    <2>3. QED
      BY <2>1, <2>2 DEF TypeOK, ArchiveInv, BlobsOk, JobShape
  <1>2. ASSUME NEW k \in DOMAIN snaps
        PROVE  /\ Missing(snaps[k]) = {}
               /\ \A n \in DOMAIN snaps[k].nodes : snaps[k].nodes[n].hash = snaps[k].nodes[n].content
    <2>1. Reach(snaps[k]) \subseteq durable
      BY DEF ArchiveInv, BlobsOk
    <2>2. \A n \in DOMAIN snaps[k].nodes :
             /\ snaps[k].nodes[n].size = Len(snaps[k].nodes[n].content)
             /\ snaps[k].nodes[n].hash = snaps[k].nodes[n].content
      BY SnapAt DEF ArchiveInv, True
    <2>3. QED
      BY <2>1, <2>2 DEF Missing
  <1>3. QED
    BY <1>1, <1>2 DEF Consistent, SnapshotsAreWhole, HashesAreTrue

(* The inductive invariant of the archiver holds throughout. *)
LEMMA ArchiveInvariant ==
    Spec => []ArchiveInv
  <1>1. Init => ArchiveInv
    BY ArchiveStarts
  <1>2. ArchiveInv /\ [Next]_vars => ArchiveInv'
    BY ArchiveStays
  <1>3. QED
    BY <1>1, <1>2, PTL DEF Spec

(* A backup run stays well formed, and every snapshot is whole: all its blobs are
   in the bucket and listed by an index object, whatever was resumed from the
   journal, adopted, or uploaded by other workers, and the recorded hashes are
   those of the recorded chunks (archiver.rs, repo.rs). *)
THEOREM ArchiveIsConsistent ==
    Spec => []Consistent
  <1>1. ArchiveInv => Consistent
    BY ArchiveMeans
  <1>2. QED
    BY <1>1, ArchiveInvariant, PTL

(* A file that nothing touched while a backup ran is in its snapshot with the
   content and time it has on disk, or was counted as skipped; same_content, the
   journal and the reuse of offloaded content never lend it another one. *)
THEOREM SnapshotsAreTheDisk ==
    Spec => []SnapshotIsDisk
  <1>1. ArchiveInv => SnapshotIsDisk
    BY DEF ArchiveInv
  <1>2. QED
    BY <1>1, ArchiveInvariant, PTL

(* A file that was there all the while, as itself or as a placeholder, is in the
   snapshot or was counted as skipped: archive_dir overlooks nothing, however the
   mirror turns files into placeholders under it. *)
THEOREM NothingIsOverlooked ==
    Spec => []Accounted
  <1>1. ArchiveInv => Accounted
    BY DEF ArchiveInv
  <1>2. QED
    BY <1>1, ArchiveInvariant, PTL

-----------------------------------------------------------------------------
(* The way back. *)

Its(n) == IF before.entry[n].is = "file" THEN before.entry[n].inode ELSE <<"new", n>>
Root(n) == IF n \in ToWrite THEN n ELSE FirstOf(n)
Final(n) == IF n \in Files THEN FileAt(Its(Root(n))) ELSE SymlinkTo(n)

Reached(n) ==
    /\ n \in chosen
    /\ \/ n \notin Files /\ (phase \in {"create", "fetch", "links", "ok"} \/ (phase = "symlinks" /\ n \notin todo))
       \/ n \in ToWrite /\ (phase \in {"fetch", "links", "ok"} \/ (phase = "create" /\ n \notin todo))
       \/ n \in Files \ ToWrite /\ (phase = "ok" \/ (phase = "links" /\ n \notin todo))

(* The options, and the target as it was: no two names of one file. *)
Setting ==
    /\ nodes \in Snapshots /\ chosen \subseteq File /\ overwrite \in BOOLEAN
    /\ \A p \in Path : before.entry[p] \in {Nothing, Other, FileAt(<<"old", p>>)}
    /\ DOMAIN entry = Path /\ DOMAIN held = Slot
    /\ there \in {"none", "dir", "other"}
    /\ phase \in {"opened", "dir", "symlinks", "create", "fetch", "links", "ok", "failed"}

Pending ==
    /\ phase = "symlinks" => todo \subseteq chosen \ Files
    /\ phase = "create" => todo \subseteq ToWrite
    /\ phase = "links" => todo \subseteq Files \ ToWrite
    /\ phase \in {"symlinks", "create", "fetch", "links", "ok"} => there = "dir"

Shape ==
    phase # "failed" =>
        \A p \in Path :
            /\ entry[p] = IF Reached(p) THEN Final(p) ELSE before.entry[p]
            /\ Reached(p) => overwrite \/ before.entry[p] = Nothing

Partly(n) == [content |-> [k \in 1..nodes[n].size |->
                             IF nodes[n].content[k] \in todo THEN 0 ELSE nodes[n].content[k]],
              of |-> 0]
Whole(n) == [content |-> nodes[n].content, of |-> n]

Filled ==
    \A n \in ToWrite :
        /\ phase = "create" /\ n \notin todo => held[Its(n)] = Empty(n)
        /\ phase = "fetch" => held[Its(n)] = Partly(n)
        /\ phase \in {"links", "ok"} => held[Its(n)] = Whole(n)

-----------------------------------------------------------------------------
LEMMA LeastOf ==
    ASSUME NEW ns, ns \subseteq File, ns # {}
    PROVE  Least(ns) \in ns /\ \A m \in ns : Least(ns) <= m
  <1>1. ns \in SUBSET Nat /\ IsFiniteSet(ns)
    BY FileAssumption, FS_Subset
  <1>2. \E n \in ns : \A m \in ns : n <= m
    BY <1>1, LeastNumber
  <1>3. QED
    BY <1>2 DEF Least

(* The nodes of a snapshot, and the first names of its inodes. *)
LEMMA NodeFacts ==
    ASSUME Setting
    PROVE  /\ Files \subseteq File /\ Files \subseteq chosen /\ ToWrite \subseteq Files
           /\ \A n \in Files : /\ nodes[n].content \in Seq(Nat) /\ nodes[n].group \in {0, 1}
                              /\ nodes[n].size = Len(nodes[n].content)
           /\ \A m, n \in Files : nodes[m].group = 1 /\ nodes[n].group = 1
                                   => nodes[m].content = nodes[n].content
  <1>1. /\ nodes \in [File -> {Symlink} \cup {FileNode(c, g) : c \in Data, g \in {0, 1}}]
        /\ \A m, n \in File : nodes[m].type = "file" /\ nodes[n].type = "file" =>
              (nodes[m].group = 1 /\ nodes[n].group = 1 => nodes[m].content = nodes[n].content)
    BY DEF Setting, Snapshots
  <1>2. Files \subseteq File /\ Files \subseteq chosen /\ ToWrite \subseteq Files
    BY DEF Files, ToWrite, Setting
  <1>3. ASSUME NEW n \in Files
        PROVE  /\ nodes[n].content \in Seq(Nat) /\ nodes[n].group \in {0, 1}
               /\ nodes[n].size = Len(nodes[n].content)
    <2>1. nodes[n].type = "file" /\ nodes[n] # Symlink /\ n \in File
      BY <1>2 DEF Files, Symlink
    <2>2. PICK c \in Data, g \in {0, 1} : nodes[n] = FileNode(c, g)
      BY <1>1, <2>1
    <2>3. QED
      BY <2>2, DataAssumption DEF FileNode
  <1>4. QED
    BY <1>1, <1>2, <1>3 DEF Files

LEMMA FirstFacts ==
    ASSUME Setting, NEW n \in Files
    PROVE  /\ n \in ToWrite => Root(n) = n
           /\ n \notin ToWrite => /\ nodes[n].group = 1 /\ Root(n) = FirstOf(n)
                                /\ FirstOf(n) \in ToWrite /\ nodes[FirstOf(n)].group = 1
           /\ \A m \in ToWrite : nodes[m].group = 1 /\ nodes[n].group = 1 => Root(n) = m
  <1>1. \A m \in ToWrite : nodes[m].group = 1 =>
            m \in Files /\ \A x \in Files : nodes[x].group = 1 => m <= x
    BY DEF ToWrite, IsFirst
  <1>2. \A x, y \in Files : x <= y /\ y <= x => x = y
    BY NodeFacts, FileAssumption
  <1>3. \A x, y \in ToWrite : nodes[x].group = 1 /\ nodes[y].group = 1 => x = y
    BY <1>1, <1>2
  <1>4. CASE n \in ToWrite
    BY <1>3, <1>4 DEF Root
  <1>5. CASE n \notin ToWrite
    <2>1. nodes[n].group = 1
      BY <1>5, NodeFacts DEF ToWrite
    <2> DEFINE names == {x \in Files : nodes[x].group = 1}
    <2>2. names \subseteq File /\ n \in names
      BY <2>1, NodeFacts
    <2>3. Least(names) \in names /\ \A x \in names : Least(names) <= x
      BY <2>2, LeastOf
    <2>4. Least(names) \in ToWrite /\ nodes[Least(names)].group = 1
      BY <2>3 DEF ToWrite, IsFirst
    <2>5. FirstOf(n) \in ToWrite /\ nodes[FirstOf(n)].group = nodes[n].group
      BY <2>1, <2>4 DEF FirstOf
    <2>6. QED
      BY <1>3, <1>5, <2>1, <2>5 DEF Root
  <1>6. QED
    BY <1>4, <1>5

LEMMA ItsFacts ==
    ASSUME Setting, NEW n \in Path
    PROVE  /\ Its(n) \in Slot /\ Its(n) \in {<<"old", n>>, <<"new", n>>}
           /\ Its(n) = <<"old", n>> => before.entry[n] # Nothing
           /\ \A m \in Path : Its(m) = Its(n) => m = n
           /\ \A m \in Path : Its(m) = <<"old", n>> => m = n
  <1>1. \A m \in Path : \/ before.entry[m] = FileAt(<<"old", m>>) /\ Its(m) = <<"old", m>>
                        \/ before.entry[m] \in {Nothing, Other} /\ Its(m) = <<"new", m>>
    BY DEF Setting, Its, FileAt, Nothing, Other
  <1>2. FileAt(<<"old", n>>) # Nothing
    BY DEF FileAt, Nothing
  <1>3. \A x, y : <<"old", x>> # <<"new", y>> /\ (<<"old", x>> = <<"old", y>> => x = y)
                /\ (<<"new", x>> = <<"new", y>> => x = y)
    OBVIOUS
  <1>4. Its(n) \in Slot /\ Its(n) \in {<<"old", n>>, <<"new", n>>}
    <2>1. <<"old", n>> \in Slot /\ <<"new", n>> \in Slot
      BY DEF Slot
    <2>2. Its(n) = <<"old", n>> \/ Its(n) = <<"new", n>>
      BY <1>1
    <2>3. QED
      BY <2>1, <2>2
  <1>5. Its(n) = <<"old", n>> => before.entry[n] # Nothing
    BY <1>1, <1>2, <1>3
  <1>6. \A m \in Path : (Its(m) = Its(n) => m = n) /\ (Its(m) = <<"old", n>> => m = n)
    <2> SUFFICES ASSUME NEW m \in Path
                 PROVE  (Its(m) = Its(n) => m = n) /\ (Its(m) = <<"old", n>> => m = n)
      OBVIOUS
    <2>1. Its(m) = <<"old", m>> \/ Its(m) = <<"new", m>>
      BY <1>1
    <2>2. Its(n) = <<"old", n>> \/ Its(n) = <<"new", n>>
      BY <1>1
    <2>3. QED
      BY <1>3, <2>1, <2>2
  <1>7. QED
    BY <1>4, <1>5, <1>6

(* What no step changes, and what a step leaves of it. *)
LEMMA Fixed ==
    ASSUME [RestoreNext]_restoreVars
    PROVE  UNCHANGED <<nodes, before, overwrite, chosen>>
  BY DEF RestoreNext, restoreVars, repo, options, target, Verify, PruneBeside, PlanTree, MakeDir, MakeSymlink, SymlinksMade,
         CreateFile, Lookup, Fetch, ApplyMetadata, HardLink, Finish, RestoreFault, Fails, Goes, Restoring

LEMMA FixedTerms ==
    ASSUME UNCHANGED <<nodes, before, overwrite, chosen>>
    PROVE  /\ Files' = Files /\ ToWrite' = ToWrite
           /\ \A n : /\ Its(n)' = Its(n) /\ Root(n)' = Root(n) /\ Final(n)' = Final(n)
                     /\ Whole(n)' = Whole(n) /\ FirstOf(n)' = FirstOf(n) /\ Empty(n)' = Empty(n)
  BY DEF Files, ToWrite, IsFirst, Its, Root, Final, Whole, FirstOf, Empty

(* The name that a step makes, and what the step changes. *)
LEMMA Ready ==
    ASSUME Setting, Pending, NEW n \in todo, phase \in {"symlinks", "create", "links"}
    PROVE  /\ n \in chosen /\ n \in Path /\ n \in File /\ ~Reached(n)
           /\ phase = "symlinks" => n \notin Files
           /\ phase = "create" => n \in ToWrite /\ n \in Files
           /\ phase = "links" => n \in Files \ ToWrite
  BY NodeFacts DEF Setting, Pending, Reached, Path

LEMMA ReachedNext ==
    ASSUME Setting, Pending, UNCHANGED <<nodes, before, overwrite, chosen>>, NEW n \in todo,
           phase \in {"symlinks", "create", "links"}, phase' = phase, todo' = todo \ {n}
    PROVE  Reached(n)' /\ \A p \in Path \ {n} : Reached(p)' = Reached(p)
  <1>1. /\ n \in chosen /\ Files' = Files /\ ToWrite' = ToWrite /\ chosen' = chosen
        /\ phase = "symlinks" => n \notin Files
        /\ phase = "create" => n \in ToWrite
        /\ phase = "links" => n \in Files \ ToWrite
    BY Ready, FixedTerms
  <1>2. Reached(n)'
    BY <1>1 DEF Reached
  <1>3. ASSUME NEW p \in Path \ {n}
        PROVE  Reached(p)' = Reached(p)
    BY <1>1 DEF Reached
  <1>4. QED
    BY <1>2, <1>3

LEMMA PendingNext ==
    ASSUME Setting, Pending, [RestoreNext]_restoreVars
    PROVE  Pending'
  <1>1. Files' = Files /\ ToWrite' = ToWrite /\ chosen' = chosen
    BY Fixed, FixedTerms
  <1>2. CASE phase' = "failed"
    BY <1>2 DEF Pending
  <1>3. CASE UNCHANGED <<phase, todo, there>>
    BY <1>1, <1>3 DEF Pending
  <1>4. CASE PlanTree \/ MakeDir \/ MakeSymlink \/ SymlinksMade
    BY <1>1, <1>4 DEF Pending, PlanTree, MakeDir, MakeSymlink, SymlinksMade, Fails, Go, target
  <1>5. CASE CreateFile \/ Lookup \/ ApplyMetadata
    BY <1>1, <1>5 DEF Pending, CreateFile, Lookup, ApplyMetadata, Fails, Go, target
  <1>6. CASE HardLink \/ Finish \/ \E b \in DOMAIN index : Fetch(b)
    BY <1>1, <1>6 DEF Pending, HardLink, Finish, Fetch, Fails, Go, target
  <1>7. CASE RestoreFault \/ Verify \/ PruneBeside \/ UNCHANGED restoreVars
    BY <1>2, <1>3, <1>7 DEF RestoreFault, Fails, Verify, PruneBeside, restoreVars, target
  <1>8. QED
    BY <1>4, <1>5, <1>6, <1>7 DEF RestoreNext

LEMMA SettingNext ==
    ASSUME Setting, Pending, [RestoreNext]_restoreVars
    PROVE  Setting'
  <1>1. UNCHANGED <<nodes, before, overwrite, chosen>> /\ Snapshots' = Snapshots
    BY Fixed DEF Snapshots
  <1>2. /\ DOMAIN entry' = Path /\ DOMAIN held' = Slot /\ there' \in {"none", "dir", "other"}
        /\ phase' \in {"opened", "dir", "symlinks", "create", "fetch", "links", "ok", "failed"}
    <2>1. CASE PlanTree \/ MakeDir \/ MakeSymlink \/ SymlinksMade
      BY <2>1 DEF Setting, PlanTree, MakeDir, MakeSymlink, SymlinksMade, Fails, Go, target
    <2>2. CASE CreateFile \/ Lookup \/ ApplyMetadata
      BY <2>2 DEF Setting, CreateFile, Lookup, ApplyMetadata, Fails, Go, target
    <2>3. CASE HardLink \/ Finish \/ \E b \in DOMAIN index : Fetch(b)
      BY <2>3 DEF Setting, HardLink, Finish, Fetch, Fails, Go, target
    <2>4. CASE RestoreFault \/ Verify \/ PruneBeside \/ UNCHANGED restoreVars
      BY <2>4 DEF Setting, RestoreFault, Fails, Verify, PruneBeside, restoreVars, target
    <2>5. QED
      BY <2>1, <2>2, <2>3, <2>4 DEF RestoreNext
  <1>3. QED
    BY <1>1, <1>2 DEF Setting

(* A step that makes the name n makes what is final there, and nothing was in the way. *)
LEMMA Made ==
    ASSUME Setting, Pending, Shape, NEW n \in todo, phase \in {"symlinks", "create", "links"},
           MakeSymlink \/ CreateFile \/ HardLink, n = Least(todo), phase' # "failed",
           UNCHANGED <<nodes, before, overwrite, chosen>>
    PROVE  /\ entry' = [entry EXCEPT ![n] = Final(n)] /\ phase' = phase /\ todo' = todo \ {n}
           /\ entry[n] = before.entry[n] /\ (overwrite \/ before.entry[n] = Nothing)
           /\ CreateFile => held' = [held EXCEPT ![Its(n)] = Empty(n)]
           /\ ~CreateFile => held' = held
  <1>1. /\ n \in Path /\ ~Reached(n) /\ n \in chosen
        /\ phase = "symlinks" => n \notin Files
        /\ phase = "create" => n \in ToWrite /\ n \in Files
        /\ phase = "links" => n \in Files \ ToWrite
    BY Ready
  <1>2. entry[n] = before.entry[n]
    BY <1>1 DEF Shape
  <1>3. ~InTheWay(n)
    BY DEF MakeSymlink, CreateFile, HardLink, Fails
  <1>4. overwrite \/ before.entry[n] = Nothing
    BY <1>2, <1>3 DEF InTheWay, Setting
  <1>5. CASE MakeSymlink
    <2>1. phase = "symlinks" /\ entry' = [entry EXCEPT ![n] = SymlinkTo(n)] /\ phase' = "symlinks"
          /\ todo' = todo \ {n} /\ held' = held /\ ~CreateFile
      BY <1>3, <1>5 DEF MakeSymlink, CreateFile, Go, Fails
    <2>2. QED
      BY <1>1, <1>2, <1>4, <2>1 DEF Final
  <1>6. CASE CreateFile
    <2>1. /\ phase = "create" /\ entry' = [entry EXCEPT ![n] = FileAt(CreateInode(n))] /\ phase' = "create"
          /\ todo' = todo \ {n} /\ held' = [held EXCEPT ![CreateInode(n)] = Empty(n)]
      BY <1>3, <1>6 DEF CreateFile, Go, Fails
    <2>2. CreateInode(n) = Its(n)
      BY <1>2 DEF CreateInode, Its
    <2>3. QED
      BY <1>1, <1>2, <1>4, <1>6, <2>1, <2>2 DEF Final, Root
  <1>7. CASE HardLink
    <2>1. /\ phase = "links" /\ entry' = [entry EXCEPT ![n] = entry[FirstOf(n)]] /\ phase' = "links"
          /\ todo' = todo \ {n} /\ held' = held /\ ~CreateFile
      BY <1>3, <1>7 DEF HardLink, CreateFile, Go, Fails
    <2>2. FirstOf(n) \in ToWrite /\ Root(n) = FirstOf(n) /\ n \in Files
      BY <1>1, <2>1, FirstFacts
    <2>3. FirstOf(n) \in Path /\ Reached(FirstOf(n)) /\ FirstOf(n) \in Files /\ Root(FirstOf(n)) = FirstOf(n)
      BY <2>1, <2>2, NodeFacts DEF Reached, Path, Root
    <2>4. entry[FirstOf(n)] = Final(FirstOf(n))
      BY <2>1, <2>3 DEF Shape
    <2>5. entry[FirstOf(n)] = Final(n)
      BY <2>2, <2>3, <2>4 DEF Final
    <2>6. QED
      BY <1>2, <1>4, <2>1, <2>5
  <1>8. QED
    BY <1>5, <1>6, <1>7

LEMMA Makes ==
    ASSUME Setting, Pending, MakeSymlink \/ CreateFile \/ HardLink
    PROVE  Least(todo) \in todo /\ phase \in {"symlinks", "create", "links"}
  <1>1. todo # {} /\ phase \in {"symlinks", "create", "links"}
    BY DEF MakeSymlink, CreateFile, HardLink
  <1>2. todo \subseteq File
    BY <1>1, NodeFacts DEF Pending, Setting
  <1>3. QED
    BY <1>1, <1>2, LeastOf

LEMMA ShapeNext ==
    ASSUME Setting, Pending, Shape, [RestoreNext]_restoreVars
    PROVE  Shape'
  <1> SUFFICES ASSUME phase' # "failed", NEW p \in Path
               PROVE  /\ entry'[p] = IF Reached(p)' THEN Final(p)' ELSE before'.entry[p]
                      /\ Reached(p)' => overwrite' \/ before'.entry[p] = Nothing
    BY DEF Shape
  <1>1. /\ UNCHANGED <<nodes, before, overwrite, chosen>>
        /\ Files' = Files /\ ToWrite' = ToWrite /\ Final(p)' = Final(p)
    BY Fixed, FixedTerms
  <1>2. ASSUME phase # "failed", entry'[p] = entry[p], Reached(p)' = Reached(p)
        PROVE  /\ entry'[p] = IF Reached(p)' THEN Final(p)' ELSE before'.entry[p]
               /\ Reached(p)' => overwrite' \/ before'.entry[p] = Nothing
    BY <1>1, <1>2 DEF Shape
  <1>3. CASE MakeSymlink \/ CreateFile \/ HardLink
    <2>1. PICK n \in todo : n = Least(todo) /\ phase \in {"symlinks", "create", "links"}
      BY <1>3, Makes
    <2>2. /\ entry' = [entry EXCEPT ![n] = Final(n)] /\ phase' = phase /\ todo' = todo \ {n}
          /\ overwrite \/ before.entry[n] = Nothing
      BY <1>1, <1>3, <2>1, Made
    <2>3. Reached(n)' /\ \A q \in Path \ {n} : Reached(q)' = Reached(q)
      BY <1>1, <2>1, <2>2, ReachedNext
    <2>4. CASE p = n
      BY <1>1, <2>2, <2>3, <2>4 DEF Setting
    <2>5. CASE p # n
      BY <1>2, <2>1, <2>2, <2>3, <2>5
    <2>6. QED
      BY <2>4, <2>5
  <1>4. CASE PlanTree \/ MakeDir \/ SymlinksMade
    <2>1. phase # "failed" /\ entry' = entry
      BY <1>4 DEF PlanTree, MakeDir, SymlinksMade, Fails, target
    <2>2. Reached(p)' = Reached(p)
      BY <1>1, <1>4, NodeFacts DEF PlanTree, MakeDir, SymlinksMade, Fails, Go, Reached
    <2>3. QED
      BY <1>2, <2>1, <2>2
  <1>5. CASE Lookup \/ ApplyMetadata \/ Finish \/ \E b \in DOMAIN index : Fetch(b)
    <2>1. phase # "failed" /\ entry' = entry
      BY <1>5 DEF Lookup, ApplyMetadata, Finish, Fetch, Fails, target
    <2>2. Reached(p)' = Reached(p)
      BY <1>1, <1>5, NodeFacts DEF Lookup, ApplyMetadata, Finish, Fetch, Fails, Go, Reached
    <2>3. QED
      BY <1>2, <2>1, <2>2
  <1>6. CASE Verify \/ PruneBeside \/ UNCHANGED restoreVars
    <2>1. UNCHANGED <<phase, todo, entry>>
      BY <1>6 DEF Verify, PruneBeside, restoreVars, target
    <2>2. Reached(p)' = Reached(p)
      BY <1>1, <2>1 DEF Reached
    <2>3. QED
      BY <1>2, <2>1, <2>2
  <1>7. QED
    BY <1>3, <1>4, <1>5, <1>6 DEF RestoreNext, RestoreFault, Fails

(* While files are filled, each has its own inode. *)
LEMMA RestoreOpens ==
    ASSUME Setting, Shape, phase \in {"fetch", "links", "ok"}, NEW n \in ToWrite
    PROVE  /\ n \in Path /\ n \in Files /\ entry[n] = FileAt(Its(n)) /\ entry[n].inode = Its(n)
           /\ Its(n) \in Slot
           /\ \A m \in ToWrite : entry[m].inode = Its(n) <=> m = n
  <1>1. ASSUME NEW m \in ToWrite
        PROVE  m \in Path /\ m \in Files /\ entry[m] = FileAt(Its(m)) /\ entry[m].inode = Its(m)
    <2>1. m \in Files /\ m \in File /\ m \in chosen /\ m \in Path
      BY NodeFacts DEF Path
    <2>2. Reached(m)
      BY <2>1 DEF Reached
    <2>3. entry[m] = Final(m)
      BY <2>1, <2>2 DEF Shape
    <2>4. Final(m) = FileAt(Its(m))
      BY <2>1 DEF Final, Root
    <2>5. QED
      BY <2>1, <2>3, <2>4 DEF FileAt
  <1>2. \A m \in ToWrite : entry[m].inode = Its(n) <=> m = n
    BY <1>1, ItsFacts
  <1>3. QED
    BY <1>1, <1>2, ItsFacts

(* A chunk is written wherever it is needed, and nowhere else. *)
LEMMA FetchFills ==
    ASSUME Setting, Shape, Filled, NEW b, Fetch(b), phase' # "failed", NEW n \in ToWrite,
           UNCHANGED <<nodes, before, overwrite, chosen>>
    PROVE  held'[Its(n)] = Partly(n)'
  <1>1. /\ phase = "fetch" /\ b \in todo /\ todo' = todo \ {b}
        /\ held' = [i \in Slot |-> IF \E m \in Destinations(b) : entry[m].inode = i
                                     THEN [held[i] EXCEPT !.content = Written(i, b)] ELSE held[i]]
    BY DEF Fetch, Fails, Go
  <1>2. /\ n \in Files /\ Its(n) \in Slot
        /\ \A m \in ToWrite : entry[m].inode = Its(n) <=> m = n
    BY <1>1, RestoreOpens
  <1>3. \A m \in Destinations(b) : m \in ToWrite
    BY DEF Destinations
  <1>4. n \in Destinations(b) <=> b \in ChunksOf(n)
    BY DEF Destinations
  <1>5. held[Its(n)] = Partly(n)
    BY <1>1 DEF Filled
  <1>6. nodes[n].content \in Seq(Nat) /\ nodes[n].size = Len(nodes[n].content)
    BY <1>2, NodeFacts
  <1>7. DOMAIN nodes[n].content = 1..nodes[n].size
    BY <1>6
  <1>8. Partly(n)' = [content |-> [k \in 1..nodes[n].size |->
                            IF nodes[n].content[k] \in todo \ {b} THEN 0 ELSE nodes[n].content[k]], of |-> 0]
    BY <1>1 DEF Partly
  <1>9. CASE b \in ChunksOf(n)
    <2>1. held'[Its(n)] = [held[Its(n)] EXCEPT !.content = Written(Its(n), b)]
      BY <1>1, <1>2, <1>4, <1>9
    <2>2. held'[Its(n)] = [content |-> Written(Its(n), b), of |-> 0]
      BY <2>1, <1>5 DEF Partly
    <2>3. \A k \in 1..nodes[n].size :
              (\E m \in Destinations(b) : entry[m].inode = Its(n) /\ k \in DOMAIN nodes[m].content
                                          /\ nodes[m].content[k] = b)
              <=> nodes[n].content[k] = b
      BY <1>2, <1>3, <1>4, <1>7, <1>9
    <2>4. /\ DOMAIN held[Its(n)].content = 1..nodes[n].size
          /\ \A k \in 1..nodes[n].size : held[Its(n)].content[k] =
                IF nodes[n].content[k] \in todo THEN 0 ELSE nodes[n].content[k]
      BY <1>5 DEF Partly
    <2>5. Written(Its(n), b) = [k \in 1..nodes[n].size |-> IF nodes[n].content[k] = b THEN b
                                                           ELSE held[Its(n)].content[k]]
      BY <2>3, <2>4 DEF Written
    <2>6. Written(Its(n), b) = [k \in 1..nodes[n].size |->
                            IF nodes[n].content[k] \in todo \ {b} THEN 0 ELSE nodes[n].content[k]]
      BY <1>1, <2>4, <2>5
    <2>7. QED
      BY <1>8, <2>2, <2>6
  <1>10. CASE b \notin ChunksOf(n)
    <2>1. held'[Its(n)] = held[Its(n)]
      BY <1>1, <1>2, <1>3, <1>4, <1>10
    <2>2. \A k \in 1..nodes[n].size : nodes[n].content[k] # b
      BY <1>7, <1>10 DEF ChunksOf
    <2>3. Partly(n)' = Partly(n)
      BY <1>8, <2>2 DEF Partly
    <2>4. QED
      BY <1>5, <2>1, <2>3
  <1>11. QED
    BY <1>9, <1>10

LEMMA MetadataFills ==
    ASSUME Setting, Shape, Filled, ApplyMetadata, NEW n \in ToWrite,
           UNCHANGED <<nodes, before, overwrite, chosen>>
    PROVE  held'[Its(n)] = Whole(n)
  <1>1. phase = "fetch" /\ todo = {}
    BY DEF ApplyMetadata
  <1>2. /\ n \in Files /\ Its(n) \in Slot
        /\ \A m \in ToWrite : entry[m].inode = Its(n) <=> m = n
    BY <1>1, RestoreOpens
  <1>3. nodes[n].content \in Seq(Nat) /\ nodes[n].size = Len(nodes[n].content)
    BY <1>2, NodeFacts
  <1>4. n <= n
    BY <1>2, NodeFacts, FileAssumption
  <1>5. (CHOOSE x \in ToWrite : entry[x].inode = Its(n)
                                /\ \A m \in ToWrite : entry[m].inode = Its(n) => m <= x) = n
    BY <1>2, <1>4
  <1>6. held'[Its(n)] = [held[Its(n)] EXCEPT !.of = n]
    BY <1>2, <1>5 DEF ApplyMetadata
  <1>7. held[Its(n)] = Partly(n)
    BY <1>1 DEF Filled
  <1>8. [k \in 1..nodes[n].size |-> IF nodes[n].content[k] \in todo THEN 0 ELSE nodes[n].content[k]]
            = nodes[n].content
    BY <1>1, <1>3
  <1>9. held[Its(n)] = [content |-> nodes[n].content, of |-> 0]
    BY <1>7, <1>8 DEF Partly
  <1>10. QED
    BY <1>6, <1>9 DEF Whole

LEMMA FilledNext ==
    ASSUME Setting, Pending, Shape, Filled, [RestoreNext]_restoreVars
    PROVE  Filled'
  <1>1. /\ UNCHANGED <<nodes, before, overwrite, chosen>> /\ ToWrite' = ToWrite
        /\ \A n : Its(n)' = Its(n) /\ Whole(n)' = Whole(n) /\ Empty(n)' = Empty(n)
    BY Fixed, FixedTerms
  <1>2. CASE phase' = "failed"
    BY <1>2 DEF Filled
  <1>3. CASE UNCHANGED <<phase, todo, held>>
    <2>1. \A n : Partly(n)' = Partly(n)
      BY <1>1, <1>3 DEF Partly
    <2>2. QED
      BY <1>1, <1>3, <2>1 DEF Filled
  <1>4. CASE phase' \in {"dir", "symlinks"}
    BY <1>4 DEF Filled
  <1>5. CASE SymlinksMade
    <2>1. phase' = "create" /\ todo' = ToWrite
      BY <1>5 DEF SymlinksMade, Go
    <2>2. QED
      BY <1>1, <2>1 DEF Filled
  <1>6. CASE CreateFile /\ phase' # "failed"
    <2>1. PICK n \in todo : n = Least(todo) /\ phase \in {"symlinks", "create", "links"}
      BY <1>6, Makes
    <2>2. phase = "create" /\ phase' = phase /\ todo' = todo \ {n} /\ held' = [held EXCEPT ![Its(n)] = Empty(n)]
      BY <1>1, <1>6, <2>1, Made DEF CreateFile
    <2>3. n \in ToWrite /\ n \in Path
      BY <2>1, <2>2, Ready
    <2>4. ASSUME NEW m \in ToWrite, m \notin todo'
          PROVE  held'[Its(m)] = Empty(m)
      <3>1. m \in Path
        BY NodeFacts DEF Path
      <3>2. Its(m) \in Slot /\ (Its(m) = Its(n) => m = n) /\ DOMAIN held = Slot
        BY <2>3, <3>1, ItsFacts DEF Setting
      <3>3. m # n => held[Its(m)] = Empty(m)
        BY <2>2, <2>4 DEF Filled
      <3>4. QED
        BY <2>2, <3>2, <3>3
    <2>5. QED
      BY <1>1, <2>2, <2>4 DEF Filled
  <1>7. CASE Lookup /\ phase' # "failed"
    <2>1. phase = "create" /\ todo = {} /\ phase' = "fetch" /\ todo' = UNION {ChunksOf(n) : n \in ToWrite} /\ held' = held
      BY <1>7 DEF Lookup, Fails, Go, target
    <2>2. ASSUME NEW n \in ToWrite
          PROVE  held'[Its(n)] = Partly(n)'
      <3>1. nodes[n].content \in Seq(Nat) /\ nodes[n].size = Len(nodes[n].content)
        BY NodeFacts
      <3>2. \A k \in 1..nodes[n].size : nodes[n].content[k] \in todo'
        BY <2>1, <3>1 DEF ChunksOf
      <3>3. Partly(n)' = Empty(n)
        BY <1>1, <3>2 DEF Partly, Empty
      <3>4. QED
        BY <2>1, <3>3 DEF Filled
    <2>3. QED
      BY <1>1, <2>1, <2>2 DEF Filled
  <1>8. CASE ApplyMetadata
    <2>1. phase' = "links"
      BY <1>8 DEF ApplyMetadata, Go
    <2>2. QED
      BY <1>1, <1>8, <2>1, MetadataFills DEF Filled
  <1>9. CASE (\E b \in DOMAIN index : Fetch(b)) /\ phase' # "failed"
    <2>1. PICK b \in DOMAIN index : Fetch(b)
      BY <1>9
    <2>2. phase' = "fetch"
      BY <1>9, <2>1 DEF Fetch, Fails, Go
    <2>3. \A n \in ToWrite : held'[Its(n)] = Partly(n)'
      BY <1>1, <1>9, <2>1, FetchFills
    <2>4. QED
      BY <1>1, <2>2, <2>3 DEF Filled
  <1>10. CASE HardLink \/ Finish
    <2>1. phase = "links" /\ held' = held /\ phase' \in {"links", "ok", "failed"}
      BY <1>10 DEF HardLink, Finish, Fails, Go, target
    <2>2. QED
      BY <1>1, <2>1 DEF Filled
  <1>11. CASE PlanTree \/ MakeDir \/ MakeSymlink
    BY <1>2, <1>4, <1>11 DEF PlanTree, MakeDir, MakeSymlink, Go, Fails
  <1>12. CASE RestoreFault \/ Verify \/ PruneBeside \/ UNCHANGED restoreVars
    BY <1>2, <1>3, <1>12 DEF RestoreFault, Fails, Verify, PruneBeside, restoreVars, target
  <1>13. QED
    BY <1>2, <1>5, <1>6, <1>7, <1>8, <1>9, <1>10, <1>11, <1>12 DEF RestoreNext

-----------------------------------------------------------------------------
(* What is not replaced: the entries, and what the files hold. *)
Kept ==
    /\ \A p \in Path : entry[p].is \in {"nothing", "other", "file", "symlink"}
    /\ \A p \in Path : before.entry[p] # Nothing /\ ~(overwrite /\ p \in chosen) => entry[p] = before.entry[p]

Alone ==
    \A p \in Path : before.entry[p] = FileAt(<<"old", p>>) /\ ~(overwrite /\ p \in chosen)
        => held[<<"old", p>>] = before.inode[<<"old", p>>]

LEMMA Kinds ==
    ASSUME Setting, NEW p \in Path
    PROVE  /\ before.entry[p].is \in {"nothing", "other", "file", "symlink"}
           /\ Final(p).is \in {"nothing", "other", "file", "symlink"}
           /\ before.entry[p] # Nothing /\ before.entry[p].is = "file" => before.entry[p] = FileAt(<<"old", p>>)
  BY DEF Setting, Final, FileAt, SymlinkTo, Nothing, Other

LEMMA KeptNext ==
    ASSUME Setting, Pending, Shape, Kept, [RestoreNext]_restoreVars
    PROVE  Kept'
  <1>1. UNCHANGED <<nodes, before, overwrite, chosen>> /\ \A p : Final(p)' = Final(p)
    BY Fixed, FixedTerms
  <1>2. CASE phase' # "failed"
    <2>1. \A p \in Path : /\ entry'[p] = IF Reached(p)' THEN Final(p) ELSE before.entry[p]
                          /\ Reached(p)' => overwrite \/ before.entry[p] = Nothing
      BY <1>1, <1>2, ShapeNext DEF Shape
    <2>2. \A p : Reached(p)' => p \in chosen
      BY <1>1 DEF Reached
    <2>3. \A p \in Path : entry'[p].is \in {"nothing", "other", "file", "symlink"}
      BY <2>1, Kinds
    <2>4. QED
      BY <1>1, <2>1, <2>2, <2>3 DEF Kept
  <1>3. CASE phase' = "failed"
    <2>1. entry' = entry
      BY <1>3 DEF RestoreNext, restoreVars, target, Verify, PruneBeside, PlanTree, MakeDir, MakeSymlink, SymlinksMade,
             CreateFile, Lookup, Fetch, ApplyMetadata, HardLink, Finish, RestoreFault, Fails, Go
    <2>2. QED
      BY <1>1, <2>1 DEF Kept
  <1>4. QED
    BY <1>2, <1>3

LEMMA AloneNext ==
    ASSUME Setting, Pending, Shape, Alone, [RestoreNext]_restoreVars
    PROVE  Alone'
  <1>1. UNCHANGED <<nodes, before, overwrite, chosen>>
    BY Fixed
  <1> SUFFICES ASSUME NEW p \in Path, before.entry[p] = FileAt(<<"old", p>>), ~(overwrite /\ p \in chosen)
               PROVE  held'[<<"old", p>>] = held[<<"old", p>>]
    BY <1>1 DEF Alone
  <1>2. before.entry[p] # Nothing /\ <<"old", p>> \in Slot /\ DOMAIN held = Slot
    BY DEF FileAt, Nothing, Slot, Setting
  <1>3. ASSUME NEW n \in Files, overwrite \/ before.entry[n] = Nothing
        PROVE  Its(n) # <<"old", p>>
    <2>1. n \in Path /\ n \in chosen
      BY NodeFacts DEF Path
    <2>2. Its(n) = <<"old", p>> => n = p
      BY <2>1, ItsFacts
    <2>3. QED
      BY <1>2, <1>3, <2>1, <2>2
  <1>4. CASE CreateFile /\ phase' # "failed"
    <2>1. PICK n \in todo : n = Least(todo) /\ phase \in {"symlinks", "create", "links"}
      BY <1>4, Makes
    <2>2. phase = "create" /\ held' = [held EXCEPT ![Its(n)] = Empty(n)]
          /\ (overwrite \/ before.entry[n] = Nothing)
      BY <1>1, <1>4, <2>1, Made DEF CreateFile
    <2>3. n \in Files
      BY <2>1, <2>2, Ready
    <2>4. QED
      BY <1>2, <1>3, <2>2, <2>3
  <1>5. CASE ApplyMetadata \/ ((\E b \in DOMAIN index : Fetch(b)) /\ phase' # "failed")
    <2>1. phase = "fetch"
      BY <1>5 DEF ApplyMetadata, Fetch
    <2>2. ASSUME NEW n \in ToWrite
          PROVE  entry[n].inode # <<"old", p>>
      <3>1. n \in Files /\ n \in Path /\ n \in chosen /\ entry[n].inode = Its(n)
        BY <2>1, RestoreOpens, NodeFacts
      <3>2. overwrite \/ before.entry[n] = Nothing
        BY <2>1, <3>1 DEF Shape, Reached
      <3>3. QED
        BY <1>3, <3>1, <3>2
    <2>3. CASE ApplyMetadata
      BY <1>2, <2>2, <2>3 DEF ApplyMetadata
    <2>4. CASE (\E b \in DOMAIN index : Fetch(b)) /\ phase' # "failed"
      <3>1. PICK b \in DOMAIN index : Fetch(b)
        BY <2>4
      <3>2. \A n \in Destinations(b) : n \in ToWrite
        BY DEF Destinations
      <3>3. held' = [i \in Slot |-> IF \E n \in Destinations(b) : entry[n].inode = i
                                      THEN [held[i] EXCEPT !.content = Written(i, b)] ELSE held[i]]
        BY <2>4, <3>1 DEF Fetch, Fails
      <3>4. QED
        BY <1>2, <2>2, <3>2, <3>3
    <2>5. QED
      BY <1>5, <2>3, <2>4
  <1>6. CASE held' = held
    BY <1>6
  <1>7. CASE Lookup \/ HardLink \/ Finish \/ MakeSymlink \/ MakeDir \/ PlanTree \/ SymlinksMade
    <2>1. held' = held
      BY <1>7 DEF Lookup, HardLink, Finish, MakeSymlink, MakeDir, PlanTree, SymlinksMade, Fails, target
    <2>2. QED
      BY <1>6, <2>1
  <1>8. CASE RestoreFault \/ Verify \/ PruneBeside \/ UNCHANGED restoreVars
    BY <1>6, <1>8 DEF RestoreFault, Fails, Verify, PruneBeside, restoreVars, target
  <1>9. CASE phase' = "failed" /\ (CreateFile \/ \E b \in DOMAIN index : Fetch(b))
    BY <1>6, <1>9 DEF CreateFile, Fetch, Fails, Go, target
  <1>10. QED
    BY <1>4, <1>5, <1>7, <1>8, <1>9 DEF RestoreNext

-----------------------------------------------------------------------------
(* What `verify` vouches for. *)
Vouched ==
    /\ ~pruned => \A p \in DOMAIN packs : packs[p] \in Seq([id : Nat, sound : BOOLEAN])
    /\ phase # "failed" => why = ""
    /\ report = "ok" /\ ~pruned => Problems = {} /\ why # "data"

LEMMA SoundRepository ==
    ASSUME Problems = {}, chosen \subseteq File,
           \A p \in DOMAIN packs : packs[p] \in Seq([id : Nat, sound : BOOLEAN])
    PROVE  /\ \A b \in DOMAIN index : Readable(b)
           /\ \A n \in ToWrite : ChunksOf(n) \subseteq DOMAIN index /\ nodes[n].size = Len(nodes[n].content)
  <1>1. check_tree = {} /\ Unstored = {} /\ \A p \in DOMAIN packs : verify_pack(p) = {}
    BY DEF Problems
  <1>2. ASSUME NEW b \in DOMAIN index
        PROVE  Readable(b)
    <2>1. PICK p \in DOMAIN packs : p = index[b].pack
      BY <1>1 DEF Unstored
    <2>2. PICK k \in DOMAIN packs[p] : packs[p][k].id = b
      BY <1>1, <2>1 DEF verify_pack
    <2>3. packs[p][k].sound
      BY <1>1, <2>1 DEF verify_pack
    <2>4. index[b].at = k
      BY <1>1, <2>1, <2>2 DEF verify_pack
    <2>5. packs[p][k] \in [id : Nat, sound : BOOLEAN]
      <3>1. packs[p] \in Seq([id : Nat, sound : BOOLEAN])
        OBVIOUS
      <3>2. k \in 1..Len(packs[p])
        BY <3>1, LenProperties
      <3>3. QED
        BY <3>1, <3>2, ElementOfSeq
    <2>6. packs[p][k] = [id |-> b, sound |-> TRUE]
      BY <2>2, <2>3, <2>5
    <2>7. QED
      BY <2>1, <2>4, <2>6 DEF Readable
  <1>3. ASSUME NEW n \in ToWrite
        PROVE  ChunksOf(n) \subseteq DOMAIN index /\ nodes[n].size = Len(nodes[n].content)
    <2>1. n \in chosen /\ nodes[n].type = "file"
      BY DEF ToWrite, Files
    <2>2. n \in File => n \notin check_tree
      BY <1>1
    <2>3. QED
      BY <1>1, <2>1, <2>2 DEF check_tree
  <1>4. QED
    BY <1>2, <1>3

LEMMA VouchedNext ==
    ASSUME Vouched, chosen \subseteq File, [RestoreNext]_restoreVars
    PROVE  Vouched'
  <1>1. CASE Verify
    <2>1. UNCHANGED <<nodes, packs, index, pruned, phase, why>> /\ phase = "opened"
          /\ (report' = "ok" <=> Problems = {})
      BY <1>1 DEF Verify
    <2>2. Problems' = Problems
      BY <2>1 DEF Problems, check_tree, Unstored, verify_pack, ChunksOf
    <2>3. why = ""
      BY <2>1 DEF Vouched
    <2>4. QED
      BY <2>1, <2>2, <2>3 DEF Vouched
  <1>2. CASE PruneBeside
    BY <1>2 DEF PruneBeside, Vouched
  <1>3. CASE UNCHANGED <<nodes, packs, index, report, pruned>>
    <2>1. Problems' = Problems
      BY <1>3 DEF Problems, check_tree, Unstored, verify_pack, ChunksOf
    <2>2. ASSUME phase' # "failed" => why' = "", report = "ok" /\ ~pruned => why' # "data"
          PROVE  Vouched'
      BY <1>3, <2>1, <2>2 DEF Vouched
    <2>3. ASSUME why' = why, phase # "failed" \/ phase' = phase
          PROVE  Vouched'
      BY <2>2, <2>3 DEF Vouched
    <2>4. CASE PlanTree
      <3>1. (why' = why /\ phase # "failed") \/ (pruned /\ phase' = "failed")
        BY <2>4 DEF PlanTree, Go, Goes, Fails
      <3>2. QED
        BY <2>2, <2>3, <3>1
    <2>5. CASE MakeDir \/ MakeSymlink \/ SymlinksMade \/ CreateFile
      <3>1. (why' = why /\ phase # "failed") \/ (phase' = "failed" /\ why' = "exists")
        BY <2>5 DEF MakeDir, MakeSymlink, SymlinksMade, CreateFile, Goes, Fails
      <3>2. QED
        BY <2>2, <2>3, <3>1
    <2>6. CASE ApplyMetadata \/ HardLink \/ Finish \/ RestoreFault
      <3>1. (why' = why /\ phase # "failed") \/ (phase' = "failed" /\ why' # "data")
        BY <2>6 DEF ApplyMetadata, HardLink, Finish, RestoreFault, Goes, Fails
      <3>2. QED
        BY <2>2, <2>3, <3>1
    <2>7. CASE Lookup \/ \E b \in DOMAIN index : Fetch(b)
      <3>1. (why' = why /\ phase # "failed") \/ phase' = "failed"
        BY <2>7 DEF Lookup, Fetch, Goes, Fails
      <3>2. CASE report = "ok" /\ ~pruned
        <4>1. /\ \A b \in DOMAIN index : Readable(b)
              /\ \A n \in ToWrite : ChunksOf(n) \subseteq DOMAIN index /\ nodes[n].size = Len(nodes[n].content)
          BY <3>2, SoundRepository DEF Vouched
        <4>2. why' = why /\ phase # "failed"
          BY <2>7, <4>1 DEF Lookup, Fetch, Goes
        <4>3. QED
          BY <2>3, <4>2
      <3>3. QED
        BY <2>2, <2>3, <3>1, <3>2
    <2>8. CASE UNCHANGED restoreVars
      BY <2>3, <2>8 DEF restoreVars
    <2>9. QED
      BY <1>1, <1>2, <2>4, <2>5, <2>6, <2>7, <2>8 DEF RestoreNext
  <1>4. QED
    BY <1>1, <1>2, <1>3 DEF RestoreNext, restoreVars, repo, PlanTree, MakeDir, MakeSymlink, SymlinksMade, CreateFile,
       Lookup, Fetch, ApplyMetadata, HardLink, Finish, RestoreFault, Goes, Restoring, Fails

-----------------------------------------------------------------------------
IInv == Setting /\ Pending /\ Shape /\ Filled /\ Kept /\ Alone

LEMMA InitSetting ==
    ASSUME RestoreInit, ~TargetLinks
    PROVE  Setting
  <1>1. PICK e \in [Path -> {"nothing", "file", "other"}], link \in [Path -> Path] :
            /\ TargetLinks \/ link = [p \in Path |-> p]
            /\ entry = [p \in Path |-> CASE e[p] = "nothing" -> Nothing
                                         [] e[p] = "other" -> Other
                                         [] e[p] = "file" -> FileAt(<<"old", link[p]>>)]
    BY DEF RestoreInit
  <1>2. \A p \in Path : entry[p] \in {Nothing, Other, FileAt(<<"old", p>>)}
    BY <1>1
  <1>3. before.entry = entry
    BY DEF RestoreInit
  <1>4. QED
    BY <1>1, <1>2, <1>3 DEF RestoreInit, Setting

LEMMA InitInv ==
    ASSUME RestoreInit, ~TargetLinks
    PROVE  IInv
  <1>1. Setting
    BY InitSetting
  <1>2. phase = "opened" /\ before.entry = entry /\ before.inode = held
    BY DEF RestoreInit
  <1>3. \A p \in Path : ~Reached(p)
    BY <1>2 DEF Reached
  <1>4. Pending /\ Shape /\ Filled
    BY <1>2, <1>3 DEF Pending, Shape, Filled
  <1>5. Kept
    BY <1>1, <1>2, Kinds DEF Kept
  <1>6. QED
    BY <1>1, <1>2, <1>4, <1>5 DEF IInv, Alone

LEMMA NextInv ==
    ASSUME IInv, [RestoreNext]_restoreVars
    PROVE  IInv'
  BY SettingNext, PendingNext, ShapeNext, FilledNext, KeptNext, AloneNext DEF IInv

LEMMA InvTypeOK ==
    ASSUME IInv
    PROVE  RestoreTypeOK
  <1>1. ASSUME phase = "fetch", NEW n \in ToWrite
        PROVE  Len(held[entry[n].inode].content) = nodes[n].size
    <2>1. held[entry[n].inode] = Partly(n) /\ n \in Files
      BY <1>1, RestoreOpens DEF IInv, Filled
    <2>2. nodes[n].content \in Seq(Nat) /\ nodes[n].size = Len(nodes[n].content)
      BY <2>1, NodeFacts DEF IInv
    <2> DEFINE c == [k \in 1..nodes[n].size |-> IF nodes[n].content[k] \in todo THEN 0 ELSE nodes[n].content[k]]
    <2>3. c \in Seq(Nat) /\ Len(c) = nodes[n].size
      BY <2>2
    <2>4. held[entry[n].inode].content = c
      BY <2>1 DEF Partly
    <2>5. QED
      BY <2>3, <2>4
  <1>2. QED
    BY <1>1 DEF RestoreTypeOK, IInv, Setting, Kept

LEMMA InvExact ==
    ASSUME IInv
    PROVE  Exact
  <1> SUFFICES ASSUME phase = "ok"
               PROVE  Exact
    BY DEF Exact
  <1>1. Setting /\ Pending /\ Shape /\ Filled
    BY DEF IInv
  <1>2. \A n \in chosen : n \in Path /\ entry[n] = Final(n)
    <2>1. \A n \in chosen : n \in Path /\ Reached(n)
      BY <1>1 DEF Setting, Reached, Path
    <2>2. QED
      BY <1>1, <2>1 DEF Shape
  <1>3. \A n \in chosen \ Files : entry[n] = SymlinkTo(n)
    BY <1>2 DEF Final
  <1>4. ASSUME NEW n \in Files
        PROVE  /\ Root(n) \in ToWrite /\ Root(n) \in Path /\ entry[n] = FileAt(Its(Root(n)))
               /\ nodes[Root(n)].content = nodes[n].content
               /\ n \in ToWrite => Root(n) = n
    <2>1. entry[n] = FileAt(Its(Root(n)))
      BY <1>1, <1>2, NodeFacts DEF Final
    <2>2. Root(n) \in ToWrite /\ nodes[Root(n)].content = nodes[n].content /\ (n \in ToWrite => Root(n) = n)
      BY <1>1, FirstFacts, NodeFacts
    <2>3. QED
      BY <1>1, <2>1, <2>2, NodeFacts DEF Path
  <1>5. ASSUME NEW n \in Files
        PROVE  /\ entry[n].is = "file"
               /\ held[entry[n].inode].content = nodes[n].content
               /\ n \in ToWrite => held[entry[n].inode].of = n
    <2>1. held[Its(Root(n))] = Whole(Root(n))
      BY <1>1, <1>4 DEF Filled
    <2>2. entry[n] = FileAt(Its(Root(n)))
      BY <1>4
    <2>3. entry[n].is = "file" /\ entry[n].inode = Its(Root(n))
      BY <2>2 DEF FileAt
    <2>4. QED
      BY <1>4, <2>1, <2>3 DEF Whole
  <1>6. ASSUME NEW m \in Files, NEW n \in Files, m # n
        PROVE  entry[m] = entry[n] <=> nodes[m].group = 1 /\ nodes[n].group = 1
    <2>1. entry[m] = entry[n] <=> Its(Root(m)) = Its(Root(n))
      <3>1. entry[m] = FileAt(Its(Root(m))) /\ entry[n] = FileAt(Its(Root(n)))
        BY <1>4
      <3>2. QED
        BY <3>1 DEF FileAt
    <2>2. Its(Root(m)) = Its(Root(n)) <=> Root(m) = Root(n)
      BY <1>1, <1>4, ItsFacts
    <2>3. nodes[m].group = 1 /\ nodes[n].group = 1 => Root(m) = Root(n)
      <3>1. nodes[m].group = 1 => nodes[Root(m)].group = 1
        BY <1>1, <1>4, FirstFacts
      <3>2. QED
        BY <1>1, <1>4, <3>1, FirstFacts
    <2>4. Root(m) = Root(n) => nodes[m].group = 1 /\ nodes[n].group = 1
      <3>1. \A x \in Files : x \notin ToWrite => nodes[x].group = 1 /\ nodes[Root(x)].group = 1
        BY <1>1, FirstFacts
      <3>2. (m \in ToWrite => Root(m) = m) /\ (n \in ToWrite => Root(n) = n)
        BY <1>4
      <3>3. QED
        BY <1>6, <3>1, <3>2
    <2>5. QED
      BY <2>1, <2>2, <2>3, <2>4
  <1>7. there = "dir"
    BY <1>1 DEF Pending
  <1>8. QED
    BY <1>3, <1>5, <1>6, <1>7 DEF Exact

LEMMA InvUntouched ==
    ASSUME IInv
    PROVE  Untouched
  <1> SUFFICES ASSUME NEW p \in Path, before.entry[p] # Nothing, ~(overwrite /\ p \in chosen)
               PROVE  /\ entry[p] = before.entry[p]
                      /\ entry[p].is = "file" => held[entry[p].inode] = before.inode[entry[p].inode]
    BY DEF Untouched
  <1>1. entry[p] = before.entry[p]
    BY DEF IInv, Kept
  <1>2. entry[p].is = "file" => entry[p] = FileAt(<<"old", p>>)
    BY <1>1, Kinds DEF IInv
  <1>3. FileAt(<<"old", p>>).inode = <<"old", p>>
    BY DEF FileAt
  <1>4. QED
    BY <1>1, <1>2, <1>3 DEF IInv, Alone

LEMMA InvHolds ==
    ASSUME ~TargetLinks
    PROVE  RestoreSpec => []IInv
  <1>1. RestoreInit => IInv
    BY InitInv
  <1>2. IInv /\ [RestoreNext]_restoreVars => IInv'
    BY NextInv
  <1>3. QED
    BY <1>1, <1>2, PTL DEF RestoreSpec

(***************************************************************************)
(* A restore that says it succeeded has restored everything selected:      *)
(* content, metadata, symlinks, and which names are one file; whatever was *)
(* there, whatever the repository holds, and whatever a prune takes in     *)
(* between (restorer.rs).                                                  *)
(***************************************************************************)
THEOREM RestoreIsExact ==
    ASSUME ~TargetLinks
    PROVE  RestoreSpec => []RestoreConsistent
  <1>1. RestoreSpec => []IInv
    BY InvHolds
  <1>2. IInv => RestoreConsistent
    BY InvTypeOK, InvExact DEF RestoreConsistent
  <1>3. QED
    BY <1>1, <1>2, PTL

(***************************************************************************)
(* What was in the target and is not replaced keeps its name and what it   *)
(* holds, also when the restore stops half-way (restorer.rs, clear).       *)
(***************************************************************************)
THEOREM TargetIsUntouched ==
    ASSUME ~TargetLinks
    PROVE  RestoreSpec => []Untouched
  <1>1. RestoreSpec => []IInv
    BY InvHolds
  <1>2. IInv => Untouched
    BY InvUntouched
  <1>3. QED
    BY <1>1, <1>2, PTL

(***************************************************************************)
(* After a `verify` that found nothing, a restore does not fail for want   *)
(* of data unless a prune comes between (verify.rs, restorer.rs); whatever *)
(* links the target has.                                                   *)
(***************************************************************************)
THEOREM VerifiedIsRestorable == RestoreSpec => []VerifiedRestores
  <1> DEFINE Inv == Vouched /\ chosen \subseteq File
  <1>1. RestoreInit => Inv
    <2> SUFFICES ASSUME RestoreInit
                 PROVE  Inv
      OBVIOUS
    <2>1. PICK r \in Repository : packs = r[1]
      BY DEF RestoreInit
    <2>2. \A p \in DOMAIN packs : packs[p] \in Seq([id : Nat, sound : BOOLEAN])
      BY <2>1, RepositoryAssumption
    <2>3. QED
      BY <2>2 DEF RestoreInit, Vouched
  <1>2. Inv /\ [RestoreNext]_restoreVars => Inv'
    BY VouchedNext, Fixed
  <1>3. Inv => VerifiedRestores
    BY DEF Vouched, VerifiedRestores
  <1> HIDE DEF Inv
  <1>4. QED
    BY <1>1, <1>2, <1>3, PTL DEF RestoreSpec
=============================================================================
