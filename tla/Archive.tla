------------------------------- MODULE Archive -------------------------------
(***************************************************************************)
(* The archiver (backup-core: archiver.rs, journal.rs, snapshot.rs): a     *)
(* directory is walked and its files are chunked into the repository by    *)
(* concurrent workers while its owner goes on editing, and while the       *)
(* mirror turns files into placeholders and back.  A run can be stopped at *)
(* any point; the next one takes over what it uploaded and, through the    *)
(* resume journal, what it had finished.                                   *)
(*                                                                         *)
(* A content is a sequence of chunks, and stands for its own hash.  Times  *)
(* are readings of a clock that moves with every change: two changes never *)
(* share a timestamp, the blind spot that same_content admits.  The        *)
(* repository is what Backup has it be: blobs in packs of the bucket, some *)
(* of them covered by index objects.                                       *)
(***************************************************************************)
EXTENDS Integers, FiniteSets, Sequences, SequencesExt, Functions

CONSTANTS
    Name,        \* the entries of the directory: numbers, in the order of their names
    Content,     \* what files may hold
    First,       \* what they hold at first: functions from Name to Content
    Options,     \* <<what to do with placeholders, whether to read every file>>
    MaxRuns,     \* bound: backups started
    MaxEvents    \* bound: changes to the directory, crashes, cancellations, failed
                 \* requests and reads, together

ASSUME NameAssumption == IsFiniteSet(Name) /\ Name = 1..Cardinality(Name)
ASSUME ContentAssumption == (\A c \in Content : c \in Seq(Nat)) /\ First \subseteq [Name -> Content]
ASSUME OptionAssumption == Options \subseteq {"include", "skip"} \X BOOLEAN
ASSUME BoundAssumption == {MaxRuns, MaxEvents} \subseteq Nat

VARIABLES
    dir,        \* dir[n]: the inode that n names (0: none) and the placeholder of n
    inode,      \* inode[i]: content, mtime and ctime
    clock,
    stored,     \* blobs in the packs of the bucket
    durable,    \* those that its index objects cover
    snaps,      \* the snapshots, oldest first
    journal,    \* the resume journal of this directory
    pc,         \* where the run stands
    job,        \* what the run knows
    work,       \* work[n]: the worker that archives n
    runs, events

disk == <<dir, inode, clock>>
bucket == <<stored, durable, snaps>>
counters == <<runs, events>>
vars == <<disk, bucket, journal, pc, job, work, counters>>

Inode == 1..(Cardinality(Name) + MaxEvents)

NoStub == [here |-> FALSE]
Stub(c, time) == [here |-> TRUE, content |-> c, mtime |-> time]
Absent == [real |-> 0, stub |-> NoStub]

Chunk(b) == <<"data", b>>
TreeBlob(nodes) == <<"tree", nodes>>
Chunks(c) == {Chunk(c[k]) : k \in DOMAIN c}

(* Faulty variant: the change time is left out. *)
same_content_mtime(old, new) ==
    /\ ~old.offloaded
    /\ old.size = new.size
    /\ old.mtime = new.mtime
    /\ old.inode = new.inode

(* Whether a node of an earlier run still describes the file. *)
same_content(old, new) ==
    /\ ~old.offloaded
    /\ old.size = new.size
    /\ old.mtime = new.mtime
    /\ old.inode = new.inode
    /\ old.ctime = new.ctime

(* Node::from_metadata, of the file that n names. *)
NodeOf(n) ==
    LET i == dir[n].real
    IN  [content |-> <<>>, hash |-> <<>>, size |-> Len(inode[i].content),
         mtime |-> inode[i].mtime, ctime |-> inode[i].ctime, inode |-> i,
         links |-> Cardinality({m \in Name : dir[m].real = i}), offloaded |-> FALSE]

(* ... and of the file that the placeholder s stands for. *)
NodeOfStub(s) ==
    [content |-> <<>>, hash |-> s.content, size |-> Len(s.content), mtime |-> s.mtime,
     ctime |-> 0, inode |-> 0, links |-> 0, offloaded |-> TRUE]

NoWork == [at |-> "none"]
NoJob == [todo |-> {}]

(* The blobs a snapshot reaches. *)
Reach(s) == {TreeBlob(s.nodes)} \cup UNION {Chunks(s.nodes[n].content) : n \in DOMAIN s.nodes}

Init ==
    /\ \E c \in First, away \in SUBSET Name :
          /\ dir = [n \in Name |->
                        IF n \in away THEN [real |-> 0, stub |-> Stub(c[n], 0)]
                                      ELSE [real |-> n, stub |-> NoStub]]
          /\ inode = [i \in Inode |->
                        [content |-> IF i \in Name THEN c[i] ELSE <<>>, mtime |-> 0, ctime |-> 0]]
    /\ clock = 0
    /\ stored = {} /\ durable = {} /\ snaps = <<>> /\ journal = <<>>
    /\ pc = "idle" /\ job = NoJob /\ work = [n \in Name |-> NoWork]
    /\ runs = 0 /\ events = 0

-----------------------------------------------------------------------------
(* The directory changes under the run. *)

(* What the run may still count on, for the properties: names nothing touched
   since it started, and names that were there all along in some form. *)
Disturb(ns, d) ==
    job' = IF pc \in {"idle", "saved"} THEN job
           ELSE [job EXCEPT !.quiet = @ \ ns, !.present = @ \ {n \in Name : d[n] = Absent}]

Edit(ns) ==
    /\ events' = events + 1
    /\ clock' = clock + 1
    /\ Disturb(ns, dir')
    /\ UNCHANGED <<bucket, journal, pc, work, runs>>

SameFile(i) == {m \in Name : dir[m].real = i}

(* A new inode: one that no name has and no worker holds open. *)
Handle(n) == CASE work[n].at = "read" -> work[n].handle
               [] work[n].at = "upload" -> work[n].back.handle
               [] OTHER -> 0
Unused(i) == SameFile(i) = {} /\ \A n \in Name : Handle(n) # i
Fresh == CHOOSE i \in Inode : Unused(i)

(* A program writes a file in place; it may put the old mtime back. *)
Write(n) ==
    /\ dir[n].real # 0
    /\ \E c \in Content \ {inode[dir[n].real].content}, time \in {clock + 1, inode[dir[n].real].mtime} :
          inode' = [inode EXCEPT ![dir[n].real] =
                       [content |-> c, mtime |-> time, ctime |-> clock + 1]]
    /\ dir' = dir
    /\ Edit(SameFile(dir[n].real))

(* An editor writes a new file and renames it over the old one. *)
Replace(n) ==
    /\ dir[n].real # 0
    /\ \E c \in Content, time \in {clock + 1, inode[dir[n].real].mtime} :
          inode' = [inode EXCEPT ![Fresh] = [content |-> c, mtime |-> time, ctime |-> clock + 1]]
    /\ dir' = [dir EXCEPT ![n].real = Fresh]
    /\ Edit({n})

Delete(n) ==
    /\ dir[n].real # 0
    /\ dir' = [dir EXCEPT ![n].real = 0]
    /\ inode' = [inode EXCEPT ![dir[n].real].ctime = clock + 1]
    /\ Edit(SameFile(dir[n].real))

(* m becomes another name of n's file. *)
LinkTo(n, m) ==
    /\ dir[n].real # 0 /\ dir[m] = Absent
    /\ dir' = [dir EXCEPT ![m].real = dir[n].real]
    /\ inode' = [inode EXCEPT ![dir[n].real].ctime = clock + 1]
    /\ Edit(SameFile(dir[n].real) \cup {m})

(* The mirror offloads a file: the placeholder is written first, then the file
   goes (Residency).  Bringing it back ends the other way round.  Either way
   both exist for a moment. *)
EvictPlaceholder(n) ==
    /\ dir[n].real # 0 /\ ~dir[n].stub.here
    /\ dir' = [dir EXCEPT ![n].stub = Stub(inode[dir[n].real].content, inode[dir[n].real].mtime)]
    /\ inode' = inode
    /\ Edit({n})

EvictFile(n) ==
    /\ dir[n].real # 0 /\ dir[n].stub.here
    /\ dir[n].stub.content = inode[dir[n].real].content
    /\ dir' = [dir EXCEPT ![n].real = 0]
    /\ inode' = [inode EXCEPT ![dir[n].real].ctime = clock + 1]
    /\ Edit(SameFile(dir[n].real))

HydrateFile(n) ==
    /\ dir[n].real = 0 /\ dir[n].stub.here
    /\ inode' = [inode EXCEPT ![Fresh] = [content |-> dir[n].stub.content,
                                          mtime |-> dir[n].stub.mtime, ctime |-> clock + 1]]
    /\ dir' = [dir EXCEPT ![n].real = Fresh]
    /\ Edit({n})

DropPlaceholder(n) ==
    /\ dir[n].real # 0 /\ dir[n].stub.here
    /\ dir' = [dir EXCEPT ![n].stub = NoStub]
    /\ inode' = inode
    /\ Edit({n})

Owner ==
    /\ events < MaxEvents
    /\ \E n \in Name :
        \/ Write(n) \/ Replace(n) \/ Delete(n) \/ \E m \in Name : LinkTo(n, m)
        \/ EvictPlaceholder(n) \/ EvictFile(n) \/ HydrateFile(n) \/ DropPlaceholder(n)

-----------------------------------------------------------------------------
(* Starting a run: backup, backup_locked. *)

(* What the disk holds: a file's content, inode and time. *)
OnDisk(n) ==
    IF dir[n].real # 0
    THEN [here |-> TRUE, content |-> inode[dir[n].real].content, inode |-> dir[n].real,
          mtime |-> inode[dir[n].real].mtime]
    ELSE IF dir[n].stub.here
         THEN [here |-> TRUE, content |-> dir[n].stub.content, inode |-> 0, mtime |-> dir[n].stub.mtime]
         ELSE [here |-> FALSE]

(* read_dir: the entries, as <<name, form>>, placeholders after their files. *)
Listing ==
    {<<n, 0>> : n \in {m \in Name : dir[m].real # 0}} \cup
    {<<n, 1>> : n \in {m \in Name : dir[m].stub.here}}

(* journal::load: entries all of whose chunks the repository has, in their order. *)
LoadJournal(index) ==
    [k \in {j \in DOMAIN journal : Chunks(journal[j].node.content) \subseteq index} |-> journal[k]]

(* adopt_orphans takes over packs that no index covers; load_parent reads the
   newest snapshot.  A run meant to read everything uses neither parent nor
   journal. *)
OpenRun(offloaded, everything) ==
    /\ pc = "idle"
    /\ runs < MaxRuns
    /\ runs' = runs + 1
    /\ pc' = "walk"
    /\ job' = [offloaded |-> offloaded,
               parent |-> IF everything \/ snaps = <<>> THEN <<>> ELSE Last(snaps).nodes,
               resumed |-> IF everything THEN <<>> ELSE LoadJournal(stored),
               listing |-> Listing, todo |-> Listing,
               index |-> stored, fresh |-> stored \ durable, pack |-> {}, flying |-> {},
               failed |-> FALSE, aborted |-> FALSE, skipped |-> {},
               quiet |-> Name, present |-> {n \in Name : dir[n] # Absent},
               seen |-> [n \in Name |-> OnDisk(n)]]
    /\ work' = [n \in Name |-> NoWork]
    /\ UNCHANGED <<disk, bucket, journal, events>>

-----------------------------------------------------------------------------
(* Walking: archive_dir. *)

(* The error policy: the entry is left out, or the run ends. *)
SourceError(n) ==
    \/ /\ job' = [job EXCEPT !.skipped = @ \cup {n}]
       /\ work' = [work EXCEPT ![n] = [at |-> "skipped"]]
    \/ /\ job' = job
       /\ work' = [work EXCEPT ![n] = [at |-> "error"]]

NextEntry == CHOOSE e \in job.todo :
    \A f \in job.todo : e[1] < f[1] \/ (e[1] = f[1] /\ e[2] <= f[2])

Visit(e) ==
    /\ pc = "walk" /\ ~job.aborted /\ job.todo # {} /\ e = NextEntry
    /\ UNCHANGED <<disk, bucket, journal, pc, counters>>

Walked(e) == [job EXCEPT !.todo = @ \ {e}]

(* Faulty variant: an entry that has gone is passed over. *)
VisitGone_quietly(n, form) ==
    /\ Visit(<<n, form>>)
    /\ IF form = 0 THEN dir[n].real = 0 ELSE ~dir[n].stub.here
    /\ job' = Walked(<<n, form>>)
    /\ work' = work

(* The entry is gone since the directory was listed. *)
VisitGone(n, form) ==
    /\ Visit(<<n, form>>)
    /\ IF form = 0 THEN dir[n].real = 0 ELSE ~dir[n].stub.here
    /\ \/ /\ job' = [Walked(<<n, form>>) EXCEPT !.skipped = @ \cup {n}]
          /\ work' = work
       \/ /\ job' = [Walked(<<n, form>>) EXCEPT !.aborted = TRUE]
          /\ work' = work

VisitFile(n) ==
    /\ Visit(<<n, 0>>)
    /\ dir[n].real # 0
    /\ job' = Walked(<<n, 0>>)
    /\ work' = [work EXCEPT ![n] = [at |-> "file", node |-> NodeOf(n)]]

(* A placeholder beside its file gives way to it; `skip` leaves them all out. *)
VisitStub(n) ==
    /\ Visit(<<n, 1>>)
    /\ dir[n].stub.here
    /\ IF job.offloaded = "skip" \/ <<n, 0>> \in job.listing
       THEN /\ job' = IF <<n, 0>> \in job.listing THEN Walked(<<n, 1>>)
                      ELSE [Walked(<<n, 1>>) EXCEPT !.skipped = @ \cup {n}]
            /\ work' = work
       ELSE /\ job' = Walked(<<n, 1>>)
            /\ work' = [work EXCEPT ![n] = [at |-> "stub", node |-> NodeOfStub(dir[n].stub)]]

-----------------------------------------------------------------------------
(* A worker: archive_file, archive_offloaded, store_chunks. *)

Worker == UNCHANGED <<disk, bucket, pc, runs>>
Fault == events < MaxEvents /\ events' = events + 1
Done(n, node) == work' = [work EXCEPT ![n] = [at |-> "done", node |-> node]]

(* Entries of an unfinished run come before the parent's; of two the later counts. *)
Resumed(n) ==
    LET own == {k \in DOMAIN job.resumed : job.resumed[k].name = n}
    IN  {job.resumed[k].node : k \in {i \in own : \A j \in own : j <= i}}
Earlier(n) == Resumed(n) \cup (IF n \in DOMAIN job.parent THEN {job.parent[n]} ELSE {})

(* Unchanged since an earlier run: its chunk list is taken over, unread. *)
Unchanged(n) ==
    /\ work[n].at = "file"
    /\ \E old \in Earlier(n) :
          /\ same_content(old, work[n].node)
          /\ \A done \in Resumed(n) : same_content(done, work[n].node) => old = done
          /\ Done(n, [work[n].node EXCEPT !.content = old.content, !.hash = old.hash])
    /\ Worker /\ UNCHANGED <<job, journal, events>>

Open(n) ==
    /\ work[n].at = "file"
    /\ \A old \in Earlier(n) : ~same_content(old, work[n].node)
    /\ IF dir[n].real = 0
       THEN SourceError(n)
       ELSE /\ work' = [work EXCEPT ![n] = [at |-> "read", node |-> work[n].node,
                                            handle |-> dir[n].real, source |-> <<>>, got |-> <<>>]]
            /\ job' = job
    /\ Worker /\ UNCHANGED <<journal, events>>

(* Content backed up before it was offloaded, if every chunk is still there. *)
reusable(node) ==
    LET journaled == {e.node : e \in Range(job.resumed)}
        held(ns) == {o \in ns : o.hash = node.hash}
        old == IF held(journaled) # {} THEN held(journaled) ELSE held(Range(job.parent))
    IN  {o \in old : o.size = node.size /\ Chunks(o.content) \subseteq job.index}

ReuseOffloaded(n) ==
    /\ work[n].at = "stub"
    /\ ~job.aborted
    /\ \E old \in reusable(work[n].node) : Done(n, [work[n].node EXCEPT !.content = old.content])
    /\ Worker /\ UNCHANGED <<job, journal, events>>

(* The mirror's bucket supplies the content; a fault makes it another one. *)
OpenOffloaded(n) ==
    /\ work[n].at = "stub"
    /\ ~job.aborted
    /\ reusable(work[n].node) = {}
    /\ \E c \in Content :
          /\ IF c = work[n].node.hash THEN events' = events ELSE Fault
          /\ work' = [work EXCEPT ![n] = [at |-> "read", node |-> work[n].node,
                                          handle |-> 0, source |-> c, got |-> <<>>]]
    /\ Worker /\ UNCHANGED <<job, journal>>

(* An open or a read fails; the error is about the source. *)
ReadFails(n) ==
    /\ work[n].at \in {"file", "stub", "read"}
    /\ Fault
    /\ SourceError(n)
    /\ Worker /\ UNCHANGED journal

Bytes(n) == IF work[n].handle = 0 THEN work[n].source ELSE inode[work[n].handle].content

Stop(n) ==
    /\ work[n].at \in {"stub", "read"}
    /\ job.aborted
    /\ work' = [work EXCEPT ![n] = [at |-> "error"]]
    /\ Worker /\ UNCHANGED <<job, journal, events>>

(* The next chunk, as the file has it now, through save_blob: unless the
   repository has it, it joins the open pack, which goes up once it is full. *)
ReadChunk(n, full) ==
    /\ work[n].at = "read"
    /\ ~job.aborted /\ ~job.failed
    /\ Len(work[n].got) < Len(Bytes(n))
    /\ LET b == Bytes(n)[Len(work[n].got) + 1]
           new == Chunk(b) \notin job.index \cup job.pack \cup job.flying
           pack == job.pack \cup {Chunk(b)}
           w == [work[n] EXCEPT !.got = Append(@, b)]
       IN  /\ full => new
           /\ job' = IF ~new THEN job
                     ELSE IF full THEN [job EXCEPT !.pack = {}, !.flying = @ \cup pack]
                     ELSE [job EXCEPT !.pack = pack]
           /\ work' = [work EXCEPT ![n] =
                          IF full THEN [at |-> "upload", up |-> pack, back |-> w] ELSE w]
    /\ Worker /\ UNCHANGED <<journal, events>>

(* Another worker's upload failed: save_blob refuses. *)
ReadRefused(n) ==
    /\ work[n].at = "read" /\ job.failed
    /\ Len(work[n].got) < Len(Bytes(n))
    /\ work' = [work EXCEPT ![n] = [at |-> "error"]]
    /\ Worker /\ UNCHANGED <<job, journal, events>>

upload_pack(blobs) ==
    /\ stored' = stored \cup blobs
    /\ job' = [job EXCEPT !.index = @ \cup blobs, !.flying = @ \ blobs, !.fresh = @ \cup blobs]

UploadPack(n) ==
    /\ work[n].at = "upload"
    /\ upload_pack(work[n].up)
    /\ work' = [work EXCEPT ![n] = work[n].back]
    /\ UNCHANGED <<disk, durable, snaps, journal, pc, counters>>

(* The request fails, though the pack may have arrived.  The failure sticks:
   others may have counted on these blobs. *)
UploadFails(n) ==
    /\ work[n].at = "upload"
    /\ Fault
    /\ \E arrived \in {{}, work[n].up} : stored' = stored \cup arrived
    /\ job' = [job EXCEPT !.failed = TRUE]
    /\ work' = [work EXCEPT ![n] = [at |-> "error"]]
    /\ UNCHANGED <<disk, durable, snaps, journal, pc, runs>>

Read(n) == work[n].at = "read" /\ Len(work[n].got) >= Len(Bytes(n))
Record(n, node) == journal' = Append(journal, [name |-> n, node |-> node])

(* The size and the hash are those of what was read. *)
FinishFile(n) ==
    /\ Read(n) /\ work[n].handle # 0
    /\ LET node == [work[n].node EXCEPT !.content = work[n].got, !.hash = work[n].got,
                                        !.size = Len(work[n].got)]
       IN  Done(n, node) /\ Record(n, node)
    /\ Worker /\ UNCHANGED <<job, events>>

(* Faulty variant: what came from the mirror is not checked. *)
Matches_any(n) == TRUE

(* What came must be what the placeholder stands for. *)
Matches(n) == work[n].got = work[n].node.hash

FinishOffloaded(n) ==
    /\ Read(n) /\ work[n].handle = 0
    /\ IF Matches(n)
       THEN LET node == [work[n].node EXCEPT !.content = work[n].got]
            IN  Done(n, node) /\ Record(n, node) /\ job' = job
       ELSE SourceError(n) /\ journal' = journal
    /\ Worker /\ UNCHANGED events

(* The walk collects a worker that met an error: everything stops. *)
Notice ==
    /\ pc = "walk" /\ ~job.aborted
    /\ \E n \in Name : work[n].at = "error"
    /\ job' = [job EXCEPT !.aborted = TRUE]
    /\ UNCHANGED <<disk, bucket, journal, pc, work, counters>>

-----------------------------------------------------------------------------
(* Ending: every worker is waited for, then flush, then the snapshot. *)

Resting == \A n \in Name : work[n].at \in {"none", "skipped", "error", "done"}

EndRun ==
    /\ pc' = "idle"
    /\ job' = NoJob
    /\ work' = [n \in Name |-> NoWork]

Nodes == [n \in {m \in Name : work[m].at = "done"} |-> work[n].node]

GiveUp ==
    /\ pc = "walk" /\ job.aborted /\ Resting
    /\ EndRun
    /\ UNCHANGED <<disk, bucket, journal, counters>>

(* save_tree. *)
SaveTree ==
    /\ pc = "walk" /\ ~job.aborted /\ job.todo = {} /\ Resting
    /\ \A n \in Name : work[n].at # "error"
    /\ pc' = "tree"
    /\ job' = IF TreeBlob(Nodes) \in job.index THEN job
              ELSE [job EXCEPT !.pack = @ \cup {TreeBlob(Nodes)}]
    /\ UNCHANGED <<disk, bucket, journal, work, counters>>

(* Repository::flush: the open pack goes up ... *)
FlushPack ==
    /\ pc = "tree" /\ ~job.failed
    /\ upload_pack(job.pack)
    /\ pc' = "packed"
    /\ UNCHANGED <<disk, durable, snaps, journal, work, counters>>

(* ... and one index object covers every pack of this run. *)
WriteIndex ==
    /\ pc = "packed"
    /\ durable' = durable \cup job.fresh
    /\ job' = [job EXCEPT !.fresh = {}, !.pack = {}]
    /\ pc' = "flushed"
    /\ UNCHANGED <<disk, stored, snaps, journal, work, counters>>

(* What the run saw of the files nothing touched, for the properties. *)
SaveSnapshot ==
    /\ pc = "flushed" /\ ~job.failed
    /\ snaps' = Append(snaps, [nodes |-> Nodes, skipped |-> job.skipped, present |-> job.present,
                               truth |-> [n \in job.quiet |-> job.seen[n]]])
    /\ pc' = "saved"
    /\ UNCHANGED <<disk, stored, durable, journal, job, work, counters>>

RemoveJournal ==
    /\ pc = "saved"
    /\ journal' = <<>>
    /\ EndRun
    /\ UNCHANGED <<disk, bucket, counters>>

(* A crash, a cancellation, or a request of the last steps that fails. *)
Dies ==
    /\ pc # "idle"
    /\ Fault
    /\ EndRun
    /\ UNCHANGED <<disk, bucket, journal, runs>>

(* A prune, which excludes backups (Backup): older snapshots are forgotten and
   what no snapshot needs goes; packs no index covers may be spared as young. *)
Prune ==
    /\ pc = "idle" /\ snaps # <<>>
    /\ LET needed == Reach(Last(snaps))
       IN  /\ stored # needed \/ Len(snaps) > 1
           /\ snaps' = <<Last(snaps)>>
           /\ durable' = durable \cap needed
           /\ \E spared \in {{}, stored \ durable} : stored' = (stored \cap needed) \cup spared
    /\ UNCHANGED <<disk, journal, pc, job, work, counters>>

Run ==
    \/ \E o \in Options : OpenRun(o[1], o[2])
    \/ \E n \in Name :
          \/ \E form \in {0, 1} : VisitGone(n, form)
          \/ VisitFile(n) \/ VisitStub(n)
          \/ Unchanged(n) \/ Open(n) \/ ReuseOffloaded(n) \/ OpenOffloaded(n)
          \/ ReadFails(n) \/ Stop(n) \/ ReadRefused(n)
          \/ \E full \in BOOLEAN : ReadChunk(n, full)
          \/ UploadPack(n) \/ UploadFails(n) \/ FinishFile(n) \/ FinishOffloaded(n)
    \/ Notice \/ GiveUp \/ SaveTree \/ FlushPack \/ WriteIndex \/ SaveSnapshot \/ RemoveJournal
    \/ Dies \/ Prune

Next == Owner \/ Run

Spec == Init /\ [][Next]_vars

-----------------------------------------------------------------------------
(* Properties. *)

(* Types; the index of a running backup lists only what is in the bucket
   (Repository::upload_pack adds a pack once it is stored). *)
TypeOK ==
    /\ \A n \in Name : dir[n].real \in 0..Cardinality(Inode)
    /\ DOMAIN inode = Inode
    /\ durable \subseteq stored
    /\ pc \in {"idle", "walk", "tree", "packed", "flushed", "saved"}
    /\ pc # "idle" => job.index \subseteq stored /\ job.fresh \subseteq stored

(* What `verify` would find missing (check_tree): blobs no index lists, and
   files whose chunks do not add up to their size. *)
Missing(s) ==
    (Reach(s) \ durable) \cup
    {n \in DOMAIN s.nodes : s.nodes[n].size # Len(s.nodes[n].content)}

(* Every snapshot is whole: its trees and chunks are in the bucket and an index
   lists them, whatever was resumed, adopted, shared with a pack on its way up,
   or reused from a snapshot that has since been pruned. *)
SnapshotsAreWhole == \A k \in DOMAIN snaps : Missing(snaps[k]) = {}

(* A file that nothing touched while a backup ran is in its snapshot with the
   content and the time it has on disk, or was counted as skipped: neither the
   parent, nor the journal, nor a hash match lends it a content it has not. *)
SnapshotIsDisk ==
    \A k \in DOMAIN snaps : \A n \in DOMAIN snaps[k].truth \ snaps[k].skipped :
        LET s == snaps[k]
        IN  IF s.truth[n].here
            THEN /\ n \in DOMAIN s.nodes
                 /\ s.nodes[n].content = s.truth[n].content
                 /\ s.nodes[n].mtime = s.truth[n].mtime
            ELSE n \notin DOMAIN s.nodes

(* A recorded hash is that of the recorded chunks, whatever changed while they
   were read: later runs hand out content by it. *)
HashesAreTrue ==
    \A k \in DOMAIN snaps : \A n \in DOMAIN snaps[k].nodes :
        snaps[k].nodes[n].hash = snaps[k].nodes[n].content

(* A run is well formed, its snapshot whole and its hashes true (TypeOK,
   SnapshotsAreWhole, HashesAreTrue). *)
Consistent == TypeOK /\ SnapshotsAreWhole /\ HashesAreTrue

(* A file that was there all the while, as itself or as a placeholder, is in
   the snapshot or was counted as skipped; the mirror cannot move it out from
   under the walk unnoticed. *)
Accounted ==
    \A k \in DOMAIN snaps : snaps[k].present \subseteq DOMAIN snaps[k].nodes \cup snaps[k].skipped
=============================================================================
