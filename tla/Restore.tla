------------------------------- MODULE Restore -------------------------------
(***************************************************************************)
(* The way back (backup-core: restorer.rs, verify.rs): a snapshot is       *)
(* turned into files under a target that may hold files already, while a   *)
(* prune may delete packs under it, for a restore takes no lock; and       *)
(* `verify`, which says whether that would work.                           *)
(*                                                                         *)
(* The snapshot is one directory of files and symlinks.  Files in one      *)
(* group were names of one inode.  A pack is a sequence of blobs, sound or *)
(* damaged; the index says in which pack and where a chunk is.             *)
(***************************************************************************)
EXTENDS Integers, FiniteSets, Sequences

CONSTANTS
    File,         \* the entries of the snapshot: numbers, in the order of their names
    Outside,      \* entries of the target that the snapshot does not have
    Data,         \* what files may hold: sequences of chunks
    Repository,   \* <<packs, index>> that a repository may be left with
    TargetLinks   \* names in the target may be hard links of each other

ASSUME FileAssumption == File \cup Outside \subseteq Nat \ {0} /\ IsFiniteSet(File) /\ File \cap Outside = {}
ASSUME DataAssumption == Data \subseteq Seq(Nat)
ASSUME RepositoryAssumption ==
    \A r \in Repository : \A p \in DOMAIN r[1] : r[1][p] \in Seq([id : Nat, sound : BOOLEAN])
ASSUME LinkAssumption == TargetLinks \in BOOLEAN

VARIABLES
    nodes,     \* the snapshot
    packs,     \* packs[p]: the blobs of a pack in the bucket
    index,     \* index[b]: the pack and the place of chunk b, as read when the repository was opened
    entry,     \* entry[n]: what is at n in the target
    held,      \* held[i]: what a file of the target holds, and whose metadata it has
    there,     \* the directory itself: none, dir, or something else in its place
    before,    \* entry and held as they were
    overwrite, \* the option
    chosen,    \* what the filters select
    phase, todo,
    why,       \* why the restore failed
    report,    \* what `verify` said: none, ok, bad
    pruned

repo == <<nodes, packs, index, report, pruned>>
target == <<entry, held, there>>
options == <<before, overwrite, chosen>>
restoreVars == <<repo, target, options, phase, todo, why>>

Path == File \cup Outside
Slot == {"old", "new"} \X Path  \* those that are there, and one for each name

Nothing == [is |-> "nothing"]
Other == [is |-> "other"]            \* a symlink or a directory
FileAt(i) == [is |-> "file", inode |-> i]
SymlinkTo(n) == [is |-> "symlink", of |-> n]

Symlink == [type |-> "symlink"]
FileNode(c, g) == [type |-> "file", content |-> c, size |-> Len(c), group |-> g]

Old == [content |-> <<-1>>, of |-> -1]
Vacant == [content |-> <<>>, of |-> 0]

ChunksOf(n) == {nodes[n].content[k] : k \in DOMAIN nodes[n].content}

(* Hard links of one file have its content; a file on its own is in group 0. *)
Snapshots == {s \in [File -> {Symlink} \cup {FileNode(c, g) : c \in Data, g \in {0, 1}}] :
    \A m, n \in File : s[m].type = "file" /\ s[n].type = "file" =>
        (s[m].group = 1 /\ s[n].group = 1 => s[m].content = s[n].content)}

RestoreInit ==
    /\ nodes \in Snapshots
    /\ \E r \in Repository : packs = r[1] /\ index = r[2]
    /\ there \in {"none", "dir", "other"}
    /\ \E e \in [Path -> {"nothing", "file", "other"}], link \in [Path -> Path] :
          /\ there # "dir" => \A p \in Path : e[p] = "nothing"
          /\ \A p \in Path : link[p] <= p /\ link[link[p]] = link[p] /\ e[link[p]] = e[p]
          /\ TargetLinks \/ link = [p \in Path |-> p]
          /\ \A p \in Path : e[p] # "file" => link[p] = p
          /\ entry = [p \in Path |-> CASE e[p] = "nothing" -> Nothing
                                       [] e[p] = "other" -> Other
                                       [] e[p] = "file" -> FileAt(<<"old", link[p]>>)]
    /\ held = [i \in Slot |-> IF \E p \in Path : entry[p] = FileAt(i) THEN Old ELSE Vacant]
    /\ before = [entry |-> entry, inode |-> held]
    /\ overwrite \in BOOLEAN
    /\ chosen \in (SUBSET File) \ {{}}
    /\ phase = "opened" /\ todo = {} /\ why = "" /\ report = "none" /\ pruned = FALSE

-----------------------------------------------------------------------------
(* verify. *)

(* check_tree: chunks no index lists, and files that do not add up. *)
check_tree ==
    {n \in File : nodes[n].type = "file" /\
        (~(ChunksOf(n) \subseteq DOMAIN index) \/ nodes[n].size # Len(nodes[n].content))}

(* Packs that an index lists and the bucket lacks, or that are too short. *)
Unstored ==
    {b \in DOMAIN index :
        index[b].pack \notin DOMAIN packs \/ index[b].at > Len(packs[index[b].pack])}

(* Faulty variant: packs are checked against themselves only. *)
verify_pack_alone(p) == {k \in DOMAIN packs[p] : ~packs[p][k].sound}

(* read_all_packs: damaged blobs, blobs the index has elsewhere in this pack,
   and blobs it has here that the header does not list. *)
verify_pack(p) ==
    {k \in DOMAIN packs[p] : ~packs[p][k].sound} \cup
    {k \in DOMAIN packs[p] : LET b == packs[p][k].id IN
        b \in DOMAIN index /\ index[b].pack = p /\ index[b].at # k} \cup
    {b \in DOMAIN index : index[b].pack = p /\ \A k \in DOMAIN packs[p] : packs[p][k].id # b}

Problems == check_tree \cup Unstored \cup UNION {verify_pack(p) : p \in DOMAIN packs}

Verify ==
    /\ phase = "opened" /\ report = "none"
    /\ report' = IF Problems = {} THEN "ok" ELSE "bad"
    /\ UNCHANGED <<nodes, packs, index, pruned, target, options, phase, todo, why>>

(* A prune has dropped the snapshot and deletes its packs. *)
PruneBeside ==
    /\ phase \notin {"ok", "failed"}
    /\ ~pruned
    /\ pruned' = TRUE
    /\ packs' = <<>>
    /\ UNCHANGED <<nodes, index, report, target, options, phase, todo, why>>

-----------------------------------------------------------------------------
(* restore. *)

Restoring == UNCHANGED <<repo, options>>
Go(state, rest) == phase' = state /\ todo' = rest
Fails(cause) == phase' = "failed" /\ why' = cause /\ todo' = {} /\ UNCHANGED <<repo, target, options>>
Goes == why' = why /\ Restoring

Files == {n \in chosen : nodes[n].type = "file"}
IsFirst(n) == \A m \in Files : nodes[m].group = nodes[n].group => n <= m

(* first_of_inode: the first name of an inode is written, others linked to it. *)
ToWrite == {n \in Files : nodes[n].group = 0 \/ IsFirst(n)}
FirstOf(n) == CHOOSE m \in ToWrite : nodes[m].group = nodes[n].group
Least(ns) == CHOOSE n \in ns : \A m \in ns : n <= m

(* plan_tree reads the directory tree, which a prune may have taken. *)
PlanTree ==
    /\ phase = "opened"
    /\ \/ Go("dir", {}) /\ Goes /\ UNCHANGED target
       \/ pruned /\ Fails("data")

(* clear: only `overwrite` makes way. *)
InTheWay(n) == entry[n] # Nothing /\ ~overwrite

MakeDir ==
    /\ phase = "dir"
    /\ IF there = "other" /\ ~overwrite
       THEN Fails("exists")
       ELSE /\ there' = "dir"
            /\ Go("symlinks", chosen \ Files)
            /\ Goes /\ UNCHANGED <<entry, held>>

MakeSymlink ==
    /\ phase = "symlinks" /\ todo # {}
    /\ LET n == Least(todo)
       IN  IF InTheWay(n)
           THEN Fails("exists")
           ELSE /\ entry' = [entry EXCEPT ![n] = SymlinkTo(n)]
                /\ Go("symlinks", todo \ {n})
                /\ Goes /\ UNCHANGED <<held, there>>

SymlinksMade ==
    /\ phase = "symlinks" /\ todo = {}
    /\ Go("create", ToWrite)
    /\ Goes /\ UNCHANGED target

Empty(n) == [content |-> [k \in 1..nodes[n].size |-> 0], of |-> 0]

(* Opening a file that is there truncates it: it stays the inode it was. *)
CreateInode(n) == IF entry[n].is = "file" THEN entry[n].inode ELSE <<"new", n>>

(* Faulty variant: files are opened the same way whatever the option. *)
CreateFile_any ==
    /\ phase = "create" /\ todo # {}
    /\ LET n == Least(todo)
       IN  /\ entry' = [entry EXCEPT ![n] = FileAt(CreateInode(n))]
           /\ held' = [held EXCEPT ![CreateInode(n)] = Empty(n)]
           /\ Go("create", todo \ {n})
           /\ Goes /\ there' = there

CreateFile ==
    /\ phase = "create" /\ todo # {}
    /\ LET n == Least(todo)
       IN  IF InTheWay(n)
           THEN Fails("exists")
           ELSE /\ entry' = [entry EXCEPT ![n] = FileAt(CreateInode(n))]
                /\ held' = [held EXCEPT ![CreateInode(n)] = Empty(n)]
                /\ Go("create", todo \ {n})
                /\ Goes /\ there' = there

(* Every needed chunk is looked up before any is read. *)
Lookup ==
    /\ phase = "create" /\ todo = {}
    /\ IF \A n \in ToWrite : ChunksOf(n) \subseteq DOMAIN index /\ nodes[n].size = Len(nodes[n].content)
       THEN /\ Go("fetch", UNION {ChunksOf(n) : n \in ToWrite})
            /\ Goes /\ UNCHANGED target
       ELSE Fails("data")

(* A pack is there, and what it has in that place is sound and is b. *)
Readable(b) ==
    /\ index[b].pack \in DOMAIN packs
    /\ index[b].at \in DOMAIN packs[index[b].pack]
    /\ packs[index[b].pack][index[b].at] = [id |-> b, sound |-> TRUE]

(* Faulty variant: a chunk is written in the first file that needs it. *)
Destinations_one(b) == {Least({n \in ToWrite : b \in ChunksOf(n)})}

(* write_at, through the name. *)
Destinations(b) == {n \in ToWrite : b \in ChunksOf(n)}

Written(i, b) ==
    [k \in DOMAIN held[i].content |->
        IF \E n \in Destinations(b) : entry[n].inode = i /\ k \in DOMAIN nodes[n].content
                                      /\ nodes[n].content[k] = b
        THEN b ELSE held[i].content[k]]

(* Packs are read in any order; each chunk goes wherever it is needed. *)
Fetch(b) ==
    /\ phase = "fetch" /\ b \in todo
    /\ IF Readable(b)
       THEN /\ held' = [i \in Slot |->
                            IF \E n \in Destinations(b) : entry[n].inode = i
                            THEN [held[i] EXCEPT !.content = Written(i, b)] ELSE held[i]]
            /\ Go("fetch", todo \ {b})
            /\ Goes /\ UNCHANGED <<entry, there>>
       ELSE Fails("data")

ApplyMetadata ==
    /\ phase = "fetch" /\ todo = {}
    /\ held' = [i \in Slot |->
          IF \E n \in ToWrite : entry[n].inode = i
          THEN [held[i] EXCEPT !.of = CHOOSE n \in ToWrite :
                   entry[n].inode = i /\ \A m \in ToWrite : entry[m].inode = i => m <= n]
          ELSE held[i]]
    /\ Go("links", Files \ ToWrite)
    /\ Goes /\ UNCHANGED <<entry, there>>

HardLink ==
    /\ phase = "links" /\ todo # {}
    /\ LET n == Least(todo)
       IN  IF InTheWay(n)
           THEN Fails("exists")
           ELSE /\ entry' = [entry EXCEPT ![n] = entry[FirstOf(n)]]
                /\ Go("links", todo \ {n})
                /\ Goes /\ UNCHANGED <<held, there>>

Finish ==
    /\ phase = "links" /\ todo = {}
    /\ Go("ok", {})
    /\ Goes /\ UNCHANGED target

(* A request or a write fails. *)
RestoreFault ==
    /\ phase \notin {"ok", "failed"}
    /\ Fails("fault")

RestoreNext ==
    \/ Verify \/ PruneBeside
    \/ PlanTree \/ MakeDir \/ MakeSymlink \/ SymlinksMade \/ CreateFile \/ Lookup
    \/ \E b \in DOMAIN index : Fetch(b)
    \/ ApplyMetadata \/ HardLink \/ Finish \/ RestoreFault

RestoreSpec == RestoreInit /\ [][RestoreNext]_restoreVars

-----------------------------------------------------------------------------
(* Properties. *)

(* Types; from its creation a file has room for exactly what its node records. *)
RestoreTypeOK ==
    /\ there \in {"none", "dir", "other"}
    /\ \A p \in Path : entry[p].is \in {"nothing", "other", "file", "symlink"}
    /\ phase \in {"opened", "dir", "symlinks", "create", "fetch", "links", "ok", "failed"}
    /\ phase = "fetch" => \A n \in ToWrite : Len(held[entry[n].inode].content) = nodes[n].size

(* A restore that says it succeeded has restored everything selected: every
   file with its content and its own metadata, every symlink, and two names are
   one file exactly when they were.  Whatever goes wrong in between, a pack
   deleted by a prune included, it says so. *)
Exact ==
    phase = "ok" =>
        /\ there = "dir"
        /\ \A n \in chosen \ Files : entry[n] = SymlinkTo(n)
        /\ \A n \in Files :
              /\ entry[n].is = "file"
              /\ held[entry[n].inode].content = nodes[n].content
              /\ n \in ToWrite => held[entry[n].inode].of = n
        /\ \A m, n \in Files : m # n =>
              (entry[m] = entry[n] <=> nodes[m].group = 1 /\ nodes[n].group = 1)

(* A restore is well formed, and exact when it says so (RestoreTypeOK, Exact). *)
RestoreConsistent == RestoreTypeOK /\ Exact

(* What was in the target and is not replaced is as it was: everything without
   `overwrite`, and what the filters leave out in any case, also when the
   restore stops half-way. *)
Untouched ==
    \A p \in Path :
        before.entry[p] # Nothing /\ ~(overwrite /\ p \in chosen) =>
            /\ entry[p] = before.entry[p]
            /\ entry[p].is = "file" => held[entry[p].inode] = before.inode[entry[p].inode]

(* After a `verify` that read every pack and found nothing, a restore does not
   fail for want of data, unless a prune comes between. *)
VerifiedRestores == report = "ok" /\ ~pruned => why # "data"
=============================================================================
