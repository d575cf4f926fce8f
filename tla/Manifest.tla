------------------------------ MODULE Manifest ------------------------------
(***************************************************************************)
(* The remote manifest of mirror-core: the entries of the delta log, the   *)
(* total order that decides which entry of a path wins, and the merge of a *)
(* snapshot with the deltas read from the log (manifest.rs).               *)
(*                                                                         *)
(* A manifest is the set of its entries, at most one per path.  Content    *)
(* hashes and device ids are positive numbers: the code only compares them *)
(* for equality and by their byte order.  0 is Rust's Option::None, which  *)
(* orders below every Some.                                                *)
(***************************************************************************)
EXTENDS Integers, FiniteSets, SequencesExt

CONSTANTS Path,      \* root-relative file names
          Device,    \* device ids
          Content    \* content hashes

ASSUME DeviceAssumption  == Device \subseteq Nat \ {0}
ASSUME ContentAssumption == Content \subseteq Nat \ {0}

None == 0

(***************************************************************************)
(* struct DeltaEntry.  object_key is a function of path and hash, and      *)
(* size, mtime and deleted_at only describe the content, so they are left  *)
(* out: no decision of the mirror depends on them.                         *)
(***************************************************************************)
Entry == [path : Path, hash : Content, deleted : BOOLEAN,
          lamport : Nat, dev : Device, base : Content \cup {None}]

(* a > b in the order of winner_key. *)
Beats(a, b) ==
    \/ a.lamport > b.lamport
    \/ /\ a.lamport = b.lamport
       /\ \/ a.dev > b.dev
          \/ /\ a.dev = b.dev
             /\ \/ a.hash > b.hash
                \/ /\ a.hash = b.hash
                   /\ \/ a.base > b.base
                      \/ a.base = b.base /\ a.deleted /\ ~b.deleted

(* is_conflict: different content, and neither was written over the other. *)
Forked(a, b) ==
    /\ a.hash # b.hash
    /\ a.base # b.hash
    /\ b.base # a.hash

-----------------------------------------------------------------------------
(* The merge as the code runs it: one delta after the other. *)

EntriesAt(m, p) == {e \in m : e.path = p}

EntryAt(m, p) == CHOOSE e \in m : e.path = p

(* The manifest m with p's entry replaced by e (BTreeMap::insert). *)
Insert(m, e) == (m \ EntriesAt(m, e.path)) \cup {e}

(* Faulty variants: a linear edit is accepted whatever its clock; winner and
   loser are reported the wrong way round. *)
MergeDelta_forward(acc, delta) ==
    IF EntriesAt(acc.manifest, delta.path) = {}
    THEN [acc EXCEPT !.manifest = Insert(@, delta)]
    ELSE LET existing == EntryAt(acc.manifest, delta.path)
         IN  IF Beats(delta, existing) \/ delta.base = existing.hash
             THEN [acc EXCEPT !.manifest = Insert(@, delta)]
             ELSE acc

MergeDelta_swapped(acc, delta) ==
    IF EntriesAt(acc.manifest, delta.path) = {}
    THEN [acc EXCEPT !.manifest = Insert(@, delta)]
    ELSE LET existing   == EntryAt(acc.manifest, delta.path)
             delta_wins == Beats(delta, existing)
         IN  [manifest  |-> IF delta_wins THEN Insert(acc.manifest, delta)
                                          ELSE acc.manifest,
              conflicts |-> IF Forked(delta, existing)
                            THEN acc.conflicts \cup {[winner |-> existing, loser |-> delta]}
                            ELSE acc.conflicts]

(* One turn of the loop of merge_deltas. *)
MergeDelta(acc, delta) ==
    IF EntriesAt(acc.manifest, delta.path) = {}
    THEN [acc EXCEPT !.manifest = Insert(@, delta)]
    ELSE LET existing   == EntryAt(acc.manifest, delta.path)
             delta_wins == Beats(delta, existing)
             conflict   == IF delta_wins
                           THEN [winner |-> delta, loser |-> existing]
                           ELSE [winner |-> existing, loser |-> delta]
         IN  [manifest  |-> IF delta_wins THEN Insert(acc.manifest, delta)
                                          ELSE acc.manifest,
              conflicts |-> IF Forked(delta, existing)
                            THEN acc.conflicts \cup {conflict}
                            ELSE acc.conflicts]

merge_deltas(snapshot, deltas) ==
    FoldLeft(MergeDelta, [manifest |-> snapshot, conflicts |-> {}], deltas)

(* remote_lamport: the largest clock in the snapshot and the log. *)
RemoteLamport(es) ==
    IF es = {} THEN 0
    ELSE (CHOOSE e \in es : \A f \in es : f.lamport <= e.lamport).lamport

-----------------------------------------------------------------------------
(***************************************************************************)
(* What the merge computes, whatever the order of its arguments: every     *)
(* entry that no entry of the same path beats.                             *)
(***************************************************************************)
Merged(es) ==
    {e \in es : \A f \in es : f.path = e.path => ~Beats(f, e)}

(***************************************************************************)
(* The conflicts a merge reports when it starts from no snapshot and takes *)
(* the deltas in the order the log is listed in.  Log keys sort by         *)
(* (lamport, device), which is also the winning order, so each delta meets *)
(* its immediate predecessor.                                              *)
(***************************************************************************)
LogConflicts(es) ==
    {c \in [winner : es, loser : es] :
        /\ c.winner.path = c.loser.path
        /\ Beats(c.winner, c.loser)
        /\ \A e \in EntriesAt(es, c.winner.path) :
              ~(Beats(c.winner, e) /\ Beats(e, c.loser))
        /\ Forked(c.winner, c.loser)}
=============================================================================
