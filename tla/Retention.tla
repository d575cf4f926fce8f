----------------------------- MODULE Retention -----------------------------
(***************************************************************************)
(* Which snapshots a backup builds on, which a prune forgets, and when the *)
(* next backup is due (backup-core: prune.rs select, snapshot.rs; mirror-  *)
(* cli: backup.rs).  Snapshots of several hosts and sets of paths lie in   *)
(* one repository, and one policy is applied to them again and again.      *)
(***************************************************************************)
EXTENDS Integers, FiniteSets, Sequences, SequencesExt

CONSTANTS
    SnapshotId,   \* ids: random, here numbers
    Moment,       \* times of snapshots: host clocks need not agree
    Series,       \* pairs of a host and a sorted list of paths
    Rules,        \* rules of a policy, by the length of their buckets
    Counts        \* numbers a rule may be given

VARIABLES
    policy,   \* policy[r]: how many snapshots rule r keeps
    taken,    \* every snapshot ever taken
    snaps     \* those that are still there

retention_vars == <<policy, taken, snaps>>

RetentionInit == policy \in [Rules -> Counts] /\ taken = {} /\ snaps = {}

(* Newest first; ids decide between snapshots of one moment. *)
Before(s, t) == s.time > t.time \/ (s.time = t.time /\ s.id < t.id)
NewestFirst(ss) == SetToSortSeq(ss, Before)

Group(ss, series) == {s \in ss : s.series = series}

(* The hour, day, ... of a snapshot; rule 0 is `last`, with one for each. *)
Bucket(r, s) == IF r = 0 THEN <<s.id>> ELSE <<s.time \div r>>

(* Faulty variant: the number is compared after a snapshot was added. *)
KeptBy_one_more(r, group) ==
    FoldLeft(LAMBDA acc, s :
                 IF Cardinality(acc.seen) > policy[r] \/ Bucket(r, s) \in acc.seen THEN acc
                 ELSE [seen |-> acc.seen \cup {Bucket(r, s)}, kept |-> acc.kept \cup {s}],
             [seen |-> {}, kept |-> {}], NewestFirst(group)).kept

KeptBy(r, group) ==
    FoldLeft(LAMBDA acc, s :
                 IF Cardinality(acc.seen) = policy[r] \/ Bucket(r, s) \in acc.seen THEN acc
                 ELSE [seen |-> acc.seen \cup {Bucket(r, s)}, kept |-> acc.kept \cup {s}],
             [seen |-> {}, kept |-> {}], NewestFirst(group)).kept

IsEmptyPolicy == \A r \in Rules : policy[r] = 0

(* select: what a policy that has a rule keeps. *)
Selected(ss) == UNION {KeptBy(r, Group(ss, series)) : r \in Rules, series \in Series}

(* find_parent: the newest of the series. *)
find_parent(ss, series) ==
    {s \in Group(ss, series) : \A t \in Group(ss, series) \ {s} : Before(s, t)}

(* is_due: from what is in the bucket.  A snapshot from the future has no age. *)
is_due(ss, series, now, interval) ==
    \A parent \in find_parent(ss, series) : now - parent.time >= interval

TakeSnapshot ==
    \E s \in [id : SnapshotId \ {s.id : s \in taken}, time : Moment, series : Series] :
        /\ taken' = taken \cup {s}
        /\ snaps' = snaps \cup {s}
        /\ UNCHANGED policy

(* A prune without rules is refused; one that dies has forgotten only some. *)
prune_by_policy ==
    /\ ~IsEmptyPolicy
    /\ \E forget \in SUBSET (snaps \ Selected(snaps)) : snaps' = snaps \ forget
    /\ UNCHANGED <<policy, taken>>

RetentionNext == TakeSnapshot \/ prune_by_policy

-----------------------------------------------------------------------------
(* What the policy promises: rule r keeps the newest snapshot of each of the
   policy[r] most recent buckets that have one. *)
Promised(r, group) ==
    {s \in group :
        LET later == {t \in group : Before(t, s)}
        IN  /\ \A t \in later : Bucket(r, t) # Bucket(r, s)
            /\ Cardinality({Bucket(r, t) : t \in later}) < policy[r]}

(* A prune keeps what the policy promises, however often it has been run: what
   earlier prunes forgot would be forgotten now, and nothing that would be kept
   has gone.  A prune never changes what the next backup builds on, nor when
   it is due. *)
PruningIsSteady ==
    /\ \A r \in Rules, series \in Series :
          KeptBy(r, Group(snaps, series)) = Promised(r, Group(taken, series))
    /\ ~IsEmptyPolicy => Selected(snaps) = Selected(taken)
    /\ \A series \in Series :
          /\ find_parent(snaps, series) = find_parent(taken, series)
          /\ \A now, interval \in Moment :
                is_due(snaps, series, now, interval) = is_due(taken, series, now, interval)
=============================================================================
