---------------------------- MODULE MCAlgorithms ----------------------------
(***************************************************************************)
(* Parts that others rely on and that rely on none, on small inputs, one   *)
(* to a behaviour.                                                         *)
(*   merge    A reader receives log entries one at a time, in any order    *)
(*            and with repetitions, from any clients, malformed ones       *)
(*            included; each state is one argument of merge_deltas.        *)
(*   streams  An upload of every short file, and every way to read it.     *)
(*   packs    Every small repository, and every small damage to it.        *)
(*   prunes   Every few snapshots, and prunes by one policy between them.  *)
(*   evicts   Every short-of-space disk of a few files, and its passes.    *)
(*   hashes   Every way a file and the scan's cache of it can change.      *)
(***************************************************************************)
EXTENDS Manifest, Stream, Pack, Retention, Eviction, HashCache

CONSTANTS MaxLamport, MaxLen

VARIABLES subject, read

SealedLens == <<1, 2>>

Sample == [path : Path, hash : Content, deleted : BOOLEAN,
           lamport : 1..MaxLamport, dev : Device, base : Content \cup {None}]

Texts == {<<1>>, <<1, 1>>, <<2, 2>>}

(* A file that may go is large or small, used early or late; others are too
   small, were synced a moment ago, or are not in sync. *)
RowChoices ==
    [size : {2, 3}, used : {1, 2}, eligible : {TRUE}, synced_at : {8}] \cup
    [size : {1}, used : {1}, eligible : {TRUE}, synced_at : {-1}] \cup
    [size : {2}, used : {1}, eligible : {TRUE}, synced_at : {9}] \cup
    [size : {3}, used : {1}, eligible : {FALSE}, synced_at : {8}]

Pin(matches, length, to) == [matches |-> matches, length |-> length, mode |-> to]
RuleChoices ==
    [pins : {<<>>, <<Pin({1}, 4, "local"), Pin({1, 2}, 3, "online_only")>>,
             <<Pin({1, 2}, 4, "online_only"), Pin({2}, 4, "local")>>,
             <<Pin({3}, 2, "auto")>>},
     local : {{2}}, online : {{}, {2, 3}}]

Init ==
    /\ subject \in {"merge", "streams", "packs", "prunes", "evicts", "hashes"}
    /\ read = <<>> /\ StreamInit /\ PackInit /\ HashCacheInit
    /\ subject # "streams" => len = 0 /\ size = 1
    /\ IF subject = "prunes" THEN RetentionInit
       ELSE policy = [r \in Rules |-> 0] /\ taken = {} /\ snaps = {}
    /\ IF subject = "evicts" THEN EvictionInit
       ELSE /\ rows = <<>> /\ asked = {} /\ free = MinFree
            /\ rules = [pins |-> <<>>, local |-> {}, online |-> {}]

ReadEntry ==
    /\ Len(read) < MaxLen
    /\ \E e \in Sample : read' = Append(read, e)

Next ==
    \/ subject = "merge" /\ ReadEntry
       /\ UNCHANGED <<stream_vars, pack_vars, retention_vars, evict_vars, cache_vars>>
    \/ subject = "streams" /\ StreamNext
       /\ UNCHANGED <<read, pack_vars, retention_vars, evict_vars, cache_vars>>
    \/ subject = "packs" /\ PackNext
       /\ UNCHANGED <<read, stream_vars, retention_vars, evict_vars, cache_vars>>
    \/ subject = "prunes" /\ RetentionNext
       /\ UNCHANGED <<read, stream_vars, pack_vars, evict_vars, cache_vars>>
    \/ subject = "evicts" /\ EvictionNext
       /\ UNCHANGED <<read, stream_vars, pack_vars, retention_vars, cache_vars>>
    \/ subject = "hashes" /\ HashCacheNext
       /\ UNCHANGED <<read, stream_vars, pack_vars, retention_vars, evict_vars>>

vars == <<subject, read, stream_vars, pack_vars, retention_vars, evict_vars, cache_vars>>

Spec == Init /\ [][UNCHANGED subject /\ Next]_vars

(* The fold of merge_deltas computes the winners of the order winner_key, so it
   depends neither on the order of the deltas nor on repetitions.  A snapshot
   of a first part of the log, merged with the whole log or with the rest, is
   the merge of the log: compaction may fold any prefix, and re-reading folded
   deltas changes nothing. *)
MergeIsWinners ==
    LET merged(entries) == merge_deltas({}, entries).manifest
    IN  /\ merged(read) = Merged(Range(read))
        /\ \A n \in 0..Len(read) : \A from \in 1..(n + 1) :
              merge_deltas(merged(SubSeq(read, 1, n)), SubSeq(read, from, Len(read))).manifest
                  = merged(read)

(* On a log listed in key order the merge reports exactly the forks between an
   entry and its predecessor, once each, the newer one winning. *)
ConflictsAreForks ==
    (\A i \in 1..(Len(read) - 1) : Beats(read[i + 1], read[i]))
        => merge_deltas({}, read).conflicts = LogConflicts(Range(read))
=============================================================================
