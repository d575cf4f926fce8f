----------------------------- MODULE Eviction ------------------------------
(***************************************************************************)
(* Which files a pass evicts (mirror-core: residency.rs, apply/evict.rs,   *)
(* sync.rs evict_pass): those asked for, those pinned online-only, and,    *)
(* while the disk is short of space, the least recently used of the rest.  *)
(* Residency models how one file is evicted; here it either is or stays.   *)
(***************************************************************************)
EXTENDS Integers, FiniteSets, Sequences, SequencesExt, FiniteSetsExt

CONSTANTS
    File,               \* paths, as numbers: their order decides ties
    Rows,               \* records [size, used, eligible, synced_at]; -1: no sync time
    RuleSets,           \* records [pins, local, online]
    Space,              \* how much of the disk may be free
    Now, Grace,         \* the time of the pass, and evict_grace
    MinSize,            \* evict_min_size
    MinFree, TargetFree,
    MaxAutoEvictions    \* MAX_AUTO_EVICTIONS_PER_PASS

(* Validated by Config. *)
ASSUME SpaceAssumption == MinFree <= TargetFree

VARIABLES
    rows,    \* rows[f]: size, last use, eligibility and sync time of f's copy here
    rules,   \* pins, a sequence, and the config's local and online-only globs
    asked,   \* files named by an evict request
    free     \* the space left on the disk

evict_vars == <<rows, rules, asked, free>>

EvictionInit ==
    /\ rows \in [File -> Rows] /\ rules \in RuleSets /\ free \in Space
    /\ asked = {}

(* One file between two passes is enough. *)
Request == asked = {} /\ asked' \in {{f} : f \in File} /\ UNCHANGED <<rows, rules, free>>

-----------------------------------------------------------------------------
(* Policy: the longest pin that matches wins, and the last of equal ones. *)

LastLongest(pins) == pins[Max({i \in DOMAIN pins : \A j \in DOMAIN pins : pins[j].length <= pins[i].length})]

Pinning(f) == SelectSeq(rules.pins, LAMBDA pin : f \in pin.matches)

mode(f) ==
    IF Pinning(f) # <<>> THEN LastLongest(Pinning(f)).mode
    ELSE IF f \in rules.local THEN "local"
    ELSE IF f \in rules.online THEN "online_only" ELSE "auto"

past_grace(row) == row.synced_at = -1 \/ Now - row.synced_at >= Grace

plan_policy_evictions ==
    {f \in File : mode(f) = "online_only" /\ rows[f].eligible /\ past_grace(rows[f])}

space_candidates ==
    {f \in File : /\ mode(f) = "auto" /\ rows[f].size >= MinSize
                  /\ rows[f].eligible /\ past_grace(rows[f])}

UsedBefore(f, g) == rows[f].used < rows[g].used \/ (rows[f].used = rows[g].used /\ f < g)

(* Faulty variant: one file too few when the last is what reaches the target. *)
plan_space_evictions_short(candidates, needed) ==
    FoldLeft(LAMBDA acc, f :
                 IF acc.freed + rows[f].size >= needed \/ Cardinality(acc.picked) >= MaxAutoEvictions
                 THEN acc
                 ELSE [freed |-> acc.freed + rows[f].size, picked |-> acc.picked \cup {f}],
             [freed |-> 0, picked |-> {}], SetToSortSeq(candidates, UsedBefore)).picked

plan_space_evictions(candidates, needed) ==
    FoldLeft(LAMBDA acc, f :
                 IF acc.freed >= needed \/ Cardinality(acc.picked) >= MaxAutoEvictions THEN acc
                 ELSE [freed |-> acc.freed + rows[f].size, picked |-> acc.picked \cup {f}],
             [freed |-> 0, picked |-> {}], SetToSortSeq(candidates, UsedBefore)).picked

Named == asked \cup plan_policy_evictions

(* saturating_sub: nothing is needed of a disk above the target. *)
ForSpace ==
    IF free >= MinFree THEN {}
    ELSE plan_space_evictions(space_candidates \ Named, Max({TargetFree - free, 0}))

Freed(files) == MapThenSumSet(LAMBDA f : rows[f].size, files)

(* evict: each file is checked again, and may have changed or be unverified. *)
EvictPass ==
    /\ \E gone \in SUBSET {f \in Named \cup ForSpace : rows[f].eligible} :
          /\ rows' = [f \in File |-> IF f \in gone THEN [rows[f] EXCEPT !.eligible = FALSE] ELSE rows[f]]
          /\ free' = free + Freed(gone)
    /\ asked' = {} /\ UNCHANGED rules

EvictionNext == Request \/ EvictPass

-----------------------------------------------------------------------------
(* A pass evicts for space only what nobody pinned, named, just synced or used
   later than a file it leaves; as much as brings the disk to the target, or
   all there is within the limit; and no file more than that.  A pin overrides
   the config, and `local` overrides `online_only`. *)
EvictionsAreDue ==
    LET chosen == ForSpace
        others == space_candidates \ (Named \cup chosen)
    IN  /\ \A f \in chosen : \A g \in others : UsedBefore(f, g)
        /\ free < MinFree => \/ free + Freed(chosen) >= TargetFree
                             \/ others = {} \/ Cardinality(chosen) = MaxAutoEvictions
        /\ \A f \in chosen : free + Freed({g \in chosen : UsedBefore(g, f)}) < TargetFree
        /\ \A f \in (Named \cup chosen) \ asked :
              /\ ~(\E i \in DOMAIN rules.pins : f \in rules.pins[i].matches) => f \notin rules.local
              /\ \A i \in DOMAIN rules.pins :
                    f \in rules.pins[i].matches /\ rules.pins[i].mode = "local" =>
                        \E j \in DOMAIN rules.pins : /\ f \in rules.pins[j].matches
                                                     /\ rules.pins[j].mode = "online_only"
                                                     /\ rules.pins[j].length >= rules.pins[i].length
=============================================================================
