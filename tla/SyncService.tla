---------------------------- MODULE SyncService ----------------------------
(***************************************************************************)
(* What the watch daemon promises of the folder it mirrors, whatever       *)
(* process does the work: passes run one at a time, and a change made at   *)
(* any moment is either seen by the pass that runs or owed another one.    *)
(* Daemon is shown to implement this specification.                        *)
(***************************************************************************)
EXTENDS Naturals

VARIABLES
    changes,   \* changes made in the folder so far
    synced,    \* how many of them a finished pass has covered
    owed,      \* whether another pass is due
    pass       \* NoPass, Begun, or the number of changes its scan saw

vars == <<changes, synced, owed, pass>>

NoPass == [at |-> "none", saw |-> 0]
Begun  == [at |-> "begun", saw |-> 0]
Seen(n) == [at |-> "seen", saw |-> n]

Init ==
    /\ changes = 0 /\ synced = 0
    /\ owed = TRUE
    /\ pass = NoPass

Change ==
    /\ changes' = changes + 1
    /\ owed' = TRUE
    /\ UNCHANGED <<synced, pass>>

(* A poll, a request, or the loss of the process that owed nothing more. *)
Demand ==
    /\ owed' = TRUE
    /\ UNCHANGED <<changes, synced, pass>>

(* A pass that has not scanned yet pays for everything owed before it. *)
Begin ==
    /\ pass = NoPass
    /\ pass' = Begun
    /\ owed' \in BOOLEAN
    /\ UNCHANGED <<changes, synced>>

Look ==
    /\ pass = Begun
    /\ pass' = Seen(changes)
    /\ UNCHANGED <<changes, synced, owed>>

Done ==
    /\ pass.at = "seen"
    /\ synced' = pass.saw
    /\ pass' = NoPass
    /\ owed' \in BOOLEAN
    /\ ~owed' => synced' = changes
    /\ UNCHANGED changes

(* A failed or killed pass covers nothing and leaves its work owed. *)
Fail ==
    /\ pass # NoPass
    /\ pass' = NoPass
    /\ owed' = TRUE
    /\ UNCHANGED <<changes, synced>>

Next == Change \/ Demand \/ Begin \/ Look \/ Done \/ Fail

Spec == Init /\ [][Next]_vars

(* Nothing is forgotten: what no finished pass covers is owed one, or is about
   to be seen, or has been seen, by the pass that runs. *)
NothingForgotten ==
    synced = changes \/ owed \/ pass = Begun \/ pass = Seen(changes)
=============================================================================
