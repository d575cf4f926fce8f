------------------------------- MODULE Engine -------------------------------
(***************************************************************************)
(* The reconcile engine (engine.rs): for one path, what the local side,    *)
(* the last agreed state and the remote manifest ask the device to do.     *)
(* It is pure: every input is an argument.  Hashes are positive numbers    *)
(* and 0 is the absence of one.                                            *)
(***************************************************************************)
EXTENDS Naturals

NoHash == 0

(* enum Change and classify. *)
Change == {"Unchanged", "Created", "Modified", "Deleted"}

classify(current, base) ==
    IF current = base THEN "Unchanged"
    ELSE IF current = NoHash THEN "Deleted"
    ELSE IF base = NoHash THEN "Created" ELSE "Modified"

Moved == {"Created", "Modified"}

(* enum ActionKind; "None" is the absence of an action. *)
TransferKind == {"Download", "Hydrate", "Relocate", "Upload"}
StubKind     == {"CreatePlaceholder", "UpdatePlaceholder"}
LateKind     == StubKind \cup {"DeleteLocal", "DeleteRemote", "Conflict"}
ActionKind   == TransferKind \cup LateKind

(* One row of the truth table: by what the remote side did. *)
Row(there, unchanged, moved, deleted) ==
    IF there = "Unchanged" THEN unchanged
    ELSE IF there = "Deleted" THEN deleted ELSE moved

(* Faulty variant: the device keeps a file the others deleted. *)
decide_keep(here, there, local_hash, remote_hash) ==
    IF here = "Unchanged" THEN Row(there, "None", "Download", "None")
    ELSE IF here = "Deleted" THEN Row(there, "DeleteRemote", "Conflict", "None")
    ELSE Row(there, "Upload",
             IF local_hash = remote_hash THEN "None" ELSE "Conflict", "Conflict")

(* The truth table of a path without placeholder. *)
decide(here, there, local_hash, remote_hash) ==
    IF here = "Unchanged" THEN Row(there, "None", "Download", "DeleteLocal")
    ELSE IF here = "Deleted" THEN Row(there, "DeleteRemote", "Conflict", "None")
    ELSE Row(there, "Upload",
             IF local_hash = remote_hash THEN "None" ELSE "Conflict", "Conflict")

(***************************************************************************)
(* A placeholder with no real file beside it.  stub is "own" for the       *)
(* placeholder of this very path, and "moved" for one whose metadata names *)
(* another path; sourceLive says that other path is live in the manifest.  *)
(***************************************************************************)
placeholder_action(stub, base, evicted, there_change, wants_local, sourceLive) ==
    LET refresh == IF wants_local THEN "Hydrate" ELSE "UpdatePlaceholder" IN
    CASE stub = "moved" -> IF sourceLive THEN "Relocate" ELSE "None"
      [] stub = "own" /\ base = NoHash ->
             IF there_change = "Created" THEN refresh ELSE "None"
      [] stub = "own" /\ base # NoHash ->
             CASE there_change = "Unchanged" ->
                      IF ~wants_local /\ evicted THEN "None" ELSE refresh
               [] there_change \in Moved     -> refresh
               [] there_change = "Deleted"   -> "DeleteLocal"

(* A path whose placeholder the user removed: the row still says evicted. *)
evicted_action(there_change) ==
    CASE there_change = "Unchanged" -> "DeleteRemote"
      [] there_change \in Moved     -> "Hydrate"
      [] there_change = "Deleted"   -> "DeleteLocal"

(***************************************************************************)
(* One path of reconcile_with.  A view is the path's inputs: here and      *)
(* there, the hashes on disk and in the manifest (NoHash when absent or    *)
(* tombstoned); base and evicted, the baseline row; stub, the placeholder  *)
(* found by the scan ("none", "own" or "moved"); wantsLocal and            *)
(* onlineOnly, the residency policy.                                       *)
(***************************************************************************)
reconcile_path(v) ==
    LET there_change == classify(v.there, v.base) IN
    IF v.here # NoHash
    THEN decide(classify(v.here, v.base), there_change, v.here, v.there)
    ELSE IF v.stub # "none"
    THEN placeholder_action(v.stub, v.base, v.evicted, there_change,
                            v.wantsLocal, v.sourceLive)
    ELSE IF v.evicted
    THEN evicted_action(there_change)
    ELSE LET kind == decide(classify(NoHash, v.base), there_change, NoHash, v.there)
         IN  IF kind = "Download" /\ v.onlineOnly THEN "CreatePlaceholder" ELSE kind

(* reconcile: no placeholder and every path kept local. *)
PlainView(here, base, there) ==
    [here |-> here, base |-> base, there |-> there, stub |-> "none",
     evicted |-> FALSE, wantsLocal |-> FALSE, onlineOnly |-> FALSE,
     sourceLive |-> FALSE]

reconcile(here, base, there) == reconcile_path(PlainView(here, base, there))
=============================================================================
