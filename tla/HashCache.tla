----------------------------- MODULE HashCache -----------------------------
(***************************************************************************)
(* How a pass learns that a file changed (mirror-core: scanner.rs,         *)
(* util/file.rs, state.rs).  A row keeps size, mtime and hash of the file; *)
(* the next scan takes the hash from there while size and mtime agree, and *)
(* reads the file otherwise.  The user may write at any moment: between    *)
(* the two stats around a read, between a read and the upload's own, and   *)
(* between the rename that ends a download and the stat after it.          *)
(* A content stands for its hash.                                          *)
(***************************************************************************)
EXTENDS Integers, Sequences

CONSTANTS
    Text,           \* contents of the file: non-empty sequences of pieces
    MaxStamp,       \* bounds the writes: each gives the file a new mtime
    HASH_ATTEMPTS,  \* 3 in the code
    Coarse          \* whether a write may leave the mtime of the one before it

ASSUME TextAssumption == Text \subseteq Seq(Nat) \ {<<>>}
ASSUME StampAssumption == MaxStamp \in Nat /\ Coarse \in BOOLEAN

VARIABLES
    file,    \* the file: Nowhere, or its content and mtime
    handle,  \* what the pass's open file reads, and whether it is still `file`
    row,     \* the row of state.db; racy, a ghost: confirmed across a save
    step,    \* the pass
    stamp,   \* the latest mtime given
    saw      \* ghost: contents the file has had since the scan looked at it

cache_vars == <<file, handle, row, step, stamp, saw>>

NoText == <<>>
Nowhere == [content |-> NoText, mtime |-> 0]
NoSync == [size |-> 0, mtime |-> 0, hash |-> NoText, synced |-> NoText, racy |-> FALSE]
NoEntry == [size |-> 0, mtime |-> 0, hash |-> NoText, racy |-> FALSE]
Resting == [at |-> "idle", entry |-> NoEntry, op |-> NoEntry]

HashCacheInit ==
    /\ file = Nowhere /\ row = NoSync /\ step = Resting /\ stamp = 0
    /\ handle = [text |-> NoText, same |-> FALSE] /\ saw = {}

file_stat == [size |-> Len(file.content), mtime |-> file.mtime]

-----------------------------------------------------------------------------
(* The user. *)

Stamped(c) ==
    \E m \in {stamp + 1} \cup (IF Coarse THEN {file.mtime} ELSE {}) :
        /\ m \in 1..MaxStamp
        /\ stamp' = IF m > stamp THEN m ELSE stamp
        /\ file' = [content |-> c, mtime |-> m]

Hit == step' = IF step.at = "persisted" THEN [step EXCEPT !.raced = TRUE] ELSE step

SaveInPlace ==
    /\ file # Nowhere
    /\ \E c \in Text \ {file.content} :
          /\ Stamped(c)
          /\ handle' = IF handle.same THEN [handle EXCEPT !.text = c] ELSE handle
          /\ saw' = saw \cup {c}
    /\ Hit /\ UNCHANGED row

SaveByRename ==
    /\ \E c \in Text : Stamped(c) /\ saw' = saw \cup {c}
    /\ handle' = [handle EXCEPT !.same = FALSE]
    /\ Hit /\ UNCHANGED row

RemoveFile ==
    /\ file # Nowhere
    /\ file' = Nowhere /\ saw' = saw \cup {NoText}
    /\ handle' = [handle EXCEPT !.same = FALSE]
    /\ UNCHANGED <<row, step, stamp>>

-----------------------------------------------------------------------------
(* hash_stable, for the scan and for an upload. *)

Goes(at) == step' = [step EXCEPT !.at = at]
Kept == UNCHANGED <<file, row, stamp>>

Hashing(for) == [at |-> "before", for |-> for, attempt |-> 1, before |-> file_stat,
                 got |-> NoText, entry |-> step.entry, op |-> NoEntry]

(* An error ends the scan and so the pass; an upload is only skipped. *)
HashFails ==
    /\ step.at \in {"before", "open", "read"} /\ file = Nowhere
    /\ step.at = "read" => Len(step.got) >= Len(handle.text)
    /\ step' = IF step.for = "scan" THEN Resting ELSE [Resting EXCEPT !.at = "record", !.entry = step.entry]
    /\ Kept /\ UNCHANGED <<handle, saw>>

StatBefore ==
    /\ step.at = "before" /\ file # Nowhere
    /\ step' = [step EXCEPT !.at = "open", !.before = file_stat]
    /\ Kept /\ UNCHANGED <<handle, saw>>

OpenFile ==
    /\ step.at = "open" /\ file # Nowhere
    /\ handle' = [text |-> file.content, same |-> TRUE]
    /\ step' = [step EXCEPT !.at = "read", !.got = NoText]
    /\ Kept /\ UNCHANGED saw

ReadPiece ==
    /\ step.at = "read" /\ Len(step.got) < Len(handle.text)
    /\ step' = [step EXCEPT !.got = Append(@, handle.text[Len(@) + 1])]
    /\ Kept /\ UNCHANGED <<handle, saw>>

(* What the caller goes on with: Some or None. *)
Hashed(found) ==
    step' = IF step.for = "scan"
            THEN [Resting EXCEPT !.at = "apply", !.entry = found]
            ELSE [Resting EXCEPT !.at = IF found = NoEntry THEN "record" ELSE "confirm",
                                 !.entry = step.entry, !.op = found]

Read == [size |-> step.before.size, mtime |-> step.before.mtime, hash |-> step.got, racy |-> FALSE]

(* Faulty variant: nobody looks whether the file moved meanwhile. *)
StatAfter_never ==
    /\ step.at = "read" /\ Len(step.got) >= Len(handle.text) /\ file # Nowhere
    /\ Hashed(Read)
    /\ Kept /\ UNCHANGED <<handle, saw>>

StatAfter ==
    /\ step.at = "read" /\ Len(step.got) >= Len(handle.text) /\ file # Nowhere
    /\ IF step.before = file_stat THEN Hashed(Read)
       ELSE IF step.attempt = HASH_ATTEMPTS THEN Hashed(NoEntry)
       ELSE step' = [step EXCEPT !.at = "before", !.attempt = @ + 1]
    /\ Kept /\ UNCHANGED <<handle, saw>>

-----------------------------------------------------------------------------
(* The pass. *)

cached == row # NoSync /\ file_stat = [size |-> row.size, mtime |-> row.mtime]

ScanFile ==
    /\ step.at = "idle"
    /\ saw' = {file.content}
    /\ step' = IF file = Nowhere THEN [Resting EXCEPT !.at = "apply"]
               ELSE IF cached
               THEN [Resting EXCEPT !.at = "apply",
                        !.entry = [size |-> row.size, mtime |-> row.mtime, hash |-> row.hash, racy |-> row.racy]]
               ELSE Hashing("scan")
    /\ Kept /\ UNCHANGED handle

NothingToDo == step.at = "apply" /\ Goes("record") /\ Kept /\ UNCHANGED <<handle, saw>>

StartsUpload ==
    /\ step.at = "apply" /\ step.entry # NoEntry /\ step.entry.hash # row.synced
    /\ step' = Hashing("upload")
    /\ Kept /\ UNCHANGED <<handle, saw>>

(* A version from elsewhere takes the place of one already synced, or of none. *)
Replaceable == step.at = "apply" /\ step.entry.hash \in {NoText, row.synced}

PersistDownload ==
    /\ Replaceable /\ stamp < MaxStamp
    /\ \E c \in Text :
          /\ file' = [content |-> c, mtime |-> stamp + 1]
          /\ step' = [at |-> "persisted", entry |-> step.entry, op |-> [NoEntry EXCEPT !.hash = c],
                      raced |-> FALSE]
          /\ saw' = saw \cup {c}
    /\ stamp' = stamp + 1
    /\ handle' = [handle EXCEPT !.same = FALSE]
    /\ UNCHANGED row

StatDownload ==
    /\ step.at = "persisted"
    /\ step' = IF file = Nowhere THEN [Resting EXCEPT !.at = "record", !.entry = step.entry]
               ELSE [Resting EXCEPT !.at = "confirm", !.entry = step.entry,
                        !.op = [size |-> file_stat.size, mtime |-> file_stat.mtime,
                                hash |-> step.op.hash, racy |-> step.raced]]
    /\ Kept /\ UNCHANGED <<handle, saw>>

(* delete_local, and the removal of its row. *)
DeletesLocal ==
    /\ Replaceable /\ file # Nowhere /\ step.entry # NoEntry
    /\ file' = Nowhere /\ row' = NoSync
    /\ saw' = saw \cup {NoText}
    /\ handle' = [handle EXCEPT !.same = FALSE]
    /\ Goes("record") /\ UNCHANGED stamp

ConfirmSync ==
    /\ step.at = "confirm"
    /\ row' = [size |-> step.op.size, mtime |-> step.op.mtime, hash |-> step.op.hash,
               synced |-> step.op.hash, racy |-> step.op.racy]
    /\ Goes("record") /\ UNCHANGED <<file, handle, stamp, saw>>

(* The whole scan is recorded last, over what the transfers recorded. *)
RecordsScan ==
    /\ step.at = "record"
    /\ row' = IF step.entry = NoEntry THEN row
              ELSE [row EXCEPT !.size = step.entry.size, !.mtime = step.entry.mtime,
                               !.hash = step.entry.hash, !.racy = step.entry.racy]
    /\ step' = Resting /\ UNCHANGED <<file, handle, stamp, saw>>

(* The process dies, or a request fails that ends the pass. *)
PassDies == step.at # "idle" /\ step' = Resting /\ Kept /\ UNCHANGED <<handle, saw>>

HashCacheNext ==
    \/ SaveInPlace \/ SaveByRename \/ RemoveFile
    \/ HashFails \/ StatBefore \/ OpenFile \/ ReadPiece \/ StatAfter
    \/ ScanFile \/ NothingToDo \/ StartsUpload \/ PersistDownload \/ StatDownload
    \/ DeletesLocal \/ ConfirmSync \/ RecordsScan \/ PassDies

-----------------------------------------------------------------------------
(* No edit goes unnoticed: a row that a scan would believe has the hash of the
   file, and what a scan reports is a content the file really had meanwhile,
   never one put together from two.  Only a save between a download's rename
   and its stat escapes: what is confirmed across it is racy. *)
EditsAreNoticed ==
    /\ file # Nowhere /\ cached /\ ~row.racy => row.hash = file.content
    /\ step.at # "idle" /\ step.entry # NoEntry /\ ~step.entry.racy => step.entry.hash \in saw
=============================================================================
