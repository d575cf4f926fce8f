----------------------------- MODULE FileProofs -----------------------------
(***************************************************************************)
(* Of a file on its way from the folder to the store.                      *)
(*                                                                         *)
(* HashCache, for any contents and any number of edits: a file system that *)
(* gives every write its own mtime lets no edit go unnoticed.              *)
(*                                                                         *)
(* Upload, for any paths, contents, sizes and bounds, whatever is          *)
(* interrupted, resumed, edited or failed on the way, as long as no repair *)
(* is started while uploads are pending: the database claims only parts    *)
(* the store has, no upload falls out of sight, and what is logged can be  *)
(* decrypted, but for a version whose file changed under its transfer.     *)
(***************************************************************************)
EXTENDS HashCache, Upload, ManifestProofs, SequenceTheorems

(* The hash cache. *)

HashCacheSpec == HashCacheInit /\ [][HashCacheNext]_cache_vars

Note == [size : Nat, mtime : Nat, hash : Seq(Nat), racy : BOOLEAN]
Moving == [at : {"idle", "apply", "record", "confirm"}, entry : Note, op : Note]
Hashes == [at : {"before", "open", "read"}, for : {"scan", "upload"}, attempt : Nat,
           before : [size : Nat, mtime : Nat], got : Seq(Nat), entry : Note, op : Note]
Placed == [at : {"persisted"}, entry : Note, op : Note, raced : BOOLEAN]

CacheTypes ==
    /\ file \in [content : Seq(Nat), mtime : Nat] /\ stamp \in Nat
    /\ handle \in [text : Seq(Nat), same : BOOLEAN]
    /\ row \in [size : Nat, mtime : Nat, hash : Seq(Nat), synced : Seq(Nat), racy : BOOLEAN]
    /\ step \in Moving \cup Hashes \cup Placed
    /\ step.at = "idle" => step = Resting

(* What was noted under the newest mtime is what the file holds. *)
Holds(note) ==
    /\ note.mtime <= stamp
    /\ file # Nowhere /\ note.mtime = stamp /\ ~note.racy => note.hash = file.content

Begun(s, t) == Len(s) <= Len(t) /\ \A k \in 1..Len(s) : s[k] = t[k]

(* Nobody has written since the stat before the read. *)
Unwritten == file # Nowhere /\ step.before.mtime = stamp

CacheInv ==
    /\ CacheTypes
    /\ file # Nowhere => file.mtime = stamp /\ stamp > 0
    /\ Holds(row) /\ Holds(step.entry)
    /\ step.at = "confirm" => Holds(step.op)
    /\ step.at \in {"before", "open", "read"} => step.before.mtime <= stamp
    /\ step.at = "read" => (Unwritten => handle.text = file.content /\ Begun(step.got, handle.text))
    /\ step.at = "persisted" => (file # Nowhere /\ ~step.raced => step.op.hash = file.content)
    /\ step.at # "idle" => file.content \in saw
    /\ step.at # "idle" /\ step.entry # NoEntry /\ ~step.entry.racy => step.entry.hash \in saw

-----------------------------------------------------------------------------
LEMMA CacheTypesInit == HashCacheInit => CacheInv
  <1> SUFFICES ASSUME HashCacheInit
               PROVE  CacheInv
    OBVIOUS
  <1>1. <<>> \in Seq(Nat)
    OBVIOUS
  <1>2. Resting \in Moving /\ Resting.at = "idle" /\ Resting.entry = NoEntry /\ NoEntry.mtime = 0
    BY <1>1 DEF Resting, Moving, Note, NoEntry, NoText
  <1>3. CacheTypes
    BY <1>1, <1>2 DEF HashCacheInit, CacheTypes, Nowhere, NoSync, NoText
  <1>4. Holds(row) /\ Holds(step.entry)
    BY <1>2 DEF HashCacheInit, Holds, NoSync
  <1>5. QED
    BY <1>2, <1>3, <1>4 DEF HashCacheInit, CacheInv

(* The records that a step may be, by where it stands. *)
LEMMA StepKinds ==
    ASSUME CacheTypes
    PROVE  /\ step.at \in {"idle", "apply", "record", "confirm"} => step \in Moving
           /\ step.at \in {"before", "open", "read"} => step \in Hashes
           /\ step.at = "persisted" => step \in Placed
           /\ step.entry \in Note /\ step.op \in Note
  BY DEF CacheTypes, Moving, Hashes, Placed

LEMMA FileFacts ==
    ASSUME CacheTypes
    PROVE  /\ file.content \in Seq(Nat) /\ file.mtime \in Nat /\ stamp \in Nat
           /\ file_stat \in [size : Nat, mtime : Nat] /\ file_stat.mtime = file.mtime
           /\ Nowhere.content = NoText /\ NoText \in Seq(Nat)
           /\ NoEntry \in Note /\ NoEntry.mtime = 0 /\ Resting \in Moving
           /\ Resting.entry = NoEntry /\ Resting.at = "idle" /\ Resting.op = NoEntry
  BY DEF CacheTypes, file_stat, Nowhere, NoText, NoEntry, Note, Resting, Moving

(* A write, whether the user's or a download, leaves everything noted behind. *)
LEMMA Later ==
    ASSUME CacheInv, stamp' \in Nat, stamp' > stamp, NEW note \in Note, Holds(note)
    PROVE  Holds(note)' /\ note.mtime < stamp'
  BY DEF Holds, CacheInv, CacheTypes, Note

LEMMA WriteKeeps ==
    ASSUME CacheInv, stamp' > stamp, stamp' \in Nat, file' \in [content : Seq(Nat), mtime : Nat],
           file'.mtime = stamp', handle' \in [text : Seq(Nat), same : BOOLEAN],
           row' = row, file'.content \in saw', saw \subseteq saw', Hit
    PROVE  CacheInv'
  <1>1. row'.mtime < stamp' /\ Holds(row)'
    BY DEF CacheInv, CacheTypes, Holds
  <1>2. step'.entry = step.entry /\ step'.at = step.at /\ step'.op = step.op
    BY StepKinds DEF Hit, CacheInv, Placed
  <1>6. file'.mtime = stamp' /\ stamp' > 0 /\ file'.content \in saw' /\ saw \subseteq saw'
    BY DEF CacheInv, CacheTypes
  <1>7. step.at # "idle" /\ step.entry # NoEntry /\ ~step.entry.racy => step.entry.hash \in saw'
    BY <1>6 DEF CacheInv
  <1>3. CASE step.at = "persisted"
    <2>1. step \in Placed /\ step' = [step EXCEPT !.raced = TRUE]
      BY <1>3, StepKinds DEF CacheInv, Hit
    <2>2. step' \in Placed /\ step'.at = "persisted" /\ step'.raced = TRUE
      BY <2>1 DEF Placed
    <2>3. CacheTypes'
      BY <2>2 DEF CacheInv, CacheTypes
    <2>4. Holds(step.entry)'
      BY <1>2, Later, StepKinds DEF CacheInv, Holds
    <2>5. QED
      BY <1>1, <1>2, <1>6, <1>7, <2>2, <2>3, <2>4 DEF CacheInv
  <1>4. CASE step.at # "persisted"
    <2>1. step' = step
      BY <1>4 DEF Hit
    <2>2. CacheTypes'
      BY <2>1 DEF CacheInv, CacheTypes
    <2>3. Holds(step.entry)' /\ (step.at = "confirm" => Holds(step.op)')
      BY <2>1, Later, StepKinds DEF CacheInv, Holds
    <2>4. step.at \in {"before", "open", "read"} => step.before.mtime < stamp' /\ step.before.mtime \in Nat
      BY StepKinds DEF CacheInv, Hashes, CacheTypes
    <2>5. step.at = "read" => ~Unwritten'
      BY <2>1, <2>4 DEF Unwritten
    <2>6. QED
      BY <1>1, <1>4, <1>6, <1>7, <2>1, <2>2, <2>3, <2>4, <2>5, FileFacts DEF CacheInv
  <1>5. QED
    BY <1>3, <1>4

LEMMA UserKeeps ==
    ASSUME CacheInv, ~Coarse, SaveInPlace \/ SaveByRename \/ RemoveFile
    PROVE  CacheInv'
  <1>1. CASE SaveInPlace \/ SaveByRename
    <2>1. PICK c \in Text : Stamped(c) /\ saw' = saw \cup {c}
                           /\ handle' \in {handle, [handle EXCEPT !.text = c], [handle EXCEPT !.same = FALSE]}
      BY <1>1 DEF SaveInPlace, SaveByRename
    <2>2. c \in Seq(Nat)
      BY TextAssumption
    <2>3. stamp \in Nat
      BY DEF CacheInv, CacheTypes
    <2>4. stamp' = stamp + 1 /\ file' = [content |-> c, mtime |-> stamp + 1]
      BY <2>1, <2>3 DEF Stamped
    <2>5. handle' \in [text : Seq(Nat), same : BOOLEAN]
      BY <2>1, <2>2 DEF CacheInv, CacheTypes
    <2>6. row' = row /\ Hit
      BY <1>1 DEF SaveInPlace, SaveByRename
    <2>7. /\ stamp' > stamp /\ stamp' \in Nat /\ file' \in [content : Seq(Nat), mtime : Nat]
          /\ file'.mtime = stamp' /\ file'.content \in saw' /\ saw \subseteq saw'
      BY <2>1, <2>2, <2>3, <2>4
    <2>8. QED
      BY <2>5, <2>6, <2>7, WriteKeeps
  <1>2. CASE RemoveFile
    <2>1. /\ file' = Nowhere /\ saw' = saw \cup {NoText} /\ handle' = [handle EXCEPT !.same = FALSE]
          /\ UNCHANGED <<row, step, stamp>>
      BY <1>2 DEF RemoveFile
    <2>2. CacheTypes'
      BY <2>1, FileFacts DEF CacheInv, CacheTypes, Nowhere
    <2>3. Holds(row)' /\ Holds(step.entry)' /\ (step.at = "confirm" => Holds(step.op)') /\ ~Unwritten'
      BY <2>1 DEF CacheInv, Holds, Unwritten
    <2>4. file'.content \in saw'
      BY <2>1, FileFacts DEF CacheInv
    <2>5. QED
      BY <2>1, <2>2, <2>3, <2>4 DEF CacheInv
  <1>3. QED
    BY <1>1, <1>2

(* A step of the pass that leaves file and row alone. *)
LEMMA KeptKeeps ==
    ASSUME CacheInv, Kept, saw' = saw, handle' \in [text : Seq(Nat), same : BOOLEAN],
           step' \in Moving \cup Hashes \cup Placed,
           step'.at = "idle" => step' = Resting,
           step.at # "idle", step'.entry \in {step.entry, NoEntry},
           step'.at = "confirm" => Holds(step'.op),
           step'.at \in {"before", "open", "read"} => step'.before.mtime <= stamp,
           step'.at = "read" => (Unwritten' => handle'.text = file.content /\ Begun(step'.got, handle'.text)),
           step'.at # "persisted"
    PROVE  CacheInv'
  <1>1. CacheTypes'
    BY DEF CacheInv, CacheTypes, Kept
  <1>2. \A note : Holds(note)' <=> Holds(note')
    BY DEF Kept, Holds
  <1>3. Holds(row)'
    BY DEF Kept, Holds, CacheInv
  <1>4. Holds(NoEntry)
    BY FileFacts DEF Holds, CacheInv
  <1>5. Holds(step'.entry)
    BY <1>4 DEF CacheInv
  <1>6. Holds(step.entry)' /\ (step'.at = "confirm" => Holds(step.op)')
    BY <1>5 DEF Holds, Kept
  <1>7. step'.at # "idle" /\ step'.entry # NoEntry /\ ~step'.entry.racy => step'.entry.hash \in saw
    BY DEF CacheInv
  <1>8. UNCHANGED <<file, stamp, saw>>
    BY DEF Kept
  <1>9. QED
    BY <1>1, <1>3, <1>6, <1>7, <1>8 DEF CacheInv

LEMMA HashingKeeps ==
    ASSUME CacheInv, HashFails \/ StatBefore \/ OpenFile \/ ReadPiece
    PROVE  CacheInv'
  <1>1. /\ CacheTypes /\ step \in Hashes /\ step.at \in {"before", "open", "read"} /\ step.at # "idle"
        /\ saw' = saw /\ Kept
    BY StepKinds DEF CacheInv, HashFails, StatBefore, OpenFile, ReadPiece
  <1>2. CASE HashFails
    <2>1. handle' = handle /\ step' \in {Resting, [Resting EXCEPT !.at = "record", !.entry = step.entry]}
      BY <1>2 DEF HashFails
    <2>2. step.entry \in Note
      BY <1>1 DEF Hashes
    <2>3. /\ step' \in Moving /\ step'.at \in {"idle", "record"} /\ step'.entry \in {step.entry, NoEntry}
          /\ step'.at = "idle" => step' = Resting
      BY <2>1, <2>2, <1>1, FileFacts DEF Resting, Moving
    <2>4. QED
      BY <1>1, <2>1, <2>3, KeptKeeps DEF CacheTypes
  <1>3. CASE StatBefore
    <2>1. step' = [step EXCEPT !.at = "open", !.before = file_stat] /\ handle' = handle /\ file # Nowhere
      BY <1>3 DEF StatBefore
    <2>2. step' \in Hashes /\ step'.at = "open" /\ step'.entry = step.entry /\ step'.before = file_stat
      BY <1>1, <2>1, FileFacts DEF Hashes
    <2>3. step'.before.mtime <= stamp
      BY <1>1, <2>1, <2>2, FileFacts DEF CacheInv
    <2>4. QED
      BY <1>1, <2>1, <2>2, <2>3, KeptKeeps DEF CacheTypes
  <1>4. CASE OpenFile
    <2>1. step' = [step EXCEPT !.at = "read", !.got = NoText] /\ handle' = [text |-> file.content, same |-> TRUE]
      BY <1>4 DEF OpenFile
    <2>2. /\ step' \in Hashes /\ step'.at = "read" /\ step'.entry = step.entry
          /\ step'.before = step.before /\ step'.got = NoText
      BY <1>1, <2>1, FileFacts DEF Hashes
    <2>3. handle' \in [text : Seq(Nat), same : BOOLEAN] /\ handle'.text = file.content
      BY <1>1, <2>1, FileFacts
    <2>4. Begun(step'.got, handle'.text)
      BY <1>1, <2>2, <2>3, FileFacts DEF Begun, NoText
    <2>5. QED
      BY <1>1, <2>2, <2>3, <2>4, KeptKeeps DEF CacheInv
  <1>5. CASE ReadPiece
    <2>1. step.at = "read" /\ Len(step.got) < Len(handle.text) /\ handle' = handle
          /\ step' = [step EXCEPT !.got = Append(@, handle.text[Len(@) + 1])]
      BY <1>5 DEF ReadPiece
    <2>2. handle.text \in Seq(Nat) /\ step.got \in Seq(Nat)
      BY <1>1 DEF CacheTypes, Hashes
    <2> DEFINE got == Append(step.got, handle.text[Len(step.got) + 1])
    <2>3. /\ got \in Seq(Nat) /\ Len(got) = Len(step.got) + 1
          /\ \A k \in 1..Len(step.got) : got[k] = step.got[k]
          /\ got[Len(got)] = handle.text[Len(got)]
      BY <2>1, <2>2
    <2>4. Begun(step.got, handle.text) => Begun(got, handle.text)
      <3>1. Len(step.got) \in Nat /\ Len(handle.text) \in Nat
        BY <2>2
      <3> HIDE DEF got
      <3>2. Len(got) <= Len(handle.text) /\ 1..Len(got) = 1..Len(step.got) \cup {Len(got)}
        BY <2>1, <2>3, <3>1
      <3>3. QED
        BY <2>3, <3>2 DEF Begun
    <2> HIDE DEF got
    <2>5. step' = [step EXCEPT !.got = got]
      BY <2>1 DEF got
    <2>6. /\ step' \in Hashes /\ step'.at = "read" /\ step'.entry = step.entry
          /\ step'.before = step.before /\ step'.got = got
      BY <1>1, <2>1, <2>3, <2>5 DEF Hashes
    <2>7. Unwritten' => Unwritten
      BY <1>1, <2>6 DEF Unwritten, Kept
    <2>8. Unwritten => handle.text = file.content /\ Begun(got, handle.text)
      BY <2>1, <2>4 DEF CacheInv
    <2>9. QED
      BY <1>1, <2>1, <2>6, <2>7, <2>8, KeptKeeps DEF CacheInv, CacheTypes
  <1>6. QED
    BY <1>2, <1>3, <1>4, <1>5

LEMMA StatAfterKeeps ==
    ASSUME CacheInv, StatAfter
    PROVE  CacheInv'
  <1>1. /\ CacheTypes /\ step \in Hashes /\ step.at = "read" /\ step.entry \in Note /\ UNCHANGED <<saw, handle>> /\ Kept
        /\ Len(step.got) >= Len(handle.text) /\ file # Nowhere
        /\ \/ step.before = file_stat /\ Hashed(Read)
           \/ Hashed(NoEntry)
           \/ step' = [step EXCEPT !.at = "before", !.attempt = @ + 1]
    BY StepKinds DEF CacheInv, StatAfter
  <1>2. /\ handle \in [text : Seq(Nat), same : BOOLEAN] /\ handle.text \in Seq(Nat)
        /\ step.got \in Seq(Nat) /\ step.before.mtime \in Nat /\ step.before.mtime <= stamp
        /\ step.before \in [size : Nat, mtime : Nat]
    BY <1>1 DEF CacheInv, CacheTypes, Hashes
  <1>3. CASE step' = [step EXCEPT !.at = "before", !.attempt = @ + 1]
    <2>1. PICK n \in Nat : step' = [step EXCEPT !.at = "before", !.attempt = n]
      <3>1. step.attempt + 1 \in Nat
        BY <1>1 DEF Hashes
      <3>2. QED
        BY <1>3, <3>1
    <2>2. step' \in Hashes /\ step'.at = "before" /\ step'.entry = step.entry /\ step'.before = step.before
      BY <1>1, <2>1 DEF Hashes
    <2>3. QED
      BY <1>1, <1>2, <2>2, KeptKeeps
  (* What is found is what the file holds now. *)
  <1>4. ASSUME NEW found \in Note, Hashed(found), Holds(found),
               found # NoEntry => found.hash \in saw
        PROVE  CacheInv'
    <2>1. CASE step.for = "scan"
      <3>1. step' = [Resting EXCEPT !.at = "apply", !.entry = found]
        BY <1>4, <2>1 DEF Hashed
      <3>2. step' \in Moving /\ step'.at = "apply" /\ step'.entry = found
        BY <1>4, <3>1, <1>1, FileFacts DEF Resting, Moving
      <3>3. CacheTypes'
        BY <1>1, <3>2 DEF CacheTypes, Kept
      <3>4. Holds(row)' /\ Holds(step.entry)'
        BY <1>1, <1>4, <3>2 DEF CacheInv, Holds, Kept
      <3>5. UNCHANGED <<file, stamp, saw>>
        BY <1>1 DEF Kept
      <3>6. QED
        BY <1>1, <1>4, <3>2, <3>3, <3>4, <3>5 DEF CacheInv
    <2>2. CASE step.for # "scan"
      <3>1. step' = [Resting EXCEPT !.at = IF found = NoEntry THEN "record" ELSE "confirm",
                                    !.entry = step.entry, !.op = found]
        BY <1>4, <2>2 DEF Hashed
      <3>2. step' \in Moving /\ step'.at \in {"record", "confirm"} /\ step'.entry = step.entry /\ step'.op = found
        BY <1>1, <1>4, <3>1, <1>1, FileFacts DEF Resting, Moving
      <3>3. QED
        BY <1>1, <1>2, <1>4, <3>2, KeptKeeps
    <2>3. QED
      BY <2>1, <2>2
  <1>5. CASE Hashed(NoEntry)
    BY <1>1, <1>4, <1>5, FileFacts DEF Holds, CacheInv
  <1>6. CASE step.before = file_stat /\ Hashed(Read)
    <2>1. Unwritten
      BY <1>1, <1>6, FileFacts DEF Unwritten, CacheInv
    <2>2. handle.text = file.content /\ Begun(step.got, handle.text)
      BY <1>1, <2>1 DEF CacheInv
    <2>3. step.got = handle.text
      <3> DEFINE s == step.got
                 t == handle.text
      <3>1. s \in Seq(Nat) /\ t \in Seq(Nat) /\ Len(s) >= Len(t)
            /\ Len(s) <= Len(t) /\ \A k \in 1..Len(s) : s[k] = t[k]
        BY <1>1, <1>2, <2>2 DEF Begun
      <3> HIDE DEF s, t
      <3>2. Len(s) = Len(t)
        BY <3>1
      <3>3. s = t
        BY <3>1, <3>2, SeqEqual
      <3>4. QED
        BY <3>3 DEF s, t
    <2>4. Read \in Note /\ Read.hash = file.content /\ Read.mtime = step.before.mtime
      BY <1>2, <2>2, <2>3 DEF Read, Note
    <2>5. Holds(Read) /\ Read.hash \in saw
      BY <1>1, <1>2, <2>4 DEF Holds, CacheInv
    <2>6. QED
      BY <1>4, <1>6, <2>4, <2>5
  <1>7. QED
    BY <1>1, <1>3, <1>5, <1>6

(* A scan believes a row only where it holds. *)
LEMMA ScanKeeps ==
    ASSUME CacheInv, ScanFile
    PROVE  CacheInv'
  <1>1. /\ CacheTypes /\ step = Resting /\ step.at = "idle" /\ saw' = {file.content}
        /\ Kept /\ handle' = handle /\ UNCHANGED <<file, row, stamp>>
    BY DEF CacheInv, CacheTypes, ScanFile, Kept
  <1>2. Holds(row)'
    BY <1>1 DEF CacheInv, Holds
  <1> DEFINE known == [size |-> row.size, mtime |-> row.mtime, hash |-> row.hash, racy |-> row.racy]
  <1>3. CASE file # Nowhere /\ cached /\ step' = [Resting EXCEPT !.at = "apply", !.entry = known]
    <2>1. known \in Note /\ known.mtime = row.mtime /\ known.hash = row.hash /\ known.racy = row.racy
      BY <1>1 DEF CacheTypes, Note
    <2> HIDE DEF known
    <2>2. step' \in Moving /\ step'.at = "apply" /\ step'.entry = known
      BY <1>3, <2>1, FileFacts, <1>1 DEF Resting, Moving
    <2>3. CacheTypes'
      BY <1>1, <2>2 DEF CacheTypes
    <2>4. Holds(step.entry)'
      BY <1>1, <1>2, <2>1, <2>2 DEF Holds
    <2>5. row.mtime = stamp
      BY <1>1, <1>3, FileFacts DEF cached, CacheInv, file_stat
    <2>6. ~row.racy => row.hash = file.content
      BY <1>3, <2>5 DEF CacheInv, Holds
    <2>7. QED
      BY <1>1, <1>2, <2>1, <2>2, <2>3, <2>4, <2>6 DEF CacheInv
  <1>4. CASE file = Nowhere /\ step' = [Resting EXCEPT !.at = "apply"]
    <2>1. step' \in Moving /\ step'.at = "apply" /\ step'.entry = NoEntry
      BY <1>1, <1>4, FileFacts DEF Resting, Moving
    <2>2. CacheTypes'
      BY <1>1, <2>1 DEF CacheTypes
    <2>3. Holds(step.entry)'
      BY <1>1, <2>1, FileFacts DEF Holds, CacheInv
    <2>4. QED
      BY <1>1, <1>2, <2>1, <2>2, <2>3 DEF CacheInv
  <1>5. CASE file # Nowhere /\ step' = Hashing("scan")
    <2>1. step' \in Hashes /\ step'.at = "before" /\ step'.entry = NoEntry /\ step'.before = file_stat
      BY <1>1, <1>5, FileFacts DEF Hashing, Hashes, Resting
    <2>2. CacheTypes'
      BY <1>1, <2>1 DEF CacheTypes
    <2>3. Holds(step.entry)'
      BY <1>1, <2>1, FileFacts DEF Holds, CacheInv
    <2>4. step'.before.mtime <= stamp'
      BY <1>1, <1>5, <2>1, FileFacts DEF CacheInv
    <2>5. QED
      BY <1>1, <1>2, <2>1, <2>2, <2>3, <2>4 DEF CacheInv
  <1>6. QED
    BY <1>3, <1>4, <1>5 DEF ScanFile

(* The rest of the pass: what it puts in the folder, and what it records. *)
LEMMA MovingKeeps ==
    ASSUME CacheInv, NothingToDo \/ StartsUpload \/ PassDies
    PROVE  CacheInv'
  <1>1. CacheTypes /\ Kept /\ UNCHANGED <<handle, saw>> /\ step.at # "idle"
        /\ handle' \in [text : Seq(Nat), same : BOOLEAN] /\ step.entry \in Note
    BY StepKinds DEF CacheInv, CacheTypes, NothingToDo, StartsUpload, PassDies
  <1>2. CASE NothingToDo
    <2>1. step' = [step EXCEPT !.at = "record"] /\ step \in Moving
      BY <1>1, <1>2, StepKinds DEF NothingToDo, Goes
    <2>2. step' \in Moving /\ step'.at = "record" /\ step'.entry = step.entry
      BY <2>1 DEF Moving
    <2>3. QED
      BY <1>1, <2>2, KeptKeeps
  <1>3. CASE StartsUpload
    <2>1. step' = Hashing("upload") /\ step.entry # NoEntry /\ step.at = "apply"
      BY <1>3 DEF StartsUpload
    <2>2. step' \in Hashes /\ step'.at = "before" /\ step'.entry = step.entry /\ step'.before = file_stat
      BY <1>1, <2>1, FileFacts DEF Hashing, Hashes
    <2>3. file_stat.mtime <= stamp
      BY <1>1, FileFacts DEF CacheInv, Nowhere
    <2>4. QED
      BY <1>1, <2>2, <2>3, KeptKeeps
  <1>4. CASE PassDies
    BY <1>1, <1>4, FileFacts, KeptKeeps DEF PassDies
  <1>5. QED
    BY <1>2, <1>3, <1>4

LEMMA PersistKeeps ==
    ASSUME CacheInv, PersistDownload
    PROVE  CacheInv'
  <1>1. PICK c \in Text :
            /\ file' = [content |-> c, mtime |-> stamp + 1] /\ stamp' = stamp + 1 /\ saw' = saw \cup {c}
            /\ step' = [at |-> "persisted", entry |-> step.entry, op |-> [NoEntry EXCEPT !.hash = c],
                        raced |-> FALSE]
            /\ handle' = [handle EXCEPT !.same = FALSE] /\ row' = row /\ step.at = "apply"
    BY DEF PersistDownload, Replaceable
  <1>2. CacheTypes /\ c \in Seq(Nat) /\ stamp \in Nat /\ step.entry \in Note
    BY TextAssumption, StepKinds DEF CacheInv, CacheTypes
  <1>3. [NoEntry EXCEPT !.hash = c] \in Note /\ [NoEntry EXCEPT !.hash = c].hash = c
    BY <1>2 DEF NoEntry, NoText, Note
  <1>4. step' \in Placed /\ step'.at = "persisted" /\ step'.entry = step.entry /\ step'.op.hash = c
    BY <1>1, <1>2, <1>3 DEF Placed
  <1>5. file' \in [content : Seq(Nat), mtime : Nat] /\ file'.content = c /\ file'.mtime = stamp' /\ stamp' > 0
        /\ stamp' \in Nat /\ stamp' > stamp /\ handle' \in [text : Seq(Nat), same : BOOLEAN]
    <2>1. stamp + 1 \in Nat /\ stamp + 1 > 0 /\ stamp + 1 > stamp
      BY <1>2
    <2>2. handle' \in [text : Seq(Nat), same : BOOLEAN]
      BY <1>1, <1>2 DEF CacheTypes
    <2>3. [content |-> c, mtime |-> stamp + 1] \in [content : Seq(Nat), mtime : Nat]
      BY <1>2, <2>1
    <2>4. QED
      BY <1>1, <2>1, <2>2, <2>3
  <1>6. CacheTypes'
    BY <1>1, <1>2, <1>4, <1>5 DEF CacheTypes
  <1>7. Holds(row)' /\ Holds(step.entry)'
    <2>1. row.mtime <= stamp /\ row.mtime \in Nat /\ step.entry.mtime <= stamp /\ step.entry.mtime \in Nat
      BY <1>2 DEF CacheInv, CacheTypes, Holds, Note
    <2>2. QED
      BY <1>1, <1>2, <1>4, <1>5, <2>1 DEF Holds
  <1>8. step.entry # NoEntry /\ ~step.entry.racy => step.entry.hash \in saw'
    BY <1>1 DEF CacheInv
  <1>9. QED
    BY <1>1, <1>4, <1>5, <1>6, <1>7, <1>8 DEF CacheInv

LEMMA StatDownloadKeeps ==
    ASSUME CacheInv, StatDownload
    PROVE  CacheInv'
  <1>1. CacheTypes /\ Kept /\ UNCHANGED <<handle, saw>> /\ step.at = "persisted" /\ step \in Placed
        /\ handle' \in [text : Seq(Nat), same : BOOLEAN]
    BY StepKinds DEF CacheInv, CacheTypes, StatDownload
  <1>2. step.entry \in Note /\ step.op \in Note /\ step.raced \in BOOLEAN
    BY <1>1 DEF Placed
  <1> DEFINE found == [size |-> file_stat.size, mtime |-> file_stat.mtime, hash |-> step.op.hash, racy |-> step.raced]
  <1>3. CASE file = Nowhere /\ step' = [Resting EXCEPT !.at = "record", !.entry = step.entry]
    <2>1. step' \in Moving /\ step'.at = "record" /\ step'.entry = step.entry
      BY <1>2, <1>3, FileFacts, <1>1 DEF Resting, Moving
    <2>2. QED
      BY <1>1, <2>1, KeptKeeps
  <1>4. CASE file # Nowhere /\ step' = [Resting EXCEPT !.at = "confirm", !.entry = step.entry, !.op = found]
    <2>1. found \in Note /\ found.mtime = file.mtime /\ found.hash = step.op.hash /\ found.racy = step.raced
      BY <1>1, <1>2, FileFacts DEF Note
    <2> HIDE DEF found
    <2>2. step' \in Moving /\ step'.at = "confirm" /\ step'.entry = step.entry /\ step'.op = found
      BY <1>2, <1>4, <2>1, FileFacts, <1>1 DEF Resting, Moving
    <2>3. Holds(found)
      BY <1>1, <1>4, <2>1, FileFacts DEF Holds, CacheInv
    <2>4. QED
      BY <1>1, <2>2, <2>3, KeptKeeps
  <1>5. QED
    BY <1>3, <1>4 DEF StatDownload

LEMMA RowKeeps ==
    ASSUME CacheInv, ConfirmSync \/ RecordsScan
    PROVE  CacheInv'
  <1>1. /\ CacheTypes /\ step.entry \in Note /\ step.op \in Note /\ step.at \in {"confirm", "record"}
        /\ step \in Moving /\ UNCHANGED <<file, handle, stamp, saw>>
    BY StepKinds DEF CacheInv, ConfirmSync, RecordsScan
  <1>2. CASE ConfirmSync
    <2>1. /\ step.at = "confirm" /\ step' = [step EXCEPT !.at = "record"]
          /\ row' = [size |-> step.op.size, mtime |-> step.op.mtime, hash |-> step.op.hash,
                     synced |-> step.op.hash, racy |-> step.op.racy]
      BY <1>2 DEF ConfirmSync, Goes
    <2>2. step' \in Moving /\ step'.at = "record" /\ step'.entry = step.entry
      BY <1>1, <2>1 DEF Moving
    <2>3. row' \in [size : Nat, mtime : Nat, hash : Seq(Nat), synced : Seq(Nat), racy : BOOLEAN]
          /\ row'.mtime = step.op.mtime /\ row'.hash = step.op.hash /\ row'.racy = step.op.racy
      BY <1>1, <2>1 DEF Note
    <2>4. CacheTypes'
      BY <1>1, <2>2, <2>3 DEF CacheTypes
    <2>5. Holds(row)' /\ Holds(step.entry)'
      BY <1>1, <2>1, <2>2, <2>3 DEF CacheInv, Holds
    <2>6. QED
      BY <1>1, <2>2, <2>4, <2>5 DEF CacheInv
  <1>3. CASE RecordsScan
    <2>1. step.at = "record" /\ step' = Resting /\ row' \in {row, [row EXCEPT !.size = step.entry.size,
              !.mtime = step.entry.mtime, !.hash = step.entry.hash, !.racy = step.entry.racy]}
      BY <1>3 DEF RecordsScan
    <2>2. step' \in Moving /\ step'.at = "idle" /\ step'.entry = NoEntry
      BY <2>1, <1>1, FileFacts
    <2>3. row' \in [size : Nat, mtime : Nat, hash : Seq(Nat), synced : Seq(Nat), racy : BOOLEAN]
      BY <1>1, <2>1 DEF Note, CacheTypes
    <2>4. Holds(row)' /\ Holds(step.entry)'
      <3>1. Holds(NoEntry)
        BY <1>1, FileFacts DEF CacheInv, Holds
      <3>2. Holds(row')
        <4>1. row' = row \/ (row'.mtime = step.entry.mtime /\ row'.hash = step.entry.hash /\ row'.racy = step.entry.racy)
          BY <1>1, <2>1 DEF CacheTypes
        <4>2. QED
          BY <4>1 DEF CacheInv, Holds
      <3>3. QED
        BY <1>1, <2>2, <3>1, <3>2 DEF Holds
    <2>5. CacheTypes'
      BY <1>1, <2>1, <2>2, <2>3 DEF CacheTypes
    <2>6. QED
      BY <1>1, <2>2, <2>4, <2>5 DEF CacheInv
  <1>4. QED
    BY <1>2, <1>3

LEMMA DeleteKeeps ==
    ASSUME CacheInv, DeletesLocal
    PROVE  CacheInv'
  <1>1. /\ CacheTypes /\ step.at = "apply" /\ step \in Moving /\ file' = Nowhere /\ row' = NoSync
        /\ saw' = saw \cup {NoText} /\ handle' = [handle EXCEPT !.same = FALSE]
        /\ step' = [step EXCEPT !.at = "record"] /\ stamp' = stamp
    BY StepKinds DEF CacheInv, DeletesLocal, Replaceable, Goes
  <1>2. step' \in Moving /\ step'.at = "record" /\ step'.entry = step.entry
    BY <1>1 DEF Moving
  <1>3. NoSync \in [size : Nat, mtime : Nat, hash : Seq(Nat), synced : Seq(Nat), racy : BOOLEAN] /\ NoSync.mtime = 0
    BY <1>1, FileFacts DEF NoSync
  <1>4. CacheTypes'
    BY <1>1, <1>2, <1>3, FileFacts DEF CacheTypes, Nowhere
  <1>5. Holds(row)' /\ Holds(step.entry)'
    BY <1>1, <1>2, <1>3, FileFacts DEF CacheInv, Holds
  <1>6. QED
    BY <1>1, <1>2, <1>4, <1>5, FileFacts DEF CacheInv

(***************************************************************************)
(* No edit goes unnoticed: a row that a scan would believe has the hash of *)
(* the file, and a scan reports only contents that the file had meanwhile, *)
(* however writes fall between the reads and stats of scans, uploads and   *)
(* downloads (scanner.rs, util/file.rs hash_stable), if each write gives   *)
(* the file an mtime of its own.                                           *)
(***************************************************************************)
THEOREM NoEditIsMissed ==
    ASSUME ~Coarse
    PROVE  HashCacheSpec => []EditsAreNoticed
  <1>1. HashCacheInit => CacheInv
    BY CacheTypesInit
  <1>2. CacheInv /\ [HashCacheNext]_cache_vars => CacheInv'
    <2> SUFFICES ASSUME CacheInv, [HashCacheNext]_cache_vars
                 PROVE  CacheInv'
      OBVIOUS
    <2>1. CASE UNCHANGED cache_vars
      BY <2>1 DEF cache_vars, CacheInv, CacheTypes, Holds, Unwritten
    <2>2. CASE HashCacheNext
      BY <2>2, UserKeeps, HashingKeeps, StatAfterKeeps, ScanKeeps, MovingKeeps, PersistKeeps,
         StatDownloadKeeps, RowKeeps, DeleteKeeps DEF HashCacheNext
    <2>3. QED
      BY <2>1, <2>2
  <1>3. CacheInv => EditsAreNoticed
    <2> SUFFICES ASSUME CacheInv
                 PROVE  EditsAreNoticed
      OBVIOUS
    <2>1. file # Nowhere /\ cached => row.mtime = stamp
      BY FileFacts DEF CacheInv, cached, file_stat
    <2>2. QED
      BY <2>1 DEF CacheInv, Holds, EditsAreNoticed
  <1>4. QED
    BY <1>1, <1>2, <1>3, PTL DEF HashCacheSpec

-----------------------------------------------------------------------------
(* Uploads. *)

(* What a row and a transfer may be. *)
Hash == Content \cup {None}
UploadRow == [id : Nat, hash : Hash, parts : SUBSET Nat]
Phase == {"none", "hashed", "begun", "send", "sent", "finish", "abort", "clear", "done"}
TransferRecord ==
    [phase : Phase, mode : {"none", "upload", "resume", "repair", "drop"},
     fate : {"ok", "gone", "failed"}, hash : Hash, src : Hash, id : Nat, n : Nat,
     sent : SUBSET Nat]

(* A transfer that its row names, and one whose multipart no row names. *)
Recorded(p) ==
    up[p].phase \in {"send", "sent", "finish", "clear"} \/ (up[p].phase = "abort" /\ up[p].mode # "drop")
Unrecorded(p) == up[p].phase = "begun" \/ (up[p].phase = "abort" /\ up[p].mode = "drop")

(* What the database says of p, the transfer of p and the store agree. *)
RowOk(p) ==
    /\ rows[p] \in UploadRow /\ rows[p].id <= uploads
    /\ up[p] \in TransferRecord /\ up[p].id <= uploads
    /\ up[p].mode = "drop" => up[p].phase = "abort"
    /\ up[p].phase # "none" /\ up[p].mode # "drop" => up[p].hash \in Content /\ up[p].src \in Content
    /\ Tracked(p) => rows[p].hash \in Content
    /\ rows[p].parts # {} => Tracked(p)
    /\ \A m \in OpenId(rows[p].id) : rows[p].parts \subseteq DOMAIN m.parts
    /\ Recorded(p) => Tracked(p) /\ rows[p].id = up[p].id
    /\ up[p].phase \in {"hashed", "begun", "done"} \/ up[p].mode = "drop" => ~Tracked(p)
    /\ up[p].phase = "begun" => up[p].id # 0
    /\ up[p].phase = "sent" => \A m \in OpenId(up[p].id) : up[p].n \in DOMAIN m.parts
    /\ up[p].phase = "clear" => \A m \in OpenId(up[p].id) : m.id \in stray

(* Where the pass stands, a row belongs to a transfer or waits for one. *)
PlaceOk(p) ==
    /\ p \in Busy => /\ pc \notin {"idle", "flush"}
                     /\ pc = "resume" => p \notin todo
                     /\ pc \in {"claim", "confirm", "apply"} => [path |-> p, kind |-> "Upload"] \notin plan
                     /\ up[p].mode = "resume" => pc = "resume"
    /\ Tracked(p) => p \in Busy \/ pc = "idle" \/ (pc = "resume" /\ p \in todo)
    /\ pc = "resume" /\ p \in todo => Tracked(p)
    /\ pc = "repair" /\ p \in todo => EntriesAt(view, p) # {}

OneResumes == pc = "resume" => \A p, q \in Busy : p = q

OpenOk ==
    /\ \A m \in open : /\ DOMAIN m = {"id", "key", "parts"}
                       /\ m.id \in 1..uploads /\ m.key \in Path \X Content
    /\ \A m, k \in open : m.id = k.id => m = k

(* Every multipart in the store is named by a row or by a transfer, or is a
   fault's. *)
Names(p, i) == rows[p].id = i \/ (Unrecorded(p) /\ up[p].id = i)
NoneLost == \A m \in open : m.id \in stray \/ \E p \in Path : Names(p, m.id)

BookInv ==
    /\ \A p \in Path : RowOk(p) /\ PlaceOk(p)
    /\ OneResumes /\ OpenOk /\ NoneLost

PcState == {"idle", "resume", "claim", "confirm", "apply", "flush", "repair"}

(* The clocks of the entries, logged or about to be, have a bound: they are finite. *)
LogBounded == \E n \in Nat : \A e \in Entries(log) \cup deltas : e.lamport <= n

DataInv ==
    /\ files \in [Path -> Hash] /\ base \in [Path -> Hash]
    /\ clock \in Nat /\ remote \in Nat /\ uploads \in Nat
    /\ DOMAIN rows = Path /\ DOMAIN up = Path /\ pc \in PcState
    /\ view \subseteq Entry /\ deltas \subseteq Entry /\ Entries(log) \subseteq Entry
    /\ LogBounded
    /\ ops \subseteq [path : Path, hash : Hash]
    /\ DOMAIN objects \subseteq Path \X Content
    /\ todo \subseteq Path

IInv == DataInv /\ BookInv

LEMMA IInvSuffices == ASSUME IInv PROVE Consistent
  <1>1. TypeOK
    <2>1. \A p \in Path : /\ rows[p].id \in 0..uploads
                          /\ rows[p].hash \in Content \cup {None}
                          /\ rows[p].parts \subseteq Nat
      BY DEF IInv, DataInv, BookInv, RowOk, UploadRow, Hash
    <2>2. \A p \in Busy : up[p].mode # "drop" => {up[p].hash, up[p].src} \subseteq Content
      BY DEF IInv, BookInv, RowOk, Busy
    <2>3. \A m \in open : m.id \in 1..uploads /\ m.key \in Path \X Content
      BY DEF IInv, BookInv, OpenOk
    <2>4. QED
      BY <2>1, <2>2, <2>3 DEF IInv, DataInv, TypeOK, Hash
  <1>2. RowsAreHonest
    BY DEF IInv, BookInv, RowOk, RowsAreHonest
  <1>3. NothingLeaks
    <2> SUFFICES ASSUME pc = "idle", NEW m \in open, m.id \notin {rows[p].id : p \in Path}
                 PROVE  m.id \in stray
      BY DEF NothingLeaks, Untracked
    <2>1. PICK p \in Path : m.id \in stray \/ Names(p, m.id)
      <3>1. CASE m.id \in stray
        <4>1. \E p \in Path : TRUE
          BY DEF IInv, BookInv, OpenOk
        <4>2. QED
          BY <3>1, <4>1
      <3>2. QED
        BY <3>1 DEF IInv, BookInv, NoneLost
    <2>2. up[p].phase = "none"
      BY DEF IInv, BookInv, PlaceOk, Busy
    <2>3. QED
      BY <2>1, <2>2 DEF Names, Unrecorded
  <1>4. QED
    BY <1>1, <1>2, <1>3 DEF Consistent

LEMMA QuietRecord == Quiet \in TransferRecord
  BY DEF Quiet, TransferRecord, Phase, Hash

LEMMA NoRowIsRow == NoRow \in UploadRow
  BY DEF NoRow, UploadRow, Hash

LEMMA UploadInit == Init => IInv
  <1> SUFFICES ASSUME Init PROVE IInv
    OBVIOUS
  <1>1. files \in [Path -> Hash]
    BY WritesAssumption DEF Init, Hash
  <1>2. Entries(log) = {} /\ DOMAIN objects = {} /\ open = {}
    BY DEF Init, Entries
  <1>3. DataInv
    <2>1. LogBounded
      BY <1>2 DEF Init, LogBounded
    <2>2. QED
      BY <1>1, <1>2, <2>1 DEF Init, DataInv, PcState, Hash
  <1>4. \A p \in Path : rows[p] = NoRow /\ up[p] = Quiet /\ pc = "idle"
    BY DEF Init
  <1>5. \A p \in Path : RowOk(p)
    BY <1>2, <1>4, QuietRecord, NoRowIsRow
       DEF RowOk, NoRow, Quiet, Recorded, Tracked, OpenId, Init
  <1>6. \A p \in Path : PlaceOk(p)
    BY <1>4 DEF PlaceOk, Busy, Quiet, Tracked, NoRow
  <1>7. BookInv
    BY <1>2, <1>4, <1>5, <1>6 DEF Init, BookInv, OneResumes, OpenOk, NoneLost
  <1>8. QED
    BY <1>3, <1>7 DEF IInv

-----------------------------------------------------------------------------
(* The books: steps of one transfer. *)

(* What a step may do to the multiparts in the store: new ones have new ids,
   old ones keep their parts, and what a fault left open stays marked. *)
OpenSteps ==
    /\ uploads \in Nat /\ uploads' \in Nat /\ uploads <= uploads'
    /\ \A m \in open' : \/ m.id > uploads
                        \/ \E k \in open : k.id = m.id /\ DOMAIN k.parts \subseteq DOMAIN m.parts
    /\ \A m \in open' : m.id \in stray => m.id \in stray'

LEMMA RowRests ==
    ASSUME NEW q \in Path, RowOk(q), OpenSteps, rows'[q] = rows[q], up'[q] = up[q]
    PROVE  RowOk(q)'
  <1>1. \A i \in Nat : i <= uploads =>
           \A m \in OpenId(i)' : \E k \in OpenId(i) : DOMAIN k.parts \subseteq DOMAIN m.parts
    BY DEF OpenId, OpenSteps
  <1>2. rows[q].id \in Nat /\ up[q].id \in Nat /\ rows[q].id <= uploads /\ up[q].id <= uploads
    BY DEF RowOk, UploadRow, TransferRecord
  <1>3. rows'[q].id <= uploads' /\ up'[q].id <= uploads'
    BY <1>2 DEF OpenSteps
  <1>4. \A m \in OpenId(rows[q].id)' : rows[q].parts \subseteq DOMAIN m.parts
    BY <1>1, <1>2 DEF RowOk
  <1>5. up[q].phase = "sent" => \A m \in OpenId(up[q].id)' : up[q].n \in DOMAIN m.parts
    BY <1>1, <1>2 DEF RowOk
  <1>6. up[q].phase = "clear" => \A m \in OpenId(up[q].id)' : m.id \in stray'
    <2> SUFFICES ASSUME up[q].phase = "clear", NEW m \in OpenId(up[q].id)' PROVE m.id \in stray'
      OBVIOUS
    <2>1. m \in open' /\ m.id = up[q].id
      BY DEF OpenId
    <2>2. PICK k \in OpenId(up[q].id) : TRUE
      BY <1>1, <1>2
    <2>3. k.id = up[q].id /\ k.id \in stray
      BY <2>2 DEF RowOk, OpenId
    <2>4. QED
      BY <2>1, <2>3 DEF OpenSteps
  <1>7. QED
    BY <1>3, <1>4, <1>5, <1>6 DEF RowOk, Recorded, Tracked

(* No path leaves the pass's manifest. *)
ViewKeeps == \A q \in Path : EntriesAt(view, q) # {} => EntriesAt(view', q) # {}

LEMMA PlaceRests ==
    ASSUME NEW q \in Path, PlaceOk(q), UNCHANGED <<pc, todo, plan>>, ViewKeeps,
           rows'[q].id = rows[q].id, up'[q].phase = up[q].phase, up'[q].mode = up[q].mode
    PROVE  PlaceOk(q)'
  BY DEF PlaceOk, Busy, Tracked, ViewKeeps

(* The transfer of p moves on, with its row. *)
Moves(p) ==
    /\ \A q \in Path \ {p} : up'[q] = up[q] /\ rows'[q] = rows[q]
    /\ UNCHANGED <<pc, todo, plan>> /\ ViewKeeps

LEMMA TransferMoves ==
    ASSUME IInv, NEW p \in Path, p \in Busy, Moves(p), OpenSteps, OpenOk', RowOk(p)',
           up'[p].phase # "none" => up'[p].mode = up[p].mode,
           up'[p].phase = "none" => rows'[p].id = 0,
           \A m \in open' : (\E k \in open : k.id = m.id) \/ Names(p, m.id)',
           \A m \in open' : Names(p, m.id) => Names(p, m.id)' \/ m.id \in stray'
    PROVE  BookInv'
  <1>1. \A q \in Path \ {p} : RowOk(q)' /\ PlaceOk(q)'
    BY RowRests, PlaceRests DEF IInv, BookInv, Moves
  <1>2. PlaceOk(p)'
    BY DEF IInv, BookInv, PlaceOk, Busy, Tracked, Moves, ViewKeeps
  <1>3. OneResumes'
    <2>1. Busy' \subseteq Busy
      BY DEF Busy, Moves
    <2>2. QED
      BY <2>1 DEF IInv, BookInv, OneResumes, Moves
  <1>4. NoneLost'
    <2> SUFFICES ASSUME NEW m \in open', m.id \notin stray' PROVE \E q \in Path : Names(q, m.id)'
      BY DEF NoneLost
    <2>1. CASE Names(p, m.id)'
      BY <2>1
    <2>2. CASE ~Names(p, m.id)'
      <3>1. PICK k \in open : k.id = m.id
        BY <2>2
      <3>2. k.id \notin stray
        BY <3>1 DEF OpenSteps
      <3>3. PICK q \in Path : Names(q, m.id)
        BY <3>1, <3>2 DEF IInv, BookInv, NoneLost
      <3>4. q # p
        BY <2>2, <3>3
      <3>5. Names(q, m.id)'
        BY <3>3, <3>4 DEF Names, Unrecorded, Moves
      <3>6. QED
        BY <3>5
    <2>3. QED
      BY <2>1, <2>2
  <1>5. QED
    BY <1>1, <1>2, <1>3, <1>4 DEF BookInv

(* What is known of a transfer. *)
LEMMA Facts ==
    ASSUME IInv, NEW p \in Path
    PROVE  /\ RowOk(p) /\ PlaceOk(p) /\ up[p] \in TransferRecord /\ rows[p] \in UploadRow
           /\ DOMAIN up = Path /\ DOMAIN rows = Path /\ uploads \in Nat /\ OpenOk
  BY DEF IInv, BookInv, DataInv, RowOk

(* The store and the books are left alone. *)
LEMMA StoreRests ==
    ASSUME IInv, UNCHANGED <<open, uploads, stray>>
    PROVE  OpenSteps /\ OpenOk' /\ \A m \in open' : \E k \in open : k.id = m.id
  <1>1. OpenOk /\ uploads \in Nat
    BY DEF IInv, BookInv, DataInv
  <1>2. OpenSteps
    BY <1>1 DEF OpenSteps
  <1>3. QED
    BY <1>1, <1>2 DEF OpenOk

(* One multipart goes; what is left was there. *)
LEMMA StoreShrinks ==
    ASSUME IInv, open' \subseteq open, uploads' = uploads, stray \subseteq stray'
    PROVE  OpenSteps /\ OpenOk' /\ \A m \in open' : \E k \in open : k.id = m.id
  <1>1. OpenOk /\ uploads \in Nat
    BY DEF IInv, BookInv, DataInv
  <1>2. OpenSteps
    BY <1>1 DEF OpenSteps
  <1>3. QED
    BY <1>1, <1>2 DEF OpenOk

-----------------------------------------------------------------------------
(* Steps of a transfer that leave the store alone. *)

LEMMA MovesBy ==
    ASSUME IInv, NEW p \in Path, NEW t, Step(p, t), rows' = rows, UNCHANGED pass
    PROVE  Moves(p) /\ up'[p] = t
  BY Facts DEF Step, Moves, pass, ViewKeeps

LEMMA SkipPartBooks == ASSUME IInv, NEW p \in Path, SkipPart(p) PROVE BookInv'
  <1> DEFINE t == [up[p] EXCEPT !.n = @ + 1]
  <1>1. up[p].phase = "send" /\ Step(p, t) /\ rows' = rows /\ UNCHANGED pass
        /\ UNCHANGED <<open, uploads, stray>>
    BY DEF SkipPart, Reading, Only, local, store, ghosts
  <1>2. /\ t.phase = "send" /\ t.mode = up[p].mode /\ t.id = up[p].id /\ t.hash = up[p].hash
        /\ t.src = up[p].src /\ t \in TransferRecord
    BY <1>1, Facts DEF TransferRecord
  <1> HIDE DEF t
  <1>3. Moves(p) /\ up'[p] = t /\ rows'[p] = rows[p]
    BY <1>1, MovesBy
  <1>4. RowOk(p)'
    BY <1>1, <1>2, <1>3, Facts DEF RowOk, Recorded, Tracked, OpenId
  <1>5. p \in Busy
    BY <1>1 DEF Busy
  <1>6. QED
    BY <1>1, <1>2, <1>3, <1>4, <1>5, StoreRests, TransferMoves DEF Names, Unrecorded

LEMMA LastPartBooks == ASSUME IInv, NEW p \in Path, LastPart(p) PROVE BookInv'
  <1>1. PICK t : /\ t = [up[p] EXCEPT !.phase = "finish"]
                    \/ t = [up[p] EXCEPT !.phase = "abort", !.fate = "failed"]
                 /\ Only(p, t)
    BY DEF LastPart
  <1>2. up[p].phase = "send" /\ Step(p, t) /\ rows' = rows /\ UNCHANGED pass
        /\ UNCHANGED <<open, uploads, stray>>
    BY <1>1 DEF LastPart, Only, local, store, ghosts
  <1>3. /\ t.phase \in {"finish", "abort"} /\ t.mode = up[p].mode /\ t.id = up[p].id
        /\ t.hash = up[p].hash /\ t.src = up[p].src /\ t \in TransferRecord
    BY <1>1, <1>2, Facts DEF TransferRecord, Phase
  <1>4. Moves(p) /\ up'[p] = t /\ rows'[p] = rows[p]
    BY <1>2, MovesBy
  <1>5. RowOk(p)'
    BY <1>2, <1>3, <1>4, Facts DEF RowOk, Recorded, Tracked, OpenId
  <1>6. p \in Busy
    BY <1>2 DEF Busy
  <1>7. QED
    BY <1>2, <1>3, <1>4, <1>5, <1>6, StoreRests, TransferMoves DEF Names, Unrecorded

LEMMA PutBytesBooks == ASSUME IInv, NEW p \in Path, PutBytes(p) PROVE BookInv'
  <1>1. PICK t : (t = [up[p] EXCEPT !.phase = "done"] \/ t = Quiet) /\ Step(p, t)
    BY DEF PutBytes
  <1>2. /\ up[p].phase = "hashed" /\ rows' = rows /\ UNCHANGED pass /\ uploads' = uploads + 1
        /\ UNCHANGED <<open, stray>>
    BY DEF PutBytes, local
  <1>3. /\ t.phase = "done" /\ t.mode = up[p].mode /\ t.id = up[p].id /\ t.hash = up[p].hash
           /\ t.src = up[p].src
        \/ t = Quiet
    BY <1>1, Facts DEF TransferRecord
  <1>4. t \in TransferRecord
    BY <1>1, QuietRecord, Facts DEF TransferRecord, Phase
  <1>5. Moves(p) /\ up'[p] = t /\ rows'[p] = rows[p]
    BY <1>1, <1>2, MovesBy
  <1>6. RowOk(p)'
    <2>1. rows[p].id <= uploads' /\ up[p].id <= uploads' /\ 0 <= uploads'
      BY <1>2, Facts DEF RowOk, UploadRow, TransferRecord
    <2>2. OpenId(rows[p].id)' = OpenId(rows[p].id)
      BY <1>2, <1>5 DEF OpenId
    <2>3. CASE t = Quiet
      <3>1. t.phase = "none" /\ t.mode = "none" /\ t.id = 0
        BY <2>3 DEF Quiet
      <3>2. QED
        BY <1>4, <1>5, <2>1, <2>2, <3>1, Facts DEF RowOk, Recorded, Tracked
    <2>4. CASE t # Quiet
      <3>1. t.phase = "done" /\ t.mode = up[p].mode /\ t.id = up[p].id /\ t.hash = up[p].hash
            /\ t.src = up[p].src
        BY <1>3, <2>4
      <3>2. QED
        BY <1>2, <1>4, <1>5, <2>1, <2>2, <3>1, Facts DEF RowOk, Recorded, Tracked
    <2>5. QED
      BY <2>3, <2>4
  <1>7. p \in Busy
    BY <1>2 DEF Busy
  <1>8. OpenSteps /\ OpenOk'
    BY <1>2, Facts DEF OpenSteps, OpenOk
  <1>9. rows[p].id = 0
    BY <1>2, Facts DEF RowOk, Tracked
  <1>10. QED
    BY <1>2, <1>3, <1>5, <1>6, <1>7, <1>8, <1>9, TransferMoves DEF Names, Unrecorded, Quiet

LEMMA RecordStartBooks == ASSUME IInv, NEW p \in Path, RecordStart(p) PROVE BookInv'
  <1> DEFINE t == [up[p] EXCEPT !.phase = "send", !.n = 1]
             r == [rows[p] EXCEPT !.id = up[p].id, !.hash = up[p].hash]
  <1>1. /\ up[p].phase = "begun" /\ Step(p, t) /\ rows' = [rows EXCEPT ![p] = r] /\ UNCHANGED pass
        /\ UNCHANGED <<open, uploads, stray>>
    BY DEF RecordStart, store, ghosts
  <1>2. /\ t.phase = "send" /\ t.mode = up[p].mode /\ t.id = up[p].id /\ t.hash = up[p].hash
        /\ t.src = up[p].src /\ t \in TransferRecord
    BY <1>1, Facts DEF TransferRecord, Phase
  <1>3. r.id = up[p].id /\ r.hash = up[p].hash /\ r.parts = rows[p].parts /\ r \in UploadRow
    BY Facts DEF UploadRow, TransferRecord
  <1> HIDE DEF t, r
  <1>4. Moves(p) /\ up'[p] = t /\ rows'[p] = r
    BY <1>1, Facts DEF Step, Moves, pass, ViewKeeps
  <1>5. ~Tracked(p) /\ rows[p].parts = {} /\ up[p].id # 0
    <2>1. ~Tracked(p) /\ rows[p].parts = {}
      BY <1>1, Facts DEF RowOk
    <2>2. up[p].id # 0
      BY <1>1, Facts DEF RowOk
    <2>3. QED
      BY <2>1, <2>2
  <1>6. RowOk(p)'
    BY <1>1, <1>2, <1>3, <1>4, <1>5, Facts DEF RowOk, Recorded, Tracked, OpenId
  <1>7. p \in Busy
    BY <1>1 DEF Busy
  <1>8. \A m \in open' : Names(p, m.id) => Names(p, m.id)'
    <2>1. \A m \in open' : m.id # 0
      BY <1>1, Facts DEF OpenOk
    <2>2. QED
      BY <1>1, <1>3, <1>4, <1>5, <2>1 DEF Names, Unrecorded, Tracked
  <1>9. QED
    BY <1>1, <1>2, <1>4, <1>6, <1>7, <1>8, StoreRests, TransferMoves

LEMMA RecordPartBooks == ASSUME IInv, NEW p \in Path, RecordPart(p) PROVE BookInv'
  <1> DEFINE t == [up[p] EXCEPT !.phase = "send", !.n = @ + 1, !.sent = @ \cup {up[p].n}]
             r == [rows[p] EXCEPT !.parts = @ \cup {up[p].n}]
  <1>1. /\ up[p].phase = "sent" /\ Step(p, t) /\ UNCHANGED pass
        /\ UNCHANGED <<open, uploads, stray>>
    BY DEF RecordPart, store, ghosts
  <1>2. rows' = [rows EXCEPT ![p] = r]
    BY Facts DEF RecordPart, UploadRow
  <1>3. /\ t.phase = "send" /\ t.mode = up[p].mode /\ t.id = up[p].id /\ t.hash = up[p].hash
        /\ t.src = up[p].src /\ t \in TransferRecord
    <2>1. up[p] \in TransferRecord
      BY Facts
    <2>2. up[p].sent \cup {up[p].n} \in SUBSET Nat /\ up[p].n + 1 \in Nat /\ "send" \in Phase
      BY <2>1 DEF TransferRecord, Phase
    <2>3. QED
      BY <2>1, <2>2 DEF TransferRecord
  <1>4. /\ r.id = rows[p].id /\ r.hash = rows[p].hash /\ r.parts = rows[p].parts \cup {up[p].n}
        /\ r \in UploadRow
    BY Facts DEF UploadRow, TransferRecord
  <1> HIDE DEF t, r
  <1>5. Moves(p) /\ up'[p] = t /\ rows'[p] = r
    BY <1>1, <1>2, Facts DEF Step, Moves, pass, ViewKeeps
  <1>6. Tracked(p) /\ rows[p].id = up[p].id
    BY <1>1, Facts DEF RowOk, Recorded
  <1>7. \A m \in OpenId(rows[p].id) : r.parts \subseteq DOMAIN m.parts
    BY <1>1, <1>4, <1>6, Facts DEF RowOk
  <1>8. RowOk(p)'
    BY <1>1, <1>3, <1>4, <1>5, <1>6, <1>7, Facts DEF RowOk, Recorded, Tracked, OpenId
  <1>9. p \in Busy
    BY <1>1 DEF Busy
  <1>10. QED
    BY <1>1, <1>3, <1>4, <1>5, <1>6, <1>8, <1>9, StoreRests, TransferMoves
       DEF Names, Unrecorded, Tracked

-----------------------------------------------------------------------------
(* Steps of a transfer on its multipart. *)

LEMMA BeginPutBooks == ASSUME IInv, NEW p \in Path, BeginPut(p) PROVE BookInv'
  <1> DEFINE t == [up[p] EXCEPT !.phase = "begun", !.id = uploads']
             m0 == [id |-> uploads', key |-> Key(p, up[p].hash), parts |-> <<>>]
  <1>1. /\ up[p].phase = "hashed" /\ Step(p, t) /\ rows' = rows /\ UNCHANGED pass
        /\ uploads' = uploads + 1 /\ open' = open \cup {m0} /\ stray' = stray
    BY DEF BeginPut, local, ghosts
  <1>2. uploads \in Nat /\ uploads' \in Nat /\ uploads' # 0 /\ uploads < uploads'
    BY <1>1, Facts
  <1>3. /\ t.phase = "begun" /\ t.mode = up[p].mode /\ t.id = uploads' /\ t.hash = up[p].hash
        /\ t.src = up[p].src /\ t \in TransferRecord
    BY <1>1, <1>2, Facts DEF TransferRecord, Phase
  <1>4. m0.id = uploads' /\ DOMAIN m0 = {"id", "key", "parts"} /\ m0.key \in Path \X Content
    <2>1. up[p].hash \in Content
      BY <1>1, Facts DEF RowOk
    <2>2. QED
      BY <2>1 DEF Key
  <1> HIDE DEF t, m0
  <1>5. Moves(p) /\ up'[p] = t /\ rows'[p] = rows[p]
    BY <1>1, MovesBy
  <1>6. \A m \in open : m.id \in 1..uploads
    BY Facts DEF OpenOk
  <1>7. OpenSteps
    BY <1>1, <1>2, <1>4 DEF OpenSteps
  <1>8. OpenOk'
    <2>1. OpenOk
      BY Facts
    <2>2. \A m \in open' : m \in open \/ m = m0
      BY <1>1
    <2>3. \A m \in open' : DOMAIN m = {"id", "key", "parts"} /\ m.id \in 1..uploads'
                           /\ m.key \in Path \X Content
      BY <1>2, <1>4, <2>1, <2>2 DEF OpenOk
    <2>4. \A m, k \in open' : m.id = k.id => m = k
      BY <1>2, <1>4, <1>6, <2>1, <2>2 DEF OpenOk
    <2>5. QED
      BY <2>3, <2>4 DEF OpenOk
  <1>9. ~Tracked(p) /\ rows[p].id = 0 /\ rows[p].parts = {}
    BY <1>1, Facts DEF RowOk, Tracked
  <1>10. RowOk(p)'
    <2>1. up[p].mode # "drop"
      BY <1>1, Facts DEF RowOk
    <2>2. OpenId(rows[p].id)' = {}
      BY <1>1, <1>2, <1>4, <1>5, <1>6, <1>9 DEF OpenId
    <2>3. QED
      BY <1>1, <1>2, <1>3, <1>5, <1>9, <2>1, <2>2, Facts DEF RowOk, Recorded, Tracked
  <1>11. p \in Busy
    BY <1>1 DEF Busy
  <1>12. \A m \in open' : (\E k \in open : k.id = m.id) \/ Names(p, m.id)'
    BY <1>1, <1>3, <1>4, <1>5 DEF Names, Unrecorded
  <1>13. \A m \in open' : Names(p, m.id) => Names(p, m.id)'
    BY <1>1, <1>3, <1>5 DEF Names, Unrecorded
  <1>14. QED
    BY <1>3, <1>5, <1>7, <1>8, <1>10, <1>11, <1>12, <1>13, TransferMoves

LEMMA WritePartBooks == ASSUME IInv, NEW p \in Path, WritePart(p) PROVE BookInv'
  <1>1. /\ up[p].phase = "send" /\ rows' = rows /\ UNCHANGED pass
        /\ UNCHANGED <<uploads, stray>>
    BY DEF WritePart, Reading, local, ghosts
  <1>2. p \in Busy
    BY <1>1 DEF Busy
  <1>3. Tracked(p) /\ rows[p].id = up[p].id
    BY <1>1, Facts DEF RowOk, Recorded
  <1>4. CASE OpenId(up[p].id) = {} /\ open' = open
             /\ Step(p, [up[p] EXCEPT !.phase = "abort", !.fate = "gone"])
    <2>1. PICK t : t = [up[p] EXCEPT !.phase = "abort", !.fate = "gone"]
      OBVIOUS
    <2>2. Step(p, t)
      BY <1>4, <2>1
    <2>3. /\ t.phase = "abort" /\ t.mode = up[p].mode /\ t.id = up[p].id
          /\ t.hash = up[p].hash /\ t.src = up[p].src /\ t \in TransferRecord
      BY <1>1, <2>1, Facts DEF TransferRecord, Phase
    <2>4. Moves(p) /\ up'[p] = t /\ rows'[p] = rows[p]
      BY <1>1, <2>2, MovesBy
    <2>5. RowOk(p)'
      BY <1>1, <1>3, <1>4, <2>3, <2>4, Facts DEF RowOk, Recorded, Tracked, OpenId
    <2>6. QED
      BY <1>1, <1>2, <1>4, <2>3, <2>4, <2>5, StoreRests, TransferMoves DEF Names, Unrecorded
  <1>5. ASSUME NEW m \in OpenId(up[p].id), NEW part,
               open' = (open \ {m}) \cup {PutPart(m, up[p].n, part)},
               Step(p, [up[p] EXCEPT !.phase = "sent"])
        PROVE  BookInv'
    <2>1. PICK t : t = [up[p] EXCEPT !.phase = "sent"]
      OBVIOUS
    <2>2. Step(p, t)
      BY <1>5, <2>1
    <2>3. /\ t.phase = "sent" /\ t.mode = up[p].mode /\ t.id = up[p].id /\ t.n = up[p].n
          /\ t.hash = up[p].hash /\ t.src = up[p].src /\ t \in TransferRecord
      BY <1>1, <2>1, Facts DEF TransferRecord, Phase
    <2>4. Moves(p) /\ up'[p] = t /\ rows'[p] = rows[p]
      BY <1>1, <2>2, MovesBy
    <2>5. m \in open /\ m.id = up[p].id /\ DOMAIN m = {"id", "key", "parts"}
      BY Facts DEF OpenId, OpenOk
    <2>6. PICK k : k = PutPart(m, up[p].n, part)
      OBVIOUS
    <2>7. /\ k.id = m.id /\ k.key = m.key /\ DOMAIN k = {"id", "key", "parts"}
          /\ DOMAIN k.parts = DOMAIN m.parts \cup {up[p].n}
      BY <2>5, <2>6 DEF PutPart
    <2>8. open' = (open \ {m}) \cup {k}
      BY <1>5, <2>6
    <2>9. OpenOk
      BY Facts
    <2>10. OpenSteps
      BY <1>1, <2>5, <2>7, <2>8, Facts DEF OpenSteps
    <2>11. OpenOk'
      <3>1. \A x \in open' : x = k \/ (x \in open /\ x # m)
        BY <2>8
      <3>2. \A x \in open' : /\ DOMAIN x = {"id", "key", "parts"}
                             /\ x.id \in 1..uploads' /\ x.key \in Path \X Content
        BY <1>1, <2>5, <2>7, <2>9, <3>1 DEF OpenOk
      <3>3. \A x, y \in open' : x.id = y.id => x = y
        BY <2>5, <2>7, <2>9, <3>1 DEF OpenOk
      <3>4. QED
        BY <3>2, <3>3 DEF OpenOk
    <2>12. OpenId(rows[p].id)' = {k} /\ OpenId(up[p].id)' = {k}
      <3>1. \A x \in open' : x.id = m.id => x = k
        BY <2>5, <2>7, <2>8, <2>9 DEF OpenOk
      <3>2. k \in open'
        BY <2>8
      <3>3. rows'[p].id = m.id /\ up'[p].id = m.id
        BY <1>3, <2>3, <2>4, <2>5
      <3>4. \A i : i = m.id => {x \in open' : x.id = i} = {k}
        BY <2>7, <3>1, <3>2
      <3>5. QED
        BY <3>3, <3>4 DEF OpenId
    <2>13. rows[p].parts \subseteq DOMAIN k.parts /\ up[p].n \in DOMAIN k.parts
      BY <1>3, <2>7, Facts DEF RowOk
    <2>14. RowOk(p)'
      BY <1>1, <1>3, <2>3, <2>4, <2>12, <2>13, Facts DEF RowOk, Recorded, Tracked
    <2>15. \A x \in open' : \E y \in open : y.id = x.id
      BY <2>5, <2>7, <2>8
    <2>16. QED
      BY <1>1, <1>2, <2>3, <2>4, <2>10, <2>11, <2>14, <2>15, TransferMoves DEF Names, Unrecorded
  <1>6. QED
    BY <1>4, <1>5 DEF WritePart

LEMMA FinishPutBooks == ASSUME IInv, NEW p \in Path, FinishPut(p) PROVE BookInv'
  <1>1. PICK t : /\ \/ t = [up[p] EXCEPT !.phase = "clear"]
                    \/ t = [up[p] EXCEPT !.phase = "clear", !.fate = "gone"]
                 /\ Step(p, t)
    BY DEF FinishPut
  <1>2. /\ up[p].phase = "finish" /\ rows' = rows /\ UNCHANGED pass
        /\ uploads' = uploads /\ stray' = stray /\ open' = open \ OpenId(up[p].id)
    BY DEF FinishPut, local
  <1>3. /\ t.phase = "clear" /\ t.mode = up[p].mode /\ t.id = up[p].id /\ t.hash = up[p].hash
        /\ t.src = up[p].src /\ t \in TransferRecord
    BY <1>1, <1>2, Facts DEF TransferRecord, Phase
  <1>4. Moves(p) /\ up'[p] = t /\ rows'[p] = rows[p]
    BY <1>1, <1>2, MovesBy
  <1>5. Tracked(p) /\ rows[p].id = up[p].id
    BY <1>2, Facts DEF RowOk, Recorded
  <1>6. \A m \in open' : m.id # up[p].id
    BY <1>2 DEF OpenId
  <1>7. RowOk(p)'
    BY <1>2, <1>3, <1>4, <1>5, <1>6, Facts DEF RowOk, Recorded, Tracked, OpenId
  <1>8. p \in Busy
    BY <1>2 DEF Busy
  <1>9. QED
    BY <1>2, <1>3, <1>4, <1>7, <1>8, StoreShrinks, TransferMoves DEF Names, Unrecorded

LEMMA AbortPutBooks == ASSUME IInv, NEW p \in Path, AbortPut(p) PROVE BookInv'
  <1>1. PICK t : /\ \/ up[p].mode = "drop" /\ t = Quiet
                    \/ up[p].mode # "drop" /\ t = [up[p] EXCEPT !.phase = "clear"]
                 /\ Step(p, t)
    BY DEF AbortPut
  <1>2. /\ up[p].phase = "abort" /\ rows' = rows /\ UNCHANGED pass
        /\ uploads' = uploads /\ stray' = stray /\ open' = open \ OpenId(up[p].id)
    BY DEF AbortPut, local, ghosts
  <1>3. Moves(p) /\ up'[p] = t /\ rows'[p] = rows[p]
    BY <1>1, <1>2, MovesBy
  <1>4. p \in Busy
    BY <1>2 DEF Busy
  <1>5. \A m \in open' : m.id # up[p].id
    BY <1>2 DEF OpenId
  <1>6. \A m \in open' : Names(p, m.id) => Names(p, m.id)'
    BY <1>2, <1>3, <1>5 DEF Names, Unrecorded
  <1>7. OpenSteps /\ OpenOk' /\ \A m \in open' : \E k \in open : k.id = m.id
    BY <1>2, StoreShrinks
  <1>8. CASE up[p].mode = "drop" /\ t = Quiet
    <2>1. t.phase = "none" /\ t.id = 0 /\ t.mode = "none" /\ t \in TransferRecord
      BY <1>8, QuietRecord DEF Quiet
    <2>2. ~Tracked(p) /\ rows[p].id = 0
      BY <1>8, Facts DEF RowOk, Tracked
    <2>3. RowOk(p)'
      BY <1>2, <1>3, <2>1, <2>2, Facts DEF RowOk, Recorded, Tracked, OpenId
    <2>4. QED
      BY <1>3, <1>4, <1>6, <1>7, <2>1, <2>2, <2>3, TransferMoves
  <1>9. CASE up[p].mode # "drop" /\ t = [up[p] EXCEPT !.phase = "clear"]
    <2>1. /\ t.phase = "clear" /\ t.mode = up[p].mode /\ t.id = up[p].id
          /\ t.hash = up[p].hash /\ t.src = up[p].src /\ t \in TransferRecord
      BY <1>2, <1>9, Facts DEF TransferRecord, Phase
    <2>2. Tracked(p) /\ rows[p].id = up[p].id
      BY <1>2, <1>9, Facts DEF RowOk, Recorded
    <2>3. RowOk(p)'
      BY <1>2, <1>3, <1>5, <1>9, <2>1, <2>2, Facts DEF RowOk, Recorded, Tracked, OpenId
    <2>4. QED
      BY <1>3, <1>4, <1>6, <1>7, <2>1, <2>3, TransferMoves
  <1>10. QED
    BY <1>1, <1>8, <1>9

(* The pass joins a transfer that is done. *)
LEMMA JoinBooks == ASSUME IInv, NEW p \in Path, Join(p) PROVE BookInv'
  <1>1. up[p].phase = "done" /\ Step(p, Quiet) /\ UNCHANGED <<rows, pc, todo, plan>>
        /\ UNCHANGED <<open, uploads, stray>>
    BY DEF Join, local, store, ghosts
  <1>2. ViewKeeps
    <2>1. view' = view \/ view' = Insert(view, NewDelta(p, up[p].hash, FALSE))
      BY DEF Join
    <2>2. CASE view' = Insert(view, NewDelta(p, up[p].hash, FALSE))
      <3>1. \A q \in Path : q # p => EntriesAt(view', q) = EntriesAt(view, q)
        BY <2>2 DEF Insert, EntriesAt, NewDelta
      <3>2. NewDelta(p, up[p].hash, FALSE) \in EntriesAt(view', p)
        BY <2>2 DEF Insert, EntriesAt, NewDelta
      <3>3. QED
        BY <3>1, <3>2 DEF ViewKeeps
    <2>3. QED
      BY <2>1, <2>2 DEF ViewKeeps
  <1>3. Moves(p) /\ up'[p] = Quiet /\ rows'[p] = rows[p]
    BY <1>1, <1>2, Facts DEF Moves, Step
  <1>4. /\ Quiet.phase = "none" /\ Quiet.id = 0 /\ Quiet.mode = "none"
        /\ Quiet \in TransferRecord
    BY QuietRecord DEF Quiet
  <1>5. ~Tracked(p) /\ rows[p].id = 0
    BY <1>1, Facts DEF RowOk, Tracked
  <1>6. RowOk(p)'
    BY <1>1, <1>3, <1>4, <1>5, Facts DEF RowOk, Recorded, Tracked, OpenId
  <1>7. p \in Busy
    BY <1>1 DEF Busy
  <1>8. QED
    BY <1>1, <1>3, <1>4, <1>5, <1>6, <1>7, StoreRests, TransferMoves DEF Names, Unrecorded

-----------------------------------------------------------------------------
(* A pass ends: what it had in memory is gone. *)

LEMMA QuietRow ==
    ASSUME IInv, NEW q \in Path, OpenSteps, up'[q] = Quiet, rows'[q] \in {rows[q], NoRow}
    PROVE  RowOk(q)'
  <1>1. /\ Quiet.phase = "none" /\ Quiet.id = 0 /\ Quiet.mode = "none"
        /\ Quiet \in TransferRecord
    BY QuietRecord DEF Quiet
  <1>2. /\ NoRow.id = 0 /\ NoRow.parts = {} /\ NoRow \in UploadRow
    BY NoRowIsRow DEF NoRow
  <1>3. uploads' \in Nat /\ 0 <= uploads'
    BY DEF OpenSteps
  <1>4. CASE rows'[q] = NoRow
    BY <1>1, <1>2, <1>3, <1>4 DEF RowOk, Recorded, Tracked
  <1>5. CASE rows'[q] = rows[q]
    <2>1. RowOk(q) /\ rows[q].id \in Nat /\ rows[q].id <= uploads
      BY Facts DEF RowOk, UploadRow
    <2>2. rows[q].id <= uploads'
      BY <2>1 DEF OpenSteps
    <2>3. \A m \in open' : m.id = rows[q].id =>
             \E k \in OpenId(rows[q].id) : DOMAIN k.parts \subseteq DOMAIN m.parts
      BY <2>1 DEF OpenSteps, OpenId
    <2>4. \A m \in open' : m.id = rows[q].id => rows[q].parts \subseteq DOMAIN m.parts
      BY <2>1, <2>3 DEF RowOk
    <2>5. QED
      BY <1>1, <1>3, <1>5, <2>1, <2>2, <2>4 DEF RowOk, Recorded, Tracked, OpenId
  <1>6. QED
    BY <1>4, <1>5

LEMMA ForgetBooks ==
    ASSUME IInv, Forget, OpenSteps, OpenOk', \A q \in Path : rows'[q] \in {rows[q], NoRow},
           \A m \in open' : m.id \in stray' \/ \E q \in Path : rows'[q].id = m.id
    PROVE  BookInv'
  <1>1. pc' = "idle" /\ \A q \in Path : up'[q] = Quiet
    BY DEF Forget
  <1>2. \A q \in Path : RowOk(q)'
    BY <1>1, QuietRow
  <1>3. Busy' = {}
    BY <1>1 DEF Busy, Quiet
  <1>4. \A q \in Path : PlaceOk(q)'
    BY <1>1, <1>3 DEF PlaceOk
  <1>5. QED
    BY <1>1, <1>2, <1>3, <1>4 DEF BookInv, OneResumes, NoneLost, Names

(* With no transfer under way, no multipart but a fault's is without its row. *)
LEMMA IdleBooks ==
    ASSUME IInv, Busy = {}, NEW m \in open
    PROVE  m.id \in stray \/ \E q \in Path : rows[q].id = m.id
  <1>1. \A q \in Path : ~Unrecorded(q)
    BY DEF Busy, Unrecorded
  <1>2. QED
    BY <1>1 DEF IInv, BookInv, NoneLost, Names

LEMMA ForgetIdleBooks ==
    ASSUME IInv, Busy = {}, Forget, UNCHANGED <<rows, open, uploads, stray>>
    PROVE  BookInv'
  BY IdleBooks, StoreRests, ForgetBooks

LEMMA FinishBooks == ASSUME IInv, Finish PROVE BookInv'
  <1>1. Busy = {}
    BY DEF Finish, IInv, BookInv, PlaceOk, Busy
  <1>2. QED
    BY <1>1, ForgetIdleBooks DEF Finish, store, ghosts

LEMMA RepairDoneBooks == ASSUME IInv, RepairDone PROVE BookInv'
  BY ForgetIdleBooks DEF RepairDone, local, store, ghosts

LEMMA AbortBooks == ASSUME IInv, Abort PROVE BookInv'
  <1>1. /\ Forget /\ rows' = rows /\ uploads' = uploads /\ open' \subseteq open
        /\ stray' = stray \cup ({m.id : m \in open'} \ {rows[p].id : p \in Path})
    BY DEF Abort, local
  <1>2. OpenSteps /\ OpenOk'
    BY <1>1, StoreShrinks
  <1>3. \A m \in open' : m.id \in stray' \/ \E q \in Path : rows'[q].id = m.id
    BY <1>1
  <1>4. QED
    BY <1>1, <1>2, <1>3, ForgetBooks

LEMMA ClearUploadBooks == ASSUME IInv, NEW p \in Path, ClearUpload(p) PROVE BookInv'
  <1>1. /\ up[p].phase = "clear" /\ rows' = [rows EXCEPT ![p] = NoRow]
        /\ UNCHANGED <<open, uploads, stray>>
    BY DEF ClearUpload, store, ghosts
  <1>2. rows'[p] = NoRow /\ \A q \in Path \ {p} : rows'[q] = rows[q]
    BY <1>1, Facts
  <1>3. Tracked(p) /\ rows[p].id = up[p].id
    BY <1>1, Facts DEF RowOk, Recorded
  <1>4. \A m \in open : m.id = rows[p].id => m.id \in stray
    BY <1>1, <1>3, Facts DEF RowOk, OpenId
  <1>5. p \in Busy
    BY <1>1 DEF Busy
  <1>6. OpenSteps /\ OpenOk' /\ \A m \in open' : \E k \in open : k.id = m.id
    BY <1>1, StoreRests
  <1>7. NoRow.id = 0 /\ NoRow.parts = {} /\ NoRow \in UploadRow
    BY NoRowIsRow DEF NoRow
  <1>8. CASE Forget /\ up[p].mode = "resume"
    <2>1. Busy = {p}
      BY <1>5, <1>8 DEF IInv, BookInv, PlaceOk, OneResumes, Busy
    <2>2. \A q \in Path : ~Unrecorded(q)
      BY <1>1, <2>1 DEF Busy, Unrecorded
    <2>3. \A m \in open : m.id \in stray \/ \E q \in Path : rows[q].id = m.id
      BY <2>2 DEF IInv, BookInv, NoneLost, Names
    <2>4. \A m \in open' : m.id \in stray' \/ \E q \in Path : rows'[q].id = m.id
      BY <1>1, <1>2, <1>4, <2>3
    <2>5. QED
      BY <1>2, <1>6, <1>8, <2>4, ForgetBooks
  <1>9. ASSUME NEW t, Step(p, t), UNCHANGED pass,
               t = [up[p] EXCEPT !.phase = "done"] \/ t = Quiet
        PROVE  BookInv'
    <2>1. Moves(p) /\ up'[p] = t
      BY <1>2, <1>9, Facts DEF Step, Moves, pass, ViewKeeps
    <2>2. \/ /\ t.phase = "done" /\ t.mode = up[p].mode /\ t.hash = up[p].hash
             /\ t.src = up[p].src /\ t.id = up[p].id
          \/ t.phase = "none" /\ t.mode = "none" /\ t.id = 0
      BY <1>9, Facts DEF Quiet, TransferRecord
    <2>3. t \in TransferRecord
      BY <1>9, QuietRecord, Facts DEF TransferRecord, Phase
    <2>4. up[p].mode # "drop"
      BY <1>1, Facts DEF RowOk
    <2>5. t.id <= uploads' /\ 0 <= uploads'
      BY <1>1, <2>2, Facts DEF RowOk
    <2>6. t.phase # "none" => t.hash \in Content /\ t.src \in Content
      BY <1>1, <2>2, <2>4, Facts DEF RowOk
    <2>7. t.phase \in {"none", "done"} /\ t.mode # "drop"
      BY <2>2, <2>4
    <2>8. RowOk(p)'
      BY <1>2, <1>7, <2>1, <2>3, <2>5, <2>6, <2>7 DEF RowOk, Recorded, Tracked
    <2>9. \A m \in open' : Names(p, m.id) => m.id \in stray'
      BY <1>1, <1>4 DEF Names, Unrecorded
    <2>10. QED
      BY <1>2, <1>5, <1>6, <1>7, <2>1, <2>2, <2>8, <2>9, TransferMoves
  <1>10. QED
    BY <1>8, <1>9 DEF ClearUpload, AfterClear

LEMMA RequestFailsBooks == ASSUME IInv, NEW p \in Path, RequestFails(p) PROVE BookInv'
  <1>1. rows' = rows /\ UNCHANGED pass /\ uploads' = uploads
    BY DEF RequestFails, local
  <1>2. CASE /\ up[p].phase = "hashed" /\ Step(p, Quiet) /\ UNCHANGED <<open, stray>>
    <2>1. Moves(p) /\ up'[p] = Quiet /\ rows'[p] = rows[p] /\ p \in Busy
      BY <1>1, <1>2, MovesBy DEF Busy
    <2>2. /\ Quiet.phase = "none" /\ Quiet.id = 0 /\ Quiet.mode = "none"
          /\ Quiet \in TransferRecord
      BY QuietRecord DEF Quiet
    <2>3. ~Tracked(p) /\ rows[p].id = 0
      BY <1>2, Facts DEF RowOk, Tracked
    <2>4. RowOk(p)'
      BY <1>1, <1>2, <2>1, <2>2, <2>3, Facts DEF RowOk, Recorded, Tracked, OpenId
    <2>5. QED
      BY <1>1, <1>2, <2>1, <2>2, <2>3, <2>4, StoreRests, TransferMoves DEF Names, Unrecorded
  <1>3. ASSUME Recorded(p), NEW t, Step(p, t), t \in TransferRecord,
               t.phase = "abort" \/ (t.phase = "clear" /\ \A m \in open' : m.id = up[p].id => m.id \in stray'),
               up[p].phase = "clear" => t.phase = "clear",
               t.mode = up[p].mode, t.id = up[p].id, t.hash = up[p].hash, t.src = up[p].src,
               open' \subseteq open, stray \subseteq stray'
        PROVE  BookInv'
    <2>1. Moves(p) /\ up'[p] = t /\ rows'[p] = rows[p] /\ p \in Busy
      BY <1>1, <1>3, MovesBy DEF Busy, Recorded
    <2>2. OpenSteps /\ OpenOk' /\ \A m \in open' : \E k \in open : k.id = m.id
      BY <1>1, <1>3, StoreShrinks
    <2>3. RowOk(p) /\ Tracked(p) /\ rows[p].id = up[p].id /\ up[p].mode # "drop"
      BY <1>3, Facts DEF RowOk, Recorded
    <2>4. \A m \in open' : m.id = rows[p].id => rows[p].parts \subseteq DOMAIN m.parts
      BY <1>3, <2>3 DEF RowOk, OpenId
    <2>5. t.phase \in {"abort", "clear"}
      BY <1>3
    <2>6. up[p].phase # "none"
      BY <1>3 DEF Recorded
    <2>7. RowOk(p)'
      BY <1>1, <1>3, <2>1, <2>3, <2>4, <2>5, <2>6 DEF RowOk, Recorded, Tracked, OpenId
    <2>8. \A m \in open' : Names(p, m.id) => Names(p, m.id)'
      BY <1>3, <2>1, <2>3 DEF Names, Unrecorded, Recorded
    <2>9. QED
      BY <1>3, <2>1, <2>2, <2>5, <2>7, <2>8, TransferMoves
  <1>4. CASE /\ Reading(p)
             /\ Step(p, [up[p] EXCEPT !.phase = "abort", !.fate = "failed"])
             /\ UNCHANGED <<open, stray>>
    <2>1. PICK t : t = [up[p] EXCEPT !.phase = "abort", !.fate = "failed"]
      OBVIOUS
    <2>2. /\ t.phase = "abort" /\ t.mode = up[p].mode /\ t.id = up[p].id
          /\ t.hash = up[p].hash /\ t.src = up[p].src /\ t \in TransferRecord
      BY <2>1, Facts DEF TransferRecord, Phase
    <2>3. Recorded(p) /\ up[p].phase # "clear"
      BY <1>4 DEF Recorded, Reading
    <2>4. QED
      BY <1>3, <1>4, <2>1, <2>2, <2>3
  <1>5. CASE /\ up[p].phase = "finish"
             /\ Step(p, [up[p] EXCEPT !.phase = "clear", !.fate = "failed"])
             /\ open' = open \ OpenId(up[p].id) /\ stray' = stray
    <2>1. PICK t : t = [up[p] EXCEPT !.phase = "clear", !.fate = "failed"]
      OBVIOUS
    <2>2. /\ t.phase = "clear" /\ t.mode = up[p].mode /\ t.id = up[p].id
          /\ t.hash = up[p].hash /\ t.src = up[p].src /\ t \in TransferRecord
      BY <2>1, Facts DEF TransferRecord, Phase
    <2>3. Recorded(p) /\ \A m \in open' : m.id # up[p].id
      BY <1>5 DEF Recorded, OpenId
    <2>4. QED
      BY <1>3, <1>5, <2>1, <2>2, <2>3
  <1>6. CASE /\ up[p].phase = "abort" /\ up[p].mode # "drop"
             /\ Step(p, [up[p] EXCEPT !.phase = "clear"])
             /\ open' = open /\ stray' = stray \cup {up[p].id}
    <2>1. PICK t : t = [up[p] EXCEPT !.phase = "clear"]
      OBVIOUS
    <2>2. /\ t.phase = "clear" /\ t.mode = up[p].mode /\ t.id = up[p].id
          /\ t.hash = up[p].hash /\ t.src = up[p].src /\ t \in TransferRecord
      BY <2>1, Facts DEF TransferRecord, Phase
    <2>3. Recorded(p)
      BY <1>6 DEF Recorded
    <2>4. QED
      BY <1>3, <1>6, <2>1, <2>2, <2>3
  <1>7. QED
    BY <1>2, <1>4, <1>5, <1>6 DEF RequestFails

LEMMA TransferBooks ==
    ASSUME IInv, NEW p \in Path, Transfer(p), ~StartUpload(p)
    PROVE  BookInv'
  BY PutBytesBooks, BeginPutBooks, RecordStartBooks, SkipPartBooks, WritePartBooks,
     RecordPartBooks, LastPartBooks, FinishPutBooks, AbortPutBooks, ClearUploadBooks, JoinBooks
     DEF Transfer

-----------------------------------------------------------------------------
(* Steps of the pass, the users, the other devices and the store. *)

(* The books of every path but p are as they were. *)
LEMMA BooksMove ==
    ASSUME IInv, NEW p \in Path,
           \A q \in Path \ {p} : up'[q] = up[q] /\ rows'[q] = rows[q],
           OpenSteps, OpenOk', RowOk(p)', \A q \in Path : PlaceOk(q)', OneResumes',
           \A m \in open' : \E k \in open : k.id = m.id,
           \A m \in open' : Names(p, m.id) => Names(p, m.id)'
    PROVE  BookInv'
  <1>1. \A q \in Path \ {p} : RowOk(q)'
    BY RowRests DEF IInv, BookInv
  <1>2. NoneLost'
    <2> SUFFICES ASSUME NEW m \in open', m.id \notin stray' PROVE \E q \in Path : Names(q, m.id)'
      BY DEF NoneLost
    <2>1. PICK k \in open : k.id = m.id
      OBVIOUS
    <2>2. k.id \notin stray
      BY <2>1 DEF OpenSteps
    <2>3. PICK q \in Path : Names(q, m.id)
      BY <2>1, <2>2 DEF IInv, BookInv, NoneLost
    <2>4. Names(q, m.id)'
      BY <2>3 DEF Names, Unrecorded
    <2>5. QED
      BY <2>4
  <1>3. QED
    BY <1>1, <1>2 DEF BookInv

(* No transfer moves and no row. *)
LEMMA BooksRest ==
    ASSUME IInv, UNCHANGED <<rows, up>>, OpenSteps, OpenOk',
           \A q \in Path : PlaceOk(q)', OneResumes',
           \A m \in open' : \E k \in open : k.id = m.id
    PROVE  BookInv'
  <1>1. \A q \in Path : RowOk(q)'
    BY RowRests DEF IInv, BookInv
  <1>2. \A q \in Path, i \in {m.id : m \in open'} : Names(q, i)' <=> Names(q, i)
    BY DEF Names, Unrecorded
  <1>3. NoneLost'
    <2> SUFFICES ASSUME NEW m \in open', m.id \notin stray' PROVE \E q \in Path : Names(q, m.id)'
      BY DEF NoneLost
    <2>1. PICK k \in open : k.id = m.id
      OBVIOUS
    <2>2. k.id \notin stray
      BY <2>1 DEF OpenSteps
    <2>3. PICK q \in Path : Names(q, m.id)
      BY <2>1, <2>2 DEF IInv, BookInv, NoneLost
    <2>4. QED
      BY <1>2, <2>3
  <1>4. QED
    BY <1>1, <1>3 DEF BookInv

LEMMA PlaceShrinks ==
    ASSUME NEW q \in Path, PlaceOk(q), UNCHANGED <<pc, todo>>, plan' \subseteq plan,
           pc # "repair" \/ ViewKeeps, rows'[q].id = rows[q].id,
           up'[q].phase = up[q].phase, up'[q].mode = up[q].mode
    PROVE  PlaceOk(q)'
  BY DEF PlaceOk, Busy, Tracked, ViewKeeps

(* The pass keeps its place. *)
LEMMA PassRests ==
    ASSUME IInv, UNCHANGED <<rows, up, pc, todo>>, plan' \subseteq plan,
           pc # "repair" \/ view' = view, OpenSteps, OpenOk',
           \A m \in open' : \E k \in open : k.id = m.id
    PROVE  BookInv'
  <1>1. \A q \in Path : PlaceOk(q)'
    BY PlaceShrinks, Facts DEF ViewKeeps
  <1>2. OneResumes'
    BY DEF IInv, BookInv, OneResumes, Busy
  <1>3. QED
    BY <1>1, <1>2, BooksRest

LEMMA ConfirmBooks == ASSUME IInv, NEW o, Confirm(o) PROVE BookInv'
  BY PassRests, StoreRests DEF Confirm, store, ghosts

LEMMA DownloadBooks == ASSUME IInv, NEW p \in Path, Download(p) PROVE BookInv'
  <1>1. plan' \subseteq plan
    BY DEF Download, Take
  <1>2. QED
    BY <1>1, PassRests, StoreRests DEF Download, store, ghosts

LEMMA LateActionBooks == ASSUME IInv, NEW p \in Path, NEW kind, LateAction(p, kind) PROVE BookInv'
  <1>1. plan' \subseteq plan /\ pc = "apply"
    BY DEF LateAction, Take
  <1>2. UNCHANGED <<rows, up, pc, todo, open, uploads, stray>>
    BY DEF LateAction, store, ghosts
  <1>3. QED
    BY <1>1, <1>2, PassRests, StoreRests

LEMMA AbortOrphanBooks == ASSUME IInv, NEW m \in open, AbortOrphan(m) PROVE BookInv'
  <1>1. open' = open \ {m} /\ stray' = stray \ {m.id}
        /\ UNCHANGED <<rows, up, pc, todo, plan, view, uploads>>
    BY DEF AbortOrphan, local, pass
  <1>2. OpenOk /\ uploads \in Nat
    BY Facts DEF IInv, DataInv, BookInv
  <1>3. \A k \in open' : k \in open /\ k.id # m.id
    BY <1>1, <1>2 DEF OpenOk
  <1>4. OpenSteps
    BY <1>1, <1>2, <1>3 DEF OpenSteps
  <1>5. OpenOk'
    BY <1>1, <1>2 DEF OpenOk
  <1>6. QED
    BY <1>1, <1>3, <1>4, <1>5, PassRests

LEMMA DamageBooks == ASSUME IInv, NEW k, Damage(k) PROVE BookInv'
  BY PassRests, StoreRests DEF Damage, local, pass

LEMMA PeerEditBooks ==
    ASSUME IInv, NEW g, NEW p, NEW c, PeerEdit(g, p, c) PROVE BookInv'
  BY PassRests, StoreRests DEF PeerEdit, local, pass

LEMMA UserDeleteBooks == ASSUME IInv, NEW p, UserDelete(p) PROVE BookInv'
  BY PassRests, StoreRests DEF UserDelete, pass, store, ghosts

LEMMA UserWriteBooks ==
    ASSUME IInv, NEW p \in Path, NEW c \in Content, UserWrite(p, c) PROVE BookInv'
  <1>1. /\ UNCHANGED <<rows, pc, todo, plan, view, open, uploads, stray>>
        /\ up' = up \/ (Reads(p) /\ up' = [up EXCEPT ![p].src = c])
    BY DEF UserWrite, pass, store, ghosts
  <1>2. CASE up' = up
    BY <1>1, <1>2, PassRests, StoreRests
  <1>3. CASE Reads(p) /\ up' = [up EXCEPT ![p].src = c]
    <2>1. /\ up'[p].phase = up[p].phase /\ up'[p].mode = up[p].mode /\ up'[p].id = up[p].id
          /\ up'[p].hash = up[p].hash /\ up'[p].src = c /\ up'[p].n = up[p].n
          /\ up'[p] \in TransferRecord
      BY <1>3, Facts DEF TransferRecord, Hash
    <2>2. \A q \in Path \ {p} : up'[q] = up[q] /\ rows'[q] = rows[q]
      BY <1>1, <1>3, Facts
    <2>3. RowOk(p)'
      BY <1>1, <1>3, <2>1, Facts DEF RowOk, Recorded, Tracked, OpenId, Reads
    <2>4. \A q \in Path : up'[q].phase = up[q].phase /\ up'[q].mode = up[q].mode
      BY <2>1, <2>2
    <2>5. \A q \in Path : PlaceOk(q)'
      BY <1>1, <2>4, PlaceRests, Facts DEF ViewKeeps
    <2>6. Busy' = Busy
      BY <2>4 DEF Busy
    <2>7. OneResumes'
      BY <1>1, <2>6 DEF IInv, BookInv, OneResumes
    <2>8. \A m \in open' : Names(p, m.id) => Names(p, m.id)'
      BY <1>1, <2>1 DEF Names, Unrecorded
    <2>9. QED
      BY <1>1, <2>2, <2>3, <2>5, <2>7, <2>8, StoreRests, BooksMove
  <1>4. QED
    BY <1>1, <1>2, <1>3

(* A transfer starts, of a path that has none. *)
LEMMA ResumeUploadBooks == ASSUME IInv, NEW p \in Path, ResumeUpload(p) PROVE BookInv'
  <1> DEFINE t == [Quiet EXCEPT
                  !.phase = "send", !.mode = "resume", !.hash = rows[p].hash,
                  !.src = files[p], !.id = rows[p].id, !.n = 1, !.sent = rows[p].parts]
  <1>1. /\ pc = "resume" /\ pc' = pc /\ Busy = {} /\ p \in todo /\ todo' = todo \ {p}
        /\ files[p] = rows[p].hash /\ up' = [up EXCEPT ![p] = t]
        /\ UNCHANGED <<rows, plan, view, open, uploads, stray>>
    BY DEF ResumeUpload, NextResume, local, store, ghosts
  <1>2. Tracked(p)
    BY <1>1, Facts DEF PlaceOk
  <1>3. rows[p].hash \in Content
    BY <1>2, Facts DEF RowOk
  <1>4. /\ t.phase = "send" /\ t.mode = "resume" /\ t.id = rows[p].id /\ t.hash = rows[p].hash
        /\ t.src = rows[p].hash
    BY <1>1 DEF Quiet
  <1>5. t \in TransferRecord
    <2>1. Quiet \in TransferRecord /\ rows[p] \in UploadRow
      BY QuietRecord, Facts
    <2>2. QED
      BY <1>1, <1>3, <2>1 DEF TransferRecord, UploadRow, Phase, Hash
  <1> HIDE DEF t
  <1>6. up'[p] = t /\ rows'[p] = rows[p] /\ \A q \in Path \ {p} : up'[q] = up[q] /\ rows'[q] = rows[q]
    BY <1>1, Facts
  <1>7. RowOk(p)'
    BY <1>1, <1>2, <1>3, <1>4, <1>5, <1>6, Facts DEF RowOk, Recorded, Tracked, OpenId
  <1>8. Busy' = {p}
    BY <1>1, <1>4, <1>6 DEF Busy
  <1>9. \A q \in Path : PlaceOk(q)'
    <2> SUFFICES ASSUME NEW q \in Path PROVE PlaceOk(q)'
      OBVIOUS
    <2>1. PlaceOk(q) /\ q \notin Busy
      BY <1>1, Facts
    <2>2. CASE q = p
      BY <1>1, <1>8, <2>1, <2>2 DEF PlaceOk, Tracked
    <2>3. CASE q # p
      BY <1>1, <1>6, <1>8, <2>1, <2>3 DEF PlaceOk, Tracked
    <2>4. QED
      BY <2>2, <2>3
  <1>10. OneResumes'
    BY <1>8 DEF OneResumes
  <1>11. \A m \in open' : Names(p, m.id) => Names(p, m.id)'
    BY <1>1, <1>6 DEF Names, Unrecorded, Busy
  <1>12. QED
    BY <1>1, <1>6, <1>7, <1>9, <1>10, <1>11, StoreRests, BooksMove

LEMMA DropUploadBooks == ASSUME IInv, NEW p \in Path, DropUpload(p) PROVE BookInv'
  <1> DEFINE t == [Quiet EXCEPT !.phase = "abort", !.mode = "drop", !.id = rows[p].id]
  <1>1. /\ pc = "resume" /\ pc' = pc /\ Busy = {} /\ p \in todo /\ todo' = todo \ {p}
        /\ rows' = [rows EXCEPT ![p] = NoRow] /\ up' = [up EXCEPT ![p] = t]
        /\ UNCHANGED <<plan, view, open, uploads, stray>>
    BY DEF DropUpload, NextResume, store, ghosts
  <1>2. /\ t.phase = "abort" /\ t.mode = "drop" /\ t.id = rows[p].id
    BY DEF Quiet
  <1>3. t \in TransferRecord
    <2>1. Quiet \in TransferRecord /\ rows[p] \in UploadRow
      BY QuietRecord, Facts
    <2>2. QED
      BY <2>1 DEF TransferRecord, UploadRow, Phase
  <1> HIDE DEF t
  <1>4. up'[p] = t /\ rows'[p] = NoRow /\ \A q \in Path \ {p} : up'[q] = up[q] /\ rows'[q] = rows[q]
    BY <1>1, Facts
  <1>5. NoRow.id = 0 /\ NoRow.parts = {} /\ NoRow \in UploadRow
    BY NoRowIsRow DEF NoRow
  <1>6. RowOk(p)'
    <2>1. rows[p].id <= uploads' /\ 0 <= uploads'
      BY <1>1, Facts DEF RowOk
    <2>2. QED
      BY <1>2, <1>3, <1>4, <1>5, <2>1 DEF RowOk, Recorded, Tracked
  <1>7. Busy' = {p}
    BY <1>1, <1>2, <1>4 DEF Busy
  <1>8. \A q \in Path : PlaceOk(q)'
    <2> SUFFICES ASSUME NEW q \in Path PROVE PlaceOk(q)'
      OBVIOUS
    <2>1. PlaceOk(q) /\ q \notin Busy
      BY <1>1, Facts
    <2>2. CASE q = p
      BY <1>1, <1>2, <1>4, <1>5, <1>7, <2>1, <2>2 DEF PlaceOk, Tracked
    <2>3. CASE q # p
      BY <1>1, <1>4, <1>7, <2>1, <2>3 DEF PlaceOk, Tracked
    <2>4. QED
      BY <2>2, <2>3
  <1>9. OneResumes'
    BY <1>7 DEF OneResumes
  <1>10. \A m \in open' : Names(p, m.id) => Names(p, m.id)'
    BY <1>1, <1>2, <1>4 DEF Names, Unrecorded, Busy
  <1>11. QED
    BY <1>1, <1>4, <1>6, <1>8, <1>9, <1>10, StoreRests, BooksMove

(* A file is hashed, to be uploaded or to repair its object. *)
LEMMA HashBooks ==
    ASSUME IInv, NEW p \in Path, p \notin Busy, ~Tracked(p), NEW mode \in {"upload", "repair"},
           files[p] \in Content, pc \in {"apply", "repair"},
           Step(p, [Quiet EXCEPT !.phase = "hashed", !.mode = mode,
                                 !.hash = files[p], !.src = files[p]]),
           UNCHANGED <<rows, pc, view, open, uploads, stray>>,
           todo' \subseteq todo, plan' \subseteq plan, [path |-> p, kind |-> "Upload"] \notin plan' \/ pc = "repair"
    PROVE  BookInv'
  <1>1. PICK t : t = [Quiet EXCEPT !.phase = "hashed", !.mode = mode,
                                   !.hash = files[p], !.src = files[p]]
    OBVIOUS
  <1>2. /\ t.phase = "hashed" /\ t.mode = mode /\ t.id = 0 /\ t.hash \in Content
        /\ t.src \in Content
    BY <1>1 DEF Quiet
  <1>3. t \in TransferRecord
    BY <1>1, QuietRecord DEF TransferRecord, Phase, Hash
  <1>4. up'[p] = t /\ rows'[p] = rows[p] /\ \A q \in Path \ {p} : up'[q] = up[q] /\ rows'[q] = rows[q]
    BY <1>1, Facts DEF Step
  <1>5. RowOk(p)'
    BY <1>2, <1>3, <1>4, Facts DEF RowOk, Recorded, Tracked, OpenId
  <1>6. Busy' = Busy \cup {p}
    BY <1>2, <1>4 DEF Busy
  <1>7. \A q \in Path : PlaceOk(q)'
    <2> SUFFICES ASSUME NEW q \in Path PROVE PlaceOk(q)'
      OBVIOUS
    <2>1. PlaceOk(q)
      BY Facts
    <2>2. CASE q = p
      BY <1>2, <1>4, <1>6, <2>1, <2>2 DEF PlaceOk, Tracked
    <2>3. CASE q # p
      BY <1>4, <1>6, <2>1, <2>3 DEF PlaceOk, Tracked
    <2>4. QED
      BY <2>2, <2>3
  <1>8. OneResumes'
    BY DEF OneResumes
  <1>9. \A m \in open' : Names(p, m.id) => Names(p, m.id)'
    BY <1>4 DEF Names, Unrecorded, Busy
  <1>10. QED
    BY <1>4, <1>5, <1>7, <1>8, <1>9, StoreRests, BooksMove

LEMMA StartUploadBooks == ASSUME IInv, NEW p \in Path, StartUpload(p) PROVE BookInv'
  <1>1. /\ pc = "apply" /\ [path |-> p, kind |-> "Upload"] \in plan
        /\ plan' = plan \ {[path |-> p, kind |-> "Upload"]}
        /\ UNCHANGED <<rows, pc, view, todo, open, uploads, stray>>
    BY DEF StartUpload, Take, local, store, ghosts
  <1>2. p \notin Busy /\ ~Tracked(p)
    BY <1>1, Facts DEF PlaceOk
  <1>3. CASE files[p] = None
    <2>1. up' = up
      BY <1>3 DEF StartUpload
    <2>2. QED
      BY <1>1, <2>1, StoreRests, PassRests
  <1>4. CASE files[p] # None
    <2>1. files[p] \in Content
      BY <1>4 DEF IInv, DataInv, Hash
    <2>2. Step(p, [Quiet EXCEPT !.phase = "hashed", !.mode = "upload",
                                !.hash = files[p], !.src = files[p]])
      BY <1>4 DEF StartUpload
    <2>3. QED
      BY <1>1, <1>2, <2>1, <2>2, HashBooks
  <1>5. QED
    BY <1>3, <1>4

LEMMA RepairOneBooks == ASSUME IInv, NEW p \in Path, RepairOne(p) PROVE BookInv'
  <1>1. /\ pc = "repair" /\ Busy = {} /\ p \in todo /\ todo' = todo \ {p}
        /\ UNCHANGED <<rows, pc, view, plan, open, uploads, stray>>
    BY DEF RepairOne, local, store, ghosts
  <1>2. p \notin Busy /\ ~Tracked(p) /\ EntriesAt(view, p) # {}
    BY <1>1, Facts DEF PlaceOk
  <1>3. CASE files[p] # EntryAt(view, p).hash
    <2>1. up' = up
      BY <1>3 DEF RepairOne
    <2>2. \A q \in Path : PlaceOk(q)'
      BY <1>1, <2>1, Facts DEF PlaceOk, Busy, Tracked
    <2>3. OneResumes'
      BY <1>1 DEF OneResumes
    <2>4. QED
      BY <1>1, <2>1, <2>2, <2>3, StoreRests, BooksRest
  <1>4. CASE files[p] = EntryAt(view, p).hash
    <2>1. EntryAt(view, p) \in Entry
      BY <1>2 DEF EntryAt, EntriesAt, IInv, DataInv
    <2>2. files[p] \in Content
      BY <1>4, <2>1 DEF Entry
    <2>3. Step(p, [Quiet EXCEPT !.phase = "hashed", !.mode = "repair",
                                !.hash = files[p], !.src = files[p]])
      BY <1>4 DEF RepairOne
    <2>4. QED
      BY <1>1, <1>2, <2>2, <2>3, HashBooks
  <1>5. QED
    BY <1>3, <1>4

(* The pass goes from one place to the next. *)
LEMMA PlaceMoves ==
    ASSUME IInv, UNCHANGED <<rows, up, open, uploads, stray>>,
           \A q \in Path : PlaceOk(q)', pc' = "resume" => Busy = {}
    PROVE  BookInv'
  <1>1. OneResumes'
    BY DEF OneResumes, Busy
  <1>2. QED
    BY <1>1, StoreRests, BooksRest

LEMMA PlanPassBooks == ASSUME IInv, PlanPass PROVE BookInv'
  <1>1. pc = "idle" /\ pc' = "resume" /\ todo' = Pending /\ UNCHANGED <<rows, up, open, uploads, stray>>
    BY DEF PlanPass, local, store, ghosts
  <1>2. Busy = {}
    BY <1>1, Facts DEF PlaceOk, Busy
  <1>3. \A q \in Path : PlaceOk(q)'
    BY <1>1, <1>2 DEF PlaceOk, Busy, Tracked, Pending
  <1>4. QED
    BY <1>1, <1>2, <1>3, PlaceMoves

LEMMA LogResumedBooks == ASSUME IInv, LogResumed PROVE BookInv'
  <1>1. /\ pc = "resume" /\ Busy = {} /\ todo = {} /\ pc' \in {"apply", "claim"}
        /\ UNCHANGED <<rows, up, open, uploads, stray>>
    BY DEF LogResumed, local, ghosts
  <1>2. \A q \in Path : ~Tracked(q)
    BY <1>1, Facts DEF PlaceOk
  <1>3. \A q \in Path : PlaceOk(q)'
    BY <1>1, <1>2 DEF PlaceOk, Busy, Tracked
  <1>4. QED
    BY <1>1, <1>3, PlaceMoves

LEMMA ClaimLamportBooks == ASSUME IInv, ClaimLamport PROVE BookInv'
  <1>1. /\ pc = "claim" /\ pc' = "confirm" /\ UNCHANGED <<rows, up, plan, open, uploads, stray>>
    BY DEF ClaimLamport, store, ghosts
  <1>2. \A q \in Path : PlaceOk(q)'
    BY <1>1, Facts DEF PlaceOk, Busy, Tracked
  <1>3. QED
    BY <1>1, <1>2, PlaceMoves

LEMMA ResumeDoneBooks == ASSUME IInv, ResumeDone PROVE BookInv'
  <1>1. /\ pc = "confirm" /\ pc' = "apply" /\ UNCHANGED <<rows, up, plan, open, uploads, stray>>
    BY DEF ResumeDone, local, store, ghosts
  <1>2. \A q \in Path : PlaceOk(q)'
    BY <1>1, Facts DEF PlaceOk, Busy, Tracked
  <1>3. QED
    BY <1>1, <1>2, PlaceMoves

LEMMA FlushBooks == ASSUME IInv, Flush PROVE BookInv'
  <1>1. /\ pc = "apply" /\ Busy = {} /\ pc' = "flush" /\ UNCHANGED <<rows, up, open, uploads, stray>>
    BY DEF Flush, local, ghosts
  <1>2. \A q \in Path : ~Tracked(q)
    BY <1>1, Facts DEF PlaceOk
  <1>3. \A q \in Path : PlaceOk(q)'
    BY <1>1, <1>2 DEF PlaceOk, Busy, Tracked
  <1>4. QED
    BY <1>1, <1>3, PlaceMoves

LEMMA VerifyRemoteBooks == ASSUME IInv, ~DoctorMayInterfere, VerifyRemote PROVE BookInv'
  <1>1. /\ pc = "idle" /\ pc' = "repair" /\ Pending = {} /\ todo' = BadObjects(view')
        /\ UNCHANGED <<rows, up, open, uploads, stray>>
    BY DEF VerifyRemote, local, store, ghosts
  <1>2. Busy = {} /\ \A q \in Path : ~Tracked(q)
    BY <1>1, Facts DEF PlaceOk, Busy, Pending
  <1>3. \A q \in Path : q \in BadObjects(view') => EntriesAt(view', q) # {}
    BY DEF BadObjects, EntriesAt
  <1>4. \A q \in Path : PlaceOk(q)'
    BY <1>1, <1>2, <1>3 DEF PlaceOk, Busy, Tracked
  <1>5. QED
    BY <1>1, <1>4, PlaceMoves

LEMMA BooksStep == ASSUME IInv, ~DoctorMayInterfere, [Next]_vars PROVE BookInv'
  <1>1. CASE UNCHANGED vars
    BY <1>1, PassRests, StoreRests DEF vars, local, pass, store, ghosts
  <1>2. CASE PassStep
    <2>1. ASSUME NEW p \in Path, ResumeUpload(p) \/ DropUpload(p) \/ Transfer(p) \/ Download(p) \/ RepairOne(p)
          PROVE  BookInv'
      BY <2>1, ResumeUploadBooks, DropUploadBooks, StartUploadBooks, TransferBooks, DownloadBooks,
         RepairOneBooks
    <2>2. ASSUME NEW p \in Path, NEW kind, LateAction(p, kind) PROVE BookInv'
      BY <2>2, LateActionBooks
    <2>3. ASSUME NEW o \in ops, Confirm(o) PROVE BookInv'
      BY <2>3, ConfirmBooks
    <2>4. QED
      BY <1>2, <2>1, <2>2, <2>3, PlanPassBooks, LogResumedBooks, ClaimLamportBooks, ResumeDoneBooks,
         FlushBooks, FinishBooks, RepairDoneBooks DEF PassStep
  <1>3. CASE Environment
    BY <1>3, WritesAssumption, MeAssumption, UserWriteBooks, UserDeleteBooks, PeerEditBooks,
       VerifyRemoteBooks DEF Environment
  <1>4. CASE Fault
    BY <1>4, RequestFailsBooks, AbortBooks, AbortOrphanBooks, DamageBooks DEF Fault
  <1>5. QED
    BY <1>1, <1>2, <1>3, <1>4 DEF Next

-----------------------------------------------------------------------------
(* The types. *)

LEMMA DataFacts ==
    ASSUME IInv
    PROVE  /\ files \in [Path -> Hash] /\ base \in [Path -> Hash]
           /\ clock \in Nat /\ remote \in Nat /\ uploads \in Nat
           /\ DOMAIN rows = Path /\ DOMAIN up = Path /\ pc \in PcState
           /\ view \subseteq Entry /\ deltas \subseteq Entry /\ Entries(log) \subseteq Entry
           /\ LogBounded
           /\ ops \subseteq [path : Path, hash : Hash]
           /\ DOMAIN objects \subseteq Path \X Content
           /\ todo \subseteq Path
  BY DEF IInv, DataInv

LEMMA LamportNat == ASSUME clock \in Nat, remote \in Nat PROVE Lamport \in Nat
  BY DEF Lamport, Larger

LEMMA KnownHashType == ASSUME NEW m \in SUBSET Entry, NEW p PROVE KnownHash(m, p) \in Hash
  <1>1. CASE EntriesAt(m, p) = {}
    BY <1>1 DEF KnownHash, Hash
  <1>2. CASE EntriesAt(m, p) # {}
    <2>1. EntryAt(m, p) \in m
      BY <1>2 DEF EntryAt, EntriesAt
    <2>2. QED
      BY <1>2, <2>1 DEF KnownHash, Hash, Entry
  <1>3. QED
    BY <1>1, <1>2

LEMMA NewDeltaType ==
    ASSUME IInv, NEW p \in Path, NEW c \in Content, NEW deleted \in BOOLEAN
    PROVE  NewDelta(p, c, deleted) \in Entry
  <1>1. Lamport \in Nat /\ KnownHash(view, p) \in Content \cup {None}
    BY DataFacts, LamportNat, KnownHashType DEF Hash
  <1>2. QED
    BY <1>1, MeAssumption DEF NewDelta, Entry

(* The batch grows by entries of the pass's clock. *)
LEMMA BatchGrows ==
    ASSUME IInv, NEW S \in SUBSET Entry, \A e \in S : e.lamport = Lamport,
           log' = log, deltas' = deltas \cup S
    PROVE  deltas' \subseteq Entry /\ LogBounded'
  <1>1. PICK n \in Nat : \A e \in Entries(log) \cup deltas : e.lamport <= n
    BY DataFacts DEF LogBounded
  <1>2. Lamport \in Nat
    BY DataFacts, LamportNat
  <1>3. \A e \in Entries(log) \cup deltas : e.lamport \in Nat
    BY DataFacts DEF Entry
  <1>4. n + Lamport \in Nat /\ \A e \in Entries(log)' \cup deltas' : e.lamport <= n + Lamport
    BY <1>1, <1>2, <1>3
  <1>5. LogBounded'
    BY <1>4 DEF LogBounded
  <1>6. QED
    BY <1>5, DataFacts

(* The batch is logged, under a key of its own or in the place of another. *)
LEMMA LogGrows ==
    ASSUME IInv, LogDelta, deltas' \subseteq deltas
    PROVE  Entries(log)' \subseteq Entry /\ LogBounded'
  <1>1. Entries(log)' \subseteq Entries(log) \cup deltas
    BY DEF LogDelta, Entries
  <1>2. QED
    BY <1>1, DataFacts DEF LogBounded

LEMMA LogRests ==
    ASSUME IInv, log' = log, deltas' \subseteq deltas
    PROVE  Entries(log)' \subseteq Entry /\ deltas' \subseteq Entry /\ LogBounded'
  BY DataFacts DEF LogBounded

LEMMA MergedType == ASSUME IInv PROVE Merged(Entries(log)) \subseteq Entry
  BY DataFacts DEF Merged

LEMMA RemoteLamportNat == ASSUME IInv PROVE RemoteLamport(Entries(log)) \in Nat
  BY DataFacts, RemoteLamportBounds DEF LogBounded

LEMMA ForgetData == ASSUME IInv, Forget, UNCHANGED <<files, base, uploads, log>>,
                           clock' \in Nat, DOMAIN rows' = Path,
                           DOMAIN objects' \subseteq Path \X Content
                    PROVE  DataInv'
  <1>1. /\ pc' = "idle" /\ view' = {} /\ remote' = 0 /\ todo' = {} /\ deltas' = {} /\ ops' = {}
        /\ DOMAIN up' = Path
    BY DEF Forget
  <1>2. Entries(log)' \subseteq Entry /\ deltas' \subseteq Entry /\ LogBounded'
    BY <1>1, LogRests
  <1>3. QED
    BY <1>1, <1>2, DataFacts DEF DataInv, PcState

(* A transfer moves: the pass, the files and the log are left alone. *)
LEMMA TransferData ==
    ASSUME IInv, UNCHANGED <<files, base, clock, pass, log>>, uploads' \in Nat,
           DOMAIN rows' = Path, DOMAIN up' = Path, DOMAIN objects' \subseteq Path \X Content
    PROVE  DataInv'
  <1>1. Entries(log)' \subseteq Entry /\ deltas' \subseteq Entry /\ LogBounded'
    BY LogRests DEF pass
  <1>2. QED
    BY <1>1, DataFacts DEF DataInv, pass

LEMMA StepDomain == ASSUME IInv, NEW p, NEW t, Step(p, t) PROVE DOMAIN up' = Path
  BY DataFacts DEF Step

LEMMA StoreData ==
    ASSUME IInv, NEW k \in Path \X Content, NEW parts, StoreObject(k, parts)
    PROVE  DOMAIN objects' \subseteq Path \X Content
  BY DataFacts DEF StoreObject

LEMMA PutBytesData == ASSUME IInv, NEW p \in Path, PutBytes(p) PROVE DataInv'
  <1>1. /\ UNCHANGED <<files, base, clock, pass, log, rows>> /\ uploads' = uploads + 1
        /\ up[p].phase = "hashed"
    BY DEF PutBytes, local
  <1>2. DOMAIN up' = Path
    BY StepDomain DEF PutBytes
  <1>3. Key(p, up[p].hash) \in Path \X Content
    BY <1>1, Facts DEF Key, RowOk
  <1>4. DOMAIN objects' \subseteq Path \X Content
    BY <1>3, StoreData, DataFacts DEF PutBytes
  <1>5. QED
    BY <1>1, <1>2, <1>4, TransferData, DataFacts

LEMMA FinishPutData == ASSUME IInv, NEW p \in Path, FinishPut(p) PROVE DataInv'
  <1>1. UNCHANGED <<files, base, clock, pass, log, rows, uploads>>
    BY DEF FinishPut, local
  <1>2. DOMAIN up' = Path
    BY StepDomain DEF FinishPut
  <1>3. DOMAIN objects' \subseteq Path \X Content
    <2>1. CASE objects' = objects
      BY <2>1, DataFacts
    <2>2. ASSUME NEW m \in OpenId(up[p].id), NEW parts, StoreObject(m.key, parts)
          PROVE  DOMAIN objects' \subseteq Path \X Content
      <3>1. m.key \in Path \X Content
        BY Facts DEF OpenId, OpenOk
      <3>2. QED
        BY <2>2, <3>1, StoreData
    <2>3. QED
      BY <2>1, <2>2 DEF FinishPut
  <1>4. QED
    BY <1>1, <1>2, <1>3, TransferData, DataFacts

LEMMA ClearUploadData == ASSUME IInv, NEW p \in Path, ClearUpload(p) PROVE DataInv'
  <1>1. UNCHANGED <<files, base, clock, uploads, log, objects>> /\ DOMAIN rows' = Path
    BY DataFacts DEF ClearUpload, store
  <1>2. CASE Forget
    BY <1>1, <1>2, ForgetData, DataFacts
  <1>3. CASE UNCHANGED pass /\ \E t : Step(p, t)
    BY <1>1, <1>3, StepDomain, TransferData, DataFacts
  <1>4. QED
    BY <1>2, <1>3 DEF ClearUpload, AfterClear

LEMMA JoinData == ASSUME IInv, NEW p \in Path, Join(p) PROVE DataInv'
  <1>1. PICK e : e = NewDelta(p, up[p].hash, FALSE)
    OBVIOUS
  <1>2. /\ up[p].phase = "done" /\ UNCHANGED <<files, base, clock, rows, pc, remote, todo, log, objects, uploads>>
    BY DEF Join, local, store
  <1>3. DOMAIN up' = Path
    BY StepDomain DEF Join
  <1>4. up[p].hash \in Content
    BY <1>2, Facts DEF RowOk
  <1>5. e \in Entry /\ e.lamport = Lamport /\ e.hash = up[p].hash
    BY <1>1, <1>4, NewDeltaType DEF NewDelta
  <1>6. CASE UNCHANGED <<view, deltas, ops>>
    <2>1. Entries(log)' \subseteq Entry /\ deltas' \subseteq Entry /\ LogBounded'
      BY <1>2, <1>6, LogRests
    <2>2. QED
      BY <1>2, <1>3, <1>6, <2>1, DataFacts DEF DataInv
  <1>7. CASE /\ deltas' = deltas \cup {e} /\ view' = Insert(view, e)
             /\ ops' = ops \cup {[path |-> p, hash |-> e.hash]}
    <2>1. deltas' \subseteq Entry /\ LogBounded'
      <3>1. {e} \in SUBSET Entry /\ \A x \in {e} : x.lamport = Lamport
        BY <1>5
      <3>2. log' = log /\ deltas' = deltas \cup {e}
        BY <1>2, <1>7
      <3>3. QED
        BY <3>1, <3>2, BatchGrows
    <2>2. view' \subseteq Entry
      BY <1>5, <1>7, DataFacts DEF Insert
    <2>3. ops' \subseteq [path : Path, hash : Hash]
      BY <1>4, <1>5, <1>7, DataFacts DEF Hash
    <2>4. QED
      BY <1>2, <1>3, <2>1, <2>2, <2>3, DataFacts DEF DataInv
  <1>8. QED
    BY <1>1, <1>6, <1>7 DEF Join

LEMMA StartUploadData == ASSUME IInv, NEW p \in Path, StartUpload(p) PROVE DataInv'
  <1>1. UNCHANGED <<files, base, clock, rows, pc, view, remote, todo, deltas, ops, log, objects, uploads>>
    BY DEF StartUpload, local, store
  <1>2. DOMAIN up' = Path
    BY StepDomain, DataFacts DEF StartUpload
  <1>3. QED
    BY <1>1, <1>2, LogRests, DataFacts DEF DataInv

LEMMA TransferStepData == ASSUME IInv, NEW p \in Path, Transfer(p) PROVE DataInv'
  <1>1. ASSUME BeginPut(p) \/ RecordStart(p) \/ SkipPart(p) \/ WritePart(p) \/ RecordPart(p)
                 \/ LastPart(p) \/ AbortPut(p)
        PROVE  DataInv'
    <2>1. UNCHANGED <<files, base, clock, pass, log, objects>> /\ uploads' \in Nat
      BY <1>1, DataFacts DEF BeginPut, RecordStart, SkipPart, WritePart, RecordPart, LastPart,
                             AbortPut, Only, local, store
    <2>2. DOMAIN rows' = Path
      BY <1>1, DataFacts DEF BeginPut, RecordStart, SkipPart, WritePart, RecordPart, LastPart,
                             AbortPut, Only, local
    <2>3. \E t : Step(p, t)
      BY <1>1 DEF BeginPut, RecordStart, SkipPart, WritePart, RecordPart, LastPart, AbortPut, Only
    <2>4. DOMAIN up' = Path
      BY <2>3, StepDomain
    <2>5. QED
      BY <2>1, <2>2, <2>4, TransferData, DataFacts
  <1>2. QED
    BY <1>1, PutBytesData, FinishPutData, ClearUploadData, JoinData, StartUploadData DEF Transfer

LEMMA DownloadData == ASSUME IInv, NEW p \in Path, Download(p) PROVE DataInv'
  <1>1. PICK c : c = EntryAt(view, p).hash
    OBVIOUS
  <1>2. UNCHANGED <<base, clock, rows, pc, view, remote, todo, deltas, up, log, objects, uploads>>
    BY DEF Download, store
  <1>3. Entries(log)' \subseteq Entry /\ deltas' \subseteq Entry /\ LogBounded'
    BY <1>2, LogRests
  <1>4. CASE UNCHANGED <<files, ops>>
    BY <1>2, <1>3, <1>4, DataFacts DEF DataInv
  <1>5. CASE /\ Key(p, c) \in DOMAIN objects
             /\ files' = [files EXCEPT ![p] = c]
             /\ ops' = ops \cup {[path |-> p, hash |-> c]}
    <2>1. c \in Hash
      BY <1>5, DataFacts DEF Key, Hash
    <2>2. files' \in [Path -> Hash]
      BY <1>5, <2>1, DataFacts
    <2>3. ops' \subseteq [path : Path, hash : Hash]
      BY <1>5, <2>1, DataFacts
    <2>4. QED
      BY <1>2, <1>3, <2>2, <2>3, DataFacts DEF DataInv
  <1>6. QED
    BY <1>1, <1>4, <1>5 DEF Download, Fetchable

LEMMA LateActionData ==
    ASSUME IInv, NEW p \in Path, NEW kind \in {"DeleteLocal", "DeleteRemote", "Conflict"},
           LateAction(p, kind)
    PROVE  DataInv'
  <1>1. UNCHANGED <<clock, rows, pc, remote, todo, up, log, objects, uploads>>
    BY DEF LateAction, Take, store
  <1>2. None \in Hash
    BY DEF Hash
  <1>3. CASE kind = "DeleteLocal"
    <2>1. /\ files' = [files EXCEPT ![p] = None] /\ ops' = ops \cup {[path |-> p, hash |-> None]}
          /\ UNCHANGED <<base, deltas, view>>
      BY <1>3 DEF LateAction
    <2>2. files' \in [Path -> Hash] /\ ops' \subseteq [path : Path, hash : Hash]
      BY <1>2, <2>1, DataFacts
    <2>3. Entries(log)' \subseteq Entry /\ deltas' \subseteq Entry /\ LogBounded'
      BY <1>1, <2>1, LogRests
    <2>4. QED
      BY <1>1, <2>1, <2>2, <2>3, DataFacts DEF DataInv
  <1>4. CASE kind = "Conflict"
    <2>1. /\ files' = [files EXCEPT ![p] = None] /\ base' = [base EXCEPT ![p] = None]
          /\ UNCHANGED <<ops, deltas, view>>
      BY <1>4 DEF LateAction
    <2>2. files' \in [Path -> Hash] /\ base' \in [Path -> Hash]
      BY <1>2, <2>1, DataFacts
    <2>3. Entries(log)' \subseteq Entry /\ deltas' \subseteq Entry /\ LogBounded'
      BY <1>1, <2>1, LogRests
    <2>4. QED
      BY <1>1, <2>1, <2>2, <2>3, DataFacts DEF DataInv
  <1>5. CASE kind = "DeleteRemote"
    <2>1. PICK S : S = {NewDelta(p, e.hash, TRUE) : e \in EntriesAt(view, p)}
      OBVIOUS
    <2>2. /\ deltas' = deltas \cup S /\ view' = view \ EntriesAt(view, p)
          /\ ops' = ops \cup {[path |-> p, hash |-> None]} /\ UNCHANGED <<base, files>>
      BY <1>5, <2>1 DEF LateAction
    <2>3. S \in SUBSET Entry /\ \A x \in S : x.lamport = Lamport
      <3>1. \A e \in EntriesAt(view, p) : e.hash \in Content
        BY DataFacts DEF EntriesAt, Entry
      <3>2. \A e \in EntriesAt(view, p) : NewDelta(p, e.hash, TRUE) \in Entry
        BY <3>1, NewDeltaType
      <3>3. \A e \in EntriesAt(view, p) : NewDelta(p, e.hash, TRUE).lamport = Lamport
        BY DEF NewDelta
      <3>4. QED
        BY <2>1, <3>2, <3>3
    <2>4. deltas' \subseteq Entry /\ LogBounded'
      BY <1>1, <2>2, <2>3, BatchGrows
    <2>5. view' \subseteq Entry /\ ops' \subseteq [path : Path, hash : Hash]
      BY <1>2, <2>2, DataFacts
    <2>6. QED
      BY <1>1, <2>2, <2>4, <2>5, DataFacts DEF DataInv
  <1>6. QED
    BY <1>3, <1>4, <1>5

LEMMA PlanPassData == ASSUME IInv, PlanPass PROVE DataInv'
  <1>1. /\ view' = Merged(Entries(log)) /\ remote' = RemoteLamport(Entries(log)) /\ todo' = Pending
        /\ pc' = "resume"
        /\ UNCHANGED <<files, base, clock, rows, deltas, ops, up, log, objects, uploads>>
    BY DEF PlanPass, local, store
  <1>2. todo' \subseteq Path
    BY <1>1 DEF Pending
  <1>3. QED
    BY <1>1, <1>2, LogRests, MergedType, RemoteLamportNat, DataFacts DEF DataInv, PcState

LEMMA VerifyRemoteData == ASSUME IInv, VerifyRemote PROVE DataInv'
  <1>1. /\ view' = Merged(Entries(log)) /\ todo' = BadObjects(view') /\ pc' = "repair"
        /\ UNCHANGED <<files, base, clock, rows, remote, deltas, ops, up, log, objects, uploads>>
    BY DEF VerifyRemote, local, store
  <1>2. todo' \subseteq Path
    BY <1>1 DEF BadObjects
  <1>3. QED
    BY <1>1, <1>2, LogRests, MergedType, DataFacts DEF DataInv, PcState

LEMMA LogResumedData == ASSUME IInv, LogResumed PROVE DataInv'
  <1>1. /\ pc' \in {"apply", "claim"}
        /\ UNCHANGED <<files, base, clock, rows, view, remote, todo, ops, up, objects, uploads>>
    BY DEF LogResumed, local
  <1>2. deltas' \subseteq deltas /\ (log' = log \/ LogDelta)
    BY DEF LogResumed
  <1>3. Entries(log)' \subseteq Entry /\ LogBounded'
    BY <1>2, LogRests, LogGrows
  <1>4. QED
    BY <1>1, <1>2, <1>3, DataFacts DEF DataInv, PcState

LEMMA FlushData == ASSUME IInv, Flush PROVE DataInv'
  <1>1. /\ pc' = "flush"
        /\ UNCHANGED <<files, base, clock, rows, view, remote, todo, ops, up, objects, uploads>>
    BY DEF Flush, local
  <1>2. deltas' \subseteq deltas /\ (log' = log \/ LogDelta)
    BY DEF Flush
  <1>3. Entries(log)' \subseteq Entry /\ LogBounded'
    BY <1>2, LogRests, LogGrows
  <1>4. QED
    BY <1>1, <1>2, <1>3, DataFacts DEF DataInv, PcState

LEMMA ConfirmData == ASSUME IInv, NEW o \in ops, Confirm(o) PROVE DataInv'
  <1>1. /\ base' = [base EXCEPT ![o.path] = o.hash] /\ ops' = ops \ {o}
        /\ UNCHANGED <<files, clock, rows, pc, view, remote, todo, deltas, up, log, objects, uploads>>
    BY DEF Confirm, store
  <1>2. o.path \in Path /\ o.hash \in Hash
    BY DataFacts
  <1>3. base' \in [Path -> Hash]
    BY <1>1, <1>2, DataFacts
  <1>4. QED
    BY <1>1, <1>3, LogRests, DataFacts DEF DataInv

LEMMA ClaimLamportData == ASSUME IInv, ClaimLamport PROVE DataInv'
  <1>1. /\ clock' = Lamport /\ pc' = "confirm"
        /\ UNCHANGED <<files, base, rows, view, remote, todo, deltas, ops, up, log, objects, uploads>>
    BY DEF ClaimLamport, store
  <1>2. QED
    BY <1>1, LamportNat, LogRests, DataFacts DEF DataInv, PcState

LEMMA ResumeDoneData == ASSUME IInv, ResumeDone PROVE DataInv'
  <1>1. /\ pc' = "apply"
        /\ UNCHANGED <<files, base, clock, rows, view, remote, todo, deltas, ops, up, log, objects,
                       uploads>>
    BY DEF ResumeDone, local, store
  <1>2. QED
    BY <1>1, LogRests, DataFacts DEF DataInv, PcState

LEMMA StartsData ==
    ASSUME IInv, NEW p \in Path, ResumeUpload(p) \/ DropUpload(p) \/ RepairOne(p)
    PROVE  DataInv'
  <1>1. /\ UNCHANGED <<files, base, clock, pc, view, remote, deltas, ops, log, objects, uploads>>
        /\ todo' = todo \ {p} /\ DOMAIN rows' = Path
    BY DataFacts DEF ResumeUpload, DropUpload, RepairOne, NextResume, local, store
  <1>2. DOMAIN up' = Path
    BY DataFacts DEF ResumeUpload, DropUpload, RepairOne, Step
  <1>3. QED
    BY <1>1, <1>2, LogRests, DataFacts DEF DataInv

LEMMA EndsData == ASSUME IInv, Finish \/ RepairDone \/ Abort PROVE DataInv'
  <1>1. Forget /\ UNCHANGED <<files, base, uploads, log, rows, objects>>
    BY DEF Finish, RepairDone, Abort, local, store
  <1>2. clock' \in Nat
    BY LamportNat, DataFacts DEF Finish, RepairDone, Abort, local
  <1>3. QED
    BY <1>1, <1>2, ForgetData, DataFacts

LEMMA UserData ==
    ASSUME IInv, NEW p \in Path, UserDelete(p) \/ \E c \in Content : UserWrite(p, c)
    PROVE  DataInv'
  <1>1. UNCHANGED <<base, clock, rows, pc, view, remote, todo, deltas, ops, log, objects, uploads>>
    BY DEF UserDelete, UserWrite, pass, store
  <1>2. DOMAIN up' = Path
    BY DataFacts DEF UserDelete, UserWrite
  <1>3. files' \in [Path -> Hash]
    BY DataFacts DEF UserDelete, UserWrite, Hash
  <1>4. QED
    BY <1>1, <1>2, <1>3, LogRests, DataFacts DEF DataInv

LEMMA PeerEditData ==
    ASSUME IInv, NEW g \in Device, NEW p \in Path, NEW c \in Content, PeerEdit(g, p, c)
    PROVE  DataInv'
  <1>1. PICK e : e = [path |-> p, hash |-> c, deleted |-> FALSE, dev |-> g,
                      lamport |-> RemoteLamport(Entries(log)) + 1,
                      base |-> KnownHash(Merged(Entries(log)), p)]
    OBVIOUS
  <1>2. /\ log' = log \cup {[lamport |-> e.lamport, dev |-> g, entries |-> {e}]}
        /\ \E parts : StoreObject(Key(p, c), parts)
        /\ UNCHANGED <<files, base, clock, rows, pc, view, remote, todo, deltas, ops, up, uploads>>
    BY <1>1 DEF PeerEdit, local, pass
  <1>3. e.lamport \in Nat /\ e \in Entry
    <2>1. RemoteLamport(Entries(log)) + 1 \in Nat
      BY RemoteLamportNat
    <2>2. KnownHash(Merged(Entries(log)), p) \in Content \cup {None}
      BY MergedType, KnownHashType DEF Hash
    <2>3. QED
      BY <1>1, <2>1, <2>2 DEF Entry
  <1>4. Entries(log)' = Entries(log) \cup {e}
    <2>1. PICK o : o = [lamport |-> e.lamport, dev |-> g, entries |-> {e}]
      OBVIOUS
    <2>2. log' = log \cup {o} /\ o.entries = {e}
      BY <1>2, <2>1
    <2>3. QED
      BY <2>2 DEF Entries
  <1>5. LogBounded'
    <2>1. PICK n \in Nat : \A f \in Entries(log) \cup deltas : f.lamport <= n
      BY DataFacts DEF LogBounded
    <2>2. \A f \in Entries(log) \cup deltas : f.lamport \in Nat
      BY DataFacts DEF Entry
    <2>3. deltas' = deltas /\ e.lamport \in Nat
      BY <1>2, <1>3
    <2>4. n + e.lamport \in Nat /\ \A f \in Entries(log)' \cup deltas' : f.lamport <= n + e.lamport
      BY <1>4, <2>1, <2>2, <2>3
    <2>5. QED
      BY <2>4 DEF LogBounded
  <1>6. DOMAIN objects' \subseteq Path \X Content
    <2>1. Key(p, c) \in Path \X Content
      BY DEF Key
    <2>2. QED
      BY <1>2, <2>1, StoreData
  <1>7. QED
    BY <1>2, <1>3, <1>4, <1>5, <1>6, DataFacts DEF DataInv

LEMMA FaultData ==
    ASSUME IInv,
           \/ \E p \in Path : RequestFails(p)
           \/ \E m \in open : AbortOrphan(m)
           \/ \E k \in DOMAIN objects : Damage(k)
           \/ UNCHANGED vars
    PROVE  DataInv'
  <1>1. UNCHANGED <<files, base, clock, rows, pass, log, uploads>>
    BY DEF RequestFails, AbortOrphan, Damage, vars, local, store
  <1>2. DOMAIN objects' \subseteq Path \X Content
    BY DataFacts DEF RequestFails, AbortOrphan, Damage, vars, store
  <1>3. DOMAIN up' = Path
    BY DataFacts DEF RequestFails, AbortOrphan, Damage, vars, Step
  <1>4. QED
    BY <1>1, <1>2, <1>3, TransferData, DataFacts

LEMMA DataStep == ASSUME IInv, [Next]_vars PROVE DataInv'
  <1>1. CASE PassStep
    <2>1. ASSUME NEW p \in Path, ResumeUpload(p) \/ DropUpload(p) \/ Transfer(p) \/ Download(p) \/ RepairOne(p)
          PROVE  DataInv'
      BY <2>1, StartsData, TransferStepData, DownloadData
    <2>2. ASSUME NEW p \in Path, NEW kind \in {"DeleteLocal", "DeleteRemote", "Conflict"},
                 LateAction(p, kind)
          PROVE  DataInv'
      BY <2>2, LateActionData
    <2>3. ASSUME NEW o \in ops, Confirm(o) PROVE DataInv'
      BY <2>3, ConfirmData
    <2>4. QED
      BY <1>1, <2>1, <2>2, <2>3, PlanPassData, LogResumedData, ClaimLamportData, ResumeDoneData,
         FlushData, EndsData DEF PassStep
  <1>2. CASE Environment
    BY <1>2, WritesAssumption, MeAssumption, UserData, PeerEditData, VerifyRemoteData DEF Environment
  <1>3. CASE Fault \/ UNCHANGED vars
    BY <1>3, FaultData, EndsData DEF Fault
  <1>4. QED
    BY <1>1, <1>2, <1>3 DEF Next

-----------------------------------------------------------------------------
(* Whatever is interrupted, resumed, edited or fails on the way, and for any   *)
(* paths, sizes and bounds: the database claims only parts that the store has  *)
(* for the upload of its row, and between passes every multipart upload in the *)
(* store is named by a row or was left open by a fault (Consistent, of         *)
(* resume_uploads, upload_file and clear_upload).  A repair that starts while  *)
(* uploads are pending breaks it, so it is assumed that none does.             *)
THEOREM UploadsAreAccounted ==
    ASSUME ~DoctorMayInterfere
    PROVE  Spec => []Consistent
  <1>1. Init => IInv
    BY UploadInit
  <1>2. IInv /\ [Next]_vars => IInv'
    BY BooksStep, DataStep DEF IInv
  <1>3. IInv => Consistent
    BY IInvSuffices
  <1>4. QED
    BY <1>1, <1>2, <1>3, PTL DEF Spec

-----------------------------------------------------------------------------
(* What is stored is whole, unless its file changed while a transfer read it. *)

Torn(p) == Key(p, up[p].hash) \in torn

InStore(p, c) == Key(p, c) \in DOMAIN objects \cup damaged

Sound(parts, p, c) == Whole(parts, c) \/ (Key(p, c) \in torn /\ Len(parts) >= Size(c))

ObjectsWhole ==
    \A p \in Path, c \in Content : Key(p, c) \in DOMAIN objects => Sound(objects[Key(p, c)], p, c)

(* Every object that is, was or will be named was stored. *)
Delivered(p) ==
    up[p].phase = "done" \/ (up[p].phase = "clear" /\ up[p].fate = "ok") => InStore(p, up[p].hash)
Backed ==
    /\ \A e \in Entries(log) \cup deltas \cup view : InStore(e.path, e.hash)
    /\ \A p \in Path : Delivered(p)

(* The parts that the row of p lists are the first ones, of its content if no
   write reached the transfer. *)
RowParts(p) ==
    LET k == Key(p, rows[p].hash) IN
    Tracked(p) =>
        /\ \A m \in OpenId(rows[p].id) :
              /\ m.key = k
              /\ k \notin torn =>
                    \A i \in rows[p].parts : m.parts[i] = Part(rows[p].hash, i, rows[p].id)
        /\ \E n \in Nat : rows[p].parts = 1..n /\ (k \notin torn => n <= Size(rows[p].hash))

(* A transfer reads what was hashed, or its file is torn, and has sent what its row says. *)
TransferParts(p) ==
    /\ Reads(p) /\ ~Torn(p) => up[p].src = up[p].hash
    /\ Recorded(p) => up[p].hash = rows[p].hash
    /\ up[p].phase = "abort" /\ up[p].mode # "drop" => up[p].fate # "ok"
    /\ up[p].phase \in {"hashed", "begun"} => up[p].sent = {}
    /\ up[p].phase = "begun" => \A m \in OpenId(up[p].id) : m.key = Key(p, up[p].hash)
    /\ up[p].phase \in {"send", "sent", "finish"} => up[p].sent = rows[p].parts
    /\ up[p].phase = "send" => /\ up[p].n \in Nat \ {0}
                               /\ 1..(up[p].n - 1) \subseteq rows[p].parts
                               /\ up[p].mode # "resume" => rows[p].parts = 1..(up[p].n - 1)
    /\ up[p].phase = "sent" =>
          /\ up[p].n \in Nat \ {0}
          /\ rows[p].parts = 1..(up[p].n - 1)
          /\ ~Torn(p) =>
                /\ up[p].n <= Size(up[p].hash)
                /\ \A m \in OpenId(up[p].id) : m.parts[up[p].n] = Part(up[p].hash, up[p].n, up[p].id)
    /\ up[p].phase = "finish" => 1..Size(up[p].hash) \subseteq rows[p].parts

WholeInv == ObjectsWhole /\ Backed /\ \A p \in Path : RowParts(p) /\ TransferParts(p)

LEMMA WholeSuffices == ASSUME IInv, WholeInv PROVE LoggedIsWhole
  <1> SUFFICES ASSUME NEW e \in Entries(log), Key(e.path, e.hash) \notin damaged
               PROVE  /\ Key(e.path, e.hash) \in DOMAIN objects
                      /\ Sound(objects[Key(e.path, e.hash)], e.path, e.hash)
    BY DEF LoggedIsWhole, Sound
  <1>1. e.path \in Path /\ e.hash \in Content
    BY DataFacts DEF Entry
  <1>2. QED
    BY <1>1 DEF WholeInv, Backed, ObjectsWhole, InStore

LEMMA WholeInit == Init => WholeInv
  <1> SUFFICES ASSUME Init PROVE WholeInv
    OBVIOUS
  <1>1. /\ Entries(log) \cup deltas \cup view = {} /\ DOMAIN objects = {} /\ open = {}
        /\ \A p \in Path : rows[p] = NoRow /\ up[p] = Quiet
    BY DEF Init, Entries
  <1>2. NoRow.id = 0 /\ Quiet.phase = "none"
    BY DEF NoRow, Quiet
  <1>3. QED
    BY <1>1, <1>2 DEF WholeInv, ObjectsWhole, Backed, Delivered, RowParts, TransferParts, Tracked, Recorded,
       Reads

(* The multiparts of q's row are as they were. *)
OpenApart(q) ==
    \A m \in open' : \/ m \in open
                     \/ m.id > uploads
                     \/ \E k \in open : k.id = m.id /\ k.key[1] # q

LEMMA RowPartsRest ==
    ASSUME IInv, NEW q \in Path, RowParts(q), OpenApart(q), rows'[q] \in {rows[q], NoRow},
           torn \subseteq torn'
    PROVE  RowParts(q)'
  <1>1. CASE rows'[q] = NoRow
    BY <1>1 DEF RowParts, Tracked, NoRow
  <1>2. CASE rows'[q] = rows[q] /\ Tracked(q)
    <2>1. rows[q].id \in Nat /\ rows[q].id <= uploads
      BY Facts DEF RowOk, UploadRow
    <2>2. \A m \in OpenId(rows[q].id) : m.key[1] = q
      BY <1>2 DEF RowParts, Key
    <2>3. \A m \in open' : m.id = rows[q].id => m \in OpenId(rows[q].id)
      BY <2>1, <2>2, Facts DEF OpenApart, OpenId
    <2>4. Key(q, rows[q].hash)' = Key(q, rows[q].hash)
      BY <1>2 DEF Key
    <2>5. QED
      BY <1>2, <2>3, <2>4 DEF RowParts, Tracked, OpenId
  <1>3. CASE rows'[q] = rows[q] /\ ~Tracked(q)
    BY <1>3 DEF RowParts, Tracked
  <1>4. QED
    BY <1>1, <1>2, <1>3

LEMMA TransferPartsRest ==
    ASSUME IInv, NEW q \in Path, RowParts(q), TransferParts(q), OpenApart(q),
           rows'[q] = rows[q], up'[q] = up[q], torn \subseteq torn'
    PROVE  TransferParts(q)'
  <1>1. rows[q].id \in Nat /\ rows[q].id <= uploads /\ up[q].id \in Nat /\ up[q].id <= uploads
    BY Facts DEF RowOk, UploadRow, TransferRecord
  <1>2. up[q].phase = "begun" => \A m \in open' : m.id = up[q].id => m \in OpenId(up[q].id)
    <2>1. up[q].phase = "begun" => \A m \in OpenId(up[q].id) : m.key[1] = q
      BY DEF TransferParts, Key
    <2>2. QED
      BY <1>1, <2>1, Facts DEF OpenApart, OpenId
  <1>3. up[q].phase = "sent" => \A m \in open' : m.id = up[q].id => m \in OpenId(up[q].id)
    <2>1. up[q].phase = "sent" => Tracked(q) /\ rows[q].id = up[q].id
      BY Facts DEF RowOk, Recorded
    <2>2. up[q].phase = "sent" => \A m \in OpenId(up[q].id) : m.key[1] = q
      BY <2>1 DEF RowParts, Key
    <2>3. QED
      BY <1>1, <2>2, Facts DEF OpenApart, OpenId
  <1>4. (Torn(q) => Torn(q)') /\ Key(q, up[q].hash)' = Key(q, up[q].hash)
    BY DEF Torn, Key
  <1>5. QED
    BY <1>2, <1>3, <1>4 DEF TransferParts, Recorded, Reads, OpenId

LEMMA QuietParts == ASSUME NEW q, up'[q] = Quiet PROVE TransferParts(q)'
  BY DEF TransferParts, Recorded, Reads, Quiet

(* What was stored still is, or a fault took it. *)
StoreKeeps == torn \subseteq torn' /\ \A p \in Path, c \in Content : InStore(p, c) => InStore(p, c)'

LEMMA ObjectsRest ==
    ASSUME WholeInv, UNCHANGED <<objects, damaged>>, torn \subseteq torn'
    PROVE  ObjectsWhole' /\ StoreKeeps
  BY DEF WholeInv, ObjectsWhole, StoreKeeps, InStore, Sound, Whole, Part, Key

LEMMA StoreWhole ==
    ASSUME WholeInv, NEW p \in Path, NEW c \in Content, NEW parts, Sound(parts, p, c),
           StoreObject(Key(p, c), parts), torn' = torn
    PROVE  ObjectsWhole' /\ StoreKeeps /\ InStore(p, c)'
  <1>1. /\ DOMAIN objects' = DOMAIN objects \cup {Key(p, c)} /\ objects'[Key(p, c)] = parts
        /\ \A x \in DOMAIN objects : x # Key(p, c) => objects'[x] = objects[x]
        /\ damaged' = damaged \ {Key(p, c)}
    BY DEF StoreObject
  <1>2. StoreKeeps /\ InStore(p, c)'
    BY <1>1 DEF StoreKeeps, InStore
  <1>3. ASSUME NEW q \in Path, NEW d \in Content, Key(q, d) \in DOMAIN objects'
        PROVE  Sound(objects'[Key(q, d)], q, d)
    <2>1. CASE Key(q, d) = Key(p, c)
      BY <1>1, <2>1 DEF Key
    <2>2. CASE Key(q, d) # Key(p, c)
      BY <1>1, <1>3, <2>2 DEF WholeInv, ObjectsWhole
    <2>3. QED
      BY <2>1, <2>2
  <1>4. ObjectsWhole'
    BY <1>3 DEF ObjectsWhole, Sound, Whole, Part, Key
  <1>5. QED
    BY <1>2, <1>4

(* What a step that touches at most the transfer of p and its row must show. *)
LEMMA WholeMoves ==
    ASSUME IInv, WholeInv, ObjectsWhole', StoreKeeps, NEW p \in Path,
           \A q \in Path \ {p} : up'[q] = up[q] /\ rows'[q] = rows[q] /\ OpenApart(q),
           RowParts(p)', TransferParts(p)',
           Delivered(p)',
           \A e \in Entries(log)' \cup deltas' \cup view' :
              e \in Entries(log) \cup deltas \cup view \/ InStore(e.path, e.hash)'
    PROVE  WholeInv'
  <1>1. \A q \in Path \ {p} : RowParts(q)' /\ TransferParts(q)'
    BY RowPartsRest, TransferPartsRest DEF WholeInv, StoreKeeps
  <1>2. \A e \in Entries(log) \cup deltas \cup view : e.path \in Path /\ e.hash \in Content
    BY DataFacts DEF Entry
  <1>3. \A e \in Entries(log) \cup deltas \cup view : InStore(e.path, e.hash)'
    BY <1>2 DEF WholeInv, Backed, StoreKeeps
  <1>4. ASSUME NEW q \in Path \ {p} PROVE Delivered(q)'
    <2>1. up'[q] = up[q] /\ Delivered(q)
      BY DEF WholeInv, Backed
    <2>2. up[q].phase = "done" \/ (up[q].phase = "clear" /\ up[q].fate = "ok") => up[q].hash \in Content
      BY Facts DEF RowOk
    <2>3. QED
      BY <2>1, <2>2 DEF StoreKeeps, Delivered, InStore
  <1>6. Backed'
    BY <1>3, <1>4 DEF Backed
  <1>7. QED
    BY <1>1, <1>6 DEF WholeInv

LEMMA OpenOnly == ASSUME open' \subseteq open PROVE \A q \in Path : OpenApart(q)
  BY DEF OpenApart

(* A step of the transfer of p that logs nothing. *)
LEMMA TransferWhole ==
    ASSUME IInv, WholeInv, ObjectsWhole', StoreKeeps, NEW p \in Path, NEW t, Step(p, t),
           \A q \in Path \ {p} : rows'[q] = rows[q] /\ OpenApart(q),
           RowParts(p)', TransferParts(p)', Delivered(p)',
           UNCHANGED <<log, deltas, view>> \/ (Forget /\ log' = log)
    PROVE  WholeInv'
  <1>1. \A q \in Path \ {p} : up'[q] = up[q]
    BY Facts DEF Step
  <1>2. Entries(log)' \cup deltas' \cup view' \subseteq Entries(log) \cup deltas \cup view
    BY DEF Forget, Entries
  <1>3. QED
    BY <1>1, <1>2, WholeMoves

(* ... and that leaves the store alone, and the row. *)
LEMMA TransferOnly ==
    ASSUME IInv, WholeInv, NEW p \in Path, NEW t, Step(p, t), rows'[p] \in {rows[p], NoRow},
           \A q \in Path \ {p} : rows'[q] = rows[q],
           open' \subseteq open, UNCHANGED <<objects, damaged, torn>>,
           TransferParts(p)', t.phase = "done" \/ (t.phase = "clear" /\ t.fate = "ok") =>
              Delivered(p) /\ t.hash = up[p].hash /\ up[p].phase = "clear" /\ up[p].fate = "ok",
           UNCHANGED <<log, deltas, view>>
    PROVE  WholeInv'
  <1>1. up'[p] = t
    BY Facts DEF Step
  <1>2. Delivered(p)'
    BY <1>1 DEF Delivered, InStore
  <1>3. RowParts(p) /\ \A q \in Path : OpenApart(q)
    BY OpenOnly DEF WholeInv
  <1>4. RowParts(p)'
    BY <1>3, RowPartsRest
  <1>5. QED
    BY <1>2, <1>3, <1>4, ObjectsRest, TransferWhole

LEMMA WholeFacts ==
    ASSUME IInv, WholeInv, NEW p \in Path
    PROVE  /\ RowParts(p) /\ TransferParts(p) /\ Delivered(p) /\ RowOk(p)
           /\ up[p] \in TransferRecord /\ rows[p] \in UploadRow
           /\ up[p].phase # "none" /\ up[p].mode # "drop" =>
                 up[p].hash \in Content /\ Size(up[p].hash) \in Nat \ {0}
           /\ Tracked(p) => rows[p].hash \in Content /\ Size(rows[p].hash) \in Nat \ {0}
           /\ Recorded(p) => Tracked(p) /\ rows[p].id = up[p].id /\ up[p].hash = rows[p].hash
  BY Facts, SizeAssumption DEF WholeInv, Backed, RowOk, TransferParts

LEMMA NextPartIs ==
    ASSUME NEW p \in Path, NEW k \in Nat, rows[p].parts = 1..k
    PROVE  /\ up[p].mode = "resume" => NextPart(p) = k + 1
           /\ up[p].mode # "resume" => NextPart(p) = 1
  <1>1. CASE k = 0
    BY <1>1 DEF NextPart
  <1>2. CASE k # 0
    <2>1. 1..k # {} /\ k \in 1..k /\ \A j \in 1..k : j <= k
      BY <1>2
    <2>2. \A i \in 1..k : (\A j \in 1..k : j <= i) => i = k
      BY <1>2
    <2>3. rows[p].parts # {} /\ \A i \in rows[p].parts :
             (\A j \in rows[p].parts : j <= i) => i = k
      BY <2>1, <2>2
    <2>4. k \in rows[p].parts /\ \A j \in rows[p].parts : j <= k
      BY <2>1
    <2> DEFINE last == CHOOSE i \in rows[p].parts : \A j \in rows[p].parts : j <= i
    <2>5. last = k
      BY <2>3, <2>4
    <2>6. NextPart(p) = IF up[p].mode # "resume" \/ rows[p].parts = {} THEN 1 ELSE 1 + last
      BY DEF NextPart
    <2> HIDE DEF last
    <2>7. QED
      BY <2>3, <2>5, <2>6
  <1>3. QED
    BY <1>1, <1>2

LEMMA PutBytesWhole == ASSUME IInv, WholeInv, NEW p \in Path, PutBytes(p) PROVE WholeInv'
  <1>1. PICK read : read = [i \in 1..Size(up[p].src) |-> Part(up[p].src, i, uploads')]
    OBVIOUS
  <1>2. /\ up[p].phase = "hashed" /\ rows' = rows /\ UNCHANGED <<log, deltas, view, open, torn>>
        /\ Size(up[p].hash) = 1
    BY DEF PutBytes, local, pass
  <1>3. /\ up[p].mode # "drop" /\ up[p].hash \in Content
        /\ Key(p, up[p].hash) \notin torn => up[p].src = up[p].hash
    BY <1>2, WholeFacts DEF RowOk, TransferParts, Reads, Torn
  <1>4. RowParts(p)' /\ \A q \in Path : OpenApart(q)
    BY <1>2, OpenOnly, RowPartsRest, WholeFacts
  <1>5. CASE UNCHANGED <<objects, damaged>> /\ Step(p, Quiet)
    <2>1. TransferParts(p)'
      BY <1>5, QuietParts, Facts DEF Step
    <2>2. Quiet.phase = "none"
      BY DEF Quiet
    <2>3. QED
      BY <1>2, <1>5, <2>1, <2>2, TransferOnly
  <1>6. CASE /\ check_object_len(p, Len(read)) /\ StoreObject(Key(p, up[p].hash), read)
             /\ Step(p, [up[p] EXCEPT !.phase = "done"])
    <2>1. Len(read) = Size(up[p].hash)
      BY <1>6 DEF check_object_len
    <2>2. ASSUME Key(p, up[p].hash) \notin torn
          PROVE  Sound(read, p, up[p].hash)
      <3>1. DOMAIN read = 1..1 /\ \A i \in 1..1 : read[i] = Part(up[p].hash, i, uploads')
        BY <1>1, <1>2, <1>3, <2>2
      <3>2. read[1].nonce = uploads'
        BY <3>1 DEF Part
      <3>3. QED
        BY <2>1, <3>1, <3>2 DEF Whole, Sound
    <2>3. Sound(read, p, up[p].hash)
      BY <1>2, <2>1, <2>2 DEF Sound
    <2>4. PICK c \in Content : c = up[p].hash
      BY <1>3
    <2>5. ObjectsWhole' /\ StoreKeeps /\ InStore(p, c)'
      BY <1>2, <1>6, <2>3, <2>4, StoreWhole
    <2>6. PICK t : t = [up[p] EXCEPT !.phase = "done"]
      OBVIOUS
    <2>7. /\ t.phase = "done" /\ t.mode = up[p].mode /\ t.hash = c
          /\ Step(p, t) /\ up'[p] = t
      BY <1>3, <1>6, <2>4, <2>6, Facts DEF TransferRecord, Step
    <2>8. TransferParts(p)' /\ Delivered(p)'
      BY <2>5, <2>7 DEF TransferParts, Recorded, Reads, Delivered
    <2>9. QED
      BY <1>2, <1>4, <2>5, <2>7, <2>8, TransferWhole
  <1>7. QED
    BY <1>1, <1>5, <1>6 DEF PutBytes

LEMMA BeginPutWhole == ASSUME IInv, WholeInv, NEW p \in Path, BeginPut(p) PROVE WholeInv'
  <1> DEFINE t == [up[p] EXCEPT !.phase = "begun", !.id = uploads']
             m0 == [id |-> uploads', key |-> Key(p, up[p].hash), parts |-> <<>>]
  <1>1. /\ up[p].phase = "hashed" /\ Step(p, t) /\ rows' = rows /\ uploads' = uploads + 1
        /\ open' = open \cup {m0} /\ UNCHANGED <<log, deltas, view, objects, damaged, torn>>
    BY DEF BeginPut, local, pass, ghosts
  <1>2. /\ t.phase = "begun" /\ t.mode = up[p].mode /\ t.id = uploads' /\ t.hash = up[p].hash
        /\ t.src = up[p].src /\ t.sent = up[p].sent
    BY <1>1, Facts DEF TransferRecord
  <1>3. m0.id = uploads' /\ m0.key = Key(p, up[p].hash)
    OBVIOUS
  <1> HIDE DEF t, m0
  <1>4. up'[p] = t
    BY <1>1, Facts DEF Step
  <1>5. uploads \in Nat /\ \A m \in open : m.id \in 1..uploads
    BY Facts DEF OpenOk
  <1>6. \A q \in Path : OpenApart(q)
    BY <1>1, <1>3, <1>5 DEF OpenApart
  <1>7. RowParts(p)'
    BY <1>1, <1>6, RowPartsRest, WholeFacts
  <1>8. Torn(p)' <=> Torn(p)
    BY <1>1, <1>2, <1>4 DEF Torn, Key
  <1>9. \A m \in open' : m.id = uploads' => m.key = Key(p, up[p].hash)
    BY <1>1, <1>3, <1>5
  <1>10. TransferParts(p)'
    BY <1>1, <1>2, <1>4, <1>9, <1>8, WholeFacts DEF TransferParts, Recorded, Reads, OpenId, Key
  <1>11. Delivered(p)'
    BY <1>2, <1>4 DEF Delivered
  <1>12. QED
    BY <1>1, <1>6, <1>7, <1>10, <1>11, ObjectsRest, TransferWhole

LEMMA RecordStartWhole == ASSUME IInv, WholeInv, NEW p \in Path, RecordStart(p) PROVE WholeInv'
  <1> DEFINE t == [up[p] EXCEPT !.phase = "send", !.n = 1]
             r == [rows[p] EXCEPT !.id = up[p].id, !.hash = up[p].hash]
  <1>1. /\ up[p].phase = "begun" /\ Step(p, t) /\ rows' = [rows EXCEPT ![p] = r]
        /\ UNCHANGED <<log, deltas, view, open, objects, damaged, torn>>
    BY DEF RecordStart, pass, store, ghosts
  <1>2. /\ t.phase = "send" /\ t.mode = up[p].mode /\ t.id = up[p].id /\ t.hash = up[p].hash
        /\ t.src = up[p].src /\ t.n = 1 /\ t.sent = up[p].sent
    BY <1>1, Facts DEF TransferRecord
  <1>3. r.id = up[p].id /\ r.hash = up[p].hash /\ r.parts = rows[p].parts
    BY Facts DEF UploadRow
  <1> HIDE DEF t, r
  <1>4. up'[p] = t /\ rows'[p] = r /\ \A q \in Path \ {p} : rows'[q] = rows[q]
    BY <1>1, Facts DEF Step
  <1>5. rows[p].parts = {} /\ up[p].hash \in Content /\ up[p].mode # "drop"
        /\ Size(up[p].hash) \in Nat \ {0}
    BY <1>1, WholeFacts DEF RowOk
  <1>6. /\ ~Torn(p) => up[p].src = up[p].hash
        /\ \A m \in open : m.id = up[p].id => m.key = Key(p, up[p].hash)
    BY <1>1, <1>5, WholeFacts DEF TransferParts, Reads, OpenId
  <1>7. RowParts(p)'
    <2>1. 0 \in Nat /\ r.parts = 1..0 /\ 0 <= Size(up[p].hash)
      BY <1>3, <1>5
    <2>2. QED
      BY <1>1, <1>3, <1>4, <1>5, <1>6, <2>1 DEF RowParts, Tracked, OpenId, Key
  <1>8. TransferParts(p)'
    <2>1. 1 \in Nat \ {0} /\ 1..(1 - 1) = {}
      OBVIOUS
    <2>2. t.sent = {}
      BY <1>1, <1>2, WholeFacts DEF TransferParts
    <2>3. Torn(p)' <=> Torn(p)
      BY <1>1, <1>2, <1>4 DEF Torn, Key
    <2>4. QED
      BY <1>1, <1>2, <1>3, <1>4, <1>5, <1>6, <2>1, <2>2, <2>3 DEF TransferParts, Recorded, Reads
  <1>9. Delivered(p)'
    BY <1>2, <1>4 DEF Delivered
  <1>10. QED
    BY <1>1, <1>4, <1>7, <1>8, <1>9, OpenOnly, ObjectsRest, TransferWhole

(* A transfer that sends: its row, its parts and the number of the next one. *)
LEMMA Sending ==
    ASSUME IInv, WholeInv, NEW p \in Path, up[p].phase \in {"send", "sent", "finish"}
    PROVE  /\ Tracked(p) /\ rows[p].id = up[p].id /\ up[p].hash = rows[p].hash
           /\ up[p].phase # "finish" /\ ~Torn(p) => up[p].src = up[p].hash
           /\ up[p].hash \in Content /\ Size(up[p].hash) \in Nat \ {0} /\ up[p].n \in Nat
           /\ up[p].sent = rows[p].parts /\ up[p].mode # "drop"
           /\ \E k \in Nat : rows[p].parts = 1..k /\ (~Torn(p) => k <= Size(up[p].hash))
           /\ \A m \in OpenId(up[p].id) :
                 /\ m.key = Key(p, up[p].hash)
                 /\ ~Torn(p) => \A i \in rows[p].parts : m.parts[i] = Part(up[p].hash, i, up[p].id)
  <1>1. Recorded(p) /\ up[p].mode # "drop"
    BY Facts DEF Recorded, RowOk
  <1>2. QED
    BY <1>1, WholeFacts DEF RowParts, TransferParts, TransferRecord, Reads, Torn

LEMMA SkipPartWhole == ASSUME IInv, WholeInv, NEW p \in Path, SkipPart(p) PROVE WholeInv'
  <1> DEFINE t == [up[p] EXCEPT !.n = @ + 1]
  <1>1. /\ up[p].phase = "send" /\ up[p].n < NextPart(p)
        /\ Step(p, t) /\ rows' = rows /\ UNCHANGED <<log, deltas, view, open, objects, damaged, torn>>
    BY DEF SkipPart, Reading, Only, local, pass, store, ghosts
  <1>2. /\ t.phase = "send" /\ t.mode = up[p].mode /\ t.id = up[p].id /\ t.hash = up[p].hash
        /\ t.src = up[p].src /\ t.n = up[p].n + 1 /\ t.sent = up[p].sent
    BY <1>1, Facts DEF TransferRecord
  <1> HIDE DEF t
  <1>3. up'[p] = t /\ rows'[p] = rows[p]
    BY <1>1, Facts DEF Step
  <1>4. PICK k \in Nat : rows[p].parts = 1..k
    BY <1>1, Sending
  <1>5. up[p].n \in Nat \ {0}
    BY <1>1, WholeFacts DEF TransferParts
  <1>6. up[p].mode = "resume" /\ up[p].n <= k
    <2>1. up[p].mode = "resume"
      BY <1>1, <1>4, <1>5, NextPartIs
    <2>2. NextPart(p) = k + 1
      BY <1>4, <2>1, NextPartIs
    <2>3. QED
      BY <1>1, <1>5, <2>1, <2>2
  <1>7. t.n \in Nat \ {0} /\ 1..(t.n - 1) \subseteq rows[p].parts
    BY <1>2, <1>4, <1>5, <1>6
  <1>8. Torn(p)' <=> Torn(p)
    BY <1>1, <1>2, <1>3 DEF Torn, Key
  <1>9. TransferParts(p)'
    BY <1>1, <1>2, <1>3, <1>6, <1>7, <1>8, Sending DEF TransferParts, Recorded, Reads
  <1>10. QED
    BY <1>1, <1>2, <1>3, <1>9, TransferOnly

LEMMA WritePartWhole == ASSUME IInv, WholeInv, NEW p \in Path, WritePart(p) PROVE WholeInv'
  <1>1. /\ up[p].phase = "send" /\ up[p].n <= Size(up[p].src) /\ up[p].n >= NextPart(p)
        /\ rows' = rows /\ UNCHANGED <<log, deltas, view, objects, damaged, torn>>
    BY DEF WritePart, Reading, local, pass, ghosts
  <1>2. PICK k \in Nat : rows[p].parts = 1..k
    BY <1>1, Sending
  <1>3. /\ up[p].n \in Nat \ {0} /\ 1..(up[p].n - 1) \subseteq rows[p].parts
        /\ up[p].mode # "resume" => rows[p].parts = 1..(up[p].n - 1)
    BY <1>1, WholeFacts DEF TransferParts
  <1>4. /\ rows[p].parts = 1..(up[p].n - 1)
        /\ ~Torn(p) => up[p].n <= Size(up[p].hash) /\ up[p].src = up[p].hash
    <2>1. ~Torn(p) => up[p].n <= Size(up[p].hash) /\ up[p].src = up[p].hash
      BY <1>1, Sending
    <2>2. CASE up[p].mode = "resume"
      <3>1. up[p].n >= k + 1
        BY <1>1, <1>2, <2>2, NextPartIs
      <3>2. up[p].n - 1 <= k
        <4>1. CASE up[p].n = 1
          BY <4>1
        <4>2. CASE up[p].n # 1
          <5>1. up[p].n - 1 \in 1..(up[p].n - 1)
            BY <1>3, <4>2
          <5>2. up[p].n - 1 \in 1..k
            BY <1>2, <1>3, <5>1
          <5>3. QED
            BY <5>2
        <4>3. QED
          BY <4>1, <4>2
      <3>3. up[p].n - 1 = k
        BY <1>3, <3>1, <3>2
      <3>4. QED
        BY <1>2, <2>1, <3>3
    <2>3. QED
      BY <1>3, <2>1, <2>2
  <1>5. CASE open' = open /\ Step(p, [up[p] EXCEPT !.phase = "abort", !.fate = "gone"])
    <2>1. PICK t : t = [up[p] EXCEPT !.phase = "abort", !.fate = "gone"]
      OBVIOUS
    <2>2. /\ t.phase = "abort" /\ t.fate = "gone" /\ t.hash = up[p].hash /\ t.src = up[p].src
          /\ Step(p, t) /\ up'[p] = t /\ rows'[p] = rows[p]
      BY <1>1, <1>5, <2>1, Facts DEF TransferRecord, Step
    <2>3. TransferParts(p)'
      BY <1>1, <2>2, Sending DEF TransferParts, Recorded, Reads
    <2>4. QED
      BY <1>1, <1>5, <2>2, <2>3, TransferOnly
  <1>6. ASSUME NEW m \in OpenId(up[p].id),
               open' = (open \ {m}) \cup {PutPart(m, up[p].n, Part(up[p].src, up[p].n, StreamNonce(p)))},
               Step(p, [up[p] EXCEPT !.phase = "sent"])
        PROVE  WholeInv'
    <2>1. PICK t : t = [up[p] EXCEPT !.phase = "sent"]
      OBVIOUS
    <2>2. /\ t.phase = "sent" /\ t.mode = up[p].mode /\ t.id = up[p].id /\ t.n = up[p].n
          /\ t.hash = up[p].hash /\ t.src = up[p].src /\ t.sent = up[p].sent
          /\ Step(p, t) /\ up'[p] = t /\ rows'[p] = rows[p]
      BY <1>1, <1>6, <2>1, Facts DEF TransferRecord, Step
    <2>3. PICK x : x = Part(up[p].src, up[p].n, up[p].id)
      OBVIOUS
    <2>4. PICK z : z = PutPart(m, up[p].n, x)
      OBVIOUS
    <2>5. open' = (open \ {m}) \cup {z}
      BY <1>1, <1>6, <2>3, <2>4, Sending DEF StreamNonce
    <2>6. m \in open /\ m.id = up[p].id /\ DOMAIN m = {"id", "key", "parts"}
      BY Facts DEF OpenId, OpenOk
    <2>7. /\ z.id = m.id /\ z.key = m.key /\ z.parts[up[p].n] = x
          /\ \A i \in DOMAIN m.parts : i # up[p].n => z.parts[i] = m.parts[i]
      BY <2>4, <2>6 DEF PutPart
    <2>8. \A i \in rows[p].parts : i \in DOMAIN m.parts /\ i # up[p].n
      <3>1. rows[p].parts \subseteq DOMAIN m.parts
        BY <1>1, <1>6, Sending, Facts DEF RowOk
      <3>2. QED
        BY <1>4, <3>1
    <2>9. \A y \in open' : y.id = m.id => y = z
      BY <2>5, <2>6, Facts DEF OpenOk
    <2>10. \A q \in Path \ {p} : OpenApart(q)
      <3>1. m.key[1] = p
        BY <1>1, Sending DEF Key
      <3>2. QED
        BY <2>5, <2>6, <2>7, <3>1 DEF OpenApart
    <2>11. /\ z.key = Key(p, up[p].hash)
           /\ ~Torn(p) => \A i \in rows[p].parts : z.parts[i] = Part(up[p].hash, i, up[p].id)
      <3>1. /\ m.key = Key(p, up[p].hash)
            /\ ~Torn(p) => \A i \in rows[p].parts : m.parts[i] = Part(up[p].hash, i, up[p].id)
        BY <1>1, Sending
      <3>2. QED
        BY <2>7, <2>8, <3>1
    <2>12. RowParts(p)'
      <3>1. rows[p].hash = up[p].hash /\ rows[p].id = m.id /\ RowParts(p)
        BY <1>1, <2>6, Sending, WholeFacts
      <3>2. /\ Key(p, rows[p].hash)' = Key(p, rows[p].hash)
            /\ Key(p, rows[p].hash) \in torn <=> Torn(p)
        BY <2>2, <3>1 DEF Key, Torn
      <3>3. QED
        BY <1>1, <2>2, <2>6, <2>9, <2>11, <3>1, <3>2 DEF RowParts, Tracked, OpenId
    <2>13. Torn(p)' <=> Torn(p)
      BY <1>1, <2>2 DEF Torn, Key
    <2>14. TransferParts(p)'
      BY <1>1, <1>3, <1>4, <2>2, <2>3, <2>6, <2>7, <2>9, <2>13, Sending
         DEF TransferParts, Recorded, Reads, OpenId
    <2>15. Delivered(p)'
      BY <2>2 DEF Delivered
    <2>16. QED
      BY <1>1, <2>2, <2>10, <2>12, <2>14, <2>15, ObjectsRest, TransferWhole
  <1>7. QED
    BY <1>5, <1>6 DEF WritePart

LEMMA RecordPartWhole == ASSUME IInv, WholeInv, NEW p \in Path, RecordPart(p) PROVE WholeInv'
  <1> DEFINE t == [up[p] EXCEPT !.phase = "send", !.n = @ + 1, !.sent = @ \cup {up[p].n}]
             r == [rows[p] EXCEPT !.parts = @ \cup {up[p].n}]
  <1>1. /\ up[p].phase = "sent" /\ Step(p, t)
        /\ UNCHANGED <<log, deltas, view, open, objects, damaged, torn>>
    BY DEF RecordPart, pass, store, ghosts
  <1>2. rows' = [rows EXCEPT ![p] = r]
    BY Facts DEF RecordPart, UploadRow
  <1>3. /\ t.phase = "send" /\ t.mode = up[p].mode /\ t.id = up[p].id /\ t.hash = up[p].hash
        /\ t.src = up[p].src /\ t.n = up[p].n + 1 /\ t.sent = up[p].sent \cup {up[p].n}
    BY <1>1, Facts DEF TransferRecord
  <1>4. r.id = rows[p].id /\ r.hash = rows[p].hash /\ r.parts = rows[p].parts \cup {up[p].n}
    BY Facts DEF UploadRow
  <1> HIDE DEF t, r
  <1>5. up'[p] = t /\ rows'[p] = r /\ \A q \in Path \ {p} : rows'[q] = rows[q]
    BY <1>1, <1>2, Facts DEF Step
  <1>6. /\ up[p].n \in Nat \ {0} /\ rows[p].parts = 1..(up[p].n - 1)
        /\ ~Torn(p) =>
              /\ up[p].n <= Size(up[p].hash)
              /\ \A m \in OpenId(up[p].id) : m.parts[up[p].n] = Part(up[p].hash, up[p].n, up[p].id)
    BY <1>1, WholeFacts DEF TransferParts
  <1>7. r.parts = 1..up[p].n /\ t.n - 1 = up[p].n /\ t.n \in Nat \ {0}
    BY <1>3, <1>4, <1>6
  <1>8. Torn(p)' <=> Torn(p)
    BY <1>1, <1>3, <1>5 DEF Torn, Key
  <1>9. RowParts(p)'
    <2>1. /\ rows[p].hash = up[p].hash /\ rows[p].id = up[p].id /\ Tracked(p)
          /\ r.hash = up[p].hash /\ r.id = up[p].id
      BY <1>1, <1>4, Sending
    <2>5. OpenId(rows[p].id)' = OpenId(up[p].id)
      BY <1>1, <1>5, <2>1 DEF OpenId
    <2>6. Key(p, rows[p].hash)' = Key(p, up[p].hash)
      BY <1>5, <2>1 DEF Key
    <2>2. /\ \A m \in OpenId(up[p].id) : m.key = Key(p, up[p].hash)
          /\ ~Torn(p) => \A m \in OpenId(up[p].id) : \A i \in r.parts :
                             m.parts[i] = Part(up[p].hash, i, up[p].id)
      BY <1>1, <1>4, <1>6, Sending
    <2>3. Key(p, up[p].hash) \in torn' <=> Torn(p)
      BY <1>1 DEF Torn
    <2>4. QED
      BY <1>4, <1>5, <1>6, <1>7, <2>1, <2>5, <2>6, <2>2, <2>3 DEF RowParts, Tracked
  <1>10. TransferParts(p)'
    BY <1>1, <1>3, <1>4, <1>5, <1>7, <1>8, Sending DEF TransferParts, Recorded, Reads
  <1>11. Delivered(p)'
    BY <1>3, <1>5 DEF Delivered
  <1>12. QED
    BY <1>1, <1>5, <1>9, <1>10, <1>11, OpenOnly, ObjectsRest, TransferWhole

LEMMA LastPartWhole == ASSUME IInv, WholeInv, NEW p \in Path, LastPart(p) PROVE WholeInv'
  <1>1. /\ up[p].phase = "send"
        /\ rows' = rows /\ UNCHANGED <<log, deltas, view, open, objects, damaged, torn>>
    BY DEF LastPart, Only, local, pass, store, ghosts
  <1>2. PICK t : /\ \/ check_object_len(p, up[p].n - 1) /\ t = [up[p] EXCEPT !.phase = "finish"]
                    \/ t = [up[p] EXCEPT !.phase = "abort", !.fate = "failed"]
                 /\ Step(p, t)
    BY DEF LastPart, Only
  <1>3. /\ \/ t.phase = "finish" /\ up[p].n - 1 = Size(up[p].hash)
           \/ t.phase = "abort" /\ t.fate = "failed"
        /\ t.mode = up[p].mode /\ t.hash = up[p].hash /\ t.sent = up[p].sent
    BY <1>2, Facts DEF TransferRecord, check_object_len
  <1>4. up'[p] = t /\ rows'[p] = rows[p]
    BY <1>1, <1>2, Facts DEF Step
  <1>5. 1..(up[p].n - 1) \subseteq rows[p].parts
    BY <1>1, WholeFacts DEF TransferParts
  <1>6. TransferParts(p)'
    BY <1>1, <1>3, <1>4, <1>5, Sending DEF TransferParts, Recorded, Reads
  <1>7. QED
    BY <1>1, <1>2, <1>3, <1>4, <1>6, TransferOnly

LEMMA FinishPutWhole == ASSUME IInv, WholeInv, NEW p \in Path, FinishPut(p) PROVE WholeInv'
  <1>1. /\ up[p].phase = "finish" /\ open' \subseteq open
        /\ rows' = rows /\ UNCHANGED <<log, deltas, view, torn>>
    BY DEF FinishPut, local, pass
  <1>2. PICK t : /\ t \in {[up[p] EXCEPT !.phase = "clear"],
                           [up[p] EXCEPT !.phase = "clear", !.fate = "gone"]}
                 /\ Step(p, t)
    BY DEF FinishPut
  <1>3. /\ t.phase = "clear" /\ t.mode = up[p].mode /\ t.hash = up[p].hash
    BY <1>2, Facts DEF TransferRecord
  <1>4. up'[p] = t /\ rows'[p] = rows[p]
    BY <1>1, <1>2, Facts DEF Step
  <1>5. TransferParts(p)'
    BY <1>1, <1>3, <1>4, Sending DEF TransferParts, Recorded, Reads
  <1>6. RowParts(p)' /\ \A q \in Path : OpenApart(q)
    BY <1>1, <1>4, OpenOnly, RowPartsRest, WholeFacts
  <1>7. CASE UNCHANGED <<objects, damaged>> /\ Step(p, [up[p] EXCEPT !.phase = "clear", !.fate = "gone"])
    <2>1. up'[p].fate = "gone"
      BY <1>7, Facts DEF Step, TransferRecord
    <2>2. Delivered(p)'
      BY <1>3, <1>4, <2>1 DEF Delivered
    <2>3. QED
      BY <1>1, <1>2, <1>5, <1>6, <1>7, <2>2, ObjectsRest, TransferWhole
  <1>8. ASSUME NEW m \in OpenId(up[p].id),
               StoreObject(m.key, [i \in up[p].sent |-> m.parts[i]])
        PROVE  WholeInv'
    <2>1. PICK c \in Content : c = up[p].hash
      BY <1>1, Sending
    <2>2. PICK k \in Nat : /\ up[p].sent = 1..k /\ k >= Size(c) /\ Size(c) \in Nat \ {0}
                           /\ ~Torn(p) => k = Size(c)
      <3>1. PICK k \in Nat : rows[p].parts = 1..k /\ (~Torn(p) => k <= Size(c))
        BY <1>1, <2>1, Sending
      <3>2. 1..Size(c) \subseteq 1..k /\ up[p].sent = 1..k /\ Size(c) \in Nat \ {0}
        BY <1>1, <2>1, <3>1, Sending, WholeFacts DEF TransferParts
      <3>3. Size(c) \in 1..k
        BY <3>2
      <3>4. QED
        BY <3>1, <3>2, <3>3
    <2>3. /\ m.key = Key(p, c)
          /\ ~Torn(p) => \A i \in up[p].sent : m.parts[i] = Part(c, i, up[p].id)
      BY <1>1, <2>1, Sending
    <2>4. PICK parts : parts = [i \in up[p].sent |-> m.parts[i]]
      OBVIOUS
    <2>5. parts = [i \in 1..k |-> m.parts[i]]
      BY <2>2, <2>4
    <2>6. Len(parts) = k /\ DOMAIN parts = 1..k
      BY <2>5
    <2>7. Sound(parts, p, c)
      <3>1. CASE ~Torn(p)
        <4>1. \A i \in DOMAIN parts : parts[i] = Part(c, i, up[p].id)
          BY <2>2, <2>3, <2>4, <3>1
        <4>2. 1 \in DOMAIN parts
          BY <2>2, <2>6
        <4>3. parts[1].nonce = up[p].id
          BY <4>1, <4>2 DEF Part
        <4>4. QED
          BY <2>2, <2>6, <3>1, <4>1, <4>3 DEF Whole, Sound
      <3>2. CASE Torn(p)
        BY <2>1, <2>2, <2>6, <3>2 DEF Torn, Sound
      <3>3. QED
        BY <3>1, <3>2
    <2>8. ObjectsWhole' /\ StoreKeeps /\ InStore(p, c)'
      BY <1>1, <1>8, <2>3, <2>4, <2>7, StoreWhole
    <2>9. Delivered(p)'
      BY <1>3, <1>4, <2>1, <2>8 DEF Delivered
    <2>10. QED
      BY <1>1, <1>2, <1>5, <1>6, <2>8, <2>9, TransferWhole
  <1>9. QED
    BY <1>7, <1>8 DEF FinishPut

LEMMA AbortPutWhole == ASSUME IInv, WholeInv, NEW p \in Path, AbortPut(p) PROVE WholeInv'
  <1>1. /\ up[p].phase = "abort" /\ open' \subseteq open
        /\ rows' = rows /\ UNCHANGED <<log, deltas, view, objects, damaged, torn>>
    BY DEF AbortPut, local, pass, ghosts
  <1>2. CASE up[p].mode = "drop" /\ Step(p, Quiet)
    <2>1. up'[p] = Quiet /\ Quiet.phase = "none" /\ rows'[p] = rows[p]
      BY <1>1, <1>2, Facts DEF Step, Quiet
    <2>2. QED
      BY <1>1, <1>2, <2>1, QuietParts, TransferOnly
  <1>3. CASE up[p].mode # "drop" /\ Step(p, [up[p] EXCEPT !.phase = "clear"])
    <2>1. PICK t : t = [up[p] EXCEPT !.phase = "clear"]
      OBVIOUS
    <2>2. /\ t.phase = "clear" /\ t.mode = up[p].mode /\ t.hash = up[p].hash
          /\ t.fate = up[p].fate /\ Step(p, t) /\ up'[p] = t /\ rows'[p] = rows[p]
      BY <1>1, <1>3, <2>1, Facts DEF TransferRecord, Step
    <2>3. up[p].fate # "ok" /\ up[p].hash = rows[p].hash
      BY <1>1, <1>3, WholeFacts DEF TransferParts, Recorded
    <2>4. TransferParts(p)'
      BY <2>2, <2>3 DEF TransferParts, Recorded, Reads
    <2>5. QED
      BY <1>1, <2>2, <2>3, <2>4, TransferOnly
  <1>4. QED
    BY <1>2, <1>3 DEF AbortPut

LEMMA RequestFailsWhole == ASSUME IInv, WholeInv, NEW p \in Path, RequestFails(p) PROVE WholeInv'
  <1>1. rows' = rows /\ open' \subseteq open /\ UNCHANGED <<log, deltas, view, objects, damaged, torn>>
    BY DEF RequestFails, local, pass
  <1>2. CASE Step(p, Quiet)
    <2>1. up'[p] = Quiet /\ Quiet.phase = "none" /\ rows'[p] = rows[p]
      BY <1>1, <1>2, Facts DEF Step, Quiet
    <2>2. QED
      BY <1>1, <1>2, <2>1, QuietParts, TransferOnly
  <1>3. ASSUME NEW t, Step(p, t), Recorded(p), t.phase \in {"abort", "clear"}, t.fate # "ok",
               t.mode = up[p].mode, t.hash = up[p].hash
        PROVE  WholeInv'
    <2>1. up'[p] = t /\ rows'[p] = rows[p]
      BY <1>1, <1>3, Facts DEF Step
    <2>2. up[p].phase # "none" /\ up[p].mode # "drop"
      BY <1>3, Facts DEF Recorded, RowOk
    <2>3. TransferParts(p)'
      BY <1>3, <2>1, <2>2, WholeFacts DEF TransferParts, Recorded, Reads
    <2>4. QED
      BY <1>1, <1>3, <2>1, <2>3, TransferOnly
  <1>4. CASE Reading(p) /\ Step(p, [up[p] EXCEPT !.phase = "abort", !.fate = "failed"])
    <2>1. PICK t : t = [up[p] EXCEPT !.phase = "abort", !.fate = "failed"]
      OBVIOUS
    <2>2. /\ t.phase = "abort" /\ t.fate = "failed" /\ t.mode = up[p].mode
          /\ t.hash = up[p].hash /\ Recorded(p)
      BY <1>4, <2>1, Facts DEF TransferRecord, Reading, Recorded
    <2>3. QED
      BY <1>3, <1>4, <2>1, <2>2
  <1>5. CASE up[p].phase = "finish" /\ Step(p, [up[p] EXCEPT !.phase = "clear", !.fate = "failed"])
    <2>1. PICK t : t = [up[p] EXCEPT !.phase = "clear", !.fate = "failed"]
      OBVIOUS
    <2>2. /\ t.phase = "clear" /\ t.fate = "failed" /\ t.mode = up[p].mode
          /\ t.hash = up[p].hash /\ Recorded(p)
      BY <1>5, <2>1, Facts DEF TransferRecord, Recorded
    <2>3. QED
      BY <1>3, <1>5, <2>1, <2>2
  <1>6. CASE up[p].phase = "abort" /\ up[p].mode # "drop" /\ Step(p, [up[p] EXCEPT !.phase = "clear"])
    <2>1. PICK t : t = [up[p] EXCEPT !.phase = "clear"]
      OBVIOUS
    <2>2. /\ t.phase = "clear" /\ t.fate = up[p].fate /\ t.mode = up[p].mode
          /\ t.hash = up[p].hash /\ Recorded(p)
      BY <1>6, <2>1, Facts DEF TransferRecord, Recorded
    <2>3. up[p].fate # "ok"
      BY <1>6, WholeFacts DEF TransferParts
    <2>4. QED
      BY <1>3, <1>6, <2>1, <2>2, <2>3
  <1>7. QED
    BY <1>2, <1>4, <1>5, <1>6 DEF RequestFails

(* A pass ends. *)
LEMMA ForgetWhole ==
    ASSUME IInv, WholeInv, Forget, log' = log, open' \subseteq open, UNCHANGED <<objects, damaged, torn>>,
           \A q \in Path : rows'[q] \in {rows[q], NoRow}
    PROVE  WholeInv'
  <1>1. \A q \in Path : up'[q] = Quiet
    BY DEF Forget
  <1>2. \A q \in Path : RowParts(q)' /\ TransferParts(q)'
    BY <1>1, OpenOnly, RowPartsRest, QuietParts, WholeFacts
  <1>3. Entries(log)' \cup deltas' \cup view' \subseteq Entries(log)
    BY DEF Forget, Entries
  <1>4. \A e \in Entries(log)' \cup deltas' \cup view' : InStore(e.path, e.hash)'
    BY <1>3 DEF WholeInv, Backed, InStore
  <1>5. \A q \in Path : Delivered(q)'
    BY <1>1 DEF Delivered, Quiet
  <1>6. QED
    BY <1>2, <1>4, <1>5, ObjectsRest DEF WholeInv, Backed

LEMMA EndsWhole == ASSUME IInv, WholeInv, Finish \/ RepairDone \/ Abort PROVE WholeInv'
  <1>1. Forget /\ log' = log /\ open' \subseteq open /\ UNCHANGED <<rows, objects, damaged, torn>>
    BY DEF Finish, RepairDone, Abort, local, store, ghosts
  <1>2. QED
    BY <1>1, ForgetWhole

LEMMA ClearUploadWhole == ASSUME IInv, WholeInv, NEW p \in Path, ClearUpload(p) PROVE WholeInv'
  <1>1. /\ up[p].phase = "clear" /\ rows' = [rows EXCEPT ![p] = NoRow]
        /\ UNCHANGED <<open, log, objects, damaged, torn>>
    BY DEF ClearUpload, store, ghosts
  <1>2. rows'[p] = NoRow /\ \A q \in Path \ {p} : rows'[q] = rows[q]
    BY <1>1, Facts
  <1>3. CASE Forget
    BY <1>1, <1>2, <1>3, ForgetWhole
  <1>4. CASE Step(p, Quiet) /\ UNCHANGED pass
    <2>1. up'[p] = Quiet /\ Quiet.phase = "none"
      BY <1>4, Facts DEF Step, Quiet
    <2>2. QED
      BY <1>1, <1>2, <1>4, <2>1, QuietParts, TransferOnly DEF pass
  <1>5. CASE up[p].fate = "ok" /\ Step(p, [up[p] EXCEPT !.phase = "done"]) /\ UNCHANGED pass
    <2>1. PICK t : t = [up[p] EXCEPT !.phase = "done"]
      OBVIOUS
    <2>2. t.phase = "done" /\ t.hash = up[p].hash /\ Step(p, t) /\ up'[p] = t
      BY <1>5, <2>1, Facts DEF TransferRecord, Step
    <2>3. TransferParts(p)'
      BY <2>2 DEF TransferParts, Recorded, Reads
    <2>4. QED
      BY <1>1, <1>2, <1>5, <2>2, <2>3, WholeFacts, TransferOnly DEF pass
  <1>6. QED
    BY <1>3, <1>4, <1>5 DEF ClearUpload, AfterClear

LEMMA JoinWhole == ASSUME IInv, WholeInv, NEW p \in Path, Join(p) PROVE WholeInv'
  <1>1. /\ up[p].phase = "done" /\ Step(p, Quiet) /\ rows' = rows
        /\ UNCHANGED <<open, log, objects, damaged, torn>>
    BY DEF Join, local, store, ghosts
  <1>2. /\ up'[p] = Quiet /\ rows'[p] = rows[p]
        /\ \A q \in Path \ {p} : up'[q] = up[q] /\ rows'[q] = rows[q]
    BY <1>1, Facts DEF Step
  <1>3. ObjectsWhole' /\ StoreKeeps /\ \A q \in Path : OpenApart(q)
    BY <1>1, OpenOnly, ObjectsRest
  <1>4. RowParts(p)' /\ TransferParts(p)' /\ Delivered(p)'
    <2>1. Quiet.phase = "none"
      BY DEF Quiet
    <2>2. QED
      BY <1>2, <1>3, <2>1, RowPartsRest, QuietParts, WholeFacts DEF Delivered, StoreKeeps
  <1>5. PICK x : x = NewDelta(p, up[p].hash, FALSE)
    OBVIOUS
  <1>6. x.path = p /\ x.hash = up[p].hash
    BY <1>5 DEF NewDelta
  <1>7. InStore(x.path, x.hash)'
    BY <1>1, <1>6, WholeFacts DEF Delivered, InStore
  <1>8. \A e \in Entries(log)' \cup deltas' \cup view' :
           e \in Entries(log) \cup deltas \cup view \/ e = x
    BY <1>1, <1>5 DEF Join, Insert, Entries
  <1>9. QED
    BY <1>2, <1>3, <1>4, <1>7, <1>8, WholeMoves

(* A transfer starts: with the file hashed, or where its row says. *)
LEMMA HashedWhole ==
    ASSUME IInv, WholeInv, NEW p \in Path, NEW mode \in {"upload", "repair"},
           Step(p, [Quiet EXCEPT !.phase = "hashed", !.mode = mode,
                                 !.hash = files[p], !.src = files[p]]),
           UNCHANGED <<rows, open, log, deltas, view, objects, damaged, torn>>
    PROVE  WholeInv'
  <1>1. PICK t : t = [Quiet EXCEPT !.phase = "hashed", !.mode = mode,
                                   !.hash = files[p], !.src = files[p]]
    OBVIOUS
  <1>2. /\ t.phase = "hashed" /\ t.hash = files[p] /\ t.src = files[p] /\ t.sent = {}
        /\ Step(p, t) /\ up'[p] = t /\ rows'[p] = rows[p]
    BY <1>1, Facts DEF Quiet, Step
  <1>3. TransferParts(p)'
    BY <1>2 DEF TransferParts, Recorded, Reads
  <1>4. QED
    BY <1>2, <1>3, TransferOnly

LEMMA ResumeUploadWhole == ASSUME IInv, WholeInv, NEW p \in Path, ResumeUpload(p) PROVE WholeInv'
  <1>1. PICK t : t = [Quiet EXCEPT
                  !.phase = "send", !.mode = "resume", !.hash = rows[p].hash,
                  !.src = files[p], !.id = rows[p].id, !.n = 1, !.sent = rows[p].parts]
    OBVIOUS
  <1>2. /\ pc = "resume" /\ p \in todo /\ files[p] = rows[p].hash /\ Step(p, t)
        /\ UNCHANGED <<rows, open, log, deltas, view, objects, damaged, torn>>
    BY <1>1 DEF ResumeUpload, NextResume, Step, local, store, ghosts
  <1>3. /\ t.phase = "send" /\ t.mode = "resume" /\ t.hash = rows[p].hash /\ t.src = rows[p].hash
        /\ t.n = 1 /\ t.sent = rows[p].parts
    BY <1>1, <1>2 DEF Quiet
  <1>4. up'[p] = t /\ rows'[p] = rows[p]
    BY <1>2, Facts DEF Step
  <1>5. 1 \in Nat \ {0} /\ 1..(1 - 1) = {}
    OBVIOUS
  <1>6. TransferParts(p)'
    BY <1>3, <1>4, <1>5 DEF TransferParts, Recorded, Reads
  <1>7. QED
    BY <1>2, <1>3, <1>4, <1>6, TransferOnly

LEMMA DropUploadWhole == ASSUME IInv, WholeInv, NEW p \in Path, DropUpload(p) PROVE WholeInv'
  <1>1. PICK t : t = [Quiet EXCEPT !.phase = "abort", !.mode = "drop", !.id = rows[p].id]
    OBVIOUS
  <1>2. /\ rows' = [rows EXCEPT ![p] = NoRow] /\ Step(p, t)
        /\ UNCHANGED <<open, log, deltas, view, objects, damaged, torn>>
    BY <1>1 DEF DropUpload, Step, store, ghosts
  <1>3. t.phase = "abort" /\ t.mode = "drop"
    BY <1>1 DEF Quiet
  <1>4. up'[p] = t /\ rows'[p] = NoRow /\ \A q \in Path \ {p} : rows'[q] = rows[q]
    BY <1>2, Facts DEF Step
  <1>5. TransferParts(p)'
    BY <1>3, <1>4 DEF TransferParts, Recorded, Reads
  <1>6. QED
    BY <1>2, <1>3, <1>4, <1>5, TransferOnly

(* No transfer moves and no row. *)
LEMMA WholeRests ==
    ASSUME IInv, WholeInv, UNCHANGED <<rows, up>>, open' \subseteq open, ObjectsWhole', StoreKeeps,
           \A e \in Entries(log)' \cup deltas' \cup view' :
              e \in Entries(log) \cup deltas \cup view \/ InStore(e.path, e.hash)'
    PROVE  WholeInv'
  <1>1. \A q \in Path : RowParts(q)' /\ TransferParts(q)'
    BY OpenOnly, RowPartsRest, TransferPartsRest, WholeFacts DEF StoreKeeps
  <1>2. \A e \in Entries(log) \cup deltas \cup view : e.path \in Path /\ e.hash \in Content
    BY DataFacts DEF Entry
  <1>3. \A e \in Entries(log) \cup deltas \cup view : InStore(e.path, e.hash)'
    BY <1>2 DEF WholeInv, Backed, StoreKeeps
  <1>4. ASSUME NEW q \in Path PROVE Delivered(q)'
    <2>1. up'[q] = up[q] /\ Delivered(q)
      BY DEF WholeInv, Backed
    <2>2. up[q].phase = "done" \/ (up[q].phase = "clear" /\ up[q].fate = "ok") => up[q].hash \in Content
      BY Facts DEF RowOk
    <2>3. QED
      BY <2>1, <2>2 DEF StoreKeeps, Delivered, InStore
  <1>5. Backed'
    BY <1>3, <1>4 DEF Backed
  <1>6. QED
    BY <1>1, <1>5 DEF WholeInv

(* ... nor the store, and what is logged was known. *)
LEMMA KnownWhole ==
    ASSUME IInv, WholeInv, UNCHANGED <<rows, up, objects, damaged, torn>>, open' \subseteq open,
           Entries(log)' \cup deltas' \cup view' \subseteq Entries(log) \cup deltas \cup view
    PROVE  WholeInv'
  BY ObjectsRest, WholeRests

LEMMA LogKnown == ASSUME log' = log \/ LogDelta PROVE Entries(log)' \subseteq Entries(log) \cup deltas
  BY DEF LogDelta, Entries

LEMMA PassWhole ==
    ASSUME IInv, WholeInv,
           \/ PlanPass \/ VerifyRemote \/ LogResumed \/ ClaimLamport \/ ResumeDone \/ Flush
           \/ \E o \in ops : Confirm(o)
           \/ \E p \in Path : Download(p)
    PROVE  WholeInv'
  <1>1. UNCHANGED <<rows, up, objects, damaged, torn>> /\ open' \subseteq open
    BY DEF PlanPass, VerifyRemote, LogResumed, ClaimLamport, ResumeDone, Flush, Confirm, Download,
           local, store, ghosts
  <1>2. log' = log \/ LogDelta
    BY DEF PlanPass, VerifyRemote, LogResumed, ClaimLamport, ResumeDone, Flush, Confirm, Download, store
  <1>3. deltas' \subseteq deltas
    BY DEF PlanPass, VerifyRemote, LogResumed, ClaimLamport, ResumeDone, Flush, Confirm, Download
  <1>4. view' = view \/ view' = Merged(Entries(log))
    BY DEF PlanPass, VerifyRemote, LogResumed, ClaimLamport, ResumeDone, Flush, Confirm, Download
  <1>5. Merged(Entries(log)) \subseteq Entries(log)
    BY DEF Merged
  <1>6. QED
    BY <1>1, <1>2, <1>3, <1>4, <1>5, LogKnown, KnownWhole

LEMMA StartsWhole ==
    ASSUME IInv, WholeInv, NEW p \in Path, StartUpload(p) \/ RepairOne(p)
    PROVE  WholeInv'
  <1>1. UNCHANGED <<rows, open, log, deltas, view, objects, damaged, torn>>
    BY DEF StartUpload, RepairOne, local, store, ghosts
  <1>2. CASE up' = up
    <2>1. Entries(log)' = Entries(log)
      BY <1>1 DEF Entries
    <2>2. QED
      BY <1>1, <1>2, <2>1, KnownWhole
  <1>3. CASE \E mode \in {"upload", "repair"} :
                Step(p, [Quiet EXCEPT !.phase = "hashed", !.mode = mode,
                                      !.hash = files[p], !.src = files[p]])
    BY <1>1, <1>3, HashedWhole
  <1>4. QED
    BY <1>2, <1>3 DEF StartUpload, RepairOne

LEMMA LateActionWhole ==
    ASSUME IInv, WholeInv, NEW p \in Path, NEW kind \in {"DeleteLocal", "DeleteRemote", "Conflict"},
           LateAction(p, kind)
    PROVE  WholeInv'
  <1>1. UNCHANGED <<rows, up, open, log, objects, damaged, torn>>
    BY DEF LateAction, store, ghosts
  <1>2. Entries(log)' = Entries(log)
    BY <1>1 DEF Entries
  <1>3. CASE UNCHANGED <<deltas, view>>
    BY <1>1, <1>2, <1>3, KnownWhole
  <1>4. CASE /\ deltas' = deltas \cup {NewDelta(p, e.hash, TRUE) : e \in EntriesAt(view, p)}
             /\ view' \subseteq view
    <2>1. ASSUME NEW x \in Entries(log)' \cup deltas' \cup view',
                 x \notin Entries(log) \cup deltas \cup view
          PROVE  InStore(x.path, x.hash)'
      <3>1. PICK e \in EntriesAt(view, p) : x = NewDelta(p, e.hash, TRUE)
        BY <1>2, <1>4, <2>1
      <3>2. e \in view /\ x.path = e.path /\ x.hash = e.hash
        BY <3>1 DEF EntriesAt, NewDelta
      <3>3. QED
        BY <1>1, <3>2 DEF WholeInv, Backed, InStore
    <2>2. QED
      BY <1>1, <2>1, ObjectsRest, WholeRests
  <1>5. QED
    BY <1>3, <1>4 DEF LateAction

LEMMA PeerEditWhole ==
    ASSUME IInv, WholeInv, NEW g \in Device, NEW p \in Path, NEW c \in Content, PeerEdit(g, p, c)
    PROVE  WholeInv'
  <1>1. PICK e : e = [path |-> p, hash |-> c, deleted |-> FALSE, dev |-> g,
                      lamport |-> RemoteLamport(Entries(log)) + 1,
                      base |-> KnownHash(Merged(Entries(log)), p)]
    OBVIOUS
  <1>2. PICK parts : parts = [i \in 1..Size(c) |-> Part(c, i, 0)]
    OBVIOUS
  <1>3. PICK o : o = [lamport |-> e.lamport, dev |-> g, entries |-> {e}]
    OBVIOUS
  <1>4. /\ log' = log \cup {o} /\ o.entries = {e} /\ StoreObject(Key(p, c), parts)
        /\ UNCHANGED <<rows, up, open, deltas, view, torn>>
    BY <1>1, <1>2, <1>3 DEF PeerEdit, local, pass
  <1>5. Sound(parts, p, c)
    <2>1. Size(c) \in Nat \ {0}
      BY SizeAssumption
    <2>2. Len(parts) = Size(c) /\ DOMAIN parts = 1..Size(c) /\ 1 \in DOMAIN parts
      BY <1>2, <2>1
    <2>3. \A i \in DOMAIN parts : parts[i] = Part(c, i, 0)
      BY <1>2
    <2>4. parts[1].nonce = 0
      BY <2>2, <2>3 DEF Part
    <2>5. QED
      BY <2>2, <2>3, <2>4 DEF Whole, Sound
  <1>6. ObjectsWhole' /\ StoreKeeps /\ InStore(p, c)'
    BY <1>4, <1>5, StoreWhole
  <1>7. Entries(log)' = Entries(log) \cup {e}
    BY <1>4 DEF Entries
  <1>8. e.path = p /\ e.hash = c
    BY <1>1
  <1>9. \A x \in Entries(log)' \cup deltas' \cup view' :
           x \in Entries(log) \cup deltas \cup view \/ InStore(x.path, x.hash)'
    BY <1>4, <1>6, <1>7, <1>8
  <1>10. QED
    BY <1>4, <1>6, <1>9, WholeRests

LEMMA DamageWhole == ASSUME IInv, WholeInv, NEW k, Damage(k) PROVE WholeInv'
  <1>1. /\ DOMAIN objects' = DOMAIN objects \ {k} /\ \A x \in DOMAIN objects' : objects'[x] = objects[x]
        /\ damaged' = damaged \cup {k} /\ UNCHANGED <<rows, up, open, log, deltas, view, torn>>
    BY DEF Damage, local, pass
  <1>2. ObjectsWhole' /\ StoreKeeps
    BY <1>1 DEF WholeInv, ObjectsWhole, StoreKeeps, InStore, Sound, Whole, Part, Key
  <1>3. Entries(log)' = Entries(log)
    BY <1>1 DEF Entries
  <1>4. QED
    BY <1>1, <1>2, <1>3, WholeRests

LEMMA OthersWhole ==
    ASSUME IInv, WholeInv,
           \/ \E m \in open : AbortOrphan(m)
           \/ \E p \in Path : UserDelete(p)
           \/ UNCHANGED vars
    PROVE  WholeInv'
  <1>1. UNCHANGED <<rows, up, log, deltas, view, objects, damaged, torn>> /\ open' \subseteq open
    BY DEF AbortOrphan, UserDelete, vars, local, pass, store, ghosts
  <1>2. Entries(log)' = Entries(log)
    BY <1>1 DEF Entries
  <1>3. QED
    BY <1>1, <1>2, KnownWhole

(* A write that a transfer reads tears its version. *)
LEMMA UserWriteWhole ==
    ASSUME IInv, WholeInv, NEW p \in Path, NEW c \in Content, UserWrite(p, c) PROVE WholeInv'
  <1>1. UNCHANGED <<rows, open, uploads, log, deltas, view, objects, damaged>>
    BY DEF UserWrite, pass, store
  <1>2. Entries(log)' = Entries(log)
    BY <1>1 DEF Entries
  <1>3. CASE UNCHANGED <<up, torn>>
    BY <1>1, <1>2, <1>3, KnownWhole
  <1>4. CASE /\ Reads(p) /\ up' = [up EXCEPT ![p].src = c]
             /\ torn' = torn \cup {Key(p, up[p].hash)}
    <2>1. /\ \A q \in Path \ {p} : up'[q] = up[q]
          /\ up'[p].phase = up[p].phase /\ up'[p].mode = up[p].mode /\ up'[p].id = up[p].id
          /\ up'[p].hash = up[p].hash /\ up'[p].n = up[p].n /\ up'[p].sent = up[p].sent
          /\ up'[p].fate = up[p].fate
      BY <1>4, Facts DEF TransferRecord
    <2>2. ObjectsWhole' /\ StoreKeeps /\ \A q \in Path : OpenApart(q)
      BY <1>1, <1>4, OpenOnly, ObjectsRest
    <2>3. RowParts(p)'
      BY <1>1, <1>4, <2>2, RowPartsRest, WholeFacts
    <2>4. Torn(p)'
      BY <1>4, <2>1 DEF Torn, Key
    <2>5. TransferParts(p)'
      BY <1>1, <1>4, <2>1, <2>4, WholeFacts DEF TransferParts, Recorded, Reads, OpenId, Key
    <2>6. Delivered(p)'
      BY <1>4, <2>1 DEF Delivered, Reads
    <2>7. QED
      BY <1>1, <1>2, <2>1, <2>2, <2>3, <2>5, <2>6, WholeMoves
  <1>5. QED
    BY <1>3, <1>4 DEF UserWrite

LEMMA WholeStep == ASSUME IInv, WholeInv, [Next]_vars PROVE WholeInv'
  <1>1. CASE PassStep
    <2>1. ASSUME NEW p \in Path, Transfer(p) PROVE WholeInv'
      BY <2>1, StartsWhole, PutBytesWhole, BeginPutWhole, RecordStartWhole, SkipPartWhole,
         WritePartWhole, RecordPartWhole, LastPartWhole, FinishPutWhole, AbortPutWhole,
         ClearUploadWhole, JoinWhole DEF Transfer
    <2>2. ASSUME NEW p \in Path, ResumeUpload(p) \/ DropUpload(p) \/ RepairOne(p) PROVE WholeInv'
      BY <2>2, ResumeUploadWhole, DropUploadWhole, StartsWhole
    <2>3. ASSUME NEW p \in Path, NEW kind \in {"DeleteLocal", "DeleteRemote", "Conflict"},
                 LateAction(p, kind)
          PROVE  WholeInv'
      BY <2>3, LateActionWhole
    <2>4. QED
      BY <1>1, <2>1, <2>2, <2>3, PassWhole, EndsWhole DEF PassStep
  <1>2. CASE Environment
    BY <1>2, WritesAssumption, MeAssumption, UserWriteWhole, OthersWhole, PeerEditWhole, PassWhole
       DEF Environment
  <1>3. CASE Fault
    BY <1>3, RequestFailsWhole, EndsWhole, OthersWhole, DamageWhole DEF Fault
  <1>4. CASE UNCHANGED vars
    BY <1>4, OthersWhole
  <1>5. QED
    BY <1>1, <1>2, <1>3, <1>4 DEF Next

(* Whatever is interrupted, resumed, repaired, edited or fails on the way: a version that *)
(* the log names can be decrypted to the content that its entry names, unless the store   *)
(* lost this object, or its file changed while a transfer of this version read it; and    *)
(* then the object has no fewer parts than the content, which is all that                 *)
(* check_object_len sees to (LoggedIsWhole, of upload_file, resume_upload and             *)
(* repair_one).  A repair that starts while uploads are pending is assumed away.          *)
THEOREM VersionsAreWhole ==
    ASSUME ~DoctorMayInterfere
    PROVE  Spec => []LoggedIsWhole
  <1>1. Init => IInv /\ WholeInv
    BY UploadInit, WholeInit
  <1>2. IInv /\ WholeInv /\ [Next]_vars => (IInv /\ WholeInv)'
    BY BooksStep, DataStep, WholeStep DEF IInv
  <1>3. IInv /\ WholeInv => LoggedIsWhole
    BY WholeSuffices
  <1>4. QED
    BY <1>1, <1>2, <1>3, PTL DEF Spec
=============================================================================
