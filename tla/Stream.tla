------------------------------- MODULE Stream -------------------------------
(***************************************************************************)
(* The content format (mirror-core: crypto/content.rs): a file is cut into *)
(* frames of ChunkSize bytes, each sealed under its number and a flag that *)
(* marks the last, and frames are gathered into the parts of an upload.    *)
(* An upload may be interrupted between two parts and resumed by a new     *)
(* encryptor.  The object comes back in reads of any size, perhaps not     *)
(* whole, through a decryptor that knows the end only when it is told.     *)
(*                                                                         *)
(* A byte of the object is a record of the frame it belongs to; a frame    *)
(* opens only as a whole, at its own number and with its own flag.         *)
(***************************************************************************)
EXTENDS Integers, Sequences, SequencesExt

CONSTANTS
    ChunkSize,      \* plaintext bytes of a frame
    TagSize,        \* bytes that sealing adds to it
    FileLen,        \* lengths that files may have
    PartSize,       \* sizes asked for
    MaxCrashes      \* bound: interruptions of the upload

NonceSize == 1

VARIABLES
    len,        \* the file: its bytes are 1..len
    size,       \* the part size, which the upload's row keeps
    encryptor,  \* the number of the next frame, or Spent
    skip,       \* parts that this encryptor need not send, as the bucket has them
    parts,      \* the parts that the bucket has
    crashes,
    reader,     \* the decryptor: its buffer, its next frame, what it gave
    rest,       \* what is still to arrive of the object
    whole       \* the object is as it was uploaded

stream_vars == <<len, size, encryptor, skip, parts, crashes, reader, rest, whole>>
upload_vars == <<len, size, encryptor, skip, parts, crashes>>

Spent == 0
FrameSize == ChunkSize + TagSize
NoReader == [at |-> "waiting"]

CeilDiv(a, b) == (a + b - 1) \div b
AtLeastOne(n) == IF n = 0 THEN 1 ELSE n

(* A frame is last when nothing follows it; an empty file has one, empty. *)
FrameCount(n) == AtLeastOne(CeilDiv(n, ChunkSize))

Bytes(from, to) == [k \in 1..(to - from + 1) |-> from + k - 1]
FrameText(n, k) ==
    Bytes((k - 1) * ChunkSize + 1, IF k = FrameCount(n) THEN n ELSE k * ChunkSize)

Seal(k, last, text) ==
    [i \in 1..(Len(text) + TagSize) |-> [frame |-> k, last |-> last, text |-> text, at |-> i]]
SealedFrame(n, k) == Seal(k, k = FrameCount(n), FrameText(n, k))
Frames(n, from, to) == FlattenSeq([k \in 1..(to - from + 1) |-> SealedFrame(n, from + k - 1)])
Nonce == <<[frame |-> 0]>>

(* ciphertext_len. *)
ciphertext_len(n) == NonceSize + n + FrameCount(n) * TagSize

(* encrypt_bytes: all but the last frame start before last_start. *)
encrypt_bytes(n) ==
    LET last_start == ((IF n = 0 THEN 0 ELSE n - 1) \div ChunkSize) * ChunkSize
        full == last_start \div ChunkSize
    IN  Nonce \o FlattenSeq([k \in 1..full |->
                                Seal(k, FALSE, Bytes((k - 1) * ChunkSize + 1, k * ChunkSize))])
              \o Seal(full + 1, TRUE, Bytes(last_start + 1, n))

-----------------------------------------------------------------------------
(* The upload. *)

StreamInit ==
    /\ len \in FileLen /\ size \in PartSize
    /\ encryptor = 1 /\ skip = 0 /\ parts = <<>> /\ crashes = 0
    /\ reader = NoReader /\ rest = <<>> /\ whole = TRUE

(* encrypt_next_part stops at the last frame, or once the ciphertext is as
   long as was asked. *)
LastOfPart(from) ==
    CHOOSE to \in from..FrameCount(len) :
        /\ to = FrameCount(len) \/ (to - from + 1) * FrameSize >= size
        /\ \A k \in from..(to - 1) : (k - from + 1) * FrameSize < size

Part(from) == Frames(len, from, LastOfPart(from))

(* Faulty variant: a resumed upload sends the nonce again. *)
Prefixed_again(part) == IF parts = <<>> \/ crashes > 0 THEN Nonce \o part ELSE part

(* The first part that reaches the bucket carries the nonce. *)
Prefixed(part) == IF parts = <<>> THEN Nonce \o part ELSE part

NextPart ==
    /\ encryptor # Spent
    /\ encryptor' = IF LastOfPart(encryptor) = FrameCount(len) THEN Spent
                    ELSE LastOfPart(encryptor) + 1
    /\ IF skip > 0
       THEN skip' = skip - 1 /\ parts' = parts
       ELSE skip' = skip /\ parts' = Append(parts, Prefixed(Part(encryptor)))
    /\ UNCHANGED <<len, size, crashes, reader, rest, whole>>

(* The program dies and resumes: a new encryptor with the old nonce and part
   size starts from the beginning, and skips what the bucket has. *)
Resume ==
    /\ reader = NoReader
    /\ crashes < MaxCrashes
    /\ crashes' = crashes + 1
    /\ encryptor' = 1
    /\ skip' = Len(parts)
    /\ UNCHANGED <<len, size, parts, reader, rest, whole>>

Object == FlattenSeq(parts)

-----------------------------------------------------------------------------
(* The download. *)

Drop(s, from, n) == SubSeq(s, 1, from - 1) \o SubSeq(s, from + n, Len(s))

(* The object arrives: as it is, cut anywhere, with a piece missing in its
   middle, or with two frames exchanged. *)
Arriving ==
    {Object} \cup {SubSeq(Object, 1, n) : n \in 0..Len(Object)}
    \cup {Drop(Object, from, n) : from \in (NonceSize + 1)..Len(Object), n \in {1, FrameSize}}
    \cup (IF FrameCount(len) < 3 THEN {}
          ELSE {Nonce \o SealedFrame(len, 2) \o SealedFrame(len, 1) \o Frames(len, 3, FrameCount(len))})

(* open_plaintext takes the nonce first. *)
StartRead ==
    /\ encryptor = Spent /\ skip = 0
    /\ reader = NoReader
    /\ \E data \in Arriving :
          /\ whole' = (data = Object)
          /\ IF Len(data) < NonceSize
             THEN reader' = [at |-> "refused"] /\ rest' = <<>>
             ELSE /\ reader' = [at |-> "reading", buffer |-> <<>>, frame |-> 1, given |-> <<>>]
                  /\ rest' = SubSeq(data, NonceSize + 1, Len(data))
    /\ UNCHANGED upload_vars

(* What opens as frame k with this flag: the text, or nothing. *)
Opened(data, k, last) ==
    IF data = <<>> \/ data[1].frame = 0 THEN {}
    ELSE {text \in {data[1].text} : data = Seal(k, last, text)}

(* Faulty variant: a frame is opened as soon as it is complete. *)
Ready_now(buffer) == Len(buffer) \div FrameSize

(* Frames that may be opened: one that might be the last is kept back. *)
Ready(buffer) == IF buffer = <<>> THEN 0 ELSE (Len(buffer) - 1) \div FrameSize

FrameAt(buffer, j) == SubSeq(buffer, (j - 1) * FrameSize + 1, j * FrameSize)

(* feed, of the next n bytes, whatever their number. *)
Feed(n) ==
    /\ reader.at = "reading"
    /\ LET buffer == reader.buffer \o SubSeq(rest, 1, n)
           ready == Ready(buffer)
           texts(j) == Opened(FrameAt(buffer, j), reader.frame + j - 1, FALSE)
       IN  reader' = IF \E j \in 1..ready : texts(j) = {}
                     THEN [at |-> "refused"]
                     ELSE [at |-> "reading",
                           buffer |-> SubSeq(buffer, ready * FrameSize + 1, Len(buffer)),
                           frame |-> reader.frame + ready,
                           given |-> reader.given \o FlattenSeq([j \in 1..ready |->
                                        CHOOSE text \in texts(j) : TRUE])]
    /\ rest' = SubSeq(rest, n + 1, Len(rest))
    /\ UNCHANGED <<upload_vars, whole>>

(* finish: what is left is the last frame. *)
FinishRead ==
    /\ reader.at = "reading" /\ rest = <<>>
    /\ LET texts == Opened(reader.buffer, reader.frame, TRUE)
       IN  reader' = IF texts = {} THEN [at |-> "refused"]
                     ELSE [at |-> "done", given |-> reader.given \o CHOOSE text \in texts : TRUE]
    /\ UNCHANGED <<upload_vars, rest, whole>>

StreamNext ==
    \/ NextPart \/ Resume \/ StartRead \/ FinishRead
    \/ \E n \in 1..Len(rest) : Feed(n)

-----------------------------------------------------------------------------
(* Properties. *)

(* However often the upload was interrupted, the parts are one object: the one
   that encrypt_bytes would have made, of the length that check_object_len and
   `doctor` expect, in parts of which only the last may be short. *)
ObjectIsWhole ==
    /\ encryptor = Spent /\ skip = 0 =>
          Object = encrypt_bytes(len) /\ Len(Object) = ciphertext_len(len)
    /\ \A k \in 1..(Len(parts) - 1) : Len(parts[k]) >= size

(* A reader that says it is done has given the file, whatever sizes the pieces
   came in; an object that is whole is never refused, and one that is not
   always is. *)
ReadIsExact ==
    /\ reader.at = "done" => reader.given = Bytes(1, len) /\ whole
    /\ reader.at = "refused" => ~whole
=============================================================================
