-------------------------------- MODULE Pack --------------------------------
(***************************************************************************)
(* Pack objects and index objects (backup-core: pack.rs, index.rs), down   *)
(* to their layout.  A pack is its sealed blobs, a sealed header that      *)
(* lists them, and a footer with the header's length; it is read from the  *)
(* tail.  Index objects repeat the headers of many packs.                  *)
(*                                                                         *)
(* A byte is a record of what it belongs to.  What is sealed opens only as *)
(* a whole, under the name it was sealed for.  The footer is one byte.     *)
(***************************************************************************)
EXTENDS Integers, FiniteSets, Sequences, SequencesExt

CONSTANTS
    Blob,         \* blobs, which are their ids: numbers
    SealedLen,    \* the length of each, sealed
    PackId,       \* ids of packs and of index objects: numbers, in listing order
    EntrySize,    \* bytes of one entry of a header
    TailRead,     \* bytes of a pack's tail that are read first
    Addressable   \* the largest offset (u32)

VARIABLES
    writer,     \* the pack being filled
    bucket,     \* bucket[p]: the bytes of a stored pack
    headers,    \* headers[p]: the entries of a pack as its writer knew them
    listed,     \* packs that an index object has
    indexes,    \* indexes[i]: an index object
    damaged     \* packs that are not as they were stored

pack_vars == <<writer, bucket, headers, listed, indexes, damaged>>

Footer == 1
Tag == 1
IndexVersion == 1

Sealed(b) == [k \in 1..SealedLen[b] |-> <<"blob", b, k>>]
SealedHeader(p, entries) ==
    [k \in 1..(Tag + EntrySize * Len(entries)) |-> <<"header", p, entries, k>>]
EncodeFooter(len) == <<<<"footer", len>>>>

EmptyWriter == [buf |-> <<>>, entries |-> <<>>]
EntryEnd(e) == e.offset + e.length

PackInit ==
    /\ writer = EmptyWriter
    /\ bucket = <<>> /\ headers = <<>> /\ indexes = <<>>
    /\ listed = {} /\ damaged = {}

-----------------------------------------------------------------------------
(* Writing. *)

Holds(w, b) == \E k \in DOMAIN w.entries : w.entries[k].id = b

(* Faulty variant: the offset is taken once the blob is in place. *)
pushed_after(w, b) ==
    [buf |-> w.buf \o Sealed(b),
     entries |-> Append(w.entries,
        [id |-> b, offset |-> Len(w.buf \o Sealed(b)), length |-> SealedLen[b]])]

pushed(w, b) ==
    [buf |-> w.buf \o Sealed(b),
     entries |-> Append(w.entries, [id |-> b, offset |-> Len(w.buf), length |-> SealedLen[b]])]

Push(b) ==
    /\ ~Holds(writer, b)
    /\ Len(writer.buf) + SealedLen[b] <= Addressable
    /\ writer' = pushed(writer, b)
    /\ UNCHANGED <<bucket, headers, listed, indexes, damaged>>

(* finish, and the upload.  Ids are random: any unused one. *)
FinishPack(p) ==
    /\ writer.entries # <<>>
    /\ p \notin DOMAIN bucket
    /\ LET header == SealedHeader(p, writer.entries)
       IN  bucket' = [q \in DOMAIN bucket \cup {p} |->
                         IF q = p THEN writer.buf \o header \o EncodeFooter(Len(header))
                                  ELSE bucket[q]]
    /\ headers' = [q \in DOMAIN headers \cup {p} |-> IF q = p THEN writer.entries ELSE headers[q]]
    /\ writer' = EmptyWriter
    /\ UNCHANGED <<listed, indexes, damaged>>

-----------------------------------------------------------------------------
(* Reading a pack.  What may fail yields a set: empty when it does. *)

(* A range of an object; one that passes its end comes back short, and fails. *)
get_range(data, offset, n) ==
    IF n = 0 THEN {<<>>}
    ELSE IF offset + n > Len(data) THEN {}
    ELSE {SubSeq(data, offset + 1, offset + n)}

DecodeFooter(byte) == IF byte[1] = "footer" THEN {byte[2]} ELSE {}

(* Where the header starts, and its length. *)
header_range(footer, size) ==
    {<<size - Footer - len, len>> : len \in {l \in DecodeFooter(footer) : l + Footer <= size}}

decode_header(p, sealed, data_len) ==
    IF sealed = <<>> \/ sealed[1][1] # "header" THEN {}
    ELSE {entries \in {sealed[1][3]} :
            /\ sealed = SealedHeader(p, entries)
            /\ \A k \in DOMAIN entries : EntryEnd(entries[k]) <= data_len}

parse_header(p, data) ==
    IF Len(data) < Footer THEN {}
    ELSE UNION {decode_header(p, SubSeq(data, r[1] + 1, r[1] + r[2]), r[1]) :
                   r \in header_range(Last(data), Len(data))}

(* By ranged reads: the tail, and the header again if the tail was too short. *)
load_header_sized(p, data) ==
    IF Len(data) < Footer THEN {}
    ELSE LET from == Len(data) - (IF TailRead < Len(data) THEN TailRead ELSE Len(data))
             tail == SubSeq(data, from + 1, Len(data))
             sealed(r) == IF r[1] >= from
                          THEN {SubSeq(tail, r[1] - from + 1, r[1] - from + r[2])}
                          ELSE get_range(data, r[1], r[2])
         IN  UNION {decode_header(p, header, r[1]) :
                       <<r, header>> \in UNION {{r} \X sealed(r) :
                                                   r \in header_range(Last(tail), Len(data))}}

(* decode_blob recomputes the id. *)
decode_blob(e, sealed) == IF sealed = Sealed(e.id) THEN {e.id} ELSE {}

load_blob(place) ==
    IF place.pack \notin DOMAIN bucket THEN {}
    ELSE UNION {decode_blob(place.entry, sealed) :
                   sealed \in get_range(bucket[place.pack], place.entry.offset, place.entry.length)}

-----------------------------------------------------------------------------
(* Index objects. *)

(* encode: version, number of packs, then each pack's id and its entries after
   their number.  The first of a list of packs is element k, the rest follow. *)
EncodePack(p) == <<p, Len(headers[p])>> \o headers[p]
encode(ps) == <<IndexVersion, Len(ps)>> \o FlattenSeq([k \in DOMAIN ps |-> EncodePack(ps[k])])

(* decode: the packs at the front of `data`, which must end with the last. *)
decode(data) ==
    LET at[k \in Nat] == IF k = 1 THEN 3 ELSE at[k - 1] + 2 + data[at[k - 1] + 1]
        count == data[2]
    IN  IF Len(data) < 2 \/ data[1] # IndexVersion \/ at[count + 1] # Len(data) + 1 THEN {}
        ELSE {[k \in 1..count |->
                  [pack |-> data[at[k]],
                   entries |-> SubSeq(data, at[k] + 2, at[k] + 1 + data[at[k] + 1])]]}

(* index::save, of packs that no index object has. *)
SaveIndex(i) ==
    LET ps == SetToSeq(DOMAIN headers \ listed)
    IN  /\ ps # <<>>
        /\ i \notin DOMAIN indexes
        /\ indexes' = [j \in DOMAIN indexes \cup {i} |-> IF j = i THEN encode(ps) ELSE indexes[j]]
        /\ listed' = DOMAIN headers
        /\ UNCHANGED <<writer, bucket, headers, damaged>>

InOrder(ids) == SetToSortSeq(ids, LAMBDA a, b : a < b)

Places(p, entries) == [k \in DOMAIN entries |-> [pack |-> p, entry |-> entries[k]]]
AllPlaces(ps) == FlattenSeq([k \in DOMAIN ps |-> Places(ps[k].pack, ps[k].entries)])

(* add_pack: a blob that is known keeps its place, so the first one counts. *)
lookup(places, b) ==
    LET k == SelectInSeq(places, LAMBDA place : place.entry.id = b)
    IN  IF k = 0 THEN {} ELSE {places[k]}

(* index::load merges in listing order, whatever arrives first. *)
load ==
    LET ids == InOrder(DOMAIN indexes)
    IN  FlattenSeq([k \in DOMAIN ids |->
            LET packs == decode(indexes[ids[k]])
            IN  IF packs = {} THEN <<>> ELSE AllPlaces(CHOOSE ps \in packs : TRUE)])

ReadHeader(p) == load_header_sized(p, bucket[p])
FromHeaders(ids) ==
    AllPlaces([k \in DOMAIN ids |->
        [pack |-> ids[k], entries |-> CHOOSE entries \in ReadHeader(ids[k]) : TRUE]])

(* Faulty variant: an interrupted run's packs are left where they are. *)
adopt_orphans_none == load

(* adopt_orphans: packs that are stored but not listed, if they can be read. *)
adopt_orphans ==
    load \o FromHeaders(InOrder({p \in DOMAIN bucket \ listed : ReadHeader(p) # {}}))

(* index::rebuild, from the packs alone; one that cannot be read ends it. *)
rebuild ==
    IF \E p \in DOMAIN bucket : ReadHeader(p) = {} THEN {}
    ELSE {FromHeaders(InOrder(DOMAIN bucket))}

-----------------------------------------------------------------------------
(* What may happen to a stored object. *)

Damage(p, data) ==
    /\ data # bucket[p]
    /\ bucket' = [bucket EXCEPT ![p] = data]
    /\ damaged' = damaged \cup {p}
    /\ UNCHANGED <<writer, headers, listed, indexes>>

Truncate(p) == \E n \in 0..(Len(bucket[p]) - 1) : Damage(p, SubSeq(bucket[p], 1, n))
Misplace(p, q) == Damage(p, bucket[q])
Overwrite(p, k) == Damage(p, [bucket[p] EXCEPT ![k] = <<"junk">>])

PackNext ==
    \/ \E b \in Blob : Push(b)
    \/ \E p \in PackId : FinishPack(p)
    \/ \E i \in PackId : SaveIndex(i)
    \/ /\ damaged = {}
       /\ \E p \in DOMAIN bucket :
             \/ Truncate(p)
             \/ \E q \in DOMAIN bucket : Misplace(p, q)
             \/ \E k \in DOMAIN bucket[p] : Overwrite(p, k)

-----------------------------------------------------------------------------
(* Properties. *)

(* A pack describes itself: its tail yields the entries its writer had, whether
   one read of the tail reached the header or a second had to be made, and
   every entry leads to its blob.  A pack that is cut, overwritten or stored
   under another's name yields the same entries or none, the same by both
   ways of reading. *)
PacksDescribeThemselves ==
    \A p \in DOMAIN bucket :
        /\ parse_header(p, bucket[p]) = ReadHeader(p)
        /\ ReadHeader(p) \subseteq {headers[p]}
        /\ p \notin damaged =>
              /\ ReadHeader(p) = {headers[p]}
              /\ \A k \in DOMAIN headers[p] :
                    load_blob([pack |-> p, entry |-> headers[p][k]]) = {headers[p][k].id}

Stored == {b \in Blob : \E p \in DOMAIN headers \ damaged :
              \E k \in DOMAIN headers[p] : headers[p][k].id = b}

(* Every blob of a pack that is as it was stored is found, through the index
   objects and the packs that a run adopts, or through an index rebuilt from
   the packs; and where it is said to be, it is, or the pack is damaged.  The
   index objects hand back the packs they were given. *)
EveryBlobIsFound ==
    /\ \A places \in {adopt_orphans} \cup rebuild :
          /\ \A b \in Stored : lookup(places, b) # {}
          /\ \A b \in Blob : \A place \in lookup(places, b) :
                load_blob(place) = {b} \/ place.pack \in damaged
    /\ {load[k].pack : k \in DOMAIN load} = listed
    /\ damaged = {} => rebuild # {}
=============================================================================
