--------------------------- MODULE ManifestProofs ---------------------------
(* Facts about the merge order and the merged manifest, for every log. *)
EXTENDS Manifest, WellFoundedInduction, TLAPS

(* The fields the order compares are numbers and a flag. *)
LEMMA EntryFields ==
    ASSUME NEW a \in Entry
    PROVE  /\ a.lamport \in Nat /\ a.dev \in Nat /\ a.hash \in Nat /\ a.base \in Nat
           /\ a.deleted \in BOOLEAN
  <1>1. Device \subseteq Nat /\ Content \subseteq Nat /\ Content \cup {None} \subseteq Nat
    BY DeviceAssumption, ContentAssumption DEF None
  <1>2. /\ a.lamport \in Nat /\ a.dev \in Device /\ a.hash \in Content
        /\ a.base \in Content \cup {None}
    BY DEF Entry
  <1>3. a.deleted \in BOOLEAN
    BY Zenon DEF Entry
  <1>4. QED
    BY <1>1, <1>2, <1>3

(* winner_key orders the entries of a path totally: two different entries
   never tie, so every device picks the same winner. *)
THEOREM BeatsTotal ==
    ASSUME NEW a \in Entry, NEW b \in Entry, a.path = b.path, a # b
    PROVE  Beats(a, b) \/ Beats(b, a)
  <1>1. a.lamport # b.lamport \/ a.dev # b.dev \/ a.hash # b.hash
          \/ a.base # b.base \/ a.deleted # b.deleted
    BY DEF Entry
  <1>2. /\ a.lamport \in Nat /\ a.dev \in Nat /\ a.hash \in Nat /\ a.base \in Nat
        /\ b.lamport \in Nat /\ b.dev \in Nat /\ b.hash \in Nat /\ b.base \in Nat
        /\ a.deleted \in BOOLEAN /\ b.deleted \in BOOLEAN
    BY EntryFields
  <1>3. QED
    BY <1>1, <1>2 DEF Beats

(* ... and never both ways. *)
THEOREM BeatsAsymmetric ==
    ASSUME NEW a \in Entry, NEW b \in Entry, Beats(a, b)
    PROVE  ~Beats(b, a)
  <1>1. /\ a.lamport \in Nat /\ a.dev \in Nat /\ a.hash \in Nat /\ a.base \in Nat
        /\ b.lamport \in Nat /\ b.dev \in Nat /\ b.hash \in Nat /\ b.base \in Nat
        /\ a.deleted \in BOOLEAN /\ b.deleted \in BOOLEAN
    BY EntryFields
  <1>2. QED
    BY <1>1 DEF Beats

(* The merged manifest has at most one entry per path. *)
THEOREM MergedFunctional ==
    ASSUME NEW es \in SUBSET Entry
    PROVE  /\ Merged(es) \subseteq es
           /\ \A e, f \in Merged(es) : e.path = f.path => e = f
  <1>1. Merged(es) \subseteq es
    BY DEF Merged
  <1>2. ASSUME NEW e \in Merged(es), NEW f \in Merged(es), e.path = f.path, e # f
        PROVE  FALSE
    <2>1. e \in Entry /\ f \in Entry /\ ~Beats(e, f) /\ ~Beats(f, e)
      BY <1>2 DEF Merged
    <2>2. QED
      BY <1>2, <2>1, BeatsTotal
  <1>3. QED
    BY <1>1, <1>2

(* Replacing an entry keeps the manifest functional. *)
LEMMA InsertFunctional ==
    ASSUME NEW m, NEW e, \A a, b \in m : a.path = b.path => a = b
    PROVE  \A a, b \in Insert(m, e) : a.path = b.path => a = b
  BY DEF Insert, EntriesAt

(* A nonempty set of numbers with an upper bound has a greatest element. *)
LEMMA GreatestNat ==
    ASSUME NEW S \in SUBSET Nat, S # {}, NEW bound \in Nat, \A n \in S : n <= bound
    PROVE  \E n \in S : \A m \in S : m <= n
  <1> DEFINE T == {n \in Nat : \A m \in S : m <= n}
             Less == OpToRel(<, Nat)
  <1>1. T \subseteq Nat /\ T # {}
    OBVIOUS
  <1>2. PICK x \in T : \A y \in T : ~(<<y, x>> \in Less)
    <2>1. IsWellFoundedOn(Less, Nat)
      BY NatLessThanWellFounded
    <2> HIDE DEF T, Less
    <2>2. QED
      BY <1>1, <2>1, WFMin
  <1>3. \A y \in T : ~(y < x)
    <2>1. ASSUME NEW y \in Nat, y < x, x \in Nat PROVE <<y, x>> \in Less
      BY <2>1 DEF OpToRel
    <2>2. QED
      BY <1>2, <2>1
  <1>4. x \in S
    <2>1. SUFFICES ASSUME x \notin S PROVE FALSE
      OBVIOUS
    <2>2. \A m \in S : m < x
      BY <2>1
    <2>3. x - 1 \in T
      <3>1. x \in Nat /\ \E m \in S : m < x
        BY <2>2
      <3>2. x - 1 \in Nat
        BY <3>1
      <3>3. ASSUME NEW m \in S PROVE m <= x - 1
        <4>1. m \in Nat /\ x \in Nat /\ m < x
          BY <2>2, <3>1
        <4> HIDE DEF T, Less
        <4>2. QED
          BY <4>1
      <3>4. QED
        BY <3>2, <3>3
    <2>4. x - 1 < x
      OBVIOUS
    <2>5. QED
      BY <1>3, <2>3, <2>4
  <1>5. QED
    BY <1>4

(* remote_lamport bounds every clock in what was read. *)
LEMMA RemoteLamportBounds ==
    ASSUME NEW es \in SUBSET Entry, NEW bound \in Nat,
           \A e \in es : e.lamport <= bound
    PROVE  /\ RemoteLamport(es) \in Nat
           /\ \A e \in es : e.lamport <= RemoteLamport(es)
  <1>1. CASE es = {}
    BY <1>1 DEF RemoteLamport
  <1>2. CASE es # {}
    <2> DEFINE S == {e.lamport : e \in es}
    <2>1. S \in SUBSET Nat /\ S # {} /\ \A n \in S : n <= bound
      BY <1>2 DEF Entry
    <2>2. \E n \in S : \A m \in S : m <= n
      <3> HIDE DEF S
      <3> QED BY <2>1, GreatestNat
    <2>3. \E e \in es : \A f \in es : f.lamport <= e.lamport
      BY <2>2
    <2>4. QED
      BY <1>2, <2>3 DEF RemoteLamport, Entry
  <1>3. QED
    BY <1>1, <1>2

(* ... and a least one. *)
LEMMA LeastNat ==
    ASSUME NEW S \in SUBSET Nat, S # {}
    PROVE  \E n \in S : \A m \in S : n <= m
  <1> DEFINE Less == OpToRel(<, Nat)
  <1>1. PICK x \in S : \A y \in S : ~(<<y, x>> \in Less)
    <2>1. IsWellFoundedOn(Less, Nat)
      BY NatLessThanWellFounded
    <2> HIDE DEF Less
    <2>2. QED
      BY <2>1, WFMin
  <1>2. ASSUME NEW y \in S PROVE x <= y
    <2>1. y \in Nat /\ x \in Nat
      OBVIOUS
    <2>2. y < x => <<y, x>> \in Less
      BY <2>1 DEF OpToRel
    <2>3. ~(y < x)
      BY <1>1, <2>2
    <2> HIDE DEF Less
    <2>4. QED
      BY <2>1, <2>3
  <1>3. QED
    BY <1>2

(* winner_key is an order. *)
LEMMA BeatsTransitive ==
    ASSUME NEW a \in Entry, NEW b \in Entry, NEW c \in Entry, Beats(a, b), Beats(b, c)
    PROVE  Beats(a, c)
  <1>1. /\ a.lamport \in Nat /\ a.dev \in Nat /\ a.hash \in Nat /\ a.base \in Nat
        /\ b.lamport \in Nat /\ b.dev \in Nat /\ b.hash \in Nat /\ b.base \in Nat
        /\ c.lamport \in Nat /\ c.dev \in Nat /\ c.hash \in Nat /\ c.base \in Nat
        /\ a.deleted \in BOOLEAN /\ b.deleted \in BOOLEAN /\ c.deleted \in BOOLEAN
    BY EntryFields
  <1>2. QED
    BY <1>1 DEF Beats

LEMMA BeatsIrreflexive ==
    ASSUME NEW a \in Entry
    PROVE  ~Beats(a, a)
  BY BeatsAsymmetric

(* An order of (lamport, device) alone, where no two entries of a path agree on both. *)
LEMMA BeatsByStamp ==
    ASSUME NEW a \in Entry, NEW b \in Entry, ~Beats(a, b)
    PROVE  a.lamport < b.lamport \/ (a.lamport = b.lamport /\ a.dev <= b.dev)
  <1>1. a.lamport \in Nat /\ a.dev \in Nat /\ b.lamport \in Nat /\ b.dev \in Nat
    BY EntryFields
  <1>2. QED
    BY <1>1 DEF Beats

(* Every entry is in the merged manifest or loses to an entry that is: the
   clocks and device ids of what was read are bounded, and no two entries of a
   path share both. *)
LEMMA MergedDominates ==
    ASSUME NEW es \in SUBSET Entry, NEW clocks \in Nat, NEW ids \in Nat,
           \A e \in es : e.lamport <= clocks /\ e.dev <= ids,
           \A e, f \in es : e.path = f.path /\ e.lamport = f.lamport /\ e.dev = f.dev => e = f,
           NEW e \in es
    PROVE  \E w \in Merged(es) : w.path = e.path /\ (w = e \/ Beats(w, e))
  <1> DEFINE T == {f \in es : f.path = e.path}
             L == {f.lamport : f \in T}
  <1>1. PICK l \in L : \A m \in L : m <= l
    <2>1. L \in SUBSET Nat /\ L # {} /\ \A n \in L : n <= clocks
      BY EntryFields
    <2> HIDE DEF L
    <2>2. QED
      BY <2>1, GreatestNat
  <1> DEFINE D == {f.dev : f \in {x \in T : x.lamport = l}}
  <1>2. PICK k \in D : \A m \in D : m <= k
    <2>1. D \in SUBSET Nat /\ D # {} /\ \A n \in D : n <= ids
      BY EntryFields
    <2> HIDE DEF D
    <2>2. QED
      BY <2>1, GreatestNat
  <1>3. PICK w \in T : w.lamport = l /\ w.dev = k
    OBVIOUS
  <1>4. ASSUME NEW f \in es, f.path = w.path, Beats(f, w) PROVE FALSE
    <2>1. f \in T /\ f.lamport <= w.lamport /\ (f.lamport = w.lamport => f.dev <= w.dev)
      BY <1>1, <1>2, <1>3, <1>4
    <2>2. /\ f.lamport \in Nat /\ f.dev \in Nat /\ w.lamport \in Nat /\ w.dev \in Nat
          /\ f \in Entry /\ w \in Entry
      BY EntryFields
    <2>3. f.lamport = w.lamport /\ f.dev = w.dev
      BY <1>4, <2>1, <2>2 DEF Beats
    <2>4. f = w
      BY <1>4, <2>3
    <2>5. QED
      BY <1>4, <2>2, <2>4, BeatsIrreflexive
  <1>5. w \in Merged(es) /\ w.path = e.path /\ ~Beats(e, w)
    BY <1>4 DEF Merged
  <1>6. QED
    BY <1>5, BeatsTotal

(* An entry that loses has an immediate successor, the one merge_deltas meets
   next in the log's order. *)
LEMMA Successor ==
    ASSUME NEW es \in SUBSET Entry,
           \A e, f \in es : e.path = f.path /\ e.lamport = f.lamport /\ e.dev = f.dev => e = f,
           NEW e \in es, e \notin Merged(es)
    PROVE  \E f \in es : /\ f.path = e.path /\ Beats(f, e)
                         /\ \A h \in EntriesAt(es, e.path) : ~(Beats(f, h) /\ Beats(h, e))
  <1> DEFINE T == {f \in es : f.path = e.path /\ Beats(f, e)}
             L == {f.lamport : f \in T}
  <1>1. T # {}
    BY DEF Merged
  <1>2. PICK l \in L : \A m \in L : l <= m
    <2>1. L \in SUBSET Nat /\ L # {}
      BY <1>1, EntryFields
    <2> HIDE DEF L
    <2>2. QED
      BY <2>1, LeastNat
  <1> DEFINE D == {f.dev : f \in {x \in T : x.lamport = l}}
  <1>3. PICK k \in D : \A m \in D : k <= m
    <2>1. D \in SUBSET Nat /\ D # {}
      BY EntryFields
    <2> HIDE DEF D
    <2>2. QED
      BY <2>1, LeastNat
  <1>4. PICK f \in T : f.lamport = l /\ f.dev = k
    OBVIOUS
  <1>5. ASSUME NEW h \in EntriesAt(es, e.path), Beats(f, h), Beats(h, e) PROVE FALSE
    <2>1. h \in T /\ f.lamport <= h.lamport /\ (f.lamport = h.lamport => f.dev <= h.dev)
      BY <1>2, <1>3, <1>4, <1>5 DEF EntriesAt
    <2>2. /\ f.lamport \in Nat /\ f.dev \in Nat /\ h.lamport \in Nat /\ h.dev \in Nat
          /\ f \in Entry /\ h \in Entry
      BY <2>1, EntryFields
    <2>3. f.lamport = h.lamport /\ f.dev = h.dev
      BY <1>5, <2>1, <2>2 DEF Beats
    <2>4. f = h
      BY <2>1, <2>3
    <2>5. QED
      BY <1>5, <2>2, <2>4, BeatsIrreflexive
  <1>6. QED
    BY <1>5
=============================================================================
