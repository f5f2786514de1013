---------------------------- MODULE RegistersProofs ----------------------------
(*
 * What the template of the generated accessors promises of every register of
 * every device, whatever the widths: a field reads back as it was written, no
 * other field moves, and the bits with a prescribed value have it. It takes a
 * table whose fields do not overlap (WellFormed), which a run evaluates for
 * the tables of all devices.
 *)
EXTENDS Registers, TLAPS

-----------------------------------------------------------------------------
(* Words *)

LEMMA InsertThenExtract ==
    ASSUME NEW t, NEW f, Lo(t, f) \in Nat, Size(t, f) \in Nat,
           NEW w, NEW v \in SUBSET (0 .. Size(t, f) - 1)
    PROVE  extract(t, f, insert(t, f, w, v)) = v
<1> DEFINE lo == Lo(t, f)
           field == lo .. lo + Size(t, f) - 1
<1>1. Shifted(t, f, v) = {b + lo : b \in v}
  <2>1. {b + lo : b \in v} \subseteq field
    OBVIOUS
  <2>. QED
    BY <2>1 DEF Shifted, FieldBits
<1>2. insert(t, f, w, v) \cap FieldBits(t, f) = {b + lo : b \in v}
  BY <1>1 DEF insert, Shifted
<1>3. {c - lo : c \in {b + lo : b \in v}} = v
  <2>1. \A b \in v : (b + lo) - lo = b
    OBVIOUS
  <2>. QED
    BY <2>1
<1>. QED
  BY <1>2, <1>3 DEF extract

LEMMA OthersExtractedAlike ==
    ASSUME NEW t, NEW g, NEW w1, NEW w2,
           w1 \cap FieldBits(t, g) = w2 \cap FieldBits(t, g)
    PROVE  extract(t, g, w1) = extract(t, g, w2)
BY DEF extract

\* A word's fields are independent: an insertion is read back, and seen by no
\* field that does not overlap.
THEOREM FieldsAreIndependent ==
    ASSUME NEW t, WellFormedType(t), NEW f \in DOMAIN t.fields,
           NEW g \in DOMAIN t.fields, NEW w,
           NEW v \in SUBSET (0 .. Size(t, f) - 1)
    PROVE  extract(t, g, insert(t, f, w, v)) =
              IF g = f THEN v ELSE extract(t, g, w)
<1>1. CASE g = f
  BY <1>1, InsertThenExtract DEF WellFormedType
<1>2. CASE g # f
  <2>1. FieldBits(t, f) \cap FieldBits(t, g) = {}
    BY <1>2 DEF WellFormedType
  <2>2. insert(t, f, w, v) \cap FieldBits(t, g) = w \cap FieldBits(t, g)
    BY <2>1 DEF insert, Shifted
  <2>. QED
    BY <1>2, <2>2, OthersExtractedAlike
<1>. QED
  BY <1>1, <1>2

\* The numbers that the boot messages and the CMOS memory carry.
LEMMA SmallWords ==
    /\ Word(0) = {} /\ Word(1) = {0} /\ Word(5) = {0, 2} /\ Word(6) = {1, 2}
    /\ Word(7) = {0, 1, 2} /\ Word(10) = {1, 3}
BY DEF Word, Weights

-----------------------------------------------------------------------------
(* Registers *)

\* Field bits are never among the bits with a prescribed value.
LEMMA ForcedLeavesFields ==
    ASSUME NEW t, WellFormedType(t), NEW g \in DOMAIN t.fields, NEW w
    PROVE  Forced(t, w) \cap FieldBits(t, g) = w \cap FieldBits(t, g)
BY DEF WellFormedType, Forced

\* Whatever is written, and by whichever accessor, the must-be-zero bits are 0
\* and the must-be-one bits 1.
THEOREM PrescribedBits ==
    ASSUME NEW r, WellFormed(r), NEW f, NEW v, NEW dev, NEW shadow
    PROVE  \A word \in {wr(r, v, dev), wrf(r, f, v, dev, shadow)} :
              word \cap r.type.mbz = {} /\ r.type.mb1 \subseteq word
<1>1. \A w : Forced(r.type, w) \cap r.type.mbz = {}
             /\ r.type.mb1 \subseteq Forced(r.type, w)
  BY DEF Forced, WellFormed, WellFormedType
<1>. QED
  BY <1>1 DEF wr, wrf

\* The accessor of one field: it stores the value, keeps every other field that
\* the driver may write at what the device holds ("rw") or at what the driver
\* wrote last ("wo"), and writes read-only fields as 0.
THEOREM FieldWrite ==
    ASSUME NEW r, WellFormed(r), r.mode \in {"rw", "wo"},
           NEW f \in DOMAIN r.type.fields, NEW g \in DOMAIN r.type.fields,
           NEW v \in SUBSET (0 .. Size(r.type, f) - 1), NEW dev, NEW shadow
    PROVE  extract(r.type, g, wrf(r, f, v, dev, shadow)) =
              IF g = f THEN v
              ELSE IF r.mode = "wo" THEN extract(r.type, g, shadow)
              ELSE IF g \in r.ro THEN {}
              ELSE extract(r.type, g, dev)
<1> DEFINE t == r.type
           others == IF r.mode = "wo" THEN shadow \ t.rsvd
                     ELSE dev \ ReadOnlyBits(r)
           word == Shifted(t, f, v) \cup (others \ FieldBits(t, f))
<1>1. WellFormedType(t)
  BY DEF WellFormed
<1>2. extract(t, g, wrf(r, f, v, dev, shadow)) = extract(t, g, word)
  <2>1. wrf(r, f, v, dev, shadow) = Forced(t, word)
    BY DEF wrf
  <2>. QED
    BY <1>1, <2>1, ForcedLeavesFields, OthersExtractedAlike
<1>3. word = insert(t, f, others, v)
  BY DEF insert
<1>4. extract(t, g, word) = IF g = f THEN v ELSE extract(t, g, others)
  <2>1. \A w : extract(t, g, insert(t, f, w, v)) =
                  IF g = f THEN v ELSE extract(t, g, w)
    BY <1>1, FieldsAreIndependent
  <2> HIDE DEF others, word
  <2>. QED
    BY <1>3, <2>1
<1>5. CASE r.mode = "wo"
  <2>1. others \cap FieldBits(t, g) = shadow \cap FieldBits(t, g)
    BY <1>1, <1>5 DEF WellFormedType
  <2>. QED
    BY <1>2, <1>4, <1>5, <2>1, OthersExtractedAlike
<1>6. CASE r.mode = "rw" /\ g \in r.ro
  <2>1. others \cap FieldBits(t, g) = {}
    BY <1>6 DEF ReadOnlyBits
  <2>. QED
    BY <1>2, <1>4, <1>6, <2>1 DEF extract
<1>7. CASE r.mode = "rw" /\ g \notin r.ro
  <2>1. \A h \in r.ro : FieldBits(t, h) \cap FieldBits(t, g) = {}
    BY <1>1, <1>7 DEF WellFormedType, WellFormed
  <2>2. others \cap FieldBits(t, g) = dev \cap FieldBits(t, g)
    BY <1>7, <2>1 DEF ReadOnlyBits
  <2>. QED
    BY <1>2, <1>4, <1>7, <2>2, OthersExtractedAlike
<1>. QED
  BY <1>5, <1>6, <1>7
================================================================================
