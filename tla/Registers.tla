------------------------------- MODULE Registers -------------------------------
(*
 * Device registers as the generated drivers access them.
 *
 * A word is the set of the positions of its one bits, so that a word of any
 * width is a set, "&" is \cap, "|" is \cup and "<< n" adds n to each position.
 * A word type (T_... in the device modules) names the fields of a word, each a
 * pair <<offset, size>>, and the bits the driver must write as 0 (mbz) or 1
 * (mb1) or write back as it read them (rsvd). A register (R_...) is a word
 * type, a place, and how the driver reaches it: "rw", "ro", or "wo", a register
 * that cannot be read back and whose last field write the driver keeps in a
 * shadow variable. The fields in ro are read-only within an "rw" register.
 *
 * Every register of a device has the same accessors, generated from one
 * template; they are the operators extract ... wrf below. The place is not
 * used here: the modules that drive a device say what a write there does.
 *)
EXTENDS Integers, FiniteSets, Sequences

WordType(width, fields, mbz, mb1, rsvd) ==
    [width |-> width, fields |-> fields, mbz |-> mbz, mb1 |-> mb1, rsvd |-> rsvd]

Plain(width) == WordType(width, <<>>, {}, {}, {})

ReadWrite(type, place, ro) ==
    [type |-> type, place |-> place, mode |-> "rw", ro |-> ro]
ReadOnly(type, place) ==
    [type |-> type, place |-> place, mode |-> "ro", ro |-> DOMAIN type.fields]
WriteOnly(type, place) ==
    [type |-> type, place |-> place, mode |-> "wo", ro |-> {}]

AllBits(t) == 0 .. (t.width - 1)
Lo(t, f) == t.fields[f][1]
Size(t, f) == t.fields[f][2]
FieldBits(t, f) == Lo(t, f) .. (Lo(t, f) + Size(t, f) - 1)

\* Numbers below 2^16 as words.
Weights == <<1, 2, 4, 8, 16, 32, 64, 128, 256, 512, 1024, 2048, 4096, 8192,
             16384, 32768>>
Word(n) == {b \in 0 .. 15 : (n \div Weights[b + 1]) % 2 = 1}

\* (reg & mask) >> lo
extract(t, f, w) == {b - Lo(t, f) : b \in w \cap FieldBits(t, f)}

Shifted(t, f, v) == {b + Lo(t, f) : b \in v} \cap FieldBits(t, f)

\* (reg & ~mask) | (mask & (val << lo))
insert(t, f, w, v) == (w \ FieldBits(t, f)) \cup Shifted(t, f, v)

ReadOnlyBits(r) == UNION {FieldBits(r.type, f) : f \in r.ro}

Forced(t, w) == (w \ t.mbz) \cup t.mb1

\* What rd returns: the device's word, or the driver's shadow of it.
rd(r, dev, shadow) == IF r.mode = "wo" THEN shadow ELSE dev

rdf(r, f, dev, shadow) == extract(r.type, f, rd(r, dev, shadow))

\* The word wr puts in the device. It leaves the shadow as it was.
wr(r, v, dev) ==
    Forced(r.type, (v \ r.type.rsvd)
                     \cup (IF r.mode = "rw" THEN r.type.rsvd \cap dev ELSE {}))

\* The word a field write puts in the device, and in the shadow of a "wo"
\* register: the other fields come from the device or from the shadow, the
\* read-only ones are written as 0.
wrf(r, f, v, dev, shadow) ==
    LET others == IF r.mode = "wo" THEN shadow \ r.type.rsvd
                  ELSE dev \ ReadOnlyBits(r)
    IN  Forced(r.type, Shifted(r.type, f, v)
                         \cup (others \ FieldBits(r.type, f)))

-----------------------------------------------------------------------------
(* What a table must satisfy for the accessors to keep the fields apart. *)

WellFormedType(t) ==
    /\ t.width \in Nat
    /\ \A f \in DOMAIN t.fields :
          /\ Lo(t, f) \in Nat
          /\ Size(t, f) \in Nat \ {0}
          /\ FieldBits(t, f) \subseteq AllBits(t)
          /\ FieldBits(t, f) \cap (t.mbz \cup t.mb1 \cup t.rsvd) = {}
          /\ \A g \in DOMAIN t.fields \ {f} :
                FieldBits(t, f) \cap FieldBits(t, g) = {}
    /\ (t.mbz \cup t.mb1 \cup t.rsvd) \subseteq AllBits(t)
    /\ t.mbz \cap t.mb1 = {}
    /\ t.mbz \cap t.rsvd = {}
    /\ t.mb1 \cap t.rsvd = {}

WellFormed(r) ==
    /\ WellFormedType(r.type)
    /\ r.mode \in {"rw", "ro", "wo"}
    /\ r.ro \subseteq DOMAIN r.type.fields
=============================================================================
