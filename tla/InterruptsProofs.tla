--------------------------- MODULE InterruptsProofs ---------------------------
(*
 * For any pins that move, any garbage in the registers and handlers nested to
 * any depth on the fiber's stack: each interrupt is acknowledged by its own
 * handler, and the core is never left with interrupts off (Inv); and what the
 * reset leaves in the registers, so that every request has the vector and the
 * gate meant for its source, none comes from the 8259 or from the reset's own
 * countdown, and no device of an ISA bus preempts a fiber (WiredInv).
 *)
EXTENDS Interrupts, RegistersProofs, SequenceTheorems, WellFoundedInduction, TLAPS

Requests == (0 .. 255) \X (Sources \ {From("spurious")})

\* Handlers do not nest on the main stack, and on the fiber's only above one
\* that has turned interrupts on again; a fiber that is not running is whole or
\* was left in the middle of _ring0_preempt.
Shape ==
    /\ ctx \in {"main", "fiber"}
    /\ stack \in [{"main", "fiber"} -> Seq(Frames)]
    /\ Len(stack["main"]) <= 1
    /\ stack["main"] # <<>> => ctx = "main" /\ InPhase("main", {"entered", "acked"})
    /\ stack["fiber"] # <<>> =>
          IF ctx = "main" THEN InPhase("fiber", {"saved"})
          ELSE InPhase("fiber", {"entered", "acked", "open", "resumed"})
    /\ \A k \in 1 .. Len(stack["fiber"]) - 1 :
          stack["fiber"][k].phase \in {"open", "resumed"}

\* Interrupts are on exactly when the core runs and no handler holds them off.
Flag ==
    /\ IFlag \in BOOLEAN
    /\ IFlag <=> Running /\ ~InPhase(ctx, {"entered", "acked"})
    /\ at \in Nat \ {0}
    /\ ~Running => /\ ctx = "main" /\ isr = {}
                   /\ stack["main"] = <<>> /\ stack["fiber"] = <<>>

Inv == irr \subseteq Requests /\ Shape /\ Flag /\ OneEoi

-----------------------------------------------------------------------------
(* The program of the reset, by the kind of its entries *)

IsWrite(e) == e.op \in {"wr", "rawwr", "wrf"}
ToLapic(e, reg) == IsWrite(e) /\ e.dev = "lapic" /\ Offset(e.reg) = Offset(reg)

\* Low words with the vector of the source, or with its mask, which is bit 16
\* of the timer's word and of thermal's.
WordFor(e, v) == e.op = "wr" /\ (16 \in e.word \/ VectorOf(e.word) = v)

LapicEntry(e) ==
    /\ e.word \subseteq 0 .. 31 /\ e.reg.type.mb1 \subseteq 0 .. 31
    /\ e.op = "wrf" => FieldBits(e.reg.type, e.field) \subseteq 0 .. 31
    /\ Offset(e.reg) = Offset(Lapic!R_lvt_timer) =>
          e.reg = Lapic!R_lvt_timer /\ WordFor(e, lapic_internal_base + TIMER)
    /\ Offset(e.reg) = Offset(Lapic!R_lvt_thermal) =>
          e.reg = Lapic!R_lvt_thermal /\ WordFor(e, lapic_internal_base + THERMAL)

\* Entries before the sti. The kinds: "masked" leaves the timer's interrupt
\* masked, "silent" starts no countdown, "apic" leaves the 8259 alone.
Entry(e, kind) ==
    /\ e.op # "sti"
    /\ IsWrite(e) /\ e.dev = "lapic" => LapicEntry(e)
    /\ e.op = "redirect" =>
          e.pin \in 0 .. Nirq - 1 /\ e.reg = Ioapic!R_redirtbl[e.pin]
    /\ kind = "masked" /\ ToLapic(e, Lapic!R_lvt_timer) => 16 \in e.word
    /\ kind = "silent" => ~ToLapic(e, Lapic!R_init_count)
    /\ kind = "apic" /\ IsWrite(e) => e.dev # "pic"

Entries(s) == {s[k] : k \in DOMAIN s}
Prog(s, kind) == s \in Seq(Entries(s)) /\ \A e \in Entries(s) : Entry(e, kind)

\* The 8259 come first, and the countdown is stopped once and for all.
First == pic_reset(pic_master_base) \o maskall
Begins(s) == \E q : Prog(q, "apic") /\ s = First \o q

Stop == [op |-> "wr", dev |-> "lapic", reg |-> Lapic!R_init_count, word |-> Word(0)]
Cuts(s) == \E p, q : /\ Prog(p, "masked") /\ Prog(q, "silent")
                     /\ s = (p \o <<Stop>>) \o q

StopsAt(c) ==
    /\ c \in 1 .. Len(hal_reset) - 1 /\ hal_reset[c] = Stop
    /\ \A k \in 1 .. c - 1 : Entry(hal_reset[k], "masked")
    /\ \A k \in c + 1 .. Len(hal_reset) - 1 : Entry(hal_reset[k], "silent")

-----------------------------------------------------------------------------
(* Vectors and words *)

LEMMA VectorRange == \A word : VectorOf(word) \in 0 .. 255
BY DEF VectorOf

LEMMA LowBits ==
    \A w, x : (\A b \in 0 .. 7 : b \in w <=> b \in x) => VectorOf(w) = VectorOf(x)
BY DEF VectorOf

LEMMA VectorOfBits ==
    ASSUME NEW n \in 0 .. 255, NEW w,
           0 \in w <=> (n \div 1) % 2 = 1,  1 \in w <=> (n \div 2) % 2 = 1,
           2 \in w <=> (n \div 4) % 2 = 1,  3 \in w <=> (n \div 8) % 2 = 1,
           4 \in w <=> (n \div 16) % 2 = 1, 5 \in w <=> (n \div 32) % 2 = 1,
           6 \in w <=> (n \div 64) % 2 = 1, 7 \in w <=> (n \div 128) % 2 = 1
    PROVE  VectorOf(w) = n
BY SMTT(30) DEF VectorOf

LEMMA VectorOfWord == \A n \in 0 .. 255 : VectorOf(Word(n)) = n
<1> SUFFICES ASSUME NEW n \in 0 .. 255 PROVE VectorOf(Word(n)) = n
  OBVIOUS
<1>1. /\ 0 \in Word(n) <=> (n \div 1) % 2 = 1
      /\ 1 \in Word(n) <=> (n \div 2) % 2 = 1
      /\ 2 \in Word(n) <=> (n \div 4) % 2 = 1
      /\ 3 \in Word(n) <=> (n \div 8) % 2 = 1
      /\ 4 \in Word(n) <=> (n \div 16) % 2 = 1
      /\ 5 \in Word(n) <=> (n \div 32) % 2 = 1
      /\ 6 \in Word(n) <=> (n \div 64) % 2 = 1
      /\ 7 \in Word(n) <=> (n \div 128) % 2 = 1
  BY DEF Word, Weights
<1>. QED
  BY <1>1, VectorOfBits

LEMMA SmallWord == \A n : Word(n) \subseteq 0 .. 15
BY DEF Word

\* A word filled in from fields has nothing beside them.
LEMMA FillTyped ==
    ASSUME NEW t, NEW vals, \A f \in DOMAIN vals : FieldBits(t, f) \subseteq 0 .. 31
    PROVE  Fill(t, vals) \subseteq 0 .. 31
BY DEF Fill, Shifted

LEMMA FieldAt ==
    \A t, f, a, b : t.fields[f] = <<a, b>> => Lo(t, f) = a /\ FieldBits(t, f) = a .. a + b - 1
BY DEF FieldBits, Lo, Size

\* The fields that the drivers fill in, at their places.
LEMMA LapicFields ==
    /\ LET t == Lapic!T_svr IN
          /\ FieldBits(t, "vector") = 0 .. 7 /\ FieldBits(t, "enable") = 8 .. 8
          /\ FieldBits(t, "focus") = 9 .. 9
    /\ LET t == Lapic!T_lvt_timer IN
          /\ FieldBits(t, "vector") = 0 .. 7 /\ Lo(t, "vector") = 0
          /\ FieldBits(t, "mask") = 16 .. 16 /\ Lo(t, "mask") = 16
          /\ FieldBits(t, "mode") = 17 .. 17
    /\ LET t == Lapic!T_lvt_mon IN
          /\ FieldBits(t, "vector") = 0 .. 7 /\ Lo(t, "vector") = 0
          /\ FieldBits(t, "mask") = 16 .. 16 /\ Lo(t, "mask") = 16
    /\ LET t == Lapic!T_lvt_lint IN
          /\ FieldBits(t, "vector") = 0 .. 7 /\ FieldBits(t, "dlv_mode") = 8 .. 11
          /\ FieldBits(t, "trig_mode") = 16 .. 16 /\ FieldBits(t, "mask") = 17 .. 17
    /\ LET t == Lapic!T_lvt_err IN
          /\ FieldBits(t, "vector") = 0 .. 7 /\ FieldBits(t, "mask") = 16 .. 16
    /\ FieldBits(Lapic!T_dcr, "div_val") = 0 .. 3
    /\ FieldBits(Lapic!T_ldr, "log_id") = 24 .. 31
    /\ FieldBits(Lapic!T_dfr, "model") = 28 .. 31
<1>1. /\ Lapic!T_svr.fields["vector"] = <<0, 8>>
      /\ Lapic!T_svr.fields["enable"] = <<8, 1>>
      /\ Lapic!T_svr.fields["focus"] = <<9, 1>>
  BY DEF Lapic!T_svr, Lapic!WordType
<1>2. /\ Lapic!T_lvt_timer.fields["vector"] = <<0, 8>>
      /\ Lapic!T_lvt_timer.fields["mask"] = <<16, 1>>
      /\ Lapic!T_lvt_timer.fields["mode"] = <<17, 1>>
  BY DEF Lapic!T_lvt_timer, Lapic!WordType
<1>3. /\ Lapic!T_lvt_mon.fields["vector"] = <<0, 8>>
      /\ Lapic!T_lvt_mon.fields["mask"] = <<16, 1>>
      /\ Lapic!T_lvt_err.fields["vector"] = <<0, 8>>
      /\ Lapic!T_lvt_err.fields["mask"] = <<16, 1>>
  BY DEF Lapic!T_lvt_mon, Lapic!T_lvt_err, Lapic!WordType
<1>4. /\ Lapic!T_lvt_lint.fields["vector"] = <<0, 8>>
      /\ Lapic!T_lvt_lint.fields["dlv_mode"] = <<8, 4>>
      /\ Lapic!T_lvt_lint.fields["trig_mode"] = <<16, 1>>
      /\ Lapic!T_lvt_lint.fields["mask"] = <<17, 1>>
  BY DEF Lapic!T_lvt_lint, Lapic!WordType
<1>5. /\ Lapic!T_dcr.fields["div_val"] = <<0, 4>>
      /\ Lapic!T_ldr.fields["log_id"] = <<24, 8>>
      /\ Lapic!T_dfr.fields["model"] = <<28, 4>>
  BY DEF Lapic!T_dcr, Lapic!T_ldr, Lapic!T_dfr, Lapic!WordType
<1>6. LET t == Lapic!T_svr IN
         /\ FieldBits(t, "vector") = 0 .. 7 /\ FieldBits(t, "enable") = 8 .. 8
         /\ FieldBits(t, "focus") = 9 .. 9
  BY <1>1, FieldAt
<1>7. LET t == Lapic!T_lvt_timer IN
         /\ FieldBits(t, "vector") = 0 .. 7 /\ Lo(t, "vector") = 0
         /\ FieldBits(t, "mask") = 16 .. 16 /\ Lo(t, "mask") = 16
         /\ FieldBits(t, "mode") = 17 .. 17
  BY <1>2, FieldAt
<1>8. LET t == Lapic!T_lvt_mon IN
         /\ FieldBits(t, "vector") = 0 .. 7 /\ Lo(t, "vector") = 0
         /\ FieldBits(t, "mask") = 16 .. 16 /\ Lo(t, "mask") = 16
  BY <1>3, FieldAt
<1>9. LET t == Lapic!T_lvt_lint IN
         /\ FieldBits(t, "vector") = 0 .. 7 /\ FieldBits(t, "dlv_mode") = 8 .. 11
         /\ FieldBits(t, "trig_mode") = 16 .. 16 /\ FieldBits(t, "mask") = 17 .. 17
  BY <1>4, FieldAt
<1>10. LET t == Lapic!T_lvt_err IN
         /\ FieldBits(t, "vector") = 0 .. 7 /\ FieldBits(t, "mask") = 16 .. 16
  BY <1>3, FieldAt
<1>11. /\ FieldBits(Lapic!T_dcr, "div_val") = 0 .. 3
       /\ FieldBits(Lapic!T_ldr, "log_id") = 24 .. 31
       /\ FieldBits(Lapic!T_dfr, "model") = 28 .. 31
  BY <1>5, FieldAt
<1>. QED
  BY <1>6, <1>7, <1>8, <1>9, <1>10, <1>11

\* The two sources that can interrupt have their vector, and a mask that masks.
LEMMA WordsFilled ==
    ASSUME NEW t \in {Lapic!T_lvt_timer, Lapic!T_lvt_mon},
           NEW n \in 0 .. 255, NEW mask, NEW vals,
           "vector" \in DOMAIN vals, "mask" \in DOMAIN vals,
           DOMAIN vals \subseteq {"vector", "mask", "mode"},
           "mode" \in DOMAIN vals => t = Lapic!T_lvt_timer,
           vals["vector"] = n, vals["mask"] = mask
    PROVE  /\ Fill(t, vals) \subseteq 0 .. 31
           /\ VectorOf(Fill(t, vals)) = n
           /\ mask = 1 => 16 \in Fill(t, vals)
<1>1. /\ FieldBits(t, "vector") = 0 .. 7 /\ Lo(t, "vector") = 0
      /\ FieldBits(t, "mask") = 16 .. 16 /\ Lo(t, "mask") = 16
      /\ "mode" \in DOMAIN vals => FieldBits(t, "mode") = 17 .. 17
  BY LapicFields
<1>2. Fill(t, vals) \subseteq 0 .. 31
  <2>1. \A f \in DOMAIN vals : FieldBits(t, f) \subseteq 0 .. 31
    BY <1>1
  <2>. QED
    BY <2>1, FillTyped
<1>3. \A b \in 0 .. 7 : b \in Fill(t, vals) <=> b \in Word(n)
  <2>1. ASSUME NEW b \in 0 .. 7, b \in Fill(t, vals) PROVE b \in Word(n)
    <3>1. PICK f \in DOMAIN vals : b \in Shifted(t, f, Word(vals[f]))
      BY <2>1 DEF Fill
    <3>2. f = "vector"
      BY <1>1, <3>1 DEF Shifted
    <3>. QED
      BY <1>1, <3>1, <3>2, SmallWord DEF Shifted
  <2>2. ASSUME NEW b \in 0 .. 7, b \in Word(n) PROVE b \in Fill(t, vals)
    <3>1. b \in Shifted(t, "vector", Word(n))
      BY <1>1, <2>2 DEF Shifted
    <3>. QED
      BY <3>1 DEF Fill
  <2>. QED
    BY <2>1, <2>2
<1>4. ASSUME mask = 1 PROVE 16 \in Fill(t, vals)
  <2>1. 16 \in Shifted(t, "mask", Word(1))
    BY <1>1, SmallWords DEF Shifted
  <2>. QED
    BY <1>4, <2>1 DEF Fill
<1>5. VectorOf(Fill(t, vals)) = VectorOf(Word(n))
  BY <1>3, LowBits
<1>6. VectorOf(Word(n)) = n
  BY VectorOfWord
<1>. QED
  BY <1>2, <1>4, <1>5, <1>6

MonWord(v, x) == Fill(Lapic!T_lvt_mon, [vector |-> v, mask |-> x])
TimerWord(v, x) == Fill(Lapic!T_lvt_timer, [vector |-> v, mask |-> x, mode |-> 0])

LEMMA SourceWords ==
    ASSUME NEW v \in 0 .. 255, NEW x
    PROVE  \A word \in {MonWord(v, x), TimerWord(v, x)} :
              /\ word \subseteq 0 .. 31 /\ VectorOf(word) = v
              /\ x = 1 => 16 \in word
<1> DEFINE Right(word) == /\ word \subseteq 0 .. 31 /\ VectorOf(word) = v
                          /\ x = 1 => 16 \in word
<1>1. Right(MonWord(v, x))
  <2> DEFINE vals == [vector |-> v, mask |-> x]
  <2>1. DOMAIN vals = {"vector", "mask"} /\ vals["vector"] = v /\ vals["mask"] = x
    OBVIOUS
  <2> HIDE DEF vals
  <2>2. Right(Fill(Lapic!T_lvt_mon, vals))
    BY <2>1, WordsFilled
  <2>. QED
    BY <2>2 DEF vals, MonWord
<1>2. Right(TimerWord(v, x))
  <2> DEFINE vals == [vector |-> v, mask |-> x, mode |-> 0]
  <2>1. DOMAIN vals = {"vector", "mask", "mode"} /\ vals["vector"] = v /\ vals["mask"] = x
    OBVIOUS
  <2> HIDE DEF vals
  <2> DEFINE t == Lapic!T_lvt_timer
  <2> HIDE DEF t
  <2>2. /\ t \in {Lapic!T_lvt_timer, Lapic!T_lvt_mon} /\ t = Lapic!T_lvt_timer
        /\ "vector" \in DOMAIN vals /\ "mask" \in DOMAIN vals
        /\ DOMAIN vals \subseteq {"vector", "mask", "mode"}
    BY <2>1 DEF t
  <2>3. Right(Fill(t, vals))
    BY <2>1, <2>2, WordsFilled
  <2>. QED
    BY <2>3 DEF vals, t, TimerWord
<1>. QED
  BY <1>1, <1>2

-----------------------------------------------------------------------------
(* Sequences of entries *)

LEMMA SeqOfMore == \A s, E : s \in Seq(Entries(s)) /\ Entries(s) \subseteq E => s \in Seq(E)
BY DEF Entries

LEMMA ProgConcat ==
    \A s, t, kind : Prog(s, kind) /\ Prog(t, kind) => Prog(s \o t, kind)
<1> SUFFICES ASSUME NEW s, NEW t, NEW kind, Prog(s, kind), Prog(t, kind)
             PROVE  Prog(s \o t, kind)
  OBVIOUS
<1> DEFINE E == Entries(s) \cup Entries(t)
<1>1. s \in Seq(E) /\ t \in Seq(E)
  BY SeqOfMore DEF Prog
<1>2. s \o t \in Seq(E) /\ \A e \in E : Entry(e, kind)
  BY <1>1 DEF Prog
<1>3. \A u : u \in Seq(E) => Entries(u) \subseteq E /\ u \in Seq(Entries(u))
  BY DEF Entries
<1>. QED
  BY <1>2, <1>3 DEF Prog

LEMMA ProgSingle == \A e, kind : Entry(e, kind) => Prog(<<e>>, kind)
BY DEF Prog, Entries

LEMMA ProgAssociative ==
    \A s, t, u, k1, k2, k3 :
       Prog(s, k1) /\ Prog(t, k2) /\ Prog(u, k3) => (s \o t) \o u = s \o (t \o u)
<1> SUFFICES ASSUME NEW s, NEW t, NEW u, s \in Seq(Entries(s)),
                    t \in Seq(Entries(t)), u \in Seq(Entries(u))
             PROVE  (s \o t) \o u = s \o (t \o u)
  BY DEF Prog
<1> DEFINE E == Entries(s) \cup Entries(t) \cup Entries(u)
<1>1. s \in Seq(E) /\ t \in Seq(E) /\ u \in Seq(E)
  BY SeqOfMore
<1> HIDE DEF E
<1>. QED
  BY <1>1, ConcatAssociative

\* A sequence goes on beginning with First, and being cut by Stop.
LEMMA BeginsOn ==
    \A s, t, kind : Prog(First, kind) /\ Begins(s) /\ Prog(t, "apic") => Begins(s \o t)
<1> SUFFICES ASSUME NEW s, NEW t, NEW kind, Prog(First, kind), Begins(s),
                    Prog(t, "apic")
             PROVE  Begins(s \o t)
  OBVIOUS
<1>1. PICK q : Prog(q, "apic") /\ s = First \o q
  BY DEF Begins
<1>2. s \o t = First \o (q \o t)
  BY <1>1, ProgAssociative
<1>3. Prog(q \o t, "apic")
  BY <1>1, ProgConcat
<1>. QED
  BY <1>2, <1>3 DEF Begins

LEMMA StopIsEntry == Prog(<<Stop>>, "masked")
<1>1. /\ Offset(Stop.reg) = 896 /\ Offset(Lapic!R_lvt_timer) = 800
      /\ Offset(Lapic!R_lvt_thermal) = 816
      /\ Stop.reg.type.mb1 = {}
  BY DEF Stop, Offset, Lapic!R_init_count, Lapic!R_lvt_timer, Lapic!R_lvt_thermal,
         Lapic!ReadWrite, Lapic!Plain, Lapic!WordType
<1>2. Stop.op = "wr" /\ Stop.dev = "lapic" /\ Stop.word = {}
  BY SmallWords DEF Stop
<1>3. LapicEntry(Stop) /\ ~ToLapic(Stop, Lapic!R_lvt_timer)
  BY <1>1, <1>2 DEF LapicEntry, ToLapic
<1>4. Entry(Stop, "masked")
  BY <1>2, <1>3 DEF Entry
<1>. QED
  BY <1>4, ProgSingle

LEMMA CutsOn ==
    /\ \A s, t : Prog(s, "masked") /\ Cuts(t) => Cuts(s \o t)
    /\ \A s, t : Cuts(s) /\ Prog(t, "silent") => Cuts(s \o t)
<1>1. ASSUME NEW s, NEW t, Prog(s, "masked"), Cuts(t) PROVE Cuts(s \o t)
  <2>1. PICK p, q : /\ Prog(p, "masked") /\ Prog(q, "silent")
                    /\ t = (p \o <<Stop>>) \o q
    BY <1>1 DEF Cuts
  <2> DEFINE m == <<Stop>>
  <2>2. Prog(m, "masked")
    BY StopIsEntry
  <2>3. t = (p \o m) \o q
    BY <2>1
  <2> HIDE DEF m
  <2>4. Prog(p \o m, "masked") /\ Prog(s \o p, "masked")
    BY <1>1, <2>1, <2>2, ProgConcat
  <2> DEFINE n == p \o m
  <2>5. /\ Prog(s, "masked") /\ Prog(p, "masked") /\ Prog(m, "masked")
        /\ Prog(n, "masked") /\ Prog(q, "silent")
    BY <1>1, <2>1, <2>2, <2>4
  <2>6. (s \o p) \o m = s \o n
    BY <2>5, ProgAssociative
  <2> HIDE DEF n
  <2>7. (s \o n) \o q = s \o (n \o q)
    BY <2>5, ProgAssociative
  <2>8. s \o t = ((s \o p) \o m) \o q
    BY <2>3, <2>6, <2>7 DEF n
  <2>. QED
    BY <2>1, <2>4, <2>8 DEF Cuts, m
<1>2. ASSUME NEW s, NEW t, Cuts(s), Prog(t, "silent") PROVE Cuts(s \o t)
  <2>1. PICK p, q : /\ Prog(p, "masked") /\ Prog(q, "silent")
                    /\ s = (p \o <<Stop>>) \o q
    BY <1>2 DEF Cuts
  <2> DEFINE m == <<Stop>>
  <2>2. Prog(m, "masked")
    BY StopIsEntry
  <2>3. s = (p \o m) \o q
    BY <2>1
  <2> HIDE DEF m
  <2>4. Prog(p \o m, "masked") /\ Prog(q \o t, "silent")
    BY <1>2, <2>1, <2>2, ProgConcat
  <2> DEFINE n == p \o m
  <2>5. Prog(n, "masked") /\ Prog(q, "silent") /\ Prog(t, "silent")
    BY <1>2, <2>1, <2>4
  <2> HIDE DEF n
  <2>6. (n \o q) \o t = n \o (q \o t)
    BY <2>5, ProgAssociative
  <2>7. s \o t = (p \o m) \o (q \o t)
    BY <2>3, <2>6 DEF n
  <2>. QED
    BY <2>1, <2>4, <2>7 DEF Cuts, m
<1>. QED
  BY <1>1, <1>2

-----------------------------------------------------------------------------
(* The pieces of the reset *)

LEMMA LapicRegisters ==
    /\ Offset(Lapic!R_lvt_timer) = 800 /\ Offset(Lapic!R_lvt_thermal) = 816
    /\ Offset(Lapic!R_init_count) = 896
    /\ \A r \in {Lapic!R_dfr, Lapic!R_ldr, Lapic!R_tpr, Lapic!R_svr, Lapic!R_dcr,
                 Lapic!R_lvt_perf_cnt, Lapic!R_lvt_lint0, Lapic!R_lvt_lint1,
                 Lapic!R_lvt_err, Lapic!R_esr, Lapic!R_eoi} :
          Offset(r) \notin {800, 816, 896} /\ r.type.mb1 \subseteq 0 .. 31
    /\ \A r \in {Lapic!R_lvt_timer, Lapic!R_lvt_thermal, Lapic!R_init_count} :
          r.type.mb1 = {}
BY DEF Offset, Lapic!R_dfr, Lapic!R_ldr, Lapic!R_tpr, Lapic!R_svr, Lapic!R_dcr,
   Lapic!R_lvt_perf_cnt, Lapic!R_lvt_lint0, Lapic!R_lvt_lint1, Lapic!R_lvt_err,
   Lapic!R_esr, Lapic!R_eoi, Lapic!R_lvt_timer, Lapic!R_lvt_thermal,
   Lapic!R_init_count, Lapic!ReadWrite, Lapic!WriteOnly, Lapic!Plain, Lapic!WordType,
   Lapic!T_dfr, Lapic!T_ldr, Lapic!T_priority, Lapic!T_svr, Lapic!T_dcr,
   Lapic!T_lvt_mon, Lapic!T_lvt_lint, Lapic!T_lvt_err, Lapic!T_esr, Lapic!T_lvt_timer

\* The local APIC's registers but the three that matter to the timer and to
\* thermal: any word, in any part of the reset.
LEMMA OtherWrites ==
    ASSUME NEW reg, Offset(reg) \notin {800, 816, 896}, reg.type.mb1 \subseteq 0 .. 31
    PROVE  /\ \A word, kind : word \subseteq 0 .. 31 =>
                 Prog(W("lapic", reg, word), kind) /\ Prog(Raw("lapic", reg, word), kind)
           /\ \A f, n, kind : FieldBits(reg.type, f) \subseteq 0 .. 31
                                 => Prog(F("lapic", reg, f, n), kind)
<1>1. ASSUME NEW word, NEW kind, word \subseteq 0 .. 31
      PROVE  Prog(W("lapic", reg, word), kind) /\ Prog(Raw("lapic", reg, word), kind)
  <2>1. ASSUME NEW op \in {"wr", "rawwr"}
        PROVE  Prog(<<[op |-> op, dev |-> "lapic", reg |-> reg, word |-> word]>>, kind)
    <3> DEFINE e == [op |-> op, dev |-> "lapic", reg |-> reg, word |-> word]
    <3>1. LapicEntry(e)
      BY <1>1, LapicRegisters DEF LapicEntry
    <3>2. ~ToLapic(e, Lapic!R_lvt_timer) /\ ~ToLapic(e, Lapic!R_init_count)
      BY LapicRegisters DEF ToLapic
    <3>3. Entry(e, kind)
      BY <3>1, <3>2 DEF Entry
    <3>. QED
      BY <3>3, ProgSingle
  <2>. QED
    BY <2>1 DEF W, Raw
<1>2. ASSUME NEW f, NEW n, NEW kind, FieldBits(reg.type, f) \subseteq 0 .. 31
      PROVE  Prog(F("lapic", reg, f, n), kind)
  <2> DEFINE e == [op |-> "wrf", dev |-> "lapic", reg |-> reg, field |-> f,
                   word |-> Word(n)]
  <2>1. LapicEntry(e)
    BY <1>2, LapicRegisters, SmallWord DEF LapicEntry
  <2>2. ~ToLapic(e, Lapic!R_lvt_timer) /\ ~ToLapic(e, Lapic!R_init_count)
    BY LapicRegisters DEF ToLapic
  <2>3. Entry(e, kind)
    BY <2>1, <2>2 DEF Entry
  <2>. QED
    BY <2>3, ProgSingle DEF F
<1>. QED
  BY <1>1, <1>2

\* Words for the timer and for thermal, and for the countdown.
LEMMA SourceWrites ==
    /\ \A word, kind : word \subseteq 0 .. 31 /\ 16 \in word
          => Prog(W("lapic", Lapic!R_lvt_timer, word), kind)
    /\ \A word, kind : word \subseteq 0 .. 31 /\ VectorOf(word) = 70 /\ kind # "masked"
          => Prog(W("lapic", Lapic!R_lvt_timer, word), kind)
    /\ \A word, kind : word \subseteq 0 .. 31 /\ (16 \in word \/ VectorOf(word) = 67)
          => Prog(W("lapic", Lapic!R_lvt_thermal, word), kind)
    /\ \A n, kind : kind # "silent"
          => Prog(W("lapic", Lapic!R_init_count, Word(n)), kind)
<1> DEFINE e(reg, word) == [op |-> "wr", dev |-> "lapic", reg |-> reg, word |-> word]
<1>1. \A word, kind :
         word \subseteq 0 .. 31 /\ (16 \in word \/ (VectorOf(word) = 70 /\ kind # "masked"))
         => Entry(e(Lapic!R_lvt_timer, word), kind)
  BY LapicRegisters
  DEF Entry, LapicEntry, WordFor, ToLapic, lapic_internal_base, TIMER
<1>2. \A word, kind :
         word \subseteq 0 .. 31 /\ (16 \in word \/ VectorOf(word) = 67)
         => Entry(e(Lapic!R_lvt_thermal, word), kind)
  BY LapicRegisters
  DEF Entry, LapicEntry, WordFor, ToLapic, lapic_internal_base, THERMAL
<1>3. \A n, kind : kind # "silent" => Entry(e(Lapic!R_init_count, Word(n)), kind)
  BY LapicRegisters, SmallWord DEF Entry, LapicEntry, ToLapic
<1>4. \A reg, word, kind : Entry(e(reg, word), kind) => Prog(W("lapic", reg, word), kind)
  BY ProgSingle DEF W
<1> HIDE DEF e
<1>5. \A word, kind : word \subseteq 0 .. 31 /\ 16 \in word
         => Prog(W("lapic", Lapic!R_lvt_timer, word), kind)
  BY <1>1, <1>4
<1>6. \A word, kind : word \subseteq 0 .. 31 /\ VectorOf(word) = 70 /\ kind # "masked"
         => Prog(W("lapic", Lapic!R_lvt_timer, word), kind)
  BY <1>1, <1>4
<1>. QED
  BY <1>2, <1>3, <1>4, <1>5, <1>6

\* Everything but the timer's words, for the vectors that are used.
LEMMA SourcesReset ==
    ASSUME NEW kind
    PROVE  /\ \A v : Prog(reset_spurious(v, 1), kind)
           /\ \A v, m : /\ Prog(reset_perfcnt(v, m), kind)
                        /\ Prog(reset_lint0(v, m), kind) /\ Prog(reset_lint1(v, m), kind)
                        /\ Prog(reset_err(v, m), kind)
           /\ Prog(reset_thermal(0, TRUE), kind) /\ Prog(reset_thermal(67, FALSE), kind)
           /\ Prog(clear_esr, kind) /\ Prog(eoi, kind)
<1>1. ASSUME NEW v PROVE Prog(reset_spurious(v, 1), kind)
  <2>1. Fill(Lapic!T_svr, [vector |-> v, enable |-> 1, focus |-> 1]) \subseteq 0 .. 31
    BY FillTyped, LapicFields
  <2>. QED
    BY <2>1, LapicRegisters, OtherWrites DEF reset_spurious
<1>2. ASSUME NEW v, NEW m PROVE Prog(reset_perfcnt(v, m), kind)
  <2>1. Fill(Lapic!T_lvt_mon, [vector |-> v, mask |-> Mask(m)]) \subseteq 0 .. 31
    BY FillTyped, LapicFields
  <2>. QED
    BY <2>1, LapicRegisters, OtherWrites DEF reset_perfcnt
<1>3. ASSUME NEW v, NEW mode, NEW m PROVE Lint(v, mode, m) \subseteq 0 .. 31
  <2> DEFINE vals == [vector |-> v, dlv_mode |-> mode,
                      trig_mode |-> Lapic!Num_trigm.edge, mask |-> Mask(m)]
  <2>1. DOMAIN vals = {"vector", "dlv_mode", "trig_mode", "mask"}
    OBVIOUS
  <2>2. \A f \in DOMAIN vals : FieldBits(Lapic!T_lvt_lint, f) \subseteq 0 .. 31
    BY <2>1, LapicFields
  <2>3. Lint(v, mode, m) = Fill(Lapic!T_lvt_lint, vals)
    BY DEF Lint
  <2> HIDE DEF vals
  <2>. QED
    BY <2>2, <2>3, FillTyped
<1>4. ASSUME NEW v, NEW m PROVE Prog(reset_lint0(v, m), kind) /\ Prog(reset_lint1(v, m), kind)
  BY <1>3, LapicRegisters, OtherWrites DEF reset_lint0, reset_lint1
<1>5. ASSUME NEW v, NEW m PROVE Prog(reset_err(v, m), kind)
  <2>1. Fill(Lapic!T_lvt_err, [vector |-> v, mask |-> Mask(m)]) \subseteq 0 .. 31
    BY FillTyped, LapicFields
  <2>. QED
    BY <2>1, LapicRegisters, OtherWrites DEF reset_err
<1>6. Prog(reset_thermal(0, TRUE), kind) /\ Prog(reset_thermal(67, FALSE), kind)
  <2>1. /\ reset_thermal(0, TRUE) = W("lapic", Lapic!R_lvt_thermal, MonWord(0, 1))
        /\ reset_thermal(67, FALSE) = W("lapic", Lapic!R_lvt_thermal, MonWord(67, 0))
    BY DEF reset_thermal, MonWord, Mask, Lapic!Num_int_mask
  <2>2. MonWord(0, 1) \subseteq 0 .. 31 /\ 16 \in MonWord(0, 1)
    BY SourceWords
  <2>3. MonWord(67, 0) \subseteq 0 .. 31 /\ VectorOf(MonWord(67, 0)) = 67
    BY SourceWords
  <2>4. \A word : word \subseteq 0 .. 31 /\ (16 \in word \/ VectorOf(word) = 67)
                     => Prog(W("lapic", Lapic!R_lvt_thermal, word), kind)
    BY SourceWrites
  <2>. QED
    BY <2>1, <2>2, <2>3, <2>4
<1>7. Prog(clear_esr, kind) /\ Prog(eoi, kind)
  BY LapicRegisters, OtherWrites, ProgConcat DEF clear_esr, eoi
<1>. QED
  BY <1>1, <1>2, <1>4, <1>5, <1>6, <1>7

\* The sources after the timer, in the order both halves of the reset have.
SourcesAfter(s, p, t, l0, l1, e, m) ==
    s \o reset_perfcnt(p, m) \o reset_thermal(t, m) \o reset_lint0(l0, m)
      \o reset_lint1(l1, m) \o reset_err(e, m) \o clear_esr \o eoi

LEMMA SourcesFollow ==
    ASSUME NEW s, NEW p, NEW t, NEW l0, NEW l1, NEW e, NEW m,
           \A kind : Prog(reset_thermal(t, m), kind)
    PROVE  /\ \A kind : Prog(s, kind) => Prog(SourcesAfter(s, p, t, l0, l1, e, m), kind)
           /\ Cuts(s) => Cuts(SourcesAfter(s, p, t, l0, l1, e, m))
<1> DEFINE s1 == s \o reset_perfcnt(p, m)
           s2 == s1 \o reset_thermal(t, m)
           s3 == s2 \o reset_lint0(l0, m)
           s4 == s3 \o reset_lint1(l1, m)
           s5 == s4 \o reset_err(e, m)
           s6 == s5 \o clear_esr
<1>1. SourcesAfter(s, p, t, l0, l1, e, m) = s6 \o eoi
  BY DEF SourcesAfter
<1>2. ASSUME NEW kind
      PROVE  /\ Prog(reset_perfcnt(p, m), kind) /\ Prog(reset_thermal(t, m), kind)
             /\ Prog(reset_lint0(l0, m), kind) /\ Prog(reset_lint1(l1, m), kind)
             /\ Prog(reset_err(e, m), kind) /\ Prog(clear_esr, kind) /\ Prog(eoi, kind)
  BY SourcesReset
<1>3. ASSUME NEW kind, Prog(s, kind) PROVE Prog(s6 \o eoi, kind)
  <2>1. Prog(s1, kind)
    BY <1>2, <1>3, ProgConcat
  <2>2. Prog(s2, kind)
    BY <1>2, <2>1, ProgConcat
  <2>3. Prog(s3, kind)
    BY <1>2, <2>2, ProgConcat
  <2>4. Prog(s4, kind)
    BY <1>2, <2>3, ProgConcat
  <2>5. Prog(s5, kind)
    BY <1>2, <2>4, ProgConcat
  <2>. QED
    BY <1>2, <2>5, ProgConcat
<1>4. ASSUME Cuts(s) PROVE Cuts(s6 \o eoi)
  <2>1. Cuts(s1)
    BY <1>2, <1>4, CutsOn
  <2>2. Cuts(s2)
    BY <1>2, <2>1, CutsOn
  <2>3. Cuts(s3)
    BY <1>2, <2>2, CutsOn
  <2>4. Cuts(s4)
    BY <1>2, <2>3, CutsOn
  <2>5. Cuts(s5)
    BY <1>2, <2>4, CutsOn
  <2>. QED
    BY <1>2, <2>5, CutsOn
<1>. QED
  BY <1>1, <1>3, <1>4

\* The timer's: masked with a countdown, and unmasked without one.
LEMMA TimersReset ==
    /\ \A kind : kind # "silent" => Prog(reset_timer(0, TRUE, 100), kind)
    /\ Prog(reset_timer(70, FALSE, 0), "apic") /\ Cuts(reset_timer(70, FALSE, 0))
<1> DEFINE dcr == F("lapic", Lapic!R_dcr, "div_val", Lapic!Num_divide.by1)
           set0 == W("lapic", Lapic!R_lvt_timer, TimerWord(0, 1))
           set70 == W("lapic", Lapic!R_lvt_timer, TimerWord(70, 0))
           count(n) == W("lapic", Lapic!R_init_count, Word(n))
           masked == reset_timer(0, TRUE, 100)
           unmasked == reset_timer(70, FALSE, 0)
<1>1. masked = (count(100) \o dcr) \o set0 /\ unmasked = (count(0) \o dcr) \o set70
  BY DEF reset_timer, reset_timer_count, TimerWord, Mask, Lapic!Num_int_mask,
         Lapic!Num_timer_mode
<1>2. \A kind : Prog(dcr, kind)
  <2>1. FieldBits(Lapic!R_dcr.type, "div_val") \subseteq 0 .. 31
    BY LapicFields DEF Lapic!R_dcr, Lapic!ReadWrite
  <2>. QED
    BY <2>1, LapicRegisters, OtherWrites
<1>3. \A kind : Prog(set0, kind)
  <2>1. TimerWord(0, 1) \subseteq 0 .. 31 /\ 16 \in TimerWord(0, 1)
    BY SourceWords
  <2>. QED
    BY <2>1, SourceWrites
<1>4. \A kind : kind # "masked" => Prog(set70, kind)
  <2>1. TimerWord(70, 0) \subseteq 0 .. 31 /\ VectorOf(TimerWord(70, 0)) = 70
    BY SourceWords
  <2>. QED
    BY <2>1, SourceWrites
<1>5. \A n, kind : kind # "silent" => Prog(count(n), kind)
  BY SourceWrites
<1>6. count(0) = <<Stop>>
  BY DEF W, Stop
<1> HIDE DEF dcr, set0, set70, count, masked, unmasked
<1>7. ASSUME NEW kind, kind # "silent" PROVE Prog(masked, kind)
  <2>1. Prog(count(100) \o dcr, kind)
    BY <1>2, <1>5, <1>7, ProgConcat
  <2>. QED
    BY <1>1, <1>3, <2>1, ProgConcat
<1>8. Prog(unmasked, "apic")
  <2>1. Prog(count(0) \o dcr, "apic")
    BY <1>2, <1>5, ProgConcat
  <2>. QED
    BY <1>1, <1>4, <2>1, ProgConcat
<1>9. Cuts(unmasked)
  <2>1. Prog(<<>>, "masked") /\ <<>> \o <<Stop>> = <<Stop>>
    BY DEF Prog, Entries
  <2>2. Cuts(count(0) \o dcr)
    BY <1>2, <1>6, <2>1 DEF Cuts
  <2>. QED
    BY <1>1, <1>4, <2>2, CutsOn
<1>. QED
  BY <1>7, <1>8, <1>9 DEF masked, unmasked

LEMMA LapicReset == Prog(lapic_reset, "apic") /\ Cuts(lapic_reset)
<1> DEFINE model == F("lapic", Lapic!R_dfr, "model", Lapic!Num_model_type.flat)
                    \o F("lapic", Lapic!R_ldr, "log_id", 0)
                    \o W("lapic", Lapic!R_tpr, {})
           masked == reset_timer(0, TRUE, 100)
           unmasked == reset_timer(70, FALSE, 0)
           first == (model \o reset_spurious(0, 1)) \o masked
           second == reset_spurious(69, 1) \o unmasked
           off == SourcesAfter(first, 0, 0, 0, 0, 0, TRUE)
           on == SourcesAfter(second, 66, 67, 64, 65, 68, FALSE)
<1>1. lapic_reset = off \o on
  <2>1. on = lapic_internal_reset
    BY DEF lapic_internal_reset, SourcesAfter, lapic_internal_base, LINT0, LINT1,
           PERFCNT, THERMAL, ERR, SPURIOUS, TIMER
  <2> HIDE DEF on
  <2>. QED
    BY <2>1 DEF lapic_reset, SourcesAfter
<1>2. ASSUME NEW kind PROVE Prog(model, kind)
  <2>1. /\ FieldBits(Lapic!R_dfr.type, "model") \subseteq 0 .. 31
        /\ FieldBits(Lapic!R_ldr.type, "log_id") \subseteq 0 .. 31
    BY LapicFields DEF Lapic!R_dfr, Lapic!R_ldr, Lapic!ReadWrite
  <2>2. /\ Prog(F("lapic", Lapic!R_dfr, "model", Lapic!Num_model_type.flat), kind)
        /\ Prog(F("lapic", Lapic!R_ldr, "log_id", 0), kind)
        /\ Prog(W("lapic", Lapic!R_tpr, {}), kind)
    BY <2>1, LapicRegisters, OtherWrites
  <2>. QED
    BY <2>2, ProgConcat
<1>3. \A kind : Prog(reset_spurious(0, 1), kind) /\ Prog(reset_spurious(69, 1), kind)
  BY SourcesReset
<1>4. /\ \A kind : kind # "silent" => Prog(masked, kind)
      /\ Prog(unmasked, "apic") /\ Cuts(unmasked)
  BY TimersReset
<1> HIDE DEF model, masked, unmasked
<1>5. ASSUME NEW kind, kind # "silent" PROVE Prog(first, kind)
  <2>1. Prog(model \o reset_spurious(0, 1), kind)
    BY <1>2, <1>3, ProgConcat
  <2>. QED
    BY <1>4, <1>5, <2>1, ProgConcat
<1>6. Prog(second, "apic") /\ Cuts(second)
  BY <1>3, <1>4, ProgConcat, CutsOn
<1> HIDE DEF first, second
<1>7. \A kind : kind # "silent" => Prog(off, kind)
  <2>1. \A kind : Prog(reset_thermal(0, TRUE), kind)
    BY SourcesReset
  <2>2. \A kind : Prog(first, kind) => Prog(off, kind)
    BY <2>1, SourcesFollow
  <2> HIDE DEF off
  <2>. QED
    BY <1>5, <2>2
<1>8. Prog(on, "apic") /\ Cuts(on)
  <2>1. \A kind : Prog(reset_thermal(67, FALSE), kind)
    BY SourcesReset
  <2>2. /\ \A kind : Prog(second, kind) => Prog(on, kind)
        /\ Cuts(second) => Cuts(on)
    BY <2>1, SourcesFollow
  <2> HIDE DEF on
  <2>. QED
    BY <1>6, <2>2
<1> HIDE DEF off, on
<1>. QED
  BY <1>1, <1>7, <1>8, ProgConcat, CutsOn

LEMMA PicWrites ==
    /\ \A reg, word, kind : kind # "apic" => Prog(W("pic", reg, word), kind)
    /\ \A reg, f, n, kind : kind # "apic" => Prog(F("pic", reg, f, n), kind)
<1>1. \A e, kind : IsWrite(e) /\ e.dev = "pic" /\ kind # "apic" => Entry(e, kind)
  BY DEF Entry, IsWrite, ToLapic
<1>2. \A reg, word, kind : kind # "apic" => Prog(W("pic", reg, word), kind)
  BY <1>1, ProgSingle DEF W, IsWrite
<1>3. \A reg, f, n, kind : kind # "apic" => Prog(F("pic", reg, f, n), kind)
  BY <1>1, ProgSingle DEF F, IsWrite
<1>. QED
  BY <1>2, <1>3

LEMMA OtherPieces ==
    ASSUME NEW kind
    PROVE  /\ Prog(ioapic_reset, kind) /\ Prog(<<[op |-> "lidt"]>>, kind)
           /\ Prog(set_hz0, kind)
<1>1. Prog(ioapic_reset, kind)
  <2>1. Nirq \in Nat
    BY PinsAssumption
  <2>2. ioapic_reset \in Seq(Entries(ioapic_reset))
    BY <2>1 DEF ioapic_reset, Entries
  <2>3. ASSUME NEW i \in 1 .. Nirq PROVE Entry(ioapic_reset[i], kind)
    <3>1. /\ ioapic_reset[i].op = "redirect" /\ ioapic_reset[i].pin = i - 1
          /\ ioapic_reset[i].reg = Ioapic!R_redirtbl[i - 1]
      BY <2>1 DEF ioapic_reset
    <3>2. i - 1 \in 0 .. Nirq - 1
      BY <2>1
    <3>. QED
      BY <3>1, <3>2 DEF Entry, IsWrite, ToLapic
  <2>4. DOMAIN ioapic_reset = 1 .. Nirq
    BY DEF ioapic_reset
  <2>. QED
    BY <2>2, <2>3, <2>4 DEF Prog, Entries
<1>2. Prog(<<[op |-> "lidt"]>>, kind)
  <2>1. Entry([op |-> "lidt"], kind)
    BY DEF Entry, IsWrite, ToLapic
  <2>. QED
    BY <2>1, ProgSingle
<1>3. Prog(set_hz0, kind)
  <2>1. \A e : IsWrite(e) /\ e.dev = "pit" => Entry(e, kind)
    BY DEF Entry, IsWrite, ToLapic
  <2>2. \A reg, word : Prog(W("pit", reg, word), kind)
    BY <2>1, ProgSingle DEF W, IsWrite
  <2>. QED
    BY <2>2, ProgConcat DEF set_hz0
<1>. QED
  BY <1>1, <1>2, <1>3

\* One entry more.
Then(s, e) == s \o <<e>>
Longer(s, e, u, E) ==
    /\ u \in Seq(E) /\ Len(u) = Len(s) + 1 /\ u[Len(s) + 1] = e
    /\ \A k \in 1 .. Len(s) : u[k] = s[k]

LEMMA ThenLonger ==
    ASSUME NEW E, NEW s \in Seq(E), NEW e \in E PROVE Longer(s, e, Then(s, e), E)
<1> DEFINE u == <<e>>
<1>1. u \in Seq(E) /\ Len(u) = 1 /\ u[1] = e /\ Len(s) \in Nat
  OBVIOUS
<1> HIDE DEF u
<1>2. /\ s \o u \in Seq(E) /\ Len(s \o u) = Len(s) + Len(u)
      /\ \A i \in 1 .. Len(s) + Len(u) :
            (s \o u)[i] = IF i <= Len(s) THEN s[i] ELSE u[i - Len(s)]
  BY <1>1, ConcatProperties
<1>3. (s \o u)[Len(s) + 1] = u[1] /\ \A k \in 1 .. Len(s) : (s \o u)[k] = s[k]
  BY <1>1, <1>2
<1>. QED
  BY <1>1, <1>2, <1>3 DEF Then, Longer, u

\* The first entries, one by one.
LEMMA FirstEntries ==
    /\ Len(First) = 14
    /\ First[1] = W("pic", Pic!R_master_ocw1, 0 .. 7)[1]
    /\ First[2] = W("pic", Pic!R_slave_ocw1, 0 .. 7)[1]
    /\ First[3] = W("pic", Pic!R_master_icw1, Word(17))[1]
    /\ First[4] = W("pic", Pic!R_slave_icw1, Word(17))[1]
    /\ First[5] = F("pic", Pic!R_master_icw2, "base", 32)[1]
    /\ First[6] = F("pic", Pic!R_slave_icw2, "base", 40)[1]
    /\ First[7] = F("pic", Pic!R_master_icw3, "cascade", 1)[1]
    /\ First[8] = F("pic", Pic!R_slave_icw3, "slave_id", 2)[1]
    /\ First[9] = W("pic", Pic!R_master_icw4, Word(1))[1]
    /\ First[10] = W("pic", Pic!R_slave_icw4, Word(1))[1]
    /\ First[11] = W("pic", Pic!R_master_ocw1, 0 .. 7)[1]
    /\ First[12] = W("pic", Pic!R_slave_ocw1, 0 .. 7)[1]
    /\ First[13] = W("pic", Pic!R_master_ocw1, 0 .. 7)[1]
    /\ First[14] = W("pic", Pic!R_slave_ocw1, 0 .. 7)[1]
<1> DEFINE e1 == W("pic", Pic!R_master_ocw1, 0 .. 7)[1]
           e2 == W("pic", Pic!R_slave_ocw1, 0 .. 7)[1]
           e3 == W("pic", Pic!R_master_icw1, Word(17))[1]
           e4 == W("pic", Pic!R_slave_icw1, Word(17))[1]
           e5 == F("pic", Pic!R_master_icw2, "base", 32)[1]
           e6 == F("pic", Pic!R_slave_icw2, "base", 40)[1]
           e7 == F("pic", Pic!R_master_icw3, "cascade", 1)[1]
           e8 == F("pic", Pic!R_slave_icw3, "slave_id", 2)[1]
           e9 == W("pic", Pic!R_master_icw4, Word(1))[1]
           e10 == W("pic", Pic!R_slave_icw4, Word(1))[1]
           E == {e1, e2, e3, e4, e5, e6, e7, e8, e9, e10}
           s1 == <<e1>>
           s2 == Then(s1, e2)
           s3 == Then(s2, e3)
           s4 == Then(s3, e4)
           s5 == Then(s4, e5)
           s6 == Then(s5, e6)
           s7 == Then(s6, e7)
           s8 == Then(s7, e8)
           s9 == Then(s8, e9)
           s10 == Then(s9, e10)
           s11 == Then(s10, e1)
           s12 == Then(s11, e2)
           s13 == Then(s12, e1)
           s14 == Then(s13, e2)
           Grown(n, s, e, u) == /\ u \in Seq(E) /\ Len(u) = n /\ u[n] = e
                                /\ \A k \in 1 .. n - 1 : u[k] = s[k]
<1>1. /\ \A d, r, w : W(d, r, w) = <<W(d, r, w)[1]>>
      /\ \A d, r, f, n : F(d, r, f, n) = <<F(d, r, f, n)[1]>>
  BY DEF W, F
<1>2. First = (s10 \o (<<e1>> \o <<e2>>)) \o (<<e1>> \o <<e2>>)
  <2>1. /\ W("pic", Pic!R_master_ocw1, 0 .. 7) = <<e1>>
        /\ W("pic", Pic!R_slave_ocw1, 0 .. 7) = <<e2>>
        /\ W("pic", Pic!R_master_icw1, Word(17)) = <<e3>>
        /\ W("pic", Pic!R_slave_icw1, Word(17)) = <<e4>>
        /\ F("pic", Pic!R_master_icw2, "base", 32) = <<e5>>
        /\ F("pic", Pic!R_slave_icw2, "base", 40) = <<e6>>
        /\ F("pic", Pic!R_master_icw3, "cascade", 1) = <<e7>>
        /\ F("pic", Pic!R_slave_icw3, "slave_id", 2) = <<e8>>
        /\ W("pic", Pic!R_master_icw4, Word(1)) = <<e9>>
        /\ W("pic", Pic!R_slave_icw4, Word(1)) = <<e10>>
    BY <1>1
  <2>2. pic_master_base = 32 /\ 32 + 8 = 40
    BY DEF pic_master_base
  <2>3. maskall = <<e1>> \o <<e2>>
    BY <2>1 DEF maskall
  <2> HIDE DEF e1, e2, e3, e4, e5, e6, e7, e8, e9, e10
  <2>. QED
    BY <2>1, <2>2, <2>3 DEF First, pic_reset, Then
<1> HIDE DEF e1, e2, e3, e4, e5, e6, e7, e8, e9, e10
<1>3. \A s \in Seq(E), e \in E : Longer(s, e, Then(s, e), E)
  BY ThenLonger
<1>4. e1 \in E /\ e2 \in E /\ e3 \in E /\ e4 \in E /\ e5 \in E /\ e6 \in E
      /\ e7 \in E /\ e8 \in E /\ e9 \in E /\ e10 \in E
  OBVIOUS
<1>5. s1 \in Seq(E) /\ Len(s1) = 1 /\ s1[1] = e1
  BY <1>4
<1> HIDE DEF E, s1
<1>6. Grown(2, s1, e2, s2)
  <2>1. Longer(s1, e2, s2, E)
    BY <1>3, <1>4, <1>5
  <2> HIDE DEF s2
  <2>. QED
    BY <1>5, <2>1 DEF Longer
<1> HIDE DEF s2
<1>7. Grown(3, s2, e3, s3)
  <2>1. Longer(s2, e3, s3, E)
    BY <1>3, <1>4, <1>6
  <2> HIDE DEF s3
  <2>. QED
    BY <1>6, <2>1 DEF Longer
<1> HIDE DEF s3
<1>8. Grown(4, s3, e4, s4)
  <2>1. Longer(s3, e4, s4, E)
    BY <1>3, <1>4, <1>7
  <2> HIDE DEF s4
  <2>. QED
    BY <1>7, <2>1 DEF Longer
<1> HIDE DEF s4
<1>9. Grown(5, s4, e5, s5)
  <2>1. Longer(s4, e5, s5, E)
    BY <1>3, <1>4, <1>8
  <2> HIDE DEF s5
  <2>. QED
    BY <1>8, <2>1 DEF Longer
<1> HIDE DEF s5
<1>10. Grown(6, s5, e6, s6)
  <2>1. Longer(s5, e6, s6, E)
    BY <1>3, <1>4, <1>9
  <2> HIDE DEF s6
  <2>. QED
    BY <1>9, <2>1 DEF Longer
<1> HIDE DEF s6
<1>11. Grown(7, s6, e7, s7)
  <2>1. Longer(s6, e7, s7, E)
    BY <1>3, <1>4, <1>10
  <2> HIDE DEF s7
  <2>. QED
    BY <1>10, <2>1 DEF Longer
<1> HIDE DEF s7
<1>12. Grown(8, s7, e8, s8)
  <2>1. Longer(s7, e8, s8, E)
    BY <1>3, <1>4, <1>11
  <2> HIDE DEF s8
  <2>. QED
    BY <1>11, <2>1 DEF Longer
<1> HIDE DEF s8
<1>13. Grown(9, s8, e9, s9)
  <2>1. Longer(s8, e9, s9, E)
    BY <1>3, <1>4, <1>12
  <2> HIDE DEF s9
  <2>. QED
    BY <1>12, <2>1 DEF Longer
<1> HIDE DEF s9
<1>14. Grown(10, s9, e10, s10)
  <2>1. Longer(s9, e10, s10, E)
    BY <1>3, <1>4, <1>13
  <2> HIDE DEF s10
  <2>. QED
    BY <1>13, <2>1 DEF Longer
<1> HIDE DEF s10
<1>15. Grown(11, s10, e1, s11)
  <2>1. Longer(s10, e1, s11, E)
    BY <1>3, <1>4, <1>14
  <2> HIDE DEF s11
  <2>. QED
    BY <1>14, <2>1 DEF Longer
<1> HIDE DEF s11
<1>16. Grown(12, s11, e2, s12)
  <2>1. Longer(s11, e2, s12, E)
    BY <1>3, <1>4, <1>15
  <2> HIDE DEF s12
  <2>. QED
    BY <1>15, <2>1 DEF Longer
<1> HIDE DEF s12
<1>17. Grown(13, s12, e1, s13)
  <2>1. Longer(s12, e1, s13, E)
    BY <1>3, <1>4, <1>16
  <2> HIDE DEF s13
  <2>. QED
    BY <1>16, <2>1 DEF Longer
<1> HIDE DEF s13
<1>18. Grown(14, s13, e2, s14)
  <2>1. Longer(s13, e2, s14, E)
    BY <1>3, <1>4, <1>17
  <2> HIDE DEF s14
  <2>. QED
    BY <1>17, <2>1 DEF Longer
<1> HIDE DEF s14
<1>19. First = s14
  <2>1. <<e1>> \in Seq(E) /\ <<e2>> \in Seq(E)
    BY <1>4
  <2>2. s10 \o (<<e1>> \o <<e2>>) = s12
    BY <2>1, <1>14, ConcatAssociative DEF s11, s12, Then
  <2>3. s12 \o (<<e1>> \o <<e2>>) = s14
    BY <2>1, <1>16, ConcatAssociative DEF s13, s14, Then
  <2>. QED
    BY <1>2, <2>2, <2>3
<1>20. /\ s14[1] = e1 /\ s14[2] = e2 /\ s14[3] = e3 /\ s14[4] = e4 /\ s14[5] = e5
       /\ s14[6] = e6 /\ s14[7] = e7 /\ s14[8] = e8 /\ s14[9] = e9 /\ s14[10] = e10
       /\ s14[11] = e1 /\ s14[12] = e2 /\ s14[13] = e1 /\ s14[14] = e2
  BY <1>5, <1>6, <1>7, <1>8, <1>9, <1>10, <1>11, <1>12, <1>13, <1>14, <1>15, <1>16,
     <1>17, <1>18
<1>. QED
  BY <1>18, <1>19, <1>20 DEF e1, e2, e3, e4, e5, e6, e7, e8, e9, e10

\* An index of a concatenation is one of its parts.
LEMMA ConcatAt ==
    ASSUME NEW s, NEW t, NEW k1, NEW k2, Prog(s, k1), Prog(t, k2)
    PROVE  /\ Len(s) \in Nat /\ Len(t) \in Nat /\ Len(s \o t) = Len(s) + Len(t)
           /\ \A k \in 1 .. Len(s) : (s \o t)[k] = s[k] /\ s[k] \in Entries(s)
           /\ \A k \in Len(s) + 1 .. Len(s) + Len(t) :
                 (s \o t)[k] = t[k - Len(s)] /\ t[k - Len(s)] \in Entries(t)
<1> DEFINE E == Entries(s) \cup Entries(t)
<1>1. s \in Seq(E) /\ t \in Seq(E)
  BY SeqOfMore DEF Prog
<1>2. /\ Len(s) \in Nat /\ Len(t) \in Nat
      /\ DOMAIN s = 1 .. Len(s) /\ DOMAIN t = 1 .. Len(t)
  BY <1>1
<1> HIDE DEF E
<1>3. /\ Len(s \o t) = Len(s) + Len(t)
      /\ \A i \in 1 .. Len(s) + Len(t) :
            (s \o t)[i] = IF i <= Len(s) THEN s[i] ELSE t[i - Len(s)]
  BY <1>1, ConcatProperties
<1>4. /\ \A k \in 1 .. Len(s) : s[k] \in Entries(s)
      /\ \A k \in 1 .. Len(t) : t[k] \in Entries(t)
  BY <1>2 DEF Entries
<1>5. \A k \in 1 .. Len(s) : (s \o t)[k] = s[k]
  BY <1>2, <1>3
<1>6. \A k \in Len(s) + 1 .. Len(s) + Len(t) :
         k - Len(s) \in 1 .. Len(t) /\ (s \o t)[k] = t[k - Len(s)]
  BY <1>2, <1>3
<1>. QED
  BY <1>2, <1>3, <1>4, <1>5, <1>6

LEMMA ResetProgram ==
    /\ Len(hal_reset) \in Nat /\ Len(hal_reset) > 14
    /\ \A k \in 1 .. Len(hal_reset) : hal_reset[k].op = "sti" <=> k = Len(hal_reset)
    /\ \A k \in 1 .. 14 : hal_reset[k] = First[k]
    /\ \A k \in 15 .. Len(hal_reset) - 1 : Entry(hal_reset[k], "apic")
    /\ \E c \in Nat : StopsAt(c)
<1> DEFINE lidt == <<[op |-> "lidt"]>>
           sti == [op |-> "sti"]
           before == First \o ioapic_reset \o lapic_reset \o lidt \o set_hz0
<1>1. hal_reset = before \o <<sti>>
  BY DEF hal_reset, First
<1>2. \A kind : kind # "apic" => Prog(First, kind)
  <2>1. \A kind : kind # "apic" => Prog(maskall, kind)
    BY PicWrites, ProgConcat DEF maskall
  <2>2. \A kind : kind # "apic" => Prog(pic_reset(pic_master_base), kind)
    BY <2>1, PicWrites, ProgConcat DEF pic_reset
  <2>. QED
    BY <2>1, <2>2, ProgConcat DEF First
<1>3. \A kind : Prog(ioapic_reset, kind) /\ Prog(lidt, kind) /\ Prog(set_hz0, kind)
  BY OtherPieces
<1> HIDE DEF lidt
<1>4. PICK q : Prog(q, "apic") /\ before = First \o q
  <2>1. Prog(<<>>, "apic") /\ First = First \o <<>>
    BY <1>2 DEF Prog, Entries
  <2>2. Begins(First \o ioapic_reset)
    BY <1>3 DEF Begins
  <2>3. Prog(First, "masked")
    BY <1>2
  <2>4. Begins(First \o ioapic_reset \o lapic_reset)
    BY <2>2, <2>3, LapicReset, BeginsOn
  <2>5. Begins(First \o ioapic_reset \o lapic_reset \o lidt)
    BY <1>3, <2>3, <2>4, BeginsOn
  <2>6. Begins(before)
    BY <1>3, <2>3, <2>5, BeginsOn
  <2>. QED
    BY <2>6 DEF Begins
<1>5. PICK p, r : /\ Prog(p, "masked") /\ Prog(r, "silent")
                  /\ before = (p \o <<Stop>>) \o r
  <2>1. Prog(First \o ioapic_reset, "masked")
    BY <1>2, <1>3, ProgConcat
  <2>2. Cuts(First \o ioapic_reset \o lapic_reset)
    BY <2>1, LapicReset, CutsOn
  <2>3. Cuts(before)
    BY <1>3, <2>2, CutsOn
  <2>. QED
    BY <2>3 DEF Cuts
<1> HIDE DEF before
<1>6. Prog(before, "any") /\ Len(First) = 14
  <2>1. \A e, kind : Entry(e, kind) => Entry(e, "any")
    BY DEF Entry
  <2>2. Prog(q, "any")
    BY <1>4, <2>1 DEF Prog
  <2>. QED
    BY <1>2, <1>4, <2>2, ProgConcat, FirstEntries
<1>7. /\ Len(before) \in Nat /\ Len(hal_reset) = Len(before) + 1
      /\ \A k \in 1 .. Len(before) :
            hal_reset[k] = before[k] /\ hal_reset[k].op # "sti"
      /\ hal_reset[Len(before) + 1] = sti
  <2>1. before \in Seq(Entries(before)) /\ \A e \in Entries(before) : e.op # "sti"
    BY <1>6 DEF Prog, Entry
  <2>. QED
    BY <1>1, <2>1 DEF Entries
<1>8. /\ Len(before) = 14 + Len(q) /\ Len(q) \in Nat
      /\ \A k \in 1 .. 14 : before[k] = First[k]
      /\ \A k \in 15 .. Len(before) : Entry(before[k], "apic")
  <2>1. Prog(First, "any")
    BY <1>2
  <2>2. /\ Len(q) \in Nat /\ Len(before) = 14 + Len(q)
        /\ \A k \in 1 .. 14 : before[k] = First[k]
        /\ \A k \in 14 + 1 .. 14 + Len(q) : before[k] \in Entries(q)
    <3>1. /\ Len(q) \in Nat /\ Len(First \o q) = Len(First) + Len(q)
          /\ \A k \in 1 .. Len(First) : (First \o q)[k] = First[k]
          /\ \A k \in Len(First) + 1 .. Len(First) + Len(q) :
                (First \o q)[k] = q[k - Len(First)] /\ q[k - Len(First)] \in Entries(q)
      BY <1>4, <2>1, ConcatAt
    <3>. QED
      BY <1>4, <1>6, <3>1
  <2>3. \A e \in Entries(q) : Entry(e, "apic")
    BY <1>4 DEF Prog
  <2>. QED
    BY <2>2, <2>3
<1>9. \E c \in Nat : StopsAt(c)
  <2> DEFINE c == Len(p) + 1
             ps == p \o <<Stop>>
  <2>1. Prog(<<Stop>>, "masked") /\ Prog(ps, "masked")
    BY <1>5, StopIsEntry, ProgConcat
  <2>2. Len(<<Stop>>) = 1 /\ <<Stop>>[1] = Stop
    OBVIOUS
  <2>3. /\ Len(p) \in Nat /\ Len(ps) = Len(p) + 1 /\ ps[Len(p) + 1] = Stop
        /\ \A k \in 1 .. Len(p) : ps[k] = p[k] /\ p[k] \in Entries(p)
    <3> DEFINE st == <<Stop>>
    <3>1. Len(st) = 1 /\ st[1] = Stop /\ Prog(st, "masked")
      BY <2>1, <2>2
    <3> HIDE DEF st
    <3>2. /\ Len(p) \in Nat /\ Len(p \o st) = Len(p) + Len(st)
          /\ \A k \in 1 .. Len(p) : (p \o st)[k] = p[k] /\ p[k] \in Entries(p)
          /\ \A k \in Len(p) + 1 .. Len(p) + Len(st) : (p \o st)[k] = st[k - Len(p)]
      BY <1>5, <3>1, ConcatAt
    <3>. QED
      BY <3>1, <3>2 DEF st
  <2> HIDE DEF ps
  <2>4. /\ Len(r) \in Nat /\ Len(before) = Len(ps) + Len(r)
        /\ \A k \in 1 .. Len(ps) : before[k] = ps[k]
        /\ \A k \in Len(ps) + 1 .. Len(ps) + Len(r) : before[k] \in Entries(r)
    BY <1>5, <2>1, ConcatAt DEF ps
  <2>5. before[c] = Stop /\ c \in 1 .. Len(before)
    BY <2>3, <2>4
  <2>6. \A k \in 1 .. c - 1 : Entry(before[k], "masked")
    <3>1. \A e \in Entries(p) : Entry(e, "masked")
      BY <1>5 DEF Prog
    <3>. QED
      BY <2>3, <2>4, <3>1
  <2>7. \A k \in c + 1 .. Len(before) : Entry(before[k], "silent")
    <3>1. \A e \in Entries(r) : Entry(e, "silent")
      BY <1>5 DEF Prog
    <3>. QED
      BY <2>3, <2>4, <3>1
  <2> HIDE DEF c
  <2>8. /\ c \in 1 .. Len(hal_reset) - 1 /\ hal_reset[c] = Stop
        /\ \A k \in 1 .. c - 1 : hal_reset[k] = before[k]
        /\ \A k \in c + 1 .. Len(hal_reset) - 1 : hal_reset[k] = before[k]
    BY <1>7, <2>5
  <2>9. StopsAt(c)
    BY <1>7, <2>6, <2>7, <2>8 DEF StopsAt
  <2>. QED
    BY <2>8, <2>9
<1>10. \A k \in 1 .. Len(hal_reset) : hal_reset[k].op = "sti" <=> k = Len(hal_reset)
  BY <1>7
<1>11. \A k \in 15 .. Len(hal_reset) - 1 : Entry(hal_reset[k], "apic")
  BY <1>7, <1>8
<1>. QED
  BY <1>7, <1>8, <1>9, <1>10, <1>11

-----------------------------------------------------------------------------
(* What the interrupts are wired to *)

PicState == [imr : SUBSET (0 .. 7), irr : SUBSET (0 .. 7), base : SUBSET (3 .. 7),
             next : {"icw2", "icw3", "icw4", "ocw"}]
DataTypes ==
    /\ at \in 1 .. Len(hal_reset) + 1 /\ idtr \in BOOLEAN
    /\ shadow \in [Shadowed -> SUBSET (0 .. 7)]
    /\ pic \in [{33, 161} -> PicState]
    /\ rte \in [0 .. Nirq - 1 -> SUBSET (0 .. 63)]
    /\ lvt \in [Words -> SUBSET (0 .. 31)]
    /\ timer \in {"off", "counting"} /\ pit \in {"counting", "low", "high"}
    /\ main \in {"never", "loop", "armed"}

\* What a 8259 expects before entry k of the reset. The entries alternate, the
\* master's first: the slave is one behind.
Expects(k) == CASE k \in {4, 5} -> "icw2" [] k \in {6, 7} -> "icw3"
                [] k \in {8, 9} -> "icw4" [] OTHER -> "ocw"

\* The first 14 entries leave both masked.
PicsReset ==
    /\ pic[33].next = Expects(at) /\ pic[161].next = Expects(at - 1)
    /\ at > 11 => pic[33].imr = 0 .. 7
    /\ at > 12 => pic[161].imr = 0 .. 7
    /\ at <= 14 => Extint(lvt[Offset(Lapic!R_lvt_lint0)])

\* A source that is not masked has the vector that is meant for it.
Holds(word, v) == Masked(word) \/ VectorOf(word) = v
VectorsMeant ==
    /\ \A p \in 0 .. Nirq - 1 : Holds(rte[p], lapic_base + p)
    /\ Holds(lvt[Offset(Lapic!R_lvt_timer)], lapic_internal_base + TIMER)
    /\ Holds(lvt[Offset(Lapic!R_lvt_thermal)], lapic_internal_base + THERMAL)

\* What may interrupt with vector v.
Wired(v, s) ==
    /\ \A p \in Pins : s = <<"pin", p>> => v = lapic_base + p
    /\ s = From("timer") => v = lapic_internal_base + TIMER /\ main # "never"
    /\ s = From("thermal") => v = lapic_internal_base + THERMAL
    /\ s # From("lint0")
RequestsWired == \A e \in irr : Wired(e[1], e[2])

\* Handlers on their way into _ring0_preempt or out of it are those of the
\* local sources.
FrameWired(f) ==
    /\ \A s \in f.from : Wired(f.vector, s)
    /\ f.phase \in {"open", "saved", "resumed"} => Internal(f)
FramesWired ==
    /\ \A x \in {"main", "fiber"} : \A k \in 1 .. Len(stack[x]) : FrameWired(stack[x][k])
    /\ Len(stack["fiber"]) <= MaxDepth

\* Before the entry that stops the countdown its interrupt is masked, after it
\* there is none but the dispatcher's.
TimerReset ==
    \A c \in 1 .. Len(hal_reset) : StopsAt(c) =>
       /\ at <= c => Masked(lvt[Offset(Lapic!R_lvt_timer)])
       /\ at > c /\ main = "never" => timer = "off"

WiredInv == DataTypes /\ PicsReset /\ TimerReset /\ VectorsMeant /\ RequestsWired
            /\ FramesWired

LEMMA ResetEndsWithSti ==
    /\ Len(hal_reset) \in Nat \ {0}
    /\ \A k \in 1 .. Len(hal_reset) :
          hal_reset[k].op = "sti" <=> k = Len(hal_reset)
<1>1. Len(hal_reset) \in Nat /\ Len(hal_reset) > 14
  BY ResetProgram
<1>2. \A k \in 1 .. Len(hal_reset) :
         hal_reset[k].op = "sti" <=> k = Len(hal_reset)
  BY ResetProgram
<1>. QED
  BY <1>1, <1>2

-----------------------------------------------------------------------------
(* The highest vector *)

\* The highest vector of a set of requests is one of them.
LEMMA HighestIsThere ==
    ASSUME NEW S \in SUBSET Requests, S # {}
    PROVE  /\ Highest(S) \in {e[1] : e \in S}
           /\ Highest(S) \in 0 .. 255
<1> DEFINE below == OpToRel(<, Nat)
           vectors == {e[1] : e \in S}
           depths == {255 - v : v \in vectors}
<1>1. vectors \in SUBSET (0 .. 255) /\ vectors # {}
  BY DEF Requests
<1>2. depths \in SUBSET Nat /\ depths # {}
  BY <1>1
<1>3. IsWellFoundedOn(below, Nat)
  BY NatLessThanWellFounded
<1>4. \A m, n \in Nat : m < n => <<m, n>> \in below
  BY DEF OpToRel
<1> HIDE DEF below, depths
<1>5. PICK d \in depths : \A c \in depths : <<c, d>> \notin below
  BY <1>2, <1>3, WFMin
<1>6. \A c \in depths : d <= c
  <2>1. SUFFICES ASSUME NEW c \in depths, c < d PROVE FALSE
    BY <1>2
  <2>2. c \in Nat /\ d \in Nat
    BY <1>2
  <2>. QED
    BY <1>4, <1>5, <2>1, <2>2
<1>7. PICK v \in vectors : d = 255 - v
  BY DEF depths
<1>8. \A e \in S : e[1] <= v
  <2>1. SUFFICES ASSUME NEW e \in S PROVE e[1] <= v
    OBVIOUS
  <2> DEFINE u == e[1]
  <2>2. u \in vectors
    OBVIOUS
  <2> HIDE DEF u, vectors
  <2>3. u \in 0 .. 255 /\ v \in 0 .. 255
    BY <1>1, <1>7, <2>2
  <2>4. 255 - u \in depths
    BY <2>2 DEF depths
  <2>5. d <= 255 - u
    BY <1>6, <2>4
  <2>6. u <= v
    BY <1>7, <2>3, <2>5
  <2>. QED
    BY <2>6 DEF u
<1>. QED
  BY <1>1, <1>8 DEF Highest

\* An EOI takes all there is out of service if it has one vector.
LEMMA OneVectorDismissed ==
    ASSUME NEW S \in SUBSET Requests, NEW v, \A e \in S : e[1] = v
    PROVE  Dismissed(S) = {}
<1>1. S # {} => Highest(S) = v
  BY HighestIsThere
<1>. QED
  BY <1>1 DEF Dismissed

-----------------------------------------------------------------------------
(* Stacks of frames *)

LEMMA Pushed ==
    ASSUME NEW E, NEW s \in Seq(E), NEW e \in E
    PROVE  /\ Append(s, e) \in Seq(E) /\ Append(s, e) # <<>>
           /\ Len(Append(s, e)) = Len(s) + 1
           /\ Append(s, e)[Len(Append(s, e))] = e
           /\ \A k \in 1 .. Len(s) : Append(s, e)[k] = s[k]
OBVIOUS

LEMMA Popped ==
    ASSUME NEW E, NEW s \in Seq(E), s # <<>>
    PROVE  /\ SubSeq(s, 1, Len(s) - 1) \in Seq(E)
           /\ Len(s) \in Nat \ {0}
           /\ Len(SubSeq(s, 1, Len(s) - 1)) = Len(s) - 1
           /\ \A k \in 1 .. Len(s) - 1 : SubSeq(s, 1, Len(s) - 1)[k] = s[k]
           /\ s[Len(s)] \in E
<1>1. Len(s) \in Nat \ {0} /\ \A k \in 1 .. Len(s) : s[k] \in E
  OBVIOUS
<1> DEFINE n == Len(s) - 1
           r == SubSeq(s, 1, n)
<1>2. n \in Int /\ \A i \in 1 .. n : s[i] \in E
  BY <1>1
<1> HIDE DEF n
<1>3. /\ r \in Seq(E) /\ Len(r) = (IF 1 <= n THEN n - 1 + 1 ELSE 0)
      /\ \A i \in 1 .. n - 1 + 1 : r[i] = s[1 + i - 1]
  BY <1>2, SubSeqProperties
<1> HIDE DEF r
<1>4. Len(r) = n /\ \A k \in 1 .. n : r[k] = s[k]
  <2>1. n >= 0
    BY <1>1 DEF n
  <2>2. n - 1 + 1 = n /\ \A k \in 1 .. n : 1 + k - 1 = k
    BY <1>2
  <2>. QED
    BY <1>2, <1>3, <2>1, <2>2
<1>. QED
  BY <1>1, <1>3, <1>4 DEF n, r

\* A handler that goes on is the same frame in another phase.
LEMMA Advanced ==
    ASSUME Shape, NEW x \in {"main", "fiber"}, stack[x] # <<>>,
           NEW phase \in {"entered", "acked", "open", "saved", "resumed"},
           stack' = Advance(x, phase)
    PROVE  /\ stack' \in [{"main", "fiber"} -> Seq(Frames)]
           /\ stack'[x] # <<>> /\ Len(stack'[x]) = Len(stack[x])
           /\ stack'[x][Len(stack'[x])].phase = phase
           /\ stack'[x][Len(stack'[x])].vector = Top(x).vector
           /\ stack'[x][Len(stack'[x])].from = Top(x).from
           /\ \A k \in 1 .. Len(stack[x]) - 1 : stack'[x][k] = stack[x][k]
           /\ \A y \in {"main", "fiber"} \ {x} : stack'[y] = stack[y]
<1> DEFINE s == stack[x]
           f == s[Len(s)]
           g == [f EXCEPT !.phase = phase]
           r == SubSeq(s, 1, Len(s) - 1)
<1>1. s \in Seq(Frames)
  BY DEF Shape
<1>2. /\ r \in Seq(Frames) /\ Len(s) \in Nat \ {0} /\ Len(r) = Len(s) - 1
      /\ \A k \in 1 .. Len(s) - 1 : r[k] = s[k]
      /\ f \in Frames
  BY <1>1, Popped
<1>3. /\ g \in Frames /\ g.phase = phase
      /\ g.vector = Top(x).vector /\ g.from = Top(x).from
  BY <1>2 DEF Frames, Top
<1>4. stack' = [stack EXCEPT ![x] = Append(r, g)]
  BY DEF Advance, Top, Pop
<1>5. stack'[x] = Append(r, g) /\ \A y \in {"main", "fiber"} \ {x} : stack'[y] = stack[y]
  BY <1>4 DEF Shape
<1> HIDE DEF r, g, f
<1>6. /\ Append(r, g) \in Seq(Frames) /\ Append(r, g) # <<>>
      /\ Len(Append(r, g)) = Len(r) + 1
      /\ Append(r, g)[Len(Append(r, g))] = g
      /\ \A k \in 1 .. Len(r) : Append(r, g)[k] = r[k]
  BY <1>2, <1>3, Pushed
<1>7. stack' \in [{"main", "fiber"} -> Seq(Frames)]
  BY <1>4, <1>6 DEF Shape
<1>. QED
  BY <1>2, <1>3, <1>5, <1>6, <1>7

LEMMA TopTyped ==
    ASSUME Shape, NEW x \in {"main", "fiber"}, stack[x] # <<>>
    PROVE  Top(x) \in Frames
<1>1. stack[x] \in Seq(Frames)
  BY DEF Shape
<1>. QED
  BY <1>1, Popped DEF Top

\* What is in service is a set of requests with one vector.
LEMMA InService == Shape /\ OneEoi => isr \subseteq Requests /\ Dismissed(isr) = {}
<1> SUFFICES ASSUME Shape, OneEoi PROVE isr \subseteq Requests /\ Dismissed(isr) = {}
  OBVIOUS
<1>1. CASE ~InPhase(ctx, {"entered"})
  <2>1. isr = {}
    BY <1>1 DEF OneEoi, Owed
  <2>. QED
    BY <2>1 DEF Dismissed
<1>2. CASE InPhase(ctx, {"entered"})
  <2>1. isr = {Top(ctx).vector} \X (Top(ctx).from \ {From("spurious")})
    BY <1>2 DEF OneEoi, Owed
  <2>2. Top(ctx) \in Frames
    BY <1>2, TopTyped DEF InPhase, Shape
  <2>3. isr \subseteq Requests /\ \A e \in isr : e[1] = Top(ctx).vector
    BY <2>1, <2>2 DEF Frames, Requests
  <2>. QED
    BY <2>3, OneVectorDismissed
<1>. QED
  BY <1>1, <1>2

-----------------------------------------------------------------------------
(* The reset and the inputs *)

\* Steps that leave the stacks, the flag and what is in service.
LEMMA CoreUntouched ==
    ASSUME Inv, UNCHANGED <<at, IFlag, ctx, stack, isr>>, irr' \subseteq Requests
    PROVE  Inv'
BY DEF Inv, Shape, Flag, OneEoi, Owed, InPhase, Top, Running, Requests, Sources,
       Frames, From

LEMMA ResetKeeps == Inv /\ Reset => Inv'
<1> SUFFICES ASSUME Inv, Reset PROVE Inv'
  OBVIOUS
<1>1. /\ ~Running /\ ctx = "main" /\ isr = {} /\ ~IFlag
      /\ stack["main"] = <<>> /\ stack["fiber"] = <<>>
  <2>1. ~Running
    BY DEF Reset, Write, WriteRedirection, LoadTable, Sti
  <2>. QED
    BY <2>1 DEF Inv, Flag
<1>2. isr' = {} /\ UNCHANGED <<irr, ctx, stack>> /\ at' = at + 1
  <2>1. Dismissed({}) = {}
    BY DEF Dismissed
  <2>2. CASE Write
    BY <1>1, <2>1, <2>2 DEF Write, LapicPlace
  <2>3. CASE ~Write
    BY <1>1, <2>3 DEF Reset, WriteRedirection, LoadTable, Sti
  <2>. QED
    BY <2>2, <2>3
<1>3. at \in 1 .. Len(hal_reset) /\ Len(hal_reset) \in Nat
  BY <1>1, ResetEndsWithSti DEF Running, Inv, Flag
<1>4. IFlag' \in BOOLEAN /\ (IFlag' <=> Running')
  <2>1. Running' <=> at = Len(hal_reset)
    BY <1>2, <1>3 DEF Running
  <2>2. CASE Sti
    BY <1>3, <2>1, <2>2, ResetEndsWithSti DEF Sti
  <2>3. CASE ~Sti
    <3>1. hal_reset[at].op # "sti" /\ IFlag' = IFlag
      BY <2>3 DEF Reset, Write, WriteRedirection, LoadTable
    <3>2. ~Running'
      BY <1>3, <2>1, <3>1, ResetEndsWithSti
    <3>3. IFlag = FALSE
      BY <1>1 DEF Inv, Flag
    <3>. QED
      BY <3>1, <3>2, <3>3
  <2>. QED
    BY <2>2, <2>3
<1>5. ~InPhase(ctx, {"entered", "acked"})' /\ ~InPhase(ctx, {"entered"})'
  BY <1>1, <1>2 DEF InPhase
<1>6. Shape'
  BY <1>1, <1>2 DEF Inv, Shape, InPhase, Top
<1>7. Flag'
  BY <1>1, <1>2, <1>3, <1>4, <1>5 DEF Flag
<1>8. OneEoi'
  BY <1>2, <1>5 DEF OneEoi, Owed
<1>. QED
  BY <1>2, <1>6, <1>7, <1>8 DEF Inv, Requests, Sources, From

LEMMA InputsKeep == Inv /\ Inputs => Inv'
<1> SUFFICES ASSUME Inv, Inputs PROVE Inv'
  OBVIOUS
<1>1. irr \subseteq Requests
  BY DEF Inv
<1>2. UNCHANGED <<at, IFlag, ctx, stack, isr>>
  BY DEF Inputs, Edge, Expire, Unused, core
<1>3. irr' \subseteq Requests
  <2>1. ASSUME NEW p \in Pins, Edge(p) PROVE irr' \subseteq Requests
    <3>1. <<"pin", p>> \in Sources \ {From("spurious")}
      BY DEF Sources, From
    <3>. QED
      BY <1>1, <2>1, <3>1, VectorRange DEF Edge, Requests
  <2>2. ASSUME NEW reg, NEW s \in {"timer", "thermal", "lint0"}, Raise(reg, s)
        PROVE  irr' \subseteq Requests
    <3>1. From(s) \in Sources \ {From("spurious")}
      BY DEF Sources, From
    <3>. QED
      BY <1>1, <2>2, <3>1, VectorRange DEF Raise, Requests
  <2>. QED
    BY <2>1, <2>2 DEF Inputs, Expire, Unused
<1>. QED
  BY <1>2, <1>3, CoreUntouched

-----------------------------------------------------------------------------
(* The core *)

\* What must be shown of a step of the running core.
LEMMA RunningStep ==
    ASSUME Inv, Running, UNCHANGED <<at, irr>>, Shape', OneEoi',
           IFlag' \in BOOLEAN, IFlag' <=> ~InPhase(ctx, {"entered", "acked"})'
    PROVE  Inv'
<1>1. Running'
  BY DEF Running
<1>. QED
  BY <1>1 DEF Inv, Flag, Requests, Sources, From

\* An interrupt is entered: only where interrupts are on.
LEMMA EntersAlone ==
    ASSUME Inv, IFlag, UNCHANGED <<at, ctx>>, irr' \subseteq irr,
           NEW v \in 0 .. 255, NEW from \in SUBSET Sources, Enter(v, from),
           isr' = isr \cup ({v} \X (from \ {From("spurious")}))
    PROVE  Inv'
<1> DEFINE f == [vector |-> v, from |-> from, phase |-> "entered"]
<1>1. /\ f \in Frames /\ stack' = [stack EXCEPT ![ctx] = Append(@, f)]
      /\ IFlag' = FALSE
  BY DEF Frames, Enter
<1>2. /\ Running /\ ~InPhase(ctx, {"entered", "acked"})
      /\ ctx \in {"main", "fiber"} /\ stack[ctx] \in Seq(Frames)
  BY DEF Inv, Flag, Shape
<1>3. isr = {}
  BY <1>2 DEF Inv, OneEoi, Owed, InPhase
<1>4. stack["main"] = <<>>
  BY <1>2 DEF Inv, Shape
<1>5. stack[ctx] # <<>> => ctx = "fiber" /\ Top("fiber").phase \in {"open", "resumed"}
  BY <1>2, <1>4 DEF Inv, Shape, InPhase
<1> HIDE DEF f
<1>6. /\ stack'[ctx] \in Seq(Frames) /\ stack'[ctx] # <<>>
      /\ Len(stack'[ctx]) = Len(stack[ctx]) + 1
      /\ stack'[ctx][Len(stack'[ctx])] = f
      /\ \A k \in 1 .. Len(stack[ctx]) : stack'[ctx][k] = stack[ctx][k]
      /\ stack' \in [{"main", "fiber"} -> Seq(Frames)]
      /\ \A y \in {"main", "fiber"} \ {ctx} : stack'[y] = stack[y]
  BY <1>1, <1>2, Pushed DEF Inv, Shape
<1>7. InPhase(ctx, {"entered"})' /\ InPhase(ctx, {"entered", "acked"})'
      /\ Top(ctx)' = f
  BY <1>6 DEF InPhase, Top, f
<1>8. OneEoi'
  BY <1>3, <1>7 DEF OneEoi, Owed, f
<1>9. Shape'
  <2>1. CASE ctx = "main"
    <3>1. Len(stack'["main"]) <= 1 /\ stack'["fiber"] = stack["fiber"]
      BY <1>4, <1>6, <2>1
    <3>2. InPhase("main", {"entered", "acked"})'
      BY <1>7, <2>1
    <3>. QED
      BY <1>6, <2>1, <3>1, <3>2 DEF Inv, Shape, InPhase, Top
  <2>2. CASE ctx = "fiber"
    <3>1. \A k \in 1 .. Len(stack["fiber"]) :
             stack["fiber"][k].phase \in {"open", "resumed"}
      BY <1>2, <1>5, <2>2 DEF Inv, Shape, Top
    <3>2. InPhase("fiber", {"entered", "acked", "open", "resumed"})'
      BY <1>6, <2>2 DEF InPhase, Top, f
    <3>3. stack'["main"] = <<>> /\ Len(stack'["main"]) <= 1
      BY <1>4, <1>6, <2>2
    <3>4. /\ ctx' = "fiber" /\ ctx' # "main"
          /\ stack' \in [{"main", "fiber"} -> Seq(Frames)]
      BY <1>6, <2>2
    <3>5. \A k \in 1 .. Len(stack'["fiber"]) - 1 :
             stack'["fiber"][k].phase \in {"open", "resumed"}
      <4>1. /\ Len(stack["fiber"]) \in Nat
            /\ Len(stack'["fiber"]) = Len(stack["fiber"]) + 1
            /\ \A k \in 1 .. Len(stack["fiber"]) : stack'["fiber"][k] = stack["fiber"][k]
        BY <1>2, <1>6, <2>2
      <4>2. 1 .. Len(stack'["fiber"]) - 1 = 1 .. Len(stack["fiber"])
        BY <4>1
      <4>. QED
        BY <3>1, <4>1, <4>2
    <3>. QED
      BY <3>2, <3>3, <3>4, <3>5 DEF Shape
  <2>. QED
    BY <1>2, <2>1, <2>2
<1>10. Flag'
  <2>1. Running' /\ at' \in Nat \ {0}
    BY <1>2 DEF Running, Inv, Flag
  <2>2. ~(Running' /\ ~InPhase(ctx, {"entered", "acked"})')
    BY <1>7
  <2>. QED
    BY <1>1, <2>1, <2>2 DEF Flag
<1>11. irr' \subseteq Requests'
  BY DEF Inv, Requests, Sources, From
<1>. QED
  BY <1>8, <1>9, <1>10, <1>11 DEF Inv

LEMMA AcceptKeeps == Inv /\ Accept => Inv'
<1> SUFFICES ASSUME Inv, Accept PROVE Inv'
  OBVIOUS
<1> DEFINE v == Highest(irr)
           taken == {e \in irr : e[1] = v}
           from == {e[2] : e \in taken}
<1>1. /\ IFlag /\ irr # {} /\ irr' = irr \ taken /\ isr' = isr \cup taken
      /\ Enter(v, from) /\ UNCHANGED <<at, ctx>>
  BY DEF Accept
<1>2. irr \subseteq Requests
  BY DEF Inv
<1>3. v \in 0 .. 255
  BY <1>1, <1>2, HighestIsThere
<1>4. from \subseteq Sources /\ From("spurious") \notin from
  BY <1>2 DEF Requests
<1>5. taken = {v} \X (from \ {From("spurious")})
  <2>1. \A e \in taken : e = <<v, e[2]>>
    BY <1>2 DEF Requests
  <2> HIDE DEF v
  <2>. QED
    BY <1>4, <2>1
<1> HIDE DEF v, taken, from
<1>. QED
  BY <1>1, <1>3, <1>4, <1>5, EntersAlone

LEMMA SpuriousKeeps == Inv /\ Spurious => Inv'
<1> SUFFICES ASSUME Inv, Spurious PROVE Inv'
  OBVIOUS
<1> DEFINE from == {From("spurious")}
<1>1. PICK v : /\ v \in 0 .. 255 /\ IFlag /\ Enter(v, from)
               /\ UNCHANGED <<at, ctx, irr, isr>>
  BY VectorRange DEF Spurious
<1>2. from \subseteq Sources
  BY DEF Sources, From
<1>3. isr' = isr \cup ({v} \X (from \ {From("spurious")}))
  BY <1>1
<1>. QED
  BY <1>1, <1>2, <1>3, EntersAlone

\* A handler goes on to a phase in which it has acknowledged.
LEMMA AdvanceKeeps ==
    ASSUME Inv, Running, stack[ctx] # <<>>, UNCHANGED <<at, irr, ctx>>, isr' = {},
           NEW phase \in {"acked", "open"}, stack' = Advance(ctx, phase),
           phase = "open" => ctx = "fiber",
           IFlag' \in BOOLEAN, IFlag' <=> phase = "open"
    PROVE  Inv'
<1>1. ctx \in {"main", "fiber"} /\ Shape
  BY DEF Inv, Shape
<1>2. /\ stack' \in [{"main", "fiber"} -> Seq(Frames)]
      /\ stack'[ctx] # <<>> /\ Len(stack'[ctx]) = Len(stack[ctx])
      /\ stack'[ctx][Len(stack'[ctx])].phase = phase
      /\ \A k \in 1 .. Len(stack[ctx]) - 1 : stack'[ctx][k] = stack[ctx][k]
      /\ \A y \in {"main", "fiber"} \ {ctx} : stack'[y] = stack[y]
  BY <1>1, Advanced
<1>3. /\ InPhase(ctx, {"entered", "acked"})' <=> phase = "acked"
      /\ ~InPhase(ctx, {"entered"})'
  BY <1>2 DEF InPhase, Top
<1>4. Shape'
  <2>1. CASE ctx = "main"
    BY <1>1, <1>2, <2>1 DEF Shape, InPhase, Top
  <2>2. CASE ctx = "fiber"
    BY <1>1, <1>2, <2>2 DEF Shape, InPhase, Top
  <2>. QED
    BY <1>1, <2>1, <2>2
<1>5. OneEoi'
  BY <1>3 DEF OneEoi, Owed
<1>. QED
  BY <1>3, <1>4, <1>5, RunningStep

LEMMA AcknowledgeKeeps == Inv /\ Acknowledge => Inv'
<1> SUFFICES ASSUME Inv, Acknowledge PROVE Inv'
  OBVIOUS
<1>1. /\ InPhase(ctx, {"entered"}) /\ isr' = Dismissed(isr)
      /\ stack' = Advance(ctx, "acked") /\ UNCHANGED <<at, irr, ctx, IFlag>>
  BY DEF Acknowledge
<1>2. isr' = {}
  BY <1>1, InService DEF Inv
<1>3. stack[ctx] # <<>> /\ InPhase(ctx, {"entered", "acked"})
  BY <1>1 DEF InPhase
<1>4. Running /\ IFlag = FALSE
  BY <1>3 DEF Inv, Flag, Shape
<1>. QED
  BY <1>1, <1>2, <1>3, <1>4, AdvanceKeeps

LEMMA PreemptKeeps == Inv /\ Preempt => Inv'
<1> SUFFICES ASSUME Inv, Preempt PROVE Inv'
  OBVIOUS
<1>1. /\ InPhase(ctx, {"acked"}) /\ ctx = "fiber" /\ IFlag' = TRUE
      /\ stack' = Advance(ctx, "open") /\ UNCHANGED <<at, irr, isr, ctx>>
  BY DEF Preempt, Preempts
<1>2. stack[ctx] # <<>> /\ ~InPhase(ctx, {"entered"})
  BY <1>1 DEF InPhase
<1>3. isr' = {}
  BY <1>1, <1>2 DEF Inv, OneEoi, Owed
<1>4. Running
  BY <1>1, <1>2 DEF Inv, Flag
<1>. QED
  BY <1>1, <1>2, <1>3, <1>4, AdvanceKeeps

LEMMA IretKeeps == Inv /\ Iret => Inv'
<1> SUFFICES ASSUME Inv, Iret PROVE Inv'
  OBVIOUS
<1>1. /\ stack[ctx] # <<>> /\ ~InPhase(ctx, {"entered"})
      /\ stack' = [stack EXCEPT ![ctx] = Pop(ctx)]
      /\ IFlag' = TRUE /\ UNCHANGED <<at, irr, isr, ctx>>
  BY DEF Iret, InPhase
<1>2. /\ isr' = {} /\ Running /\ ctx \in {"main", "fiber"}
      /\ stack[ctx] \in Seq(Frames)
  BY <1>1 DEF Inv, OneEoi, Owed, Flag, Shape
<1>3. /\ stack'[ctx] \in Seq(Frames) /\ Len(stack'[ctx]) = Len(stack[ctx]) - 1
      /\ \A k \in 1 .. Len(stack[ctx]) - 1 : stack'[ctx][k] = stack[ctx][k]
      /\ Len(stack[ctx]) \in Nat \ {0}
      /\ stack' \in [{"main", "fiber"} -> Seq(Frames)]
      /\ \A y \in {"main", "fiber"} \ {ctx} : stack'[y] = stack[y]
  BY <1>1, <1>2, Popped DEF Pop, Inv, Shape
<1>4. Shape' /\ ~InPhase(ctx, {"entered", "acked"})' /\ ~InPhase(ctx, {"entered"})'
  <2>1. CASE ctx = "main"
    <3>1. Len(stack["main"]) = 1
      <4>1. Len(stack["main"]) <= 1
        BY DEF Inv, Shape
      <4>2. Len(stack["main"]) \in Nat \ {0}
        BY <1>3, <2>1
      <4>3. \A n \in Nat \ {0} : n <= 1 => n = 1
        OBVIOUS
      <4>. QED
        BY <4>1, <4>2, <4>3
    <3>2. stack'["main"] = <<>> /\ Len(stack'["main"]) <= 1
      BY <1>3, <2>1, <3>1
    <3>3. stack'["fiber"] = stack["fiber"]
      BY <1>3, <2>1
    <3>4. Shape'
      BY <1>1, <1>2, <1>3, <2>1, <3>2, <3>3 DEF Inv, Shape, InPhase, Top
    <3>. QED
      BY <1>1, <2>1, <3>2, <3>4 DEF InPhase
  <2>2. CASE ctx = "fiber"
    <3>1. \A k \in 1 .. Len(stack["fiber"]) - 1 :
             stack'["fiber"][k].phase \in {"open", "resumed"}
      BY <1>3, <2>2 DEF Inv, Shape
    <3>2. stack'["fiber"] # <<>> => Top("fiber")'.phase \in {"open", "resumed"}
      BY <1>3, <2>2, <3>1 DEF Top
    <3>3. stack'["main"] = <<>> /\ Len(stack'["main"]) <= 1
      BY <1>3, <2>2 DEF Inv, Shape
    <3>4. \A k \in 1 .. Len(stack'["fiber"]) - 1 :
             stack'["fiber"][k].phase \in {"open", "resumed"}
      BY <1>3, <2>2, <3>1
    <3>5. stack'["fiber"] # <<>>
             => InPhase("fiber", {"entered", "acked", "open", "resumed"})'
      BY <3>2 DEF InPhase, Top
    <3>6. Shape'
      BY <1>1, <1>2, <1>3, <2>2, <3>3, <3>4, <3>5 DEF Shape
    <3>. QED
      BY <1>1, <2>2, <3>2, <3>6 DEF InPhase, Top
  <2>. QED
    BY <1>2, <2>1, <2>2
<1>5. OneEoi'
  BY <1>2, <1>4 DEF OneEoi, Owed
<1>. QED
  BY <1>1, <1>2, <1>4, <1>5, RunningStep

\* Steps that change stacks: with interrupts on and no handler to finish.
LEMMA SwitchKeeps ==
    ASSUME Inv, Running, ~InPhase(ctx, {"entered", "acked"}),
           UNCHANGED <<at, irr, isr, IFlag>>, Shape',
           ~InPhase(ctx, {"entered", "acked"})'
    PROVE  Inv'
<1>1. isr = {} /\ IFlag = TRUE
  BY DEF Inv, OneEoi, Owed, InPhase, Flag
<1>2. OneEoi'
  BY <1>1 DEF OneEoi, Owed, InPhase
<1>. QED
  BY <1>1, <1>2, RunningStep

LEMMA SwitchToMainKeeps == Inv /\ SwitchToMain => Inv'
<1> SUFFICES ASSUME Inv, SwitchToMain PROVE Inv'
  OBVIOUS
<1>1. /\ stack[ctx] # <<>> /\ Top(ctx).phase = "open" /\ stack' = Advance(ctx, "saved")
      /\ ctx' = "main" /\ UNCHANGED <<at, irr, isr, IFlag>>
  BY DEF SwitchToMain, InPhase
<1>2. ctx = "fiber" /\ stack["main"] = <<>> /\ ~InPhase(ctx, {"entered", "acked"})
  BY <1>1 DEF Inv, Shape, InPhase
<1>3. Running /\ Shape
  BY <1>1, <1>2 DEF Inv, Flag
<1>4. /\ stack' \in [{"main", "fiber"} -> Seq(Frames)]
      /\ stack'["fiber"] # <<>> /\ Len(stack'["fiber"]) = Len(stack["fiber"])
      /\ stack'["fiber"][Len(stack'["fiber"])].phase = "saved"
      /\ \A k \in 1 .. Len(stack["fiber"]) - 1 : stack'["fiber"][k] = stack["fiber"][k]
      /\ stack'["main"] = stack["main"]
  BY <1>1, <1>2, <1>3, Advanced
<1>5. Shape' /\ ~InPhase(ctx, {"entered", "acked"})'
  BY <1>1, <1>2, <1>3, <1>4 DEF Shape, InPhase, Top
<1>. QED
  BY <1>1, <1>2, <1>3, <1>5, SwitchKeeps

LEMMA DispatcherKeeps == Inv /\ (Arm \/ Dispatch \/ Yield) => Inv'
<1> SUFFICES ASSUME Inv, Arm \/ Dispatch \/ Yield PROVE Inv'
  OBVIOUS
<1>1. CASE Arm
  BY <1>1, CoreUntouched DEF Arm, Inv
<1>2. CASE Dispatch
  <2>1. /\ Running /\ ctx = "main" /\ stack["main"] = <<>> /\ ctx' = "fiber"
        /\ UNCHANGED <<at, irr, isr, IFlag>>
        /\ stack' = IF InPhase("fiber", {"saved"}) THEN Advance("fiber", "resumed")
                    ELSE stack
    BY <1>2 DEF Dispatch
  <2>2. Shape /\ ~InPhase(ctx, {"entered", "acked"})
    BY <2>1 DEF Inv, InPhase
  <2>3. CASE InPhase("fiber", {"saved"})
    <3>1. stack["fiber"] # <<>> /\ stack' = Advance("fiber", "resumed")
      BY <2>1, <2>3 DEF InPhase
    <3>2. /\ stack' \in [{"main", "fiber"} -> Seq(Frames)]
          /\ stack'["fiber"] # <<>> /\ Len(stack'["fiber"]) = Len(stack["fiber"])
          /\ stack'["fiber"][Len(stack'["fiber"])].phase = "resumed"
          /\ \A k \in 1 .. Len(stack["fiber"]) - 1 :
                stack'["fiber"][k] = stack["fiber"][k]
          /\ stack'["main"] = stack["main"]
      BY <2>2, <3>1, Advanced
    <3>3. Shape' /\ ~InPhase(ctx, {"entered", "acked"})'
      BY <2>1, <2>2, <3>2 DEF Shape, InPhase, Top
    <3>. QED
      BY <2>1, <2>2, <3>3, SwitchKeeps
  <2>4. CASE ~InPhase("fiber", {"saved"})
    <3>1. stack["fiber"] = <<>> /\ stack' = stack
      BY <2>1, <2>2, <2>4 DEF Shape
    <3>2. Shape' /\ ~InPhase(ctx, {"entered", "acked"})'
      BY <2>1, <2>2, <3>1 DEF Shape, InPhase
    <3>. QED
      BY <2>1, <2>2, <3>2, SwitchKeeps
  <2>. QED
    BY <2>3, <2>4
<1>3. CASE Yield
  <2>1. /\ ctx = "fiber" /\ stack["fiber"] = <<>> /\ ctx' = "main"
        /\ UNCHANGED <<at, irr, isr, IFlag, stack>>
    BY <1>3 DEF Yield
  <2>2. /\ Running /\ Shape /\ stack["main"] = <<>>
        /\ ~InPhase(ctx, {"entered", "acked"})
    BY <2>1 DEF Inv, Flag, Shape, InPhase
  <2>3. Shape' /\ ~InPhase(ctx, {"entered", "acked"})'
    BY <2>1, <2>2 DEF Shape, InPhase
  <2>. QED
    BY <2>1, <2>2, <2>3, SwitchKeeps
<1>. QED
  BY <1>1, <1>2, <1>3

-----------------------------------------------------------------------------
(* The theorems about handlers *)

THEOREM InvHolds == Spec => []Inv
<1>1. Init => Inv
  <2> SUFFICES ASSUME Init PROVE Inv
    OBVIOUS
  <2>1. ~Running
    BY ResetEndsWithSti DEF Init, Running
  <2>2. /\ ctx = "main" /\ stack["main"] = <<>> /\ stack["fiber"] = <<>>
        /\ stack \in [{"main", "fiber"} -> Seq(Frames)]
        /\ isr = {} /\ irr = {} /\ IFlag = FALSE /\ at = 1
    BY DEF Init
  <2>3. Shape /\ OneEoi
    BY <2>2 DEF Shape, InPhase, OneEoi, Owed
  <2>4. Flag
    <3>1. IFlag \in BOOLEAN /\ (IFlag <=> Running /\ ~InPhase(ctx, {"entered", "acked"}))
      BY <2>1, <2>2
    <3>. QED
      BY <2>2, <3>1 DEF Flag
  <2>. QED
    BY <2>2, <2>3, <2>4 DEF Inv
<1>2. Inv /\ [Next]_vars => Inv'
  <2>1. ASSUME Inv, UNCHANGED vars PROVE Inv'
    BY <2>1, CoreUntouched DEF vars, core, Inv
  <2>2. ASSUME Inv, Handle PROVE Inv'
    BY <2>2, AcknowledgeKeeps, IretKeeps, PreemptKeeps, SwitchToMainKeeps DEF Handle
  <2>. QED
    BY <2>1, <2>2, ResetKeeps, InputsKeep, AcceptKeeps, SpuriousKeeps,
       DispatcherKeeps DEF Next
<1>. QED
  BY <1>1, <1>2, PTL DEF Spec

\* Each EOI dismisses the interrupt its own handler was entered for, although
\* an EOI names none and the handler of a spurious interrupt writes one too.
THEOREM EoiIsItsOwn == Spec => []OneEoi
<1>1. Inv => OneEoi
  BY DEF Inv
<1>. QED
  BY <1>1, InvHolds, PTL

\* After hal_reset interrupts are off only in a handler on its way to an iret
\* or to the sti of _ring0_preempt.
THEOREM InterruptsComeBack == Spec => []InterruptsOn
<1>1. Inv => InterruptsOn
  <2> SUFFICES ASSUME Inv PROVE InterruptsOn
    OBVIOUS
  <2>1. IFlag <=> Running /\ ~InPhase(ctx, {"entered", "acked"})
    BY DEF Inv, Flag
  <2>. QED
    BY <2>1 DEF InterruptsOn
<1>. QED
  BY <1>1, InvHolds, PTL

-----------------------------------------------------------------------------
(* The gates *)

BlockHas(b, first, class, n) ==
    /\ Len(b) = n /\ b \in Seq(Entries(b))
    /\ \A k \in 1 .. n : b[k].vector = first + k - 1 /\ b[k].class = class

LEMMA BlockAt ==
    ASSUME NEW first, NEW class, NEW n \in Nat
    PROVE  BlockHas(Block(first, class, n), first, class, n)
<1> DEFINE b == Block(first, class, n)
<1>1. DOMAIN b = 1 .. n /\ \A k \in 1 .. n : b[k].vector = first + k - 1 /\ b[k].class = class
  BY DEF Block
<1>2. b \in [1 .. n -> Entries(b)]
  BY <1>1 DEF Block, Entries
<1> HIDE DEF b
<1>3. b \in Seq(Entries(b)) /\ Len(b) = n
  BY <1>2
<1>. QED
  BY <1>1, <1>3 DEF BlockHas, b

\* What the entries of the table are, by index.
LEMMA IdtEntries ==
    /\ DOMAIN idt_reset = 1 .. 39
    /\ \A k \in 1 .. 16 : /\ idt_reset[k].vector \in (32 .. 39) \cup (48 .. 55)
                          /\ idt_reset[k].class # "lapic_internal"
    /\ \A k \in 17 .. 32 : idt_reset[k].vector = 31 + k /\ idt_reset[k].class = "lapic"
    /\ \A k \in 33 .. 39 :
          idt_reset[k].vector = 31 + k /\ idt_reset[k].class = "lapic_internal"
<1> DEFINE b1 == Block(32, "pic_master", 8)
           b2 == Block(48, "pic_slave", 8)
           b3 == Block(48, "lapic", 16)
           b4 == Block(64, "lapic_internal", 7)
           E == Entries(b1) \cup Entries(b2) \cup Entries(b3) \cup Entries(b4)
           b12 == b1 \o b2
           b123 == b12 \o b3
           At(u, n, s, m, t) ==
              /\ u \in Seq(E) /\ Len(u) = n + m
              /\ \A i \in 1 .. n : u[i] = s[i]
              /\ \A i \in n + 1 .. n + m : u[i] = t[i - n]
<1>1. idt_reset = b123 \o b4
  BY DEF idt_reset, pic_master_base, pic_slave_base, lapic_base, lapic_internal_base
<1>2. /\ BlockHas(b1, 32, "pic_master", 8) /\ BlockHas(b2, 48, "pic_slave", 8)
      /\ BlockHas(b3, 48, "lapic", 16) /\ BlockHas(b4, 64, "lapic_internal", 7)
  BY BlockAt
<1> HIDE DEF b1, b2, b3, b4
<1>3. /\ Len(b1) = 8 /\ Len(b2) = 8 /\ Len(b3) = 16 /\ Len(b4) = 7
      /\ b1 \in Seq(E) /\ b2 \in Seq(E) /\ b3 \in Seq(E) /\ b4 \in Seq(E)
  BY <1>2, SeqOfMore DEF BlockHas
<1>4. /\ \A k \in 1 .. 8 : b1[k].vector = 32 + k - 1 /\ b1[k].class = "pic_master"
      /\ \A k \in 1 .. 8 : b2[k].vector = 48 + k - 1 /\ b2[k].class = "pic_slave"
      /\ \A k \in 1 .. 16 : b3[k].vector = 48 + k - 1 /\ b3[k].class = "lapic"
      /\ \A k \in 1 .. 7 : b4[k].vector = 64 + k - 1 /\ b4[k].class = "lapic_internal"
  BY <1>2 DEF BlockHas
<1> HIDE DEF E
<1>5. ASSUME NEW s \in Seq(E), NEW t \in Seq(E), NEW n, NEW m, Len(s) = n, Len(t) = m
      PROVE  At(s \o t, n, s, m, t)
  <2>1. n \in Nat /\ m \in Nat
    BY <1>5
  <2>2. /\ s \o t \in Seq(E) /\ Len(s \o t) = n + m
        /\ \A i \in 1 .. n + m : (s \o t)[i] = IF i <= n THEN s[i] ELSE t[i - n]
    BY <1>5, ConcatProperties
  <2>. QED
    BY <2>1, <2>2
<1> HIDE DEF At
<1>6. At(b12, 8, b1, 8, b2)
  BY <1>3, <1>5
<1> HIDE DEF b12
<1>7. At(b123, 16, b12, 16, b3)
  <2>1. b12 \in Seq(E) /\ Len(b12) = 16
    BY <1>6 DEF At
  <2>. QED
    BY <1>3, <1>5, <2>1
<1> HIDE DEF b123
<1>8. At(idt_reset, 32, b123, 7, b4)
  <2>1. b123 \in Seq(E) /\ Len(b123) = 32
    BY <1>7 DEF At
  <2>. QED
    BY <1>1, <1>3, <1>5, <2>1
<1>9. DOMAIN idt_reset = 1 .. 39
  BY <1>8 DEF At
<1>10. ASSUME NEW k \in 1 .. 16
       PROVE  /\ idt_reset[k].vector \in (32 .. 39) \cup (48 .. 55)
              /\ idt_reset[k].class # "lapic_internal"
  <2>1. idt_reset[k] = b12[k]
    <3>1. k \in 1 .. 32
      OBVIOUS
    <3>2. idt_reset[k] = b123[k]
      BY <1>8, <3>1 DEF At
    <3>. QED
      BY <1>7, <3>2 DEF At
  <2>2. CASE k \in 1 .. 8
    <3>1. idt_reset[k] = b1[k]
      BY <1>6, <2>1, <2>2 DEF At
    <3>. QED
      BY <1>4, <2>2, <3>1
  <2>3. CASE k \in 9 .. 16
    <3>1. k - 8 \in 1 .. 8 /\ idt_reset[k] = b2[k - 8]
      BY <1>6, <2>1, <2>3 DEF At
    <3>. QED
      BY <1>4, <3>1
  <2>. QED
    BY <2>2, <2>3
<1>11. ASSUME NEW k \in 17 .. 32
       PROVE  idt_reset[k].vector = 31 + k /\ idt_reset[k].class = "lapic"
  <2>1. k - 16 \in 1 .. 16 /\ idt_reset[k] = b3[k - 16]
    <3>1. k \in 1 .. 32 /\ k \in 16 + 1 .. 16 + 16 /\ k - 16 \in 1 .. 16
      OBVIOUS
    <3>2. idt_reset[k] = b123[k]
      BY <1>8, <3>1 DEF At
    <3>3. b123[k] = b3[k - 16]
      BY <1>7, <3>1 DEF At
    <3>. QED
      BY <3>1, <3>2, <3>3
  <2>. QED
    BY <1>4, <2>1
<1>12. ASSUME NEW k \in 33 .. 39
       PROVE  idt_reset[k].vector = 31 + k /\ idt_reset[k].class = "lapic_internal"
  <2>1. k - 32 \in 1 .. 7 /\ idt_reset[k] = b4[k - 32]
    <3>1. k \in 32 + 1 .. 32 + 7 /\ k - 32 \in 1 .. 7
      OBVIOUS
    <3>. QED
      BY <1>8, <3>1 DEF At
  <2>. QED
    BY <1>4, <2>1
<1>. QED
  BY <1>9, <1>10, <1>11, <1>12

\* The gates of the second 8259 do not survive those of the local APIC.
LEMMA Gates ==
    /\ \A v \in 48 .. 70 : /\ HasGate(v)
                           /\ Gate(v).class = IF v < 64 THEN "lapic" ELSE "lapic_internal"
    /\ \A f : f.vector \in 0 .. 255 /\ Internal(f) => f.vector \in 64 .. 70
<1>1. ASSUME NEW v \in 48 .. 70
      PROVE  HasGate(v) /\ Gate(v) = idt_reset[v - 31]
  <2>1. v - 31 \in Calls(v)
    <3>1. v - 31 \in 17 .. 32 \/ v - 31 \in 33 .. 39
      OBVIOUS
    <3>2. idt_reset[v - 31].vector = 31 + (v - 31) /\ v - 31 \in 1 .. 39
      BY <3>1, IdtEntries
    <3>. QED
      BY <3>2, IdtEntries DEF Calls
  <2>2. \A j \in Calls(v) : j \in 1 .. 39 /\ j <= v - 31
    <3> SUFFICES ASSUME NEW j \in Calls(v) PROVE j \in 1 .. 39 /\ j <= v - 31
      OBVIOUS
    <3>1. j \in 1 .. 39 /\ idt_reset[j].vector = v
      BY IdtEntries DEF Calls
    <3>2. j \in 17 .. 39 => idt_reset[j].vector = 31 + j
      <4>1. j \in 17 .. 39 => j \in 17 .. 32 \/ j \in 33 .. 39
        OBVIOUS
      <4>. QED
        BY <4>1, IdtEntries
    <3>. QED
      BY <3>1, <3>2
  <2>3. (CHOOSE k \in Calls(v) : \A j \in Calls(v) : j <= k) = v - 31
    BY <2>1, <2>2
  <2>. QED
    BY <2>1, <2>3 DEF HasGate, Gate
<1>2. ASSUME NEW v \in 48 .. 70
      PROVE  idt_reset[v - 31].class = IF v < 64 THEN "lapic" ELSE "lapic_internal"
  <2>1. CASE v < 64
    <3>1. v - 31 \in 17 .. 32
      BY <2>1
    <3>. QED
      BY <2>1, <3>1, IdtEntries
  <2>2. CASE ~(v < 64)
    <3>1. v - 31 \in 33 .. 39
      BY <2>2
    <3>. QED
      BY <2>2, <3>1, IdtEntries
  <2>. QED
    BY <2>1, <2>2
<1>3. ASSUME NEW f, f.vector \in 0 .. 255, Internal(f) PROVE f.vector \in 64 .. 70
  <2> DEFINE v == f.vector
             k == CHOOSE k \in Calls(v) : \A j \in Calls(v) : j <= k
  <2>1. HasGate(v) /\ idt_reset[k].class = "lapic_internal"
    BY <1>3 DEF Internal, Gate
  <2>2. CASE v \in 48 .. 63
    <3>1. Gate(v).class = "lapic"
      BY <1>1, <1>2, <2>2
    <3>. QED
      BY <1>3, <3>1 DEF Internal
  <2>3. CASE v \notin 48 .. 70
    <3>1. \A j \in Calls(v) : j \in 1 .. 16 /\ idt_reset[j].class # "lapic_internal"
      <4> SUFFICES ASSUME NEW j \in Calls(v)
                   PROVE  j \in 1 .. 16 /\ idt_reset[j].class # "lapic_internal"
        OBVIOUS
      <4>1. j \in 1 .. 39 /\ idt_reset[j].vector = v
        BY IdtEntries DEF Calls
      <4>2. j \in 17 .. 39 => idt_reset[j].vector = 31 + j
        <5>1. j \in 17 .. 39 => j \in 17 .. 32 \/ j \in 33 .. 39
          OBVIOUS
        <5>. QED
          BY <5>1, IdtEntries
      <4>3. j \in 1 .. 16
        BY <2>3, <4>1, <4>2
      <4>. QED
        BY <4>3, IdtEntries
    <3>2. k \in Calls(v)
      <4>1. \E m \in Calls(v) : \A j \in Calls(v) : j <= m
        <5>1. \A j \in Calls(v) : j \in 1 .. 16
          BY <3>1
        <5>2. PICK j \in Calls(v) : TRUE
          BY <2>1 DEF HasGate
        <5>. QED
          BY <5>1, <5>2
      <4>. QED
        BY <4>1
    <3>. QED
      BY <2>1, <3>1, <3>2
  <2>. QED
    BY <1>3, <2>2, <2>3
<1>. QED
  BY <1>1, <1>2, <1>3

-----------------------------------------------------------------------------
(* What a write leaves in a register *)

\* Nothing but what is written, what the register and its copy held, and the
\* bits that must be one.
LEMMA WrittenIn ==
    ASSUME NEW o, NEW S, IsWrite(o), Device(o) \subseteq S, Shadow(o) \subseteq S,
           o.op \in {"wr", "rawwr"} => o.word \subseteq S,
           o.op = "wrf" => FieldBits(o.reg.type, o.field) \subseteq S,
           o.reg.type.mb1 \subseteq S
    PROVE  Written(o) \subseteq S
<1>1. CASE o.op = "wr"
  BY <1>1 DEF Written, wr, Forced
<1>2. CASE o.op = "wrf"
  BY <1>2 DEF Written, wrf, Forced, Shifted
<1>3. CASE o.op = "rawwr"
  BY <1>3 DEF Written
<1>. QED
  BY <1>1, <1>2, <1>3 DEF IsWrite

LEMMA PicRegisters ==
    /\ Offset(Pic!R_master_icw1) = 32 /\ Offset(Pic!R_slave_icw1) = 160
    /\ \A r \in {Pic!R_master_ocw1, Pic!R_master_icw2, Pic!R_master_icw3,
                 Pic!R_master_icw4} : Offset(r) = 33
    /\ \A r \in {Pic!R_slave_ocw1, Pic!R_slave_icw2, Pic!R_slave_icw3,
                 Pic!R_slave_icw4} : Offset(r) = 161
    /\ \A r \in {Pic!R_master_icw1, Pic!R_slave_icw1, Pic!R_master_ocw1,
                 Pic!R_slave_ocw1, Pic!R_master_icw2, Pic!R_slave_icw2,
                 Pic!R_master_icw3, Pic!R_slave_icw3, Pic!R_master_icw4,
                 Pic!R_slave_icw4} : r.type.mb1 \subseteq 0 .. 7
    /\ \A r \in {Pic!R_master_ocw1, Pic!R_slave_ocw1} :
          r.type.mb1 = {} /\ r.type.mbz = {} /\ r.type.rsvd = {}
BY DEF Offset, Pic!R_master_icw1, Pic!R_slave_icw1, Pic!R_master_ocw1,
   Pic!R_slave_ocw1, Pic!R_master_icw2, Pic!R_slave_icw2, Pic!R_master_icw3,
   Pic!R_slave_icw3, Pic!R_master_icw4, Pic!R_slave_icw4, Pic!ReadWrite,
   Pic!WriteOnly, Pic!Plain, Pic!WordType, Pic!T_icw1, Pic!T_icw2,
   Pic!T_pic_master_icw3, Pic!T_pic_slave_icw3, Pic!T_icw4

LEMMA PicFields ==
    /\ FieldBits(Pic!R_master_icw2.type, "base") \subseteq 0 .. 7
    /\ FieldBits(Pic!R_slave_icw2.type, "base") \subseteq 0 .. 7
    /\ FieldBits(Pic!R_master_icw3.type, "cascade") \subseteq 0 .. 7
    /\ FieldBits(Pic!R_slave_icw3.type, "slave_id") \subseteq 0 .. 7
<1>1. /\ Pic!R_master_icw2.type.fields["base"] = <<3, 5>>
      /\ Pic!R_slave_icw2.type.fields["base"] = <<3, 5>>
      /\ Pic!R_master_icw3.type.fields["cascade"] = <<2, 1>>
      /\ Pic!R_slave_icw3.type.fields["slave_id"] = <<0, 3>>
  BY DEF Pic!R_master_icw2, Pic!R_slave_icw2, Pic!R_master_icw3, Pic!R_slave_icw3,
         Pic!WriteOnly, Pic!WordType, Pic!T_icw2, Pic!T_pic_master_icw3,
         Pic!T_pic_slave_icw3
<1>. QED
  BY <1>1, FieldAt

\* The entries of First: where they write, and what.
Odd == {1, 5, 7, 9, 11, 13}
Even == {2, 6, 8, 10, 12, 14}
LEMMA FirstWritten ==
    ASSUME DataTypes, NEW k \in 1 .. 14
    PROVE  /\ IsWrite(First[k]) /\ First[k].dev = "pic"
           /\ k = 3 => Offset(First[k].reg) = 32
           /\ k = 4 => Offset(First[k].reg) = 160
           /\ k \in Odd => Offset(First[k].reg) = 33
           /\ k \in Even => Offset(First[k].reg) = 161
           /\ Written(First[k]) \subseteq 0 .. 7
           /\ k \in {1, 2, 11, 12, 13, 14} => Written(First[k]) = 0 .. 7
           /\ First[k].op = "wrf" => First[k].reg \in Shadowed
<1> DEFINE o == First[k]
<1>1. ASSUME IsWrite(o), o.dev = "pic", o.reg.type.mb1 \subseteq 0 .. 7,
             o.op \in {"wr", "rawwr"} => o.word \subseteq 0 .. 7,
             o.op = "wrf" => FieldBits(o.reg.type, o.field) \subseteq 0 .. 7
      PROVE  Written(o) \subseteq 0 .. 7
  <2> HIDE DEF o
  <2>1. Device(o) = {}
    BY <1>1 DEF Device
  <2>2. Shadow(o) \subseteq 0 .. 7
    BY DEF Shadow, DataTypes
  <2>. QED
    BY <1>1, <2>1, <2>2, WrittenIn
<1>2. CASE k \in {1, 2, 11, 12, 13, 14}
  <2>1. /\ o.op = "wr" /\ o.dev = "pic" /\ o.word = 0 .. 7
        /\ o.reg = IF k \in Odd THEN Pic!R_master_ocw1 ELSE Pic!R_slave_ocw1
    BY <1>2, FirstEntries DEF W, Odd
  <2> HIDE DEF o
  <2>2. Written(o) = 0 .. 7
    <3>1. Device(o) = {}
      BY <2>1 DEF Device
    <3>2. o.reg.type.mb1 = {} /\ o.reg.type.mbz = {} /\ o.reg.type.rsvd = {}
      BY <2>1, PicRegisters
    <3>. QED
      BY <2>1, <3>1, <3>2 DEF Written, wr, Forced
  <2>3. IsWrite(o) /\ (k \in Odd => Offset(o.reg) = 33)
        /\ (k \in Even => Offset(o.reg) = 161)
    BY <1>2, <2>1, PicRegisters DEF IsWrite, Odd, Even
  <2>. QED
    BY <1>2, <2>1, <2>2, <2>3 DEF o
<1>3. CASE k \in {3, 4, 9, 10}
  <2>1. /\ o.op = "wr" /\ o.dev = "pic" /\ o.word \in {Word(17), Word(1)}
        /\ o.reg = CASE k = 3 -> Pic!R_master_icw1 [] k = 4 -> Pic!R_slave_icw1
                     [] k = 9 -> Pic!R_master_icw4 [] k = 10 -> Pic!R_slave_icw4
    BY <1>3, FirstEntries DEF W
  <2> HIDE DEF o
  <2>2. Word(17) \subseteq 0 .. 7 /\ Word(1) \subseteq 0 .. 7
    BY DEF Word, Weights
  <2>3. /\ IsWrite(o) /\ o.reg.type.mb1 \subseteq 0 .. 7
        /\ k = 3 => Offset(o.reg) = 32
        /\ k = 4 => Offset(o.reg) = 160
        /\ k = 9 => Offset(o.reg) = 33
        /\ k = 10 => Offset(o.reg) = 161
    BY <1>3, <2>1, PicRegisters DEF IsWrite
  <2>. QED
    BY <1>1, <1>3, <2>1, <2>2, <2>3 DEF o, Odd, Even
<1>4. CASE k \in {5, 6, 7, 8}
  <2>1. /\ o.op = "wrf" /\ o.dev = "pic"
        /\ o.reg = CASE k = 5 -> Pic!R_master_icw2 [] k = 6 -> Pic!R_slave_icw2
                     [] k = 7 -> Pic!R_master_icw3 [] k = 8 -> Pic!R_slave_icw3
        /\ o.field = CASE k \in {5, 6} -> "base" [] k = 7 -> "cascade"
                       [] k = 8 -> "slave_id"
    BY <1>4, FirstEntries DEF F
  <2> HIDE DEF o
  <2>2. /\ IsWrite(o) /\ o.reg.type.mb1 \subseteq 0 .. 7
        /\ o.reg \in Shadowed
        /\ k \in {5, 7} => Offset(o.reg) = 33
        /\ k \in {6, 8} => Offset(o.reg) = 161
    BY <1>4, <2>1, PicRegisters DEF IsWrite, Shadowed
  <2>3. FieldBits(o.reg.type, o.field) \subseteq 0 .. 7
    BY <1>4, <2>1, PicFields
  <2>. QED
    BY <1>1, <1>4, <2>1, <2>2, <2>3 DEF o, Odd, Even
<1>. QED
  BY <1>2, <1>3, <1>4

\* The words of the timer and of thermal keep the vector or the mask they are
\* written with.
LEMMA SourceWritten ==
    ASSUME NEW o, o.op = "wr", o.reg \in {Lapic!R_lvt_timer, Lapic!R_lvt_thermal}
    PROVE  /\ 16 \in o.word => 16 \in Written(o)
           /\ VectorOf(Written(o)) = VectorOf(o.word)
<1>1. /\ o.reg.type.mb1 = {} /\ o.reg.type.mbz = {}
      /\ o.reg.type.rsvd \cap ((0 .. 7) \cup {16}) = {}
  BY DEF Lapic!R_lvt_timer, Lapic!R_lvt_thermal, Lapic!T_lvt_timer, Lapic!T_lvt_mon,
         Lapic!ReadWrite, Lapic!WordType
<1>2. \A b \in (0 .. 7) \cup {16} : b \in Written(o) <=> b \in o.word
  BY <1>1 DEF Written, wr, Forced
<1>. QED
  BY <1>2, LowBits

\* An entry of the redirection table gets its vector, whatever it held.
LEMMA RedirectionWritten ==
    ASSUME NEW i \in 0 .. 23, NEW x \in SUBSET (0 .. 63), NEW w,
           w = wr(Ioapic!R_redirtbl[i],
                  Redirect(i, rd(Ioapic!R_redirtbl[i], x, {})), x)
    PROVE  w \subseteq 0 .. 63 /\ VectorOf(w) = lapic_base + i
<1> DEFINE r == Ioapic!R_redirtbl[i]
           t == Ioapic!T_redir_tbl
           y == insert(t, "vector", x, Word(48 + i))
           z == insert(t, "mask", y, {})
<1>1. r.mode = "rw" /\ r.type = t
  BY DEF Ioapic!R_redirtbl, Ioapic!ReadWrite
<1>2. t.mb1 = {} /\ t.mbz = {} /\ t.rsvd = 17 .. 47
  BY DEF Ioapic!T_redir_tbl, Ioapic!WordType
<1>3. /\ FieldBits(t, "vector") = 0 .. 7 /\ Lo(t, "vector") = 0
      /\ FieldBits(t, "mask") = 16 .. 16
  <2>1. t.fields["vector"] = <<0, 8>> /\ t.fields["mask"] = <<16, 1>>
    BY DEF Ioapic!T_redir_tbl, Ioapic!WordType
  <2>. QED
    BY <2>1, FieldAt
<1>4. y = (x \ (0 .. 7)) \cup (Word(48 + i) \cap (0 .. 7))
  <2>1. Shifted(t, "vector", Word(48 + i)) = Word(48 + i) \cap (0 .. 7)
    BY <1>3, SmallWord DEF Shifted
  <2>. QED
    BY <1>3, <2>1 DEF insert
<1>5. z = y \ {16}
  BY <1>3 DEF insert, Shifted
<1>6. w = (z \ (17 .. 47)) \cup ((17 .. 47) \cap x)
  <2>1. rd(r, x, {}) = x
    BY <1>1 DEF rd
  <2>2. Redirect(i, x) = z
    BY DEF Redirect
  <2> HIDE DEF r, t, z
  <2>. QED
    BY <1>1, <1>2, <2>1, <2>2 DEF wr, Forced, r
<1> HIDE DEF r, t, y, z
<1>7. \A b \in 0 .. 7 : b \in w <=> b \in Word(48 + i)
  BY <1>4, <1>5, <1>6
<1>8. VectorOf(w) = 48 + i
  <2>1. 48 + i \in 0 .. 255
    OBVIOUS
  <2>2. VectorOf(Word(48 + i)) = 48 + i
    BY <2>1, VectorOfWord
  <2>3. VectorOf(w) = VectorOf(Word(48 + i))
    BY <1>7, LowBits
  <2>. QED
    BY <2>2, <2>3
<1>9. w \subseteq 0 .. 63
  <2>1. w \subseteq x \cup (0 .. 7)
    BY <1>4, <1>5, <1>6
  <2>2. (0 .. 7) \subseteq 0 .. 63
    OBVIOUS
  <2>. QED
    BY <2>1, <2>2
<1>. QED
  BY <1>8, <1>9 DEF lapic_base

-----------------------------------------------------------------------------
(* The reset and the inputs, again *)

\* One of the first entries.
LEMMA PicStep ==
    ASSUME DataTypes, PicsReset, at \in 1 .. 14, at' = at + 1, lvt' = lvt,
           NEW w, w = Written(First[at]),
           PicPlace(Offset(First[at].reg), w)
    PROVE  /\ pic' \in [{33, 161} -> PicState]
           /\ PicsReset'
<1>1. /\ at = 3 => Offset(First[at].reg) = 32
      /\ at = 4 => Offset(First[at].reg) = 160
      /\ at \in Odd => Offset(First[at].reg) = 33
      /\ at \in Even => Offset(First[at].reg) = 161
      /\ w \subseteq 0 .. 7
      /\ at \in {1, 2, 11, 12, 13, 14} => w = 0 .. 7
  BY FirstWritten
<1>2. /\ at = 3 => PicCommand(33, w)
      /\ at = 4 => PicCommand(161, w)
      /\ at \in Odd => PicData(33, w)
      /\ at \in Even => PicData(161, w)
  BY <1>1 DEF PicPlace
<1>3. pic \in [{33, 161} -> PicState]
  BY DEF DataTypes
<1>4. pic' \in [{33, 161} -> PicState]
  <2>1. ASSUME NEW c \in {33, 161}, PicCommand(c, w) \/ PicData(c, w)
        PROVE  pic' \in [{33, 161} -> PicState]
    BY <1>1, <1>3, <2>1 DEF PicCommand, PicData, PicState
  <2>. QED
    BY <1>2, <2>1 DEF Odd, Even
<1>5. pic[33].next = Expects(at) /\ pic[161].next = Expects(at - 1)
  BY DEF PicsReset
<1>6. pic[33] \in PicState /\ pic[161] \in PicState
  BY <1>3
<1>7. \A c \in {33, 161} :
         /\ PicCommand(c, w) =>
               /\ pic'[c].next = "icw2"
               /\ \A d \in {33, 161} \ {c} : pic'[d] = pic[d]
         /\ PicData(c, w) =>
               /\ pic'[c].next = CASE pic[c].next = "icw2" -> "icw3"
                                   [] pic[c].next = "icw3" -> "icw4"
                                   [] OTHER -> "ocw"
               /\ pic'[c].imr = IF pic[c].next = "ocw" THEN w ELSE pic[c].imr
               /\ \A d \in {33, 161} \ {c} : pic'[d] = pic[d]
  BY <1>3, <1>6 DEF PicCommand, PicData, PicState
<1>8. /\ pic'[33].next = Expects(at + 1) /\ pic'[161].next = Expects(at)
  BY <1>2, <1>5, <1>7 DEF Expects, Odd, Even
<1>9. /\ at + 1 > 11 => pic'[33].imr = 0 .. 7
      /\ at + 1 > 12 => pic'[161].imr = 0 .. 7
  <2>1. /\ at > 11 => pic[33].imr = 0 .. 7
        /\ at > 12 => pic[161].imr = 0 .. 7
    BY DEF PicsReset
  <2>. QED
    BY <1>1, <1>2, <1>5, <1>7, <2>1 DEF Expects, Odd, Even
<1>10. PicsReset'
  <2>1. at + 1 - 1 = at /\ (at + 1 <= 14 => at <= 14)
    OBVIOUS
  <2>. QED
    BY <1>8, <1>9, <2>1 DEF PicsReset
<1>. QED
  BY <1>4, <1>10

\* Steps that leave the requests and the stacks as they are.
LEMMA RequestsUntouched ==
    ASSUME WiredInv, UNCHANGED <<irr, stack, main>>
    PROVE  RequestsWired' /\ FramesWired'
BY DEF WiredInv, RequestsWired, FramesWired, FrameWired, Wired, From

\* An entry that neither stops the countdown nor writes the timer's word.
LEMMA TimerUntouched ==
    ASSUME WiredInv, at \in Nat, at' = at + 1, hal_reset[at] # Stop,
           UNCHANGED <<timer, main>>,
           lvt'[Offset(Lapic!R_lvt_timer)] = lvt[Offset(Lapic!R_lvt_timer)]
    PROVE  TimerReset'
<1> SUFFICES ASSUME NEW c \in 1 .. Len(hal_reset), StopsAt(c)
             PROVE  /\ at + 1 <= c => Masked(lvt[Offset(Lapic!R_lvt_timer)])
                    /\ at + 1 > c /\ main = "never" => timer = "off"
  BY DEF TimerReset, Masked
<1>1. c \in Nat /\ at # c
  <2>1. hal_reset[c] = Stop
    BY DEF StopsAt
  <2>2. Len(hal_reset) \in Nat
    BY ResetEndsWithSti
  <2>. QED
    BY <2>1, <2>2
<1>2. /\ at <= c => Masked(lvt[Offset(Lapic!R_lvt_timer)])
      /\ at > c /\ main = "never" => timer = "off"
  BY DEF WiredInv, TimerReset
<1>3. (at + 1 <= c => at <= c) /\ (at + 1 > c => at > c)
  BY <1>1
<1>. QED
  BY <1>2, <1>3

\* After the first entries the 8259 are as they are going to be.
LEMMA PicsUntouched ==
    ASSUME WiredInv, at \in Nat, at > 14, at' \in {at, at + 1},
           \A c \in {33, 161} : pic'[c].next = pic[c].next /\ pic'[c].imr = pic[c].imr
    PROVE  PicsReset'
<1>1. /\ Expects(at) = "ocw" /\ Expects(at - 1) = "ocw"
      /\ Expects(at + 1) = "ocw" /\ Expects(at + 1 - 1) = "ocw"
  BY DEF Expects
<1>2. /\ pic[33].next = "ocw" /\ pic[161].next = "ocw"
      /\ pic[33].imr = 0 .. 7 /\ pic[161].imr = 0 .. 7
  BY <1>1 DEF WiredInv, PicsReset
<1>3. ~(at' <= 14) /\ Expects(at') = "ocw" /\ Expects(at' - 1) = "ocw"
  BY <1>1
<1>. QED
  BY <1>2, <1>3 DEF PicsReset

\* Where an entry of the reset is.
LEMMA ResetStep ==
    ASSUME Inv, WiredInv, ~Running, hal_reset[at].op # "sti"
    PROVE  /\ at \in 1 .. Len(hal_reset) - 1 /\ Len(hal_reset) \in Nat
           /\ at \in Nat /\ at + 1 \in 1 .. Len(hal_reset) + 1
           /\ at <= 14 => at \in 1 .. 14 /\ hal_reset[at] = First[at]
           /\ at > 14 => Entry(hal_reset[at], "apic")
<1>1. at \in 1 .. Len(hal_reset) /\ Len(hal_reset) \in Nat
  BY ResetProgram DEF WiredInv, DataTypes, Running
<1>2. at # Len(hal_reset)
  BY <1>1, ResetProgram
<1>3. at \in 1 .. Len(hal_reset) - 1
  BY <1>1, <1>2
<1>4. at <= 14 => at \in 1 .. 14
  BY <1>1
<1>5. at > 14 => at \in 15 .. Len(hal_reset) - 1
  BY <1>3, <1>1
<1>6. at <= 14 => hal_reset[at] = First[at]
  BY <1>4, ResetProgram
<1>7. at > 14 => Entry(hal_reset[at], "apic")
  BY <1>5, ResetProgram
<1>8. at \in Nat /\ at + 1 \in 1 .. Len(hal_reset) + 1
  BY <1>1
<1>. QED
  BY <1>1, <1>3, <1>4, <1>6, <1>7, <1>8

LEMMA WritesPic ==
    ASSUME Inv, WiredInv, Write, hal_reset[at].dev = "pic"
    PROVE  WiredInv'
<1> DEFINE o == hal_reset[at]
<1>1. /\ ~Running /\ IsWrite(o) /\ o.op # "sti" /\ at' = at + 1
      /\ PicPlace(Offset(o.reg), Written(o))
      /\ shadow' = IF o.op = "wrf" THEN [shadow EXCEPT ![o.reg] = Written(o)] ELSE shadow
      /\ UNCHANGED <<lvt, timer, pit, rte, irr, idtr, stack, main>>
  BY DEF Write, IsWrite
<1>2. at \in 1 .. 14 /\ o = First[at] /\ at \in Nat /\ at + 1 \in 1 .. Len(hal_reset) + 1
  <2>1. /\ at \in 1 .. Len(hal_reset) - 1 /\ at \in Nat
        /\ at + 1 \in 1 .. Len(hal_reset) + 1
        /\ at <= 14 => at \in 1 .. 14 /\ o = First[at]
        /\ at > 14 => Entry(o, "apic")
    BY <1>1, ResetStep
  <2>2. ~(at > 14)
    BY <1>1, <2>1 DEF Entry
  <2>. QED
    BY <2>1, <2>2
<1> HIDE DEF o
<1>3. DataTypes /\ PicsReset
  BY DEF WiredInv
<1>4. /\ pic' \in [{33, 161} -> PicState]
      /\ PicsReset'
  BY <1>1, <1>2, <1>3, PicStep
<1>5. shadow' \in [Shadowed -> SUBSET (0 .. 7)]
  <2>1. Written(o) \subseteq 0 .. 7 /\ (o.op = "wrf" => o.reg \in Shadowed)
    BY <1>2, <1>3, FirstWritten
  <2>2. shadow \in [Shadowed -> SUBSET (0 .. 7)]
    BY <1>3 DEF DataTypes
  <2>. QED
    BY <1>1, <2>1, <2>2
<1>6. DataTypes'
  BY <1>1, <1>2, <1>3, <1>4, <1>5 DEF DataTypes
<1>7. TimerReset'
  <2>1. o # Stop
    <3>1. o.dev = "pic"
      BY DEF o
    <3>. QED
      BY <3>1 DEF Stop
  <2>. QED
    BY <1>1, <1>2, <2>1, TimerUntouched DEF o
<1>8. VectorsMeant'
  BY <1>1 DEF WiredInv, VectorsMeant, Holds, Masked, VectorOf
<1>. QED
  BY <1>1, <1>4, <1>6, <1>7, <1>8, RequestsUntouched DEF WiredInv

\* The entry that stops the countdown does.
LEMMA StopWritten ==
    /\ Written(Stop) = {} /\ Stop.op = "wr" /\ Stop.dev = "lapic"
    /\ Offset(Stop.reg) = 896 /\ Offset(Lapic!R_init_count) = 896
    /\ Offset(Lapic!R_eoi) = 176
<1>1. /\ Stop.op = "wr" /\ Stop.dev = "lapic" /\ Stop.reg = Lapic!R_init_count
      /\ Stop.word = {}
  BY SmallWords DEF Stop
<1>2. /\ Lapic!R_init_count.type.mb1 = {} /\ Lapic!R_init_count.type.rsvd = {}
      /\ Offset(Lapic!R_init_count) = 896 /\ Offset(Lapic!R_eoi) = 176
  BY DEF Lapic!R_init_count, Lapic!R_eoi, Lapic!ReadWrite, Lapic!WriteOnly,
         Lapic!Plain, Lapic!WordType, Offset
<1>3. Written(Stop) = {}
  BY <1>1, <1>2 DEF Written, wr, Forced
<1>. QED
  BY <1>1, <1>2, <1>3

LEMMA WordOffsets ==
    /\ 896 \notin Words /\ 176 \notin Words
    /\ Offset(Lapic!R_lvt_timer) = 800 /\ 800 \in Words
    /\ Offset(Lapic!R_lvt_thermal) = 816 /\ 816 \in Words
    /\ Offset(Lapic!R_lvt_lint0) = 848 /\ 848 \in Words
    /\ Offset(Lapic!R_svr) = 240 /\ 240 \in Words
BY DEF Words, Offset, Lapic!R_dfr, Lapic!R_ldr, Lapic!R_tpr, Lapic!R_svr,
   Lapic!R_lvt_perf_cnt, Lapic!R_lvt_lint0, Lapic!R_lvt_lint1, Lapic!R_lvt_err,
   Lapic!R_esr, Lapic!R_lvt_timer, Lapic!R_lvt_thermal, Lapic!R_dcr,
   Lapic!ReadWrite, Lapic!WriteOnly

LEMMA WritesLapic ==
    ASSUME Inv, WiredInv, Write, hal_reset[at].dev = "lapic"
    PROVE  WiredInv'
<1> DEFINE o == hal_reset[at]
           n == Offset(o.reg)
           w == Written(o)
<1>1. /\ ~Running /\ IsWrite(o) /\ o.dev = "lapic" /\ o.op # "sti" /\ at' = at + 1
      /\ LapicPlace(n, w)
      /\ UNCHANGED <<pic, shadow, pit, rte, irr, idtr, stack, main>>
  BY DEF Write, IsWrite
<1>2. /\ at \in 1 .. Len(hal_reset) - 1 /\ at \in Nat /\ Len(hal_reset) \in Nat
      /\ at + 1 \in 1 .. Len(hal_reset) + 1
      /\ at > 14 /\ Entry(o, "apic")
  <2>1. /\ at \in 1 .. Len(hal_reset) - 1 /\ at \in Nat /\ Len(hal_reset) \in Nat
        /\ at + 1 \in 1 .. Len(hal_reset) + 1
        /\ at <= 14 => at \in 1 .. 14 /\ o = First[at]
        /\ at > 14 => Entry(o, "apic")
    BY <1>1, ResetStep
  <2>2. ~(at <= 14)
    <3>1. at <= 14 => o.dev = "pic"
      BY <2>1, FirstWritten DEF WiredInv
    <3>. QED
      BY <1>1, <3>1
  <2>. QED
    BY <2>1, <2>2
<1> HIDE DEF o
<1>3. DataTypes /\ PicsReset /\ TimerReset /\ VectorsMeant
  BY DEF WiredInv
<1>4. LapicEntry(o)
  BY <1>1, <1>2 DEF Entry
<1>5. w \subseteq 0 .. 31
  <2>1. Device(o) \subseteq 0 .. 31
    BY <1>3 DEF Device, DataTypes
  <2>2. Shadow(o) \subseteq 0 .. 31
    <3>1. Shadow(o) \subseteq 0 .. 7
      BY <1>3 DEF Shadow, DataTypes
    <3>. QED
      BY <3>1
  <2>3. /\ o.op \in {"wr", "rawwr"} => o.word \subseteq 0 .. 31
        /\ o.op = "wrf" => FieldBits(o.reg.type, o.field) \subseteq 0 .. 31
        /\ o.reg.type.mb1 \subseteq 0 .. 31
    BY <1>4 DEF LapicEntry
  <2>. QED
    BY <1>1, <2>1, <2>2, <2>3, WrittenIn
<1>6. /\ n = 800 => o.reg = Lapic!R_lvt_timer /\ WordFor(o, 70)
      /\ n = 816 => o.reg = Lapic!R_lvt_thermal /\ WordFor(o, 67)
  BY <1>4, WordOffsets DEF LapicEntry, lapic_internal_base, TIMER, THERMAL
<1>7. /\ n = 800 => (16 \in o.word => 16 \in w) /\ (16 \in w \/ VectorOf(w) = 70)
      /\ n = 816 => 16 \in w \/ VectorOf(w) = 67
  BY <1>6, SourceWritten DEF WordFor
<1> HIDE DEF n, w
<1>8. /\ timer' \in {"off", "counting"} /\ lvt' \in [Words -> SUBSET (0 .. 31)]
      /\ n # 896 => timer' = timer
      /\ n = 896 => timer' = IF w = {} THEN "off" ELSE "counting"
      /\ \A m \in Words : lvt'[m] = lvt[m] \/ (n = m /\ lvt'[m] = w)
  <2>1. timer \in {"off", "counting"} /\ lvt \in [Words -> SUBSET (0 .. 31)]
    BY <1>3 DEF DataTypes
  <2>2. \/ n = 176 /\ UNCHANGED <<lvt, timer>>
        \/ n = 896 /\ timer' = (IF w = {} THEN "off" ELSE "counting") /\ lvt' = lvt
        \/ n \in Words /\ lvt' = [lvt EXCEPT ![n] = w] /\ timer' = timer
    BY <1>1, StopWritten DEF LapicPlace
  <2>3. CASE n \in Words /\ lvt' = [lvt EXCEPT ![n] = w] /\ timer' = timer
    <3>1. n # 896
      BY <2>3, WordOffsets
    <3>2. lvt' \in [Words -> SUBSET (0 .. 31)] /\ \A m \in Words : lvt'[m] = lvt[m] \/ (n = m /\ lvt'[m] = w)
      BY <1>5, <2>1, <2>3
    <3>. QED
      BY <2>1, <2>3, <3>1, <3>2
  <2>4. CASE lvt' = lvt
    BY <2>1, <2>2, <2>4, WordOffsets
  <2>. QED
    BY <2>2, <2>3, <2>4
<1>9. DataTypes'
  BY <1>1, <1>2, <1>3, <1>8 DEF DataTypes
<1>10. PicsReset'
  BY <1>1, <1>2, PicsUntouched
<1>11. VectorsMeant'
  <2>1. /\ \A p \in 0 .. Nirq - 1 : Holds(rte'[p], lapic_base + p)
        /\ Holds(lvt[800], 70) /\ Holds(lvt[816], 67)
    BY <1>1, <1>3, WordOffsets
    DEF VectorsMeant, lapic_internal_base, TIMER, THERMAL
  <2>2. Holds(lvt'[800], 70) /\ Holds(lvt'[816], 67)
    BY <1>7, <1>8, <2>1, WordOffsets DEF Holds, Masked
  <2>. QED
    BY <2>1, <2>2, WordOffsets
    DEF VectorsMeant, Holds, Masked, VectorOf, lapic_internal_base, TIMER, THERMAL
<1>12. TimerReset'
  <2> SUFFICES ASSUME NEW c \in 1 .. Len(hal_reset), StopsAt(c)
               PROVE  /\ at + 1 <= c => 16 \in lvt'[800]
                      /\ at + 1 > c /\ main = "never" => timer' = "off"
    BY <1>1, WordOffsets DEF TimerReset, Masked
  <2>1. /\ at <= c => 16 \in lvt[800]
        /\ at > c /\ main = "never" => timer = "off"
    BY <1>3, WordOffsets DEF TimerReset, Masked
  <2>2. c \in Nat
    BY <1>2
  <2>3. CASE at < c
    <3>1. Entry(o, "masked")
      <4>1. at \in 1 .. c - 1
        BY <1>2, <2>2, <2>3
      <4>. QED
        BY <4>1 DEF StopsAt, o
    <3>2. n = 800 => 16 \in o.word
      BY <1>1, <3>1, WordOffsets DEF Entry, ToLapic, n
    <3>3. 16 \in lvt'[800]
      BY <1>7, <1>8, <2>1, <2>3, <3>2, <1>2, <2>2, WordOffsets
    <3>. QED
      BY <1>2, <2>2, <2>3, <3>3
  <2>4. CASE at = c
    <3>1. o = Stop
      BY <2>4 DEF StopsAt, o
    <3>2. n = 896 /\ w = {}
      BY <3>1, StopWritten DEF n, w
    <3>. QED
      BY <1>2, <1>8, <2>4, <3>2
  <2>5. CASE at > c
    <3>1. Entry(o, "silent")
      <4>1. at \in c + 1 .. Len(hal_reset) - 1
        BY <1>2, <2>2, <2>5
      <4>. QED
        BY <4>1 DEF StopsAt, o
    <3>2. n # 896
      BY <1>1, <3>1, StopWritten DEF Entry, ToLapic, n
    <3>. QED
      BY <1>2, <1>8, <2>1, <2>2, <2>5, <3>2
  <2>. QED
    BY <1>2, <2>2, <2>3, <2>4, <2>5
<1>. QED
  BY <1>1, <1>9, <1>10, <1>11, <1>12, RequestsUntouched DEF WiredInv

LEMMA ResetKeepsWired == Inv /\ WiredInv /\ Reset => WiredInv'
<1> SUFFICES ASSUME Inv, WiredInv, Reset PROVE WiredInv'
  OBVIOUS
<1> DEFINE o == hal_reset[at]
<1>1. CASE Write /\ o.dev = "pic"
  BY <1>1, WritesPic
<1>2. CASE Write /\ o.dev = "lapic"
  BY <1>2, WritesLapic
<1>3. CASE ~(Write /\ o.dev \in {"pic", "lapic"}) /\ ~Sti
  <2>1. /\ ~Running /\ o.op # "sti" /\ at' = at + 1
        /\ UNCHANGED <<pic, shadow, lvt, timer, irr, stack, main>>
        /\ o.op \in {"redirect", "lidt"} \/ (IsWrite(o) /\ o.dev = "pit")
        /\ pit' = pit \/ \E k : PitPlace(k)
        /\ idtr' = idtr \/ idtr' = TRUE
    <3>1. CASE Write
      BY <1>3, <3>1 DEF Write, IsWrite
    <3>2. CASE WriteRedirection
      BY <3>2 DEF WriteRedirection, pics
    <3>3. CASE LoadTable
      BY <3>3 DEF LoadTable, pics, apics
    <3>. QED
      BY <1>3, <3>1, <3>2, <3>3 DEF Reset
  <2>2. /\ at \in Nat /\ at + 1 \in 1 .. Len(hal_reset) + 1
        /\ at > 14 /\ Entry(o, "apic")
    <3>1. /\ at \in Nat /\ at + 1 \in 1 .. Len(hal_reset) + 1
          /\ at <= 14 => at \in 1 .. 14 /\ o = First[at]
          /\ at > 14 => Entry(o, "apic")
      BY <2>1, ResetStep
    <3>2. ~(at <= 14)
      <4>1. \A k \in 1 .. 14 : IsWrite(First[k]) /\ First[k].dev = "pic"
        BY FirstWritten DEF WiredInv
      <4> HIDE DEF o
      <4>2. at <= 14 => IsWrite(o) /\ o.dev = "pic"
        BY <3>1, <4>1
      <4>. QED
        BY <2>1, <4>2 DEF IsWrite
    <3>. QED
      BY <3>1, <3>2
  <2>3. /\ rte' \in [0 .. Nirq - 1 -> SUBSET (0 .. 63)]
        /\ \A p \in 0 .. Nirq - 1 : rte'[p] = rte[p] \/ VectorOf(rte'[p]) = lapic_base + p
    <3>1. rte \in [0 .. Nirq - 1 -> SUBSET (0 .. 63)]
      BY DEF WiredInv, DataTypes
    <3>2. CASE WriteRedirection
      <4>1. o.pin \in 0 .. Nirq - 1 /\ o.reg = Ioapic!R_redirtbl[o.pin]
        BY <2>2, <3>2 DEF WriteRedirection, Entry
      <4>2. o.pin \in 0 .. 23
        BY <4>1, PinsAssumption
      <4> DEFINE x == rte[o.pin]
                 y == wr(o.reg, Redirect(o.pin, rd(o.reg, x, {})), x)
      <4>3. y \subseteq 0 .. 63 /\ VectorOf(y) = lapic_base + o.pin
        <5> DEFINE i == o.pin
        <5>1. /\ i \in 0 .. 23 /\ x \in SUBSET (0 .. 63)
              /\ y = wr(Ioapic!R_redirtbl[i],
                        Redirect(i, rd(Ioapic!R_redirtbl[i], x, {})), x)
          BY <3>1, <4>1, <4>2
        <5> HIDE DEF o, i, x, y
        <5>2. y \subseteq 0 .. 63 /\ VectorOf(y) = lapic_base + i
          BY <5>1, RedirectionWritten
        <5>. QED
          BY <5>2 DEF i
      <4>4. rte' = [rte EXCEPT ![o.pin] = y]
        BY <3>2 DEF WriteRedirection
      <4> HIDE DEF o, x, y
      <4>. QED
        BY <3>1, <4>1, <4>3, <4>4
    <3>3. CASE ~WriteRedirection
      <4>1. rte' = rte
        BY <1>3, <3>3 DEF Reset, Write, LoadTable, apics
      <4>. QED
        BY <3>1, <4>1
    <3>. QED
      BY <3>2, <3>3
  <2>4. o # Stop
    <3>1. o = Stop => IsWrite(o) /\ o.dev = "lapic"
      BY StopWritten DEF IsWrite
    <3>. QED
      BY <2>1, <3>1 DEF IsWrite
  <2>5. TimerReset'
    BY <2>1, <2>2, <2>4, TimerUntouched
  <2>6. PicsReset'
    BY <2>1, <2>2, PicsUntouched
  <2>7. DataTypes'
    <3>1. DataTypes
      BY DEF WiredInv
    <3>2. /\ pit' \in {"counting", "low", "high"} /\ idtr' \in BOOLEAN
          /\ at' \in 1 .. Len(hal_reset) + 1
      BY <2>1, <2>2, <3>1 DEF DataTypes, PitPlace
    <3> HIDE DEF o
    <3>. QED
      BY <2>1, <2>3, <3>1, <3>2 DEF DataTypes
  <2>8. VectorsMeant'
    <3>1. VectorsMeant /\ lvt' = lvt
      BY <2>1 DEF WiredInv
    <3>2. \A p \in 0 .. Nirq - 1 : Holds(rte'[p], lapic_base + p)
      BY <2>3, <3>1 DEF VectorsMeant, Holds
    <3> HIDE DEF o
    <3>. QED
      BY <3>1, <3>2 DEF VectorsMeant, Holds, Masked, VectorOf
  <2>. QED
    BY <2>1, <2>5, <2>6, <2>7, <2>8, RequestsUntouched DEF WiredInv
<1>4. CASE Sti
  <2>1. /\ ~Running /\ o.op = "sti" /\ at' = at + 1
        /\ UNCHANGED <<pics, apics, irr, idtr, stack, main>>
    BY <1>4 DEF Sti
  <2>2. /\ at = Len(hal_reset) /\ at \in Nat /\ at > 14
        /\ at + 1 \in 1 .. Len(hal_reset) + 1
    <3>1. at \in 1 .. Len(hal_reset) /\ Len(hal_reset) \in Nat /\ Len(hal_reset) > 14
      BY <2>1, ResetProgram DEF WiredInv, DataTypes, Running
    <3>2. at = Len(hal_reset)
      BY <2>1, <3>1, ResetProgram
    <3>. QED
      BY <3>1, <3>2
  <2>3. o # Stop
    BY <2>1, StopWritten
  <2>4. TimerReset' /\ PicsReset'
    BY <2>1, <2>2, <2>3, TimerUntouched, PicsUntouched DEF pics, apics
  <2>5. DataTypes'
    BY <2>1, <2>2 DEF WiredInv, DataTypes, pics, apics
  <2>6. VectorsMeant'
    BY <2>1 DEF WiredInv, VectorsMeant, Holds, Masked, VectorOf, apics
  <2>. QED
    BY <2>1, <2>4, <2>5, <2>6, RequestsUntouched DEF WiredInv
<1>. QED
  BY <1>1, <1>2, <1>3, <1>4 DEF Reset

\* The output of the 8259 is not asserted where LINT0 would not pass it on.
LEMMA QuietInput == WiredInv => PicQuiet
<1> SUFFICES ASSUME WiredInv, ~Extint(lvt[Offset(Lapic!R_lvt_lint0)]) PROVE ~INTR
  BY DEF PicQuiet
<1>1. at \in Nat /\ ~(at <= 14)
  BY ResetProgram DEF WiredInv, DataTypes, PicsReset
<1>2. pic[33].imr = 0 .. 7 /\ pic[161].imr = 0 .. 7
  BY <1>1 DEF WiredInv, PicsReset
<1>3. pic[33].irr \subseteq 0 .. 7 /\ pic[161].irr \subseteq 0 .. 7
  BY DEF WiredInv, DataTypes, PicState
<1>. QED
  BY <1>2, <1>3 DEF INTR, PicUp

\* A countdown that ends before the dispatcher's has its interrupt masked.
LEMMA CountdownOver ==
    WiredInv /\ timer = "counting" /\ main = "never"
       => Masked(lvt[Offset(Lapic!R_lvt_timer)])
<1> SUFFICES ASSUME WiredInv, timer = "counting", main = "never"
             PROVE  Masked(lvt[Offset(Lapic!R_lvt_timer)])
  OBVIOUS
<1>1. PICK c \in Nat : StopsAt(c)
  BY ResetProgram
<1>2. c \in 1 .. Len(hal_reset) /\ Len(hal_reset) \in Nat /\ at \in Nat
  <2>1. c \in 1 .. Len(hal_reset)
    BY <1>1 DEF StopsAt
  <2>2. Len(hal_reset) \in Nat
    BY ResetEndsWithSti
  <2>3. at \in 1 .. Len(hal_reset) + 1
    BY DEF WiredInv, DataTypes
  <2>. QED
    BY <2>1, <2>2, <2>3
<1>3. /\ at <= c => Masked(lvt[Offset(Lapic!R_lvt_timer)])
      /\ at > c /\ main = "never" => timer = "off"
  BY <1>1, <1>2 DEF WiredInv, TimerReset
<1>. QED
  BY <1>2, <1>3

LEMMA InputStep ==
    ASSUME WiredInv, UNCHANGED <<shadow, pit, rte, lvt, at, idtr, main, stack>>,
           pic' \in [{33, 161} -> PicState],
           \A c \in {33, 161} : pic'[c].next = pic[c].next /\ pic'[c].imr = pic[c].imr,
           timer' \in {timer, "off"},
           \A e \in irr' : e \in irr \/ Wired(e[1], e[2])
    PROVE  WiredInv'
<1>1. DataTypes'
  BY DEF WiredInv, DataTypes
<1>2. PicsReset'
  BY DEF WiredInv, PicsReset, Expects
<1>3. VectorsMeant'
  BY DEF WiredInv, VectorsMeant, Holds, Masked, VectorOf
<1>4. RequestsWired' /\ FramesWired'
  BY DEF WiredInv, RequestsWired, FramesWired, FrameWired, Wired, From
<1>5. TimerReset'
  BY DEF WiredInv, TimerReset, Masked
<1>. QED
  BY <1>1, <1>2, <1>3, <1>4, <1>5 DEF WiredInv

LEMMA EdgeKeepsWired == ASSUME WiredInv, NEW p \in Pins, Edge(p) PROVE WiredInv'
<1> DEFINE line == IF p = 2 THEN 0 ELSE p
<1>1. p \in 0 .. Nirq - 1 /\ p \in 0 .. 23
  BY PinsAssumption
<1>2. pic \in [{33, 161} -> PicState]
  BY DEF WiredInv, DataTypes
<1>3. /\ pic' \in [{33, 161} -> PicState]
      /\ \A c \in {33, 161} : pic'[c].next = pic[c].next /\ pic'[c].imr = pic[c].imr
  <2>1. ASSUME NEW c \in {33, 161}, NEW i \in 0 .. 7,
               pic' = [pic EXCEPT ![c].irr = @ \cup {i}]
        PROVE  /\ pic' \in [{33, 161} -> PicState]
               /\ \A d \in {33, 161} : pic'[d].next = pic[d].next
                                       /\ pic'[d].imr = pic[d].imr
    BY <1>2, <2>1 DEF PicState
  <2>2. \/ line \in 0 .. 7 /\ pic' = [pic EXCEPT ![33].irr = @ \cup {line}]
        \/ line - 8 \in 0 .. 7 /\ pic' = [pic EXCEPT ![161].irr = @ \cup {line - 8}]
        \/ pic' = pic
    BY <1>1 DEF Edge
  <2> HIDE DEF line
  <2>. QED
    BY <1>2, <2>1, <2>2
<1>4. \A e \in irr' : e \in irr \/ Wired(e[1], e[2])
  <2> DEFINE e == <<VectorOf(rte[p]), <<"pin", p>>>>
  <2>1. irr' = irr \/ (~Masked(rte[p]) /\ irr' = irr \cup {e})
    BY DEF Edge
  <2>2. ~Masked(rte[p]) => e[1] = lapic_base + p
    BY <1>1 DEF WiredInv, VectorsMeant, Holds
  <2>3. e[2] = <<"pin", p>>
    OBVIOUS
  <2>4. \A v : v = lapic_base + p => Wired(v, <<"pin", p>>)
    BY DEF Wired, From
  <2> HIDE DEF e
  <2>. QED
    BY <2>1, <2>2, <2>3, <2>4
<1>5. UNCHANGED <<shadow, pit, rte, lvt, at, idtr, main, stack, timer>>
  BY DEF Edge, apics, core
<1>. QED
  BY <1>3, <1>4, <1>5, InputStep

LEMMA InputsKeepWired == WiredInv /\ Inputs => WiredInv'
<1> SUFFICES ASSUME WiredInv, Inputs PROVE WiredInv'
  OBVIOUS
<1>1. ASSUME NEW o, NEW s, \A v : VectorOf(lvt[o]) = v => Wired(v, From(s)),
             irr' = IF Masked(lvt[o]) THEN irr
                    ELSE irr \cup {<<VectorOf(lvt[o]), From(s)>>}
      PROVE  \A e \in irr' : e \in irr \/ Wired(e[1], e[2])
  <2> DEFINE e == <<VectorOf(lvt[o]), From(s)>>
  <2>1. e[1] = VectorOf(lvt[o]) /\ e[2] = From(s) /\ (irr' = irr \/ irr' = irr \cup {e})
    BY <1>1
  <2> HIDE DEF e
  <2>. QED
    BY <1>1, <2>1
<1>2. pic \in [{33, 161} -> PicState]
  BY DEF WiredInv, DataTypes
<1>3. CASE Expire
  <2> DEFINE o == Offset(Lapic!R_lvt_timer)
  <2>1. /\ timer = "counting" /\ timer' = "off"
        /\ UNCHANGED <<pic, shadow, pit, rte, lvt, at, idtr, main, stack>>
        /\ irr' = IF Masked(lvt[o]) THEN irr
                  ELSE irr \cup {<<VectorOf(lvt[o]), From("timer")>>}
    BY <1>3 DEF Expire, Raise, pics, core
  <2>2. \A e \in irr' : e \in irr \/ Wired(e[1], e[2])
    <3>1. CASE Masked(lvt[o])
      BY <2>1, <3>1
    <3>2. CASE ~Masked(lvt[o])
      <4>1. main # "never"
        BY <2>1, <3>2, CountdownOver
      <4>2. VectorOf(lvt[o]) = lapic_internal_base + TIMER
        BY <3>2 DEF WiredInv, VectorsMeant, Holds
      <4>3. \A v : VectorOf(lvt[o]) = v => Wired(v, From("timer"))
        BY <4>1, <4>2 DEF Wired, From
      <4> HIDE DEF o
      <4>. QED
        BY <1>1, <2>1, <4>3
    <3>. QED
      BY <3>1, <3>2
  <2>. QED
    BY <1>2, <2>1, <2>2, InputStep
<1>4. CASE Unused
  <2> DEFINE o == Offset(Lapic!R_lvt_thermal)
  <2>1. ~Sends("lint0")
    BY QuietInput DEF Sends, PicQuiet
  <2>2. /\ Raise(Lapic!R_lvt_thermal, "thermal")
        /\ UNCHANGED <<pics, apics, isr, core>>
    BY <1>4, <2>1 DEF Unused
  <2>3. /\ UNCHANGED <<pic, shadow, pit, rte, lvt, at, idtr, main, stack, timer>>
        /\ irr' = IF Masked(lvt[o]) THEN irr
                  ELSE irr \cup {<<VectorOf(lvt[o]), From("thermal")>>}
    BY <2>2 DEF Raise, pics, apics, core
  <2>4. \A e \in irr' : e \in irr \/ Wired(e[1], e[2])
    <3>1. CASE Masked(lvt[o])
      BY <2>3, <3>1
    <3>2. CASE ~Masked(lvt[o])
      <4>1. VectorOf(lvt[o]) = lapic_internal_base + THERMAL
        BY <3>2 DEF WiredInv, VectorsMeant, Holds
      <4>2. \A v : VectorOf(lvt[o]) = v => Wired(v, From("thermal"))
        BY <4>1 DEF Wired, From
      <4> HIDE DEF o
      <4>. QED
        BY <1>1, <2>3, <4>2
    <3>. QED
      BY <3>1, <3>2
  <2>. QED
    BY <1>2, <2>3, <2>4, InputStep
<1>. QED
  BY <1>3, <1>4, EdgeKeepsWired DEF Inputs

-----------------------------------------------------------------------------
(* The core, again *)

\* The timer is no less armed than it was.
StaysArmed == main' = main \/ main' \in {"loop", "armed"}

LEMMA WiredStays ==
    ASSUME StaysArmed
    PROVE  /\ \A v, s : Wired(v, s) => Wired(v, s)'
           /\ \A f : FrameWired(f) => FrameWired(f)'
<1>1. \A v, s : Wired(v, s) => Wired(v, s)'
  BY DEF Wired, StaysArmed, From
<1>2. ASSUME NEW f, FrameWired(f) PROVE FrameWired(f)'
  <2>1. \A s \in f.from : Wired(f.vector, s)'
    BY <1>1, <1>2 DEF FrameWired
  <2>. QED
    BY <1>2, <2>1 DEF FrameWired
<1>. QED
  BY <1>1, <1>2

LEMMA CoreStep ==
    ASSUME WiredInv, UNCHANGED <<pics, rte, lvt, at, idtr>>, irr' \subseteq irr,
           StaysArmed, timer' = timer \/ (timer' = "counting" /\ main' = "armed"),
           FramesWired'
    PROVE  WiredInv'
<1>1. DataTypes'
  BY DEF WiredInv, DataTypes, pics, StaysArmed
<1>2. PicsReset'
  BY DEF WiredInv, PicsReset, Expects, pics
<1>3. VectorsMeant'
  BY DEF WiredInv, VectorsMeant, Holds, Masked, VectorOf
<1>4. RequestsWired'
  <2>1. \A e \in irr : Wired(e[1], e[2])
    BY DEF WiredInv, RequestsWired
  <2>2. \A e \in irr : Wired(e[1], e[2])'
    BY <2>1, WiredStays
  <2>. QED
    BY <2>2 DEF RequestsWired
<1>5. TimerReset'
  BY DEF WiredInv, TimerReset, Masked, StaysArmed
<1>. QED
  BY <1>1, <1>2, <1>3, <1>4, <1>5 DEF WiredInv

\* Frames that stay and a frame that is wired.
LEMMA FramesStay ==
    ASSUME WiredInv, StaysArmed, Len(stack'["fiber"]) <= MaxDepth,
           \A x \in {"main", "fiber"} : \A k \in 1 .. Len(stack'[x]) :
              \/ k \in 1 .. Len(stack[x]) /\ stack'[x][k] = stack[x][k]
              \/ FrameWired(stack'[x][k])
    PROVE  FramesWired'
<1>1. \A x \in {"main", "fiber"} : \A k \in 1 .. Len(stack[x]) : FrameWired(stack[x][k])
  BY DEF WiredInv, FramesWired
<1>2. \A x \in {"main", "fiber"} : \A k \in 1 .. Len(stack'[x]) :
         FrameWired(stack'[x][k])
  BY <1>1
<1>3. \A x \in {"main", "fiber"} : \A k \in 1 .. Len(stack'[x]) :
         FrameWired(stack[x][k])'
  <2> SUFFICES ASSUME NEW x \in {"main", "fiber"}, NEW k \in 1 .. Len(stack'[x])
               PROVE  FrameWired(stack[x][k])'
    OBVIOUS
  <2>1. PICK f : f = stack'[x][k]
    OBVIOUS
  <2>2. FrameWired(f)
    BY <1>2, <2>1
  <2>3. FrameWired(f)'
    BY <2>2, WiredStays
  <2>. QED
    BY <2>1, <2>3 DEF FrameWired, Wired, From, Internal
<1>. QED
  BY <1>3 DEF FramesWired

LEMMA EnterWired ==
    ASSUME Inv, WiredInv, Room, UNCHANGED <<main, ctx>>,
           NEW v \in 0 .. 255, NEW from \in SUBSET Sources, Enter(v, from),
           \A s \in from : Wired(v, s)
    PROVE  FramesWired'
<1> DEFINE f == [vector |-> v, from |-> from, phase |-> "entered"]
<1>1. f \in Frames /\ stack' = [stack EXCEPT ![ctx] = Append(@, f)] /\ FrameWired(f)
  BY DEF Frames, Enter, FrameWired
<1>2. /\ ctx \in {"main", "fiber"} /\ stack \in [{"main", "fiber"} -> Seq(Frames)]
      /\ Len(stack["fiber"]) <= MaxDepth
  BY DEF Inv, Shape, WiredInv, FramesWired
<1> HIDE DEF f
<1>3. /\ Len(stack'[ctx]) = Len(stack[ctx]) + 1 /\ Len(stack[ctx]) \in Nat
      /\ stack'[ctx][Len(stack'[ctx])] = f
      /\ \A k \in 1 .. Len(stack[ctx]) : stack'[ctx][k] = stack[ctx][k]
      /\ \A y \in {"main", "fiber"} \ {ctx} : stack'[y] = stack[y]
  BY <1>1, <1>2, Pushed
<1>4. Len(stack'["fiber"]) <= MaxDepth
  <2>1. CASE ctx = "fiber"
    BY <1>3, <2>1, DepthAssumption DEF Room
  <2>2. CASE ctx # "fiber"
    BY <1>2, <1>3, <2>2
  <2>. QED
    BY <2>1, <2>2
<1>5. \A x \in {"main", "fiber"} : \A k \in 1 .. Len(stack'[x]) :
         \/ k \in 1 .. Len(stack[x]) /\ stack'[x][k] = stack[x][k]
         \/ FrameWired(stack'[x][k])
  <2> SUFFICES ASSUME NEW x \in {"main", "fiber"}, NEW k \in 1 .. Len(stack'[x])
               PROVE  \/ k \in 1 .. Len(stack[x]) /\ stack'[x][k] = stack[x][k]
                      \/ FrameWired(stack'[x][k])
    OBVIOUS
  <2>1. CASE x # ctx
    BY <1>3, <2>1
  <2>2. CASE x = ctx /\ k = Len(stack'[x])
    BY <1>1, <1>3, <2>2
  <2>3. CASE x = ctx /\ k # Len(stack'[x])
    <3>1. k \in 1 .. Len(stack[x])
      BY <1>3, <2>3
    <3>. QED
      BY <1>3, <2>3, <3>1
  <2>. QED
    BY <2>1, <2>2, <2>3
<1>. QED
  BY <1>4, <1>5, FramesStay DEF StaysArmed

LEMMA AcceptWired == Inv /\ WiredInv /\ Accept => WiredInv'
<1> SUFFICES ASSUME Inv, WiredInv, Accept PROVE WiredInv'
  OBVIOUS
<1> DEFINE v == Highest(irr)
           taken == {e \in irr : e[1] = v}
           from == {e[2] : e \in taken}
<1>1. /\ Room /\ irr # {} /\ irr' = irr \ taken /\ Enter(v, from)
      /\ UNCHANGED <<pics, apics, at, ctx, idtr, main>>
  BY DEF Accept
<1>2. irr \subseteq Requests
  BY DEF Inv
<1>3. v \in 0 .. 255
  BY <1>1, <1>2, HighestIsThere
<1>4. from \subseteq Sources
  BY <1>2 DEF Requests
<1>5. \A s \in from : Wired(v, s)
  BY DEF WiredInv, RequestsWired
<1>6. irr' \subseteq irr
  BY <1>1
<1> HIDE DEF v, taken, from
<1>7. FramesWired'
  BY <1>1, <1>3, <1>4, <1>5, EnterWired
<1>. QED
  BY <1>1, <1>6, <1>7, CoreStep DEF apics, StaysArmed

LEMMA SpuriousWired == Inv /\ WiredInv /\ Spurious => WiredInv'
<1> SUFFICES ASSUME Inv, WiredInv, Spurious PROVE WiredInv'
  OBVIOUS
<1> DEFINE from == {From("spurious")}
<1>1. PICK v : /\ v \in 0 .. 255 /\ Room /\ Enter(v, from)
               /\ UNCHANGED <<pics, apics, at, ctx, idtr, main, irr>>
  BY VectorRange DEF Spurious
<1>2. from \subseteq Sources
  BY DEF Sources, From
<1>3. \A s \in from : Wired(v, s)
  BY DEF Wired, From
<1>4. FramesWired'
  BY <1>1, <1>2, <1>3, EnterWired
<1>. QED
  BY <1>1, <1>4, CoreStep DEF apics, StaysArmed

LEMMA AdvanceWired ==
    ASSUME Inv, WiredInv, StaysArmed, NEW x \in {"main", "fiber"}, stack[x] # <<>>,
           NEW phase \in {"acked", "open", "saved", "resumed"},
           stack' = Advance(x, phase), phase # "acked" => Internal(Top(x))
    PROVE  FramesWired'
<1>1. Shape /\ stack[x] \in Seq(Frames)
  BY DEF Inv, Shape
<1> DEFINE f == stack'[x][Len(stack'[x])]
<1>2. /\ Len(stack'[x]) = Len(stack[x]) /\ f.phase = phase
      /\ f.vector = Top(x).vector /\ f.from = Top(x).from
      /\ \A k \in 1 .. Len(stack[x]) - 1 : stack'[x][k] = stack[x][k]
      /\ \A y \in {"main", "fiber"} \ {x} : stack'[y] = stack[y]
  BY <1>1, Advanced
<1>3. Len(stack[x]) \in Nat \ {0}
  BY <1>1
<1>4. FrameWired(Top(x))
  <2>1. Len(stack[x]) \in 1 .. Len(stack[x])
    BY <1>3
  <2>. QED
    BY <2>1 DEF WiredInv, FramesWired, Top
<1> HIDE DEF f
<1>5. FrameWired(f)
  BY <1>2, <1>4 DEF FrameWired, Internal
<1>6. Len(stack'["fiber"]) <= MaxDepth
  BY <1>2 DEF WiredInv, FramesWired
<1>7. \A y \in {"main", "fiber"} : \A k \in 1 .. Len(stack'[y]) :
         \/ k \in 1 .. Len(stack[y]) /\ stack'[y][k] = stack[y][k]
         \/ FrameWired(stack'[y][k])
  <2> SUFFICES ASSUME NEW y \in {"main", "fiber"}, NEW k \in 1 .. Len(stack'[y])
               PROVE  \/ k \in 1 .. Len(stack[y]) /\ stack'[y][k] = stack[y][k]
                      \/ FrameWired(stack'[y][k])
    OBVIOUS
  <2>1. CASE y # x
    BY <1>2, <2>1
  <2>2. CASE y = x /\ k = Len(stack'[x])
    BY <1>5, <2>2 DEF f
  <2>3. CASE y = x /\ k # Len(stack'[x])
    <3>1. k \in 1 .. Len(stack[x]) - 1 /\ k \in 1 .. Len(stack[x])
      BY <1>2, <1>3, <2>3
    <3>. QED
      BY <1>2, <2>3, <3>1
  <2>. QED
    BY <2>1, <2>2, <2>3
<1>. QED
  BY <1>6, <1>7, FramesStay

LEMMA HandleWired == Inv /\ WiredInv /\ Handle => WiredInv'
<1> SUFFICES ASSUME Inv, WiredInv, Handle PROVE WiredInv'
  OBVIOUS
<1>1. /\ UNCHANGED <<pics, apics, irr, at, idtr, main>>
      /\ stack[ctx] # <<>> /\ ctx \in {"main", "fiber"}
      /\ stack[ctx] \in Seq(Frames)
  BY DEF Handle, Acknowledge, Iret, Preempt, SwitchToMain, InPhase, Inv, Shape
<1>2. StaysArmed
  BY <1>1 DEF StaysArmed
<1>3. FramesWired'
  <2>1. CASE Acknowledge
    BY <1>1, <1>2, <2>1, AdvanceWired DEF Acknowledge
  <2>2. CASE Preempt
    <3>1. stack' = Advance(ctx, "open") /\ Internal(Top(ctx))
      BY <2>2 DEF Preempt, Preempts
    <3>. QED
      BY <1>1, <1>2, <3>1, AdvanceWired
  <2>3. CASE SwitchToMain
    <3>1. stack' = Advance(ctx, "saved") /\ Top(ctx).phase = "open"
      BY <2>3 DEF SwitchToMain, InPhase
    <3>2. Internal(Top(ctx))
      <4>1. Len(stack[ctx]) \in 1 .. Len(stack[ctx])
        BY <1>1
      <4>2. FrameWired(Top(ctx))
        BY <1>1, <4>1 DEF WiredInv, FramesWired, Top
      <4>. QED
        BY <3>1, <4>2 DEF FrameWired
    <3>. QED
      BY <1>1, <1>2, <3>1, <3>2, AdvanceWired
  <2>4. CASE Iret
    <3>1. stack' = [stack EXCEPT ![ctx] = Pop(ctx)]
      BY <2>4 DEF Iret
    <3>2. stack \in [{"main", "fiber"} -> Seq(Frames)]
      BY DEF Inv, Shape
    <3>3. /\ Len(stack'[ctx]) = Len(stack[ctx]) - 1 /\ Len(stack[ctx]) \in Nat \ {0}
          /\ \A k \in 1 .. Len(stack[ctx]) - 1 : stack'[ctx][k] = stack[ctx][k]
          /\ \A y \in {"main", "fiber"} \ {ctx} : stack'[y] = stack[y]
      BY <1>1, <3>1, <3>2, Popped DEF Pop
    <3>4. Len(stack'["fiber"]) <= MaxDepth
      <4>1. Len(stack["fiber"]) <= MaxDepth
        BY DEF WiredInv, FramesWired
      <4>2. CASE ctx = "fiber"
        BY <3>3, <4>1, <4>2, DepthAssumption
      <4>3. CASE ctx # "fiber"
        BY <3>3, <4>1, <4>3
      <4>. QED
        BY <4>2, <4>3
    <3>5. \A y \in {"main", "fiber"} : \A k \in 1 .. Len(stack'[y]) :
             k \in 1 .. Len(stack[y]) /\ stack'[y][k] = stack[y][k]
      <4> SUFFICES ASSUME NEW y \in {"main", "fiber"}, NEW k \in 1 .. Len(stack'[y])
                   PROVE  k \in 1 .. Len(stack[y]) /\ stack'[y][k] = stack[y][k]
        OBVIOUS
      <4>1. CASE y # ctx
        BY <3>3, <4>1
      <4>2. CASE y = ctx
        <5>1. k \in 1 .. Len(stack[ctx]) - 1 /\ k \in 1 .. Len(stack[ctx])
          BY <3>3, <4>2
        <5>. QED
          BY <3>3, <4>2, <5>1
      <4>. QED
        BY <4>1, <4>2
    <3>. QED
      BY <1>2, <3>4, <3>5, FramesStay
  <2>. QED
    BY <2>1, <2>2, <2>3, <2>4 DEF Handle
<1>. QED
  BY <1>1, <1>2, <1>3, CoreStep DEF apics

LEMMA DispatcherWired == Inv /\ WiredInv /\ (Arm \/ Dispatch \/ Yield) => WiredInv'
<1> SUFFICES ASSUME Inv, WiredInv, Arm \/ Dispatch \/ Yield PROVE WiredInv'
  OBVIOUS
<1>1. /\ UNCHANGED <<pics, rte, lvt, at, idtr>> /\ irr' = irr /\ StaysArmed
      /\ timer' = timer \/ (timer' = "counting" /\ main' = "armed")
  BY DEF Arm, Dispatch, Yield, apics, StaysArmed
<1>2. FramesWired'
  <2>1. CASE stack' = stack
    <3>1. Len(stack'["fiber"]) <= MaxDepth
      BY <2>1 DEF WiredInv, FramesWired
    <3>. QED
      BY <1>1, <2>1, <3>1, FramesStay
  <2>2. CASE InPhase("fiber", {"saved"}) /\ stack' = Advance("fiber", "resumed")
    <3>1. stack["fiber"] # <<>> /\ Top("fiber").phase = "saved"
          /\ stack["fiber"] \in Seq(Frames)
      BY <2>2 DEF InPhase, Inv, Shape
    <3>2. Internal(Top("fiber"))
      <4>1. Len(stack["fiber"]) \in 1 .. Len(stack["fiber"])
        BY <3>1
      <4>2. FrameWired(Top("fiber"))
        BY <4>1 DEF WiredInv, FramesWired, Top
      <4>. QED
        BY <3>1, <4>2 DEF FrameWired
    <3>. QED
      BY <1>1, <2>2, <3>1, <3>2, AdvanceWired
  <2>. QED
    BY <2>1, <2>2 DEF Arm, Dispatch, Yield
<1>. QED
  BY <1>1, <1>2, CoreStep

-----------------------------------------------------------------------------
(* The theorems about requests and registers *)

THEOREM WiredInvHolds == Spec => [](Inv /\ WiredInv)
<1>1. Init => WiredInv
  <2> SUFFICES ASSUME Init PROVE WiredInv
    OBVIOUS
  <2>1. /\ at = 1 /\ irr = {} /\ timer = "off" /\ pit = "counting" /\ main = "never"
        /\ idtr = FALSE /\ \A x \in {"main", "fiber"} : stack[x] = <<>>
    BY DEF Init
  <2>2. shadow \in [Shadowed -> SUBSET (0 .. 7)]
    BY GarbageAssumption DEF Init
  <2>3. /\ pic \in [{33, 161} -> PicState]
        /\ pic[33].next = "ocw" /\ pic[161].next = "ocw"
    <3>1. PICK w \in Garbage :
             pic = [c \in {33, 161} |->
                       [imr |-> w, irr |-> {}, base |-> {3}, next |-> "ocw"]]
      BY DEF Init
    <3>2. [imr |-> w, irr |-> {}, base |-> {3}, next |-> "ocw"] \in PicState
      BY GarbageAssumption DEF PicState
    <3>. QED
      BY <3>1, <3>2
  <2>4. /\ rte \in [0 .. Nirq - 1 -> SUBSET (0 .. 63)]
        /\ \A p \in 0 .. Nirq - 1 : Masked(rte[p])
    BY DEF Init, Masked
  <2>5. /\ lvt \in [Words -> SUBSET (0 .. 31)] /\ Masked(lvt[800]) /\ Masked(lvt[816])
        /\ Extint(lvt[848])
    BY WordOffsets DEF Init, Masked, Extint
  <2>6. DataTypes
    <3>1. 1 \in 1 .. Len(hal_reset) + 1
      <4>1. Len(hal_reset) \in Nat
        BY ResetEndsWithSti
      <4>. QED
        BY <4>1
    <3>2. at \in 1 .. Len(hal_reset) + 1 /\ idtr \in BOOLEAN
      BY <2>1, <3>1
    <3>3. /\ timer \in {"off", "counting"} /\ pit \in {"counting", "low", "high"}
          /\ main \in {"never", "loop", "armed"}
      BY <2>1
    <3>4. pic \in [{33, 161} -> PicState]
      BY <2>3
    <3>5. rte \in [0 .. Nirq - 1 -> SUBSET (0 .. 63)]
      BY <2>4
    <3>6. lvt \in [Words -> SUBSET (0 .. 31)]
      BY <2>5
    <3>. QED
      BY <2>2, <3>2, <3>3, <3>4, <3>5, <3>6 DEF DataTypes
  <2>7. PicsReset
    BY <2>1, <2>3, <2>5, WordOffsets DEF PicsReset, Expects
  <2>8. TimerReset
    BY <2>1, <2>5, WordOffsets DEF TimerReset
  <2>9. VectorsMeant
    BY <2>4, <2>5, WordOffsets DEF VectorsMeant, Holds
  <2>10. RequestsWired /\ FramesWired
    <3>1. \A x \in {"main", "fiber"} : Len(stack[x]) = 0
      BY <2>1
    <3>. QED
      BY <2>1, <3>1, DepthAssumption DEF RequestsWired, FramesWired
  <2>. QED
    BY <2>6, <2>7, <2>8, <2>9, <2>10 DEF WiredInv
<1>2. Inv /\ WiredInv /\ [Next]_vars => WiredInv'
  <2>1. ASSUME WiredInv, UNCHANGED vars PROVE WiredInv'
    <3>1. UNCHANGED <<pics, rte, lvt, at, idtr, irr, main, timer, stack>>
      BY <2>1 DEF vars, apics, core
    <3>2. FramesWired'
      BY <2>1, <3>1, RequestsUntouched
    <3>. QED
      BY <2>1, <3>1, <3>2, CoreStep DEF StaysArmed
  <2>. QED
    BY <2>1, ResetKeepsWired, InputsKeepWired, AcceptWired, SpuriousWired, HandleWired,
       DispatcherWired DEF Next
<1>. QED
  BY <1>1, <1>2, InvHolds, PTL DEF Spec

\* The registers and the stacks have their types, and handlers nest no deeper
\* than the model lets them: not at all on the main stack.
THEOREM TypeCorrect == Spec => []TypeOK
<1>1. Inv /\ WiredInv => TypeOK
  <2> SUFFICES ASSUME Inv, WiredInv PROVE TypeOK
    OBVIOUS
  <2>1. irr \subseteq Requests /\ isr \subseteq Requests
    BY InService DEF Inv
  <2>2. irr \subseteq (0 .. 255) \X Sources /\ isr \subseteq (0 .. 255) \X Sources
    BY <2>1 DEF Requests
  <2>. QED
    BY <2>2 DEF TypeOK, Inv, WiredInv, DataTypes, Shape, Flag, FramesWired, PicState
<1>. QED
  BY <1>1, WiredInvHolds, PTL

\* Once LINT0 does not pass the 8259 on as they are, they assert nothing there,
\* although the local APIC is left to take it for a source of its own.
THEOREM PicsStayQuiet == Spec => []PicQuiet
BY QuietInput, WiredInvHolds, PTL

\* What is in service is what a frame was entered for.
LEMMA ServedAreWired == Inv /\ WiredInv => \A e \in isr : Wired(e[1], e[2])
<1> SUFFICES ASSUME Inv, WiredInv, NEW e \in isr PROVE Wired(e[1], e[2])
  OBVIOUS
<1>1. InPhase(ctx, {"entered"}) /\ e[1] = Top(ctx).vector /\ e[2] \in Top(ctx).from
  BY DEF Inv, OneEoi, Owed
<1>2. ctx \in {"main", "fiber"} /\ stack[ctx] # <<>> /\ stack[ctx] \in Seq(Frames)
  BY <1>1 DEF Inv, Shape, InPhase
<1>3. Len(stack[ctx]) \in 1 .. Len(stack[ctx])
  BY <1>2
<1>4. FrameWired(Top(ctx))
  BY <1>2, <1>3 DEF WiredInv, FramesWired, Top
<1>. QED
  BY <1>1, <1>4 DEF FrameWired

\* Every interrupt that is requested or in service has a gate, and a handler
\* that acknowledges the local APIC, on a machine whose pin 23 does not move.
THEOREM EveryRequestGated == ASSUME PinsHaveGates PROVE Spec => []Gated
<1>1. Inv /\ WiredInv => Gated
  <2> SUFFICES ASSUME Inv, WiredInv, NEW e \in irr \cup isr
               PROVE  HasGate(e[1]) /\ Gate(e[1]).class \in {"lapic", "lapic_internal"}
    BY DEF Gated
  <2>1. Wired(e[1], e[2])
    BY ServedAreWired DEF WiredInv, RequestsWired
  <2>2. e[2] \in Sources \ {From("spurious")}
    BY InService DEF Inv, Requests
  <2>3. e[1] \in 48 .. 70
    <3>1. CASE \E p \in Pins : e[2] = <<"pin", p>>
      BY <2>1, <3>1, PinsHaveGates DEF Wired, lapic_base, PinsHaveGates
    <3>2. CASE ~\E p \in Pins : e[2] = <<"pin", p>>
      <4>1. e[2] \in {From("timer"), From("thermal"), From("lint0")}
        BY <2>2, <3>2 DEF Sources, From
      <4>. QED
        BY <2>1, <4>1 DEF Wired, lapic_internal_base, TIMER, THERMAL
    <3>. QED
      BY <3>1, <3>2
  <2>. QED
    BY <2>3, Gates
<1>. QED
  BY <1>1, WiredInvHolds, PTL

\* Until the dispatcher has armed the timer no countdown interrupts, the one of
\* lapic_reset included, and never do the 8259.
THEOREM BootStaysQuiet == Spec => []BootIsQuiet
<1>1. Inv /\ WiredInv => BootIsQuiet
  BY ServedAreWired DEF WiredInv, RequestsWired, Wired, BootIsQuiet
<1>. QED
  BY <1>1, WiredInvHolds, PTL

\* A fiber is left in the middle only for a local source or for a pin that has
\* the vector of one: never for a pin of an ISA bus.
THEOREM DevicesDoNotPreempt == Spec => NoDevicePreempts
<1> DEFINE A == ctx = "fiber" /\ ctx' = "main" /\ stack["fiber"] # <<>>
                  => \A p \in Pins : p < 16 => <<"pin", p>> \notin Top("fiber").from
<1>1. Inv /\ WiredInv /\ [Next]_vars => [A]_vars
  <2> SUFFICES ASSUME Inv, WiredInv, Next, ctx = "fiber", ctx' = "main",
                      stack["fiber"] # <<>>,
                      NEW p \in Pins, p < 16, <<"pin", p>> \in Top("fiber").from
               PROVE  FALSE
    OBVIOUS
  <2>1. SwitchToMain
    BY DEF Next, Reset, Write, WriteRedirection, LoadTable, Sti, Inputs, Edge, Expire,
           Unused, core, Accept, Spurious, Handle, Acknowledge, Iret, Preempt, Arm,
           Dispatch, Yield
  <2>2. Top("fiber").phase = "open" /\ Top("fiber") \in Frames
    BY <2>1, TopTyped DEF SwitchToMain, InPhase, Inv
  <2>3. FrameWired(Top("fiber"))
    <3>1. stack["fiber"] \in Seq(Frames)
      BY DEF Inv, Shape
    <3>2. Len(stack["fiber"]) \in 1 .. Len(stack["fiber"])
      BY <3>1
    <3>. QED
      BY <3>2 DEF WiredInv, FramesWired, Top
  <2>4. Top("fiber").vector \in 64 .. 70
    <3>1. Internal(Top("fiber")) /\ Top("fiber").vector \in 0 .. 255
      BY <2>2, <2>3 DEF FrameWired, Frames
    <3>. QED
      BY <3>1, Gates
  <2>5. Top("fiber").vector = lapic_base + p
    BY <2>3 DEF FrameWired, Wired
  <2>6. p \in 0 .. 23
    BY PinsAssumption
  <2>. QED
    BY <2>4, <2>5, <2>6 DEF lapic_base
<1>. QED
  BY <1>1, WiredInvHolds, PTL DEF Spec, NoDevicePreempts

===============================================================================
