------------------------------ MODULE Interrupts ------------------------------
(*
 * Interrupts on core 0: how hal_reset programs the interrupt controllers, and
 * how the interrupts that follow are dispatched, acknowledged and, on a
 * fiber's stack, turned into a preemption.
 *
 * hal_reset is a sequence of register writes (Program), taken one at a time
 * while the inputs go on moving. The controllers are the external part: each
 * reacts to a word written at a place as its manual says, whatever the driver
 * calls the bits. After the last entry, "sti", the core runs its main stack
 * and one fiber of the scheduler.
 *)
EXTENDS Registers, Sequences

CONSTANTS
    Pins,      \* inputs of the I/O APIC that move
    Nirq,      \* its inputs, mre + 1: at most 24, lpc_ioapic_redirtbl_length
    Garbage,   \* words of firmware and of uninitialised shadows
    MaxDepth   \* handlers nested on the fiber's stack

ASSUME PinsAssumption == Nirq \in 0 .. 24 /\ Pins \subseteq 0 .. Nirq - 1
ASSUME GarbageAssumption == Garbage \subseteq SUBSET (0 .. 7)
ASSUME DepthAssumption == MaxDepth \in Nat \ {0}

\* The table of gates ends at vector 70, the I/O APIC's vectors at 48 + mre:
\* pin 23 has none. Gated is about machines on which it does not move.
PinsHaveGates == Pins \subseteq 0 .. 22

Pic == INSTANCE LpcPic
Ioapic == INSTANCE LpcIoapic
Pit == INSTANCE LpcTimer
Lapic == INSTANCE Xapic

\* devices/config.h
pic_master_base     == 32
pic_slave_base      == 40
lapic_base          == 48
lapic_internal_base == 64

LINT0 == 0
LINT1 == 1
PERFCNT == 2
THERMAL == 3
ERR == 4
SPURIOUS == 5
TIMER == 6

-----------------------------------------------------------------------------
(* The interrupt descriptor table *)

Block(first, class, n) ==
    [k \in 1 .. n |-> [vector |-> first + k - 1, class |-> class, x |-> k - 1]]

\* Slip: the gates of the second 8259, put where they were meant to go in the end, are set last.
IdtSlip ==
    Block(pic_master_base, "pic_master", 8)
    \o Block(lapic_base, "lapic", 16)
    \o Block(lapic_internal_base, "lapic_internal", 7)
    \o Block(pic_slave_base + 8, "pic_slave", 8)

\* The calls of idt_set for vectors above the exceptions, in their order.
idt_reset ==
    Block(pic_master_base, "pic_master", 8)
    \o Block(pic_slave_base + 8, "pic_slave", 8)
    \o Block(lapic_base, "lapic", 16)
    \o Block(lapic_internal_base, "lapic_internal", 7)

\* The gates of a vector are those set last.
Calls(v) == {k \in DOMAIN idt_reset : idt_reset[k].vector = v}
HasGate(v) == Calls(v) # {}
Gate(v) == idt_reset[CHOOSE k \in Calls(v) : \A j \in Calls(v) : j <= k]

-----------------------------------------------------------------------------
(* The words the drivers write *)

\* Fields inserted into a word that was zero.
Fill(t, vals) == UNION {Shifted(t, f, Word(vals[f])) : f \in DOMAIN vals}

W(dev, reg, word) == <<[op |-> "wr", dev |-> dev, reg |-> reg, word |-> word]>>
Raw(dev, reg, word) ==
    <<[op |-> "rawwr", dev |-> dev, reg |-> reg, word |-> word]>>
F(dev, reg, field, n) ==
    <<[op |-> "wrf", dev |-> dev, reg |-> reg, field |-> field, word |-> Word(n)]>>

\* Slip: one of the two 8259 is masked twice.
maskallSlip ==
    W("pic", Pic!R_slave_ocw1, 0 .. 7) \o W("pic", Pic!R_slave_ocw1, 0 .. 7)

\* dev_lpc_pic_t
maskall ==
    W("pic", Pic!R_master_ocw1, 0 .. 7) \o W("pic", Pic!R_slave_ocw1, 0 .. 7)

pic_reset(irq) ==
    maskall
    \o W("pic", Pic!R_master_icw1, Word(17)) \o W("pic", Pic!R_slave_icw1, Word(17))
    \o F("pic", Pic!R_master_icw2, "base", irq)
    \o F("pic", Pic!R_slave_icw2, "base", irq + 8)
    \o F("pic", Pic!R_master_icw3, "cascade", 1)
    \o F("pic", Pic!R_slave_icw3, "slave_id", 2)
    \o W("pic", Pic!R_master_icw4, Word(1)) \o W("pic", Pic!R_slave_icw4, Word(1))
    \o maskall

\* Slip: the vectors start where those of the local sources do.
RedirectSlip(i, x) ==
    LET t == Ioapic!T_redir_tbl
    IN  insert(t, "mask", insert(t, "vector", x, Word(lapic_internal_base + i)), {})

\* dev_lpc_ioapic_t: a word read, two of its fields replaced, and written back.
Redirect(i, x) ==
    LET t == Ioapic!T_redir_tbl
    IN  insert(t, "mask", insert(t, "vector", x, Word(48 + i)), {})

ioapic_reset ==
    [i \in 1 .. Nirq |-> [op |-> "redirect", dev |-> "ioapic",
                          reg |-> Ioapic!R_redirtbl[i - 1], pin |-> i - 1]]

\* dev_lapic_t
Mask(masked) == IF masked THEN Lapic!Num_int_mask.masked
                ELSE Lapic!Num_int_mask.not_masked

reset_spurious(vector, enable) ==
    W("lapic", Lapic!R_svr,
      Fill(Lapic!T_svr, [vector |-> vector, enable |-> enable, focus |-> 1]))

reset_timer_count(count) ==
    W("lapic", Lapic!R_init_count, Word(count))
    \o F("lapic", Lapic!R_dcr, "div_val", Lapic!Num_divide.by1)

\* Slip: the interrupt is unmasked before the countdown is set.
reset_timerSlip(vector, masked, count) ==
    W("lapic", Lapic!R_lvt_timer,
      Fill(Lapic!T_lvt_timer, [vector |-> vector, mask |-> Mask(masked),
                               mode |-> Lapic!Num_timer_mode.one_shot]))
    \o reset_timer_count(count)

reset_timer(vector, masked, count) ==
    reset_timer_count(count)
    \o W("lapic", Lapic!R_lvt_timer,
         Fill(Lapic!T_lvt_timer, [vector |-> vector, mask |-> Mask(masked),
                                  mode |-> Lapic!Num_timer_mode.one_shot]))

reset_perfcnt(vector, masked) ==
    W("lapic", Lapic!R_lvt_perf_cnt,
      Fill(Lapic!T_lvt_mon, [vector |-> vector, mask |-> Mask(masked)]))
reset_thermal(vector, masked) ==
    W("lapic", Lapic!R_lvt_thermal,
      Fill(Lapic!T_lvt_mon, [vector |-> vector, mask |-> Mask(masked)]))
Lint(vector, dlv_mode, masked) ==
    Fill(Lapic!T_lvt_lint, [vector |-> vector, dlv_mode |-> dlv_mode,
                            trig_mode |-> Lapic!Num_trigm.edge,
                            mask |-> Mask(masked)])
reset_lint0(vector, masked) ==
    W("lapic", Lapic!R_lvt_lint0, Lint(vector, Lapic!Num_vdm.fixed, masked))
reset_lint1(vector, masked) ==
    W("lapic", Lapic!R_lvt_lint1, Lint(vector, Lapic!Num_vdm.nmi, masked))
reset_err(vector, masked) ==
    W("lapic", Lapic!R_lvt_err,
      Fill(Lapic!T_lvt_err, [vector |-> vector, mask |-> Mask(masked)]))
clear_esr == Raw("lapic", Lapic!R_esr, {}) \o Raw("lapic", Lapic!R_esr, {})
eoi == W("lapic", Lapic!R_eoi, {})

lapic_internal_reset ==
    LET base == lapic_internal_base
    IN  reset_spurious(base + SPURIOUS, 1)
        \o reset_timer(base + TIMER, FALSE, 0)
        \o reset_perfcnt(base + PERFCNT, FALSE)
        \o reset_thermal(base + THERMAL, FALSE)
        \o reset_lint0(base + LINT0, FALSE) \o reset_lint1(base + LINT1, FALSE)
        \o reset_err(base + ERR, FALSE) \o clear_esr \o eoi

lapic_reset ==
    F("lapic", Lapic!R_dfr, "model", Lapic!Num_model_type.flat)
    \o F("lapic", Lapic!R_ldr, "log_id", 0)
    \o W("lapic", Lapic!R_tpr, {})
    \o reset_spurious(0, 1) \o reset_timer(0, TRUE, 100)
    \o reset_perfcnt(0, TRUE) \o reset_thermal(0, TRUE)
    \o reset_lint0(0, TRUE) \o reset_lint1(0, TRUE) \o reset_err(0, TRUE)
    \o clear_esr \o eoi
    \o lapic_internal_reset

\* dev_lpc_timer_t::set_hz(0): divisor 0, low byte and then high byte.
set_hz0 ==
    W("pit", Pit!R_tcw,
      Fill(Pit!T_tcw, [mode |-> Pit!Num_cnt_mode.rtgen,
                       rwsel |-> Pit!Num_timer_rwsel.lmsb,
                       select |-> Pit!Num_timer_cntsel.c0]))
    \o W("pit", Pit!R_cntacc0, {}) \o W("pit", Pit!R_cntacc0, {})

\* What hal_reset(0, hal) does to interrupts, between its cli and its last line.
hal_reset ==
    pic_reset(pic_master_base) \o maskall \o ioapic_reset \o lapic_reset
    \o <<[op |-> "lidt"]>> \o set_hz0 \o <<[op |-> "sti"]>>

-----------------------------------------------------------------------------
VARIABLES
    at,       \* the entry of hal_reset that is next
    IFlag,    \* the core accepts interrupts
    idtr,     \* the table is loaded
    shadow,   \* the drivers' copies of the words they cannot read back
    pic,      \* the two 8259: mask, requests, base, and what they expect next
    rte,      \* the redirection table
    lvt,      \* the local APIC's words, by offset
    timer,    \* its countdown
    pit,      \* counter 0 of the 8254
    irr, isr, \* requested and in service: pairs of a vector and a source
    ctx,      \* the stack the core is on
    stack,    \* the handlers on each stack
    main      \* the dispatcher: never armed the timer, in the loop, or armed

pics == <<pic, shadow, pit>>
apics == <<rte, lvt, timer>>
core == <<at, IFlag, idtr, ctx, stack, main>>
vars == <<pics, apics, irr, isr, core>>

Running == at > Len(hal_reset)

Sources == {<<"pin", p>> : p \in Pins}
           \cup {<<"local", s>> : s \in {"timer", "thermal", "lint0", "spurious"}}
From(s) == <<"local", s>>

\* What an interrupt puts on the interrupted stack, and how far its handler is.
Frames == [vector : 0 .. 255, from : SUBSET Sources,
           phase : {"entered", "acked", "open", "saved", "resumed"}]
Top(s) == stack[s][Len(stack[s])]
Pop(s) == SubSeq(stack[s], 1, Len(stack[s]) - 1)
InPhase(s, phases) == stack[s] # <<>> /\ Top(s).phase \in phases
Advance(s, phase) ==
    [stack EXCEPT ![s] = Append(Pop(s), [Top(s) EXCEPT !.phase = phase])]

\* The words, their fields and the vector numbers they hold.
Offset(reg) == reg.place[2]
Words == {Offset(r) : r \in {Lapic!R_dfr, Lapic!R_ldr, Lapic!R_tpr, Lapic!R_svr,
              Lapic!R_lvt_timer, Lapic!R_lvt_perf_cnt, Lapic!R_lvt_thermal,
              Lapic!R_lvt_lint0, Lapic!R_lvt_lint1, Lapic!R_lvt_err,
              Lapic!R_esr, Lapic!R_dcr}}
Shadowed == {Pic!R_master_icw2, Pic!R_slave_icw2, Pic!R_master_icw3,
             Pic!R_slave_icw3}
VectorOf(word) ==
    LET bit(b, weight) == IF b \in word THEN weight ELSE 0
    IN  bit(0, 1) + bit(1, 2) + bit(2, 4) + bit(3, 8)
        + bit(4, 16) + bit(5, 32) + bit(6, 64) + bit(7, 128)
Masked(word) == 16 \in word    \* the mask of every LVT word and of an RTE
Extint(word) == {8, 9, 10} \subseteq word

\* The firmware's controllers: inputs masked in the I/O APIC, LINT0 passes on
\* whatever the 8259 sends, everything else masked.
Init ==
    /\ at = 1 /\ IFlag = FALSE /\ idtr = FALSE
    /\ \E w \in Garbage : shadow = [r \in Shadowed |-> w]
    /\ \E w \in Garbage :
          pic = [c \in {33, 161} |->
                    [imr |-> w, irr |-> {}, base |-> {3}, next |-> "ocw"]]
    /\ rte = [i \in 0 .. Nirq - 1 |-> {16}]
    /\ lvt = [o \in Words |-> IF o = Offset(Lapic!R_lvt_lint0) THEN {8, 9, 10}
                              ELSE {16}]
    /\ timer = "off" /\ pit = "counting"
    /\ irr = {} /\ isr = {}
    /\ ctx = "main" /\ stack = [s \in {"main", "fiber"} |-> <<>>]
    /\ main = "never"

-----------------------------------------------------------------------------
(* A word at a place: what the controller does *)

\* The 8259 at an even port: ICW1 if bit 4 is set. Nothing else is sent there
\* during the reset.
PicCommand(c, w) ==
    /\ 4 \in w
    /\ pic' = [pic EXCEPT ![c].imr = {}, ![c].irr = {}, ![c].next = "icw2"]

\* At the odd port: the initialisation words in their order, then the mask.
PicData(c, w) ==
    \/ /\ pic[c].next = "icw2"
       /\ pic' = [pic EXCEPT ![c].base = w \cap (3 .. 7), ![c].next = "icw3"]
    \/ /\ pic[c].next = "icw3"
       /\ pic' = [pic EXCEPT ![c].next = "icw4"]
    \/ /\ pic[c].next = "icw4"
       /\ pic' = [pic EXCEPT ![c].next = "ocw"]
    \/ /\ pic[c].next = "ocw"
       /\ pic' = [pic EXCEPT ![c].imr = w]

PicPlace(n, w) == IF n \in {32, 160} THEN PicCommand(n + 1, w) ELSE PicData(n, w)

\* The output of the master, to LINT0. The slave is its input 2.
PicUp(c) == pic[c].next = "ocw" /\ pic[c].irr \ pic[c].imr # {}
INTR == PicUp(33) \/ (pic[33].next = "ocw" /\ PicUp(161) /\ 2 \notin pic[33].imr)

Highest(S) == CHOOSE v \in {e[1] : e \in S} : \A e \in S : e[1] <= v
Dismissed(S) == {e \in S : e[1] # Highest(S)}

LapicPlace(n, w) ==
    \/ /\ n = Offset(Lapic!R_eoi)
       /\ isr' = Dismissed(isr)
       /\ UNCHANGED <<lvt, timer>>
    \/ /\ n = Offset(Lapic!R_init_count)
       /\ timer' = IF w = {} THEN "off" ELSE "counting"
       /\ UNCHANGED <<lvt, isr>>
    \/ /\ n \in Words
       /\ lvt' = [lvt EXCEPT ![n] = w]
       /\ UNCHANGED <<timer, isr>>

PitPlace(n) ==
    pit' = IF n = 3 THEN "low" ELSE IF pit = "low" THEN "high" ELSE "counting"

\* Every register the drivers write to without reading is a wr or has a shadow.
Device(o) == IF o.dev = "lapic" /\ Offset(o.reg) \in Words
             THEN lvt[Offset(o.reg)] ELSE {}
Shadow(o) == IF o.reg \in Shadowed THEN shadow[o.reg] ELSE {}
Written(o) == CASE o.op = "rawwr" -> o.word
                [] o.op = "wr" -> wr(o.reg, o.word, Device(o))
                [] o.op = "wrf" -> wrf(o.reg, o.field, o.word, Device(o), Shadow(o))

-----------------------------------------------------------------------------
(* hal_reset, a write at a time *)

Write ==
    /\ ~Running
    /\ LET o == hal_reset[at] IN
          /\ o.op \in {"wr", "rawwr", "wrf"}
          /\ \/ /\ o.dev = "pic"
                /\ PicPlace(Offset(o.reg), Written(o))
                /\ shadow' = IF o.op = "wrf"
                             THEN [shadow EXCEPT ![o.reg] = Written(o)]
                             ELSE shadow
                /\ UNCHANGED <<lvt, timer, isr, pit>>
             \/ /\ o.dev = "lapic"
                /\ LapicPlace(Offset(o.reg), Written(o))
                /\ UNCHANGED <<pic, shadow, pit>>
             \/ /\ o.dev = "pit"
                /\ PitPlace(Offset(o.reg))
                /\ UNCHANGED <<pic, shadow, lvt, timer, isr>>
    /\ at' = at + 1
    /\ UNCHANGED <<rte, irr, IFlag, idtr, ctx, stack, main>>

WriteRedirection ==
    /\ ~Running
    /\ LET o == hal_reset[at] IN
          /\ o.op = "redirect"
          /\ rte' = [rte EXCEPT ![o.pin] =
                        wr(o.reg, Redirect(o.pin, rd(o.reg, @, {})), @)]
    /\ at' = at + 1
    /\ UNCHANGED <<pics, lvt, timer, irr, isr, IFlag, idtr, ctx, stack, main>>

LoadTable ==
    /\ ~Running /\ hal_reset[at].op = "lidt"
    /\ idtr' = TRUE
    /\ at' = at + 1
    /\ UNCHANGED <<pics, apics, irr, isr, IFlag, ctx, stack, main>>

Sti ==
    /\ ~Running /\ hal_reset[at].op = "sti"
    /\ IFlag' = TRUE
    /\ at' = at + 1
    /\ UNCHANGED <<pics, apics, irr, isr, idtr, ctx, stack, main>>

-----------------------------------------------------------------------------
(* The inputs *)

\* An edge at a pin that both kinds of controller see. Pin 0 of the 8259 and
\* pin 2 of the I/O APIC are the 8254: silent while it is being programmed.
Edge(p) ==
    /\ p = 2 => pit = "counting"
    /\ LET line == IF p = 2 THEN 0 ELSE p
       IN  pic' = CASE line < 8 /\ pic[33].next = "ocw" ->
                           [pic EXCEPT ![33].irr = @ \cup {line}]
                    [] line \in 8 .. 15 /\ pic[161].next = "ocw" ->
                           [pic EXCEPT ![161].irr = @ \cup {line - 8}]
                    [] OTHER -> pic
    /\ irr' = IF Masked(rte[p]) THEN irr
              ELSE irr \cup {<<VectorOf(rte[p]), <<"pin", p>>>>}
    /\ UNCHANGED <<shadow, pit, apics, isr, core>>

Raise(reg, s) ==
    irr' = IF Masked(lvt[Offset(reg)]) THEN irr
           ELSE irr \cup {<<VectorOf(lvt[Offset(reg)]), From(s)>>}

Expire ==
    /\ timer = "counting"
    /\ timer' = "off"
    /\ Raise(Lapic!R_lvt_timer, "timer")
    /\ UNCHANGED <<pics, rte, lvt, isr, core>>

\* The sources of the local APIC that the kernel does not use: thermal stands
\* for the performance counters and the errors too. LINT0 is the output of the
\* 8259, which PicQuiet says never comes.
Sends(s) == IF s = "lint0" THEN INTR /\ ~Extint(lvt[Offset(Lapic!R_lvt_lint0)])
            ELSE Running

Unused ==
    \E s \in {"thermal", "lint0"} :
        /\ Sends(s)
        /\ Raise(IF s = "lint0" THEN Lapic!R_lvt_lint0 ELSE Lapic!R_lvt_thermal, s)
        /\ UNCHANGED <<pics, apics, isr, core>>

-----------------------------------------------------------------------------
(* The core: acceptance, the stubs, c_lapic and c_lapic_internal *)

Room == ctx = "fiber" => Len(stack["fiber"]) < MaxDepth

Enter(v, from) ==
    /\ stack' = [stack EXCEPT ![ctx] =
                    Append(@, [vector |-> v, from |-> from, phase |-> "entered"])]
    /\ IFlag' = FALSE

\* Slip: the gates leave interrupts on.
AcceptSlip ==
    /\ IFlag /\ idtr /\ Room /\ irr # {}
    /\ isr # {} => Highest(isr) \div 16 < Highest(irr) \div 16
    /\ LET taken == {e \in irr : e[1] = Highest(irr)} IN
          /\ irr' = irr \ taken
          /\ isr' = isr \cup taken
          /\ stack' = [stack EXCEPT ![ctx] =
                 Append(@, [vector |-> Highest(irr), from |-> {e[2] : e \in taken},
                            phase |-> "entered"])]
    /\ UNCHANGED <<pics, apics, at, IFlag, idtr, ctx, main>>

\* The request with the highest vector, if nothing as high is in service.
Accept ==
    /\ IFlag /\ idtr /\ Room /\ irr # {}
    /\ isr # {} => Highest(isr) \div 16 < Highest(irr) \div 16
    /\ LET taken == {e \in irr : e[1] = Highest(irr)} IN
          /\ irr' = irr \ taken
          /\ isr' = isr \cup taken
          /\ Enter(Highest(irr), {e[2] : e \in taken})
    /\ UNCHANGED <<pics, apics, at, idtr, ctx, main>>

\* The request went away before the core asked for its vector.
Spurious ==
    /\ IFlag /\ idtr /\ Room /\ irr = {}
    /\ 8 \in lvt[Offset(Lapic!R_svr)]
    /\ Enter(VectorOf(lvt[Offset(Lapic!R_svr)]), {From("spurious")})
    /\ UNCHANGED <<pics, apics, irr, isr, at, idtr, ctx, main>>

Internal(f) == HasGate(f.vector) /\ Gate(f.vector).class = "lapic_internal"

\* Slip: one kind of handler forgets its EOI.
AcknowledgeSlip ==
    /\ InPhase(ctx, {"entered"})
    /\ HasGate(Top(ctx).vector)
    /\ isr' = IF Gate(Top(ctx).vector).x = 2 THEN isr ELSE Dismissed(isr)
    /\ stack' = Advance(ctx, "acked")
    /\ UNCHANGED <<pics, apics, irr, at, IFlag, idtr, ctx, main>>

\* c_lapic and c_lapic_internal: an EOI on each of their paths.
Acknowledge ==
    /\ InPhase(ctx, {"entered"})
    /\ HasGate(Top(ctx).vector)
    /\ Gate(Top(ctx).vector).class \in {"lapic", "lapic_internal"}
    /\ isr' = Dismissed(isr)
    /\ stack' = Advance(ctx, "acked")
    /\ UNCHANGED <<pics, apics, irr, at, IFlag, idtr, ctx, main>>

\* Slip: the fiber's flag is not looked at.
PreemptsSlip(s) == FALSE

\* kmf_lapic_internal is _ring0_setflag, kff_lapic_internal is _ring0_preempt.
Preempts(s) == s = "fiber" /\ Internal(Top(s))

\* iret_toring0 gives the interrupted code its flags back.
Iret ==
    /\ \/ InPhase(ctx, {"acked"}) /\ ~Preempts(ctx)
       \/ InPhase(ctx, {"resumed"})
    /\ stack' = [stack EXCEPT ![ctx] = Pop(ctx)]
    /\ IFlag' = TRUE
    /\ UNCHANGED <<pics, apics, irr, isr, at, idtr, ctx, main>>

\* Slip: the sti is missing.
PreemptSlip ==
    /\ InPhase(ctx, {"acked"}) /\ Preempts(ctx)
    /\ stack' = Advance(ctx, "open")
    /\ UNCHANGED <<pics, apics, irr, isr, at, IFlag, idtr, ctx, main>>

\* The sti of _ring0_preempt, on the fiber's stack.
Preempt ==
    /\ InPhase(ctx, {"acked"}) /\ Preempts(ctx)
    /\ stack' = Advance(ctx, "open")
    /\ IFlag' = TRUE
    /\ UNCHANGED <<pics, apics, irr, isr, at, idtr, ctx, main>>

\* The rest of it: the fiber's context is saved, main_stack loaded.
SwitchToMain ==
    /\ InPhase(ctx, {"open"})
    /\ stack' = Advance(ctx, "saved")
    /\ ctx' = "main"
    /\ UNCHANGED <<pics, apics, irr, isr, at, IFlag, idtr, main>>

-----------------------------------------------------------------------------
(* The main stack and the fiber (module Preempt has them in full) *)

Arm ==
    /\ Running /\ ctx = "main" /\ stack["main"] = <<>>
    /\ main # "armed"
    /\ main' = "armed"
    /\ timer' = "counting"
    /\ UNCHANGED <<pics, rte, lvt, irr, isr, at, IFlag, idtr, ctx, stack>>

Dispatch ==
    /\ Running /\ ctx = "main" /\ stack["main"] = <<>>
    /\ main = "armed"
    /\ main' = "loop"
    /\ ctx' = "fiber"
    /\ stack' = IF InPhase("fiber", {"saved"})
                THEN Advance("fiber", "resumed") ELSE stack
    /\ UNCHANGED <<pics, apics, irr, isr, at, IFlag, idtr>>

Yield ==
    /\ ctx = "fiber" /\ stack["fiber"] = <<>>
    /\ ctx' = "main"
    /\ UNCHANGED <<pics, apics, irr, isr, at, IFlag, idtr, stack, main>>

-----------------------------------------------------------------------------
Reset == Write \/ WriteRedirection \/ LoadTable \/ Sti
Inputs == (\E p \in Pins : Edge(p)) \/ Expire \/ Unused
Handle == Acknowledge \/ Iret \/ Preempt \/ SwitchToMain

Next == Reset \/ Inputs \/ Accept \/ Spurious \/ Handle \/ Arm \/ Dispatch \/ Yield

\* An unmasked core takes a pending interrupt, a handler runs on, and
\* interrupts leave it time between them: a switch that they delay again and
\* again is made.
Spec == /\ Init /\ [][Next]_vars
        /\ WF_vars(Accept) /\ WF_vars(Handle) /\ SF_vars(SwitchToMain)

-----------------------------------------------------------------------------
(* Properties *)

\* The types, and how deep handlers nest: never on the main stack, whose
\* handlers keep the flag down to their iret.
TypeOK ==
    /\ at \in 1 .. Len(hal_reset) + 1
    /\ IFlag \in BOOLEAN /\ idtr \in BOOLEAN
    /\ shadow \in [Shadowed -> SUBSET (0 .. 7)]
    /\ pic \in [{33, 161} -> [imr : SUBSET (0 .. 7), irr : SUBSET (0 .. 7),
                              base : SUBSET (3 .. 7),
                              next : {"icw2", "icw3", "icw4", "ocw"}]]
    /\ rte \in [0 .. Nirq - 1 -> SUBSET (0 .. 63)]
    /\ lvt \in [Words -> SUBSET (0 .. 31)]
    /\ timer \in {"off", "counting"}
    /\ pit \in {"counting", "low", "high"}
    /\ irr \subseteq (0 .. 255) \X Sources
    /\ isr \subseteq (0 .. 255) \X Sources
    /\ ctx \in {"main", "fiber"}
    /\ stack \in [{"main", "fiber"} -> Seq(Frames)]
    /\ Len(stack["main"]) <= 1 /\ Len(stack["fiber"]) <= MaxDepth
    /\ main \in {"never", "loop", "armed"}

\* The 8259 are out of the way for good: LINT0 is left unmasked (the driver's
\* mask is not the hardware's), with the vector of a local source, so an input
\* of theirs would be taken for one and preempt a fiber.
PicQuiet == ~Extint(lvt[Offset(Lapic!R_lvt_lint0)]) => ~INTR

\* Every interrupt that was requested has a gate, and its handler is one that
\* acknowledges the local APIC: idt_reset sets some gates twice, the first
\* words of lapic_reset have vector 0, and the I/O APIC's vectors run on into
\* those of the local APIC.
Gated ==
    \A e \in irr \cup isr :
        HasGate(e[1]) /\ Gate(e[1]).class \in {"lapic", "lapic_internal"}

\* An EOI names no vector. What is in service is what the handler that has not
\* acknowledged yet was entered for, and nothing else, so its EOI dismisses
\* just that, and the one of a spurious interrupt dismisses nothing.
Owed == IF InPhase(ctx, {"entered"})
        THEN {Top(ctx).vector} \X (Top(ctx).from \ {From("spurious")})
        ELSE {}
OneEoi == isr = Owed

\* The core never runs with interrupts off but in hal_reset and in a handler
\* that is on its way to an iret or a sti: the switch out of a preempted fiber
\* does not leave the main stack deaf to the timer.
InterruptsOn == Running /\ ~IFlag => InPhase(ctx, {"entered", "acked"})

\* Before the timer is armed for the first time only pins and the local sources
\* that the kernel does not use (thermal) interrupt: the countdown of lapic_reset
\* is over before its interrupt is unmasked, and the 8259 are masked.
BootIsQuiet ==
    main = "never" => \A e \in irr \cup isr : e[2] \notin {From("timer"), From("lint0")}

\* "We don't want preemption on LAPIC(keyboard press etc)" (except.cc:356): no
\* device of an ISA bus takes the core from a fiber. (Pins 16 to 22 do: their
\* vectors are those of the local sources.)
NoDevicePreempts ==
    [][ctx = "fiber" /\ ctx' = "main" /\ stack["fiber"] # <<>>
          => \A p \in Pins : p < 16 => <<"pin", p>> \notin Top("fiber").from]_vars

\* A timer interrupt that finds a fiber running ends its turn.
TimerEndsTurn ==
    (ctx = "fiber" /\ \E e \in irr : e[2] = From("timer")) ~> (ctx = "main")
=============================================================================
