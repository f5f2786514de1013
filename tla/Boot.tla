--------------------------------- MODULE Boot ---------------------------------
(*
 * From the boot loader to the two loops: core 0 takes the free memory from the
 * multiboot map, sets itself up, hands pages, a copy of the boot code and the
 * channel to core 1 and starts it; core 1 sets itself up from what it finds.
 *
 * Addresses are numbers of memory units, modulo Wrap; a page is PAGE units and
 * is named by its index in the pools, and index 0 doubles as the null pointer.
 * Interrupts are those of module Interrupts and left out here. The CPU of
 * core 1, its firmware and the delivery of messages to it are external.
 *)
EXTENDS Bitpool, Registers, Sequences

CONSTANTS
    Maps,    \* memory maps: sequences of regions
    PAGE,    \* units of a page, 4 MB
    Wrap,    \* units that 32 bits can address
    End,     \* where the kernel's image ends
    Small    \* 4K pages of a page

ASSUME SizesAssumption ==
    /\ PAGE \in Nat \ {0} /\ Small \in 2 .. N * W
    /\ End \in 1 .. PAGE /\ Wrap \in Nat
    /\ End + PAGE <= Wrap /\ Wrap <= N * W * PAGE
ASSUME MapsAssumption ==
    \A m \in Maps : m \in Seq([addr : Nat, len : Nat, type : Nat])

\* What the proofs ask of a map, and the code does not test: no usable region
\* begins in the last page that 32 bits address (the firmware is there), and no
\* two of them overlap.
FirmwareOnTop ==
    \A m \in Maps : \A k \in DOMAIN m :
        m[k].type = 1 => (m[k].addr % Wrap) + PAGE <= Wrap
NoOverlap ==
    \A m \in Maps : \A j, k \in DOMAIN m :
        m[j].type = 1 /\ m[k].type = 1 /\ j # k =>
            \/ m[j].addr + m[j].len <= m[k].addr
            \/ m[k].addr + m[k].len <= m[j].addr

X == INSTANCE Xapic
Rtc == INSTANCE LpcCmos

Cores == {0, 1}
NONE  == 0

VARIABLES
    map, region,      \* the memory map and the entry of it that is next
    pc,               \* where each core is
    s_pooltmp,        \* its pool in the boot code's data
    pool4M, pool4K,   \* and those of its core_t (pool4K is pool_tmp2 until then:
                      \* the boot code's copy is dead once core_t has its own)
    sharedmem,        \* the page that both cores know
    p4k, pcore,       \* the page cut into small ones, and that of core_t
    handed,           \* pages given to core 1
    spsc_data,        \* each core's pointer to the channel with the other
    area,             \* rank, channel and shared page in the copied boot code
    patched,          \* times that copy has patched itself
    icr_lo, pending,  \* the last message to core 1, and whether it is under way
    cmos, warmreset,  \* the shutdown code, and whether 40:67 leads to the copy
    machine, ap       \* the other CPU: its kind and its state

pools == <<s_pooltmp, pool4M, pool4K, p4k, pcore>>
handoff == <<handed, spsc_data, area>>
messages == <<icr_lo, pending, cmos, warmreset, machine>>
vars == <<map, region, pc, pools, sharedmem, handoff, patched, messages, ap>>

Init ==
    /\ map \in Maps /\ region = 1
    /\ pc = [c \in Cores |-> IF c = 0 THEN "map" ELSE "off"]
    /\ s_pooltmp = [c \in Cores |-> bitpool]
    /\ pool4M = [c \in Cores |-> bitpool] /\ pool4K = [c \in Cores |-> bitpool]
    /\ sharedmem = NONE
    /\ p4k = [c \in Cores |-> NONE] /\ pcore = [c \in Cores |-> NONE]
    /\ handed = 0
    /\ spsc_data = [c \in Cores |-> [d \in Cores |-> NONE]]
    /\ area = [rank |-> 0, master |-> NONE, shared |-> NONE]
    /\ patched = 0
    /\ icr_lo = {} /\ pending = FALSE
    /\ cmos = {} /\ warmreset = FALSE
    /\ machine \in {"startup", "warm"} /\ ap = "asleep"

Step(c, at, next) == pc[c] = at /\ pc' = [pc EXCEPT ![c] = next]
Stop(c) == pc' = [pc EXCEPT ![c] = "died"]

-----------------------------------------------------------------------------
(* core_master_init *)

prevalign(x) == x \div PAGE
nextalign(x) == ((x + PAGE - 1) % Wrap) \div PAGE

\* Slip: the kernel's own memory is not left out, and the start is not rounded up.
PagesSlip(r) ==
    LET from == r.addr % Wrap
        to   == (from + r.len) % Wrap
    IN  IF r.type # 1 \/ to < End THEN {}
        ELSE prevalign(from) .. prevalign(to) - 1

\* Slip: the page that begins where the region ends is added too.
PagesInclusiveSlip(r) ==
    LET from == r.addr % Wrap
        to   == (from + r.len) % Wrap
        begin == IF from < End /\ End <= to THEN End ELSE from
    IN  IF r.type # 1 \/ to < End THEN {} ELSE nextalign(begin) .. prevalign(to)

\* The pages of a region behind the kernel that lie wholly in it.
PagesOf(r) ==
    LET from == r.addr % Wrap
        to   == (from + r.len) % Wrap
        begin == IF from < End /\ End <= to THEN End ELSE from
    IN  IF r.type # 1 \/ to < End THEN {}
        ELSE nextalign(begin) .. prevalign(to) - 1

\* Pages are added in their order, up to one that free() finds free already.
AddRegion ==
    /\ pc[0] = "map" /\ region <= Len(map)
    /\ LET S == PagesOf(map[region])
           bad == {p \in S : ~canfree(s_pooltmp[0], p)}
           good == IF bad = {} THEN S ELSE {p \in S : p < bitfind1(bad)}
       IN  /\ s_pooltmp' = [s_pooltmp EXCEPT ![0] = add_mem(@, good)]
           /\ IF bad = {} THEN UNCHANGED pc ELSE Stop(0)
    /\ region' = region + 1
    /\ UNCHANGED <<map, pool4M, pool4K, p4k, pcore, sharedmem, handoff, patched,
                   messages, ap>>

CheckMemory ==
    /\ region > Len(map)
    /\ \/ /\ remaining(s_pooltmp[0]) > 10
          /\ Step(0, "map", "mem")
          /\ sharedmem' = index(s_pooltmp[0])
          /\ s_pooltmp' = [s_pooltmp EXCEPT ![0] = alloc(@)]
       \/ /\ remaining(s_pooltmp[0]) <= 10
          /\ pc[0] = "map" /\ Stop(0)
          /\ UNCHANGED <<sharedmem, s_pooltmp>>
    /\ UNCHANGED <<map, region, pool4M, pool4K, p4k, pcore, handoff, patched,
                   messages, ap>>

-----------------------------------------------------------------------------
(* core_mem_init, of each core *)

\* A page is cut into small ones; the first of them is the stack.
InitPages(c) ==
    /\ \/ /\ canalloc(s_pooltmp[c])
          /\ Step(c, "mem", "core")
          /\ p4k' = [p4k EXCEPT ![c] = index(s_pooltmp[c])]
          /\ s_pooltmp' = [s_pooltmp EXCEPT ![c] = alloc(@)]
          /\ pool4K' = [pool4K EXCEPT ![c] = alloc(add_mem(bitpool, 0 .. Small - 1))]
       \/ /\ ~canalloc(s_pooltmp[c])
          /\ pc[c] = "mem" /\ Stop(c)
          /\ UNCHANGED <<p4k, s_pooltmp, pool4K>>
    /\ UNCHANGED <<map, region, pool4M, pcore, sharedmem, handoff, patched,
                   messages, ap>>

\* Slip: the pool is copied before the page for core_t is taken from it.
InitCoreSlip(c) ==
    /\ canalloc(s_pooltmp[c])
    /\ Step(c, "core", IF c = 0 THEN "copy" ELSE "loop")
    /\ pcore' = [pcore EXCEPT ![c] = index(s_pooltmp[c])]
    /\ s_pooltmp' = [s_pooltmp EXCEPT ![c] = alloc(@)]
    /\ pool4M' = [pool4M EXCEPT ![c] = s_pooltmp[c]]
    /\ pool4K' = [pool4K EXCEPT ![c] = alloc(@)]
    /\ spsc_data' = [spsc_data EXCEPT ![c][0] = IF c = 0 THEN NONE ELSE area.master]
    /\ UNCHANGED <<map, region, p4k, sharedmem, handed, area, patched, messages, ap>>

\* Its core_t, which copies the pool after the page for it is taken, takes a
\* page directory from the small ones, and knows the channel it was given.
InitCore(c) ==
    /\ \/ /\ canalloc(s_pooltmp[c])
          /\ Step(c, "core", IF c = 0 THEN "copy" ELSE "loop")
          /\ pcore' = [pcore EXCEPT ![c] = index(s_pooltmp[c])]
          /\ s_pooltmp' = [s_pooltmp EXCEPT ![c] = alloc(@)]
          /\ pool4M' = [pool4M EXCEPT ![c] = s_pooltmp'[c]]
          /\ pool4K' = [pool4K EXCEPT ![c] = alloc(@)]
          /\ spsc_data' = [spsc_data EXCEPT ![c][0] =
                              IF c = 0 THEN NONE ELSE area.master]
       \/ /\ ~canalloc(s_pooltmp[c])
          /\ pc[c] = "core" /\ Stop(c)
          /\ UNCHANGED <<pcore, s_pooltmp, pool4M, pool4K, spsc_data>>
    /\ UNCHANGED <<map, region, p4k, sharedmem, handed, area, patched, messages, ap>>

-----------------------------------------------------------------------------
(* remotecore_reset *)

\* The boot code is copied below 1 MB; a pool is constructed in its data.
CopyBootCode ==
    /\ Step(0, "copy", "give")
    /\ s_pooltmp' = [s_pooltmp EXCEPT ![1] = bitpool]
    /\ patched' = 0
    /\ UNCHANGED <<map, region, pool4M, pool4K, p4k, pcore, sharedmem, handoff,
                   messages, ap>>

\* Slip: one page more.
GiveElevenSlip ==
    /\ pc[0] = "give" /\ handed <= 10
    /\ canalloc(pool4M[0])
    /\ pool4M' = [pool4M EXCEPT ![0] = alloc(@)]
    /\ s_pooltmp' = [s_pooltmp EXCEPT ![1] = add_mem(@, {index(pool4M[0])})]
    /\ handed' = handed + 1
    /\ UNCHANGED <<map, region, pc, pool4K, p4k, pcore, sharedmem, spsc_data, area,
                   patched, messages, ap>>

\* Slip: the pages are taken from the pool of the boot code, which core_t copied.
GiveStaleSlip ==
    /\ pc[0] = "give" /\ handed < 10
    /\ canalloc(s_pooltmp[0])
    /\ s_pooltmp' = [c \in Cores |-> IF c = 0 THEN alloc(s_pooltmp[0])
                                    ELSE add_mem(s_pooltmp[1], {index(s_pooltmp[0])})]
    /\ handed' = handed + 1
    /\ UNCHANGED <<map, region, pc, pool4M, pool4K, p4k, pcore, sharedmem, spsc_data,
                   area, patched, messages, ap>>

\* Ten pages, one after the other.
GivePage ==
    /\ pc[0] = "give" /\ handed < 10
    /\ \/ /\ canalloc(pool4M[0])
          /\ pool4M' = [pool4M EXCEPT ![0] = alloc(@)]
          /\ s_pooltmp' = [s_pooltmp EXCEPT ![1] = add_mem(@, {index(pool4M[0])})]
          /\ handed' = handed + 1
          /\ UNCHANGED pc
       \/ /\ ~canalloc(pool4M[0])
          /\ Stop(0)
          /\ UNCHANGED <<pool4M, s_pooltmp, handed>>
    /\ UNCHANGED <<map, region, pool4K, p4k, pcore, sharedmem, spsc_data, area,
                   patched, messages, ap>>

\* Slip: the three words are written before the channel is there.
PublishSlip ==
    /\ handed = 10 /\ canalloc(pool4M[0])
    /\ Step(0, "give", "warm1")
    /\ pool4M' = [pool4M EXCEPT ![0] = alloc(@)]
    /\ spsc_data' = [spsc_data EXCEPT ![0][1] = index(pool4M[0])]
    /\ area' = [rank |-> 1, master |-> spsc_data[0][1], shared |-> sharedmem]
    /\ UNCHANGED <<map, region, s_pooltmp, pool4K, p4k, pcore, sharedmem, handed,
                   patched, messages, ap>>

\* The channel, and the three words behind the pool.
Publish ==
    /\ pc[0] = "give" /\ handed = 10
    /\ \/ /\ canalloc(pool4M[0])
          /\ Step(0, "give", "warm1")
          /\ pool4M' = [pool4M EXCEPT ![0] = alloc(@)]
          /\ spsc_data' = [spsc_data EXCEPT ![0][1] = index(pool4M[0])]
          /\ area' = [rank |-> 1, master |-> spsc_data'[0][1], shared |-> sharedmem]
       \/ /\ ~canalloc(pool4M[0])
          /\ Stop(0)
          /\ UNCHANGED <<pool4M, spsc_data, area>>
    /\ UNCHANGED <<map, region, s_pooltmp, pool4K, p4k, pcore, sharedmem, handed,
                   patched, messages, ap>>

\* cmos.shutdown_wr and cmos.warmreset_wr.
WarmReset ==
    /\ Step(0, "warm1", "init") \/ Step(0, "warm2", "deinit")
    /\ cmos' = wr(Rtc!R_standard[15], Word(10), {})
    /\ warmreset' = TRUE
    /\ UNCHANGED <<map, region, pools, sharedmem, handoff, patched, icr_lo,
                   pending, machine, ap>>

\* icr_rawwr: the low word sends the message. One that is still under way is
\* replaced, or it goes first and the new one is lost.
IcrWord(vector, dlv_mode, level, trig_mode) ==
    Shifted(X!T_icr_lo, "vector", Word(vector))
    \cup Shifted(X!T_icr_lo, "dlv_mode", Word(dlv_mode))
    \cup Shifted(X!T_icr_lo, "level", Word(level))
    \cup Shifted(X!T_icr_lo, "trig_mode", Word(trig_mode))

icr_rawwr(word) ==
    /\ pending' = TRUE
    /\ icr_lo' = word \/ (pending /\ icr_lo' = icr_lo)
    /\ UNCHANGED <<map, region, pools, sharedmem, handoff, patched, cmos,
                   warmreset, machine, ap>>

Mode == X!Num_vdm
BootPage == 7   \* PHYS_BOOTADDR is 0x7000

icr_init(is_set) ==
    icr_rawwr(IcrWord(0, Mode.init,
                      IF is_set THEN X!Num_int_level.lvl_set
                      ELSE X!Num_int_level.lvl_clr, X!Num_trigm.level))
icr_startup ==
    icr_rawwr(IcrWord(BootPage, Mode.startup, X!Num_int_level.lvl_set,
                      X!Num_trigm.edge))

SendInit ==
    \/ Step(0, "init", "poll1") /\ icr_init(TRUE)
    \/ Step(0, "deinit", "poll2") /\ icr_init(FALSE)

\* Slip: the message may still be under way.
PollSlip ==
    /\ Step(0, "poll1", "warm2") \/ Step(0, "poll2", "startup1")
    /\ UNCHANGED <<map, region, pools, sharedmem, handoff, patched, messages, ap>>

Poll ==
    /\ ~pending    \* poll_wait
    /\ Step(0, "poll1", "warm2") \/ Step(0, "poll2", "startup1")
    /\ UNCHANGED <<map, region, pools, sharedmem, handoff, patched, messages, ap>>

SendStartup ==
    /\ Step(0, "startup1", "startup2") \/ Step(0, "startup2", "loop")
    /\ icr_startup

-----------------------------------------------------------------------------
(* The other CPU *)

Sent(f, n) == extract(X!T_icr_lo, f, icr_lo) = Word(n)
Starts(next) == ap' = next /\ pc' = [pc EXCEPT ![1] = "patch"]

\* INIT resets it; then a CPU with an integrated APIC waits for a startup
\* message, an older one runs its firmware when the level goes away. A startup
\* message that is not waited for is ignored.
Deliver ==
    /\ pending /\ pending' = FALSE
    /\ \/ /\ Sent("dlv_mode", Mode.init) /\ Sent("level", 1)
          /\ ap' = IF machine = "startup" THEN "waiting" ELSE "held"
          /\ pc' = [pc EXCEPT ![1] = "off"]
       \/ /\ Sent("dlv_mode", Mode.init) /\ Sent("level", 0)
          /\ ap' = IF ap = "held" THEN "firmware" ELSE ap
          /\ UNCHANGED pc
       \/ /\ Sent("dlv_mode", Mode.startup) /\ ap = "waiting"
          /\ Starts(IF Sent("vector", BootPage) THEN "running" ELSE "lost")
       \/ /\ Sent("dlv_mode", Mode.startup) /\ ap # "waiting"
          /\ UNCHANGED <<ap, pc>>
    /\ UNCHANGED <<map, region, pools, sharedmem, handoff, patched, icr_lo, cmos,
                   warmreset, machine>>

\* The firmware of the older one looks why it was reset.
Firmware ==
    /\ ap = "firmware"
    /\ IF cmos = Word(10) /\ warmreset THEN Starts("running")
       ELSE ap' = "lost" /\ UNCHANGED pc
    /\ UNCHANGED <<map, region, pools, sharedmem, handoff, patched, messages>>

\* boot16: the copied code patches three addresses in itself, by adding.
Patch ==
    /\ Step(1, "patch", "mem")
    /\ patched' = patched + 1
    /\ UNCHANGED <<map, region, pools, sharedmem, handoff, messages, ap>>

-----------------------------------------------------------------------------
Core0 ==
    \/ AddRegion \/ CheckMemory \/ InitPages(0) \/ InitCore(0) \/ CopyBootCode
    \/ GivePage \/ Publish \/ WarmReset \/ SendInit \/ Poll \/ SendStartup
Core1 == Patch \/ InitPages(1) \/ InitCore(1)
Machine == Deliver \/ Firmware

Next == Core0 \/ Core1 \/ Machine

Spec == /\ Init /\ [][Next]_vars
        /\ WF_vars(Core0) /\ WF_vars(Core1) /\ WF_vars(Machine)

-----------------------------------------------------------------------------
(* Properties *)

\* The types; the copied boot code is started and patches itself once.
TypeOK ==
    /\ region \in 1 .. Len(map) + 1
    /\ pc \in [Cores -> {"off", "map", "mem", "core", "copy", "give", "warm1",
                         "init", "poll1", "warm2", "deinit", "poll2", "startup1",
                         "startup2", "patch", "loop", "died"}]
    /\ s_pooltmp \in [Cores -> Pools] /\ pool4M \in [Cores -> Pools]
    /\ pool4K \in [Cores -> Pools]
    /\ sharedmem \in Indices /\ p4k \in [Cores -> Indices]
    /\ pcore \in [Cores -> Indices]
    /\ handed \in 0 .. 10
    /\ spsc_data \in [Cores -> [Cores -> Indices]]
    /\ area \in [rank : Cores, master : Indices, shared : Indices]
    /\ patched \in {0, 1}
    /\ icr_lo \subseteq 0 .. 31 /\ pending \in BOOLEAN
    /\ cmos \subseteq 0 .. 7 /\ warmreset \in BOOLEAN
    /\ machine \in {"startup", "warm"}
    /\ ap \in {"asleep", "held", "waiting", "firmware", "running", "lost"}

\* The pool a core allocates from: that of its core_t once it has one.
Pool(c) == IF pcore[c] = NONE THEN s_pooltmp[c] ELSE pool4M[c]

Owners(p) ==
    (IF p \in Pages(Pool(0)) THEN {"pool of core 0"} ELSE {})
    \cup (IF p \in Pages(Pool(1)) THEN {"pool of core 1"} ELSE {})
    \cup (IF p # NONE /\ p \in {p4k[0], pcore[0]} THEN {"core 0"} ELSE {})
    \cup (IF p # NONE /\ p \in {p4k[1], pcore[1]} THEN {"core 1"} ELSE {})
    \cup (IF p # NONE /\ p \in {sharedmem, spsc_data[0][1]} THEN {"both"} ELSE {})

\* No page has two owners, although the pools are copied, and copied back, as
\* the boot goes on; nor two uses by one owner.
NoPageTwice ==
    /\ \A p \in Indices : Cardinality(Owners(p)) <= 1
    /\ \A c \in Cores : p4k[c] = pcore[c] => p4k[c] = NONE
    /\ sharedmem = spsc_data[0][1] => sharedmem = NONE

\* Every page of a pool is memory that the map calls usable, behind the kernel.
\* It does not hold by the arithmetic: a region above 4 GB is cut to 32 bits
\* (main.cc:123), and then free() stops the boot at its first page.
Usable(p) ==
    /\ p * PAGE >= End
    /\ \E k \in DOMAIN map : /\ map[k].type = 1
                             /\ map[k].addr <= p * PAGE
                             /\ (p + 1) * PAGE <= map[k].addr + map[k].len
PoolsAreUsable ==
    \A c \in Cores : \A p \in Pages(Pool(c)) : Usable(p)

\* canalloc and alloc look at level0 only.
SummariesRight ==
    \A c \in Cores : Summary(s_pooltmp[c]) /\ Summary(pool4M[c]) /\ Summary(pool4K[c])

\* The only reasons to stop: memory for fewer than the 14 pages that are taken
\* in all (the check asks for 11), or a region above what 32 bits address.
Found == UNION {PagesOf(map[k]) : k \in DOMAIN map}
StopsForMemory ==
    \A c \in Cores :
        pc[c] = "died" => \/ Cardinality(Found) < 14
                          \/ \E k \in DOMAIN map : map[k].addr + map[k].len > Wrap

\* Core 1 runs only on a complete hand-off, however it was started.
StartsComplete ==
    pc[1] # "off" =>
        /\ ap = "running"
        /\ handed = 10
        /\ area = [rank |-> 1, master |-> spsc_data[0][1], shared |-> sharedmem]
        /\ NONE \notin {area.master, area.shared}
        /\ pc[1] = "loop" => spsc_data[1][0] = spsc_data[0][1]

\* Pages change hands as PageOwners promises.
Ownership == INSTANCE PageOwners
             WITH Page <- Indices, owners <- [p \in Indices |-> Owners(p)]
Owned == Ownership!Spec

\* With 14 pages, all of them addressable, both cores reach their loops and stay
\* there, however the messages arrive and whatever starts core 1.
Enough == /\ Cardinality(Found) >= 14
          /\ \A k \in DOMAIN map : map[k].addr + map[k].len <= Wrap
BootsUp == Enough => <>[](\A c \in Cores : pc[c] = "loop")
================================================================================
