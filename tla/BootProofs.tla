------------------------------ MODULE BootProofs ------------------------------
(*
 * For every memory map, page size and pool size, and however the messages to
 * core 1 arrive: the pools of both cores stay the sets of pages that module
 * BitpoolProofs knows, so that canalloc, the only test made before a page is
 * taken, never lies. And for every map without usable memory in the last page
 * of the address space (FirmwareOnTop): no page has two owners, and the owners
 * change as PageOwners says; core 1 starts only on a complete hand-off; and
 * neither core stops while there is memory.
 *
 * The invariant is BootInv, a conjunction of what each step needs to know.
 *)
EXTENDS Boot, BitpoolProofs, RegistersProofs

Places == {"off", "map", "mem", "core", "copy", "give", "warm1", "init", "poll1",
           "warm2", "deinit", "poll2", "startup1", "startup2", "patch", "loop",
           "died"}

\* InitCore takes a small page without a test: InitPages has left it one.
Inv ==
    /\ map \in Maps /\ region \in 1 .. Len(map) + 1
    /\ pc \in [Cores -> Places]
    /\ s_pooltmp \in [Cores -> Pools] /\ pool4M \in [Cores -> Pools]
    /\ pool4K \in [Cores -> Pools]
    /\ SummariesRight
    /\ \A c \in Cores : pc[c] = "core" => canalloc(pool4K[c])

\* A pool that its operations can be used on.
Good(p) == p \in Pools /\ Summary(p)

LEMMA GoodPools ==
    /\ Good(bitpool)
    /\ \A p : Good(p) /\ canalloc(p) => Good(alloc(p))
    /\ \A p : \A S \in SUBSET Indices : Good(p) => Good(add_mem(p, S))
BY EmptyPool, AllocTakesTheLowest, AddMemAdds DEF Good

\* Most steps leave the pools alone and go anywhere but to "core".
LEMMA PoolsUntouched ==
    ASSUME Inv, UNCHANGED <<map, region, s_pooltmp, pool4M, pool4K>>,
           pc' \in [Cores -> Places],
           \A c \in Cores : pc'[c] = "core" => pc[c] = "core"
    PROVE  Inv'
BY DEF Inv, SummariesRight

-----------------------------------------------------------------------------
(* The steps that use the pools *)

LEMMA Quotient ==
    ASSUME NEW n \in Nat, NEW d \in Nat \ {0}
    PROVE  n \div d \in Nat
<1> DEFINE q == n \div d
<1>1. q \in Int /\ n = d * q + (n % d) /\ (n % d) \in 0 .. d - 1
  OBVIOUS
<1>2. CASE q <= -1
  <2>1. d * q <= -d
    BY <1>1, <1>2
  <2>. QED
    BY <1>1, <2>1
<1>. QED
  BY <1>1, <1>2

\* The pages of a region are numbered from 0, whatever its addresses.
LEMMA PagesAreNumbers ==
    ASSUME NEW r \in [addr : Nat, len : Nat, type : Nat]
    PROVE  PagesOf(r) \subseteq Nat
<1> USE SizesAssumption
<1>1. \A x \in Nat : x % Wrap \in Nat
  OBVIOUS
<1>2. \A x \in Nat : nextalign(x) \in Nat
  <2>1. \A x \in Nat : (x + PAGE - 1) \in Nat
    OBVIOUS
  <2>. QED
    BY <1>1, <2>1, Quotient DEF nextalign
<1> DEFINE from == r.addr % Wrap
           to == (from + r.len) % Wrap
           begin == IF from < End /\ End <= to THEN End ELSE from
<1>3. begin \in Nat
  BY <1>1
<1>4. PagesOf(r) \subseteq nextalign(begin) .. prevalign(to) - 1
  BY DEF PagesOf
<1>. QED
  BY <1>2, <1>3, <1>4

LEMMA AddRegionKeeps == Inv /\ AddRegion => Inv'
<1> SUFFICES ASSUME Inv, AddRegion PROVE Inv'
  OBVIOUS
<1> DEFINE S == PagesOf(map[region])
           bad == {p \in S : ~canfree(s_pooltmp[0], p)}
           good == IF bad = {} THEN S ELSE {p \in S : p < bitfind1(bad)}
<1>1. /\ pc[0] = "map"
      /\ s_pooltmp' = [s_pooltmp EXCEPT ![0] = add_mem(@, good)]
      /\ pc' \in {pc, [pc EXCEPT ![0] = "died"]}
      /\ map' = map /\ region' = region + 1 /\ region \in 1 .. Len(map)
      /\ UNCHANGED <<pool4M, pool4K>>
  BY DEF AddRegion, Stop, Inv
<1>0. Len(map) \in Nat
  BY MapsAssumption DEF Inv
<1>2. good \subseteq Indices
  <2>1. CASE bad = {}
    BY <2>1 DEF canfree
  <2>2. CASE bad # {}
    <3>1. bad \in SUBSET Nat
      <4>1. map[region] \in [addr : Nat, len : Nat, type : Nat]
        <5>1. map \in Seq([addr : Nat, len : Nat, type : Nat])
          BY MapsAssumption DEF Inv
        <5>2. \A R : \A m \in Seq(R) : \A k \in 1 .. Len(m) : m[k] \in R
          OBVIOUS
        <5>. QED
          BY <1>1, <5>1, <5>2
      <4>2. S \subseteq Nat
        BY <4>1, PagesAreNumbers
      <4>. QED
        BY <4>2
    <3>2. \A c \in bad : bitfind1(bad) <= c
      BY <2>2, <3>1, LowestBit
    <3>3. \A p \in good : p \notin bad
      BY <2>2, <3>1, <3>2, LowestBit
    <3>. QED
      BY <2>2, <3>3 DEF canfree
  <2>. QED
    BY <2>1, <2>2
<1> HIDE DEF good
<1>3. Good(add_mem(s_pooltmp[0], good))
  BY <1>2, GoodPools DEF Inv, SummariesRight, Good, Cores
<1>4. /\ s_pooltmp' \in [Cores -> Pools] /\ Good(s_pooltmp'[0])
      /\ s_pooltmp'[1] = s_pooltmp[1]
  BY <1>1, <1>3 DEF Cores, Good, Inv
<1>5. /\ pc' \in [Cores -> Places]
      /\ \A c \in Cores : pc'[c] = "core" => pc[c] = "core"
  BY <1>1 DEF Cores, Places, Inv
<1>. QED
  BY <1>0, <1>1, <1>4, <1>5 DEF Inv, SummariesRight, Good, Cores

LEMMA CheckMemoryKeeps == Inv /\ CheckMemory => Inv'
<1> SUFFICES ASSUME Inv, CheckMemory PROVE Inv'
  OBVIOUS
<1>1. Good(s_pooltmp[0])
  BY DEF Inv, SummariesRight, Good, Cores
<1>2. /\ pc' \in [Cores -> Places]
      /\ \A c \in Cores : pc'[c] = "core" => pc[c] = "core"
      /\ UNCHANGED <<map, region, pool4M, pool4K>>
  BY DEF CheckMemory, Step, Stop, Inv, Places, Cores
<1>3. CASE UNCHANGED s_pooltmp
  BY <1>2, <1>3, PoolsUntouched
<1>4. CASE /\ remaining(s_pooltmp[0]) > 10
           /\ s_pooltmp' = [s_pooltmp EXCEPT ![0] = alloc(@)]
  <2>1. canalloc(s_pooltmp[0])
    <3>1. Pages(s_pooltmp[0]) # {}
      BY <1>4, FS_EmptySet DEF remaining
    <3>. QED
      BY <1>1, <3>1, CanallocIsNotEmpty DEF Good
  <2>2. Good(alloc(s_pooltmp[0]))
    BY <1>1, <2>1, GoodPools
  <2>. QED
    BY <1>2, <1>4, <2>2 DEF Inv, SummariesRight, Good, Cores
<1>. QED
  BY <1>3, <1>4 DEF CheckMemory

\* A page in small pages: after the stack is taken there is one left.
LEMMA SmallPages ==
    /\ Good(alloc(add_mem(bitpool, 0 .. Small - 1)))
    /\ canalloc(alloc(add_mem(bitpool, 0 .. Small - 1)))
<1> DEFINE cut == add_mem(bitpool, 0 .. Small - 1)
<1>1. 0 .. Small - 1 \subseteq Indices
  <2>1. Small \in Nat /\ Small <= N * W /\ N * W \in Nat
    BY SizesAssumption, WordsAssumption
  <2>. QED
    BY <2>1 DEF Indices
<1>2. cut \in Pools /\ Summary(cut) /\ Pages(cut) = 0 .. Small - 1
  BY <1>1, EmptyPool, AddMemAdds
<1>3. 0 \in Pages(cut) /\ 1 \in Pages(cut)
  BY <1>2, SizesAssumption
<1> HIDE DEF cut
<1>4. canalloc(cut)
  BY <1>2, <1>3, CanallocIsNotEmpty
<1>5. /\ alloc(cut) \in Pools /\ Summary(alloc(cut))
      /\ Pages(alloc(cut)) = Pages(cut) \ {index(cut)}
  BY <1>2, <1>4, AllocTakesTheLowest
<1>6. Pages(alloc(cut)) # {}
  BY <1>3, <1>5
<1>. QED
  BY <1>5, <1>6, CanallocIsNotEmpty DEF Good, cut

LEMMA InitPagesKeeps == \A c \in Cores : Inv /\ InitPages(c) => Inv'
<1> SUFFICES ASSUME Inv, NEW c \in Cores, InitPages(c) PROVE Inv'
  OBVIOUS
<1>1. /\ UNCHANGED <<map, region, pool4M>>
      /\ \/ /\ canalloc(s_pooltmp[c])
            /\ pc' = [pc EXCEPT ![c] = "core"]
            /\ s_pooltmp' = [s_pooltmp EXCEPT ![c] = alloc(@)]
            /\ pool4K' = [pool4K EXCEPT
                             ![c] = alloc(add_mem(bitpool, 0 .. Small - 1))]
         \/ pc' = [pc EXCEPT ![c] = "died"] /\ UNCHANGED <<s_pooltmp, pool4K>>
  BY DEF InitPages, Step, Stop
<1>2. CASE pc' = [pc EXCEPT ![c] = "died"] /\ UNCHANGED <<s_pooltmp, pool4K>>
  <2>1. /\ pc' \in [Cores -> Places]
        /\ \A d \in Cores : pc'[d] = "core" => pc[d] = "core"
    BY <1>2 DEF Inv, Places
  <2>. QED
    BY <1>1, <1>2, <2>1, PoolsUntouched
<1>3. CASE /\ canalloc(s_pooltmp[c])
           /\ pc' = [pc EXCEPT ![c] = "core"]
           /\ s_pooltmp' = [s_pooltmp EXCEPT ![c] = alloc(@)]
           /\ pool4K' = [pool4K EXCEPT
                            ![c] = alloc(add_mem(bitpool, 0 .. Small - 1))]
  <2>1. Good(alloc(s_pooltmp[c]))
    BY <1>3, GoodPools DEF Inv, SummariesRight, Good
  <2>2. pc' \in [Cores -> Places] /\ \A d \in Cores \ {c} : pc'[d] = pc[d]
    BY <1>3 DEF Inv, Places
  <2> DEFINE small == alloc(add_mem(bitpool, 0 .. Small - 1))
  <2>3. Good(small) /\ canalloc(small) /\ pool4K' = [pool4K EXCEPT ![c] = small]
    BY <1>3, SmallPages
  <2> HIDE DEF small
  <2>4. /\ s_pooltmp' \in [Cores -> Pools] /\ pool4K' \in [Cores -> Pools]
        /\ \A d \in Cores : Summary(s_pooltmp'[d]) /\ Summary(pool4K'[d])
        /\ \A d \in Cores : pc'[d] = "core" => canalloc(pool4K'[d])
    BY <1>3, <2>1, <2>2, <2>3 DEF Inv, SummariesRight, Good
  <2>. QED
    BY <1>1, <2>2, <2>4 DEF Inv, SummariesRight
<1>. QED
  BY <1>1, <1>2, <1>3

LEMMA InitCoreKeeps == \A c \in Cores : Inv /\ InitCore(c) => Inv'
<1> SUFFICES ASSUME Inv, NEW c \in Cores, InitCore(c) PROVE Inv'
  OBVIOUS
<1>1. CASE pc' = [pc EXCEPT ![c] = "died"]
           /\ UNCHANGED <<map, region, s_pooltmp, pool4M, pool4K>>
  <2>1. /\ pc' \in [Cores -> Places]
        /\ \A d \in Cores : pc'[d] = "core" => pc[d] = "core"
    BY <1>1 DEF Inv, Places
  <2>. QED
    BY <1>1, <2>1, PoolsUntouched
<1>2. CASE /\ canalloc(s_pooltmp[c]) /\ pc[c] = "core"
           /\ pc' = [pc EXCEPT ![c] = IF c = 0 THEN "copy" ELSE "loop"]
           /\ s_pooltmp' = [s_pooltmp EXCEPT ![c] = alloc(@)]
           /\ pool4M' = [pool4M EXCEPT ![c] = s_pooltmp'[c]]
           /\ pool4K' = [pool4K EXCEPT ![c] = alloc(@)]
           /\ UNCHANGED <<map, region>>
  <2>1. Good(alloc(s_pooltmp[c])) /\ Good(alloc(pool4K[c]))
    BY <1>2, GoodPools DEF Inv, SummariesRight, Good
  <2>2. pc' \in [Cores -> Places] /\ \A d \in Cores \ {c} : pc'[d] = pc[d]
    BY <1>2 DEF Inv, Places
  <2>3. pc'[c] # "core"
    BY <1>2 DEF Inv
  <2>4. /\ s_pooltmp' \in [Cores -> Pools] /\ pool4K' \in [Cores -> Pools]
        /\ pool4M' \in [Cores -> Pools]
    BY <1>2, <2>1 DEF Inv, Good
  <2>5. \A d \in Cores : /\ Summary(s_pooltmp'[d]) /\ Summary(pool4K'[d])
                          /\ Summary(pool4M'[d])
    BY <1>2, <2>1 DEF Inv, SummariesRight, Good
  <2>6. \A d \in Cores : pc'[d] = "core" => canalloc(pool4K'[d])
    BY <1>2, <2>2, <2>3 DEF Inv
  <2>. QED
    BY <1>2, <2>2, <2>4, <2>5, <2>6 DEF Inv, SummariesRight
<1>. QED
  BY <1>1, <1>2 DEF InitCore, Step, Stop

\* GivePage and Publish take a page of core 0's; the first is for core 1's pool.
LEMMA GivePageKeeps == Inv /\ GivePage => Inv'
<1> SUFFICES ASSUME Inv, GivePage PROVE Inv'
  OBVIOUS
<1>1. CASE /\ canalloc(pool4M[0])
           /\ pool4M' = [pool4M EXCEPT ![0] = alloc(@)]
           /\ s_pooltmp' = [s_pooltmp EXCEPT ![1] =
                                add_mem(@, {index(pool4M[0])})]
           /\ UNCHANGED <<map, region, pc, pool4K>>
  <2>1. /\ Good(pool4M[0]) /\ Good(s_pooltmp[1])
    BY DEF Inv, SummariesRight, Good, Cores
  <2>2. index(pool4M[0]) \in Indices
    BY <1>1, <2>1, AllocTakesTheLowest DEF Good, Pages
  <2> DEFINE given == add_mem(s_pooltmp[1], {index(pool4M[0])})
  <2>3. Good(alloc(pool4M[0])) /\ Good(given)
    BY <1>1, <2>1, <2>2, GoodPools
  <2>4. s_pooltmp' = [s_pooltmp EXCEPT ![1] = given]
    BY <1>1
  <2> HIDE DEF given
  <2>. QED
    BY <1>1, <2>3, <2>4 DEF Inv, SummariesRight, Good, Cores
<1>2. CASE pc' = [pc EXCEPT ![0] = "died"]
           /\ UNCHANGED <<map, region, s_pooltmp, pool4M, pool4K>>
  <2>1. /\ pc' \in [Cores -> Places]
        /\ \A d \in Cores : pc'[d] = "core" => pc[d] = "core"
    BY <1>2 DEF Inv, Places, Cores
  <2>. QED
    BY <1>2, <2>1, PoolsUntouched
<1>. QED
  BY <1>1, <1>2 DEF GivePage, Stop

LEMMA PublishKeeps == Inv /\ Publish => Inv'
<1> SUFFICES ASSUME Inv, Publish PROVE Inv'
  OBVIOUS
<1>1. /\ pc' \in [Cores -> Places]
      /\ \A d \in Cores : pc'[d] = "core" => pc[d] = "core"
      /\ UNCHANGED <<map, region, s_pooltmp, pool4K>>
  BY DEF Publish, Step, Stop, Inv, Places, Cores
<1>2. CASE UNCHANGED pool4M
  BY <1>1, <1>2, PoolsUntouched
<1>3. CASE canalloc(pool4M[0]) /\ pool4M' = [pool4M EXCEPT ![0] = alloc(@)]
  <2>1. Good(alloc(pool4M[0]))
    BY <1>3, GoodPools DEF Inv, SummariesRight, Good, Cores
  <2>. QED
    BY <1>1, <1>3, <2>1 DEF Inv, SummariesRight, Good, Cores
<1>. QED
  BY <1>2, <1>3 DEF Publish

LEMMA CopyBootCodeKeeps == Inv /\ CopyBootCode => Inv'
<1> SUFFICES ASSUME Inv, CopyBootCode PROVE Inv'
  OBVIOUS
<1>1. /\ pc' = [pc EXCEPT ![0] = "give"]
      /\ s_pooltmp' = [s_pooltmp EXCEPT ![1] = bitpool]
      /\ UNCHANGED <<map, region, pool4M, pool4K>>
  BY DEF CopyBootCode, Step
<1>2. bitpool \in Pools /\ Summary(bitpool)
  BY EmptyPool
<1>3. /\ pc' \in [Cores -> Places]
      /\ \A d \in Cores : pc'[d] = "core" => pc[d] = "core"
  BY <1>1 DEF Inv, Places, Cores
<1>. QED
  BY <1>1, <1>2, <1>3 DEF Inv, SummariesRight, Cores

-----------------------------------------------------------------------------
(* The steps that do not *)

LEMMA OthersKeep ==
    Inv /\ (WarmReset \/ SendInit \/ Poll \/ SendStartup \/ Patch \/ Machine)
        => Inv'
<1> SUFFICES ASSUME Inv,
                    WarmReset \/ SendInit \/ Poll \/ SendStartup \/ Patch \/ Machine
             PROVE  Inv'
  OBVIOUS
<1>1. UNCHANGED <<map, region, s_pooltmp, pool4M, pool4K>>
  <2>1. CASE WarmReset
    BY <2>1 DEF WarmReset, pools
  <2>2. CASE SendInit
    BY <2>2 DEF SendInit, icr_init, icr_rawwr, pools
  <2>3. CASE Poll
    BY <2>3 DEF Poll, pools
  <2>4. CASE SendStartup
    BY <2>4 DEF SendStartup, icr_startup, icr_rawwr, pools
  <2>5. CASE Patch
    BY <2>5 DEF Patch, pools
  <2>6. CASE Machine
    BY <2>6 DEF Machine, Deliver, Firmware, pools
  <2>. QED
    BY <2>1, <2>2, <2>3, <2>4, <2>5, <2>6
<1>2. \E c \in Cores, to \in Places :
         (pc' = [pc EXCEPT ![c] = to] /\ to # "core") \/ pc' = pc
  <2>1. CASE WarmReset
    BY <2>1 DEF WarmReset, Step, Cores, Places
  <2>2. CASE SendInit
    BY <2>2 DEF SendInit, Step, Cores, Places
  <2>3. CASE Poll
    BY <2>3 DEF Poll, Step, Cores, Places
  <2>4. CASE SendStartup
    BY <2>4 DEF SendStartup, Step, Cores, Places
  <2>5. CASE Patch
    BY <2>5 DEF Patch, Step, Cores, Places
  <2>6. CASE Machine
    BY <2>6 DEF Machine, Deliver, Firmware, Starts, Cores, Places
  <2>. QED
    BY <2>1, <2>2, <2>3, <2>4, <2>5, <2>6
<1>3. /\ pc' \in [Cores -> Places]
      /\ \A d \in Cores : pc'[d] = "core" => pc[d] = "core"
  BY <1>2 DEF Inv
<1>. QED
  BY <1>1, <1>3, PoolsUntouched

-----------------------------------------------------------------------------
LEMMA NextKeepsInv == Inv /\ Next => Inv'
<1>1. ASSUME Inv, Core0 PROVE Inv'
  BY <1>1, AddRegionKeeps, CheckMemoryKeeps, InitPagesKeeps, InitCoreKeeps,
     CopyBootCodeKeeps, GivePageKeeps, PublishKeeps, OthersKeep DEF Core0, Cores
<1>2. ASSUME Inv, Core1 PROVE Inv'
  BY <1>2, InitPagesKeeps, InitCoreKeeps, OthersKeep DEF Core1, Cores
<1>3. ASSUME Inv, Machine PROVE Inv'
  BY <1>3, OthersKeep
<1>. QED
  BY <1>1, <1>2, <1>3 DEF Next

THEOREM InvHolds == Spec => []Inv
<1>1. Init => Inv
  <2>1. \A m \in Maps : Len(m) \in Nat
    BY MapsAssumption
  <2>. QED
    BY <2>1, EmptyPool DEF Init, Inv, SummariesRight, Places, Cores
<1>2. Inv /\ [Next]_vars => Inv'
  <2>1. ASSUME Inv, UNCHANGED vars PROVE Inv'
    BY <2>1 DEF vars, pools, Inv, SummariesRight
  <2>. QED
    BY <2>1, NextKeepsInv
<1>. QED
  BY <1>1, <1>2, PTL DEF Spec

\* All pools, that of the copied boot code and those that core_t copies
\* included, keep a right summary through the whole boot of both cores.
THEOREM PoolsStaySets == Spec => []SummariesRight
<1>1. Inv => SummariesRight
  BY DEF Inv
<1>. QED
  BY <1>1, InvHolds, PTL

-----------------------------------------------------------------------------
(* Who has which page *)

Free0 == Pages(Pool(0))
Free1 == Pages(Pool(1))

\* What the pages that were taken from the pools are used for.
use == [shared |-> sharedmem, small0 |-> p4k[0], core0 |-> pcore[0],
        channel |-> spsc_data[0][1], small1 |-> p4k[1], core1 |-> pcore[1]]
Holder == [shared |-> "both", channel |-> "both", small0 |-> "core 0",
           core0 |-> "core 0", small1 |-> "core 1", core1 |-> "core 1"]
Uses == DOMAIN Holder

\* The pools and the pages in use do not overlap, and page 0, which would be
\* taken for the null pointer, is in no pool.
Apart ==
    /\ Free0 \subseteq Indices \ {NONE} /\ Free1 \subseteq Indices \ {NONE}
    /\ Free0 \cap Free1 = {}
    /\ use \in [Uses -> Indices]
    /\ \A u \in Uses : use[u] \notin Free0 \cup Free1
    /\ \A u, v \in Uses : use[u] = use[v] => u = v \/ use[u] = NONE

\* Core 0 stops before it sends a message, if it stops.
Early == {"map", "mem", "core", "copy", "give", "died"}

\* What has been taken when a core is at a place. The pool it takes from is its
\* copy in core_t from then on.
Taken ==
    /\ p4k \in [Cores -> Indices] /\ pcore \in [Cores -> Indices]
    /\ pc[0] = "map" => sharedmem = NONE
    /\ pc[0] \in {"map", "mem"} => p4k[0] = NONE
    /\ pc[0] \in {"map", "mem", "core"} => pcore[0] = NONE
    /\ pc[0] \in {"copy", "give"} => pcore[0] # NONE
    /\ pc[0] \in Early => spsc_data[0][1] = NONE /\ pc[1] = "off"
    /\ pc[0] \in {"map", "mem", "core", "copy"} => Pages(s_pooltmp[1]) = {}
    /\ pc[1] \in {"off", "patch", "mem"} => p4k[1] = NONE
    /\ pc[1] \in {"off", "patch", "mem", "core"} => pcore[1] = NONE

\* The hand-off: ten pages, the channel and the three words, before any message.
HandedOff ==
    /\ handed \in 0 .. 10
    /\ pc[0] \in {"map", "mem", "core", "copy"} => handed = 0
    /\ spsc_data \in [Cores -> [Cores -> Indices]]
    /\ area \in [rank : Cores, master : Indices, shared : Indices]
    /\ pc[0] \notin Early =>
          /\ handed = 10
          /\ area = [rank |-> 1, master |-> spsc_data[0][1], shared |-> sharedmem]
          /\ NONE \notin {area.master, area.shared}
    /\ pc[0] \notin {"map", "died"} => sharedmem # NONE
    /\ pc[1] = "loop" => spsc_data[1][0] = area.master

\* The three messages, and what the other CPU has made of them.
InitMsg == IcrWord(0, Mode.init, X!Num_int_level.lvl_set, X!Num_trigm.level)
DeinitMsg == IcrWord(0, Mode.init, X!Num_int_level.lvl_clr, X!Num_trigm.level)
StartupMsg == IcrWord(BootPage, Mode.startup, X!Num_int_level.lvl_set,
                      X!Num_trigm.edge)

Reset == ap = IF machine = "startup" THEN "waiting" ELSE "held"
Released == ap \in {IF machine = "startup" THEN "waiting" ELSE "firmware", "running"}

Messages ==
    /\ machine \in {"startup", "warm"} /\ pending \in BOOLEAN
    /\ pc[0] \notin {"off", "patch"}
    /\ pc[1] \notin {"map", "copy", "give", "warm1", "init", "poll1", "warm2",
                     "deinit", "poll2", "startup1", "startup2"}
    /\ patched = IF pc[1] \in {"off", "patch"} THEN 0 ELSE 1
    /\ ap = "running" <=> pc[1] # "off"
    /\ pc[0] \in Early \cup {"warm1", "init"} => ~pending /\ ap = "asleep"
    /\ pc[0] = "poll1" => IF pending THEN icr_lo = InitMsg /\ ap = "asleep" ELSE Reset
    /\ pc[0] \in {"warm2", "deinit"} => ~pending /\ Reset
    /\ pc[0] = "poll2" => IF pending THEN icr_lo = DeinitMsg /\ Reset ELSE Released
    /\ pc[0] = "startup1" => ~pending /\ Released
    /\ pc[0] \in {"startup2", "loop"} =>
          Released /\ (pending => icr_lo = StartupMsg)
    /\ IF pc[0] \in Early \cup {"warm1"} THEN cmos = {} /\ warmreset = FALSE
       ELSE cmos = Word(10) /\ warmreset = TRUE
    /\ icr_lo \in {{}, InitMsg, DeinitMsg, StartupMsg}

\* How many of the pages that were found each pool has left, unless the map has
\* regions that 32 bits cannot address.
Above == \E k \in DOMAIN map : map[k].addr + map[k].len > Wrap
FoundSoFar == UNION {PagesOf(map[k]) : k \in 1 .. region - 1}

Counted ==
    /\ \/ Above
       \/ /\ pc[0] = "map" => Free0 = FoundSoFar
          /\ pc[0] = "mem" => Cardinality(Free0) = Cardinality(Found) - 1
          /\ pc[0] = "core" => Cardinality(Free0) = Cardinality(Found) - 2
          /\ pc[0] \in {"copy", "give"} =>
                Cardinality(Free0) = Cardinality(Found) - 3 - handed
          /\ pc[0] = "died" => Cardinality(Found) < 14
    /\ pc[0] = "give" => Cardinality(Free1) = handed
    /\ pc[0] \notin Early =>
          /\ pc[1] \in {"off", "patch", "mem"} => Cardinality(Free1) = 10
          /\ pc[1] = "core" => Cardinality(Free1) = 9
    /\ pc[1] # "died"

-----------------------------------------------------------------------------
(* The pages of a region *)

\* Page numbers and addresses.
LEMMA Aligned ==
    ASSUME NEW x \in Nat
    PROVE  /\ x \div PAGE \in Nat
           /\ PAGE * (x \div PAGE) <= x /\ x < PAGE * (x \div PAGE) + PAGE
<1> USE SizesAssumption
<1> DEFINE q == x \div PAGE
<1>1. q \in Int /\ x = PAGE * q + (x % PAGE) /\ (x % PAGE) \in 0 .. PAGE - 1
  OBVIOUS
<1>2. q \in Nat
  BY Quotient
<1> HIDE DEF q
<1>3. PAGE * q \in Int
  BY <1>2
<1>4. PAGE * q <= x /\ x < PAGE * q + PAGE
  BY <1>1, <1>3
<1>. QED
  BY <1>2, <1>4 DEF q

LEMMA PageOrder ==
    ASSUME NEW p \in Int, NEW q \in Int, p <= q
    PROVE  PAGE * p <= PAGE * q
BY SizesAssumption

\* A region that does not begin in the last page of the address space.
Regular(r) == /\ r \in [addr : Nat, len : Nat, type : Nat]
              /\ r.type = 1 => (r.addr % Wrap) + PAGE <= Wrap

\* Its pages lie behind the kernel and within what is left of it in 32 bits.
LEMMA PagesBetween ==
    ASSUME NEW r, Regular(r), NEW p \in PagesOf(r)
    PROVE  LET from == r.addr % Wrap
               to   == (from + r.len) % Wrap
           IN  /\ p \in Nat /\ r.type = 1
               /\ End <= PAGE * p /\ from <= PAGE * p
               /\ PAGE * p + PAGE <= to /\ to < Wrap
<1> USE SizesAssumption
<1> DEFINE from == r.addr % Wrap
           to == (from + r.len) % Wrap
           begin == IF from < End /\ End <= to THEN End ELSE from
           first == (begin + PAGE - 1) \div PAGE
           last == to \div PAGE
<1>1. from \in Nat /\ to \in Nat /\ to < Wrap
  BY DEF Regular
<1>2. /\ r.type = 1 /\ End <= to /\ from + PAGE <= Wrap
      /\ p \in nextalign(begin) .. prevalign(to) - 1
  BY <1>1 DEF Regular, PagesOf
<1>3. begin \in Nat /\ End <= begin /\ from <= begin /\ begin + PAGE <= Wrap
  BY <1>1, <1>2
<1> HIDE DEF begin, from, to
<1>4. begin + PAGE - 1 \in Nat /\ (begin + PAGE - 1) % Wrap = begin + PAGE - 1
  BY <1>3
<1>5. nextalign(begin) = first /\ prevalign(to) = last
  BY <1>4 DEF nextalign, prevalign
<1>6. /\ first \in Nat /\ begin + PAGE - 1 < PAGE * first + PAGE
      /\ last \in Nat /\ PAGE * last <= to
  BY <1>1, <1>4, Aligned
<1> HIDE DEF first, last
<1>7. p \in Nat /\ first <= p /\ p + 1 <= last
  BY <1>2, <1>5, <1>6
<1>8. PAGE * first <= PAGE * p /\ PAGE * (p + 1) <= PAGE * last
  BY <1>6, <1>7, PageOrder
<1>9. PAGE * (p + 1) = PAGE * p + PAGE /\ PAGE * p \in Int
      /\ PAGE * first \in Int /\ PAGE * last \in Int
  BY <1>6, <1>7
<1>10. begin <= PAGE * p /\ PAGE * p + PAGE <= to
  BY <1>1, <1>3, <1>6, <1>8, <1>9
<1>. QED
  BY <1>1, <1>2, <1>3, <1>7, <1>9, <1>10 DEF from, to

\* Page 0 is the kernel's, and every other page has an index in the pool.
LEMMA PagesAreIndices ==
    ASSUME NEW r, Regular(r)
    PROVE  PagesOf(r) \subseteq Indices \ {NONE}
<1> SUFFICES ASSUME NEW p \in PagesOf(r) PROVE p \in Indices /\ p # 0
  BY DEF NONE
<1> USE SizesAssumption, WordsAssumption
<1>1. p \in Nat /\ End <= PAGE * p /\ PAGE * p + PAGE <= Wrap
  <2> DEFINE to == ((r.addr % Wrap) + r.len) % Wrap
  <2>1. p \in Nat /\ End <= PAGE * p /\ PAGE * p + PAGE <= to /\ to < Wrap
    BY PagesBetween
  <2>2. to \in Nat
    BY DEF Regular
  <2> HIDE DEF to
  <2>. QED
    BY <2>1, <2>2
<1>2. p # 0
  BY <1>1
<1>3. p <= N * W - 1
  <2> DEFINE n == N * W
  <2>1. n \in Nat /\ Wrap <= PAGE * n
    OBVIOUS
  <2> HIDE DEF n
  <2>2. SUFFICES ASSUME n <= p PROVE FALSE
    BY <1>1, <2>1 DEF n
  <2>3. PAGE * n <= PAGE * p
    BY <1>1, <2>1, <2>2, PageOrder
  <2>. QED
    BY <1>1, <2>1, <2>3
<1>. QED
  BY <1>1, <1>2, <1>3 DEF Indices

\* A region that 32 bits address contains its pages.
LEMMA PagesInside ==
    ASSUME NEW r, Regular(r), r.addr + r.len <= Wrap, NEW p \in PagesOf(r)
    PROVE  /\ p \in Nat /\ r.type = 1 /\ End <= PAGE * p
           /\ r.addr <= PAGE * p /\ PAGE * p + PAGE <= r.addr + r.len
<1> USE SizesAssumption
<1> DEFINE from == r.addr % Wrap
           to == (from + r.len) % Wrap
<1>1. /\ p \in Nat /\ r.type = 1 /\ End <= PAGE * p /\ from <= PAGE * p
      /\ PAGE * p + PAGE <= to /\ to < Wrap /\ PAGE * p \in Int
  BY PagesBetween
<1>2. r.addr \in Nat /\ r.len \in Nat
  BY DEF Regular
<1>3. CASE r.addr + r.len < Wrap
  BY <1>1, <1>2, <1>3
<1>4. CASE r.addr + r.len = Wrap
  <2>1. CASE r.addr = Wrap
    <3>1. from = 0 /\ r.len = 0
      BY <1>2, <1>4, <2>1
    <3>2. to = 0
      BY <3>1
    <3>. QED
      BY <1>1, <3>2
  <2>2. CASE r.addr < Wrap
    <3>1. from = r.addr
      BY <1>2, <2>2
    <3>2. to = Wrap % Wrap
      BY <1>4, <3>1
    <3>3. to = 0
      BY <3>2
    <3>. QED
      BY <1>1, <3>3
  <2>. QED
    BY <1>2, <1>4, <2>1, <2>2
<1>. QED
  BY <1>2, <1>3, <1>4

\* Two regions that do not overlap have no page in common.
LEMMA PagesApart ==
    ASSUME NEW r, NEW s, Regular(r), Regular(s),
           r.addr + r.len <= Wrap, s.addr + s.len <= Wrap,
           r.addr + r.len <= s.addr \/ s.addr + s.len <= r.addr
    PROVE  PagesOf(r) \cap PagesOf(s) = {}
<1> SUFFICES ASSUME NEW p \in PagesOf(r), p \in PagesOf(s) PROVE FALSE
  OBVIOUS
<1>1. /\ r.addr <= PAGE * p /\ PAGE * p + PAGE <= r.addr + r.len
      /\ s.addr <= PAGE * p /\ PAGE * p + PAGE <= s.addr + s.len
      /\ PAGE * p \in Int
  BY PagesInside, SizesAssumption
<1>. QED
  BY <1>1, SizesAssumption DEF Regular

-----------------------------------------------------------------------------
(* The messages *)

\* icr_lo keeps the four fields apart.
LEMMA IcrFields ==
    ASSUME NEW v \in {0, 7}, NEW d \in {5, 6}, NEW l \in {0, 1}, NEW t \in {0, 1}
    PROVE  /\ extract(X!T_icr_lo, "vector", IcrWord(v, d, l, t)) = Word(v)
           /\ extract(X!T_icr_lo, "dlv_mode", IcrWord(v, d, l, t)) = Word(d)
           /\ extract(X!T_icr_lo, "level", IcrWord(v, d, l, t)) = Word(l)
<1> DEFINE T == X!T_icr_lo
           word == IcrWord(v, d, l, t)
<1>1. /\ FieldBits(T, "vector") = 0 .. 7 /\ FieldBits(T, "dlv_mode") = 8 .. 10
      /\ FieldBits(T, "level") = {14} /\ FieldBits(T, "trig_mode") = {15}
      /\ Lo(T, "vector") = 0 /\ Size(T, "vector") = 8
      /\ Lo(T, "dlv_mode") = 8 /\ Size(T, "dlv_mode") = 3
      /\ Lo(T, "level") = 14 /\ Size(T, "level") = 1
  BY DEF X!T_icr_lo, X!WordType, FieldBits, Lo, Size
<1> HIDE DEF T
<1>2. /\ Word(v) \subseteq 0 .. 7 /\ Word(d) \subseteq 0 .. 2
      /\ Word(l) \subseteq 0 .. 0
  BY SmallWords
<1>3. /\ word \cap FieldBits(T, "vector") = Shifted(T, "vector", Word(v))
      /\ word \cap FieldBits(T, "dlv_mode") = Shifted(T, "dlv_mode", Word(d))
      /\ word \cap FieldBits(T, "level") = Shifted(T, "level", Word(l))
  <2>1. word = Shifted(T, "vector", Word(v)) \cup Shifted(T, "dlv_mode", Word(d))
                 \cup Shifted(T, "level", Word(l))
                 \cup Shifted(T, "trig_mode", Word(t))
    BY DEF IcrWord, T
  <2>2. \A f, x : Shifted(T, f, x) \subseteq FieldBits(T, f)
    BY DEF Shifted
  <2>. QED
    BY <1>1, <2>1, <2>2
<1>4. \A f, x : insert(T, f, {}, x) = Shifted(T, f, x)
  BY DEF insert
<1>5. \A f, x : Shifted(T, f, x) \cap FieldBits(T, f) = Shifted(T, f, x)
  BY DEF Shifted
<1>6. extract(T, "vector", word) = Word(v)
  BY <1>1, <1>2, <1>3, <1>4, <1>5, InsertThenExtract, OthersExtractedAlike
<1>7. extract(T, "dlv_mode", word) = Word(d)
  BY <1>1, <1>2, <1>3, <1>4, <1>5, InsertThenExtract, OthersExtractedAlike
<1>8. extract(T, "level", word) = Word(l)
  BY <1>1, <1>2, <1>3, <1>4, <1>5, InsertThenExtract, OthersExtractedAlike
<1>. QED
  BY <1>6, <1>7, <1>8 DEF T

\* What Deliver makes of each of the three messages.
LEMMA MessagesTold ==
    /\ icr_lo = InitMsg =>
          /\ Sent("dlv_mode", Mode.init) /\ Sent("level", 1)
          /\ ~Sent("level", 0) /\ ~Sent("dlv_mode", Mode.startup)
    /\ icr_lo = DeinitMsg =>
          /\ Sent("dlv_mode", Mode.init) /\ Sent("level", 0)
          /\ ~Sent("level", 1) /\ ~Sent("dlv_mode", Mode.startup)
    /\ icr_lo = StartupMsg =>
          /\ Sent("dlv_mode", Mode.startup) /\ Sent("vector", BootPage)
          /\ ~Sent("dlv_mode", Mode.init)
<1>1. /\ Mode.init = 5 /\ Mode.startup = 6 /\ BootPage = 7
      /\ X!Num_int_level.lvl_set = 1 /\ X!Num_int_level.lvl_clr = 0
      /\ X!Num_trigm.level = 1 /\ X!Num_trigm.edge = 0
  BY DEF Mode, BootPage, X!Num_vdm, X!Num_int_level, X!Num_trigm
<1>2. /\ InitMsg = IcrWord(0, 5, 1, 1) /\ DeinitMsg = IcrWord(0, 5, 0, 1)
      /\ StartupMsg = IcrWord(7, 6, 1, 0)
  BY <1>1 DEF InitMsg, DeinitMsg, StartupMsg
<1>3. Word(5) # Word(6) /\ Word(0) # Word(1)
  <2>1. 2 \in Word(5) /\ 1 \notin Word(5) /\ 1 \in Word(6)
        /\ 0 \in Word(1) /\ 0 \notin Word(0)
    BY SmallWords
  <2>. QED
    BY <2>1
<1>4. CASE icr_lo = InitMsg
  <2>1. /\ extract(X!T_icr_lo, "dlv_mode", icr_lo) = Word(5)
        /\ extract(X!T_icr_lo, "level", icr_lo) = Word(1)
    BY <1>2, <1>4, IcrFields
  <2>2. icr_lo # StartupMsg /\ icr_lo # DeinitMsg
    BY <1>2, <1>3, <2>1, IcrFields
  <2>. QED
    BY <1>1, <1>3, <1>4, <2>1, <2>2 DEF Sent
<1>5. CASE icr_lo = DeinitMsg
  <2>1. /\ extract(X!T_icr_lo, "dlv_mode", icr_lo) = Word(5)
        /\ extract(X!T_icr_lo, "level", icr_lo) = Word(0)
    BY <1>2, <1>5, IcrFields
  <2>2. icr_lo # StartupMsg /\ icr_lo # InitMsg
    BY <1>2, <1>3, <2>1, IcrFields
  <2>. QED
    BY <1>1, <1>3, <1>5, <2>1, <2>2 DEF Sent
<1>6. CASE icr_lo = StartupMsg
  <2>1. /\ extract(X!T_icr_lo, "dlv_mode", icr_lo) = Word(6)
        /\ extract(X!T_icr_lo, "vector", icr_lo) = Word(7)
    BY <1>2, <1>6, IcrFields
  <2>2. icr_lo # InitMsg /\ icr_lo # DeinitMsg
    BY <1>2, <1>3, <2>1, IcrFields
  <2>. QED
    BY <1>1, <1>3, <1>6, <2>1, <2>2 DEF Sent
<1>. QED
  BY <1>4, <1>5, <1>6

\* The messages lie in the register, and the shutdown code in its byte.
LEMMA MessageBits ==
    /\ InitMsg \subseteq 0 .. 31 /\ DeinitMsg \subseteq 0 .. 31
    /\ StartupMsg \subseteq 0 .. 31
<1>1. \A v, d, l, t : IcrWord(v, d, l, t) \subseteq 0 .. 31
  <2>1. /\ FieldBits(X!T_icr_lo, "vector") = 0 .. 7
        /\ FieldBits(X!T_icr_lo, "dlv_mode") = 8 .. 10
        /\ FieldBits(X!T_icr_lo, "level") = {14}
        /\ FieldBits(X!T_icr_lo, "trig_mode") = {15}
    BY DEF X!T_icr_lo, X!WordType, FieldBits, Lo, Size
  <2>. QED
    BY <2>1 DEF IcrWord, Shifted
<1>. QED
  BY <1>1 DEF InitMsg, DeinitMsg, StartupMsg

LEMMA ShutdownCode ==
    /\ wr(Rtc!R_standard[15], Word(10), {}) = Word(10)
    /\ Word(10) \subseteq 0 .. 7
<1>1. /\ Rtc!R_standard[15].type.rsvd = {} /\ Rtc!R_standard[15].type.mbz = {}
      /\ Rtc!R_standard[15].type.mb1 = {} /\ Rtc!R_standard[15].mode = "rw"
  BY DEF Rtc!R_standard, Rtc!ReadWrite, Rtc!Plain, Rtc!WordType
<1>2. wr(Rtc!R_standard[15], Word(10), {}) = Word(10)
  BY <1>1 DEF wr, Forced
<1>. QED
  BY <1>2, SmallWords

-----------------------------------------------------------------------------
(* What each step does to the pools and to the pages in use *)

Idle == UNCHANGED <<Free0, Free1, use>>
Find(S) == Free0' = Free0 \cup S /\ UNCHANGED <<Free1, use>>
Take0(u) ==
    \E p \in Free0 : /\ use[u] = NONE /\ use' = [use EXCEPT ![u] = p]
                     /\ Free0' = Free0 \ {p} /\ Free1' = Free1
Take1(u) ==
    \E p \in Free1 : /\ use[u] = NONE /\ use' = [use EXCEPT ![u] = p]
                     /\ Free1' = Free1 \ {p} /\ Free0' = Free0
GiveMove ==
    \E p \in Free0 : /\ Free0' = Free0 \ {p} /\ Free1' = Free1 \cup {p}
                     /\ use' = use

LEMMA MapRegular ==
    ASSUME FirmwareOnTop, Inv
    PROVE  /\ Len(map) \in Nat /\ DOMAIN map = 1 .. Len(map)
           /\ \A k \in 1 .. Len(map) : Regular(map[k])
<1>1. map \in Seq([addr : Nat, len : Nat, type : Nat]) /\ map \in Maps
  BY MapsAssumption DEF Inv
<1>2. \A R : \A m \in Seq(R) : /\ Len(m) \in Nat /\ DOMAIN m = 1 .. Len(m)
                              /\ \A k \in 1 .. Len(m) : m[k] \in R
  OBVIOUS
<1>3. /\ Len(map) \in Nat /\ DOMAIN map = 1 .. Len(map)
      /\ \A k \in 1 .. Len(map) : map[k] \in [addr : Nat, len : Nat, type : Nat]
  BY <1>1, <1>2
<1>. QED
  BY <1>1, <1>3 DEF FirmwareOnTop, Regular

\* What a core's pool has left after a page is taken from it.
LEMMA PoolAfterTaking ==
    ASSUME NEW q \in Pools, Summary(q), canalloc(q)
    PROVE  index(q) \in Pages(q) /\ Pages(alloc(q)) = Pages(q) \ {index(q)}
BY AllocTakesTheLowest

LEMMA AddRegionMoves ==
    ASSUME FirmwareOnTop, Inv, Taken, AddRegion
    PROVE  \E S \in SUBSET PagesOf(map[region]) :
              /\ Find(S) /\ Free1 = {} /\ (\A u \in Uses : use[u] = NONE)
              /\ \/ pc' = pc /\ S = PagesOf(map[region])
                 \/ /\ pc' = [pc EXCEPT ![0] = "died"]
                    /\ PagesOf(map[region]) \cap Free0 # {}
<1> DEFINE R == PagesOf(map[region])
           bad == {p \in R : ~canfree(s_pooltmp[0], p)}
           good == IF bad = {} THEN R ELSE {p \in R : p < bitfind1(bad)}
<1>1. /\ pc[0] = "map" /\ region \in 1 .. Len(map)
      /\ s_pooltmp' = [s_pooltmp EXCEPT ![0] = add_mem(@, good)]
      /\ IF bad = {} THEN pc' = pc ELSE pc' = [pc EXCEPT ![0] = "died"]
      /\ UNCHANGED <<pool4M, p4k, pcore, sharedmem, spsc_data>>
  BY DEF AddRegion, Stop, Inv, handoff
<1>2. R \subseteq Indices \ {NONE}
  BY <1>1, MapRegular, PagesAreIndices
<1>3. good \subseteq R
  OBVIOUS
<1>4. bad = {} => good = R
  OBVIOUS
<1>5. bad # {} => R \cap Pages(s_pooltmp[0]) # {}
  BY <1>2 DEF canfree, Pages
<1> HIDE DEF good, bad
<1>6. Pages(add_mem(s_pooltmp[0], good)) = Pages(s_pooltmp[0]) \cup good
  BY <1>2, <1>3, AddMemAdds DEF Inv, SummariesRight, Cores
<1>7. /\ pcore[0] = NONE /\ pcore[1] = NONE /\ p4k[0] = NONE /\ p4k[1] = NONE
      /\ sharedmem = NONE /\ spsc_data[0][1] = NONE
      /\ Pages(s_pooltmp[1]) = {}
  BY <1>1 DEF Taken, Early
<1>8. s_pooltmp'[0] = add_mem(s_pooltmp[0], good) /\ s_pooltmp'[1] = s_pooltmp[1]
  BY <1>1 DEF Inv, Cores
<1>9. /\ Free0 = Pages(s_pooltmp[0]) /\ Free0' = Pages(s_pooltmp'[0])
      /\ Free1 = Pages(s_pooltmp[1]) /\ Free1' = Pages(s_pooltmp'[1])
  BY <1>1, <1>7 DEF Free0, Free1, Pool
<1>10. use' = use /\ \A u \in Uses : use[u] = NONE
  BY <1>1, <1>7 DEF use, Uses, Holder
<1>. QED
  BY <1>1, <1>3, <1>4, <1>5, <1>6, <1>7, <1>8, <1>9, <1>10 DEF Find

LEMMA CheckMemoryMoves ==
    ASSUME Inv, Taken, CheckMemory
    PROVE  /\ pc[0] = "map" /\ region > Len(map)
           /\ \/ pc' = [pc EXCEPT ![0] = "mem"] /\ Take0("shared")
              \/ /\ pc' = [pc EXCEPT ![0] = "died"] /\ Idle
                 /\ Cardinality(Free0) <= 10
<1>1. pc[0] = "map" /\ region > Len(map)
      /\ UNCHANGED <<pool4M, p4k, pcore, spsc_data>>
  BY DEF CheckMemory, Step, handoff
<1>2. /\ pcore[0] = NONE /\ sharedmem = NONE
  BY <1>1 DEF Taken
<1>3. /\ Free0 = Pages(s_pooltmp[0]) /\ Free0' = Pages(s_pooltmp'[0])
  BY <1>1, <1>2 DEF Free0, Pool
<1>4. CASE /\ remaining(s_pooltmp[0]) <= 10
           /\ pc' = [pc EXCEPT ![0] = "died"] /\ UNCHANGED <<sharedmem, s_pooltmp>>
  BY <1>1, <1>3, <1>4 DEF Idle, Free0, Free1, Pool, use, remaining
<1>5. CASE /\ remaining(s_pooltmp[0]) > 10
           /\ pc' = [pc EXCEPT ![0] = "mem"]
           /\ sharedmem' = index(s_pooltmp[0])
           /\ s_pooltmp' = [s_pooltmp EXCEPT ![0] = alloc(@)]
  <2> DEFINE q == s_pooltmp[0]
  <2>1. q \in Pools /\ Summary(q)
    BY DEF Inv, SummariesRight, Cores
  <2>2. Pages(q) # {}
    BY <1>5, FS_EmptySet DEF remaining
  <2>3. index(q) \in Pages(q) /\ Pages(alloc(q)) = Pages(q) \ {index(q)}
    BY <2>1, <2>2, CanallocIsNotEmpty, PoolAfterTaking
  <2>4. s_pooltmp'[0] = alloc(q) /\ s_pooltmp'[1] = s_pooltmp[1]
    BY <1>5 DEF Inv, Cores
  <2>5. Free1' = Free1
    BY <1>1, <2>4 DEF Free1, Pool
  <2>6. use' = [use EXCEPT !["shared"] = index(q)] /\ use["shared"] = NONE
    BY <1>1, <1>2, <1>5 DEF use
  <2>7. Take0("shared")
    BY <1>3, <2>3, <2>4, <2>5, <2>6 DEF Take0
  <2>. QED
    BY <1>1, <1>5, <2>7
<1>. QED
  BY <1>1, <1>4, <1>5 DEF CheckMemory, Step, Stop

Small4K(c) == IF c = 0 THEN "small0" ELSE "small1"
CoreT(c) == IF c = 0 THEN "core0" ELSE "core1"
TakeOf(c, u) == IF c = 0 THEN Take0(u) ELSE Take1(u)
FreeOf(c) == IF c = 0 THEN Free0 ELSE Free1

LEMMA InitPagesMoves ==
    ASSUME Inv, Taken, NEW c \in Cores, InitPages(c)
    PROVE  /\ pc[c] = "mem"
           /\ \/ pc' = [pc EXCEPT ![c] = "core"] /\ TakeOf(c, Small4K(c))
              \/ pc' = [pc EXCEPT ![c] = "died"] /\ Idle /\ FreeOf(c) = {}
<1>1. pc[c] = "mem"
      /\ UNCHANGED <<pool4M, pcore, sharedmem, spsc_data>>
  BY DEF InitPages, Step, handoff
<1>2. pcore[c] = NONE /\ p4k[c] = NONE
  BY <1>1 DEF Taken, Cores
<1>3. FreeOf(c) = Pages(s_pooltmp[c]) /\ FreeOf(c)' = Pages(s_pooltmp'[c])
  BY <1>1, <1>2 DEF Free0, Free1, FreeOf, Pool, Cores
<1> DEFINE q == s_pooltmp[c]
<1>4. q \in Pools /\ Summary(q)
  BY DEF Inv, SummariesRight
<1>5. CASE /\ ~canalloc(q)
           /\ pc' = [pc EXCEPT ![c] = "died"] /\ UNCHANGED <<p4k, s_pooltmp>>
  <2>1. FreeOf(c) = {}
    BY <1>3, <1>4, <1>5, CanallocIsNotEmpty
  <2>. QED
    BY <1>1, <1>5, <2>1 DEF Idle, Free0, Free1, Pool, use
<1>6. CASE /\ canalloc(q)
           /\ pc' = [pc EXCEPT ![c] = "core"]
           /\ p4k' = [p4k EXCEPT ![c] = index(q)]
           /\ s_pooltmp' = [s_pooltmp EXCEPT ![c] = alloc(@)]
  <2>1. index(q) \in Pages(q) /\ Pages(alloc(q)) = Pages(q) \ {index(q)}
    BY <1>4, <1>6, PoolAfterTaking
  <2>2. s_pooltmp'[c] = alloc(q) /\ \A d \in Cores \ {c} : s_pooltmp'[d] = s_pooltmp[d]
    BY <1>6 DEF Inv
  <2>3. CASE c = 0
    <3>1. Free1' = Free1
      BY <1>1, <2>2, <2>3 DEF Free1, Pool, Cores
    <3>2. use' = [use EXCEPT !["small0"] = index(q)] /\ use["small0"] = NONE
      BY <1>1, <1>2, <1>6, <2>3 DEF use, Cores, Taken
    <3>. QED
      BY <1>1, <1>3, <1>6, <2>1, <2>2, <2>3, <3>1, <3>2
      DEF TakeOf, FreeOf, Take0, Small4K
  <2>4. CASE c = 1
    <3>1. Free0' = Free0
      BY <1>1, <2>2, <2>4 DEF Free0, Pool, Cores
    <3>2. use' = [use EXCEPT !["small1"] = index(q)] /\ use["small1"] = NONE
      BY <1>1, <1>2, <1>6, <2>4 DEF use, Cores, Taken
    <3>. QED
      BY <1>1, <1>3, <1>6, <2>1, <2>2, <2>4, <3>1, <3>2
      DEF TakeOf, FreeOf, Take1, Small4K
  <2>. QED
    BY <2>3, <2>4 DEF Cores
<1>. QED
  BY <1>1, <1>5, <1>6 DEF InitPages, Step, Stop

LEMMA InitCoreMoves ==
    ASSUME Inv, Apart, Taken, HandedOff, NEW c \in Cores, InitCore(c)
    PROVE  /\ pc[c] = "core"
           /\ \/ /\ pc' = [pc EXCEPT ![c] = IF c = 0 THEN "copy" ELSE "loop"]
                 /\ TakeOf(c, CoreT(c)) /\ pcore'[c] # NONE
              \/ pc' = [pc EXCEPT ![c] = "died"] /\ Idle /\ FreeOf(c) = {}
<1>1. pc[c] = "core" /\ UNCHANGED <<p4k, sharedmem>>
  BY DEF InitCore, Step
<1>2. pcore[c] = NONE
  BY <1>1 DEF Taken, Cores
<1>3. FreeOf(c) = Pages(s_pooltmp[c])
  BY <1>1, <1>2 DEF Free0, Free1, FreeOf, Pool, Cores
<1> DEFINE q == s_pooltmp[c]
<1>4. q \in Pools /\ Summary(q)
  BY DEF Inv, SummariesRight
<1>5. CASE /\ ~canalloc(q) /\ pc' = [pc EXCEPT ![c] = "died"]
           /\ UNCHANGED <<pcore, s_pooltmp, pool4M, spsc_data>>
  <2>1. FreeOf(c) = {}
    BY <1>3, <1>4, <1>5, CanallocIsNotEmpty
  <2>. QED
    BY <1>1, <1>5, <2>1 DEF Idle, Free0, Free1, Pool, use
<1>6. CASE /\ canalloc(q)
           /\ pc' = [pc EXCEPT ![c] = IF c = 0 THEN "copy" ELSE "loop"]
           /\ pcore' = [pcore EXCEPT ![c] = index(q)]
           /\ s_pooltmp' = [s_pooltmp EXCEPT ![c] = alloc(@)]
           /\ pool4M' = [pool4M EXCEPT ![c] = s_pooltmp'[c]]
           /\ spsc_data' = [spsc_data EXCEPT
                               ![c][0] = IF c = 0 THEN NONE ELSE area.master]
  <2>1. index(q) \in Pages(q) /\ Pages(alloc(q)) = Pages(q) \ {index(q)}
    BY <1>4, <1>6, PoolAfterTaking
  <2>2. /\ pool4M'[c] = alloc(q) /\ s_pooltmp'[c] = alloc(q)
        /\ pcore'[c] = index(q)
        /\ \A d \in Cores \ {c} : /\ s_pooltmp'[d] = s_pooltmp[d]
                                  /\ pool4M'[d] = pool4M[d]
                                  /\ pcore'[d] = pcore[d]
    BY <1>6 DEF Inv, Taken
  <2>3. spsc_data'[0][1] = spsc_data[0][1]
    BY <1>6 DEF HandedOff, Cores
  <2>4. FreeOf(c)' = Pages(alloc(q))
    BY <2>2 DEF Free0, Free1, FreeOf, Pool, Cores
  <2>5. index(q) # NONE
    BY <1>3, <2>1 DEF FreeOf, Apart, Cores
  <2>6. CASE c = 0
    <3>1. Free1' = Free1
      BY <1>1, <2>2, <2>6 DEF Free1, Pool, Cores
    <3>2. use' = [use EXCEPT !["core0"] = index(q)] /\ use["core0"] = NONE
      BY <1>1, <1>2, <2>2, <2>3, <2>6 DEF use, Cores
    <3>. QED
      BY <1>1, <1>3, <1>6, <2>1, <2>2, <2>4, <2>5, <2>6, <3>1, <3>2
      DEF TakeOf, FreeOf, Take0, CoreT
  <2>7. CASE c = 1
    <3>1. Free0' = Free0
      BY <1>1, <2>2, <2>7 DEF Free0, Pool, Cores
    <3>2. use' = [use EXCEPT !["core1"] = index(q)] /\ use["core1"] = NONE
      BY <1>1, <1>2, <2>2, <2>3, <2>7 DEF use, Cores
    <3>. QED
      BY <1>1, <1>3, <1>6, <2>1, <2>2, <2>4, <2>5, <2>7, <3>1, <3>2
      DEF TakeOf, FreeOf, Take1, CoreT
  <2>. QED
    BY <2>6, <2>7 DEF Cores
<1>. QED
  BY <1>1, <1>5, <1>6 DEF InitCore, Step, Stop

\* From here on core 0 takes its pages from the copy in its core_t.
LEMMA CopyBootCodeMoves ==
    ASSUME Inv, Taken, CopyBootCode
    PROVE  /\ pc[0] = "copy" /\ pc' = [pc EXCEPT ![0] = "give"] /\ Idle
           /\ Free1 = {}
<1>1. /\ pc[0] = "copy" /\ pc' = [pc EXCEPT ![0] = "give"]
      /\ s_pooltmp' = [s_pooltmp EXCEPT ![1] = bitpool]
      /\ UNCHANGED <<pool4M, p4k, pcore, sharedmem, spsc_data>>
  BY DEF CopyBootCode, Step, handoff
<1>2. pcore[0] # NONE /\ pcore[1] = NONE /\ Pages(s_pooltmp[1]) = {}
  BY <1>1 DEF Taken, Early
<1>3. Free0' = Free0
  BY <1>1, <1>2 DEF Free0, Pool
<1>4. s_pooltmp'[1] = bitpool
  BY <1>1 DEF Inv, Cores
<1>5. Free1 = {} /\ Free1' = {}
  BY <1>1, <1>2, <1>4, EmptyPool DEF Free1, Pool
<1>. QED
  BY <1>1, <1>3, <1>5 DEF Idle, use

LEMMA GivePageMoves ==
    ASSUME Inv, Taken, GivePage
    PROVE  /\ pc[0] = "give" /\ handed < 10
           /\ \/ pc' = pc /\ handed' = handed + 1 /\ GiveMove
              \/ /\ pc' = [pc EXCEPT ![0] = "died"] /\ handed' = handed /\ Idle
                 /\ Free0 = {}
<1>1. pc[0] = "give" /\ handed < 10 /\ UNCHANGED <<p4k, pcore, sharedmem, spsc_data>>
  BY DEF GivePage
<1>2. pcore[0] # NONE /\ pcore[1] = NONE
  BY <1>1 DEF Taken, Early
<1> DEFINE q == pool4M[0]
<1>3. q \in Pools /\ Summary(q) /\ Free0 = Pages(q) /\ Free0' = Pages(pool4M'[0])
      /\ Free1 = Pages(s_pooltmp[1]) /\ Free1' = Pages(s_pooltmp'[1])
      /\ s_pooltmp[1] \in Pools /\ Summary(s_pooltmp[1])
  BY <1>1, <1>2 DEF Free0, Free1, Pool, Inv, SummariesRight, Cores
<1>4. CASE /\ ~canalloc(q) /\ pc' = [pc EXCEPT ![0] = "died"]
           /\ UNCHANGED <<pool4M, s_pooltmp, handed>>
  <2>1. Free0 = {}
    BY <1>3, <1>4, CanallocIsNotEmpty
  <2>. QED
    BY <1>1, <1>3, <1>4, <2>1 DEF Idle, use
<1>5. CASE /\ canalloc(q)
           /\ pool4M' = [pool4M EXCEPT ![0] = alloc(@)]
           /\ s_pooltmp' = [s_pooltmp EXCEPT ![1] = add_mem(@, {index(pool4M[0])})]
           /\ handed' = handed + 1 /\ UNCHANGED pc
  <2>1. index(q) \in Pages(q) /\ Pages(alloc(q)) = Pages(q) \ {index(q)}
    BY <1>3, <1>5, PoolAfterTaking
  <2>2. index(q) \in Indices
    BY <2>1 DEF Pages
  <2> HIDE DEF q
  <2>3. Pages(add_mem(s_pooltmp[1], {index(q)})) = Pages(s_pooltmp[1]) \cup {index(q)}
    BY <1>3, <2>2, AddMemAdds
  <2>4. /\ pool4M'[0] = alloc(q)
        /\ s_pooltmp'[1] = add_mem(s_pooltmp[1], {index(q)})
    BY <1>5 DEF Inv, Cores, q
  <2>5. GiveMove
    BY <1>1, <1>3, <2>1, <2>3, <2>4 DEF GiveMove, use
  <2>. QED
    BY <1>1, <1>5, <2>5
<1>. QED
  BY <1>1, <1>4, <1>5 DEF GivePage, Stop

LEMMA PublishMoves ==
    ASSUME Inv, Taken, HandedOff, Publish
    PROVE  /\ pc[0] = "give" /\ handed = 10
           /\ \/ /\ pc' = [pc EXCEPT ![0] = "warm1"] /\ Take0("channel")
                 /\ area' = [rank |-> 1, master |-> spsc_data'[0][1],
                             shared |-> sharedmem]
                 /\ spsc_data' \in [Cores -> [Cores -> Indices]]
                 /\ spsc_data'[1] = spsc_data[1] /\ spsc_data'[0][1] \in Free0
              \/ /\ pc' = [pc EXCEPT ![0] = "died"] /\ Idle /\ Free0 = {}
                 /\ UNCHANGED <<spsc_data, area>>
<1>1. /\ pc[0] = "give" /\ handed = 10
      /\ UNCHANGED <<s_pooltmp, p4k, pcore, sharedmem>>
  BY DEF Publish, Step
<1>2. pcore[0] # NONE /\ pcore[1] = NONE /\ spsc_data[0][1] = NONE
  BY <1>1 DEF Taken, Early
<1> DEFINE q == pool4M[0]
<1>3. q \in Pools /\ Summary(q) /\ Free0 = Pages(q) /\ Free0' = Pages(pool4M'[0])
      /\ Free1' = Free1
  BY <1>1, <1>2 DEF Free0, Free1, Pool, Inv, SummariesRight, Cores
<1>4. CASE /\ ~canalloc(q) /\ pc' = [pc EXCEPT ![0] = "died"]
           /\ UNCHANGED <<pool4M, spsc_data, area>>
  <2>1. Free0 = {}
    BY <1>3, <1>4, CanallocIsNotEmpty
  <2>. QED
    BY <1>1, <1>3, <1>4, <2>1 DEF Idle, use
<1>5. CASE /\ canalloc(q) /\ pc' = [pc EXCEPT ![0] = "warm1"]
           /\ pool4M' = [pool4M EXCEPT ![0] = alloc(@)]
           /\ spsc_data' = [spsc_data EXCEPT ![0][1] = index(pool4M[0])]
           /\ area' = [rank |-> 1, master |-> spsc_data'[0][1], shared |-> sharedmem]
  <2>1. index(q) \in Pages(q) /\ Pages(alloc(q)) = Pages(q) \ {index(q)}
    BY <1>3, <1>5, PoolAfterTaking
  <2>2. index(q) \in Indices /\ pool4M'[0] = alloc(q)
    BY <1>5, <2>1 DEF Pages, Inv, Cores
  <2> HIDE DEF q
  <2>3. /\ spsc_data' \in [Cores -> [Cores -> Indices]]
        /\ spsc_data'[0][1] = index(q) /\ spsc_data'[1] = spsc_data[1]
    BY <1>5, <2>2 DEF HandedOff, Cores, q
  <2>4. use' = [use EXCEPT !["channel"] = index(q)] /\ use["channel"] = NONE
    BY <1>1, <1>2, <2>3 DEF use
  <2>5. Take0("channel")
    BY <1>3, <2>1, <2>2, <2>4 DEF Take0
  <2>. QED
    BY <1>1, <1>3, <1>5, <2>1, <2>3, <2>5
<1>. QED
  BY <1>1, <1>4, <1>5 DEF Publish, Step, Stop

LEMMA OthersAreIdle ==
    ASSUME WarmReset \/ SendInit \/ Poll \/ SendStartup \/ Patch \/ Machine
    PROVE  Idle /\ UNCHANGED <<map, region, pools, sharedmem, handoff>>
<1>1. UNCHANGED <<map, region, pools, sharedmem, handoff>>
  BY DEF WarmReset, SendInit, icr_init, icr_rawwr, Poll, SendStartup, icr_startup,
         Patch, Machine, Deliver, Firmware
<1>. QED
  BY <1>1 DEF Idle, Free0, Free1, Pool, use, pools, handoff

-----------------------------------------------------------------------------
(* The messages and what they start *)

Late == {"warm1", "init", "poll1", "warm2", "deinit", "poll2", "startup1",
         "startup2", "loop"}

LEMMA LateSteps ==
    ASSUME Inv, WarmReset \/ SendInit \/ Poll \/ SendStartup
    PROVE  /\ pc[0] \in Late /\ pc'[0] \in Late /\ pc'[1] = pc[1]
           /\ UNCHANGED <<map, region, pools, sharedmem, handoff, patched, ap,
                          machine>>
<1> USE DEF Late, Step, Inv, Cores
<1>1. CASE WarmReset
  BY <1>1 DEF WarmReset
<1>2. CASE SendInit
  BY <1>2 DEF SendInit, icr_init, icr_rawwr
<1>3. CASE Poll
  BY <1>3 DEF Poll, messages
<1>4. CASE SendStartup
  BY <1>4 DEF SendStartup, icr_startup, icr_rawwr
<1>. QED
  BY <1>1, <1>2, <1>3, <1>4

LEMMA WarmResetTells == ASSUME Inv, Messages, WarmReset PROVE Messages'
<1>1. /\ cmos' = Word(10) /\ warmreset' = TRUE
      /\ \/ pc[0] = "warm1" /\ pc' = [pc EXCEPT ![0] = "init"]
         \/ pc[0] = "warm2" /\ pc' = [pc EXCEPT ![0] = "deinit"]
      /\ UNCHANGED <<patched, icr_lo, pending, machine, ap>>
  BY ShutdownCode DEF WarmReset, Step
<1>2. pc'[1] = pc[1] /\ pc'[0] \in {"init", "deinit"}
      /\ (pc'[0] = "init" => pc[0] = "warm1") /\ (pc'[0] = "deinit" => pc[0] = "warm2")
  BY <1>1 DEF Inv, Cores
<1>3. Reset' = Reset /\ Released' = Released
  BY <1>1 DEF Reset, Released
<1>. QED
  BY <1>1, <1>2, <1>3 DEF Messages, Early

LEMMA SendInitTells == ASSUME Inv, Messages, SendInit PROVE Messages'
<1>1. /\ pending' = TRUE
      /\ \/ /\ pc[0] = "init" /\ pc' = [pc EXCEPT ![0] = "poll1"]
            /\ icr_lo' = InitMsg \/ (pending /\ icr_lo' = icr_lo)
         \/ /\ pc[0] = "deinit" /\ pc' = [pc EXCEPT ![0] = "poll2"]
            /\ icr_lo' = DeinitMsg \/ (pending /\ icr_lo' = icr_lo)
      /\ UNCHANGED <<patched, cmos, warmreset, machine, ap>>
  BY DEF SendInit, Step, icr_init, icr_rawwr, InitMsg, DeinitMsg
<1>2. pc'[1] = pc[1] /\ pc'[0] \in {"poll1", "poll2"}
      /\ (pc'[0] = "poll1" => pc[0] = "init" /\ icr_lo' = InitMsg)
      /\ (pc'[0] = "poll2" => pc[0] = "deinit" /\ icr_lo' = DeinitMsg)
  BY <1>1 DEF Inv, Cores, Messages
<1>3. Reset' = Reset /\ Released' = Released
  BY <1>1 DEF Reset, Released
<1>4. InitMsg' = InitMsg /\ DeinitMsg' = DeinitMsg /\ StartupMsg' = StartupMsg
  BY DEF InitMsg, DeinitMsg, StartupMsg
<1>. QED
  BY <1>1, <1>2, <1>3, <1>4 DEF Messages, Early

LEMMA PollTells == ASSUME Inv, Messages, Poll PROVE Messages'
<1>1. /\ ~pending
      /\ \/ pc[0] = "poll1" /\ pc' = [pc EXCEPT ![0] = "warm2"]
         \/ pc[0] = "poll2" /\ pc' = [pc EXCEPT ![0] = "startup1"]
      /\ UNCHANGED <<patched, icr_lo, pending, cmos, warmreset, machine, ap>>
  BY DEF Poll, Step, messages
<1>2. pc'[1] = pc[1] /\ pc'[0] \in {"warm2", "startup1"}
      /\ (pc'[0] = "warm2" => pc[0] = "poll1")
      /\ (pc'[0] = "startup1" => pc[0] = "poll2")
  BY <1>1 DEF Inv, Cores
<1>3. Reset' = Reset /\ Released' = Released
  BY <1>1 DEF Reset, Released
<1>. QED
  BY <1>1, <1>2, <1>3 DEF Messages, Early

LEMMA SendStartupTells == ASSUME Inv, Messages, SendStartup PROVE Messages'
<1>1. /\ pending' = TRUE
      /\ icr_lo' = StartupMsg \/ (pending /\ icr_lo' = icr_lo)
      /\ \/ pc[0] = "startup1" /\ pc' = [pc EXCEPT ![0] = "startup2"]
         \/ pc[0] = "startup2" /\ pc' = [pc EXCEPT ![0] = "loop"]
      /\ UNCHANGED <<patched, cmos, warmreset, machine, ap>>
  BY DEF SendStartup, Step, icr_startup, icr_rawwr, StartupMsg
<1>2. /\ pc'[1] = pc[1] /\ pc'[0] \in {"startup2", "loop"}
      /\ pc[0] \in {"startup1", "startup2"}
  BY <1>1 DEF Inv, Cores
<1>3. icr_lo' = StartupMsg
  BY <1>1, <1>2 DEF Messages
<1>4. Reset' = Reset /\ Released' = Released
  BY <1>1 DEF Reset, Released
<1>. QED
  BY <1>1, <1>2, <1>3, <1>4 DEF Messages, Early

\* A message finds core 1 as core 0 expects it: INIT is never sent to a CPU that
\* runs, and the second of the startup messages is ignored.
LEMMA DeliverTells ==
    ASSUME Inv, Messages, Deliver
    PROVE  /\ Messages'
           /\ pc' = pc \/ (pc[1] = "off" /\ pc' = [pc EXCEPT ![1] = "patch"])
           /\ pc[0] \in Late
<1>1. /\ pending /\ pending' = FALSE
      /\ UNCHANGED <<patched, icr_lo, cmos, warmreset, machine>>
  BY DEF Deliver
<1>2. pc[0] \in Late
  BY <1>1 DEF Messages, Early, Late, Inv, Places, Cores
<1>3. CASE pc[0] = "poll1"
  <2>1. icr_lo = InitMsg /\ ap = "asleep" /\ pc[1] = "off"
    BY <1>1, <1>3 DEF Messages
  <2>2. pc' = [pc EXCEPT ![1] = "off"]
        /\ ap' = IF machine = "startup" THEN "waiting" ELSE "held"
    BY <2>1, MessagesTold DEF Deliver
  <2>3. pc' = pc
    BY <2>1, <2>2 DEF Inv, Cores
  <2>4. Reset'
    BY <1>1, <2>2 DEF Reset
  <2>. QED
    BY <1>1, <1>2, <1>3, <2>1, <2>2, <2>3, <2>4 DEF Messages, Early
<1>4. CASE pc[0] = "poll2"
  <2>1. icr_lo = DeinitMsg /\ Reset /\ pc[1] = "off"
    BY <1>1, <1>4 DEF Messages, Reset
  <2>2. pc' = pc /\ ap' = IF ap = "held" THEN "firmware" ELSE ap
    BY <2>1, MessagesTold DEF Deliver
  <2>3. Released' /\ ap' # "running"
    BY <1>1, <2>1, <2>2 DEF Released, Reset
  <2>. QED
    BY <1>1, <1>2, <1>4, <2>1, <2>2, <2>3 DEF Messages, Early
<1>5. CASE pc[0] \in {"startup2", "loop"}
  <2>1. icr_lo = StartupMsg /\ Released
    BY <1>1, <1>5 DEF Messages
  <2>2. \/ ap = "waiting" /\ ap' = "running" /\ pc' = [pc EXCEPT ![1] = "patch"]
        \/ UNCHANGED <<ap, pc>>
    BY <2>1, MessagesTold DEF Deliver, Starts
  <2>3. CASE UNCHANGED <<ap, pc>>
    <3>1. Released'
      BY <1>1, <2>1, <2>3 DEF Released
    <3>. QED
      BY <1>1, <1>2, <1>5, <2>1, <2>3, <3>1 DEF Messages, Early
  <2>4. CASE ap = "waiting" /\ ap' = "running" /\ pc' = [pc EXCEPT ![1] = "patch"]
    <3>1. pc[1] = "off" /\ pc'[1] = "patch" /\ pc'[0] = pc[0] /\ patched = 0
      BY <2>4 DEF Messages, Inv, Cores
    <3>2. Released'
      BY <2>4 DEF Released
    <3>. QED
      BY <1>1, <1>2, <1>5, <2>1, <2>4, <3>1, <3>2 DEF Messages, Early
  <2>. QED
    BY <2>2, <2>3, <2>4
<1>6. pc[0] \in {"poll1", "poll2", "startup2", "loop"}
  BY <1>1, <1>2 DEF Messages, Late, Early
<1>. QED
  BY <1>3, <1>4, <1>5, <1>6

LEMMA FirmwareTells ==
    ASSUME Inv, Messages, Firmware
    PROVE  /\ Messages' /\ pc[1] = "off" /\ pc' = [pc EXCEPT ![1] = "patch"]
           /\ pc[0] \in Late
<1>1. /\ ap = "firmware" /\ UNCHANGED <<patched, icr_lo, pending, cmos, warmreset,
                                       machine>>
  BY DEF Firmware, messages
<1>2. /\ pc[1] = "off" /\ patched = 0 /\ Released
      /\ pc[0] \in {"poll2", "startup1", "startup2", "loop"}
      /\ (pc[0] = "poll2" => ~pending)
  BY <1>1 DEF Messages, Early, Reset, Released, Inv, Places, Cores
<1>3. cmos = Word(10) /\ warmreset = TRUE
  BY <1>2 DEF Messages, Early
<1>4. ap' = "running" /\ pc' = [pc EXCEPT ![1] = "patch"]
  BY <1>1, <1>3 DEF Firmware, Starts
<1>5. pc'[1] = "patch" /\ pc'[0] = pc[0]
  BY <1>4 DEF Inv, Cores
<1>6. Released'
  BY <1>4 DEF Released
<1>. QED
  BY <1>1, <1>2, <1>3, <1>4, <1>5, <1>6 DEF Messages, Early, Late

\* The steps of core 0 before the messages, and those of core 1.
LEMMA BeforeMessages ==
    ASSUME Inv, Taken, Messages, pc[0] \in Early,
           pc' \in [Cores -> Places], pc'[0] \in Early \cup {"warm1"}, pc'[1] = pc[1],
           UNCHANGED <<messages, ap>>, patched' \in {0, patched}
    PROVE  Messages'
<1>1. pc[1] = "off" /\ patched' = 0
  BY DEF Messages, Taken
<1>. QED
  BY <1>1 DEF Messages, messages, Early

LEMMA Core1Tells ==
    ASSUME Inv, Messages, pc'[0] = pc[0],
           UNCHANGED <<messages, ap>>,
           \/ pc[1] = "patch" /\ pc'[1] = "mem" /\ patched' = patched + 1
           \/ /\ pc[1] \in {"mem", "core"} /\ pc'[1] \in {"core", "loop", "died"}
              /\ patched' = patched
    PROVE  Messages'
<1>1. Reset' = Reset /\ Released' = Released
  BY DEF Reset, Released, messages
<1>2. patched' = 1 /\ ap' = "running" /\ pc'[1] # "off"
  BY DEF Messages
<1>. QED
  BY <1>1, <1>2 DEF Messages, messages

LEMMA MessagesKept == Inv /\ Apart /\ Taken /\ HandedOff /\ Messages /\ Next => Messages'
<1> SUFFICES ASSUME Inv, Apart, Taken, HandedOff, Messages, Next PROVE Messages'
  OBVIOUS
<1>1. CASE AddRegion
  BY <1>1, BeforeMessages DEF AddRegion, Stop, Inv, Early, Places, Cores
<1>2. CASE CheckMemory
  <2>1. pc[0] = "map" /\ pc' \in {[pc EXCEPT ![0] = "mem"], [pc EXCEPT ![0] = "died"]}
        /\ UNCHANGED <<messages, ap, patched>>
    BY <1>2 DEF CheckMemory, Step, Stop
  <2>. QED
    BY <2>1, BeforeMessages DEF Inv, Early, Places, Cores
<1>3. CASE \E c \in Cores : InitPages(c)
  <2>1. PICK c \in Cores : InitPages(c)
    BY <1>3
  <2>2. pc[c] = "mem" /\ pc' \in {[pc EXCEPT ![c] = "core"], [pc EXCEPT ![c] = "died"]}
        /\ UNCHANGED <<messages, ap, patched>>
    BY <2>1 DEF InitPages, Step, Stop
  <2>. QED
    BY <2>2, BeforeMessages, Core1Tells DEF Inv, Early, Places, Cores
<1>4. CASE \E c \in Cores : InitCore(c)
  <2>1. PICK c \in Cores : InitCore(c)
    BY <1>4
  <2>2. /\ pc[c] = "core"
        /\ pc' \in {[pc EXCEPT ![c] = IF c = 0 THEN "copy" ELSE "loop"],
                    [pc EXCEPT ![c] = "died"]}
        /\ UNCHANGED <<messages, ap, patched>>
    BY <2>1 DEF InitCore, Step, Stop
  <2>. QED
    BY <2>2, BeforeMessages, Core1Tells DEF Inv, Early, Places, Cores
<1>5. CASE CopyBootCode
  BY <1>5, BeforeMessages DEF CopyBootCode, Step, Inv, Early, Places, Cores
<1>6. CASE GivePage
  BY <1>6, BeforeMessages DEF GivePage, Stop, Inv, Early, Places, Cores
<1>7. CASE Publish
  <2>1. pc[0] = "give" /\ pc' \in {[pc EXCEPT ![0] = "warm1"], [pc EXCEPT ![0] = "died"]}
        /\ UNCHANGED <<messages, ap, patched>>
    BY <1>7 DEF Publish, Step, Stop
  <2>. QED
    BY <2>1, BeforeMessages DEF Inv, Early, Places, Cores
<1>8. CASE Patch
  BY <1>8, Core1Tells DEF Patch, Step, Inv, Cores
<1>9. CASE Machine
  BY <1>9, DeliverTells, FirmwareTells DEF Machine
<1>. QED
  BY <1>1, <1>2, <1>3, <1>4, <1>5, <1>6, <1>7, <1>8, <1>9, WarmResetTells,
     SendInitTells, PollTells, SendStartupTells DEF Next, Core0, Core1, Cores

-----------------------------------------------------------------------------
(* Pages *)

Uses0 == {"shared", "small0", "core0", "channel"}
Uses1 == {"small1", "core1"}

Moves ==
    \/ Idle
    \/ /\ \E S \in SUBSET (Indices \ {NONE}) : S \subseteq Found /\ Find(S)
       /\ Free1 = {} /\ \A u \in Uses : use[u] = NONE
    \/ \E u \in Uses0 : Take0(u)
    \/ \E u \in Uses1 : Take1(u)
    \/ GiveMove

\* Every step moves pages in one of five ways.
LEMMA StepMoves ==
    FirmwareOnTop /\ Inv /\ Apart /\ Taken /\ HandedOff /\ Next => Moves
<1> SUFFICES ASSUME FirmwareOnTop, Inv, Apart, Taken, HandedOff, Next PROVE Moves
  OBVIOUS
<1>1. CASE AddRegion
  <2>1. PICK S \in SUBSET PagesOf(map[region]) :
           Find(S) /\ Free1 = {} /\ (\A u \in Uses : use[u] = NONE)
    BY <1>1, AddRegionMoves
  <2>2. region \in 1 .. Len(map)
    BY <1>1 DEF AddRegion, Inv
  <2>3. S \subseteq Indices \ {NONE} /\ S \subseteq Found
    BY <2>1, <2>2, MapRegular, PagesAreIndices DEF Found
  <2>. QED
    BY <2>1, <2>3 DEF Moves
<1>2. CASE CheckMemory
  BY <1>2, CheckMemoryMoves DEF Moves, Uses0
<1>3. CASE \E c \in Cores : InitPages(c)
  BY <1>3, InitPagesMoves DEF Moves, Uses0, Uses1, TakeOf, Small4K, Cores
<1>4. CASE \E c \in Cores : InitCore(c)
  BY <1>4, InitCoreMoves DEF Moves, Uses0, Uses1, TakeOf, CoreT, Cores
<1>5. CASE CopyBootCode
  BY <1>5, CopyBootCodeMoves DEF Moves
<1>6. CASE GivePage
  BY <1>6, GivePageMoves DEF Moves
<1>7. CASE Publish
  BY <1>7, PublishMoves DEF Moves, Uses0
<1>8. CASE WarmReset \/ SendInit \/ Poll \/ SendStartup \/ Patch \/ Machine
  BY <1>8, OthersAreIdle DEF Moves
<1>. QED
  BY <1>1, <1>2, <1>3, <1>4, <1>5, <1>6, <1>7, <1>8 DEF Next, Core0, Core1, Cores

LEMMA ApartKept == Apart /\ Moves => Apart'
<1> SUFFICES ASSUME Apart, Moves PROVE Apart'
  OBVIOUS
<1> USE DEF Apart
<1>1. CASE Idle
  BY <1>1 DEF Idle
<1>2. CASE /\ \E S \in SUBSET (Indices \ {NONE}) : S \subseteq Found /\ Find(S)
           /\ Free1 = {} /\ \A u \in Uses : use[u] = NONE
  BY <1>2 DEF Find
<1>3. ASSUME NEW u \in Uses, NEW p \in Free0 \cup Free1,
             use' = [use EXCEPT ![u] = p],
             Free0' = Free0 \ {p}, Free1' = Free1 \ {p}
      PROVE  Apart'
  BY <1>3
<1>4. CASE \E u \in Uses0 : Take0(u)
  <2>1. PICK u \in Uses0 : Take0(u)
    BY <1>4
  <2>2. PICK p \in Free0 : /\ use' = [use EXCEPT ![u] = p]
                           /\ Free0' = Free0 \ {p} /\ Free1' = Free1
    BY <2>1 DEF Take0
  <2>3. Free1' = Free1 \ {p} /\ u \in Uses
    BY <2>2 DEF Uses0, Uses, Holder
  <2>. QED
    BY <1>3, <2>2, <2>3
<1>5. CASE \E u \in Uses1 : Take1(u)
  <2>1. PICK u \in Uses1 : Take1(u)
    BY <1>5
  <2>2. PICK p \in Free1 : /\ use' = [use EXCEPT ![u] = p]
                           /\ Free1' = Free1 \ {p} /\ Free0' = Free0
    BY <2>1 DEF Take1
  <2>3. Free0' = Free0 \ {p} /\ u \in Uses
    BY <2>2 DEF Uses1, Uses, Holder
  <2>. QED
    BY <1>3, <2>2, <2>3
<1>6. CASE GiveMove
  BY <1>6 DEF GiveMove
<1>. QED
  BY <1>1, <1>2, <1>4, <1>5, <1>6 DEF Moves

\* Only pages of the map get into the pools.
FromMap == Free0 \subseteq Found /\ Free1 \subseteq Found

LEMMA FromMapKept == FromMap /\ Moves /\ map' = map => FromMap'
<1> SUFFICES ASSUME FromMap, Moves, map' = map PROVE FromMap'
  OBVIOUS
<1>1. Found' = Found
  BY DEF Found
<1>. QED
  BY <1>1 DEF FromMap, Moves, Idle, Find, Take0, Take1, GiveMove

-----------------------------------------------------------------------------
(* The steps of each core, and what has been taken and handed off *)

\* Where a step leads, for the steps that start nothing.
LEMMA TakenKept ==
    FirmwareOnTop /\ Inv /\ Apart /\ Taken /\ HandedOff /\ Messages /\ Next => Taken'
<1> SUFFICES ASSUME FirmwareOnTop, Inv, Apart, Taken, HandedOff, Messages, Next
             PROVE  Taken'
  OBVIOUS
<1>1. CASE AddRegion
  <2>1. /\ pc[0] = "map" /\ pc' \in {pc, [pc EXCEPT ![0] = "died"]}
        /\ UNCHANGED <<p4k, pcore, sharedmem, spsc_data>>
        /\ s_pooltmp'[1] = s_pooltmp[1]
    BY <1>1 DEF AddRegion, Stop, handoff, Inv, Cores
  <2>. QED
    BY <2>1 DEF Taken, Early, Inv, Cores
<1>2. CASE CheckMemory
  <2>1. /\ pc[0] = "map" /\ pc' \in {[pc EXCEPT ![0] = "mem"], [pc EXCEPT ![0] = "died"]}
        /\ UNCHANGED <<p4k, pcore, spsc_data>>
        /\ s_pooltmp'[1] = s_pooltmp[1]
    BY <1>2 DEF CheckMemory, Step, Stop, handoff, Inv, Cores
  <2>. QED
    BY <2>1 DEF Taken, Early, Inv, Cores
<1>3. CASE \E c \in Cores : InitPages(c)
  <2>1. PICK c \in Cores : InitPages(c)
    BY <1>3
  <2>2. /\ pc[c] = "mem" /\ pc' \in {[pc EXCEPT ![c] = "core"], [pc EXCEPT ![c] = "died"]}
        /\ UNCHANGED <<pcore, sharedmem, spsc_data>>
        /\ \A d \in Cores \ {c} : s_pooltmp'[d] = s_pooltmp[d] /\ p4k'[d] = p4k[d]
    BY <2>1 DEF InitPages, Step, Stop, handoff, Inv, Taken
  <2>3. p4k' \in [Cores -> Indices]
    <3>1. canalloc(s_pooltmp[c]) => index(s_pooltmp[c]) \in Indices
      BY PoolAfterTaking DEF Inv, SummariesRight, Pages
    <3>. QED
      BY <2>1, <3>1 DEF InitPages, Taken
  <2>4. c = 1 => pc[0] \notin Early
    BY <2>2 DEF Taken
  <2>. QED
    BY <2>2, <2>3, <2>4 DEF Taken, Early, Inv, Cores
<1>4. CASE \E c \in Cores : InitCore(c)
  <2>1. PICK c \in Cores : InitCore(c)
    BY <1>4
  <2>2. /\ pc[c] = "core"
        /\ pc' \in {[pc EXCEPT ![c] = IF c = 0 THEN "copy" ELSE "loop"],
                    [pc EXCEPT ![c] = "died"]}
        /\ UNCHANGED <<p4k, sharedmem>> /\ spsc_data'[0][1] = spsc_data[0][1]
        /\ \A d \in Cores \ {c} : s_pooltmp'[d] = s_pooltmp[d] /\ pcore'[d] = pcore[d]
    BY <2>1 DEF InitCore, Step, Stop, HandedOff, Inv, Taken, Cores
  <2>3. pcore' \in [Cores -> Indices]
    <3>1. canalloc(s_pooltmp[c]) => index(s_pooltmp[c]) \in Indices
      BY PoolAfterTaking DEF Inv, SummariesRight, Pages
    <3>. QED
      BY <2>1, <3>1 DEF InitCore, Taken
  <2>4. c = 1 => pc[0] \notin Early
    BY <2>2 DEF Taken
  <2>5. pc'[c] \in {"copy", "loop"} => pcore'[c] # NONE
    BY <2>1, <2>2, InitCoreMoves DEF Inv, Cores
  <2>. QED
    BY <2>2, <2>3, <2>4, <2>5 DEF Taken, Early, Inv, Cores
<1>5. CASE CopyBootCode
  BY <1>5 DEF CopyBootCode, Step, handoff, Taken, Early, Inv, Cores
<1>6. CASE GivePage
  <2>1. /\ pc[0] = "give" /\ pc' \in {pc, [pc EXCEPT ![0] = "died"]}
        /\ UNCHANGED <<p4k, pcore, sharedmem, spsc_data>>
    BY <1>6 DEF GivePage, Stop
  <2>. QED
    BY <2>1 DEF Taken, Early, Inv, Cores
<1>7. CASE Publish
  <2>1. /\ pc[0] = "give"
        /\ \/ pc' = [pc EXCEPT ![0] = "warm1"]
           \/ pc' = [pc EXCEPT ![0] = "died"] /\ UNCHANGED spsc_data
        /\ UNCHANGED <<p4k, pcore, sharedmem>>
    BY <1>7 DEF Publish, Step, Stop
  <2>. QED
    BY <2>1 DEF Taken, Early, Inv, Cores
<1>8. CASE WarmReset \/ SendInit \/ Poll \/ SendStartup
  <2>1. /\ pc[0] \in Late /\ pc'[0] \in Late /\ pc'[1] = pc[1]
        /\ UNCHANGED <<pools, sharedmem, handoff>>
    BY <1>8, LateSteps
  <2>. QED
    BY <2>1 DEF Taken, Late, Early, pools, handoff
<1>9. CASE Patch \/ Machine
  <2>1. /\ UNCHANGED <<pools, sharedmem, handoff>>
    BY <1>9, OthersAreIdle
  <2>2. /\ pc'[0] = pc[0]
        /\ \/ pc'[1] = pc[1]
           \/ pc[1] = "off" /\ pc'[1] = "patch" /\ pc[0] \in Late
           \/ pc[1] = "patch" /\ pc'[1] = "mem"
    BY <1>9, DeliverTells, FirmwareTells DEF Patch, Step, Machine, Inv, Cores
  <2>. QED
    BY <2>1, <2>2 DEF Taken, Late, Early, pools, handoff
<1>. QED
  BY <1>1, <1>2, <1>3, <1>4, <1>5, <1>6, <1>7, <1>8, <1>9
  DEF Next, Core0, Core1, Cores

LEMMA HandedOffKept ==
    FirmwareOnTop /\ Inv /\ Apart /\ Taken /\ HandedOff /\ Messages /\ Next
        => HandedOff'
<1> SUFFICES ASSUME FirmwareOnTop, Inv, Apart, Taken, HandedOff, Messages, Next
             PROVE  HandedOff'
  OBVIOUS
<1>1. CASE AddRegion
  <2>1. /\ pc[0] = "map" /\ pc' \in {pc, [pc EXCEPT ![0] = "died"]}
        /\ UNCHANGED <<sharedmem, handoff>>
    BY <1>1 DEF AddRegion, Stop
  <2>. QED
    BY <2>1 DEF HandedOff, handoff, Early, Inv, Cores
<1>2. CASE CheckMemory
  <2>1. pc[0] = "map" /\ pc[1] = "off" /\ UNCHANGED handoff
    BY <1>2, CheckMemoryMoves DEF CheckMemory, Taken, Early
  <2>2. CASE pc' = [pc EXCEPT ![0] = "died"]
    BY <2>1, <2>2 DEF HandedOff, handoff, Early, Inv, Cores
  <2>3. CASE pc' = [pc EXCEPT ![0] = "mem"] /\ Take0("shared")
    <3>1. sharedmem' \in Free0
      BY <2>3 DEF Take0, use, Apart, Uses, Holder
    <3>2. sharedmem' # NONE
      BY <3>1 DEF Apart
    <3>. QED
      BY <2>1, <2>3, <3>2 DEF HandedOff, handoff, Early, Inv, Cores
  <2>. QED
    BY <1>2, <2>2, <2>3, CheckMemoryMoves
<1>3. CASE \E c \in Cores : InitPages(c)
  <2>1. PICK c \in Cores : InitPages(c)
    BY <1>3
  <2>2. /\ pc[c] = "mem" /\ pc' \in {[pc EXCEPT ![c] = "core"], [pc EXCEPT ![c] = "died"]}
        /\ UNCHANGED <<sharedmem, handoff>>
    BY <2>1 DEF InitPages, Step, Stop
  <2>. QED
    BY <2>2 DEF HandedOff, handoff, Early, Inv, Cores
<1>4. CASE \E c \in Cores : InitCore(c)
  <2>1. PICK c \in Cores : InitCore(c)
    BY <1>4
  <2>2. /\ pc[c] = "core" /\ UNCHANGED <<sharedmem, handed, area>>
        /\ \/ pc' = [pc EXCEPT ![c] = "died"] /\ UNCHANGED spsc_data
           \/ /\ pc' = [pc EXCEPT ![c] = IF c = 0 THEN "copy" ELSE "loop"]
              /\ spsc_data' = [spsc_data EXCEPT ![c][0] =
                                  IF c = 0 THEN NONE ELSE area.master]
    BY <2>1 DEF InitCore, Step, Stop
  <2>3. NONE \in Indices
    BY WordsAssumption DEF NONE, Indices
  <2>4. spsc_data' \in [Cores -> [Cores -> Indices]]
    BY <2>2, <2>3 DEF HandedOff, Cores
  <2>5. /\ spsc_data'[0][1] = spsc_data[0][1]
        /\ c = 0 => spsc_data'[1] = spsc_data[1]
        /\ c = 1 /\ pc'[1] = "loop" => spsc_data'[1][0] = area.master
    BY <2>2 DEF HandedOff, Cores, Inv
  <2>. QED
    BY <2>2, <2>4, <2>5 DEF HandedOff, Early, Inv, Cores
<1>5. CASE CopyBootCode
  BY <1>5 DEF CopyBootCode, Step, HandedOff, handoff, Early, Inv, Cores
<1>6. CASE GivePage
  <2>1. /\ pc[0] = "give" /\ handed < 10 /\ UNCHANGED <<sharedmem, spsc_data, area>>
        /\ \/ pc' = pc /\ handed' = handed + 1
           \/ pc' = [pc EXCEPT ![0] = "died"] /\ handed' = handed
    BY <1>6 DEF GivePage, Stop
  <2>. QED
    BY <2>1 DEF HandedOff, Early, Inv, Cores
<1>7. CASE Publish
  <2>1. pc[0] = "give" /\ handed = 10 /\ UNCHANGED <<handed, sharedmem>>
        /\ pc[1] = "off"
    BY <1>7 DEF Publish, Taken, Early
  <2>2. CASE pc' = [pc EXCEPT ![0] = "died"] /\ UNCHANGED <<spsc_data, area>>
    BY <2>1, <2>2 DEF HandedOff, Early, Inv, Cores
  <2>3. CASE /\ pc' = [pc EXCEPT ![0] = "warm1"]
             /\ area' = [rank |-> 1, master |-> spsc_data'[0][1],
                         shared |-> sharedmem]
             /\ spsc_data' \in [Cores -> [Cores -> Indices]]
             /\ spsc_data'[0][1] \in Free0
    <3>1. spsc_data'[0][1] \in Indices /\ spsc_data'[0][1] # NONE
      BY <2>3 DEF Apart
    <3>2. sharedmem \in Indices /\ sharedmem # NONE
      BY <2>1 DEF HandedOff, Apart, use, Uses, Holder
    <3>3. area' \in [rank : Cores, master : Indices, shared : Indices]
      BY <2>3, <3>1, <3>2 DEF Cores
    <3>4. NONE \notin {area'.master, area'.shared}
      BY <2>3, <3>1, <3>2
    <3>. QED
      BY <2>1, <2>3, <3>1, <3>2, <3>3, <3>4 DEF HandedOff, Early, Inv, Cores
  <2>. QED
    BY <1>7, <2>2, <2>3, PublishMoves
<1>8. CASE WarmReset \/ SendInit \/ Poll \/ SendStartup
  <2>1. /\ pc[0] \in Late /\ pc'[0] \in Late /\ pc'[1] = pc[1]
        /\ UNCHANGED <<sharedmem, handoff>>
    BY <1>8, LateSteps
  <2>. QED
    BY <2>1 DEF HandedOff, Late, Early, handoff
<1>9. CASE Patch \/ Machine
  <2>1. /\ UNCHANGED <<sharedmem, handoff>>
    BY <1>9, OthersAreIdle
  <2>2. pc'[0] = pc[0] /\ (pc'[1] = "loop" => pc[1] = "loop")
    BY <1>9, DeliverTells, FirmwareTells DEF Patch, Step, Machine, Inv, Cores
  <2>. QED
    BY <2>1, <2>2 DEF HandedOff, handoff
<1>. QED
  BY <1>1, <1>2, <1>3, <1>4, <1>5, <1>6, <1>7, <1>8, <1>9
  DEF Next, Core0, Core1, Cores

-----------------------------------------------------------------------------
(* How many pages are left *)

LEMMA FoundIsFinite ==
    ASSUME FirmwareOnTop, Inv
    PROVE  Cardinality(Found) \in Nat
<1>1. Found \subseteq Indices
  BY MapRegular, PagesAreIndices DEF Found
<1>2. IsFiniteSet(Indices)
  <2>1. N * W - 1 \in Int
    BY WordsAssumption
  <2>. QED
    BY <2>1, FS_Interval DEF Indices
<1>. QED
  BY <1>1, <1>2, FS_Subset, FS_CardinalityType

LEMMA FreeCounts ==
    /\ Cardinality(Free0) \in Nat /\ Cardinality(Free1) \in Nat
    /\ \A p \in Free0 : Cardinality(Free0 \ {p}) = Cardinality(Free0) - 1
    /\ \A p \in Free1 : Cardinality(Free1 \ {p}) = Cardinality(Free1) - 1
    /\ \A p \in Free0 : p \notin Free1 =>
          Cardinality(Free1 \cup {p}) = Cardinality(Free1) + 1
    /\ Free0 = {} => Cardinality(Free0) = 0
    /\ Free1 = {} => Cardinality(Free1) = 0
<1>1. IsFiniteSet(Free0) /\ IsFiniteSet(Free1)
  BY PagesAreFinite DEF Free0, Free1
<1>. QED
  BY <1>1, FS_CardinalityType, FS_RemoveElement, FS_AddElement, FS_EmptySet

\* No page is found twice, unless a region is cut to 32 bits.
LEMMA FoundOnce ==
    ASSUME FirmwareOnTop, NoOverlap, Inv, ~Above, region \in 1 .. Len(map)
    PROVE  PagesOf(map[region]) \cap FoundSoFar = {}
<1> SUFFICES ASSUME NEW k \in 1 .. region - 1
             PROVE  PagesOf(map[region]) \cap PagesOf(map[k]) = {}
  BY DEF FoundSoFar
<1>1. /\ k \in 1 .. Len(map) /\ k # region
      /\ Regular(map[region]) /\ Regular(map[k])
  BY MapRegular
<1>2. /\ map[region].addr + map[region].len <= Wrap
      /\ map[k].addr + map[k].len <= Wrap
  <2>1. \A j \in 1 .. Len(map) : ~(map[j].addr + map[j].len > Wrap)
    BY MapRegular DEF Above
  <2>2. \A j \in 1 .. Len(map) : map[j].addr \in Nat /\ map[j].len \in Nat
    BY MapRegular DEF Regular
  <2>. QED
    BY <1>1, <2>1, <2>2, SizesAssumption
<1>3. CASE map[region].type # 1 \/ map[k].type # 1
  BY <1>3 DEF PagesOf
<1>4. CASE map[region].type = 1 /\ map[k].type = 1
  <2>1. \/ map[region].addr + map[region].len <= map[k].addr
        \/ map[k].addr + map[k].len <= map[region].addr
    BY <1>1, <1>4, MapRegular DEF NoOverlap, Inv
  <2>. QED
    BY <1>1, <1>2, <2>1, PagesApart
<1>. QED
  BY <1>3, <1>4

LEMMA MapStays == Next => map' = map
BY DEF Next, Core0, Core1, Machine, AddRegion, CheckMemory, InitPages, InitCore,
       CopyBootCode, GivePage, Publish, WarmReset, SendInit, icr_init, icr_rawwr,
       Poll, SendStartup, icr_startup, Patch, Deliver, Firmware

LEMMA CountedKept ==
    FirmwareOnTop /\ NoOverlap /\ Inv /\ Apart /\ Taken /\ HandedOff /\ Messages
        /\ Counted /\ Next => Counted'
<1> SUFFICES ASSUME FirmwareOnTop, NoOverlap, Inv, Apart, Taken, HandedOff, Messages,
                    Counted, Next
             PROVE  Counted'
  OBVIOUS
<1> DEFINE n0 == Cardinality(Free0)
           n1 == Cardinality(Free1)
           found == Cardinality(Found)
<1>1. n0 \in Nat /\ n1 \in Nat /\ found \in Nat
  BY FreeCounts, FoundIsFinite
<1>2. /\ Idle => n0' = n0 /\ n1' = n1
      /\ \A u : Take0(u) => n0' = n0 - 1 /\ n1' = n1
      /\ \A u : Take1(u) => n0' = n0 /\ n1' = n1 - 1
      /\ GiveMove => n0' = n0 - 1 /\ n1' = n1 + 1
      /\ Free0 = {} => n0 = 0
      /\ Free1 = {} => n1 = 0
  BY FreeCounts DEF Idle, Take0, Take1, GiveMove, Apart
<1>3. map' = map
  BY MapStays
<1>4. (Above' <=> Above) /\ found' = found
  BY <1>3 DEF Above, Found
<1> HIDE DEF n0, n1, found
<1> DEFINE Left ==
             /\ pc[0] = "map" => Free0 = FoundSoFar
             /\ pc[0] = "mem" => n0 = found - 1
             /\ pc[0] = "core" => n0 = found - 2
             /\ pc[0] \in {"copy", "give"} => n0 = found - 3 - handed
             /\ pc[0] = "died" => found < 14
           Given ==
             /\ pc[0] = "give" => n1 = handed
             /\ pc[0] \notin Early =>
                   /\ pc[1] \in {"off", "patch", "mem"} => n1 = 10
                   /\ pc[1] = "core" => n1 = 9
             /\ pc[1] # "died"
<1>5. (Above \/ Left) /\ Given
  BY DEF Counted, n0, n1, found
<1>6. SUFFICES (Above \/ Left') /\ Given'
  BY <1>4 DEF Counted, n0, n1, found
<1>7. CASE AddRegion
  <2>1. PICK S \in SUBSET PagesOf(map[region]) :
           /\ Find(S)
           /\ \/ pc' = pc /\ S = PagesOf(map[region])
              \/ /\ pc' = [pc EXCEPT ![0] = "died"]
                 /\ PagesOf(map[region]) \cap Free0 # {}
    BY <1>7, AddRegionMoves
  <2>2. pc[0] = "map" /\ region \in 1 .. Len(map) /\ region' = region + 1
    BY <1>7 DEF AddRegion, Inv
  <2>3. pc[1] = "off" /\ pc'[1] = "off" /\ pc'[0] \in {"map", "died"}
    BY <2>1, <2>2 DEF Taken, Early, Inv, Cores
  <2>4. Given'
    BY <2>3 DEF Early
  <2>5. ASSUME ~Above PROVE Left'
    <3>1. Free0 = FoundSoFar /\ PagesOf(map[region]) \cap FoundSoFar = {}
      BY <1>5, <2>2, <2>5, FoundOnce
    <3>2. pc' = pc /\ S = PagesOf(map[region])
      BY <2>1, <3>1
    <3>3. FoundSoFar' = FoundSoFar \cup PagesOf(map[region])
      <4>1. 1 .. region' - 1 = (1 .. region - 1) \cup {region}
        BY <2>2
      <4>. QED
        BY <1>3, <4>1 DEF FoundSoFar
    <3>4. Free0' = FoundSoFar'
      BY <2>1, <3>1, <3>2, <3>3 DEF Find
    <3>. QED
      BY <2>2, <3>2, <3>4
  <2>. QED
    BY <2>4, <2>5
<1>8. CASE CheckMemory
  <2>1. /\ pc[0] = "map" /\ region > Len(map)
        /\ \/ pc' = [pc EXCEPT ![0] = "mem"] /\ n0' = n0 - 1
           \/ pc' = [pc EXCEPT ![0] = "died"] /\ n0 <= 10
    BY <1>2, <1>8, CheckMemoryMoves DEF n0
  <2>2. pc[1] = "off" /\ pc'[1] = "off" /\ pc'[0] \in {"mem", "died"}
    BY <2>1 DEF Taken, Early, Inv, Cores
  <2>3. Given'
    BY <2>2 DEF Early
  <2>4. ASSUME ~Above PROVE n0 = found
    <3>1. region - 1 = Len(map) /\ DOMAIN map = 1 .. Len(map)
      BY <2>1, MapRegular DEF Inv
    <3>2. FoundSoFar = Found
      BY <3>1 DEF FoundSoFar, Found
    <3>. QED
      BY <1>5, <2>1, <2>4, <3>2 DEF n0, found
  <2>5. ASSUME ~Above PROVE Left'
    BY <1>1, <1>4, <2>1, <2>2, <2>4, <2>5 DEF Inv, Cores
  <2>. QED
    BY <2>3, <2>5
<1>9. CASE InitPages(0)
  <2>1. /\ pc[0] = "mem" /\ UNCHANGED handed
        /\ \/ pc' = [pc EXCEPT ![0] = "core"] /\ n0' = n0 - 1
           \/ pc' = [pc EXCEPT ![0] = "died"] /\ n0 = 0
    <3>1. handed' = handed
      BY <1>9 DEF InitPages, handoff
    <3>. QED
      BY <1>2, <1>9, <3>1, InitPagesMoves DEF TakeOf, FreeOf, Cores
  <2>2. pc[1] = "off" /\ pc'[1] = "off" /\ pc'[0] \in {"core", "died"}
    BY <2>1 DEF Taken, Early, Inv, Cores
  <2>3. Given'
    BY <2>2 DEF Early
  <2>4. ASSUME ~Above PROVE Left'
    BY <1>1, <1>4, <1>5, <2>1, <2>2, <2>4 DEF Inv, Cores
  <2>. QED
    BY <2>3, <2>4
<1>10. CASE InitCore(0)
  <2>1. /\ pc[0] = "core" /\ UNCHANGED handed
        /\ \/ pc' = [pc EXCEPT ![0] = "copy"] /\ n0' = n0 - 1
           \/ pc' = [pc EXCEPT ![0] = "died"] /\ n0 = 0
    <3>1. handed' = handed
      BY <1>10 DEF InitCore
    <3>. QED
      BY <1>2, <1>10, <3>1, InitCoreMoves DEF TakeOf, FreeOf, Cores
  <2>2. pc[1] = "off" /\ pc'[1] = "off" /\ pc'[0] \in {"copy", "died"} /\ handed = 0
    BY <2>1 DEF Taken, HandedOff, Early, Inv, Cores
  <2>3. Given'
    BY <2>2 DEF Early
  <2>4. ASSUME ~Above PROVE Left'
    BY <1>1, <1>4, <1>5, <2>1, <2>2, <2>4 DEF Inv, Cores
  <2>. QED
    BY <2>3, <2>4
<1>11. CASE CopyBootCode
  <2>1. /\ pc[0] = "copy" /\ UNCHANGED handed /\ pc' = [pc EXCEPT ![0] = "give"]
        /\ n0' = n0 /\ n1' = 0
    <3>1. handed' = handed
      BY <1>11 DEF CopyBootCode, handoff
    <3>. QED
      BY <1>2, <1>11, <3>1, CopyBootCodeMoves
  <2>2. pc[1] = "off" /\ pc'[1] = "off" /\ pc'[0] = "give" /\ handed = 0
    BY <2>1 DEF Taken, HandedOff, Early, Inv, Cores
  <2>3. Given'
    BY <2>1, <2>2 DEF Early
  <2>4. ASSUME ~Above PROVE Left'
    BY <1>1, <1>4, <1>5, <2>1, <2>2, <2>4
  <2>. QED
    BY <2>3, <2>4
<1>12. CASE GivePage
  <2>1. /\ pc[0] = "give" /\ handed < 10
        /\ \/ pc' = pc /\ handed' = handed + 1 /\ n0' = n0 - 1 /\ n1' = n1 + 1
           \/ pc' = [pc EXCEPT ![0] = "died"] /\ n0 = 0
    BY <1>2, <1>12, GivePageMoves
  <2>2. /\ pc[1] = "off" /\ pc'[1] = "off" /\ pc'[0] \in {"give", "died"}
        /\ handed \in 0 .. 10
    BY <2>1 DEF Taken, HandedOff, Early, Inv, Cores
  <2>3. Given'
    BY <1>1, <1>5, <2>1, <2>2 DEF Early, Inv, Cores
  <2>4. ASSUME ~Above PROVE Left'
    BY <1>1, <1>4, <1>5, <2>1, <2>2, <2>4 DEF Inv, Cores
  <2>. QED
    BY <2>3, <2>4
<1>13. CASE Publish
  <2>1. /\ pc[0] = "give" /\ handed = 10
        /\ \/ pc' = [pc EXCEPT ![0] = "warm1"] /\ n1' = n1
           \/ pc' = [pc EXCEPT ![0] = "died"] /\ n0 = 0
    BY <1>2, <1>13, PublishMoves
  <2>2. pc[1] = "off" /\ pc'[1] = "off" /\ pc'[0] \in {"warm1", "died"}
    BY <2>1 DEF Taken, Early, Inv, Cores
  <2>3. Given'
    BY <1>1, <1>5, <2>1, <2>2 DEF Early, Inv, Cores
  <2>4. ASSUME ~Above PROVE Left'
    BY <1>1, <1>4, <1>5, <2>1, <2>2, <2>4 DEF Inv, Cores
  <2>. QED
    BY <2>3, <2>4
<1>14. CASE WarmReset \/ SendInit \/ Poll \/ SendStartup
  <2>1. /\ pc[0] \in Late /\ pc'[0] \in Late /\ pc'[1] = pc[1]
    BY <1>14, LateSteps
  <2>2. n1' = n1
    BY <1>2, <1>14, OthersAreIdle
  <2>. QED
    BY <1>5, <2>1, <2>2 DEF Late, Early
<1>15. CASE Patch \/ Machine
  <2>1. n0' = n0 /\ n1' = n1 /\ UNCHANGED handed
    <3>1. handed' = handed
      BY <1>15, OthersAreIdle DEF handoff
    <3>. QED
      BY <1>2, <1>15, <3>1, OthersAreIdle
  <2>2. /\ pc'[0] = pc[0] /\ pc[0] \in Late
        /\ \/ pc'[1] = pc[1]
           \/ pc[1] = "off" /\ pc'[1] = "patch"
           \/ pc[1] = "patch" /\ pc'[1] = "mem"
    <3>1. CASE Patch
      BY <3>1 DEF Patch, Step, Inv, Cores, Taken, Early, Late, Places, Messages
    <3>2. CASE Machine
      BY <3>2, DeliverTells, FirmwareTells DEF Machine, Inv, Cores, Late
    <3>. QED
      BY <1>15, <3>1, <3>2
  <2>. QED
    BY <1>5, <2>1, <2>2 DEF Late, Early
<1>16. CASE InitPages(1) \/ InitCore(1)
  <2>1. /\ UNCHANGED handed /\ n0' = n0
        /\ \/ pc[1] = "mem" /\ pc' = [pc EXCEPT ![1] = "core"] /\ n1' = n1 - 1
           \/ pc[1] = "core" /\ pc' = [pc EXCEPT ![1] = "loop"]
           \/ pc[1] \in {"mem", "core"} /\ n1 = 0
    <3>1. handed' = handed
      BY <1>16 DEF InitPages, InitCore, handoff
    <3>2. 1 \in Cores /\ 1 # 0
      BY DEF Cores
    <3>3. CASE InitPages(1)
      <4>1. /\ pc[1] = "mem"
            /\ \/ pc' = [pc EXCEPT ![1] = "core"] /\ Take1("small1")
               \/ Idle /\ Free1 = {}
        BY <3>2, <3>3, InitPagesMoves DEF TakeOf, FreeOf, Small4K
      <4>. QED
        BY <1>2, <3>1, <4>1
    <3>4. CASE InitCore(1)
      <4>1. /\ pc[1] = "core"
            /\ \/ pc' = [pc EXCEPT ![1] = "loop"] /\ Take1("core1")
               \/ Idle /\ Free1 = {}
        BY <3>2, <3>4, InitCoreMoves DEF TakeOf, FreeOf, CoreT
      <4>. QED
        BY <1>2, <3>1, <4>1
    <3>. QED
      BY <1>16, <3>3, <3>4
  <2>2. pc[0] \in Late
    BY <2>1 DEF Taken, Early, Late, Inv, Places, Cores, Messages
  <2>3. n1 # 0
    BY <1>5, <2>1, <2>2 DEF Late, Early
  <2>4. pc'[0] = pc[0] /\ pc'[1] \in {"core", "loop"}
        /\ (pc'[1] = "core" => pc[1] = "mem" /\ n1' = n1 - 1)
    BY <2>1, <2>3 DEF Inv, Cores
  <2>. QED
    BY <1>1, <1>5, <2>2, <2>4 DEF Late, Early
<1>. QED
  BY <1>7, <1>8, <1>9, <1>10, <1>11, <1>12, <1>13, <1>14, <1>15, <1>16
  DEF Next, Core0, Core1

-----------------------------------------------------------------------------
(* The refinement *)

\* A page has the owner whose pool has it, or the one that took it.
OwnersOf(F0, F1, us, p) ==
    (IF p \in F0 THEN {"pool of core 0"} ELSE {})
    \cup (IF p \in F1 THEN {"pool of core 1"} ELSE {})
    \cup {Holder[u] : u \in {v \in Uses : p # NONE /\ us[v] = p}}

LEMMA HoldersOf ==
    /\ Uses = {"shared", "small0", "core0", "channel", "small1", "core1"}
    /\ Holder["shared"] = "both" /\ Holder["channel"] = "both"
    /\ Holder["small0"] = "core 0" /\ Holder["core0"] = "core 0"
    /\ Holder["small1"] = "core 1" /\ Holder["core1"] = "core 1"
BY DEF Uses, Holder

LEMMA OwnersAre == \A p \in Indices : Owners(p) = OwnersOf(Free0, Free1, use, p)
<1> SUFFICES ASSUME NEW p \in Indices
             PROVE  Owners(p) = OwnersOf(Free0, Free1, use, p)
  OBVIOUS
<1> DEFINE U == {v \in Uses : p # NONE /\ use[v] = p}
           H == {Holder[u] : u \in U}
<1>1. H = (IF p # NONE /\ p \in {p4k[0], pcore[0]} THEN {"core 0"} ELSE {})
          \cup (IF p # NONE /\ p \in {p4k[1], pcore[1]} THEN {"core 1"} ELSE {})
          \cup (IF p # NONE /\ p \in {sharedmem, spsc_data[0][1]} THEN {"both"} ELSE {})
  <2>2. /\ use["shared"] = sharedmem /\ use["small0"] = p4k[0]
        /\ use["core0"] = pcore[0] /\ use["channel"] = spsc_data[0][1]
        /\ use["small1"] = p4k[1] /\ use["core1"] = pcore[1]
    BY DEF use
  <2> HIDE DEF U
  <2>4. U = {v \in Uses : p # NONE /\ use[v] = p}
    BY DEF U
  <2>5. \A x : x \in H <=> \E u \in Uses : p # NONE /\ use[u] = p /\ x = Holder[u]
    BY <2>4
  <2>6. \A x : x \in H <=>
           /\ p # NONE
           /\ \/ x = "both" /\ (sharedmem = p \/ spsc_data[0][1] = p)
              \/ x = "core 0" /\ (p4k[0] = p \/ pcore[0] = p)
              \/ x = "core 1" /\ (p4k[1] = p \/ pcore[1] = p)
    <3> SUFFICES ASSUME NEW x
                 PROVE  (\E u \in Uses : p # NONE /\ use[u] = p /\ x = Holder[u]) <=>
                        /\ p # NONE
                        /\ \/ x = "both" /\ (sharedmem = p \/ spsc_data[0][1] = p)
                           \/ x = "core 0" /\ (p4k[0] = p \/ pcore[0] = p)
                           \/ x = "core 1" /\ (p4k[1] = p \/ pcore[1] = p)
      BY <2>5
    <3>. QED
      BY <2>2, HoldersOf
  <2> HIDE DEF H
  <2>7. \A x : x \in (IF p # NONE /\ p \in {p4k[0], pcore[0]} THEN {"core 0"} ELSE {})
                     \cup (IF p # NONE /\ p \in {p4k[1], pcore[1]} THEN {"core 1"} ELSE {})
                     \cup (IF p # NONE /\ p \in {sharedmem, spsc_data[0][1]}
                           THEN {"both"} ELSE {}) <=>
           /\ p # NONE
           /\ \/ x = "both" /\ (sharedmem = p \/ spsc_data[0][1] = p)
              \/ x = "core 0" /\ (p4k[0] = p \/ pcore[0] = p)
              \/ x = "core 1" /\ (p4k[1] = p \/ pcore[1] = p)
    OBVIOUS
  <2>. QED
    BY <2>6, <2>7
<1>. QED
  BY <1>1 DEF Owners, Free0, Free1, OwnersOf

Separate(F0, F1, us) ==
    /\ F0 \cap F1 = {}
    /\ \A u \in Uses : us[u] \notin F0 \cup F1
    /\ \A u, v \in Uses : us[u] = us[v] => u = v \/ us[u] = NONE

\* Pools and pages in use that do not overlap give each page one owner.
LEMMA OneOwner ==
    ASSUME NEW F0, NEW F1, NEW us, Separate(F0, F1, us), NEW p
    PROVE  /\ p \in F0 => OwnersOf(F0, F1, us, p) = {"pool of core 0"}
           /\ p \in F1 => OwnersOf(F0, F1, us, p) = {"pool of core 1"}
           /\ \A u \in Uses : us[u] = p /\ p # NONE =>
                 OwnersOf(F0, F1, us, p) = {Holder[u]}
           /\ p \notin F0 \cup F1 /\ (p = NONE \/ \A u \in Uses : us[u] # p)
                 => OwnersOf(F0, F1, us, p) = {}
<1> DEFINE U == {v \in Uses : p # NONE /\ us[v] = p}
           H == {Holder[u] : u \in U}
<1>1. OwnersOf(F0, F1, us, p) =
         (IF p \in F0 THEN {"pool of core 0"} ELSE {})
         \cup (IF p \in F1 THEN {"pool of core 1"} ELSE {}) \cup H
  BY DEF OwnersOf
<1>2. p \in F0 => p \notin F1 /\ U = {}
  BY DEF Separate
<1>3. p \in F1 => p \notin F0 /\ U = {}
  BY DEF Separate
<1>4. \A u \in Uses : us[u] = p /\ p # NONE =>
         p \notin F0 /\ p \notin F1 /\ U = {u}
  BY DEF Separate
<1>5. p = NONE \/ (\A u \in Uses : us[u] # p) => U = {}
  OBVIOUS
<1>6. (U = {} => H = {}) /\ \A u : U = {u} => H = {Holder[u]}
  OBVIOUS
<1> HIDE DEF U, H
<1>. QED
  BY <1>1, <1>2, <1>3, <1>4, <1>5, <1>6

LEMMA NoPageTwiceFollows == Apart => NoPageTwice
<1> SUFFICES ASSUME Apart PROVE NoPageTwice
  OBVIOUS
<1>1. ASSUME NEW p \in Indices PROVE Cardinality(Owners(p)) <= 1
  <2>1. \/ OwnersOf(Free0, Free1, use, p) = {}
        \/ \E x : OwnersOf(Free0, Free1, use, p) = {x}
    <3>1. Separate(Free0, Free1, use)
      BY DEF Apart, Separate
    <3>2. /\ p \in Free0 => OwnersOf(Free0, Free1, use, p) = {"pool of core 0"}
          /\ p \in Free1 => OwnersOf(Free0, Free1, use, p) = {"pool of core 1"}
          /\ \A u \in Uses : use[u] = p /\ p # NONE =>
                OwnersOf(Free0, Free1, use, p) = {Holder[u]}
          /\ p \notin Free0 \cup Free1 /\ (p = NONE \/ \A u \in Uses : use[u] # p)
                => OwnersOf(Free0, Free1, use, p) = {}
      BY <3>1, OneOwner
    <3>. QED
      BY <3>2
  <2>2. \A x : Cardinality({x}) = 1
    BY FS_Singleton
  <2>. QED
    BY <2>1, <2>2, FS_EmptySet, OwnersAre
<1>2. /\ use["small0"] = p4k[0] /\ use["core0"] = pcore[0]
      /\ use["small1"] = p4k[1] /\ use["core1"] = pcore[1]
      /\ use["shared"] = sharedmem /\ use["channel"] = spsc_data[0][1]
  BY DEF use
<1>3. {"shared", "small0", "core0", "channel", "small1", "core1"} \subseteq Uses
  BY DEF Uses, Holder
<1>4. \A c \in Cores : p4k[c] = pcore[c] => p4k[c] = NONE
  BY <1>2, <1>3 DEF Apart, Cores
<1>5. sharedmem = spsc_data[0][1] => sharedmem = NONE
  BY <1>2, <1>3 DEF Apart
<1>. QED
  BY <1>1, <1>4, <1>5 DEF NoPageTwice

owner == [p \in Indices |-> Owners(p)]

LEMMA SameOwners ==
    ASSUME NEW F0, NEW F1, NEW us, NEW G0, NEW G1, NEW ns, NEW q,
           (q \in F0) = (q \in G0), (q \in F1) = (q \in G1),
           \A v \in Uses : q # NONE => (us[v] = q <=> ns[v] = q)
    PROVE  OwnersOf(F0, F1, us, q) = OwnersOf(G0, G1, ns, q)
<1>1. {v \in Uses : q # NONE /\ us[v] = q} = {v \in Uses : q # NONE /\ ns[v] = q}
  OBVIOUS
<1>. QED
  BY <1>1 DEF OwnersOf

\* The steps of the boot change owners as PageOwners allows it.
LEMMA MovesAreChanges ==
    Apart /\ Apart' /\ Moves => Ownership!Next \/ UNCHANGED owner
<1> SUFFICES ASSUME Apart, Apart', Moves PROVE Ownership!Next \/ UNCHANGED owner
  OBVIOUS
<1>1. \A p \in Indices : Owners(p) = OwnersOf(Free0, Free1, use, p)
  BY OwnersAre
<1>2. (\A p \in Indices : Owners(p) = OwnersOf(Free0, Free1, use, p))'
  BY OwnersAre, PTL
<1>3. \A p \in Indices : owner[p] = OwnersOf(Free0, Free1, use, p)
  BY <1>1 DEF owner
<1>4. \A p \in Indices : owner'[p] = OwnersOf(Free0', Free1', use', p)
  BY <1>2 DEF owner
<1>5. DOMAIN owner = Indices /\ DOMAIN owner' = Indices
      /\ owner = [p \in Indices |-> owner[p]]
      /\ owner' = [p \in Indices |-> owner'[p]]
  BY DEF owner
<1>6. (\A p \in Indices : owner'[p] = owner[p]) => owner' = owner
  BY <1>5
<1>S. Separate(Free0, Free1, use) /\ Separate(Free0', Free1', use')
  BY DEF Apart, Separate
<1>A. \A p :
         /\ p \in Free0 => OwnersOf(Free0, Free1, use, p) = {"pool of core 0"}
         /\ p \in Free1 => OwnersOf(Free0, Free1, use, p) = {"pool of core 1"}
         /\ \A u \in Uses : use[u] = p /\ p # NONE =>
               OwnersOf(Free0, Free1, use, p) = {Holder[u]}
         /\ p \notin Free0 \cup Free1 /\ (p = NONE \/ \A u \in Uses : use[u] # p)
               => OwnersOf(Free0, Free1, use, p) = {}
  BY <1>S, OneOwner
<1>B. \A p :
         /\ p \in Free0' => OwnersOf(Free0', Free1', use', p) = {"pool of core 0"}
         /\ p \in Free1' => OwnersOf(Free0', Free1', use', p) = {"pool of core 1"}
         /\ \A u \in Uses : use'[u] = p /\ p # NONE =>
               OwnersOf(Free0', Free1', use', p) = {Holder[u]}
  BY <1>S, OneOwner
<1>7. CASE Idle
  BY <1>3, <1>4, <1>6, <1>7 DEF Idle
<1>8. ASSUME NEW p \in Indices, NEW pool, NEW to,
             owner[p] = {pool}, owner'[p] = {to},
             \A q \in Indices \ {p} : owner'[q] = owner[q]
      PROVE  owner' = [owner EXCEPT ![p] = {to}]
  BY <1>5, <1>8
<1>9. CASE /\ \E S \in SUBSET (Indices \ {NONE}) : S \subseteq Found /\ Find(S)
           /\ Free1 = {} /\ \A u \in Uses : use[u] = NONE
  <2>1. PICK S \in SUBSET (Indices \ {NONE}) :
           Free0' = Free0 \cup S /\ Free1' = Free1 /\ use' = use
    BY <1>9 DEF Find
  <2>2. ASSUME NEW p \in Indices
        PROVE  \/ owner'[p] = owner[p]
               \/ owner[p] = {} /\ owner'[p] = {"pool of core 0"}
    <3>1. CASE p \in Free0 \/ p \notin S
      BY <1>3, <1>4, <2>1, <3>1 DEF OwnersOf
    <3>2. CASE p \notin Free0 /\ p \in S
      <4>1. p # NONE /\ \A u \in Uses : use[u] # p
        BY <1>9, <3>2
      <4>2. OwnersOf(Free0, Free1, use, p) = {}
        BY <1>9, <3>2, <4>1, <1>A
      <4>3. OwnersOf(Free0', Free1', use', p) = {"pool of core 0"}
        BY <2>1, <3>2, <1>B
      <4>. QED
        BY <1>3, <1>4, <4>2, <4>3
    <3>. QED
      BY <3>1, <3>2
  <2>3. Ownership!Found
    BY <1>5, <2>2 DEF Ownership!Found, Ownership!Pool0, owner
  <2>. QED
    BY <2>3 DEF Ownership!Next
<1>10. ASSUME NEW p \in Indices, NEW pool \in {"pool of core 0", "pool of core 1"},
              NEW to \in {"pool of core 1", "core 0", "core 1", "both"},
              pool = "pool of core 1" => to = "core 1",
              owner[p] = {pool}, owner' = [owner EXCEPT ![p] = {to}]
       PROVE  Ownership!Next
  <2>1. Ownership!Give(p, pool, to)
    BY <1>10 DEF Ownership!Give, Ownership!Pool1, owner
  <2>. QED
    BY <1>10, <2>1 DEF Ownership!Next, Ownership!Pool0, Ownership!Pool1
<1>11. CASE \E u \in Uses0 : Take0(u)
  <2>1. PICK u \in Uses0, p \in Free0 :
           /\ use[u] = NONE /\ use' = [use EXCEPT ![u] = p]
           /\ Free0' = Free0 \ {p} /\ Free1' = Free1
    BY <1>11 DEF Take0
  <2>2. /\ u \in Uses /\ Holder[u] \in {"both", "core 0"}
        /\ p \in Indices /\ p # NONE /\ use'[u] = p
        /\ \A v \in Uses \ {u} : use'[v] = use[v]
    <3>1. u \in Uses /\ Holder[u] \in {"both", "core 0"}
      BY HoldersOf DEF Uses0
    <3>. QED
      BY <2>1, <3>1 DEF Apart
  <2>3. owner[p] = {"pool of core 0"}
    BY <1>3, <2>1, <2>2, <1>A
  <2>4. owner'[p] = {Holder[u]}
    BY <1>4, <2>1, <2>2, <1>B
  <2>5. \A q \in Indices \ {p} : owner'[q] = owner[q]
    <3> SUFFICES ASSUME NEW q \in Indices \ {p} PROVE owner'[q] = owner[q]
      OBVIOUS
    <3>1. /\ (q \in Free0) = (q \in Free0') /\ (q \in Free1) = (q \in Free1')
          /\ \A v \in Uses : q # NONE => (use[v] = q <=> use'[v] = q)
      <4>1. p # q /\ \A v \in Uses : v = u \/ use'[v] = use[v]
        BY <2>2
      <4>2. (use[u] = q <=> use'[u] = q) \/ q = NONE
        BY <2>1, <2>2, <4>1
      <4>3. \A v \in Uses : q # NONE => (use[v] = q <=> use'[v] = q)
        BY <4>1, <4>2
      <4>4. (q \in Free0) = (q \in Free0') /\ (q \in Free1) = (q \in Free1')
        BY <2>1, <4>1
      <4>. QED
        BY <4>3, <4>4
    <3>2. OwnersOf(Free0, Free1, use, q) = OwnersOf(Free0', Free1', use', q)
      BY <3>1, SameOwners
    <3>. QED
      BY <1>3, <1>4, <3>2
  <2>6. owner' = [owner EXCEPT ![p] = {Holder[u]}]
    <3>1. p \in Indices
      BY <2>2
    <3>. QED
      BY <1>8, <2>3, <2>4, <2>5, <3>1
  <2>. QED
    BY <1>10, <2>2, <2>3, <2>6
<1>12. CASE \E u \in Uses1 : Take1(u)
  <2>1. PICK u \in Uses1, p \in Free1 :
           /\ use[u] = NONE /\ use' = [use EXCEPT ![u] = p]
           /\ Free1' = Free1 \ {p} /\ Free0' = Free0
    BY <1>12 DEF Take1
  <2>2. /\ u \in Uses /\ Holder[u] = "core 1"
        /\ p \in Indices /\ p # NONE /\ use'[u] = p
        /\ \A v \in Uses \ {u} : use'[v] = use[v]
    <3>1. u \in Uses /\ Holder[u] = "core 1"
      BY HoldersOf DEF Uses1
    <3>. QED
      BY <2>1, <3>1 DEF Apart
  <2>3. owner[p] = {"pool of core 1"}
    BY <1>3, <2>1, <2>2, <1>A
  <2>4. owner'[p] = {"core 1"}
    <3>1. OwnersOf(Free0', Free1', use', p) = {Holder[u]}
      BY <2>2, <1>B
    <3>. QED
      BY <1>4, <2>2, <3>1
  <2>5. \A q \in Indices \ {p} : owner'[q] = owner[q]
    <3> SUFFICES ASSUME NEW q \in Indices \ {p} PROVE owner'[q] = owner[q]
      OBVIOUS
    <3>1. /\ (q \in Free0) = (q \in Free0') /\ (q \in Free1) = (q \in Free1')
          /\ \A v \in Uses : q # NONE => (use[v] = q <=> use'[v] = q)
      <4>1. p # q /\ \A v \in Uses : v = u \/ use'[v] = use[v]
        BY <2>2
      <4>2. (use[u] = q <=> use'[u] = q) \/ q = NONE
        BY <2>1, <2>2, <4>1
      <4>3. \A v \in Uses : q # NONE => (use[v] = q <=> use'[v] = q)
        BY <4>1, <4>2
      <4>4. (q \in Free0) = (q \in Free0') /\ (q \in Free1) = (q \in Free1')
        BY <2>1, <4>1
      <4>. QED
        BY <4>3, <4>4
    <3>2. OwnersOf(Free0, Free1, use, q) = OwnersOf(Free0', Free1', use', q)
      BY <3>1, SameOwners
    <3>. QED
      BY <1>3, <1>4, <3>2
  <2>6. owner' = [owner EXCEPT ![p] = {"core 1"}]
    <3>1. p \in Indices
      BY <2>2
    <3>. QED
      BY <1>8, <2>3, <2>4, <2>5, <3>1
  <2>. QED
    BY <1>10, <2>2, <2>3, <2>6
<1>13. CASE GiveMove
  <2>1. PICK p \in Free0 : /\ Free0' = Free0 \ {p} /\ Free1' = Free1 \cup {p}
                           /\ use' = use
    BY <1>13 DEF GiveMove
  <2>2. p \in Indices /\ p \in Free1'
    BY <2>1 DEF Apart
  <2>3. owner[p] = {"pool of core 0"}
    BY <1>3, <2>1, <2>2, <1>A
  <2>4. owner'[p] = {"pool of core 1"}
    BY <1>4, <2>2, <1>B
  <2>5. \A q \in Indices \ {p} : owner'[q] = owner[q]
    <3> SUFFICES ASSUME NEW q \in Indices \ {p} PROVE owner'[q] = owner[q]
      OBVIOUS
    <3>1. /\ (q \in Free0) = (q \in Free0') /\ (q \in Free1) = (q \in Free1')
          /\ \A v \in Uses : q # NONE => (use[v] = q <=> use'[v] = q)
      BY <2>1
    <3>2. OwnersOf(Free0, Free1, use, q) = OwnersOf(Free0', Free1', use', q)
      BY <3>1, SameOwners
    <3>. QED
      BY <1>3, <1>4, <3>2
  <2>6. owner' = [owner EXCEPT ![p] = {"pool of core 1"}]
    BY <1>8, <2>2, <2>3, <2>4, <2>5
  <2>. QED
    BY <1>10, <2>2, <2>3, <2>6
<1>. QED
  BY <1>7, <1>9, <1>11, <1>12, <1>13 DEF Moves

-----------------------------------------------------------------------------
(* The theorems *)

\* What holds of every map without usable memory in the last page of the address
\* space. Each part needs the others: a page is taken from a pool that Apart
\* keeps apart, at a place for which Taken says which pool that is, and core 1
\* is at a place only after the message that Messages knows of.
BootInv == Inv /\ Apart /\ FromMap /\ Taken /\ HandedOff /\ Messages

LEMMA InitBoot == ASSUME Init PROVE BootInv /\ Counted /\ owner = [p \in Indices |-> {}]
<1>1. /\ Pages(bitpool) = {} /\ NONE \in Indices
  BY EmptyPool, WordsAssumption DEF NONE, Indices
<1>2. Inv
  <2>1. \A m \in Maps : Len(m) \in Nat
    BY MapsAssumption
  <2>. QED
    BY <2>1, EmptyPool DEF Init, Inv, SummariesRight, Places, Cores
<1>3. Free0 = {} /\ Free1 = {}
  BY <1>1 DEF Init, Free0, Free1, Pool, Cores
<1>4. /\ use["shared"] = NONE /\ use["channel"] = NONE /\ use["small0"] = NONE
      /\ use["core0"] = NONE /\ use["small1"] = NONE /\ use["core1"] = NONE
  BY DEF Init, use, Cores
<1>5. use \in [Uses -> Indices] /\ \A u \in Uses : use[u] = NONE
  <2>1. \A u \in Uses : use[u] = NONE
    BY <1>4, HoldersOf
  <2>2. DOMAIN use = Uses
    BY HoldersOf DEF use
  <2>3. use = [u \in Uses |-> use[u]]
    BY <2>2 DEF use
  <2>. QED
    BY <1>1, <2>1, <2>3
<1>6. Apart /\ FromMap
  BY <1>3, <1>5 DEF Apart, FromMap
<1>7. pc[0] = "map" /\ pc[1] = "off"
  BY DEF Init, Cores
<1>8. Taken
  BY <1>1, <1>7 DEF Taken, Init, Early, Cores
<1>9. HandedOff
  BY <1>1, <1>7 DEF HandedOff, Init, Early, Cores
<1>10. Messages
  BY <1>7 DEF Messages, Init, Early
<1>11. Counted
  <2>1. FoundSoFar = {}
    BY DEF Init, FoundSoFar
  <2>. QED
    BY <1>3, <1>7, <2>1 DEF Counted, Early
<1>12. \A p \in Indices : Owners(p) = {}
  <2>1. \A p \in Indices : OwnersOf(Free0, Free1, use, p) = {}
    BY <1>3, <1>5 DEF OwnersOf
  <2>. QED
    BY <2>1, OwnersAre
<1>. QED
  BY <1>2, <1>6, <1>8, <1>9, <1>10, <1>11, <1>12 DEF BootInv, owner

LEMMA NothingMoves == ASSUME UNCHANGED vars
                      PROVE  /\ BootInv => BootInv' /\ owner' = owner
                             /\ BootInv /\ Counted => Counted'
<1>1. /\ UNCHANGED <<map, region, pc, s_pooltmp, pool4M, pool4K, p4k, pcore>>
      /\ UNCHANGED <<sharedmem, handed, spsc_data, area, patched, icr_lo, pending>>
      /\ UNCHANGED <<cmos, warmreset, machine, ap>>
  BY DEF vars, pools, handoff, messages
<1>2. UNCHANGED <<Free0, Free1, use>> /\ Found' = Found
  BY <1>1 DEF Free0, Free1, Pool, use, Found
<1>3. BootInv => Inv' /\ Taken' /\ HandedOff'
  BY <1>1 DEF BootInv, Inv, SummariesRight, Taken, HandedOff
<1>4. BootInv => Messages'
  BY <1>1 DEF BootInv, Messages, Reset, Released
<1>5. BootInv => Apart' /\ FromMap'
  BY <1>2 DEF BootInv, Apart, FromMap
<1>6. Counted => Counted'
  BY <1>1, <1>2 DEF Counted, Above, FoundSoFar
<1>7. owner' = owner
  BY <1>1 DEF owner, Owners, Pool
<1>. QED
  BY <1>3, <1>4, <1>5, <1>6, <1>7 DEF BootInv

LEMMA BootStep ==
    ASSUME FirmwareOnTop, BootInv, [Next]_vars
    PROVE  BootInv' /\ (Ownership!Next \/ UNCHANGED owner)
<1>1. CASE UNCHANGED vars
  BY <1>1, NothingMoves
<1>2. CASE Next
  <2>1. Moves /\ map' = map
    BY <1>2, StepMoves, MapStays DEF BootInv
  <2>2. Apart' /\ FromMap'
    BY <2>1, ApartKept, FromMapKept DEF BootInv
  <2>3. Taken' /\ HandedOff' /\ Messages'
    BY <1>2, TakenKept, HandedOffKept, MessagesKept DEF BootInv
  <2>4. Inv'
    BY <1>2, NextKeepsInv DEF BootInv
  <2>5. Ownership!Next \/ UNCHANGED owner
    BY <2>1, <2>2, MovesAreChanges DEF BootInv
  <2>. QED
    BY <2>2, <2>3, <2>4, <2>5 DEF BootInv
<1>. QED
  BY <1>1, <1>2

THEOREM BootInvHolds == ASSUME FirmwareOnTop PROVE Spec => []BootInv
<1>1. Init => BootInv
  BY InitBoot
<1>2. BootInv /\ [Next]_vars => BootInv'
  BY BootStep
<1>. QED
  BY <1>1, <1>2, PTL DEF Spec

\* Every variable of the boot keeps its type, and the copied boot code patches
\* itself at most once, for every memory map.
THEOREM TypeCorrect == ASSUME FirmwareOnTop PROVE Spec => []TypeOK
<1>1. BootInv => TypeOK
  <2> SUFFICES ASSUME BootInv PROVE TypeOK
    OBVIOUS
  <2>1. /\ region \in 1 .. Len(map) + 1
        /\ pc \in [Cores -> Places]
        /\ s_pooltmp \in [Cores -> Pools] /\ pool4M \in [Cores -> Pools]
        /\ pool4K \in [Cores -> Pools]
    BY DEF BootInv, Inv
  <2>2. sharedmem \in Indices
    BY HoldersOf DEF BootInv, Apart, use
  <2>3. /\ p4k \in [Cores -> Indices] /\ pcore \in [Cores -> Indices]
        /\ handed \in 0 .. 10
        /\ spsc_data \in [Cores -> [Cores -> Indices]]
        /\ area \in [rank : Cores, master : Indices, shared : Indices]
    BY DEF BootInv, Taken, HandedOff
  <2>4. /\ patched \in {0, 1} /\ pending \in BOOLEAN
        /\ warmreset \in BOOLEAN /\ machine \in {"startup", "warm"}
    BY DEF BootInv, Messages
  <2>5. icr_lo \subseteq 0 .. 31 /\ cmos \subseteq 0 .. 7
    BY MessageBits, ShutdownCode DEF BootInv, Messages
  <2>6. ap \in {"asleep", "held", "waiting", "firmware", "running", "lost"}
    <3>1. pc[0] \in Early \cup Late
      BY <2>1 DEF Places, Early, Late, Cores, BootInv, Messages
    <3>2. Messages
      BY DEF BootInv
    <3>3. ap = "asleep" \/ Reset \/ Released
      BY <3>1, <3>2 DEF Messages, Early, Late
    <3>. QED
      BY <3>3 DEF Reset, Released
  <2>. QED
    BY <2>1, <2>2, <2>3, <2>4, <2>5, <2>6 DEF TypeOK, Places
<1>. QED
  BY <1>1, BootInvHolds, PTL

\* No page is ever in two pools, in a pool and in use, or in two uses, for every
\* memory map, although regions may overlap in it.
THEOREM PagesKeptApart == ASSUME FirmwareOnTop PROVE Spec => []NoPageTwice
<1>1. BootInv => NoPageTwice
  BY NoPageTwiceFollows DEF BootInv
<1>. QED
  BY <1>1, BootInvHolds, PTL

\* The boot implements PageOwners: every step is a change of owners that the
\* abstract specification allows, or changes no owner.
THEOREM ImplementsPageOwners == ASSUME FirmwareOnTop PROVE Spec => Owned
<1>1. Init => Ownership!Init
  BY InitBoot DEF Ownership!Init, owner
<1>2. BootInv /\ [Next]_vars => [Ownership!Next]_([p \in Indices |-> Owners(p)])
  BY BootStep DEF owner
<1>. QED
  BY <1>1, <1>2, BootInvHolds, PTL DEF Spec, Owned, Ownership!Spec

\* Core 1 finds its rank, the channel and the shared page in the copied boot
\* code before its first instruction, whichever message starts it.
THEOREM HandOffComplete == ASSUME FirmwareOnTop PROVE Spec => []StartsComplete
<1>1. BootInv => StartsComplete
  BY DEF BootInv, StartsComplete, Taken, HandedOff, Messages
<1>. QED
  BY <1>1, BootInvHolds, PTL

\* A pool has only pages that the map calls usable, unless a region of the map
\* ends above what 32 bits address: main.cc cuts such a region.
THEOREM UsablePages == ASSUME FirmwareOnTop PROVE Spec => [](PoolsAreUsable \/ Above)
<1>1. BootInv => PoolsAreUsable \/ Above
  <2> SUFFICES ASSUME BootInv, ~Above, NEW c \in Cores, NEW p \in Pages(Pool(c))
               PROVE  Usable(p)
    BY DEF PoolsAreUsable
  <2>1. p \in Found
    BY DEF BootInv, FromMap, Free0, Free1, Cores
  <2>2. PICK k \in DOMAIN map : p \in PagesOf(map[k])
    BY <2>1 DEF Found
  <2>3. Regular(map[k]) /\ map[k].addr + map[k].len <= Wrap
    <3>1. Regular(map[k])
      BY <2>2, MapRegular DEF BootInv
    <3>2. ~(map[k].addr + map[k].len > Wrap)
      BY <2>2 DEF Above
    <3>3. map[k].addr \in Nat /\ map[k].len \in Nat
      BY <3>1 DEF Regular
    <3>. QED
      BY <3>1, <3>2, <3>3, SizesAssumption
  <2>4. /\ p \in Nat /\ map[k].type = 1 /\ End <= PAGE * p
        /\ map[k].addr <= PAGE * p
        /\ PAGE * p + PAGE <= map[k].addr + map[k].len
    BY <2>2, <2>3, PagesInside
  <2>5. p * PAGE = PAGE * p /\ (p + 1) * PAGE = PAGE * p + PAGE /\ PAGE * p \in Int
    BY <2>4, SizesAssumption
  <2>. QED
    BY <2>2, <2>4, <2>5, SizesAssumption DEF Usable
<1>. QED
  BY <1>1, BootInvHolds, PTL

\* With regions that do not overlap the boot stops only for want of memory, or
\* at a region that it cut: from 14 pages on each of the tests for a page finds
\* one, those of core 1 included.
THEOREM StopsOnlyForMemory ==
    ASSUME FirmwareOnTop, NoOverlap PROVE Spec => []StopsForMemory
<1>1. Init => Counted
  BY InitBoot
<1>2. BootInv /\ Counted /\ [Next]_vars => Counted'
  BY NothingMoves, CountedKept DEF BootInv
<1>3. Counted => StopsForMemory
  BY DEF Counted, StopsForMemory, Above, Cores
<1>. QED
  BY <1>1, <1>2, <1>3, BootInvHolds, PTL DEF Spec

===============================================================================
