# Xv6_kernel_scheduler: a verification project

TLA+ models, TLC configurations and TLAPS proofs for `src/hohlabs`, a bare-metal
x86 kernel for two cores. Core 0 reads the keyboard, runs a small shell with
several ways of computing "in the background" and produces frames; core 1 draws
them. There is no operating system below: the interesting code is the hand-made
concurrency.

## The system

| part | code | state | operations |
|---|---|---|---|
| context switch, timer preemption | `util/fiber.h`, `labs/preempt.h`, `x86/except.cc`, the dispatchers in `labs/fiber.cc` and `labs/fiber_scheduler.cc` | stack pointers (`main_stack`, `f_stack`, `stackptrs[]`), `preempt_t`, the LAPIC's one-shot timer | `stack_init5`, `stack_saverestore`, the timer interrupt |
| shell and computations | `labs/shell.cc`, `labs/coroutine.cc`, `labs/fiber.cc`, `labs/fiber_scheduler.cc` | `shellstate_t`: `shell_state`, `enter`, `done_old`, the line, five slots and their counters | `shell_update`, `shell_step`, `shell_step_coroutine`, `shell_step_fiber`, `shell_step_fiber_scheduler` |
| display channel | `labs/multicore.h`, `apps/labs.cc` | `writeport_t`, `readport_t`, `channel_t`, four slots | reserve / release / acquire of writing, reading, deleting |
| rendering | `labs/shell.cc`, `labs/vgatext.h` | `renderstate_t` | `shell_render`, `render_eq`, `render` |
| boot | `x86/main.cc`, `x86/boot.S`, `util/multicore.h`, `util/shm.h` | page pools, `core_t`, `shm_t` | `core_master_init`, `core_mem_init`, `remotecore_reset` |
| page allocator | `util/bitpool.h` | two-level bitmap | `add_mem`, `alloc`, `free`, `remaining` |
| interrupts | `x86/except.cc`, `labs/preempt.h`, `devices/` | IDT, the registers of 8259, I/O APIC, local APIC, 8254 | `hal_reset`, the stubs, `c_lapic`, `c_lapic_internal` |
| functions and formatting | `labs/*.cc` | none | `factorial`, `nthPrime`, `fibonacci`, the decimal conversions |
| generated drivers | `generated/`, `apps/generated/` | shadows of registers that cannot be read | `rd`, `wr`, `rdf`, `wrf`, `extract`, `insert` of each register |
| serial port, CPU tables, library | `labs/serial.h`, `devices/gdt32.h`, `devices/mmu32.h`, `util/` | none that is read again | accesses |

How they interact: `boot.S` calls `core_master_init` and `core_mem_init` on core
0, then `core_reset`, whose `hal_reset` programs the interrupt controllers and
which then hands pages, boot code and channel to core 1 and starts it. Core 0's
loop (`apps_loop_step`) takes a key, renders and publishes a frame, frees a drawn
slot, and calls the four computing functions in a fixed order on one
`shellstate_t`. Two of these switch stacks; the timer may interrupt at any
instruction. After the boot the cores share the channel and the texts its frames
point to.

What is hard: an interrupt between any two instructions of a switch; four
functions that signal each other through three variables they all write; a
pointer into a frame that has returned; two cores with stale copies of each
other's counters; loops that wait without a bound; drivers whose idea of a
register is not the hardware's; pools that are copied while they are used.
`PROJECT.json` lists these hazards at their lines, with the properties that
watch them.

## Modules

| module | models | instances |
|---|---|---|
| `Preempt` | context switches and preemption, at the grain of the instruction where the timer can tell two apart | `MCPreempt` |
| `PreemptProofs` | proofs about `Preempt` | - |
| `Scheduler` | core 0's loop, one action per outcome of each call | `MCScheduler` |
| `FrameFifo` | what the channel promises | - |
| `Channel` | the ring, at the grain of accesses to shared memory; implements `FrameFifo` | `MCChannel` |
| `ChannelProofs` | proofs about `Channel` | - |
| `SchedulerProofs` | proofs about `Scheduler` | - |
| `Numbers` | the computed functions and decimal conversions | `MCAnswers` |
| `Answers` | `Scheduler` joined with `Numbers`: what each call computes and writes | `MCAnswers` |
| `Console` | `Scheduler` joined with cursor, texts and a FIFO of frames | `MCConsole` |
| `Registers` | the accessors that are generated for every register | - |
| `LpcPic`, `LpcIoapic`, `LpcTimer`, `LpcKbd`, `LpcCmos`, `Xapic` | the registers of a device | `MCInterrupts` |
| `RegistersProofs` | proofs about the accessors | - |
| `Interrupts` | `hal_reset` a write at a time, the controllers, the handlers; composes four devices | `MCInterrupts` |
| `InterruptsProofs` | proofs about `Interrupts` | - |
| `ConsoleProofs` | proofs about `Console`, from those about `Scheduler` | - |
| `Bitpool` | the page allocator, as operators | `MCBoot` |
| `PageOwners` | what the boot owes the memory | - |
| `Boot` | both cores from the memory map to their loops; implements `PageOwners` | `MCBoot` |
| `BitpoolProofs`, `BootProofs` | proofs about `Bitpool` and `Boot` | - |

Definitions whose comment says "Slip" are variants of the definition they stand
before, each with one plausible mistake. They are not part of a specification:
putting one in place of its original must break the property that
`PROJECT.json` names for it, which shows that the property sees that mistake.

### Preempt

State: who has the core (`cpu`), where the main stack is (`mpc`), each fiber's
instruction and progress (`pc`, `count`), the saved pointers under their names
in the code (`stackptrs`, whose last entry is `f_stack`), and `preempt_t`. A
saved pointer is a record of what `ret` or `iret` finds there: whose stack, the
instruction, the progress in the saved registers. The variables `pc` and `count`
of a suspended fiber remember where it truly stopped, and resuming *loads* them
from the record, so a wrong or old pointer shows as a difference between the two.

A fiber's `stack_saverestore` is two actions (`YieldSave`, `YieldLoad`) because
the handler does not protect them; the main stack's is one action, because on
the main stack the handler only acknowledges, and storing a pointer that is read
by nobody before the load commutes with it. Arming the timer (`RunSlot`) and
switching (`SwitchToSlot`) are two: the timer may expire between them. Whether
it does is the constant `EarlyTimer`; the code arms 20 million ticks a few
instructions before the switch, so `FALSE` is a core that is not stopped by its
host, `TRUE` one that may be.

What is typed is free: `Key` makes a line pending between two passes, as far as
the dispatchers tell lines apart (`enter`: none, a command that one of them takes,
or a line that none of them knows). While one is pending a call of the scheduler
runs no slot but the one it creates. `Scheduler` models the shell. The number a
fiber counts to is `Steps` for all; how it gets the number is in `Scheduler`.

### Scheduler

Each of the four calls runs to its end without another actor on core 0's
`shellstate_t` but the fiber it enters, so an action is one outcome of one call.
Keys come only between iterations (`pc = "shell"`), any number of them before
the computations, as the two `goto done` for waiting keys allow. A line is its
kind and argument: `fac`, `fib` and `npr` are those that `shell_step` computes by
itself, `nprx` stands for the four-letter names that it lets through and nobody
takes, `partial` for a line that no parser accepts, the empty line included. Keys
that come under a pending Enter leave what they make of the buffer for the parsers
(`KeyTyped`). `npr 0` does not return: `Hang` ends everything that core 0 does
(`pc` is `hung`). A slot's quantum is one step that may finish it; a slot that
counts to 0 never finishes. A new slot reads its argument at the start of its
first turn.

`func_type`, `num_npr`, `num_nop`, `fiber_index`, `done` are the code's. `fate`,
`asked` and `waited` are history; they are read by properties only. `fate` says
what became of the last line that Enter submitted: it waits, was served (carried
out or refused), was lost to a key that cleared the buffer, or was served again.
The four states of `steps`/`asked` of a finished slot are folded into 0, as its
stack is dead.

### Channel

Core 0's `w_head`, `r_head`, `d_head` are `w_head`, `r_seen`, `d_head` here, core
1's `w_head`, `r_head` are `w_seen`, `r_head`. `construct`, `destroy` and
`render` take more than one instruction, so each has a beginning and an end; a
slot that is being written, or was freed, holds `Torn`. What is private to a core
is part of the neighbouring access to shared memory. `render_eq` never finds two
frames equal (it compares the addresses of two arrays), so every iteration with a
free slot publishes.

### Numbers and Answers

`Numbers` has no state: each function is a recursive function with the C code's
loop as its recursion, and `Wrapped` where an `int` or `long` can overflow (both
have 32 bits; signed overflow is taken to wrap, as the build does). `nthPrime` has
no value at 0, where the C code does not end. The decimal conversions give the
digits that are written: none for 0, but in the fiber scheduler's.

`Answers` extends `Scheduler`: each call is conjoined with what the same lines
compute. The coroutine's `f_locals` and the plain fiber's stack (`frame`) count
prime by prime through `npr_step` and store what they find in one `answer_old`;
`written` is history, the last answer with the command that it is to. The
reference definitions are other than the code: a product, a count of sets without
neighbours, the prime with n primes up to it. A slot counts in one step here.

### Console

`Console` extends `Scheduler`: each action of the shell is conjoined with what the
same lines do to `cursor_y`, `pnt_buf` (`refresh`), `output` and `fiber_out`. A
text is what `render` can tell apart: `$`, a blank, an error, or the answer of one
of the calls, by who has written it. A pass is `Press`, or `Show` followed by the
four computing calls; `computing` is set past `norender`. The channel is the FIFO
that `Channel` is shown to implement, with the number of slots read but not yet
freed; a frame counts as `current` if it was made since the last key. `answered`
and `over` are history: the last answer that the pass has made, and whether it has
started the page over.

### Registers and the device modules

A word is the set of its one bits. The six device modules hold one definition per
enumeration, word type and register of the generated header, with field offsets,
sizes, must-be-zero, must-be-one and reserved bits, the place, and how the
register is reached; they were compared with the masks in the body of every
accessor of the headers. `wr` does not update a shadow and `wrf` does, as
generated. `MCInterrupts` checks that all tables are well-formed, the assumption
of the theorems about accessors.

### Interrupts

`hal_reset` is the sequence of register writes the code makes, in its order;
`Write`, `WriteRedirection`, `LoadTable` and `Sti` perform the next one while
inputs go on moving. What a controller does with a word comes from its manual,
not from the driver's names for the bits: so bit 16 masks LINT0 although the
driver uses bit 17, and the fields of `icw2` end up where the hardware looks.
These parts are marked external. The firmware's state and uninitialised shadows
are `Garbage`. The handlers are modelled from the stub to the `iret`; on the
fiber's stack `_ring0_preempt` enables interrupts before it saves the context, so
handlers nest there up to `MaxDepth`. `Preempt` has the switch itself in full.

### Bitpool and Boot

A pool is the pair of the summary word and the bitmap. `Boot` keeps one for the
boot code of each core (`s_pooltmp`), and the two of each `core_t`, copied when the
code copies them. (The small pages' pool is built in `s_pooltmp2` and copied to
`core_t`; what stays behind is never used, and both are `pool4K` here.) Addresses are counted in units, modulo `Wrap`; a page is an
index. An assertion that fails is the place `died`. Messages to core 1 may arrive
late; one that is sent while another is under way replaces it or is lost. The
other CPU waits for a startup message after INIT, or (an older one) runs its
firmware, which looks at the shutdown code and the vector at 40:67.

## Runs

| run | instance | shows |
|---|---|---|
| `preempt_safety` | 3 slots, 3 steps, yield at every second, `EarlyTimer` | contexts are kept, the plain fiber is never preempted, fibers return to their dispatcher, a live slot keeps its work |
| `preempt_live` | 2 slots, 2 steps, no early timer, fairness | the main stack always runs again; a slot finishes or was caught in its yield, unless a pending line stops the scheduler |
| `preempt_fair` | as above, fairness | **violated**: round robin is not fair to a caught slot |
| `scheduler_slots` | 3 slots, limit 2 | the search ends, the counters sum up to the live slots, every live slot gets its turn, no line is served twice |
| `scheduler_live` | 2 slots, limit 1, arguments 0 and 2, fairness | what becomes of a submitted line, which slots go on when typing stops, the keyboard comes back |
| `scheduler_limit` | as `scheduler_slots`, arguments 0 and 2 | **violated**: the limit of a kind |
| `scheduler_arg` | the same | **violated**: a slot counts to the number of its command |
| `channel` | 4 slots, 9 frames, 2 values | the documented count invariant, no race, a FIFO that draws every frame |
| `interrupts` | pins 2, 12 and 22, two kinds of garbage, two nested handlers | every interrupt has a gate and gets its own EOI; the 8259 stay quiet; no countdown interrupts before the dispatcher arms the timer; no ISA device preempts; a timer interrupt ends the turn |
| `boot` | 20 pages, 7 memory maps, 2 kinds of CPU | pages keep one owner (refinement of `PageOwners`), the boot stops only for lack of memory, core 1 starts on a complete hand-off, both cores reach their loops |
| `console` | 1 slot, a page of 2 lines, 2 slots in the channel | where answers are drawn, which answer of a pass the next frame shows, that the display catches up |
| `answers` | 1 slot, arguments 0 to 12, `int` of 8 bits | each call writes the answer to its own command; the searches end where `Scheduler` says |

The three violated runs are in `PROJECT.json` under `findings`:

1. *A fiber can be preempted inside its own yield.* Its pointer then leads to the
   handler's frame, which leads to the load of `main_stack`: each turn comes
   straight back, for ever (`preempt_fair`). `preempt.h:171` would have a
   thread inside its yield left alone; `except.cc:359` says round robin is fair.
2. *Lines 253-256 of `fiber_scheduler.cc` compare where they mean to assign*, so
   a finished slot may be charged to the wrong kind.
3. *A slot's fiber gets the address of a local variable* and may read it a call
   later.

What the passing runs say about places where the code looks wrong:

- `PicQuiet`: `pic.h:17` gives the 8259 wrong base vectors and `lapic.h:117` does
  not mask LINT0; neither matters while the 8259 are masked, and they are, from
  the last write of `pic_reset` on. (`Unused` would pass an output of theirs on
  as a request of LINT0; in the run it never has one to pass on.)
- `Gated`: eight gates are overwritten and eight vectors have none
  (`except.cc:690`); no interrupt that can be requested needs one of them.
- `NoDevicePreempts` is stated of the ISA pins: the vectors of pins 16 to 22 are
  those of the local sources, so a PCI device there does preempt a fiber.
- `StopsForMemory`: the boot asks for 11 pages and needs 14. With 11 to 13 it
  stops at a later assertion.
- `OnScreen`: the prompt, though no answer, can be put one row below the display,
  when a waiting key overtakes the answer to the line before.
- `NothingTakenBack`: the calls after the one that answers write `$` over both
  texts unless `done_old` holds them back. It speaks of the last answer of a pass:
  a slot that finishes replaces any other (`fiber_scheduler.cc:276`). One loss is
  in the model by name and exempt (`GoesOn`): a coroutine or plain fiber that goes
  on clears `done_old`, and with the shell at rest the next call takes back what
  another has answered in the pass.
- `CommandOnce`: `echo` and the refusals leave `enter` set; a line is served once
  all the same, as `shell_state` or `done_old` cancels it first.
- `LineServed` and `SlotsKeepRunning` name their exceptions: `npr 0`, a key that
  comes before `shell_step` has read the line, and `npr` with an unknown fourth
  letter. That line is never answered: `shell_step` leaves it to the later calls,
  each of them to the others, and with `enter` set no slot runs until the next key.
- `AnswersRight` is an equivalence: the answer is right just when it is not 0 and
  fits. For 0 the functions write blanks, and what is too large wraps.
- `FinishesOrCaught` is conditional on calls of the scheduler that find no line
  pending, again and again (`CallsFindNoLine`).

### Bounds, and why they are enough

- Slots: the code has 5 and a limit of 3. Three slots and a limit of 2 keep what
  matters (limit < slots < 2 * limit: a kind can exceed its limit, two kinds can
  fill the slots). With two slots a turn can already go past another slot. The
  context properties are proved for every number.
- `Steps` and `YieldEvery`: three steps with a yield at every second give a slot
  that is preempted before, between and after yields and one that finishes with
  and without having yielded.
- `MaxCount` is where the channel's counters stop; `INT_MAX` in the code, where
  the increment becomes undefined. 9 frames through 4 slots reuse each slot.
- `Args` contains 0, the argument that is never reached, and 2, one that takes
  two turns of the coroutine. `Typed` is {0} where the hang of `npr 0` matters and
  {1} where it would only cut runs short.
- `interrupts`: pin 2 is the 8254, pin 12 a device behind the second 8259, pin 22
  one whose vector is a local source's; the other inputs behave like 12. Nested
  handlers are all alike from the second on (the proofs are for any depth).
- `boot`: the maps have exactly enough pages, one too few, too few for the check,
  two regions, adjacent ones, and one above what 32 bits address. The ten pages of
  the hand-off are the code's; words of 4 bits make the pools cross words.
- `console`: with `Bottom` = 1 the page is over after two lines (19 in the code),
  and the three lines that can follow are reached from it. Slots, limits and
  arguments are small here because `scheduler_slots` varies them.
- `answers`: 8 bits overflow at the factorial of 6 and give 0 at 10, as 32 bits do
  at 13 and 34; the Fibonacci number of 12 is the first that they do not hold.
  Searches for the first and the third prime end in the call that starts them, or
  overlap. 0 is left out of `Args`: its searches have no last state.

### Fairness

- `Preempt`: the core never idles (weak fairness of the main stack), an armed
  timer expires, and a fiber that is entered again and again also moves (a quantum
  is 20 million ticks, a step a few). Nothing is assumed about which fiber the timer
  catches, nor about what is typed and when.
- `Scheduler`: `WF(Compute)`: an iteration that finds no key waiting comes, since
  the loop is faster than a typist. Nothing is assumed about which slot finishes.
- `Channel`: both cores loop for ever (`WF` of each); neither waits.
- `Console`: both cores loop for ever; keys come or do not come.
- `Interrupts`: the core takes a pending interrupt and runs its handler on; strong
  fairness of the switch out of a preempted fiber, since interrupts leave it time.
- `Boot`: both cores run, messages are delivered, the firmware ends.

## Proofs

All theorems hold for every value of the constants; the assumptions are the named
`ASSUME`s of the modules (sizes and limits positive, `Torn` not a frame, pins among
the inputs, maps sequences of regions whose addresses fit the address space). TLC
evaluates them in the runs. Three facts about the machine are hypotheses of the
theorems that need them, and not assumptions of the modules, because the code does
not test them:

- `FirmwareOnTop` (`Boot`): no usable region begins in the last page that 32 bits
  address. There `nextalign` overflows to 0 (`util.h:80`) and the pages of the
  kernel would be freed. A PC has its firmware and devices there.
- `NoOverlap` (`Boot`): usable regions do not overlap, as a firmware's map should
  have it. Only `StopsOnlyForMemory` needs it: the code stops at a page that is
  freed twice.
- `PinsHaveGates` (`Interrupts`): pin 23 of the I/O APIC does not move. Its vector
  is 71, the table ends at 70. Only `EveryRequestGated` needs it.

The modules `MCBoot` and `MCInterrupts` have TLC check all three for the instances
of the runs.

`PreemptProofs`: `TypeCorrect`, `ContextsKept`, `PlainContextsKept`,
`PlainIsSafe`, `DispatchersMatched` and the action property `WorkIsKept`.
`ContextKept` is not inductive: that the load of a context gives the fiber its
own progress needs that the context chosen by the scheduler is still the slot's
when it is loaded, that the slot which comes back is `fiber_index`, that
`timer_state` is 1 until the handler sets it to 2, and that the pointer stored at
a yield is good *before* the load, since the timer may come in between. These are
`Control` and `Stored`; `Inv` joins them to the type, `ReturnsToDispatcher` and
the two context invariants. `InvStep` has one step per action.

`ChannelProofs`: `TypeCorrect`, `CountsOrdered`, the chain of inequalities at the
head of `multicore.h`, and `NoRaces`. `Inv` adds to the chain where each core is
and which slot it holds. `NoRaces` follows with `DifferentSlots`: two counters
less than a ring apart have different remainders. `ImplementsFifo` is the safety
part of the refinement `IsFifo`: under the mapping of `Channel` the start state is
one of `FrameFifo` and each step is one of its steps or none. It needs that the frame
under way is bound for the slot that was reserved and whole in it when it is
published (`Held`), and that core 0 never writes to a slot of the queue
(`WriteOutside`, from `DifferentSlots` again).

`SchedulerProofs`: `TypeCorrect`, `SearchEnds`, `CountersAccountForSlots`,
`RoundRobinBound` and `ServesOnce`. The bound on the turns a slot waits is not inductive; `Turns`
is: the turns it has waited and the slots that are still before it make one round
at most. `AheadIsTheDistance` and `NextIsNearest` are the arithmetic of the ring.
That the counters account for the live slots needs that each spawn takes a free
slot and each end gives back one count, whichever counter that is. `ServesOnce`
follows from `LineState`: while `enter` is set within a pass, `done_old` tells a
line that one of its calls has served from one that is still theirs (`Unserved`),
and what is typed over a served line is another one.

`ConsoleProofs`: `LoopIsScheduler` shows that `Console` takes no step that
`Scheduler` does not have, so what is proved of the slots holds beside the display
(`SlotsBesideDisplay`). For the display itself `ConsoleInv` adds to `Inv` and
`LineState` what no two calls of a pass may agree on: only a call that serves the
pending line, or ends a computation, makes an answer, and there is one text at most
(`AnswerState`); until the last call of the pass the last answer is in `output`, and
`done_old` or a shell that is not at rest keeps the next call from writing over it
(`OwedState`); `pc` and `computing` (`PassState`); and how far behind the last line
the cursor can be, which depends on whether a line is being typed and whether the
one before is still to be answered (`CursorState`: that is what makes `OnScreen`
inductive). `ConsoleTypeCorrect`, `AnswersOnScreen` and `AnswersStay` follow.

`BitpoolProofs`: `CanallocIsNotEmpty`, `AllocTakesTheLowest`, `AddMemAdds` give the
operations of the bitmap as operations on the set of its pages, under the
hypothesis that the summary is right; the lowest bit exists by the least-number
principle.

`BootProofs` shows with them that all six pools of a boot keep a right summary
(`PoolsStaySets`), for any map. Its `Inv` adds that a core which is about to build
its `core_t` has a small page left, which the code takes without a test. `BootInv`
adds what the other properties rest on: the two cores' pools and the pages in use do
not overlap (`Apart`) and come from the map (`FromMap`); what has been taken when a
core is at a place, and which copy of a pool it takes from then (`Taken`); the ten
pages and the three words of the boot code, complete before any message
(`HandedOff`); and which message can be under way, and what the other CPU has made
of those before it (`Messages`). Each part needs the others. From it follow
`TypeCorrect`, `PagesKeptApart`, `HandOffComplete` and `UsablePages` (whose other
case, `Above`, is the region that `main.cc` cuts at 4 GB), and
`ImplementsPageOwners`: every step moves pages as `PageOwners` allows, or moves
none. `StopsOnlyForMemory` needs `Counted` too: how many of the pages that were
found each pool has left at each place.

`InterruptsProofs`: `Inv` says how handlers can be stacked (`Shape`: none above
another on the main stack; on the fiber's only above one that has enabled
interrupts), when the flag is set (`Flag`), and that no requested interrupt is a
spurious one; with it `EoiIsItsOwn` and `InterruptsComeBack`. The other theorems are
about the words that `hal_reset` writes. `ResetProgram` is the lemma about that
sequence, for every number of pins: its first 14 entries are those of the 8259 and
no later entry writes to one; every later word has only the bits its register has,
and one for the timer or for the thermal sensor is masked or has its vector; the
words for the timer are masked up to the entry that stops the countdown, and
none starts one after it; the one `sti` is the last. It is put together from a lemma
per piece of the reset. `WiredInv` is the invariant it gives: the 8259 expect the
word that comes next and are masked from entry 13 on (`PicsReset`); the timer is
masked or stopped (`TimerReset`); an unmasked register has the vector of its
source (`VectorsMeant`); every request and every frame of a handler then has it too
(`RequestsWired`, `FramesWired`), and a handler that is past the `sti` of
`_ring0_preempt` is that of a local source. `Gates` evaluates `idt_reset`. From
these: `TypeCorrect`, `PicsStayQuiet`, `EveryRequestGated`, `BootStaysQuiet`, and
the action property `DevicesDoNotPreempt`.

`RegistersProofs`: `FieldsAreIndependent`, `PrescribedBits`, `FieldWrite`: what a
field access keeps and changes, for every well-formed word type and register.

Only model-checked: all liveness (that of `IsFifo` included); `AnswersRight`,
and with it `Numbers`, whose claims for every input would need induction over a
recursive definition; that the tables of the devices are well-formed, which is an
evaluation. Every other invariant and action property of a passing run is proved. The type
invariants of `Preempt` and `Channel` are proved and not in a run.

## Plan

Done: the plan of the first version, in the order in which the modules stand
above. What could follow:

1. the keys of a line, to state the bound of `curr_cmd`;
2. `Console` on top of `Channel` instead of its FIFO; a first step would be a proof
   that the FIFO of `Console` implements `FrameFifo` too.

## Not modelled

- The characters of lines and frames, columns and colours; `curr_cmd`'s bound (a
  line of more than 49 keys writes past it), how an argument is read from its digits
  and overflows, and the string literals that answers are written into while
  published frames point to them.
- That an answer is drawn: it is there for one pass, and the frame of that pass may
  be dropped; `CatchesUp` promises the last state only.
- The registers saved by `fxsave`; exceptions, whose handlers stop the core; the
  handlers of the 8259, which `Gated` shows to be out of reach.
- `ia32.dev.h` and the segment and page tables: written once at boot and read by
  the hardware only. `pci_hdr0.dev.h` is not used by the loop.
- The serial port: both cores print without synchronisation, and nothing reads it.
- `memset`, `memcpy`, `io.h` and the vendored headers.

`PROJECT.json` gives each component's status and reason.
