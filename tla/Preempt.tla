------------------------------ MODULE Preempt ------------------------------
(***************************************************************************)
(* Context switches and timer preemption on core 0.                        *)
(*                                                                         *)
(* The main stack runs the application loop; it enters the plain fiber     *)
(* (labs/fiber.cc) and the N slots of the fiber scheduler                  *)
(* (labs/fiber_scheduler.cc) by stack_saverestore.  A fiber gives the core *)
(* back by its own stack_saverestore, or loses it to the one-shot LAPIC    *)
(* timer, whose handler (labs/preempt.h) saves the interrupted context and *)
(* loads the main stack.  The grain is the instruction wherever the timer  *)
(* can tell two instructions apart: stack_saverestore stores one stack     *)
(* pointer and then loads another.                                         *)
(***************************************************************************)
EXTENDS Naturals

CONSTANTS
    N,           \* scheduler slots, 5 in shellstate_t
    Steps,       \* primes a fiber is asked for
    YieldEvery,  \* npr_fiber yields when its counter is a multiple, 1000 there
    EarlyTimer   \* may the timer expire before the main stack has switched?

ASSUME NAssumption == N \in Nat \ {0}
ASSUME StepsAssumption == Steps \in Nat \ {0}
ASSUME YieldEveryAssumption == YieldEvery \in Nat \ {0}
ASSUME EarlyTimerAssumption == EarlyTimer \in BOOLEAN

Slots  == 0 .. N - 1
Plain  == N                \* the fiber of labs/fiber.cc
Fibers == 0 .. N
Main   == N + 1

Kinds == {"none", "npr", "nop"}

\* A pending line: a command, which the next shell_step drops at the latest, or
\* one like "nprx 5", which shell_step lets through (shell.cc:456) and nobody
\* takes.
Pending == {"none", "command", "unknown"}

\* Where a fiber can be told apart: computing, at the store and at the load of
\* its stack_saverestore, and in the endless loop that ends nop_fiber.
Points == {"work", "y_save", "y_load", "spin"}

\* A saved stack pointer stands for what ret or iret finds there: whose stack
\* it is, the instruction to go on with, the progress in the saved registers.
Contexts == [fib : 0 .. N + 1, at : Points, count : 0 .. Steps]

Fresh(f) == [fib |-> f, at |-> "work", count |-> 0]

VARIABLES
    cpu,          \* who has the core: a fiber or Main
    mpc,          \* where the main stack is, "away" while a fiber runs
    pc,           \* each fiber's instruction (kept while it is suspended)
    count,        \* each fiber's progress
    done,         \* shellstate.done[], and done_old for the plain fiber
    func_type,    \* shellstate.func_type[]
    stackptrs,    \* stackptrs[] of the slots, f_stack for the plain fiber
    plain_running,\* shellstate.fiber_running
    fiber_index,
    enter,        \* the flag and the line that it stands for
    saved_stack,  \* preempt_t
    timer_state,  \* preempt_t: 0 absent, 1 active, 2 run out
    yeild_state,  \* preempt_t: 1 keeps the handler from switching
    main_stack,   \* the call the main stack pointer returns into
    timer         \* the LAPIC's one-shot counter: "off" or "armed"

mainVars  == <<plain_running, fiber_index, enter>>
fiberVars == <<pc, count, done>>
saveVars  == <<stackptrs, saved_stack, main_stack>>
flagVars  == <<timer_state, yeild_state>>
vars == <<cpu, mpc, pc, count, done, func_type, stackptrs, plain_running,
          fiber_index, enter, saved_stack, timer_state, yeild_state,
          main_stack, timer>>

TypeOK ==
    /\ cpu \in 0 .. N + 1
    /\ mpc \in {"fiber", "p_switch", "p_resumed",
                "sched", "s_switch", "s_resumed", "away"}
    /\ pc \in [Fibers -> Points]
    /\ count \in [Fibers -> 0 .. Steps]
    /\ done \in [Fibers -> BOOLEAN]
    /\ func_type \in [Slots -> Kinds]
    /\ stackptrs \in [Fibers -> Contexts]
    /\ plain_running \in BOOLEAN
    /\ fiber_index \in Slots
    /\ enter \in Pending
    /\ saved_stack \in Contexts
    /\ timer_state \in 0 .. 2
    /\ yeild_state \in 0 .. 1
    /\ main_stack \in {"p_resumed", "s_resumed"}
    /\ timer \in {"off", "armed"}

\* shell_init; stack pointers hold nothing a fiber could resume from.
Init ==
    /\ cpu = Main
    /\ mpc = "fiber"
    /\ pc = [f \in Fibers |-> "work"]
    /\ count = [f \in Fibers |-> 0]
    /\ done = [f \in Fibers |-> f # Plain]
    /\ func_type = [i \in Slots |-> "none"]
    /\ stackptrs = [f \in Fibers |-> Fresh(Main)]
    /\ plain_running = FALSE
    /\ fiber_index = 0
    /\ enter = "none"
    /\ saved_stack = Fresh(Main)
    /\ timer_state = 0
    /\ yeild_state = 0
    /\ main_stack = "p_resumed"
    /\ timer = "off"

(***************************************************************************)
(* stack_saverestore and stack_init5 (util/fiber.h)                        *)
(***************************************************************************)

\* The load half: the core goes on from context c.
LoadContext(c) ==
    /\ cpu' = c.fib
    /\ mpc' = "away"
    /\ IF c.fib \in Fibers
         THEN /\ pc' = [pc EXCEPT ![c.fib] = c.at]
              /\ count' = [count EXCEPT ![c.fib] = c.count]
         ELSE UNCHANGED <<pc, count>>

\* stack_init5: a new stack whose first return goes to the fiber's start.
InitStack(f) ==
    /\ stackptrs' = [stackptrs EXCEPT ![f] = Fresh(f)]
    /\ pc' = [pc EXCEPT ![f] = "work"]
    /\ count' = [count EXCEPT ![f] = 0]

(***************************************************************************)
(* Main stack: between two passes                                          *)
(***************************************************************************)

\* Keys, which make or replace the pending line.
Key ==
    /\ mpc = "fiber"
    /\ enter' \in Pending
    /\ UNCHANGED <<cpu, mpc, fiberVars, func_type, saveVars, plain_running,
                   fiber_index, flagVars, timer>>

(***************************************************************************)
(* Main stack: shell_step_fiber                                            *)
(***************************************************************************)

\* The early return, a line of another call, or neither line nor running fiber.
SkipPlain ==
    /\ mpc = "fiber"
    /\ mpc' = "sched"
    /\ UNCHANGED <<cpu, fiberVars, func_type, saveVars, mainVars, flagVars,
                   timer>>

\* "nprf n": a stack is built, over the one a running fiber had, and entered.
StartPlain ==
    /\ mpc = "fiber"
    /\ enter = "command"
    /\ enter' = "none"
    /\ mpc' = "p_switch"
    /\ InitStack(Plain)
    /\ plain_running' = TRUE
    /\ UNCHANGED <<cpu, done, func_type, fiber_index, saved_stack, flagVars,
                   main_stack, timer>>

ContinuePlain ==
    /\ mpc = "fiber"
    /\ enter = "none"
    /\ plain_running
    /\ mpc' = "p_switch"
    /\ UNCHANGED <<cpu, fiberVars, func_type, saveVars, mainVars, flagVars,
                   timer>>

SwitchToPlain ==
    /\ mpc = "p_switch"
    /\ main_stack' = "p_resumed"
    /\ LoadContext(stackptrs[Plain])
    /\ UNCHANGED <<done, func_type, stackptrs, saved_stack, mainVars, flagVars,
                   timer>>

AfterPlain ==
    /\ mpc = "p_resumed"
    /\ mpc' = "sched"
    /\ plain_running' = (plain_running /\ ~done[Plain])
    /\ UNCHANGED <<cpu, fiberVars, func_type, saveVars, fiber_index, enter,
                   flagVars, timer>>

(***************************************************************************)
(* Main stack: shell_step_fiber_scheduler                                  *)
(***************************************************************************)

AllDone == \A i \in Slots : done[i]

\* The early return, or no slot to run: nothing runs and nothing was asked for.
SchedIdle ==
    /\ mpc = "sched"
    /\ AllDone
    /\ enter = "none"
    /\ timer_state' \in {timer_state, 0}
    /\ mpc' = "fiber"
    /\ UNCHANGED <<cpu, fiberVars, func_type, saveVars, mainVars, yeild_state,
                   timer>>

\* A line that starts nothing here ends the call: a command is refused (a bad
\* argument, no free slot, three of its kind already) or was another call's, and
\* shell_step drops it; one that nobody knows stays.
SchedRefuse ==
    /\ mpc = "sched"
    /\ enter # "none"
    /\ enter' = IF enter = "command" THEN "none" ELSE enter
    /\ timer_state' = 0
    /\ mpc' = "fiber"
    /\ fiber_index' = IF AllDone THEN 0 ELSE fiber_index
    /\ UNCHANGED <<cpu, fiberVars, func_type, saveVars, plain_running,
                   yeild_state, timer>>

\* Slips: the first slot whatever runs in it; the search begins at k itself.
IsFreeUnchecked(i) == i = 0

IsNextFromSelf(k, i, live) ==
    \E d \in 0 .. N - 1 : /\ i = (k + d) % N
                          /\ i \in live
                          /\ \A e \in 0 .. d - 1 : (k + e) % N \notin live

\* The first free slot, and the live slot whose turn it is after index k.
IsFree(i) == done[i] /\ \A j \in Slots : j < i => ~done[j]

IsNext(k, i, live) ==
    \E d \in 1 .. N : /\ i = (k + d) % N
                      /\ i \in live
                      /\ \A e \in 1 .. d - 1 : (k + e) % N \notin live

\* Slip: the timer is not armed again.
RunSlotUntimed(i, stack) ==
    /\ timer_state' = 1
    /\ fiber_index' = i
    /\ yeild_state' = 0
    /\ saved_stack' = stack
    /\ mpc' = "s_switch"
    /\ UNCHANGED timer

\* The run part, up to the switch: the timer is armed for the chosen slot.
RunSlot(i, stack) ==
    /\ timer_state' = 1
    /\ fiber_index' = i
    /\ yeild_state' = 0
    /\ saved_stack' = stack
    /\ timer' = "armed"
    /\ mpc' = "s_switch"

\* A call without a pending line.
SchedContinue ==
    /\ mpc = "sched"
    /\ enter = "none"
    /\ \E i \in Slots :
         /\ IsNext(fiber_index, i, {j \in Slots : ~done[j]})
         /\ RunSlot(i, stackptrs[i])
    /\ UNCHANGED <<cpu, fiberVars, func_type, stackptrs, plain_running, enter,
                   main_stack>>

\* "nprs n" or "nops n" takes the first free slot; the same call then runs the
\* next live slot, which need not be the new one.
SchedCreate(i, kind) ==
    /\ mpc = "sched"
    /\ enter = "command"
    /\ enter' = "none"
    /\ IsFree(i)
    /\ InitStack(i)
    /\ func_type' = [func_type EXCEPT ![i] = kind]
    /\ done' = [done EXCEPT ![i] = FALSE]
    /\ \E j \in Slots :
         /\ IsNext(IF AllDone THEN 0 ELSE fiber_index, j,
                   {k \in Slots : ~done[k]} \cup {i})
         /\ RunSlot(j, IF j = i THEN Fresh(i) ELSE stackptrs[j])
    /\ UNCHANGED <<cpu, plain_running, main_stack>>

\* Slip: the store half of the switch is left out.
SwitchToSlotUnsaved ==
    /\ mpc = "s_switch"
    /\ LoadContext(saved_stack)
    /\ UNCHANGED <<done, func_type, saveVars, mainVars, flagVars, timer>>

SwitchToSlot ==
    /\ mpc = "s_switch"
    /\ main_stack' = "s_resumed"
    /\ LoadContext(saved_stack)
    /\ UNCHANGED <<done, func_type, stackptrs, saved_stack, mainVars, flagVars,
                   timer>>

\* Slips: the preempted context is dropped; yeild_state stays 0.
AfterSlotDropsContext ==
    /\ mpc = "s_resumed"
    /\ mpc' = "fiber"
    /\ yeild_state' = 1
    /\ UNCHANGED <<cpu, fiberVars, func_type, saveVars, mainVars, timer_state,
                   timer>>

AfterSlotKeepsFlag ==
    /\ mpc = "s_resumed"
    /\ mpc' = "fiber"
    /\ stackptrs' = IF timer_state = 2
                      THEN [stackptrs EXCEPT ![fiber_index] = saved_stack]
                      ELSE stackptrs
    /\ UNCHANGED <<cpu, fiberVars, func_type, saved_stack, main_stack, mainVars,
                   flagVars, timer>>

\* The slot came back.  Only a preempted one left its context in saved_stack.
AfterSlot ==
    /\ mpc = "s_resumed"
    /\ mpc' = "fiber"
    /\ yeild_state' = 1
    /\ stackptrs' = IF timer_state = 2
                      THEN [stackptrs EXCEPT ![fiber_index] = saved_stack]
                      ELSE stackptrs
    /\ UNCHANGED <<cpu, fiberVars, func_type, saved_stack, main_stack, mainVars,
                   timer_state, timer>>

(***************************************************************************)
(* Fibers                                                                  *)
(***************************************************************************)

\* One more prime.  count is iter - 1 of npr_fiber, which yields when iter is a
\* multiple of 1000; nop_fiber never yields; the plain fiber always does.
YieldsAt(f, c) ==
    \/ f = Plain
    \/ f # Plain /\ func_type[f] = "npr" /\ (c + 1) % YieldEvery = 0

Work(f) ==
    /\ cpu = f
    /\ pc[f] = "work"
    /\ LET c == IF count[f] < Steps THEN count[f] + 1 ELSE Steps
           last == c = Steps
           nop == f # Plain /\ func_type[f] = "nop"
       IN /\ count' = [count EXCEPT ![f] = c]
          /\ done' = [done EXCEPT ![f] = last]
          /\ pc' = [pc EXCEPT ![f] =
                      IF last THEN (IF nop THEN "spin" ELSE "y_save")
                              ELSE (IF YieldsAt(f, c) THEN "y_save"
                                                      ELSE "work")]
    /\ UNCHANGED <<cpu, mpc, func_type, saveVars, mainVars, flagVars, timer>>

\* nop_fiber's last loop, which only the timer leaves.
Spin(f) ==
    /\ cpu = f
    /\ pc[f] = "spin"
    /\ done' = [done EXCEPT ![f] = TRUE]
    /\ UNCHANGED <<cpu, mpc, pc, count, func_type, saveVars, mainVars, flagVars,
                   timer>>

\* stack_saverestore(f_stack, main_stack), first the store ...
YieldSave(f) ==
    /\ cpu = f
    /\ pc[f] = "y_save"
    /\ stackptrs' = [stackptrs EXCEPT
                       ![f] = [fib |-> f, at |-> "work", count |-> count[f]]]
    /\ pc' = [pc EXCEPT ![f] = "y_load"]
    /\ UNCHANGED <<cpu, mpc, count, done, func_type, saved_stack, main_stack,
                   mainVars, flagVars, timer>>

\* ... then the load.  Its next instruction, when it is resumed, is in the loop.
YieldLoad(f) ==
    /\ cpu = f
    /\ pc[f] = "y_load"
    /\ pc' = [pc EXCEPT ![f] = "work"]
    /\ cpu' = Main
    /\ mpc' = main_stack
    /\ UNCHANGED <<count, done, func_type, saveVars, mainVars, flagVars, timer>>

(***************************************************************************)
(* The timer interrupt                                                     *)
(***************************************************************************)

\* On the main stack the handler acknowledges and returns; nothing re-arms.
TimerOnMain ==
    /\ timer = "armed"
    /\ cpu = Main
    /\ mpc = "s_switch" => EarlyTimer
    /\ timer' = "off"
    /\ UNCHANGED <<cpu, mpc, fiberVars, func_type, saveVars, mainVars, flagVars>>

\* On a fiber's stack with yeild_state 1: acknowledge and return.
TimerIgnored ==
    /\ timer = "armed"
    /\ cpu \in Fibers
    /\ yeild_state = 1
    /\ timer' = "off"
    /\ UNCHANGED <<cpu, mpc, fiberVars, func_type, saveVars, mainVars, flagVars>>

\* Slip: yeild_state is not looked at.
TimerPreemptsAlways ==
    /\ timer = "armed"
    /\ cpu \in Fibers
    /\ timer' = "off"
    /\ timer_state' = 2
    /\ saved_stack' = [fib |-> cpu, at |-> pc[cpu], count |-> count[cpu]]
    /\ cpu' = Main
    /\ mpc' = main_stack
    /\ UNCHANGED <<fiberVars, func_type, stackptrs, main_stack, mainVars,
                   yeild_state>>

\* Otherwise the context is pushed on the fiber's stack and main_stack loaded.
TimerPreempts ==
    /\ timer = "armed"
    /\ cpu \in Fibers
    /\ yeild_state = 0
    /\ timer' = "off"
    /\ timer_state' = 2
    /\ saved_stack' = [fib |-> cpu, at |-> pc[cpu], count |-> count[cpu]]
    /\ cpu' = Main
    /\ mpc' = main_stack
    /\ UNCHANGED <<fiberVars, func_type, stackptrs, main_stack, mainVars,
                   yeild_state>>

(***************************************************************************)
(* Specification                                                           *)
(***************************************************************************)

MainStep ==
    \/ SkipPlain
    \/ StartPlain
    \/ ContinuePlain
    \/ SwitchToPlain
    \/ AfterPlain
    \/ SchedIdle
    \/ SchedRefuse
    \/ SchedContinue
    \/ \E i \in Slots, kind \in {"npr", "nop"} : SchedCreate(i, kind)
    \/ SwitchToSlot
    \/ AfterSlot

FiberStep(f) == Work(f) \/ Spin(f) \/ YieldSave(f) \/ YieldLoad(f)

TimerInterrupt == TimerOnMain \/ TimerIgnored \/ TimerPreempts

Next == Key \/ MainStep \/ (\E f \in Fibers : FiberStep(f)) \/ TimerInterrupt

Spec == Init /\ [][Next]_vars

\* The core never idles: whoever has it goes on.  An armed timer expires.  A
\* quantum is long against one step, so a slot that is entered again and again
\* also moves.  Of what is typed, and when, nothing is assumed.
Fairness ==
    /\ WF_vars(MainStep)
    /\ \A f \in Fibers : SF_vars(FiberStep(f))
    /\ WF_vars(TimerIgnored \/ TimerPreempts)

FairSpec == Spec /\ Fairness

(***************************************************************************)
(* Properties                                                              *)
(***************************************************************************)

\* What the next entry of fiber f resumes from: a slot that was just preempted
\* is still in saved_stack.
SavedContext(f) ==
    IF mpc = "s_resumed" /\ f = fiber_index /\ timer_state = 2
      THEN saved_stack
      ELSE stackptrs[f]

\* No switch loses a fiber: the context kept for a live slot that is not on the
\* core is its own, has all its progress, and continues where it stopped or at
\* the load of the yield it was caught in.
ContextKept ==
    \A i \in Slots :
        ~done[i] /\ cpu # i =>
            LET c == SavedContext(i)
            IN /\ c.fib = i
               /\ c.count = count[i]
               /\ c.at \in {pc[i], "y_load"}

\* The plain fiber, which the handler must leave alone, continues exactly where
\* it yielded.
PlainContextKept ==
    plain_running /\ cpu # Plain => 
        stackptrs[Plain] = [fib |-> Plain, at |-> "work",
                            count |-> count[Plain]]

\* A timer left armed by a slot that yielded early never preempts the plain
\* fiber: whoever armed it raised yeild_state before the plain fiber ran.
PlainNotPreempted == cpu = Plain /\ timer = "armed" => yeild_state = 1

\* Both dispatchers share one main_stack; a fiber returns into the one that
\* entered it, and the slot that runs is the one the scheduler accounts for.
ReturnsToDispatcher ==
    /\ cpu = Plain => main_stack = "p_resumed"
    /\ cpu \in Slots => main_stack = "s_resumed" /\ cpu = fiber_index

\* A live slot never loses progress, and no step of the main stack, of another
\* fiber or of the handler hands its slot to a new command.
WorkKept ==
    [][\A i \in Slots : ~done[i] =>
          /\ count'[i] >= count[i]
          /\ func_type'[i] = func_type[i]]_vars

\* Whatever the fibers do, the main stack (keyboard, shell, display) gets the
\* core back.  Holds if the timer cannot expire before the switch.
MainRunsAgain == []<>(cpu = Main)

\* The stack pointer kept for slot i returns into a load of main_stack.
Caught(i) == stackptrs[i].at = "y_load"

\* The scheduler is called again and again with no line pending.  So it is unless
\* lines come for every pass, or one stays that nobody knows: then the call
\* returns before it has chosen a slot (fiber_scheduler.cc:158).
CallsFindNoLine == []<>(mpc = "sched" /\ enter = "none")

\* A live slot finishes, or is caught by the timer inside its yield, if no pending
\* line keeps the scheduler from running it.
FinishesOrCaught ==
    CallsFindNoLine => \A i \in Slots : ~done[i] ~> (done[i] \/ Caught(i))

(***************************************************************************)
(* What a comment says, and the code does not do                           *)
(***************************************************************************)

\* x86/except.cc:359: round robin ensures fairness, so a live slot finishes.
RoundRobinIsFair ==
    CallsFindNoLine => \A i \in Slots : ~done[i] ~> done[i]
=============================================================================
