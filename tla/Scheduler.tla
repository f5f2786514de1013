----------------------------- MODULE Scheduler -----------------------------
(***************************************************************************)
(* The loop of core 0 at the grain of its calls: keys reach shell_update,  *)
(* then shell_step, shell_step_coroutine, shell_step_fiber and             *)
(* shell_step_fiber_scheduler run in that order on one shellstate_t.       *)
(*                                                                         *)
(* The four calls talk through shell_state, enter and done_old, which all  *)
(* of them read and write.  A command line is its kind and its argument; a *)
(* slot's quantum is one step (module Preempt opens it up).                *)
(***************************************************************************)
EXTENDS Integers, FiniteSets

CONSTANTS
    N,      \* slots of the fiber scheduler, 5 in the code
    Limit,  \* fibers of one kind, 3 in the code
    Args,   \* arguments of the four searches; 0 is "no digits" too
    Typed   \* arguments of fac, fib and npr

ASSUME SlotsAssumption == N \in Nat \ {0}
ASSUME LimitAssumption == Limit \in Nat \ {0}
ASSUME ArgsAssumption == Args \subseteq Nat
ASSUME TypedAssumption == Typed \subseteq Nat

Slots  == 0 .. N - 1
BadArg == -1      \* not a number
Unread == -1      \* a slot that has not read its argument

\* Command lines by what the parsers tell apart: "nprx" stands for npr with a
\* fourth letter that no parser knows, "partial" for a line no parser accepts.
Functions == {"fac", "fib", "npr"}
Searches  == {"nprc", "nprf", "nprs", "nops"}
Lines == [name : Functions, arg : Typed]
         \cup [name : Searches, arg : Args \cup {BadArg}]
         \cup [name : {"echo", "nprx", "partial"}, arg : {BadArg}]
Partial == [name |-> "partial", arg |-> BadArg]

\* shell_state: 0x07, 0x01, 0x10, 0x11, 0x20, 0x30.
States == {"initial", "ready", "fiber", "coroutine", "npr", "nop"}

VARIABLES
    pc,                \* the call that is next: "shell", "co", "fiber", "sched";
                       \* "hung": never
    shell_state, enter, done_old,
    curr_cmd,          \* the line in the buffer
    typing,            \* pnt_cmd # 0: a line is being typed
    fate,              \* history: what became of the last line submitted
    coroutine_running, \* and what its f_locals still has to count, 0: never ends
    co_left,
    fiber_running,     \* the same of the plain fiber
    fi_left,
    done, func_type, fiber_index, num_npr, num_nop,
    steps,             \* what each live slot read through its pointer to arg
    asked,             \* history: what its command said
    waited             \* history: turns of others since the slot last ran

lineVars == <<curr_cmd, typing>>
coVars   == <<coroutine_running, co_left>>
fiVars   == <<fiber_running, fi_left>>
slotVars == <<done, func_type, fiber_index, num_npr, num_nop, steps, asked,
              waited>>
vars == <<pc, shell_state, enter, done_old, lineVars, fate, coVars, fiVars,
          slotVars>>

TypeOK ==
    /\ pc \in {"shell", "co", "fiber", "sched", "hung"}
    /\ shell_state \in States
    /\ enter \in BOOLEAN
    /\ done_old \in BOOLEAN
    /\ curr_cmd \in Lines
    /\ typing \in BOOLEAN
    /\ fate \in {"none", "waiting", "served", "lost", "again"}
    /\ coroutine_running \in BOOLEAN
    /\ co_left \in Nat
    /\ fiber_running \in BOOLEAN
    /\ fi_left \in Nat
    /\ done \in [Slots -> BOOLEAN]
    /\ func_type \in [Slots -> {"none", "npr", "nop"}]
    /\ fiber_index \in Slots
    /\ num_npr \in -Limit .. Limit
    /\ num_nop \in -Limit .. Limit
    /\ steps \in [Slots -> Args \cup {0, Unread}]
    /\ asked \in [Slots -> Args \cup {0}]
    /\ waited \in [Slots -> Nat]

\* shell_init
Init ==
    /\ pc = "shell"
    /\ shell_state = "initial"
    /\ enter = FALSE
    /\ done_old = FALSE
    /\ curr_cmd = Partial
    /\ typing = FALSE
    /\ fate = "none"
    /\ coroutine_running = FALSE /\ co_left = 0
    /\ fiber_running = FALSE /\ fi_left = 0
    /\ done = [i \in Slots |-> TRUE]
    /\ func_type = [i \in Slots |-> "none"]
    /\ fiber_index = 0
    /\ num_npr = 0
    /\ num_nop = 0
    /\ steps = [i \in Slots |-> 0]
    /\ asked = [i \in Slots |-> 0]
    /\ waited = [i \in Slots |-> 0]

Scheduling == shell_state \in {"npr", "nop"}

\* What a command that ends at once makes of shell_state.
BackToInitial == IF Scheduling THEN shell_state ELSE "initial"

\* The line in the buffer is carried out or refused.  Is it not the one that was
\* submitted, or what is typed over it, then that one is served a second time.
Serve == fate' = IF fate = "waiting" THEN "served"
                 ELSE IF typing \/ curr_cmd = Partial THEN fate
                 ELSE "again"

(***************************************************************************)
(* shell_update                                                            *)
(***************************************************************************)

\* While the coroutine or the plain fiber owns the shell, keys are dropped.
Owned == shell_state \in {"coroutine", "fiber"}
KeyDropped ==
    /\ pc = "shell"
    /\ Owned
    /\ done_old' = FALSE
    /\ UNCHANGED <<pc, shell_state, enter, lineVars, fate, coVars, fiVars,
                   slotVars>>

\* Half a line that the parsers of a pending Enter take for a command.
HalfTyped == [name : Searches \cup {"nprx"}, arg : {BadArg}]

\* Any other key but Enter.  The first one of a line clears the buffer, the
\* line that Enter has just submitted included; a shift key only clears.  The
\* buffer is read under a pending Enter only: without one it stays Partial here.
KeyTyped ==
    /\ pc = "shell"
    /\ ~Owned
    /\ done_old' = FALSE
    /\ curr_cmd' \in IF typing /\ enter THEN {Partial} \cup HalfTyped
                                         ELSE {Partial}
    /\ typing' \in {typing, TRUE}
    /\ fate' = IF fate = "waiting" THEN "lost" ELSE fate
    /\ UNCHANGED <<pc, shell_state, enter, coVars, fiVars, slotVars>>

\* Slip: Enter does not make the shell ready.
EnterTypedSlip ==
    /\ pc = "shell"
    /\ ~Owned
    /\ done_old' = FALSE
    /\ curr_cmd' \in IF typing THEN Lines ELSE {Partial}
    /\ typing' = FALSE
    /\ fate' = "waiting"
    /\ enter' = TRUE
    /\ UNCHANGED <<pc, shell_state, coVars, fiVars, slotVars>>

EnterTyped ==
    /\ pc = "shell"
    /\ ~Owned
    /\ done_old' = FALSE
    /\ curr_cmd' \in IF typing THEN Lines ELSE {Partial}
    /\ typing' = FALSE
    /\ fate' = "waiting"
    /\ enter' = TRUE
    /\ shell_state' = IF Scheduling THEN shell_state ELSE "ready"
    /\ UNCHANGED <<pc, coVars, fiVars, slotVars>>

(***************************************************************************)
(* shell_step                                                              *)
(***************************************************************************)

\* A result already shown, or a shell at rest, cancels the pending Enter.
Pending == enter /\ ~done_old /\ shell_state # "initial"

\* npr counts primes up to its argument, and tests for equality: it never gets
\* to 0, which is also the argument of "npr " without digits.
Endless == curr_cmd.name = "npr" /\ curr_cmd.arg = 0
Hang ==
    /\ pc = "shell"
    /\ Pending /\ Endless
    /\ pc' = "hung"
    /\ UNCHANGED <<shell_state, enter, done_old, lineVars, fate, coVars, fiVars,
                   slotVars>>

AnswersAtOnce == curr_cmd.name \in Functions \cup {"partial"} /\ ~Endless

\* Slip: nothing cancels an Enter.
ShellStepSlip ==
    /\ pc = "shell"
    /\ pc' = "co"
    /\ \/ /\ ~Pending
          /\ done_old' = FALSE
          /\ UNCHANGED <<enter, shell_state, fate>>
       \/ /\ Pending /\ AnswersAtOnce
          /\ Serve
          /\ enter' = FALSE
          /\ done_old' = TRUE
          /\ shell_state' = BackToInitial
       \/ /\ Pending /\ curr_cmd.name = "echo"
          /\ Serve
          /\ done_old' = TRUE
          /\ shell_state' = BackToInitial
          /\ UNCHANGED enter
       \/ /\ Pending /\ curr_cmd.name \in Searches \cup {"nprx"}
          /\ done_old' = FALSE
          /\ UNCHANGED <<enter, shell_state, fate>>
    /\ UNCHANGED <<lineVars, coVars, fiVars, slotVars>>

ShellStep ==
    /\ pc = "shell"
    /\ pc' = "co"
    /\ \/ /\ ~Pending
          /\ enter' = FALSE
          /\ done_old' = FALSE
          /\ UNCHANGED <<shell_state, fate>>
       \/ /\ Pending /\ AnswersAtOnce
          /\ Serve
          /\ enter' = FALSE
          /\ done_old' = TRUE
          /\ shell_state' = BackToInitial
       \/ /\ Pending /\ curr_cmd.name = "echo"     \* returns with enter set
          /\ Serve
          /\ done_old' = TRUE
          /\ shell_state' = BackToInitial
          /\ UNCHANGED enter
       \/ /\ Pending /\ curr_cmd.name \in Searches \cup {"nprx"}
          /\ done_old' = FALSE
          /\ UNCHANGED <<enter, shell_state, fate>>
    /\ UNCHANGED <<lineVars, coVars, fiVars, slotVars>>

(***************************************************************************)
(* shell_step_coroutine                                                    *)
(***************************************************************************)

\* Slip: an answer that was just made does not hold the shell back.
AtRestForgets == shell_state = "initial"

\* The early return of the coroutine and of the plain fiber.
AtRest == shell_state = "initial" /\ ~done_old

\* One more prime of the coroutine, left being what it had to count.
RunCoroutine(left) ==
    /\ enter' = FALSE
    /\ done_old' = (left = 1)
    /\ coroutine_running' = (left # 1)
    /\ co_left' = IF left = 0 THEN 0 ELSE left - 1

StartCoroutine ==
    /\ pc = "co"
    /\ ~AtRest
    /\ enter
    /\ curr_cmd.name = "nprc" /\ curr_cmd.arg # BadArg
    /\ pc' = "fiber"
    /\ Serve
    /\ RunCoroutine(curr_cmd.arg)
    /\ shell_state' = IF curr_cmd.arg = 1 THEN "initial" ELSE "coroutine"
    /\ UNCHANGED <<lineVars, fiVars, slotVars>>

RefuseCoroutine ==
    /\ pc = "co"
    /\ ~AtRest
    /\ enter
    /\ curr_cmd.name = "nprc" /\ curr_cmd.arg = BadArg
    /\ pc' = "fiber"
    /\ Serve
    /\ done_old' = TRUE
    /\ shell_state' = "initial"
    /\ UNCHANGED <<enter, lineVars, coVars, fiVars, slotVars>>

\* Slip: the end of the coroutine does not change shell_state.
ContinueCoroutineStays ==
    /\ pc = "co"
    /\ ~AtRest
    /\ ~enter
    /\ shell_state = "coroutine" \/ coroutine_running
    /\ pc' = "fiber"
    /\ RunCoroutine(co_left)
    /\ UNCHANGED <<shell_state, lineVars, fate, fiVars, slotVars>>

ContinueCoroutine ==
    /\ pc = "co"
    /\ ~AtRest
    /\ ~enter
    /\ shell_state = "coroutine" \/ coroutine_running
    /\ pc' = "fiber"
    /\ RunCoroutine(co_left)
    /\ shell_state' = IF co_left = 1 THEN "initial" ELSE shell_state
    /\ UNCHANGED <<lineVars, fate, fiVars, slotVars>>

SkipCoroutine ==
    /\ pc = "co"
    /\ \/ AtRest
       \/ enter /\ curr_cmd.name # "nprc"
       \/ ~enter /\ shell_state # "coroutine" /\ ~coroutine_running
    /\ pc' = "fiber"
    /\ UNCHANGED <<shell_state, enter, done_old, lineVars, fate, coVars,
                   fiVars, slotVars>>

(***************************************************************************)
(* shell_step_fiber                                                        *)
(***************************************************************************)

RunFiber(left) ==
    /\ enter' = FALSE
    /\ done_old' = (left = 1)
    /\ fiber_running' = (left # 1)
    /\ fi_left' = IF left = 0 THEN 0 ELSE left - 1

StartFiber ==
    /\ pc = "fiber"
    /\ ~AtRest
    /\ enter
    /\ curr_cmd.name = "nprf" /\ curr_cmd.arg # BadArg
    /\ pc' = "sched"
    /\ Serve
    /\ RunFiber(curr_cmd.arg)
    /\ shell_state' = IF curr_cmd.arg = 1 THEN "initial" ELSE "fiber"
    /\ UNCHANGED <<lineVars, coVars, slotVars>>

RefuseFiber ==
    /\ pc = "fiber"
    /\ ~AtRest
    /\ enter
    /\ curr_cmd.name = "nprf" /\ curr_cmd.arg = BadArg
    /\ pc' = "sched"
    /\ Serve
    /\ done_old' = TRUE
    /\ shell_state' = "initial"
    /\ UNCHANGED <<enter, lineVars, coVars, fiVars, slotVars>>

ContinueFiber ==
    /\ pc = "fiber"
    /\ ~AtRest
    /\ ~enter
    /\ shell_state = "fiber" \/ fiber_running
    /\ pc' = "sched"
    /\ RunFiber(fi_left)
    /\ shell_state' = IF fi_left = 1 THEN "initial" ELSE shell_state
    /\ UNCHANGED <<lineVars, fate, coVars, slotVars>>

SkipFiber ==
    /\ pc = "fiber"
    /\ \/ AtRest
       \/ enter /\ curr_cmd.name # "nprf"
       \/ ~enter /\ shell_state # "fiber" /\ ~fiber_running
    /\ pc' = "sched"
    /\ UNCHANGED <<shell_state, enter, done_old, lineVars, fate, coVars,
                   fiVars, slotVars>>

(***************************************************************************)
(* shell_step_fiber_scheduler                                              *)
(***************************************************************************)

AllDone == \A i \in Slots : done[i]
Live == {i \in Slots : ~done[i]}

\* The early return.
SchedIdle ==
    /\ pc = "sched"
    /\ \/ AtRest /\ AllDone
       \/ ~AtRest /\ AllDone /\ ~enter /\ ~Scheduling
    /\ pc' = "shell"
    /\ UNCHANGED <<shell_state, enter, done_old, lineVars, fate, coVars,
                   fiVars, slotVars>>

\* fiber_index when the parser starts, and the kind the line asks for.
\* (Slips: the index starts over at every command, the counters are swapped.)
StartIndexZero == 0
CountOther(kind) == IF kind = "npr" THEN num_nop ELSE num_npr
StartIndex == IF AllDone THEN 0 ELSE fiber_index
Asks(kind) == curr_cmd.name = (IF kind = "npr" THEN "nprs" ELSE "nops")
Spawns == curr_cmd.name \in {"nprs", "nops"}
Count(kind) == IF kind = "npr" THEN num_npr ELSE num_nop

\* A pending line that is no command of the scheduler: it returns, and with it
\* every live slot loses this turn.
SchedIgnores ==
    /\ pc = "sched"
    /\ ~(AtRest /\ AllDone)
    /\ enter
    /\ ~Spawns
    /\ pc' = "shell"
    /\ fiber_index' = StartIndex
    /\ UNCHANGED <<shell_state, enter, done_old, lineVars, fate, coVars, fiVars,
                   done, func_type, num_npr, num_nop, steps, asked, waited>>

\* Slip: a refusal leaves shell_state alone.
SchedRefusesStays ==
    /\ pc = "sched"
    /\ ~(AtRest /\ AllDone)
    /\ enter
    /\ Spawns
    /\ curr_cmd.arg = BadArg \/ Live = Slots
          \/ \E kind \in {"npr", "nop"} : Asks(kind) /\ Count(kind) = Limit
    /\ pc' = "shell"
    /\ done_old' = (done_old \/ curr_cmd.arg = BadArg)
    /\ Serve
    /\ fiber_index' = StartIndex
    /\ UNCHANGED <<shell_state, enter, lineVars, coVars, fiVars, done, func_type,
                   num_npr, num_nop, steps, asked, waited>>

\* A bad argument, no free slot, or the limit.
SchedRefuses ==
    /\ pc = "sched"
    /\ ~(AtRest /\ AllDone)
    /\ enter
    /\ \/ Spawns /\ curr_cmd.arg = BadArg /\ done_old' = TRUE
       \/ Spawns /\ curr_cmd.arg # BadArg /\ Live = Slots /\ UNCHANGED done_old
       \/ \E kind \in {"npr", "nop"} :
             /\ Asks(kind) /\ curr_cmd.arg # BadArg /\ Live # Slots
             /\ Count(kind) = Limit
             /\ UNCHANGED done_old
    /\ pc' = "shell"
    /\ shell_state' = "initial"
    /\ Serve
    /\ fiber_index' = StartIndex
    /\ UNCHANGED <<enter, lineVars, coVars, fiVars, done, func_type, num_npr,
                   num_nop, steps, asked, waited>>

\* The live slot whose turn it is after index k.
IsNext(k, i, live) ==
    \E d \in 1 .. N : /\ i = (k + d) % N
                      /\ i \in live
                      /\ \A e \in 1 .. d - 1 : (k + e) % N \notin live

\* The counter that a finished slot is taken from: the one of shell_state, not
\* of the slot's func_type.  (Slip: no other state is thought of.)
ChargedLiterally(state) == state
Charged(state) == IF state = "nop" THEN "nop" ELSE "npr"

\* shell_state after a turn.  (Slip: it is left alone.)
StateUnchanged(state, live, finishes) == state
StateAfter(state, live, finishes) ==
    IF finishes /\ live = {} THEN "initial" ELSE state

\* The run part.  now is the slot table and the counters when it starts, arg
\* this call's local variable, which a new slot reads through its pointer.  The
\* slot may finish its computation in this quantum, unless it counts to 0 (its
\* stack, and what it had read, is dead then).
RunSlot(i, now, arg, finishes) ==
    LET read == IF now.steps[i] = Unread THEN arg ELSE now.steps[i]
        live == IF finishes THEN now.live \ {i} ELSE now.live
        less(kind) == IF finishes /\ Charged(now.state) = kind THEN 1 ELSE 0
    IN /\ finishes => read # 0
       /\ fiber_index' = i
       /\ steps' = [now.steps EXCEPT ![i] = IF finishes THEN 0 ELSE read]
       /\ asked' = [now.asked EXCEPT ![i] = IF finishes THEN 0 ELSE @]
       /\ done' = [k \in Slots |-> k \notin live]
       /\ num_npr' = now.npr - less("npr")
       /\ num_nop' = now.nop - less("nop")
       /\ waited' = [k \in Slots |-> IF k \in live \ {i} THEN now.waited[k] + 1
                                                         ELSE 0]
       /\ shell_state' = StateAfter(now.state, live, finishes)

SchedContinues ==
    /\ pc = "sched"
    /\ ~enter
    /\ Scheduling \/ ~AllDone
    /\ pc' = "shell"
    /\ \E i \in Live, finishes \in BOOLEAN :
         /\ IsNext(fiber_index, i, Live)
         /\ RunSlot(i, [live |-> Live, state |-> shell_state, npr |-> num_npr,
                        nop |-> num_nop, steps |-> steps, asked |-> asked,
                        waited |-> waited],
                    0, finishes)
    /\ UNCHANGED <<enter, done_old, lineVars, fate, coVars, fiVars, func_type>>

\* "nprs n", "nops n": the first free slot gets a new fiber, and the same call
\* then runs the next live slot.
SchedSpawns(kind, new) ==
    /\ pc = "sched"
    /\ ~(AtRest /\ AllDone)
    /\ enter
    /\ Asks(kind) /\ curr_cmd.arg # BadArg
    /\ done[new] /\ \A j \in Slots : j < new => ~done[j]
    /\ Count(kind) # Limit
    /\ pc' = "shell"
    /\ Serve
    /\ enter' = FALSE
    /\ func_type' = [func_type EXCEPT ![new] = kind]
    /\ \E i \in Live \cup {new}, finishes \in BOOLEAN :
         /\ IsNext(StartIndex, i, Live \cup {new})
         /\ RunSlot(i, [live |-> Live \cup {new}, state |-> kind,
                        npr |-> num_npr + (IF kind = "npr" THEN 1 ELSE 0),
                        nop |-> num_nop + (IF kind = "nop" THEN 1 ELSE 0),
                        steps |-> [steps EXCEPT ![new] = Unread],
                        asked |-> [asked EXCEPT ![new] = curr_cmd.arg],
                        waited |-> [waited EXCEPT ![new] = 0]],
                    curr_cmd.arg, finishes)
    /\ UNCHANGED <<done_old, lineVars, coVars, fiVars>>

(***************************************************************************)
(* Specification                                                           *)
(***************************************************************************)

Key == KeyDropped \/ KeyTyped \/ EnterTyped

Coroutine == \/ StartCoroutine \/ RefuseCoroutine
             \/ ContinueCoroutine \/ SkipCoroutine

PlainFiber == StartFiber \/ RefuseFiber \/ ContinueFiber \/ SkipFiber

FiberScheduler ==
    \/ SchedIdle
    \/ SchedIgnores
    \/ SchedRefuses
    \/ SchedContinues
    \/ \E kind \in {"npr", "nop"}, new \in Slots : SchedSpawns(kind, new)

Compute == ShellStep \/ Hang \/ Coroutine \/ PlainFiber \/ FiberScheduler

Next == Key \/ Compute

\* Keys come one at a time and slowly: the loop always reaches its computations.
Spec == Init /\ [][Next]_vars /\ WF_vars(Compute)

(***************************************************************************)
(* Properties                                                              *)
(***************************************************************************)

\* The search for the next live slot (a while loop without a bound) ends: the
\* states that enter it unconditionally come with a live slot.
NoEndlessSearch == Scheduling => ~AllDone

\* The counters may be charged to the wrong kind, but together they are exactly
\* the live slots: no slot is ever forgotten or freed twice.
CountsSum == num_npr + num_nop = Cardinality(Live)

\* Round robin: between two turns of a live slot every other one runs once at
\* most, however commands come and slots finish.
BoundedWait == \A i \in Live : waited[i] <= N - 1

\* A line that Enter submits is carried out or refused once, although echo and
\* the refusals leave enter set: shell_state or done_old cancels it in the next
\* pass, whatever key comes before.
CommandOnce == fate # "again"

\* npr with a fourth letter: shell_step takes it for the coroutine's, the plain
\* fiber's or the fiber scheduler's, and none of them for its own.
Unknown == curr_cmd.name = "nprx"

\* A submitted line is carried out or refused by one of the four calls, or lost
\* to a key that comes before shell_step has read it: that one clears the buffer.
\* It waits for ever if its fourth letter is unknown, or if it is npr 0.
LineServed == fate = "waiting" ~> (fate # "waiting" \/ Unknown \/ pc = "hung")

\* When no key comes any more every live slot finishes or gets its turn again and
\* again: no other Enter but that of an unknown line stays pending, under which
\* the scheduler returns before it runs one (fiber_scheduler.cc:158).
SlotsKeepRunning ==
    \/ []<><<Key>>_vars
    \/ <>(pc = "hung")
    \/ <>[](enter /\ Unknown)
    \/ \A i \in Slots : \/ []<>done[i]
                        \/ []<><<SchedContinues /\ fiber_index' = i>>_vars

\* A coroutine or plain fiber that can finish gives the keyboard back, though
\* the other one and the slots write the same shell_state and done_old.
KeyboardComesBack ==
    /\ (shell_state = "coroutine" /\ co_left # 0) ~> shell_state # "coroutine"
    /\ (shell_state = "fiber" /\ fi_left # 0) ~> shell_state # "fiber"

(***************************************************************************)
(* What the code says, and does not do                                     *)
(***************************************************************************)

\* fiber_scheduler.cc:201: never more than Limit long computations of a kind.
AtMostLimitOfAKind ==
    \A kind \in {"npr", "nop"} :
        Cardinality({i \in Live : func_type[i] = kind}) <= Limit

\* fiber_scheduler.cc:39: a slot counts to the number its command gave.
ReadsItsArgument == \A i \in Live : steps[i] \in {Unread, asked[i]}
=============================================================================
