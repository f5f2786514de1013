--------------------------- MODULE PreemptProofs ---------------------------
(***************************************************************************)
(* For every number of slots, every amount of work and every timing of the *)
(* one-shot timer, the switches of Preempt keep every fiber's context.     *)
(***************************************************************************)
EXTENDS Preempt, TLAPS

\* Who is where: the flags, the chosen slot and the main stack pointer agree
\* with the one that has the core.
Control ==
    /\ cpu = Main <=> mpc # "away"
    /\ cpu \in Slots => timer_state = 1
    /\ mpc = "s_switch" => /\ timer_state = 1
                           /\ ~done[fiber_index]
                           /\ saved_stack = stackptrs[fiber_index]
    /\ mpc \in {"p_switch", "p_resumed"} => plain_running
    /\ cpu = Plain => plain_running
    /\ timer = "armed" /\ yeild_state = 0 =>
          mpc \in {"s_switch", "s_resumed"} \/ cpu \in Slots

\* At the load of its yield a fiber's stack pointer is already good.
Stored ==
    /\ \A i \in Slots :
          cpu = i /\ pc[i] = "y_load" =>
              /\ stackptrs[i].fib = i
              /\ stackptrs[i].count = count[i]
              /\ stackptrs[i].at \in {"work", "y_load"}
    /\ cpu = Plain /\ pc[Plain] = "y_load" =>
          stackptrs[Plain] = [fib |-> Plain, at |-> "work",
                              count |-> count[Plain]]

Inv ==
    /\ TypeOK
    /\ Control
    /\ ReturnsToDispatcher
    /\ Stored
    /\ ContextKept
    /\ PlainContextKept

-----------------------------------------------------------------------------

LEMMA Numbering ==
    /\ Slots \subseteq Fibers
    /\ Plain \in Fibers
    /\ Plain \notin Slots
    /\ Main \notin Fibers
    /\ 0 .. N + 1 = Fibers \cup {Main}
    /\ 0 \in Slots
BY NAssumption DEF Slots, Plain, Fibers, Main

LEMMA FreshIsContext == \A f \in 0 .. N + 1 : Fresh(f) \in Contexts
BY StepsAssumption DEF Fresh, Contexts, Points

\* Every variable starts with its type ...
LEMMA TypeInit == Init => TypeOK
<1>1. Main \in 0 .. N + 1 /\ Fresh(Main) \in Contexts
  BY Numbering, FreshIsContext
<1>2. 0 \in 0 .. Steps
  BY StepsAssumption
<1>3. [f \in Fibers |-> f # Plain] \in [Fibers -> BOOLEAN]
  OBVIOUS
<1>4. [f \in Fibers |-> Fresh(Main)] \in [Fibers -> Contexts]
  BY <1>1
<1>5. /\ [f \in Fibers |-> "work"] \in [Fibers -> Points]
      /\ [f \in Fibers |-> 0] \in [Fibers -> 0 .. Steps]
      /\ [i \in Slots |-> "none"] \in [Slots -> Kinds]
  BY <1>2 DEF Points, Kinds
<1>6. 0 \in 0 .. 2 /\ 0 \in 0 .. 1
  OBVIOUS
<1>. QED
  BY <1>1, <1>3, <1>4, <1>5, <1>6, Numbering, Zenon DEF Init, TypeOK, Pending

\* ... and keeps it.
LEMMA TypeStep == TypeOK /\ [Next]_vars => TypeOK'
<1> SUFFICES ASSUME TypeOK, [Next]_vars PROVE TypeOK'
  OBVIOUS
<1> USE NAssumption, StepsAssumption, Numbering, FreshIsContext
<1>1. CASE SkipPlain
  BY <1>1 DEF SkipPlain, TypeOK, fiberVars, saveVars, mainVars, flagVars
<1>2. CASE StartPlain
  BY <1>2 DEF StartPlain, InitStack, TypeOK, flagVars, Points, Pending
<1>3. CASE ContinuePlain
  BY <1>3 DEF ContinuePlain, TypeOK, fiberVars, saveVars, mainVars, flagVars
<1>4. CASE SwitchToPlain
  <2>1. stackptrs[Plain] \in Contexts
    BY DEF TypeOK
  <2>. QED
    BY <1>4, <2>1 DEF SwitchToPlain, LoadContext, TypeOK, Contexts, mainVars,
                      flagVars
<1>5. CASE AfterPlain
  BY <1>5 DEF AfterPlain, TypeOK, fiberVars, saveVars, flagVars
<1>6. CASE SchedIdle
  BY <1>6 DEF SchedIdle, TypeOK, fiberVars, saveVars, mainVars, flagVars
<1>7. CASE SchedRefuse
  BY <1>7 DEF SchedRefuse, TypeOK, fiberVars, saveVars, Pending
<1>8. CASE SchedContinue
  BY <1>8 DEF SchedContinue, RunSlot, TypeOK, fiberVars
<1>9. ASSUME NEW i \in Slots, NEW kind \in {"npr", "nop"}, SchedCreate(i, kind)
      PROVE  TypeOK'
  <2>1. PICK j \in Slots : RunSlot(j, IF j = i THEN Fresh(i) ELSE stackptrs[j])
    BY <1>9 DEF SchedCreate
  <2>2. saved_stack' \in Contexts
    BY <2>1 DEF RunSlot, TypeOK
  <2>. QED
    BY <1>9, <2>1, <2>2 DEF SchedCreate, RunSlot, InitStack, TypeOK, Points,
                            Kinds, Pending
<1>10. CASE SwitchToSlot
  BY <1>10 DEF SwitchToSlot, LoadContext, TypeOK, Contexts, mainVars, flagVars
<1>11. CASE AfterSlot
  BY <1>11 DEF AfterSlot, TypeOK, fiberVars, mainVars
<1>12. ASSUME NEW f \in Fibers, Work(f) PROVE TypeOK'
  <2>1. /\ count'[f] \in 0 .. Steps
        /\ count' = [count EXCEPT ![f] = count'[f]]
    BY <1>12 DEF Work, TypeOK
  <2>2. /\ done' \in [Fibers -> BOOLEAN]
        /\ pc' \in [Fibers -> Points]
    BY <1>12 DEF Work, TypeOK, Points
  <2>3. count' \in [Fibers -> 0 .. Steps]
    BY <2>1 DEF TypeOK
  <2>. QED
    BY <1>12, <2>2, <2>3 DEF Work, TypeOK, saveVars, mainVars, flagVars
<1>13. ASSUME NEW f \in Fibers, Spin(f) PROVE TypeOK'
  BY <1>13 DEF Spin, TypeOK, saveVars, mainVars, flagVars
<1>14. ASSUME NEW f \in Fibers, YieldSave(f) PROVE TypeOK'
  BY <1>14 DEF YieldSave, TypeOK, Contexts, Points, mainVars, flagVars
<1>15. ASSUME NEW f \in Fibers, YieldLoad(f) PROVE TypeOK'
  BY <1>15 DEF YieldLoad, TypeOK, Points, saveVars, mainVars, flagVars
<1>16. CASE TimerOnMain
  BY <1>16 DEF TimerOnMain, TypeOK, fiberVars, saveVars, mainVars, flagVars
<1>17. CASE TimerIgnored
  BY <1>17 DEF TimerIgnored, TypeOK, fiberVars, saveVars, mainVars, flagVars
<1>18. CASE TimerPreempts
  BY <1>18 DEF TimerPreempts, TypeOK, Contexts, fiberVars, mainVars
<1>19. CASE UNCHANGED vars
  BY <1>19 DEF vars, TypeOK
<1>20. CASE Key
  BY <1>20 DEF Key, TypeOK, fiberVars, saveVars, flagVars
<1>. QED
  BY <1>1, <1>2, <1>3, <1>4, <1>5, <1>6, <1>7, <1>8, <1>9, <1>10, <1>11, <1>12,
     <1>13, <1>14, <1>15, <1>16, <1>17, <1>18, <1>19, <1>20
     DEF Next, MainStep, FiberStep, TimerInterrupt

\* Every variable always has its type, whatever N, Steps and the timer are.
THEOREM TypeCorrect == Spec => []TypeOK
BY TypeInit, TypeStep, PTL DEF Spec

-----------------------------------------------------------------------------

LEMMA InvInit == Init => Inv
<1> SUFFICES ASSUME Init PROVE Inv
  OBVIOUS
<1>1. TypeOK
  BY TypeInit
<1>2. cpu = Main /\ \A i \in Slots : done[i]
  BY Numbering DEF Init
<1>. QED
  BY <1>1, <1>2, Numbering
     DEF Inv, Init, Control, ReturnsToDispatcher, Stored, ContextKept,
         PlainContextKept

LEMMA InvStep == Inv /\ [Next]_vars => Inv'
<1> SUFFICES ASSUME Inv, [Next]_vars PROVE Inv'
  OBVIOUS
<1>0. TypeOK /\ TypeOK'
  BY TypeStep DEF Inv
<1> USE Numbering
<1>1. CASE SkipPlain
  BY <1>0, <1>1
     DEF SkipPlain, Inv, Control, ReturnsToDispatcher, Stored, ContextKept,
         PlainContextKept, SavedContext, fiberVars, saveVars, mainVars, flagVars
<1>2. CASE StartPlain
  BY <1>0, <1>2
     DEF StartPlain, InitStack, Fresh, TypeOK, Inv, Control,
         ReturnsToDispatcher, Stored, ContextKept, PlainContextKept,
         SavedContext, flagVars
<1>3. CASE ContinuePlain
  BY <1>0, <1>3
     DEF ContinuePlain, Inv, Control, ReturnsToDispatcher, Stored, ContextKept,
         PlainContextKept, SavedContext, fiberVars, saveVars, mainVars, flagVars
<1>4. CASE SwitchToPlain
  BY <1>0, <1>4
     DEF SwitchToPlain, LoadContext, TypeOK, Inv, Control, ReturnsToDispatcher,
         Stored, ContextKept, PlainContextKept, SavedContext, mainVars, flagVars
<1>5. CASE AfterPlain
  BY <1>0, <1>5
     DEF AfterPlain, Inv, Control, ReturnsToDispatcher, Stored, ContextKept,
         PlainContextKept, SavedContext, fiberVars, saveVars, flagVars
<1>6. CASE SchedIdle
  BY <1>0, <1>6
     DEF SchedIdle, Inv, Control, ReturnsToDispatcher, Stored, ContextKept,
         PlainContextKept, SavedContext, fiberVars, saveVars, mainVars, flagVars
<1>7. CASE SchedRefuse
  BY <1>0, <1>7
     DEF SchedRefuse, TypeOK, Inv, Control, ReturnsToDispatcher, Stored,
         ContextKept, PlainContextKept, SavedContext, fiberVars, saveVars
<1>8. CASE SchedContinue
  <2>1. PICK j \in Slots : ~done[j] /\ RunSlot(j, stackptrs[j])
    BY <1>8 DEF SchedContinue, IsNext
  <2>2. Control'
    BY <1>8, <2>1 DEF SchedContinue, RunSlot, fiberVars, Inv, Control
  <2>3. ReturnsToDispatcher' /\ Stored'
    BY <1>8 DEF SchedContinue, Inv, Control, ReturnsToDispatcher, Stored
  <2>4. ContextKept' /\ PlainContextKept'
    BY <1>8, <2>1 DEF SchedContinue, RunSlot, fiberVars, Inv, ContextKept,
                      PlainContextKept, SavedContext
  <2>. QED
    BY <1>0, <2>2, <2>3, <2>4 DEF Inv
<1>9. ASSUME NEW i \in Slots, NEW kind \in {"npr", "nop"}, SchedCreate(i, kind)
      PROVE  Inv'
  <2>1. PICK j \in Slots :
           /\ j \in {k \in Slots : ~done[k]} \cup {i}
           /\ RunSlot(j, IF j = i THEN Fresh(i) ELSE stackptrs[j])
    BY <1>9 DEF SchedCreate, IsNext
  <2>2. /\ cpu = Main /\ cpu' = Main
        /\ mpc' = "s_switch" /\ fiber_index' = j
        /\ timer_state' = 1
        /\ \A k \in Slots : done'[k] = (IF k = i THEN FALSE ELSE done[k])
        /\ stackptrs' = [stackptrs EXCEPT ![i] = Fresh(i)]
        /\ \A k \in Slots \ {i} : pc'[k] = pc[k] /\ count'[k] = count[k]
        /\ pc'[i] = "work" /\ count'[i] = 0
        /\ count'[Plain] = count[Plain]
    BY <1>0, <1>9, <2>1
       DEF SchedCreate, RunSlot, InitStack, TypeOK, Inv, Control
  <2>3. saved_stack' = stackptrs'[j] /\ ~done'[j]
    BY <1>0, <2>1, <2>2 DEF RunSlot, TypeOK
  <2>4. Control'
    BY <1>9, <2>2, <2>3 DEF SchedCreate, Inv, Control
  <2>5. ReturnsToDispatcher' /\ Stored'
    BY <2>2 DEF ReturnsToDispatcher, Stored
  <2>6. ContextKept'
    BY <1>0, <1>9, <2>2
       DEF SchedCreate, Inv, ContextKept, SavedContext, Fresh, TypeOK
  <2>7. PlainContextKept'
    BY <1>0, <1>9, <2>2 DEF SchedCreate, Inv, PlainContextKept, TypeOK
  <2>. QED
    BY <1>0, <2>4, <2>5, <2>6, <2>7 DEF Inv
<1>10. CASE SwitchToSlot
  BY <1>0, <1>10
     DEF SwitchToSlot, LoadContext, TypeOK, Inv, Control, ReturnsToDispatcher,
         Stored, ContextKept, PlainContextKept, SavedContext, mainVars, flagVars
<1>11. CASE AfterSlot
  BY <1>0, <1>11
     DEF AfterSlot, TypeOK, Inv, Control, ReturnsToDispatcher, Stored,
         ContextKept, PlainContextKept, SavedContext, fiberVars, mainVars
<1>12. ASSUME NEW f \in Fibers, Work(f) PROVE Inv'
  BY <1>0, <1>12
     DEF Work, TypeOK, Inv, Control, ReturnsToDispatcher, Stored, ContextKept,
         PlainContextKept, SavedContext, saveVars, mainVars, flagVars
<1>13. ASSUME NEW f \in Fibers, Spin(f) PROVE Inv'
  BY <1>0, <1>13
     DEF Spin, TypeOK, Inv, Control, ReturnsToDispatcher, Stored, ContextKept,
         PlainContextKept, SavedContext, saveVars, mainVars, flagVars
<1>14. ASSUME NEW f \in Fibers, YieldSave(f) PROVE Inv'
  BY <1>0, <1>14
     DEF YieldSave, TypeOK, Inv, Control, ReturnsToDispatcher, Stored,
         ContextKept, PlainContextKept, SavedContext, mainVars, flagVars
<1>15. ASSUME NEW f \in Fibers, YieldLoad(f) PROVE Inv'
  <2> USE DEF YieldLoad, saveVars, mainVars, flagVars
  <2>1. /\ cpu = f /\ cpu' = Main /\ mpc' = main_stack
        /\ pc[f] = "y_load" /\ pc'[f] = "work"
        /\ \A g \in Fibers \ {f} : pc'[g] = pc[g]
    BY <1>0, <1>15 DEF TypeOK
  <2>2. Control'
    <3>1. \/ f = Plain /\ mpc' = "p_resumed"
          \/ f \in Slots /\ mpc' = "s_resumed"
      BY <2>1 DEF Inv, ReturnsToDispatcher, Fibers, Slots, Plain
    <3>2. f = Plain => plain_running
      BY <2>1 DEF Inv, Control
    <3>3. timer = "armed" /\ yeild_state = 0 => f \in Slots
      BY <2>1, Numbering DEF Inv, Control
    <3>. QED
      BY <1>15, <2>1, <3>1, <3>2, <3>3 DEF Control
  <2>3. ReturnsToDispatcher' /\ Stored'
    BY <2>1 DEF ReturnsToDispatcher, Stored
  <2>4. ASSUME NEW i \in Slots, ~done'[i]
        PROVE  LET c == SavedContext(i)'
               IN  /\ c.fib = i
                   /\ c.count = count'[i]
                   /\ c.at \in {pc'[i], "y_load"}
    <3>1. CASE i = f
      <4>1. timer_state' = 1 /\ stackptrs' = stackptrs /\ count' = count
        BY <1>15, <2>1, <3>1 DEF Inv, Control
      <4>. QED
        BY <2>1, <3>1, <4>1 DEF Inv, Stored, SavedContext
    <3>2. CASE i # f
      <4>1. SavedContext(i)' = stackptrs[i]
        BY <1>15, <2>1, <3>2, <1>0
           DEF SavedContext, Inv, ReturnsToDispatcher, TypeOK, Fibers, Slots,
               Plain
      <4>2. mpc = "away"
        BY <2>1 DEF Inv, Control
      <4>3. SavedContext(i) = stackptrs[i]
        BY <4>2 DEF SavedContext
      <4>. QED
        BY <1>15, <2>1, <2>4, <3>2, <4>1, <4>3 DEF Inv, ContextKept
    <3>. QED
      BY <3>1, <3>2
  <2>5. PlainContextKept'
    BY <1>15, <2>1 DEF Inv, Stored, PlainContextKept
  <2>. QED
    BY <1>0, <2>2, <2>3, <2>4, <2>5 DEF Inv, ContextKept
<1>16. CASE TimerOnMain
  BY <1>0, <1>16
     DEF TimerOnMain, Inv, Control, ReturnsToDispatcher, Stored, ContextKept,
         PlainContextKept, SavedContext, fiberVars, saveVars, mainVars, flagVars
<1>17. CASE TimerIgnored
  BY <1>0, <1>17
     DEF TimerIgnored, Inv, Control, ReturnsToDispatcher, Stored, ContextKept,
         PlainContextKept, SavedContext, fiberVars, saveVars, mainVars, flagVars
<1>18. CASE TimerPreempts
  BY <1>0, <1>18
     DEF TimerPreempts, TypeOK, Inv, Control, ReturnsToDispatcher, Stored,
         ContextKept, PlainContextKept, SavedContext, fiberVars, mainVars
<1>19. CASE UNCHANGED vars
  BY <1>0, <1>19
     DEF vars, Inv, Control, ReturnsToDispatcher, Stored, ContextKept,
         PlainContextKept, SavedContext
<1>20. CASE Key
  BY <1>0, <1>20
     DEF Key, Inv, Control, ReturnsToDispatcher, Stored, ContextKept,
         PlainContextKept, SavedContext, fiberVars, saveVars, flagVars
<1>. QED
  BY <1>1, <1>2, <1>3, <1>4, <1>5, <1>6, <1>7, <1>8, <1>9, <1>10, <1>11, <1>12,
     <1>13, <1>14, <1>15, <1>16, <1>17, <1>18, <1>19, <1>20
     DEF Next, MainStep, FiberStep, TimerInterrupt
-----------------------------------------------------------------------------

THEOREM Invariance == Spec => []Inv
BY InvInit, InvStep, PTL DEF Spec

\* No switch, voluntary or forced, loses the context of a live slot: the stack
\* pointer kept for it is its own and carries all of its progress.
THEOREM ContextsKept == Spec => []ContextKept
BY Invariance, PTL DEF Inv

\* The plain fiber continues exactly where it yielded.
THEOREM PlainContextsKept == Spec => []PlainContextKept
BY Invariance, PTL DEF Inv

\* A timer left over from a slot never preempts the plain fiber.
THEOREM PlainIsSafe == Spec => []PlainNotPreempted
<1>1. Inv => PlainNotPreempted
  BY Numbering DEF Inv, TypeOK, Control, PlainNotPreempted
<1>. QED
  BY <1>1, Invariance, PTL

\* A fiber returns to the dispatcher that entered it.
THEOREM DispatchersMatched == Spec => []ReturnsToDispatcher
BY Invariance, PTL DEF Inv

\* No step takes progress, or the slot itself, from a live slot.
THEOREM WorkIsKept == Spec => WorkKept
<1>1. ASSUME Inv, [Next]_vars, NEW i \in Slots, ~done[i]
      PROVE  count'[i] >= count[i] /\ func_type'[i] = func_type[i]
  <2>0. TypeOK /\ i \in Fibers /\ count[i] \in 0 .. Steps
    BY <1>1, Numbering DEF Inv, TypeOK
  <2> USE StepsAssumption, Numbering
  <2>1. CASE UNCHANGED <<count, func_type>>
    BY <2>0, <2>1
  <2>2. CASE StartPlain
    BY <2>0, <2>2 DEF StartPlain, InitStack, TypeOK
  <2>3. CASE SwitchToPlain
    <3>1. stackptrs[Plain].fib = Plain
      BY <1>1, <2>3 DEF SwitchToPlain, Inv, Control, PlainContextKept
    <3>. QED
      BY <2>0, <2>3, <3>1 DEF SwitchToPlain, LoadContext, TypeOK
  <2>4. ASSUME NEW j \in Slots, NEW kind \in {"npr", "nop"},
               SchedCreate(j, kind)
        PROVE  count'[i] >= count[i] /\ func_type'[i] = func_type[i]
    <3>1. i # j
      BY <1>1, <2>4 DEF SchedCreate, IsFree
    <3>. QED
      BY <2>0, <2>4, <3>1 DEF SchedCreate, InitStack, TypeOK
  <2>5. CASE SwitchToSlot
    <3>1. /\ saved_stack.fib = fiber_index
          /\ saved_stack.count = count[fiber_index]
      BY <1>1, <2>5
         DEF SwitchToSlot, Inv, TypeOK, Control, ContextKept, SavedContext
    <3>. QED
      BY <2>0, <2>5, <3>1 DEF SwitchToSlot, LoadContext, TypeOK
  <2>6. ASSUME NEW f \in Fibers, Work(f)
        PROVE  count'[i] >= count[i] /\ func_type'[i] = func_type[i]
    BY <2>0, <2>6 DEF Work, TypeOK
  <2>. QED
    BY <1>1, <2>1, <2>2, <2>3, <2>4, <2>5, <2>6
       DEF Next, MainStep, FiberStep, TimerInterrupt, vars, Key, SkipPlain,
           ContinuePlain, AfterPlain, SchedIdle, SchedRefuse, SchedContinue,
           AfterSlot, Spin, YieldSave, YieldLoad, TimerOnMain, TimerIgnored,
           TimerPreempts, fiberVars
<1>2. Inv /\ [Next]_vars =>
         [\A i \in Slots : ~done[i] =>
             /\ count'[i] >= count[i]
             /\ func_type'[i] = func_type[i]]_vars
  BY <1>1
<1>. QED
  BY <1>2, Invariance, PTL DEF Spec, WorkKept
=============================================================================
