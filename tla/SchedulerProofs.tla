-------------------------- MODULE SchedulerProofs --------------------------
(***************************************************************************)
(* For every number of slots, every limit and every set of arguments: the  *)
(* counters account for exactly the live slots, the search for the next    *)
(* live slot ends, no live slot is passed over twice by another one, and   *)
(* no line is carried out twice.                                           *)
(***************************************************************************)
EXTENDS Scheduler, FiniteSetTheorems, TLAPS

\* How many slots after k the round robin comes to i.
Ahead(k, i) == IF k < i THEN i - k ELSE i - k + N

\* The invariant behind BoundedWait: the turns that a live slot has waited and
\* those that are still before it never make more than one round.
Turns == \A i \in Live : waited[i] + Ahead(fiber_index, i) <= N

Inv == TypeOK /\ NoEndlessSearch /\ CountsSum /\ Turns

-----------------------------------------------------------------------------
(***************************************************************************)
(* The search for the next live slot                                       *)
(***************************************************************************)

LEMMA OneRound ==
    ASSUME NEW n \in Nat, n < 2 * N
    PROVE  n % N = IF n < N THEN n ELSE n - N
<1> USE SlotsAssumption
<1> DEFINE q == n \div N
<1>1. q \in Int /\ n = N * q + (n % N) /\ (n % N) \in 0 .. N - 1
  OBVIOUS
<1>2. CASE q <= 0
  <2>1. q = 0
    BY <1>1, <1>2
  <2>. QED
    BY <1>1, <2>1
<1>3. CASE q >= 1
  <2>1. q = 1
    BY <1>1, <1>3
  <2>. QED
    BY <1>1, <2>1
<1>. QED
  BY <1>1, <1>2, <1>3

\* The index that the loop computes after d steps is i at exactly one d.
LEMMA AheadIsTheDistance ==
    ASSUME NEW k \in Slots, NEW i \in Slots
    PROVE  /\ Ahead(k, i) \in 1 .. N
           /\ \A d \in 1 .. N : i = (k + d) % N <=> d = Ahead(k, i)
<1> USE SlotsAssumption DEF Slots, Ahead
<1>1. Ahead(k, i) \in 1 .. N
  OBVIOUS
<1>2. SUFFICES ASSUME NEW d \in 1 .. N
              PROVE  i = (k + d) % N <=> d = Ahead(k, i)
  BY <1>1
<1>3. (k + d) % N = IF k + d < N THEN k + d ELSE k + d - N
  <2>1. k + d \in Nat /\ k + d < 2 * N
    OBVIOUS
  <2>. QED
    BY <2>1, OneRound
<1>. QED
  BY <1>3

\* What the search finds: a live slot, and none is nearer.
LEMMA NextIsNearest ==
    ASSUME NEW live \in SUBSET Slots, NEW k \in Slots, NEW i \in Slots,
           IsNext(k, i, live)
    PROVE  /\ i \in live
           /\ \A j \in live : Ahead(k, i) <= Ahead(k, j)
<1>1. PICK d \in 1 .. N : /\ i = (k + d) % N
                          /\ i \in live
                          /\ \A e \in 1 .. d - 1 : (k + e) % N \notin live
  BY DEF IsNext
<1>2. d = Ahead(k, i)
  BY <1>1, AheadIsTheDistance
<1>3. SUFFICES ASSUME NEW j \in live, Ahead(k, j) < d PROVE FALSE
  <2>1. \A j \in live : Ahead(k, j) \in 1 .. N
    BY AheadIsTheDistance
  <2>. QED
    BY <1>1, <1>2, <1>3, <2>1
<1>4. Ahead(k, j) \in 1 .. d - 1 /\ j = (k + Ahead(k, j)) % N
  <2>1. Ahead(k, j) \in 1 .. N /\ j = (k + Ahead(k, j)) % N
    BY AheadIsTheDistance
  <2>. QED
    BY <1>3, <2>1, SlotsAssumption
<1>. QED
  BY <1>1, <1>4

LEMMA LiveIsFinite ==
    ASSUME NEW live \in SUBSET Slots
    PROVE  IsFiniteSet(live) /\ Cardinality(live) \in Nat
<1>1. IsFiniteSet(Slots)
  BY FS_Interval, SlotsAssumption DEF Slots
<1>. QED
  BY <1>1, FS_Subset, FS_CardinalityType

-----------------------------------------------------------------------------
(***************************************************************************)
(* One turn                                                                *)
(***************************************************************************)

\* The slot table when the run part of the call starts.
Tables == [live : SUBSET Slots, state : States, npr : -Limit .. Limit,
           nop : -Limit .. Limit, steps : [Slots -> Args \cup {0, Unread}],
           asked : [Slots -> Args \cup {0}], waited : [Slots -> Nat]]

\* What a turn leaves behind.
TurnKept ==
    /\ fiber_index' \in Slots
    /\ done' \in [Slots -> BOOLEAN]
    /\ num_npr' \in -Limit .. Limit /\ num_nop' \in -Limit .. Limit
    /\ steps' \in [Slots -> Args \cup {0, Unread}]
    /\ asked' \in [Slots -> Args \cup {0}]
    /\ waited' \in [Slots -> Nat]
    /\ shell_state' \in States
    /\ NoEndlessSearch' /\ CountsSum' /\ Turns'

LEMMA TurnKeepsInv ==
    ASSUME NEW now \in Tables, NEW k \in Slots, NEW i \in Slots,
           NEW arg \in Args \cup {0}, NEW finishes \in BOOLEAN,
           IsNext(k, i, now.live),
           now.npr + now.nop = Cardinality(now.live),
           \A j \in now.live : now.waited[j] + Ahead(k, j) <= N,
           RunSlot(i, now, arg, finishes)
    PROVE  TurnKept
<1> USE SlotsAssumption, LimitAssumption
<1> DEFINE live == IF finishes THEN now.live \ {i} ELSE now.live
<1>1. i \in now.live /\ \A j \in now.live : Ahead(k, i) <= Ahead(k, j)
  BY NextIsNearest DEF Tables
<1>2. /\ fiber_index' = i
      /\ done' = [j \in Slots |-> j \notin live]
      /\ waited' = [j \in Slots |-> IF j \in live \ {i} THEN now.waited[j] + 1
                                                        ELSE 0]
      /\ shell_state' = StateAfter(now.state, live, finishes)
  BY DEF RunSlot
<1>3. live \in SUBSET Slots /\ Live' = live
  BY <1>2 DEF Live, Tables
<1>4. /\ num_npr' = now.npr - (IF finishes /\ Charged(now.state) = "npr"
                               THEN 1 ELSE 0)
      /\ num_nop' = now.nop - (IF finishes /\ Charged(now.state) = "nop"
                               THEN 1 ELSE 0)
  BY DEF RunSlot
<1>5. Cardinality(live) = Cardinality(now.live) - (IF finishes THEN 1 ELSE 0)
  <2>1. IsFiniteSet(now.live) /\ Cardinality(now.live) \in Nat
    BY LiveIsFinite DEF Tables
  <2>2. Cardinality(now.live \ {i}) = Cardinality(now.live) - 1
    BY <1>1, <2>1, FS_RemoveElement
  <2>. QED
    BY <2>1, <2>2
<1>6. Cardinality(now.live) >= 1
  <2>1. Cardinality(now.live \ {i}) = Cardinality(now.live) - 1
    BY <1>1, LiveIsFinite, FS_RemoveElement DEF Tables
  <2>2. Cardinality(now.live \ {i}) \in Nat /\ Cardinality(now.live) \in Nat
    BY LiveIsFinite DEF Tables
  <2>. QED
    BY <2>1, <2>2
<1>7. /\ num_npr' \in -Limit .. Limit /\ num_nop' \in -Limit .. Limit
      /\ CountsSum'
  <2>1. now.npr \in -Limit .. Limit /\ now.nop \in -Limit .. Limit
    BY DEF Tables
  <2>2. Charged(now.state) \in {"npr", "nop"}
    BY DEF Charged
  <2>3. num_npr' + num_nop' = Cardinality(live)
    BY <1>4, <1>5, <2>1, <2>2
  <2>. QED
    BY <1>3, <1>4, <1>6, <2>1, <2>3 DEF CountsSum
<1>8. /\ steps' \in [Slots -> Args \cup {0, Unread}]
      /\ asked' \in [Slots -> Args \cup {0}]
  BY DEF RunSlot, Tables
<1>9. waited' \in [Slots -> Nat] /\ done' \in [Slots -> BOOLEAN]
  BY <1>2 DEF Tables
<1>10. shell_state' \in States
  BY <1>2 DEF StateAfter, Tables, States
<1>11. NoEndlessSearch'
  <2>1. finishes /\ live = {} => shell_state' = "initial"
    BY <1>2 DEF StateAfter
  <2>2. ~finishes => i \in live
    BY <1>1
  <2>3. AllDone' => live = {}
    BY <1>3 DEF AllDone, Live
  <2>. QED
    BY <2>1, <2>2, <2>3 DEF NoEndlessSearch, Scheduling
<1>12. Turns'
  <2>1. SUFFICES ASSUME NEW j \in live
                PROVE  waited'[j] + Ahead(i, j) <= N
    BY <1>2, <1>3 DEF Turns
  <2>2. Ahead(i, j) \in 1 .. N /\ Ahead(k, i) \in 1 .. N /\ Ahead(k, j) \in 1 .. N
    BY <1>3, AheadIsTheDistance
  <2>3. CASE j = i
    BY <1>2, <1>3, <2>2, <2>3
  <2>4. CASE j # i
    <3>1. Ahead(i, j) <= Ahead(k, j) - 1
      <4>1. Ahead(k, i) <= Ahead(k, j)
        BY <1>1
      <4>. QED
        BY <1>3, <2>4, <4>1 DEF Ahead, Slots
    <3>2. waited'[j] = now.waited[j] + 1 /\ now.waited[j] \in Nat
      BY <1>2, <1>3, <2>4 DEF Tables
    <3>3. now.waited[j] + Ahead(k, j) <= N
      BY <1>3
    <3>. QED
      BY <2>2, <3>1, <3>2, <3>3
  <2>. QED
    BY <2>3, <2>4
<1>. QED
  BY <1>2, <1>7, <1>8, <1>9, <1>10, <1>11, <1>12 DEF TurnKept, Tables

-----------------------------------------------------------------------------
(***************************************************************************)
(* The calls                                                               *)
(***************************************************************************)

\* A call that leaves the slots, their counters and their order alone.
LEMMA SlotsUntouched ==
    ASSUME Inv, UNCHANGED slotVars, shell_state' \in States,
           shell_state' \in {"npr", "nop"} => shell_state' = shell_state
    PROVE  NoEndlessSearch' /\ CountsSum' /\ Turns'
<1>1. Live' = Live /\ AllDone' = AllDone
  BY DEF Live, AllDone, slotVars
<1>. QED
  BY <1>1 DEF Inv, NoEndlessSearch, Scheduling, CountsSum, Turns, slotVars

LEMMA PartialIsLine == Partial \in Lines /\ HalfTyped \subseteq Lines
BY DEF Partial, HalfTyped, Searches, Lines

LEMMA KeyKeepsInv == Inv /\ Key => Inv'
<1> SUFFICES ASSUME Inv, Key PROVE Inv'
  OBVIOUS
<1>1. TypeOK
  BY DEF Inv
<1>2. TypeOK'
  <2>1. CASE KeyDropped
    BY <1>1, <2>1 DEF KeyDropped, TypeOK, lineVars, coVars, fiVars, slotVars
  <2>2. CASE KeyTyped
    <3>1. Partial \in Lines /\ HalfTyped \subseteq Lines
      BY PartialIsLine
    <3>2. /\ typing' \in BOOLEAN
          /\ fate' \in {"none", "waiting", "served", "lost", "again"}
      BY <1>1, <2>2 DEF KeyTyped, TypeOK
    <3>3. /\ curr_cmd' \in Lines /\ done_old' \in BOOLEAN
          /\ UNCHANGED <<pc, shell_state, enter, coVars, fiVars, slotVars>>
      BY <2>2, <3>1 DEF KeyTyped
    <3>4. /\ UNCHANGED <<pc, shell_state, enter, coroutine_running, co_left>>
          /\ UNCHANGED <<fiber_running, fi_left, done, func_type, fiber_index>>
          /\ UNCHANGED <<num_npr, num_nop, steps, asked, waited>>
      BY <3>3 DEF coVars, fiVars, slotVars
    <3>. QED
      BY <1>1, <3>2, <3>3, <3>4 DEF TypeOK
  <2>3. CASE EnterTyped
    <3>1. curr_cmd' \in Lines
      BY <1>1, <2>3, PartialIsLine DEF EnterTyped, TypeOK
    <3>2. shell_state' \in States
      BY <1>1, <2>3 DEF EnterTyped, TypeOK, States
    <3>3. typing' \in BOOLEAN /\ enter' \in BOOLEAN /\ done_old' \in BOOLEAN
          /\ fate' = "waiting" /\ UNCHANGED <<pc, coVars, fiVars, slotVars>>
      BY <2>3 DEF EnterTyped
    <3>. QED
      BY <1>1, <3>1, <3>2, <3>3 DEF TypeOK, coVars, fiVars, slotVars
  <2>. QED
    BY <2>1, <2>2, <2>3 DEF Key
<1>3. /\ UNCHANGED slotVars
      /\ shell_state' \in {"npr", "nop"} => shell_state' = shell_state
  BY DEF Key, KeyDropped, KeyTyped, EnterTyped
<1>. QED
  BY <1>2, <1>3, SlotsUntouched DEF Inv, TypeOK

\* What serving a line makes of its fate.
LEMMA ServeTypes ==
    ASSUME fate \in {"none", "waiting", "served", "lost", "again"}, Serve
    PROVE  fate' \in {"none", "waiting", "served", "lost", "again"}
BY DEF Serve

LEMMA ShellStepKeepsInv == Inv /\ ShellStep => Inv'
<1> SUFFICES ASSUME Inv, ShellStep PROVE Inv'
  OBVIOUS
<1>1. TypeOK
  BY DEF Inv
<1>2. /\ UNCHANGED <<lineVars, coVars, fiVars, slotVars>>
      /\ pc' = "co" /\ enter' \in BOOLEAN /\ done_old' \in BOOLEAN
      /\ shell_state' \in {shell_state, "initial"}
      /\ fate' \in {"none", "waiting", "served", "lost", "again"}
  BY <1>1, ServeTypes DEF ShellStep, BackToInitial, TypeOK
<1>3. TypeOK'
  BY <1>1, <1>2 DEF TypeOK, lineVars, coVars, fiVars, slotVars, States
<1>. QED
  BY <1>2, <1>3, SlotsUntouched DEF Inv, TypeOK

LEMMA HangKeepsInv == Inv /\ Hang => Inv'
<1> SUFFICES ASSUME Inv, Hang PROVE Inv'
  OBVIOUS
<1>1. /\ UNCHANGED <<lineVars, coVars, fiVars, slotVars>> /\ pc' = "hung"
      /\ UNCHANGED <<shell_state, enter, done_old, fate>>
  BY DEF Hang
<1>2. TypeOK'
  BY <1>1 DEF Inv, TypeOK, lineVars, coVars, fiVars, slotVars
<1>. QED
  BY <1>1, <1>2, SlotsUntouched DEF Inv, TypeOK

\* What the parsers of the searches accept has a number to count to.
LEMMA ArgumentIsNat ==
    ASSUME TypeOK, curr_cmd.name \in Searches, curr_cmd.arg # BadArg
    PROVE  curr_cmd.arg \in Args /\ curr_cmd.arg \in Nat
BY ArgsAssumption DEF TypeOK, Lines, Functions, Searches

LEMMA CoroutineKeepsInv == Inv /\ Coroutine => Inv'
<1> SUFFICES ASSUME Inv, Coroutine PROVE Inv'
  OBVIOUS
<1>1. TypeOK
  BY DEF Inv
<1>2. TypeOK'
  <2>1. CASE StartCoroutine
    <3>1. curr_cmd.arg \in Nat
      BY <1>1, <2>1, ArgumentIsNat DEF StartCoroutine, Searches
    <3>2. co_left' \in Nat
      BY <2>1, <3>1 DEF StartCoroutine, RunCoroutine
    <3>3. coroutine_running' \in BOOLEAN /\ enter' \in BOOLEAN /\ done_old' \in BOOLEAN
      BY <2>1 DEF StartCoroutine, RunCoroutine
    <3>4. shell_state' \in States
      BY <1>1, <2>1 DEF StartCoroutine, TypeOK, States
    <3>5. fate' \in {"none", "waiting", "served", "lost", "again"}
      BY <1>1, <2>1, ServeTypes DEF StartCoroutine, TypeOK
    <3>. QED
      BY <1>1, <2>1, <3>2, <3>3, <3>4, <3>5 DEF StartCoroutine, TypeOK, lineVars, fiVars, slotVars
  <2>2. CASE RefuseCoroutine
    <3>1. fate' \in {"none", "waiting", "served", "lost", "again"}
      BY <1>1, <2>2, ServeTypes DEF RefuseCoroutine, TypeOK
    <3>. QED
      BY <1>1, <2>2, <3>1 DEF RefuseCoroutine, TypeOK, States, lineVars, coVars, fiVars,
                              slotVars
  <2>3. CASE ContinueCoroutine
    <3>1. co_left \in Nat
      BY <1>1, <2>3 DEF ContinueCoroutine, TypeOK
    <3>2. co_left' \in Nat
      BY <2>3, <3>1 DEF ContinueCoroutine, RunCoroutine
    <3>3. coroutine_running' \in BOOLEAN /\ enter' \in BOOLEAN /\ done_old' \in BOOLEAN
      BY <2>3 DEF ContinueCoroutine, RunCoroutine
    <3>4. shell_state' \in States
      BY <1>1, <2>3 DEF ContinueCoroutine, TypeOK, States
    <3>. QED
      BY <1>1, <2>3, <3>2, <3>3, <3>4 DEF ContinueCoroutine, TypeOK, lineVars, fiVars, slotVars
  <2>4. CASE SkipCoroutine
    BY <1>1, <2>4 DEF SkipCoroutine, TypeOK, lineVars, coVars, fiVars, slotVars
  <2>. QED
    BY <2>1, <2>2, <2>3, <2>4 DEF Coroutine
<1>3. /\ UNCHANGED slotVars
      /\ shell_state' \in {"npr", "nop"} => shell_state' = shell_state
  BY DEF Coroutine, StartCoroutine, RefuseCoroutine, ContinueCoroutine,
         SkipCoroutine
<1>. QED
  BY <1>2, <1>3, SlotsUntouched DEF Inv, TypeOK

LEMMA PlainFiberKeepsInv == Inv /\ PlainFiber => Inv'
<1> SUFFICES ASSUME Inv, PlainFiber PROVE Inv'
  OBVIOUS
<1>1. TypeOK
  BY DEF Inv
<1>2. TypeOK'
  <2>1. CASE StartFiber
    <3>1. curr_cmd.arg \in Nat
      BY <1>1, <2>1, ArgumentIsNat DEF StartFiber, Searches
    <3>2. fi_left' \in Nat
      BY <2>1, <3>1 DEF StartFiber, RunFiber
    <3>3. fiber_running' \in BOOLEAN /\ enter' \in BOOLEAN /\ done_old' \in BOOLEAN
      BY <2>1 DEF StartFiber, RunFiber
    <3>4. shell_state' \in States
      BY <1>1, <2>1 DEF StartFiber, TypeOK, States
    <3>5. fate' \in {"none", "waiting", "served", "lost", "again"}
      BY <1>1, <2>1, ServeTypes DEF StartFiber, TypeOK
    <3>. QED
      BY <1>1, <2>1, <3>2, <3>3, <3>4, <3>5 DEF StartFiber, TypeOK, lineVars, coVars, slotVars
  <2>2. CASE RefuseFiber
    <3>1. fate' \in {"none", "waiting", "served", "lost", "again"}
      BY <1>1, <2>2, ServeTypes DEF RefuseFiber, TypeOK
    <3>. QED
      BY <1>1, <2>2, <3>1 DEF RefuseFiber, TypeOK, States, lineVars, coVars, fiVars,
                              slotVars
  <2>3. CASE ContinueFiber
    <3>1. fi_left \in Nat
      BY <1>1, <2>3 DEF ContinueFiber, TypeOK
    <3>2. fi_left' \in Nat
      BY <2>3, <3>1 DEF ContinueFiber, RunFiber
    <3>3. fiber_running' \in BOOLEAN /\ enter' \in BOOLEAN /\ done_old' \in BOOLEAN
      BY <2>3 DEF ContinueFiber, RunFiber
    <3>4. shell_state' \in States
      BY <1>1, <2>3 DEF ContinueFiber, TypeOK, States
    <3>. QED
      BY <1>1, <2>3, <3>2, <3>3, <3>4 DEF ContinueFiber, TypeOK, lineVars, coVars, slotVars
  <2>4. CASE SkipFiber
    BY <1>1, <2>4 DEF SkipFiber, TypeOK, lineVars, coVars, fiVars, slotVars
  <2>. QED
    BY <2>1, <2>2, <2>3, <2>4 DEF PlainFiber
<1>3. /\ UNCHANGED slotVars
      /\ shell_state' \in {"npr", "nop"} => shell_state' = shell_state
  BY DEF PlainFiber, StartFiber, RefuseFiber, ContinueFiber, SkipFiber
<1>. QED
  BY <1>2, <1>3, SlotsUntouched DEF Inv, TypeOK

\* A call that only lets fiber_index start over, when nothing is live.
LEMMA IndexStartsOver ==
    ASSUME Inv, UNCHANGED <<done, num_npr, num_nop, waited>>,
           fiber_index' = StartIndex,
           shell_state' \in {"npr", "nop"} => shell_state' = shell_state
    PROVE  fiber_index' \in Slots /\ NoEndlessSearch' /\ CountsSum' /\ Turns'
<1>1. Live' = Live /\ AllDone' = AllDone
  BY DEF Live, AllDone
<1>2. AllDone => Live = {}
  BY DEF AllDone, Live
<1>3. fiber_index' \in Slots
  BY SlotsAssumption DEF StartIndex, Slots, Inv, TypeOK
<1>4. Turns'
  BY <1>1, <1>2 DEF Turns, Inv, StartIndex
<1>. QED
  BY <1>1, <1>3, <1>4 DEF Inv, NoEndlessSearch, Scheduling, CountsSum

LEMMA SchedulerKeepsInv == Inv /\ FiberScheduler => Inv'
<1> SUFFICES ASSUME Inv, FiberScheduler PROVE Inv'
  OBVIOUS
<1>1. TypeOK
  BY DEF Inv
<1>2. CASE SchedIdle
  <2>1. TypeOK'
    BY <1>1, <1>2 DEF SchedIdle, TypeOK, lineVars, coVars, fiVars, slotVars
  <2>. QED
    BY <1>2, <2>1, SlotsUntouched DEF SchedIdle, Inv, TypeOK
<1>3. CASE SchedIgnores
  <2>1. fiber_index' \in Slots /\ NoEndlessSearch' /\ CountsSum' /\ Turns'
    BY <1>3, IndexStartsOver DEF SchedIgnores
  <2>2. TypeOK'
    BY <1>1, <1>3, <2>1 DEF SchedIgnores, TypeOK, lineVars, coVars, fiVars
  <2>. QED
    BY <2>1, <2>2 DEF Inv
<1>4. CASE SchedRefuses
  <2>1. fiber_index' \in Slots /\ NoEndlessSearch' /\ CountsSum' /\ Turns'
    BY <1>4, IndexStartsOver DEF SchedRefuses
  <2>2. /\ done_old' \in BOOLEAN
        /\ fate' \in {"none", "waiting", "served", "lost", "again"}
    BY <1>1, <1>4, ServeTypes DEF SchedRefuses, TypeOK
  <2>3. TypeOK'
    BY <1>1, <1>4, <2>1, <2>2 DEF SchedRefuses, TypeOK, lineVars, coVars, fiVars,
                                  States
  <2>. QED
    BY <2>1, <2>3 DEF Inv
<1>5. CASE SchedContinues
  <2> DEFINE now == [live |-> Live, state |-> shell_state, npr |-> num_npr,
                     nop |-> num_nop, steps |-> steps, asked |-> asked,
                     waited |-> waited]
  <2>1. now \in Tables
    BY <1>1 DEF Tables, TypeOK, Live
  <2>2. PICK i \in Live, finishes \in BOOLEAN :
           IsNext(fiber_index, i, Live) /\ RunSlot(i, now, 0, finishes)
    BY <1>5 DEF SchedContinues
  <2>3. /\ i \in Slots /\ fiber_index \in Slots
        /\ now.npr + now.nop = Cardinality(now.live)
        /\ \A j \in now.live : now.waited[j] + Ahead(fiber_index, j) <= N
    BY <1>1, <2>2 DEF Live, TypeOK, Inv, CountsSum, Turns
  <2> HIDE DEF now
  <2>4. IsNext(fiber_index, i, now.live)
    BY <2>2 DEF now
  <2>5. UNCHANGED <<enter, done_old, lineVars, fate, coVars, fiVars, func_type>>
        /\ pc' = "shell"
    BY <1>5 DEF SchedContinues
  <2>6. TurnKept
    BY <2>1, <2>2, <2>3, <2>4, TurnKeepsInv DEF TurnKept
  <2>7. TypeOK'
    BY <1>1, <2>5, <2>6 DEF TypeOK, TurnKept, lineVars, coVars, fiVars
  <2>. QED
    BY <2>6, <2>7 DEF Inv, TurnKept
<1>6. ASSUME NEW kind \in {"npr", "nop"}, NEW new \in Slots,
             SchedSpawns(kind, new)
      PROVE  Inv'
  <2> DEFINE now == [live |-> Live \cup {new}, state |-> kind,
                     npr |-> num_npr + (IF kind = "npr" THEN 1 ELSE 0),
                     nop |-> num_nop + (IF kind = "nop" THEN 1 ELSE 0),
                     steps |-> [steps EXCEPT ![new] = Unread],
                     asked |-> [asked EXCEPT ![new] = curr_cmd.arg],
                     waited |-> [waited EXCEPT ![new] = 0]]
  <2>1. curr_cmd.arg \in Args
    BY <1>1, <1>6, ArgumentIsNat DEF SchedSpawns, Asks, Searches
  <2>2. PICK i \in Live \cup {new}, finishes \in BOOLEAN :
           /\ IsNext(StartIndex, i, Live \cup {new})
           /\ RunSlot(i, now, curr_cmd.arg, finishes)
    BY <1>6 DEF SchedSpawns
  <2>3. i \in Slots /\ StartIndex \in Slots
    BY <1>1, <2>2, SlotsAssumption DEF Live, StartIndex, Slots, TypeOK
  <2>4. now \in Tables
    <3>1. now.npr \in -Limit .. Limit /\ now.nop \in -Limit .. Limit
      BY <1>1, <1>6, LimitAssumption DEF SchedSpawns, Count, TypeOK
    <3>2. /\ now.live \in SUBSET Slots /\ now.state \in States
          /\ now.steps \in [Slots -> Args \cup {0, Unread}]
          /\ now.asked \in [Slots -> Args \cup {0}]
          /\ now.waited \in [Slots -> Nat]
      BY <1>1, <2>1 DEF TypeOK, Live, States
    <3>. QED
      BY <3>1, <3>2 DEF Tables
  <2>5. now.npr + now.nop = Cardinality(now.live)
    <3>1. new \notin Live /\ Live \in SUBSET Slots
      BY <1>6 DEF SchedSpawns, Live
    <3>2. IsFiniteSet(Live) /\ Cardinality(Live) \in Nat
      BY <3>1, LiveIsFinite
    <3>3. Cardinality(Live \cup {new}) = Cardinality(Live) + 1
      BY <3>1, <3>2, FS_AddElement
    <3>4. num_npr + num_nop = Cardinality(Live) /\ num_npr \in Int /\ num_nop \in Int
      BY <1>1, LimitAssumption DEF Inv, CountsSum, TypeOK
    <3>5. now.npr + now.nop = num_npr + num_nop + 1
      BY <3>4
    <3>. QED
      BY <3>2, <3>3, <3>4, <3>5
  <2>6. \A j \in now.live : now.waited[j] + Ahead(StartIndex, j) <= N
    <3>1. SUFFICES ASSUME NEW j \in now.live
                  PROVE  now.waited[j] + Ahead(StartIndex, j) <= N
      OBVIOUS
    <3>2. j \in Slots
      BY <2>4 DEF Live
    <3>3. CASE j = new
      <4>1. Ahead(StartIndex, new) \in 1 .. N
        BY <2>3, AheadIsTheDistance
      <4>2. now.waited[new] = 0
        BY <1>1 DEF TypeOK
      <4>. QED
        BY <3>3, <4>1, <4>2, SlotsAssumption
    <3>4. CASE j # new
      <4>1. j \in Live /\ now.waited[j] = waited[j]
        BY <1>1, <3>2, <3>4 DEF TypeOK
      <4>2. StartIndex = fiber_index
        BY <4>1 DEF StartIndex, AllDone, Live
      <4>. QED
        BY <4>1, <4>2 DEF Inv, Turns
    <3>. QED
      BY <3>3, <3>4
  <2>7. /\ UNCHANGED <<done_old, lineVars, coVars, fiVars>>
        /\ pc' = "shell" /\ enter' = FALSE
        /\ func_type' = [func_type EXCEPT ![new] = kind]
    BY <1>6 DEF SchedSpawns
  <2>8. /\ func_type' \in [Slots -> {"none", "npr", "nop"}]
        /\ fate' \in {"none", "waiting", "served", "lost", "again"}
    BY <1>1, <1>6, <2>7, ServeTypes DEF SchedSpawns, TypeOK
  <2> HIDE DEF now
  <2>9. IsNext(StartIndex, i, now.live)
    BY <2>2 DEF now
  <2>10. TurnKept
    BY <2>1, <2>2, <2>3, <2>4, <2>5, <2>6, <2>9, TurnKeepsInv DEF TurnKept
  <2>11. TypeOK'
    BY <1>1, <2>7, <2>8, <2>10 DEF TypeOK, TurnKept, lineVars, coVars, fiVars
  <2>. QED
    BY <2>10, <2>11 DEF Inv, TurnKept
<1>. QED
  BY <1>2, <1>3, <1>4, <1>5, <1>6 DEF FiberScheduler

-----------------------------------------------------------------------------
(***************************************************************************)
(* The line that Enter submits                                             *)
(***************************************************************************)

\* Names of lines that the calls before this one have served without clearing
\* enter.
Handled == [co |-> {"echo"}, fiber |-> {"echo", "nprc"},
            sched |-> {"echo", "nprc", "nprf"}]

\* No call of this pass has served the line.
Unserved == IF pc \in {"shell", "hung"} THEN Pending
            ELSE enter /\ curr_cmd.name \notin Handled[pc]

\* The invariant behind CommandOnce: a line that is served with enter still set
\* has done_old set or the shell at rest, which no call of the pass undoes, and
\* a key that undoes done_old is typed over the line.
LineState ==
    /\ typing => curr_cmd \in {Partial} \cup HalfTyped
    /\ enter => ~Owned
    /\ pc \notin {"shell", "hung"} /\ enter =>
          /\ curr_cmd.name \notin Functions \cup {"partial"}
          /\ IF Unserved THEN ~done_old /\ shell_state # "initial"
                          ELSE done_old
    /\ Unserved => fate = "waiting" \/ typing \/ curr_cmd = Partial
    /\ CommandOnce

LEMMA HandledBy ==
    /\ \A name : name \in Handled["co"] <=> name = "echo"
    /\ \A name : name \in Handled["fiber"] <=> name \in {"echo", "nprc"}
    /\ \A name : name \in Handled["sched"] <=> name \in {"echo", "nprc", "nprf"}
BY DEF Handled

LEMMA UnservedAt ==
    /\ pc \in {"shell", "hung"} => (Unserved <=> Pending)
    /\ pc = "co" => (Unserved <=> enter /\ curr_cmd.name # "echo")
    /\ pc = "fiber" => (Unserved <=> enter /\ curr_cmd.name \notin {"echo", "nprc"})
    /\ pc = "sched" =>
          (Unserved <=> enter /\ curr_cmd.name \notin {"echo", "nprc", "nprf"})
BY HandledBy DEF Unserved

\* A line is served while it is unserved, so once.
LEMMA ServedOnce ==
    ASSUME LineState, Unserved, Serve
    PROVE  CommandOnce'
BY DEF LineState, Serve, CommandOnce

LEMMA KeyKeepsLine == LineState /\ Key => LineState'
<1> SUFFICES ASSUME LineState, Key PROVE LineState'
  OBVIOUS
<1>1. CASE KeyDropped
  <2>1. pc' = "shell" /\ ~enter' /\ Owned'
        /\ UNCHANGED <<enter, curr_cmd, typing, fate>>
    BY <1>1 DEF KeyDropped, LineState, Owned, lineVars
  <2>2. ~Unserved'
    BY <2>1 DEF Unserved, Pending
  <2>. QED
    BY <2>1, <2>2 DEF LineState, CommandOnce
<1>2. CASE KeyTyped
  <2>1. /\ pc' = "shell" /\ ~Owned'
        /\ typing' \in {typing, TRUE}
        /\ curr_cmd' \in IF typing /\ enter THEN {Partial} \cup HalfTyped
                                             ELSE {Partial}
    BY <1>2 DEF KeyTyped, Owned
  <2>2. CommandOnce'
    BY <1>2 DEF KeyTyped, LineState, CommandOnce
  <2>3. CASE typing /\ enter
    BY <2>1, <2>2, <2>3 DEF LineState
  <2>4. CASE ~(typing /\ enter)
    BY <2>1, <2>2, <2>4 DEF LineState
  <2>. QED
    BY <2>3, <2>4
<1>3. CASE EnterTyped
  <2>1. pc' = "shell" /\ ~Owned' /\ typing' = FALSE /\ fate' = "waiting"
    BY <1>3 DEF EnterTyped, Owned, Scheduling
  <2>. QED
    BY <2>1 DEF LineState, CommandOnce
<1>. QED
  BY <1>1, <1>2, <1>3 DEF Key

LEMMA ShellStepKeepsLine == LineState /\ (ShellStep \/ Hang) => LineState'
<1>1. ASSUME LineState, Hang PROVE LineState'
  <2>1. pc = "shell" /\ pc' = "hung"
        /\ UNCHANGED <<shell_state, enter, done_old, curr_cmd, typing, fate>>
    BY <1>1 DEF Hang, lineVars
  <2>2. Unserved' <=> Unserved
    BY <2>1 DEF Unserved, Pending
  <2>. QED
    BY <1>1, <2>1, <2>2 DEF LineState, Owned, CommandOnce
<1>2. ASSUME LineState, ShellStep PROVE LineState'
  <2>1. /\ pc = "shell" /\ pc' = "co" /\ UNCHANGED <<curr_cmd, typing>>
        /\ Unserved <=> Pending
        /\ Unserved' <=> enter' /\ curr_cmd.name # "echo"
    BY <1>2, UnservedAt DEF ShellStep, lineVars, Unserved, Handled
  <2>2. CASE ~Pending
    <3>1. ~enter' /\ UNCHANGED fate
      BY <1>2, <2>2 DEF ShellStep
    <3>. QED
      BY <1>2, <2>1, <3>1 DEF LineState, CommandOnce
  <2>3. CASE Pending /\ curr_cmd.name \in Functions \cup {"partial"}
    <3>1. ~enter' /\ Serve
      BY <1>2, <2>3 DEF ShellStep, AnswersAtOnce, Functions, Searches
    <3>2. CommandOnce'
      BY <1>2, <2>1, <2>3, <3>1, ServedOnce
    <3>. QED
      BY <1>2, <2>1, <3>1, <3>2 DEF LineState
  <2>4. CASE Pending /\ curr_cmd.name = "echo"
    <3>1. Serve /\ done_old' /\ UNCHANGED enter /\ shell_state' = BackToInitial
      BY <1>2, <2>4 DEF ShellStep, AnswersAtOnce, Functions, Searches
    <3>2. CommandOnce'
      BY <1>2, <2>1, <2>4, <3>1, ServedOnce
    <3>3. ~Owned'
      BY <3>1 DEF Owned, BackToInitial, Scheduling
    <3>. QED
      BY <1>2, <2>1, <2>4, <3>1, <3>2, <3>3 DEF LineState, Functions
  <2>5. CASE Pending /\ curr_cmd.name \in Searches \cup {"nprx"}
    <3>1. done_old' = FALSE /\ UNCHANGED <<enter, shell_state, fate>>
      BY <1>2, <2>5 DEF ShellStep, AnswersAtOnce, Functions, Searches
    <3>2. enter /\ shell_state # "initial" /\ ~Owned
          /\ curr_cmd.name \notin Functions \cup {"partial", "echo"}
      BY <1>2, <2>5 DEF Pending, LineState, Functions, Searches
    <3>. QED
      BY <1>2, <2>1, <2>5, <3>1, <3>2 DEF LineState, Owned, CommandOnce
  <2>. QED
    BY <1>2, <2>2, <2>3, <2>4, <2>5 DEF ShellStep, AnswersAtOnce
<1>. QED
  BY <1>1, <1>2

\* A call that starts or goes on with its computation has cleared enter, one that
\* refuses has set done_old, and one that skips leaves the line as it was.
LEMMA CallKeepsLine ==
    ASSUME LineState, pc \in {"co", "fiber"}, pc' = IF pc = "co" THEN "fiber" ELSE "sched",
           UNCHANGED <<curr_cmd, typing>>,
           UNCHANGED fate \/ (Unserved /\ Serve),
           \/ enter' = FALSE
           \/ /\ enter /\ done_old' /\ shell_state' = "initial"
              /\ curr_cmd.name = (IF pc = "co" THEN "nprc" ELSE "nprf")
           \/ /\ UNCHANGED <<shell_state, enter, done_old, fate>>
              /\ enter => curr_cmd.name # (IF pc = "co" THEN "nprc" ELSE "nprf")
    PROVE  LineState'
<1>1. CommandOnce'
  BY ServedOnce DEF LineState, CommandOnce
<1>2. CASE enter' = FALSE
  BY <1>1, <1>2 DEF LineState, Unserved
<1>3. CASE /\ enter /\ done_old' /\ shell_state' = "initial"
           /\ curr_cmd.name = (IF pc = "co" THEN "nprc" ELSE "nprf")
  <2>1. ~Unserved' /\ ~Owned'
    BY <1>3, HandledBy DEF Unserved, Owned
  <2>. QED
    BY <1>1, <1>3, <2>1 DEF LineState, Functions
<1>4. CASE /\ UNCHANGED <<shell_state, enter, done_old, fate>>
           /\ enter => curr_cmd.name # (IF pc = "co" THEN "nprc" ELSE "nprf")
  <2>1. Unserved' <=> Unserved
    BY <1>4, HandledBy DEF Unserved
  <2>. QED
    BY <1>1, <1>4, <2>1 DEF LineState, Owned
<1>. QED
  BY <1>2, <1>3, <1>4

LEMMA CoroutineKeepsLine == LineState /\ Coroutine => LineState'
<1> SUFFICES ASSUME LineState, Coroutine PROVE LineState'
  OBVIOUS
<1>1. pc = "co" /\ pc' = "fiber" /\ UNCHANGED <<curr_cmd, typing>>
  BY DEF Coroutine, StartCoroutine, RefuseCoroutine, ContinueCoroutine,
         SkipCoroutine, lineVars
<1>2. Unserved <=> enter /\ curr_cmd.name # "echo"
  BY <1>1, UnservedAt
<1>3. CASE StartCoroutine
  BY <1>1, <1>2, <1>3, CallKeepsLine DEF StartCoroutine, RunCoroutine
<1>4. CASE RefuseCoroutine
  BY <1>1, <1>2, <1>4, CallKeepsLine DEF RefuseCoroutine
<1>5. CASE ContinueCoroutine
  BY <1>1, <1>5, CallKeepsLine DEF ContinueCoroutine, RunCoroutine
<1>6. CASE SkipCoroutine
  <2>1. enter => ~AtRest
    BY <1>1 DEF LineState, AtRest
  <2>2. enter => curr_cmd.name # "nprc"
    BY <1>6, <2>1 DEF SkipCoroutine
  <2>. QED
    BY <1>1, <1>6, <2>2, CallKeepsLine DEF SkipCoroutine
<1>. QED
  BY <1>3, <1>4, <1>5, <1>6 DEF Coroutine

LEMMA PlainFiberKeepsLine == LineState /\ PlainFiber => LineState'
<1> SUFFICES ASSUME LineState, PlainFiber PROVE LineState'
  OBVIOUS
<1>1. pc = "fiber" /\ pc' = "sched" /\ UNCHANGED <<curr_cmd, typing>>
  BY DEF PlainFiber, StartFiber, RefuseFiber, ContinueFiber, SkipFiber, lineVars
<1>2. Unserved <=> enter /\ curr_cmd.name \notin {"echo", "nprc"}
  BY <1>1, UnservedAt
<1>3. CASE StartFiber
  BY <1>1, <1>2, <1>3, CallKeepsLine DEF StartFiber, RunFiber
<1>4. CASE RefuseFiber
  BY <1>1, <1>2, <1>4, CallKeepsLine DEF RefuseFiber
<1>5. CASE ContinueFiber
  BY <1>1, <1>5, CallKeepsLine DEF ContinueFiber, RunFiber
<1>6. CASE SkipFiber
  <2>1. enter => ~AtRest
    BY <1>1 DEF LineState, AtRest
  <2>2. enter => curr_cmd.name # "nprf"
    BY <1>6, <2>1 DEF SkipFiber
  <2>. QED
    BY <1>1, <1>6, <2>2, CallKeepsLine DEF SkipFiber
<1>. QED
  BY <1>3, <1>4, <1>5, <1>6 DEF PlainFiber

LEMMA SchedulerKeepsLine == LineState /\ FiberScheduler => LineState'
<1> SUFFICES ASSUME LineState, FiberScheduler PROVE LineState'
  OBVIOUS
<1>1. pc = "sched" /\ pc' = "shell" /\ UNCHANGED <<curr_cmd, typing>>
  BY DEF FiberScheduler, SchedIdle, SchedIgnores, SchedRefuses, SchedContinues,
         SchedSpawns, lineVars
<1>2. /\ Unserved <=> enter /\ curr_cmd.name \notin {"echo", "nprc", "nprf"}
      /\ Unserved' <=> Pending'
  <2>1. Unserved' <=> Pending'
    BY <1>1 DEF Unserved
  <2>. QED
    BY <1>1, <2>1, UnservedAt
<1>3. CASE SchedIdle \/ SchedIgnores
  <2>1. UNCHANGED <<shell_state, enter, done_old, fate>>
    BY <1>3 DEF SchedIdle, SchedIgnores
  <2>2. Unserved' => Unserved
    BY <1>1, <1>2, <2>1 DEF Pending, LineState
  <2>. QED
    BY <1>1, <2>1, <2>2 DEF LineState, Owned, CommandOnce
<1>4. CASE SchedRefuses
  <2>1. /\ enter /\ curr_cmd.name \in {"nprs", "nops"} /\ Serve
        /\ shell_state' = "initial"
    BY <1>4 DEF SchedRefuses, Spawns, Asks
  <2>2. Unserved /\ ~Unserved' /\ ~Owned'
    BY <1>2, <2>1 DEF Pending, Owned
  <2>3. CommandOnce'
    BY <2>1, <2>2, ServedOnce
  <2>. QED
    BY <1>1, <2>2, <2>3 DEF LineState
<1>5. CASE SchedContinues
  <2>1. ~enter' /\ UNCHANGED fate
    BY <1>5 DEF SchedContinues
  <2>. QED
    BY <1>1, <1>2, <2>1 DEF LineState, Pending, CommandOnce
<1>6. ASSUME NEW kind \in {"npr", "nop"}, NEW new \in Slots, SchedSpawns(kind, new)
      PROVE  LineState'
  <2>1. enter /\ ~enter' /\ Serve /\ curr_cmd.name \in {"nprs", "nops"}
    BY <1>6 DEF SchedSpawns, Asks
  <2>2. CommandOnce'
    BY <1>2, <2>1, ServedOnce
  <2>. QED
    BY <1>1, <1>2, <2>1, <2>2 DEF LineState, Pending
<1>. QED
  BY <1>3, <1>4, <1>5, <1>6 DEF FiberScheduler

LEMMA InitLine == Init => LineState
BY DEF Init, LineState, Unserved, Pending, Owned, CommandOnce

LEMMA NextKeepsLine == LineState /\ [Next]_vars => LineState'
<1>1. LineState /\ UNCHANGED vars => LineState'
  BY DEF vars, lineVars, LineState, Unserved, Pending, Owned, CommandOnce, Handled
<1>. QED
  BY <1>1, KeyKeepsLine, ShellStepKeepsLine, CoroutineKeepsLine,
     PlainFiberKeepsLine, SchedulerKeepsLine DEF Next, Compute

-----------------------------------------------------------------------------
(***************************************************************************)
(* The theorems                                                            *)
(***************************************************************************)

LEMMA InitInv == Init => Inv
<1> SUFFICES ASSUME Init PROVE Inv
  OBVIOUS
<1>1. Live = {} /\ Cardinality(Live) = 0
  <2>1. Live = {}
    BY DEF Init, Live
  <2>. QED
    BY <2>1, FS_EmptySet
<1>2. TypeOK
  <2>1. /\ done \in [Slots -> BOOLEAN]
        /\ func_type \in [Slots -> {"none", "npr", "nop"}]
        /\ steps \in [Slots -> Args \cup {0, Unread}]
        /\ asked \in [Slots -> Args \cup {0}] /\ waited \in [Slots -> Nat]
    BY DEF Init
  <2>2. /\ fiber_index \in Slots
        /\ num_npr \in -Limit .. Limit /\ num_nop \in -Limit .. Limit
    BY SlotsAssumption, LimitAssumption DEF Init, Slots
  <2>3. curr_cmd \in Lines /\ shell_state \in States
    BY PartialIsLine DEF Init, States
  <2>. QED
    BY <2>1, <2>2, <2>3 DEF Init, TypeOK
<1>3. NoEndlessSearch /\ CountsSum /\ Turns
  BY <1>1 DEF Init, NoEndlessSearch, Scheduling, CountsSum, Turns
<1>. QED
  BY <1>2, <1>3 DEF Inv

LEMMA NextKeepsInv == Inv /\ [Next]_vars => Inv'
<1>1. ASSUME Inv, UNCHANGED vars PROVE Inv'
  <2>1. Live' = Live /\ AllDone' = AllDone /\ TypeOK'
    BY <1>1 DEF vars, lineVars, coVars, fiVars, slotVars, Live, AllDone, Inv,
                TypeOK
  <2>. QED
    BY <1>1, <2>1 DEF vars, slotVars, Inv, NoEndlessSearch, Scheduling,
                      CountsSum, Turns
<1>. QED
  BY <1>1, KeyKeepsInv, ShellStepKeepsInv, HangKeepsInv, CoroutineKeepsInv,
     PlainFiberKeepsInv, SchedulerKeepsInv DEF Next, Compute

\* The start state and every call of the loop keep the invariant.
THEOREM InvHolds == Spec => []Inv
BY InitInv, NextKeepsInv, PTL DEF Spec

\* No call stores a value that the fields of shellstate_t do not have: the
\* counters stay within the limit on either side although a finished slot may
\* be charged to the wrong one.
THEOREM TypeCorrect == Spec => []TypeOK
<1>1. Inv => TypeOK
  BY DEF Inv
<1>. QED
  BY <1>1, InvHolds, PTL

\* The unbounded search for the next live slot is only entered with one.
THEOREM SearchEnds == Spec => []NoEndlessSearch
<1>1. Inv => NoEndlessSearch
  BY DEF Inv
<1>. QED
  BY <1>1, InvHolds, PTL

\* num_npr + num_nop counts the live slots.
THEOREM CountersAccountForSlots == Spec => []CountsSum
<1>1. Inv => CountsSum
  BY DEF Inv
<1>. QED
  BY <1>1, InvHolds, PTL

LEMMA WaitIsBounded == Inv => BoundedWait
<1> SUFFICES ASSUME Inv, NEW i \in Live PROVE waited[i] <= N - 1
  BY DEF BoundedWait
<1>1. i \in Slots /\ fiber_index \in Slots /\ waited[i] \in Nat
  BY DEF Inv, TypeOK, Live
<1>2. Ahead(fiber_index, i) \in 1 .. N /\ waited[i] + Ahead(fiber_index, i) <= N
  BY <1>1, AheadIsTheDistance DEF Inv, Turns
<1>. QED
  BY <1>1, <1>2, SlotsAssumption

\* No submitted line is carried out or refused twice: done_old or a shell at rest
\* cancels an Enter that echo or a refusal has left set.
THEOREM ServesOnce == Spec => []CommandOnce
<1>1. LineState => CommandOnce
  BY DEF LineState
<1>. QED
  BY <1>1, InitLine, NextKeepsLine, PTL DEF Spec

\* Whatever is typed, and whichever slots finish, a live slot runs again after
\* N - 1 turns of the others.
THEOREM RoundRobinBound == Spec => []BoundedWait
BY WaitIsBounded, InvHolds, PTL

=============================================================================
