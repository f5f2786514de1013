--------------------------- MODULE ChannelProofs ---------------------------
(***************************************************************************)
(* For every ring size and every interleaving of the two cores: the count  *)
(* invariant that labs/multicore.h states, and the absence of races on the *)
(* slots that follows from it.                                             *)
(***************************************************************************)
EXTENDS Channel, Sequences, TLAPS

\* What the chain does not say: where each core is, and on which slot.
Reserved ==
    /\ w_pnt = w_head
    /\ r_pnt = r_head
    /\ ppc \in {"construct", "release"} => w_head < MaxCount
    /\ ppc = "construct" => w_index = w_head % Size
    /\ ppc = "destroy" => d_index = d_head % Size
    /\ cpc = "render" => r_index = r_head % Size

Inv == TypeOK /\ Reserved /\ CountChain

-----------------------------------------------------------------------------

\* Two counters less than a ring apart are not in the same slot.
LEMMA DifferentSlots ==
    ASSUME NEW i \in Nat, NEW j \in Nat, i < j, j < i + Size
    PROVE  i % Size # j % Size
<1> USE SizeAssumption
<1> DEFINE qi == i \div Size
           qj == j \div Size
<1>1. /\ qi \in Int /\ qj \in Int
      /\ i = Size * qi + (i % Size)
      /\ j = Size * qj + (j % Size)
  OBVIOUS
<1>2. SUFFICES ASSUME i % Size = j % Size PROVE FALSE
  OBVIOUS
<1>3. j - i = Size * (qj - qi)
  BY <1>1, <1>2
<1>4. CASE qj - qi <= 0
  BY <1>1, <1>3, <1>4
<1>5. CASE qj - qi >= 1
  BY <1>1, <1>3, <1>5
<1>. QED
  BY <1>1, <1>4, <1>5

LEMMA SlotInRange == \A n \in Nat : n % Size \in Index
BY SizeAssumption DEF Index

LEMMA TypeStep == TypeOK /\ CountChain /\ Reserved /\ [Next]_vars => TypeOK'
<1> SUFFICES ASSUME TypeOK, CountChain, Reserved, [Next]_vars PROVE TypeOK'
  OBVIOUS
<1> USE SizeAssumption, MaxCountAssumption DEF consVars, prodVars
<1>1. CASE BeginConstruct
  BY <1>1, SlotInRange DEF BeginConstruct, TypeOK, Contents
<1>2. CASE SkipWrite
  BY <1>2 DEF SkipWrite, TypeOK
<1>3. CASE EndConstruct
  BY <1>3 DEF EndConstruct, TypeOK
<1>4. CASE WriteRelease
  BY <1>4 DEF WriteRelease, TypeOK, Reserved
<1>5. CASE ReadAcquire
  <2>1. d_head % Size \in Index
    BY SlotInRange DEF TypeOK
  <2>. QED
    BY <1>5, <2>1 DEF ReadAcquire, TypeOK, Contents
<1>6. CASE DeleteRelease
  BY <1>6 DEF DeleteRelease, TypeOK, CountChain, One
<1>7. CASE WriteAcquire
  <2>1. r_head % Size \in Index
    BY SlotInRange DEF TypeOK
  <2>. QED
    BY <1>7, <2>1 DEF WriteAcquire, TypeOK
<1>8. CASE EndRender
  BY <1>8 DEF EndRender, TypeOK
<1>9. CASE ReadRelease
  BY <1>9 DEF ReadRelease, TypeOK, CountChain, One
<1>10. CASE UNCHANGED vars
  BY <1>10 DEF vars, TypeOK
<1>. QED
  BY <1>1, <1>2, <1>3, <1>4, <1>5, <1>6, <1>7, <1>8, <1>9, <1>10
     DEF Next, Producer, Consumer

LEMMA ReservedStep == Inv /\ [Next]_vars => Reserved'
<1> SUFFICES ASSUME Inv, [Next]_vars PROVE Reserved'
  OBVIOUS
<1> USE DEF consVars, prodVars, Inv
<1>1. CASE BeginConstruct
  BY <1>1 DEF BeginConstruct, Reserved
<1>2. CASE SkipWrite
  BY <1>2 DEF SkipWrite, Reserved
<1>3. CASE EndConstruct
  BY <1>3 DEF EndConstruct, Reserved
<1>4. CASE WriteRelease
  BY <1>4 DEF WriteRelease, Reserved
<1>5. CASE ReadAcquire
  BY <1>5 DEF ReadAcquire, Reserved
<1>6. CASE DeleteRelease
  BY <1>6 DEF DeleteRelease, Reserved
<1>7. CASE WriteAcquire
  BY <1>7 DEF WriteAcquire, Reserved, TypeOK
<1>8. CASE EndRender
  BY <1>8 DEF EndRender, Reserved
<1>9. CASE ReadRelease
  BY <1>9 DEF ReadRelease, Reserved
<1>10. CASE UNCHANGED vars
  BY <1>10 DEF vars, Reserved
<1>. QED
  BY <1>1, <1>2, <1>3, <1>4, <1>5, <1>6, <1>7, <1>8, <1>9, <1>10
     DEF Next, Producer, Consumer

LEMMA ChainStep == Inv /\ [Next]_vars => CountChain'
<1> SUFFICES ASSUME Inv, [Next]_vars PROVE CountChain'
  OBVIOUS
<1> USE SizeAssumption, MaxCountAssumption
    DEF consVars, prodVars, Inv, TypeOK, CountChain, One
<1>1. CASE BeginConstruct
  BY <1>1 DEF BeginConstruct, WriteReserveSize
<1>2. CASE SkipWrite
  BY <1>2 DEF SkipWrite
<1>3. CASE EndConstruct
  BY <1>3 DEF EndConstruct
<1>4. CASE WriteRelease
  BY <1>4 DEF WriteRelease, Reserved
<1>5. CASE ReadAcquire
  BY <1>5 DEF ReadAcquire, Reserved, DeleteReserveSize, Ahead
<1>6. CASE DeleteRelease
  BY <1>6 DEF DeleteRelease
<1>7. CASE WriteAcquire
  BY <1>7 DEF WriteAcquire, Reserved, ReadReserveSize, Ahead
<1>8. CASE EndRender
  BY <1>8 DEF EndRender
<1>9. CASE ReadRelease
  BY <1>9 DEF ReadRelease, Reserved
<1>10. CASE UNCHANGED vars
  BY <1>10 DEF vars
<1>. QED
  BY <1>1, <1>2, <1>3, <1>4, <1>5, <1>6, <1>7, <1>8, <1>9, <1>10
     DEF Next, Producer, Consumer

THEOREM Invariance == Spec => []Inv
<1>1. Init => Inv
  BY SizeAssumption, MaxCountAssumption
     DEF Init, Inv, TypeOK, Index, Contents, Reserved, CountChain, One
<1>2. Inv /\ [Next]_vars => Inv'
  BY TypeStep, ReservedStep, ChainStep DEF Inv
<1>. QED
  BY <1>1, <1>2, PTL DEF Spec

\* Every variable of the two ports, the channel and the slots keeps its type;
\* in particular no counter passes its bound.
THEOREM TypeCorrect == Spec => []TypeOK
BY Invariance, PTL DEF Inv

\* The invariant at the head of labs/multicore.h holds for every ring size.
THEOREM CountsOrdered == Spec => []CountChain
BY Invariance, PTL DEF Inv

\* No slot is constructed or destroyed on core 0 while core 1 draws from it.
THEOREM NoRaces == Spec => []NoSlotRace
<1>1. ASSUME Inv PROVE NoSlotRace
  <2> USE <1>1, SizeAssumption DEF Inv, TypeOK, Reserved, CountChain, One
  <2>1. ASSUME cpc = "render", ppc = "construct" PROVE w_index # r_index
    <3>1. /\ r_head \in Nat /\ w_head \in Nat
          /\ r_head < w_head /\ w_head < r_head + Size
      BY <2>1
    <3>. QED
      BY <2>1, <3>1, DifferentSlots
  <2>2. ASSUME cpc = "render", ppc = "destroy" PROVE d_index # r_index
    <3>1. /\ r_head \in Nat /\ d_head \in Nat
          /\ d_head < r_head /\ r_head < d_head + Size
      BY <2>2
    <3>. QED
      BY <2>2, <3>1, DifferentSlots
  <2>. QED
    BY <2>1, <2>2 DEF NoSlotRace
<1>. QED
  BY <1>1, Invariance, PTL

-----------------------------------------------------------------------------
(* The ring implements the FIFO *)

\* The frame under way is one that shell_render made, is bound for the slot that
\* was reserved, and is whole in it when its counter is published.
Held ==
    /\ ppc \in {"construct", "release"} => /\ frame \in Frames
                                           /\ w_index = w_head % Size
    /\ ppc = "release" => data[w_index] = frame

LEMMA HeldStep == Inv /\ Held /\ [Next]_vars => Held'
<1> SUFFICES ASSUME Inv, Held, [Next]_vars PROVE Held'
  OBVIOUS
<1> USE DEF consVars, prodVars, Held
<1>1. CASE BeginConstruct
  BY <1>1 DEF BeginConstruct
<1>2. CASE SkipWrite
  BY <1>2 DEF SkipWrite
<1>3. CASE EndConstruct
  BY <1>3 DEF EndConstruct, Inv, TypeOK
<1>4. CASE WriteRelease
  BY <1>4 DEF WriteRelease
<1>5. CASE ReadAcquire
  BY <1>5 DEF ReadAcquire
<1>6. CASE DeleteRelease
  BY <1>6 DEF DeleteRelease
<1>7. CASE Consumer
  BY <1>7 DEF Consumer, WriteAcquire, EndRender, ReadRelease
<1>8. CASE UNCHANGED vars
  BY <1>8 DEF vars
<1>. QED
  BY <1>1, <1>2, <1>3, <1>4, <1>5, <1>6, <1>7, <1>8 DEF Next, Producer

\* The counters of the frames that the queue holds.
LEMMA QueueCounters ==
    ASSUME Inv
    PROVE  /\ drawn \in Nat /\ w_pnt \in Nat /\ d_head \in Nat
           /\ d_head <= drawn /\ drawn <= w_pnt
           /\ w_pnt + One(ppc \in {"construct", "release"}) <= d_head + Size
           /\ ppc = "destroy" => d_head < drawn
BY SizeAssumption DEF Inv, TypeOK, Reserved, CountChain, One, drawn

\* A write to a slot leaves the queue alone unless a frame of it is there.
LEMMA QueueUntouched ==
    ASSUME Inv, UNCHANGED <<w_pnt, r_head>>, drawn' = drawn,
           \A n \in Nat : drawn <= n /\ n < w_pnt => data'[n % Size] = data[n % Size]
    PROVE  queue' = queue
<1>1. drawn \in Nat /\ w_pnt \in Nat
  BY QueueCounters
<1>2. \A k \in 1 .. w_pnt - drawn :
         data'[(drawn + k - 1) % Size] = data[(drawn + k - 1) % Size]
  <2> SUFFICES ASSUME NEW k \in 1 .. w_pnt - drawn
               PROVE  data'[(drawn + k - 1) % Size] = data[(drawn + k - 1) % Size]
    OBVIOUS
  <2>1. drawn + k - 1 \in Nat /\ drawn <= drawn + k - 1 /\ drawn + k - 1 < w_pnt
    BY <1>1
  <2>. QED
    BY <2>1
<1> HIDE DEF drawn
<1>. QED
  BY <1>2 DEF queue

\* Slots of core 0: it writes outside the queue.
LEMMA WriteOutside ==
    ASSUME Inv, NEW m \in Nat, NEW f,
           \/ m < drawn /\ w_pnt <= m + Size
           \/ w_pnt <= m /\ m < drawn + Size,
           data' = [data EXCEPT ![m % Size] = f],
           UNCHANGED <<w_pnt, r_head>>, drawn' = drawn
    PROVE  queue' = queue
<1>1. drawn \in Nat /\ w_pnt \in Nat
  BY QueueCounters
<1>2. ASSUME NEW n \in Nat, drawn <= n, n < w_pnt
      PROVE  n % Size # m % Size /\ n % Size \in Index
  <2>1. CASE m < n
    <3>1. n < m + Size
      BY <1>1, <1>2, <2>1, SizeAssumption
    <3>. QED
      BY <2>1, <3>1, DifferentSlots, SlotInRange
  <2>2. CASE n < m
    <3>1. m < n + Size
      BY <1>1, <1>2, <2>2, SizeAssumption
    <3>. QED
      BY <2>2, <3>1, DifferentSlots, SlotInRange
  <2>. QED
    BY <1>1, <1>2, <2>1, <2>2
<1>3. \A n \in Nat : drawn <= n /\ n < w_pnt => data'[n % Size] = data[n % Size]
  BY <1>2 DEF Inv, TypeOK
<1>. QED
  BY <1>3, QueueUntouched

LEMMA PublishStep == Inv /\ Held /\ WriteRelease => \E f \in Frames : Fifo!Publish(f)
<1> SUFFICES ASSUME Inv, Held, WriteRelease PROVE Fifo!Publish(frame) /\ frame \in Frames
  OBVIOUS
<1>1. /\ ppc = "release" /\ w_pnt' = w_pnt + 1
      /\ UNCHANGED <<data, screen, r_head, cpc, frame>>
  BY DEF WriteRelease, consVars, Inv, Reserved
<1>2. frame \in Frames /\ data[w_pnt % Size] = frame
  BY <1>1 DEF Held, Inv, Reserved
<1>3. drawn' = drawn
  BY <1>1 DEF drawn
<1>4. /\ drawn \in Nat /\ w_pnt \in Nat /\ drawn <= w_pnt
      /\ w_pnt - drawn < Size
  BY <1>1, QueueCounters, SizeAssumption DEF One
<1> DEFINE n == w_pnt - drawn
           At(k) == data[(drawn + k - 1) % Size]
<1>5. n \in Nat /\ w_pnt' - drawn' = n + 1
  BY <1>1, <1>3, <1>4
<1>6. queue = [k \in 1 .. n |-> At(k)] /\ queue' = [k \in 1 .. n + 1 |-> At(k)]
  BY <1>1, <1>3, <1>5 DEF queue
<1>7. At(n + 1) = frame
  <2>1. drawn + (n + 1) - 1 = w_pnt
    BY <1>4
  <2>. QED
    BY <1>2, <2>1
<1> HIDE DEF At, n
<1>8. /\ Len([k \in 1 .. n |-> At(k)]) = n
      /\ [k \in 1 .. n + 1 |-> At(k)] = Append([k \in 1 .. n |-> At(k)], At(n + 1))
  BY <1>5
<1>9. Len(queue) < Size /\ queue' = Append(queue, frame)
  BY <1>4, <1>6, <1>7, <1>8 DEF n
<1>. QED
  BY <1>1, <1>2, <1>9 DEF Fifo!Publish

LEMMA DrawStep == Inv /\ EndRender => Fifo!Draw
<1> SUFFICES ASSUME Inv, EndRender PROVE Fifo!Draw
  OBVIOUS
<1>1. /\ cpc = "render" /\ cpc' = "release" /\ screen' = data[r_index]
      /\ UNCHANGED <<data, r_head, w_pnt>>
  BY DEF EndRender, prodVars
<1>2. /\ drawn = r_head /\ drawn' = r_head + 1 /\ r_index = r_head % Size
      /\ r_head \in Nat /\ w_pnt \in Nat /\ r_head + 1 <= w_pnt
  BY <1>1 DEF drawn, One, Inv, Reserved, TypeOK, CountChain
<1> DEFINE n == w_pnt - r_head
           At(k) == data[(r_head + k - 1) % Size]
<1>3. n \in Nat \ {0} /\ w_pnt' - drawn' = n - 1
  BY <1>1, <1>2
<1>4. queue = [k \in 1 .. n |-> At(k)]
  BY <1>2 DEF queue
<1>5. queue' = [k \in 1 .. n - 1 |-> At(k + 1)]
  <2>1. \A k \in 1 .. n - 1 : data'[(drawn' + k - 1) % Size] = At(k + 1)
    <3>1. \A k \in Int : (r_head + 1) + k - 1 = r_head + (k + 1) - 1
      BY <1>2
    <3>. QED
      BY <1>1, <1>2, <3>1
  <2> HIDE DEF At, n
  <2>. QED
    BY <1>3, <2>1 DEF queue
<1>6. At(1) = data[r_index]
  BY <1>2
<1> HIDE DEF At, n
<1>7. /\ [k \in 1 .. n |-> At(k)] # <<>>
      /\ Head([k \in 1 .. n |-> At(k)]) = At(1)
      /\ Tail([k \in 1 .. n |-> At(k)]) = [k \in 1 .. n - 1 |-> At(k + 1)]
  BY <1>3
<1>. QED
  BY <1>1, <1>4, <1>5, <1>6, <1>7 DEF Fifo!Draw

LEMMA StutterStep ==
    ASSUME Inv, Held, [Next]_vars, ~WriteRelease, ~EndRender
    PROVE  UNCHANGED <<queue, screen>>
<1> USE SizeAssumption DEF consVars, prodVars
<1>0. /\ drawn \in Nat /\ w_pnt \in Nat /\ d_head \in Nat /\ w_pnt = w_head
      /\ d_head <= drawn /\ drawn <= w_pnt
      /\ w_pnt + One(ppc \in {"construct", "release"}) <= d_head + Size
  BY QueueCounters DEF Inv, Reserved
<1>1. CASE BeginConstruct
  <2>1. /\ UNCHANGED <<w_pnt, r_head, cpc, screen>>
        /\ data' = [data EXCEPT ![w_pnt % Size] = Torn]
        /\ WriteReserveSize >= 1
    BY <1>0, <1>1 DEF BeginConstruct
  <2>2. w_pnt <= w_pnt /\ w_pnt < drawn + Size
    BY <1>0, <2>1 DEF WriteReserveSize
  <2>3. drawn' = drawn
    BY <2>1 DEF drawn
  <2>. QED
    BY <1>0, <2>1, <2>2, <2>3, WriteOutside
<1>2. CASE EndConstruct
  <2>1. /\ UNCHANGED <<w_pnt, r_head, cpc, screen>> /\ ppc = "construct"
        /\ data' = [data EXCEPT ![w_pnt % Size] = frame]
    BY <1>0, <1>2 DEF EndConstruct, Held
  <2>2. w_pnt <= w_pnt /\ w_pnt < drawn + Size
    BY <1>0, <2>1 DEF One
  <2>3. drawn' = drawn
    BY <2>1 DEF drawn
  <2>. QED
    BY <1>0, <2>1, <2>2, <2>3, WriteOutside
<1>3. CASE ReadAcquire
  <2>1. UNCHANGED <<w_pnt, r_head, cpc, screen>>
    BY <1>3 DEF ReadAcquire
  <2>2. drawn' = drawn
    BY <2>1 DEF drawn
  <2>3. CASE DeleteReserveSize(r_pnt) >= 1
    <3>1. data' = [data EXCEPT ![d_head % Size] = Torn]
      BY <1>3, <2>3 DEF ReadAcquire
    <3>2. d_head < drawn
      BY <1>0, <2>3 DEF DeleteReserveSize, Ahead, Inv, Reserved, TypeOK, drawn, One
    <3>3. w_pnt <= d_head + Size
      BY <1>0 DEF One
    <3>. QED
      BY <1>0, <2>1, <2>2, <3>1, <3>2, <3>3, WriteOutside
  <2>4. CASE ~(DeleteReserveSize(r_pnt) >= 1)
    <3>1. data' = data
      BY <1>3, <2>4 DEF ReadAcquire
    <3>. QED
      BY <2>1, <2>2, <3>1, QueueUntouched
  <2>. QED
    BY <2>3, <2>4
<1>4. CASE SkipWrite \/ DeleteRelease \/ UNCHANGED vars
  <2>1. UNCHANGED <<w_pnt, r_head, cpc, screen, data>>
    BY <1>4 DEF SkipWrite, DeleteRelease, vars
  <2>2. drawn' = drawn
    BY <2>1 DEF drawn
  <2>. QED
    BY <2>1, <2>2, QueueUntouched
<1>5. CASE WriteAcquire \/ ReadRelease
  <2>1. UNCHANGED <<w_pnt, screen, data>>
    BY <1>5 DEF WriteAcquire, ReadRelease
  <2>2. drawn' = drawn
    BY <1>5 DEF WriteAcquire, ReadRelease, drawn, One, Inv, TypeOK
  <2>. QED
    BY <2>1, <2>2 DEF queue
<1>. QED
  BY <1>1, <1>2, <1>3, <1>4, <1>5 DEF Next, Producer, Consumer

\* The ring is a FIFO: each step of the two cores publishes a frame at the end of
\* the queue, draws the one at its head, or changes neither queue nor screen. What
\* IsFifo adds, that a published frame is drawn in the end, is model-checked.
THEOREM ImplementsFifo == Spec => Fifo!Init /\ [][Fifo!Next]_(Fifo!fifoVars)
<1>1. Init => Fifo!Init
  <2> SUFFICES ASSUME Init PROVE queue = <<>> /\ screen = Torn
    BY DEF Fifo!Init
  <2>1. w_pnt - drawn = 0
    BY DEF Init, drawn, One
  <2>. QED
    BY <2>1 DEF Init, queue
<1>2. Init => Held
  BY DEF Init, Held
<1>3. Inv /\ Held /\ [Next]_vars => [Fifo!Next]_(Fifo!fifoVars)
  <2> SUFFICES ASSUME Inv, Held, [Next]_vars PROVE Fifo!Next \/ UNCHANGED <<queue, screen>>
    BY DEF Fifo!fifoVars
  <2>. QED
    BY PublishStep, DrawStep, StutterStep DEF Fifo!Next
<1>. QED
  BY <1>1, <1>2, <1>3, HeldStep, Invariance, PTL DEF Spec
=============================================================================
