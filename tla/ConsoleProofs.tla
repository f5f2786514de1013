---------------------------- MODULE ConsoleProofs ----------------------------
(***************************************************************************)
(* For every size of the display's page and of the channel, every number   *)
(* of slots and whatever is typed: the loop with its display is still the  *)
(* loop of module Scheduler, the cursor stays on the display, and the last *)
(* answer of a pass stays until it has been shown.                         *)
(***************************************************************************)
EXTENDS Console, SchedulerProofs

-----------------------------------------------------------------------------
(***************************************************************************)
(* The invariant                                                           *)
(***************************************************************************)

\* The first call is next: the texts may be those of the pass before.
Between == pc \in {"shell", "hung"}

\* The answer that is on its way is the only one.
AnswerState ==
    /\ ~Between => fiber_out = "$"
    /\ ~Between /\ Unserved => output = "$"
    /\ ~(Shown(output) /\ Shown(fiber_out))

\* done_old, or a shell not at rest, is what makes the later calls of the pass
\* leave an answer alone.
OwedState ==
    /\ NothingTakenBack
    /\ ~Between /\ answered # "none" => output = answered /\ ~AtRest

PassState ==
    /\ ~computing => pc = "shell"
    /\ computing /\ Between => answered = "none" /\ ~over

\* The part of ConsoleTypeOK that is not about the cursor.
AnswerNames == (Texts \cup SlotTexts \cup {"none"}) \ {"$"}
PageTypes ==
    /\ refresh \in BOOLEAN
    /\ answered \in AnswerNames
    /\ over \in BOOLEAN
Types ==
    /\ computing \in BOOLEAN
    /\ output \in Texts /\ fiber_out \in SlotTexts
    /\ PageTypes
    /\ screen \in Frames

ChannelState ==
    /\ unread \in Seq(Frames) /\ read \in 0 .. Size
    /\ Len(unread) + read <= Size

\* How far behind the last line the cursor can be: a line that is being typed
\* was started on the page, but the one before may still be answered above it;
\* Enter takes a line, and its answer another.
CursorState ==
    /\ cursor_y \in 0 .. Bottom + 3
    /\ Unserved => cursor_y <= Bottom + 2
    /\ typing => cursor_y <= Bottom + 1
    /\ typing /\ enter /\ shell_state # "initial" => cursor_y <= Bottom
    /\ render_y \in 0 .. Bottom + 3

LoopState  == AnswerState /\ OwedState /\ PassState /\ CursorState
ConsoleInv == Inv /\ LineState /\ Types /\ ChannelState /\ LoopState

\* A step that is none of the loop's leaves all but the channel and the display.
LEMMA LoopUntouched ==
    ASSUME LoopState,
           UNCHANGED <<vars, computing, pageVars, render_y>>
    PROVE  LoopState'
BY DEF LoopState, Between, AnswerState, Unserved, Pending, Shown, AtRest,
       OwedState, NothingTakenBack, PassState, CursorState, Handled,
       vars, lineVars, coVars, fiVars, slotVars, pageVars, textVars

-----------------------------------------------------------------------------
(***************************************************************************)
(* Every step of the loop is a step of module Scheduler, or none           *)
(***************************************************************************)

LEMMA StepsOfScheduler == ConsoleNext => [Next]_vars
<1> SUFFICES ASSUME ConsoleNext PROVE [Next]_vars
  OBVIOUS
<1>1. CASE Press
  BY <1>1 DEF Press, Key, Next
<1>2. CASE Show \/ Render
  BY <1>2 DEF Show, Render
<1>3. CASE Computes
  <2>1. CASE Step
    BY <2>1 DEF Step, Next, Compute
  <2>5. CASE StepHangs
    BY <2>5 DEF StepHangs, Next, Compute
  <2>2. CASE StepCoroutine
    BY <2>2 DEF StepCoroutine, Coroutine, Next, Compute
  <2>3. CASE StepFiber
    BY <2>3 DEF StepFiber, PlainFiber, Next, Compute
  <2>4. CASE StepScheduler
    BY <2>4 DEF StepScheduler, FiberScheduler, Next, Compute
  <2>. QED
    BY <1>3, <2>1, <2>2, <2>3, <2>4, <2>5 DEF Computes
<1>. QED
  BY <1>1, <1>2, <1>3 DEF ConsoleNext, Core0

-----------------------------------------------------------------------------
(***************************************************************************)
(* Keys, the display and the other core                                    *)
(***************************************************************************)

LEMMA PressKeeps == ConsoleInv /\ Press => Types' /\ ChannelState' /\ LoopState'
<1> SUFFICES ASSUME ConsoleInv, Press PROVE Types' /\ ChannelState' /\ LoopState'
  OBVIOUS
<1> USE BottomAssumption, SizeAssumption
<1> DEFINE top == IF Refreshes THEN 0 ELSE cursor_y
<1>1. /\ pc = "shell" /\ pc' = "shell" /\ ~computing /\ ~computing'
      /\ UNCHANGED <<computing, render_y, read>>
      /\ output' = "$" /\ fiber_out' = "$"
      /\ refresh' = Refreshes /\ over' = Refreshes /\ answered' = "none"
      /\ unread' = [i \in DOMAIN unread |-> "old"]
      /\ screen' = "old"
      /\ done_old' = FALSE
  BY DEF Press, KeyDropped, KeyTyped, EnterTyped
<1>2. /\ TypeOK /\ Types /\ ChannelState /\ LineState /\ CursorState
      /\ LoopState /\ PassState
  BY DEF ConsoleInv, LoopState, Inv
<1>3. Types'
  <2>1. Refreshes \in BOOLEAN
    BY <1>2 DEF Refreshes, Owned, TypeOK
  <2>. QED
    BY <1>1, <1>2, <2>1 DEF Types, PageTypes, Texts, SlotTexts, AnswerNames, Frames
<1>4. ChannelState'
  <2>1. Len(unread) \in Nat /\ DOMAIN unread = 1 .. Len(unread)
    BY <1>2 DEF ChannelState
  <2>2. unread' \in Seq(Frames) /\ Len(unread') = Len(unread)
    BY <1>1, <2>1 DEF Frames
  <2>. QED
    BY <1>1, <1>2, <2>2 DEF ChannelState
<1>5. /\ top \in 0 .. Bottom + 3
      /\ ~Owned => /\ top <= Bottom + 1
                   /\ ~typing => top <= Bottom
                   /\ typing /\ enter /\ shell_state # "initial" => top <= Bottom
  BY <1>2 DEF CursorState, Refreshes
<1> HIDE DEF top
<1>6. CursorState'
  <2>1. CASE KeyDropped /\ cursor_y' = top
    <3>1. /\ Owned /\ UNCHANGED <<shell_state, enter, typing>>
      BY <2>1 DEF KeyDropped, lineVars
    <3>2. ~enter /\ ~Unserved'
      BY <1>1, <1>2, <3>1 DEF LineState, Unserved, Pending
    <3>3. cursor_y' = cursor_y
      BY <2>1, <3>1 DEF top, Refreshes
    <3>. QED
      BY <1>1, <1>2, <3>1, <3>2, <3>3 DEF CursorState
  <2>2. CASE KeyTyped /\ cursor_y' = top
    <3>1. ~Owned /\ UNCHANGED <<shell_state, enter>> /\ typing' \in {typing, TRUE}
      BY <2>2 DEF KeyTyped
    <3>2. cursor_y' \in Nat /\ cursor_y' <= Bottom + 1
          /\ (enter /\ shell_state # "initial" => cursor_y' <= Bottom)
      BY <1>5, <2>2, <3>1
    <3>. QED
      BY <1>1, <1>2, <3>1, <3>2 DEF CursorState
  <2>3. CASE EnterTyped /\ cursor_y' = top + 1
    <3>1. ~Owned /\ typing' = FALSE
      BY <2>3 DEF EnterTyped
    <3>2. cursor_y' \in Nat /\ cursor_y' <= Bottom + 2
      BY <1>5, <2>3, <3>1
    <3>. QED
      BY <1>1, <1>2, <3>1, <3>2 DEF CursorState
  <2>. QED
    BY <2>1, <2>2, <2>3 DEF Press, top
<1>7. AnswerState' /\ OwedState' /\ PassState'
  BY <1>1, <1>2 DEF AnswerState, Between, Shown, OwedState, NothingTakenBack, PassState
<1>. QED
  BY <1>3, <1>4, <1>6, <1>7 DEF LoopState

LEMMA ShowKeeps == ConsoleInv /\ Show => Types' /\ ChannelState' /\ LoopState'
<1> SUFFICES ASSUME ConsoleInv, Show PROVE Types' /\ ChannelState' /\ LoopState'
  OBVIOUS
<1> USE BottomAssumption, SizeAssumption
<1>1. /\ pc = "shell" /\ answered' = "none" /\ over' = FALSE
      /\ computing' \in BOOLEAN
      /\ render_y' = FrameY
      /\ unread' = IF Len(unread) + read < Size THEN Append(unread, "current") ELSE unread
      /\ read' = IF read > 0 THEN read - 1 ELSE read
      /\ UNCHANGED <<vars, cursor_y, textVars, refresh, screen>>
  BY DEF Show, ConsoleInv, LoopState, PassState
<1>2. Types /\ ChannelState /\ AnswerState /\ CursorState
  BY DEF ConsoleInv, LoopState
<1>3. Types'
  BY <1>1, <1>2 DEF Types, PageTypes, AnswerNames, textVars
<1>4. ChannelState'
  <2>1. unread \in Seq(Frames) /\ Len(unread) \in Nat /\ read \in Nat
    BY <1>2 DEF ChannelState
  <2>2. "current" \in Frames
    BY DEF Frames
  <2>3. unread' \in Seq(Frames)
    BY <1>1, <2>1, <2>2
  <2>4. Len(unread') = IF Len(unread) + read < Size THEN Len(unread) + 1 ELSE Len(unread)
    BY <1>1, <2>1, <2>2
  <2>5. read \in 0 .. Size /\ Len(unread) + read <= Size
    BY <1>2 DEF ChannelState
  <2>6. read' \in 0 .. Size /\ read' <= read
    BY <1>1, <2>1, <2>5
  <2>7. Len(unread') \in Nat /\ Len(unread') + read <= Size
    BY <2>1, <2>4, <2>5
  <2>. QED
    BY <2>1, <2>3, <2>6, <2>7 DEF ChannelState
<1>5. UNCHANGED <<pc, shell_state, enter, done_old, curr_cmd, typing>>
  BY <1>1 DEF vars, lineVars
<1>6. AnswerState' /\ (Unserved' <=> Unserved)
  BY <1>1, <1>2, <1>5 DEF AnswerState, Between, Unserved, Pending, Shown, Handled,
                          textVars
<1>7. CursorState'
  BY <1>1, <1>2, <1>5, <1>6 DEF CursorState, FrameY
<1>8. OwedState' /\ PassState'
  BY <1>1, <1>5 DEF OwedState, Between, NothingTakenBack, PassState
<1>. QED
  BY <1>3, <1>4, <1>6, <1>7, <1>8 DEF LoopState

LEMMA RenderKeeps == ConsoleInv /\ Render => Types' /\ ChannelState' /\ LoopState'
<1> SUFFICES ASSUME ConsoleInv, Render PROVE Types' /\ ChannelState' /\ LoopState'
  OBVIOUS
<1>1. /\ unread # <<>> /\ screen' = Head(unread) /\ unread' = Tail(unread)
      /\ read' = read + 1
      /\ UNCHANGED <<vars, computing, pageVars, render_y>>
  BY DEF Render
<1>2. unread \in Seq(Frames) /\ read \in 0 .. Size /\ Len(unread) + read <= Size
  BY DEF ConsoleInv, ChannelState
<1>3. /\ Len(unread) \in Nat \ {0} /\ Head(unread) \in Frames
      /\ Tail(unread) \in Seq(Frames) /\ Len(Tail(unread)) = Len(unread) - 1
  BY <1>1, <1>2
<1>4. Types' /\ ChannelState'
  BY <1>1, <1>2, <1>3, SizeAssumption
  DEF ConsoleInv, Types, PageTypes, ChannelState, pageVars, textVars
<1>. QED
  BY <1>1, <1>4, LoopUntouched DEF ConsoleInv

LEMMA HangKeeps ==
    ASSUME ConsoleInv, computing, StepHangs, UNCHANGED <<computing, channelVars>>
    PROVE  Types' /\ ChannelState' /\ LoopState'
<1>1. /\ pc = "shell" /\ pc' = "hung" /\ UNCHANGED <<computing, pageVars, channelVars>>
      /\ UNCHANGED <<shell_state, enter, done_old, curr_cmd, typing>>
  BY DEF StepHangs, Hang, lineVars
<1>2. Types' /\ ChannelState'
  BY <1>1 DEF ConsoleInv, Types, PageTypes, ChannelState, pageVars, textVars, channelVars
<1>3. /\ Between /\ Between' /\ (Unserved' <=> Unserved)
  BY <1>1 DEF Between, Unserved, Pending
<1>. QED
  BY <1>1, <1>2, <1>3
  DEF ConsoleInv, LoopState, AnswerState, Shown, OwedState, NothingTakenBack, PassState,
      CursorState, pageVars, textVars, channelVars

-----------------------------------------------------------------------------
(***************************************************************************)
(* What the four calls do to the page                                      *)
(***************************************************************************)

\* A call that starts the page over says so.
LEMMA PageKept ==
    ASSUME cursor_y \in Nat, PageTypes, over => refresh,
           Down \/ DownAndOver \/ Stay,
           NEW text \in Texts \cup SlotTexts, Makes(text)
    PROVE  /\ PageTypes'
           /\ over' => refresh'
           /\ answered' = IF text = "$" THEN answered ELSE text
<1> USE BottomAssumption
<1> DEFINE last == cursor_y + 1 > Bottom
<1>1. cursor_y' < cursor_y => refresh'
  <2>1. DownAndOver => cursor_y' = (IF last THEN 0 ELSE cursor_y + 1)
                       /\ refresh' = (refresh \/ last)
    BY DEF DownAndOver
  <2>2. (Down \/ Stay) => ~(cursor_y' < cursor_y)
    BY DEF Down, Stay
  <2>3. ~(cursor_y + 1 < cursor_y)
    OBVIOUS
  <2> HIDE DEF last
  <2>4. CASE last
    BY <2>1, <2>2, <2>4
  <2>5. CASE ~last
    BY <2>1, <2>2, <2>3, <2>5
  <2>. QED
    BY <2>4, <2>5
<1>2. refresh' \in BOOLEAN /\ (refresh => refresh')
  BY DEF Down, DownAndOver, Stay, PageTypes
<1>3. over' <=> over \/ cursor_y' < cursor_y
  BY DEF Makes
<1>4. answered' = IF text = "$" THEN answered ELSE text
  BY DEF Makes
<1>5. answered' \in AnswerNames
  BY <1>4 DEF PageTypes, AnswerNames
<1>6. over' \in BOOLEAN
  BY DEF Makes
<1>. QED
  BY <1>1, <1>2, <1>3, <1>4, <1>5, <1>6 DEF PageTypes

LEMMA CursorMoves ==
    ASSUME cursor_y \in 0 .. Bottom + 3
    PROVE  /\ DownAndOver => cursor_y' \in 0 .. Bottom
           /\ Stay => cursor_y' = cursor_y
           /\ Down => cursor_y' = cursor_y + 1
<1>1. cursor_y + 1 \in Nat
  BY BottomAssumption
<1>. QED
  BY <1>1, BottomAssumption DEF DownAndOver, Stay, Down

LEMMA TextsShown ==
    /\ ~Shown("$")
    /\ AnswerTexts \subseteq Texts
    /\ ~Serves => AnswerTexts = {"$"}
<1>1. ~Pending => AnswerTexts = {"$"}
  BY DEF AnswerTexts
<1>2. ~Serves => AnswerTexts = {"$"}
  BY <1>1 DEF AnswerTexts, Serves, Functions
<1>3. AnswerTexts \subseteq Texts
  BY DEF AnswerTexts, Texts
<1>. QED
  BY <1>2, <1>3 DEF Shown

LEMMA StepKeeps ==
    ASSUME ConsoleInv, LineState', computing, Step, UNCHANGED <<computing, channelVars>>
    PROVE  Types' /\ ChannelState' /\ LoopState'
<1> USE BottomAssumption
<1>1. /\ TypeOK /\ Types /\ ChannelState /\ LineState /\ AnswerState /\ OwedState
      /\ PassState /\ CursorState
  BY DEF ConsoleInv, LoopState, Inv
<1>2. /\ pc = "shell" /\ pc' = "co" /\ Between /\ ~Between'
      /\ UNCHANGED <<curr_cmd, typing>>
      /\ UNCHANGED <<render_y, unread, read, screen>>
      /\ output' \in AnswerTexts /\ fiber_out' = "$"
      /\ IF Serves THEN Down ELSE Stay
      /\ Makes(output')
  BY DEF Step, ShellStep, lineVars, channelVars, Between
<1>3. answered = "none" /\ ~over /\ output' \in Texts
  BY <1>1, <1>2, TextsShown DEF PassState
<1>4. /\ PageTypes'
      /\ over' => refresh'
      /\ answered' = IF output' = "$" THEN "none" ELSE output'
  <2>1. cursor_y \in Nat /\ PageTypes
    BY <1>1 DEF CursorState, Types
  <2>2. Down \/ DownAndOver \/ Stay
    BY <1>2
  <2> DEFINE text == output'
  <2>3. text \in Texts \cup SlotTexts /\ Makes(text)
    BY <1>2, <1>3
  <2> HIDE DEF text
  <2>4. /\ PageTypes'
        /\ over' => refresh'
        /\ answered' = IF text = "$" THEN answered ELSE text
    BY <1>3, <2>1, <2>2, <2>3, PageKept
  <2>. QED
    BY <1>3, <2>4 DEF text
<1>5. Types' /\ ChannelState'
  BY <1>1, <1>2, <1>3, <1>4 DEF Types, ChannelState, SlotTexts
<1>6. PassState'
  BY <1>1, <1>2 DEF PassState
<1>7. Unserved <=> Pending
  BY <1>2, UnservedAt
<1>8. CASE ~Serves
  <2>1. output' = "$" /\ cursor_y' = cursor_y
    BY <1>1, <1>2, <1>8, TextsShown, CursorMoves DEF CursorState
  <2>2. /\ enter' => Pending
        /\ enter' => UNCHANGED <<enter, shell_state>>
    BY <1>2, <1>8 DEF Step, ShellStep, Serves, AnswersAtOnce, Functions, Searches
  <2>3. Unserved' => Unserved
    BY <1>2, <1>7, <2>2, UnservedAt DEF Unserved
  <2>4. AnswerState' /\ OwedState'
    BY <1>2, <1>4, <2>1, TextsShown DEF AnswerState, OwedState, NothingTakenBack
  <2>5. CursorState'
    BY <1>1, <1>2, <2>1, <2>2, <2>3 DEF CursorState
  <2>. QED
    BY <1>5, <1>6, <2>4, <2>5 DEF LoopState
<1>9. CASE Serves
  <2>1. cursor_y' = cursor_y + 1
    BY <1>1, <1>2, <1>9, CursorMoves DEF CursorState
  <2>2. /\ done_old' = TRUE
        /\ enter' = FALSE \/ curr_cmd.name = "echo"
    BY <1>9 DEF Step, ShellStep, Serves, AnswersAtOnce, Functions, Searches
  <2>3. enter /\ shell_state # "initial" /\ Unserved
    BY <1>7, <1>9 DEF Serves, Pending
  <2>4. ~Unserved'
    <3>1. enter' => curr_cmd'.name \in Handled["co"]
      BY <1>2, <2>2, HandledBy
    <3>. QED
      BY <1>2, <3>1 DEF Unserved
  <2>5. typing' => ~enter'
    BY <1>1, <1>2, <2>2 DEF LineState, Partial, HalfTyped, Searches
  <2>6. AnswerState'
    BY <1>2, <2>4, TextsShown DEF AnswerState
  <2>7. OwedState'
    BY <1>2, <1>4, <2>2 DEF OwedState, NothingTakenBack, AtRest
  <2>8. CursorState'
    <3>1. cursor_y <= Bottom + 2 /\ (typing => cursor_y <= Bottom)
      BY <1>1, <2>3 DEF CursorState
    <3>. QED
      BY <1>1, <1>2, <2>1, <2>4, <2>5, <3>1 DEF CursorState
  <2>. QED
    BY <1>5, <1>6, <2>6, <2>7, <2>8 DEF LoopState
<1>. QED
  BY <1>8, <1>9

-----------------------------------------------------------------------------
(***************************************************************************)
(* shell_step_coroutine and shell_step_fiber                               *)
(***************************************************************************)

\* What both of them leave alone.
Passed ==
    /\ ~Between /\ ~Between'
    /\ UNCHANGED <<typing, computing, channelVars>>
    /\ Unserved' => Unserved

LEMMA PassedKeeps ==
    ASSUME ConsoleInv, Passed
    PROVE  /\ TypeOK /\ Types /\ ChannelState /\ LineState /\ AnswerState
           /\ OwedState /\ PassState /\ CursorState
           /\ fiber_out = "$"
           /\ UNCHANGED <<typing, computing, render_y, screen>>
           /\ ChannelState' /\ PassState'
<1>1. TypeOK /\ Types /\ ChannelState /\ LineState /\ AnswerState /\ OwedState
      /\ PassState /\ CursorState
  BY DEF ConsoleInv, LoopState, Inv
<1>2. fiber_out = "$" /\ computing
  BY <1>1 DEF Passed, AnswerState, PassState, Between
<1>3. UNCHANGED <<typing, computing, render_y, unread, read, screen>>
  BY DEF Passed, channelVars
<1>4. ChannelState' /\ PassState'
  BY <1>1, <1>2, <1>3 DEF ChannelState, PassState, Passed
<1>. QED
  BY <1>1, <1>2, <1>3, <1>4

\* The page and the types, for the texts that the two functions write.
LEMMA PassedTypes ==
    ASSUME ConsoleInv, Passed, Down \/ DownAndOver \/ Stay,
           NEW text \in Texts, Makes(text), output' \in Texts, fiber_out' = "$"
    PROVE  /\ Types'
           /\ over' => refresh'
           /\ answered' = IF text = "$" THEN answered ELSE text
<1>1. cursor_y \in Nat /\ PageTypes /\ (over => refresh)
  BY PassedKeeps, BottomAssumption DEF CursorState, Types, OwedState, NothingTakenBack
<1>2. /\ PageTypes'
      /\ over' => refresh'
      /\ answered' = IF text = "$" THEN answered ELSE text
  BY <1>1, PageKept
<1>. QED
  BY <1>2, PassedKeeps DEF Types, SlotTexts

\* The computation ends: its answer is drawn, and done_old protects it.
LEMMA CallAnswers ==
    ASSUME ConsoleInv, Passed, NEW text \in Texts \ {"$"}, Answer(text),
           enter' = FALSE, done_old' = TRUE
    PROVE  Types' /\ ChannelState' /\ LoopState'
<1> USE BottomAssumption
<1>1. /\ output' = text /\ fiber_out' = "$" /\ DownAndOver /\ Makes(text)
  BY DEF Answer
<1>2. Types' /\ (over' => refresh') /\ answered' = text
  BY <1>1, PassedTypes
<1>3. cursor_y' \in 0 .. Bottom
  BY <1>1, PassedKeeps, CursorMoves DEF CursorState
<1>4. CursorState'
  BY <1>3, PassedKeeps DEF CursorState
<1>5. AnswerState' /\ OwedState'
  <2>1. ~Unserved'
    BY DEF Unserved, Pending
  <2>. QED
    BY <1>1, <1>2, <2>1, TextsShown DEF AnswerState, OwedState, NothingTakenBack, AtRest
<1>. QED
  BY <1>2, <1>4, <1>5, PassedKeeps DEF LoopState

\* It starts, and nothing has been answered before in this pass.
LEMMA CallStarts ==
    ASSUME ConsoleInv, Passed, Silent, Unserved, enter' = FALSE
    PROVE  Types' /\ ChannelState' /\ LoopState'
<1> USE BottomAssumption
<1>1. /\ Stay /\ Makes("$") /\ fiber_out' = "$" /\ output' = "$"
  BY DEF Silent
<1>2. Types' /\ (over' => refresh') /\ answered' = answered
  BY <1>1, PassedTypes DEF Texts
<1>3. cursor_y' = cursor_y /\ ~Unserved'
  <2>1. ~Unserved'
    BY DEF Unserved, Pending
  <2>. QED
    BY <1>1, <2>1, PassedKeeps, CursorMoves DEF CursorState
<1>4. CursorState'
  BY <1>3, PassedKeeps DEF CursorState
<1>5. answered = "none"
  BY PassedKeeps DEF AnswerState, OwedState, Types, PageTypes, AnswerNames, Passed
<1>6. AnswerState' /\ OwedState'
  BY <1>1, <1>2, <1>5, TextsShown DEF AnswerState, OwedState, NothingTakenBack
<1>. QED
  BY <1>2, <1>4, <1>6, PassedKeeps DEF LoopState

\* It goes on: with the shell at rest the answer before it counts no more.
LEMMA CallGoesOn ==
    ASSUME ConsoleInv, Passed, GoesOn, enter' = FALSE
    PROVE  Types' /\ ChannelState' /\ LoopState'
<1> USE BottomAssumption
<1>1. /\ Stay /\ UNCHANGED <<over, refresh, output, fiber_out>>
      /\ answered' = IF AtRest' THEN "none" ELSE answered
  BY DEF GoesOn, Stay, textVars
<1>2. Types'
  BY <1>1, PassedKeeps DEF Types, PageTypes, AnswerNames
<1>3. cursor_y' = cursor_y /\ ~Unserved'
  <2>1. ~Unserved'
    BY DEF Unserved, Pending
  <2>. QED
    BY <1>1, <2>1, PassedKeeps, CursorMoves DEF CursorState
<1>4. CursorState'
  BY <1>3, PassedKeeps DEF CursorState
<1>5. AnswerState' /\ OwedState'
  BY <1>1, <1>3, PassedKeeps DEF AnswerState, Shown, OwedState, NothingTakenBack, Passed
<1>. QED
  BY <1>2, <1>4, <1>5, PassedKeeps DEF LoopState

\* A bad argument.
LEMMA CallRefuses ==
    ASSUME ConsoleInv, Passed, Refuse, enter, Unserved, ~Unserved',
           done_old' = TRUE, shell_state' = "initial"
    PROVE  Types' /\ ChannelState' /\ LoopState'
<1> USE BottomAssumption
<1>1. /\ output' = "error" /\ fiber_out' = "$" /\ Down /\ Makes("error")
  BY DEF Refuse
<1>2. Types' /\ (over' => refresh') /\ answered' = "error"
  BY <1>1, PassedTypes DEF Texts
<1>3. /\ cursor_y' = cursor_y + 1 /\ cursor_y \in 0 .. Bottom + 2
      /\ typing => cursor_y <= Bottom
  <2>1. cursor_y' = cursor_y + 1
    BY <1>1, PassedKeeps, CursorMoves DEF CursorState
  <2>2. shell_state # "initial"
    BY PassedKeeps DEF LineState, Passed, Between
  <2>. QED
    BY <2>1, <2>2, PassedKeeps DEF CursorState
<1>4. CursorState'
  BY <1>3, PassedKeeps DEF CursorState
<1>5. AnswerState' /\ OwedState'
  BY <1>1, <1>2, PassedKeeps, TextsShown
  DEF AnswerState, OwedState, NothingTakenBack, AtRest
<1>. QED
  BY <1>2, <1>4, <1>5, PassedKeeps DEF LoopState

\* Nothing to do: an answer is left alone for done_old.
LEMMA CallSkips ==
    ASSUME ConsoleInv, Passed, IF AtRest THEN Silent ELSE Same,
           UNCHANGED <<shell_state, enter, done_old>>
    PROVE  Types' /\ ChannelState' /\ LoopState'
<1> USE BottomAssumption
<1>1. /\ Stay /\ Makes("$") /\ fiber_out' = "$" /\ output' \in {output, "$"}
      /\ ~AtRest => output' = output
  BY PassedKeeps DEF Silent, Same, textVars
<1>2. Types' /\ (over' => refresh') /\ answered' = answered
  <2>1. output' \in Texts
    BY <1>1, PassedKeeps DEF Types, Texts
  <2>. QED
    BY <1>1, <2>1, PassedTypes DEF Texts
<1>3. cursor_y' = cursor_y
  BY <1>1, PassedKeeps, CursorMoves DEF CursorState
<1>4. CursorState'
  BY <1>3, PassedKeeps DEF CursorState, Passed
<1>5. AnswerState'
  BY <1>1, PassedKeeps, TextsShown DEF AnswerState, Passed
<1>6. OwedState'
  BY <1>1, <1>2, PassedKeeps DEF OwedState, NothingTakenBack, AtRest, Passed
<1>. QED
  BY <1>2, <1>4, <1>5, <1>6, PassedKeeps DEF LoopState

LEMMA CoroutineCallKeeps ==
    ASSUME ConsoleInv, StepCoroutine, UNCHANGED <<computing, channelVars>>
    PROVE  Types' /\ ChannelState' /\ LoopState'
<1>1. /\ pc = "co" /\ pc' = "fiber" /\ UNCHANGED <<curr_cmd, typing>>
      /\ ~Between /\ ~Between'
  BY DEF StepCoroutine, StartCoroutine, RefuseCoroutine, ContinueCoroutine,
         SkipCoroutine, Between, lineVars
<1>2. /\ Unserved <=> enter /\ curr_cmd.name # "echo"
      /\ Unserved' <=> enter' /\ curr_cmd.name \notin {"echo", "nprc"}
  BY <1>1, HandledBy DEF Unserved
<1>3. enter' = FALSE \/ UNCHANGED enter => Passed
  BY <1>1, <1>2 DEF Passed
<1>4. "coroutine" \in Texts \ {"$"}
  BY DEF Texts
<1>5. CASE StartCoroutine /\ IF coroutine_running' THEN Silent ELSE Answer("coroutine")
  <2>1. /\ enter' = FALSE /\ Unserved
        /\ coroutine_running' \/ done_old' = TRUE
    BY <1>2, <1>5 DEF StartCoroutine, RunCoroutine
  <2>. QED
    BY <1>3, <1>4, <1>5, <2>1, CallStarts, CallAnswers
<1>6. CASE RefuseCoroutine /\ Refuse
  <2>1. enter /\ UNCHANGED enter /\ done_old' = TRUE /\ shell_state' = "initial"
        /\ curr_cmd.name = "nprc"
    BY <1>6 DEF RefuseCoroutine
  <2>. QED
    BY <1>2, <1>3, <1>6, <2>1, CallRefuses
<1>7. CASE /\ ContinueCoroutine
           /\ IF coroutine_running' THEN GoesOn ELSE Answer("coroutine")
  <2>1. enter' = FALSE /\ (coroutine_running' \/ done_old' = TRUE)
    BY <1>7 DEF ContinueCoroutine, RunCoroutine
  <2>. QED
    BY <1>3, <1>4, <1>7, <2>1, CallGoesOn, CallAnswers
<1>8. CASE SkipCoroutine /\ IF AtRest THEN Silent ELSE Same
  <2>1. UNCHANGED <<shell_state, enter, done_old>>
    BY <1>8 DEF SkipCoroutine
  <2>. QED
    BY <1>3, <1>8, <2>1, CallSkips
<1>. QED
  BY <1>5, <1>6, <1>7, <1>8 DEF StepCoroutine

LEMMA FiberCallKeeps ==
    ASSUME ConsoleInv, StepFiber, UNCHANGED <<computing, channelVars>>
    PROVE  Types' /\ ChannelState' /\ LoopState'
<1>1. /\ pc = "fiber" /\ pc' = "sched" /\ UNCHANGED <<curr_cmd, typing>>
      /\ ~Between /\ ~Between'
  BY DEF StepFiber, StartFiber, RefuseFiber, ContinueFiber, SkipFiber, Between,
         lineVars
<1>2. /\ Unserved <=> enter /\ curr_cmd.name \notin {"echo", "nprc"}
      /\ Unserved' <=> enter' /\ curr_cmd.name \notin {"echo", "nprc", "nprf"}
  BY <1>1, HandledBy DEF Unserved
<1>3. enter' = FALSE \/ UNCHANGED enter => Passed
  BY <1>1, <1>2 DEF Passed
<1>4. "fiber" \in Texts \ {"$"}
  BY DEF Texts
<1>5. CASE StartFiber /\ IF fiber_running' THEN Silent ELSE Answer("fiber")
  <2>1. /\ enter' = FALSE /\ Unserved
        /\ fiber_running' \/ done_old' = TRUE
    BY <1>2, <1>5 DEF StartFiber, RunFiber
  <2>. QED
    BY <1>3, <1>4, <1>5, <2>1, CallStarts, CallAnswers
<1>6. CASE RefuseFiber /\ Refuse
  <2>1. enter /\ UNCHANGED enter /\ done_old' = TRUE /\ shell_state' = "initial"
        /\ curr_cmd.name = "nprf"
    BY <1>6 DEF RefuseFiber
  <2>. QED
    BY <1>2, <1>3, <1>6, <2>1, CallRefuses
<1>7. CASE /\ ContinueFiber
           /\ IF fiber_running' THEN GoesOn ELSE Answer("fiber")
  <2>1. enter' = FALSE /\ (fiber_running' \/ done_old' = TRUE)
    BY <1>7 DEF ContinueFiber, RunFiber
  <2>. QED
    BY <1>3, <1>4, <1>7, <2>1, CallGoesOn, CallAnswers
<1>8. CASE SkipFiber /\ IF AtRest THEN Silent ELSE Same
  <2>1. UNCHANGED <<shell_state, enter, done_old>>
    BY <1>8 DEF SkipFiber
  <2>. QED
    BY <1>3, <1>8, <2>1, CallSkips
<1>. QED
  BY <1>5, <1>6, <1>7, <1>8 DEF StepFiber

-----------------------------------------------------------------------------
(***************************************************************************)
(* shell_step_fiber_scheduler                                              *)
(***************************************************************************)

\* The last call of a pass, and what all its paths have in common.
LastCall ==
    /\ pc = "sched" /\ pc' = "shell" /\ computing' = FALSE
    /\ UNCHANGED <<curr_cmd, typing, channelVars>>

LEMMA LastCallKeeps ==
    ASSUME ConsoleInv, LastCall, Down \/ DownAndOver \/ Stay,
           NEW text \in Texts \cup SlotTexts, Makes(text),
           output' \in Texts, fiber_out' \in SlotTexts
    PROVE  /\ LineState /\ AnswerState /\ OwedState /\ CursorState
           /\ fiber_out = "$" /\ ~Between /\ Between'
           /\ Unserved <=> enter /\ curr_cmd.name \notin {"echo", "nprc", "nprf"}
           /\ Unserved' <=> Pending'
           /\ UNCHANGED <<curr_cmd, typing, render_y>>
           /\ Types' /\ ChannelState' /\ PassState'
           /\ over' => refresh'
           /\ answered' = IF text = "$" THEN answered ELSE text
<1>1. /\ TypeOK /\ Types /\ ChannelState /\ LineState /\ AnswerState /\ OwedState
      /\ CursorState
  BY DEF ConsoleInv, LoopState, Inv
<1>2. fiber_out = "$" /\ ~Between /\ Between'
  BY <1>1 DEF LastCall, AnswerState, Between
<1>3. cursor_y \in Nat /\ PageTypes /\ (over => refresh)
  BY <1>1, BottomAssumption DEF CursorState, Types, OwedState, NothingTakenBack
<1>4. /\ PageTypes'
      /\ over' => refresh'
      /\ answered' = IF text = "$" THEN answered ELSE text
  BY <1>3, PageKept
<1>5. UNCHANGED <<curr_cmd, typing, render_y, unread, read, screen>>
      /\ computing' = FALSE /\ pc' = "shell"
  BY DEF LastCall, channelVars
<1>6. Unserved <=> enter /\ curr_cmd.name \notin {"echo", "nprc", "nprf"}
  BY UnservedAt DEF LastCall
<1>7. Unserved' <=> Pending'
  BY DEF LastCall, Unserved
<1>8. Types' /\ ChannelState' /\ PassState'
  BY <1>1, <1>4, <1>5 DEF Types, ChannelState, PassState
<1>. QED
  BY <1>1, <1>2, <1>4, <1>5, <1>6, <1>7, <1>8

\* Nothing is drawn, and no line is pending that was not.
LEMMA LastCallPasses ==
    ASSUME ConsoleInv, LastCall, Stay, Makes("$"), UNCHANGED fiber_out,
           output' \in {output, "$"}, ~AtRest => output' = output,
           UNCHANGED <<enter, done_old, shell_state>>
    PROVE  Types' /\ ChannelState' /\ LoopState'
<1> USE BottomAssumption
<1>1. output' \in Texts /\ fiber_out' \in SlotTexts /\ "$" \in Texts
  BY DEF ConsoleInv, Types, Texts
<1>2. /\ LineState /\ AnswerState /\ OwedState /\ CursorState
      /\ fiber_out' = "$" /\ ~Between /\ Between'
      /\ Unserved <=> enter /\ curr_cmd.name \notin {"echo", "nprc", "nprf"}
      /\ Unserved' <=> Pending'
      /\ UNCHANGED <<curr_cmd, typing, render_y>>
      /\ Types' /\ ChannelState' /\ PassState'
      /\ over' => refresh'
      /\ answered' = answered
  BY <1>1, LastCallKeeps
<1>3. cursor_y' = cursor_y
  BY <1>2, CursorMoves DEF CursorState
<1>4. Unserved' => Unserved
  BY <1>2 DEF LineState, Pending, Between
<1>5. CursorState'
  BY <1>2, <1>3, <1>4 DEF CursorState
<1>6. AnswerState'
  BY <1>2, TextsShown DEF AnswerState
<1>7. OwedState'
  BY <1>2 DEF OwedState, NothingTakenBack, AtRest
<1>. QED
  BY <1>2, <1>5, <1>6, <1>7 DEF LoopState

\* A slot's turn: it answers, or nothing is drawn.  The line that made it is
\* pending no more.
LEMMA LastCallRuns ==
    ASSUME ConsoleInv, LastCall, ~enter',
           SlotAnswers \/ (fiber_out' = "$" /\ UNCHANGED output /\ Stay /\ Makes("$"))
    PROVE  Types' /\ ChannelState' /\ LoopState'
<1> USE BottomAssumption
<1>1. ~Unserved'
  BY DEF Unserved, Pending
<1>2. CASE SlotAnswers
  <2>1. output' = "$" /\ fiber_out' = "slot" /\ DownAndOver /\ Makes("slot")
    BY <1>2 DEF SlotAnswers
  <2>2. /\ CursorState /\ Between' /\ UNCHANGED <<curr_cmd, typing, render_y>>
        /\ Types' /\ ChannelState' /\ PassState'
        /\ over' => refresh'
        /\ answered' = "slot"
    BY <2>1, LastCallKeeps DEF Texts, SlotTexts
  <2>3. cursor_y' \in 0 .. Bottom
    BY <2>1, <2>2, CursorMoves DEF CursorState
  <2>4. CursorState'
    BY <2>2, <2>3 DEF CursorState
  <2>5. AnswerState' /\ OwedState'
    BY <2>1, <2>2, TextsShown DEF AnswerState, OwedState, NothingTakenBack
  <2>. QED
    BY <2>2, <2>4, <2>5 DEF LoopState
<1>3. CASE fiber_out' = "$" /\ UNCHANGED output /\ Stay /\ Makes("$")
  <2>1. output' \in Texts /\ fiber_out' \in SlotTexts /\ "$" \in Texts
    BY <1>3 DEF ConsoleInv, Types, Texts, SlotTexts
  <2>2. /\ CursorState /\ OwedState /\ ~Between /\ Between'
        /\ UNCHANGED <<curr_cmd, typing, render_y>>
        /\ Types' /\ ChannelState' /\ PassState'
        /\ over' => refresh'
        /\ answered' = answered
    BY <1>3, <2>1, LastCallKeeps
  <2>3. cursor_y' = cursor_y
    BY <1>3, <2>2, CursorMoves DEF CursorState
  <2>4. CursorState'
    BY <1>1, <2>2, <2>3 DEF CursorState
  <2>5. AnswerState' /\ OwedState'
    BY <1>3, <2>2, TextsShown DEF AnswerState, OwedState, NothingTakenBack
  <2>. QED
    BY <2>2, <2>4, <2>5 DEF LoopState
<1>. QED
  BY <1>2, <1>3

LEMMA RefusalKeeps ==
    ASSUME ConsoleInv, LastCall, SchedRefuses,
           fiber_out' = IF curr_cmd.arg = BadArg THEN "$" ELSE "error",
           Down, Makes(fiber_out'), UNCHANGED output
    PROVE  Types' /\ ChannelState' /\ LoopState'
<1> USE BottomAssumption
<1> DEFINE text == fiber_out'
<1>1. text \in {"$", "error"} /\ text \in Texts \cup SlotTexts /\ text \in SlotTexts
      /\ Makes(text) /\ output' \in Texts
  BY DEF ConsoleInv, Types, Texts, SlotTexts
<1> HIDE DEF text
<1>2. /\ LineState /\ AnswerState /\ CursorState /\ OwedState /\ ~Between /\ Between'
      /\ Unserved <=> enter /\ curr_cmd.name \notin {"echo", "nprc", "nprf"}
      /\ Unserved' <=> Pending'
      /\ UNCHANGED <<curr_cmd, typing, render_y>>
      /\ Types' /\ ChannelState' /\ PassState'
      /\ over' => refresh'
      /\ answered' = IF text = "$" THEN answered ELSE text
  <2>1. fiber_out' \in SlotTexts
    BY <1>1 DEF text
  <2>. QED
    BY <1>1, <2>1, LastCallKeeps
<1>3. /\ enter /\ curr_cmd.name \in {"nprs", "nops"} /\ shell_state' = "initial"
  BY DEF SchedRefuses, Spawns, Asks
<1>4. Unserved /\ ~Unserved' /\ shell_state # "initial"
  <2>1. Unserved /\ ~Unserved'
    BY <1>2, <1>3 DEF Pending
  <2>. QED
    BY <1>2, <1>3, <2>1 DEF LineState, Between
<1>5. /\ cursor_y' = cursor_y + 1 /\ cursor_y \in 0 .. Bottom + 2
      /\ typing => cursor_y <= Bottom
  <2>1. cursor_y' = cursor_y + 1
    BY <1>2, CursorMoves DEF CursorState
  <2>. QED
    BY <1>2, <1>3, <1>4, <2>1 DEF CursorState
<1>6. CursorState'
  BY <1>2, <1>3, <1>4, <1>5 DEF CursorState
<1>7. output = "$" /\ output' = "$"
  BY <1>2, <1>4 DEF AnswerState
<1>8. AnswerState'
  BY <1>2, <1>7, TextsShown DEF AnswerState
<1>9. OwedState'
  <2>1. answered = "none"
    BY <1>2, <1>7 DEF OwedState, ConsoleInv, Types, PageTypes, AnswerNames
  <2>. QED
    BY <1>2, <2>1 DEF OwedState, NothingTakenBack, text
<1>. QED
  BY <1>2, <1>6, <1>8, <1>9 DEF LoopState

LEMMA SchedulerCallKeeps ==
    ASSUME ConsoleInv, StepScheduler, UNCHANGED channelVars
    PROVE  Types' /\ ChannelState' /\ LoopState'
<1>1. LastCall
  BY DEF StepScheduler, SchedIdle, SchedIgnores, SchedRefuses, SchedContinues,
         SchedSpawns, LastCall, lineVars
<1>2. CASE /\ SchedIdle
           /\ output' = IF AtRest THEN "$" ELSE output
           /\ Stay /\ Makes("$") /\ UNCHANGED fiber_out
  BY <1>1, <1>2, LastCallPasses DEF SchedIdle
<1>3. CASE SchedIgnores /\ Same
  BY <1>1, <1>3, LastCallPasses DEF SchedIgnores, Same, textVars
<1>4. CASE /\ SchedRefuses
           /\ fiber_out' = IF curr_cmd.arg = BadArg THEN "$" ELSE "error"
           /\ Down /\ Makes(fiber_out') /\ UNCHANGED output
  BY <1>1, <1>4, RefusalKeeps
<1>5. CASE SchedContinues /\ IF done'[fiber_index'] THEN SlotAnswers ELSE Same
  <2>1. ~enter'
    BY <1>5 DEF SchedContinues
  <2>2. fiber_out = "$"
    BY <1>1 DEF ConsoleInv, LoopState, AnswerState, LastCall, Between
  <2>3. Same => fiber_out' = "$" /\ UNCHANGED output /\ Stay /\ Makes("$")
    BY <2>2 DEF Same, textVars
  <2>. QED
    BY <1>1, <1>5, <2>1, <2>3, LastCallRuns
<1>6. ASSUME NEW kind \in {"npr", "nop"}, NEW new \in Slots, SchedSpawns(kind, new),
             IF done'[fiber_index'] THEN SlotAnswers
             ELSE fiber_out' = "$" /\ UNCHANGED output /\ Stay /\ Makes("$")
      PROVE  Types' /\ ChannelState' /\ LoopState'
  <2>1. ~enter'
    BY <1>6 DEF SchedSpawns
  <2>. QED
    BY <1>1, <1>6, <2>1, LastCallRuns
<1>. QED
  BY <1>2, <1>3, <1>4, <1>5, <1>6 DEF StepScheduler

-----------------------------------------------------------------------------
(***************************************************************************)
(* The theorems                                                            *)
(***************************************************************************)

LEMMA ConsoleInitInv == ConsoleInit => ConsoleInv
<1> SUFFICES ASSUME ConsoleInit PROVE ConsoleInv
  OBVIOUS
<1> USE BottomAssumption, SizeAssumption
<1>1. Inv /\ LineState
  BY InitInv, InitLine DEF ConsoleInit
<1>2. /\ pc = "shell" /\ ~enter /\ ~typing
      /\ computing = FALSE /\ cursor_y = 0
      /\ output = "$" /\ fiber_out = "$" /\ refresh = FALSE /\ render_y = 0
      /\ unread = <<>> /\ read = 0 /\ screen = "old"
      /\ answered = "none" /\ over = FALSE
  BY DEF ConsoleInit, Init
<1>3. Types
  BY <1>2 DEF Types, PageTypes, AnswerNames, Texts, SlotTexts, Frames
<1>4. ChannelState
  BY <1>2 DEF ChannelState
<1>5. AnswerState /\ OwedState /\ PassState
  BY <1>2, TextsShown DEF AnswerState, Between, OwedState, NothingTakenBack, PassState
<1>6. CursorState
  BY <1>2 DEF CursorState, Unserved, Pending
<1>. QED
  BY <1>1, <1>3, <1>4, <1>5, <1>6 DEF ConsoleInv, LoopState

LEMMA ConsoleNextKeeps == ConsoleInv /\ [ConsoleNext]_consoleVars => ConsoleInv'
<1> SUFFICES ASSUME ConsoleInv, [ConsoleNext]_consoleVars PROVE ConsoleInv'
  OBVIOUS
<1>1. CASE UNCHANGED consoleVars
  <2>1. UNCHANGED vars /\ UNCHANGED <<computing, pageVars, channelVars>>
    BY <1>1 DEF consoleVars
  <2>2. Inv' /\ LineState'
    BY <2>1, NextKeepsInv, NextKeepsLine DEF ConsoleInv
  <2>3. Types' /\ ChannelState'
    BY <2>1 DEF ConsoleInv, Types, PageTypes, ChannelState, pageVars, textVars, channelVars
  <2>. QED
    BY <2>1, <2>2, <2>3, LoopUntouched DEF ConsoleInv, channelVars
<1>2. CASE ConsoleNext
  <2>1. Inv' /\ LineState'
    BY <1>2, StepsOfScheduler, NextKeepsInv, NextKeepsLine DEF ConsoleInv
  <2>2. CASE Computes
    <3>1. computing /\ UNCHANGED channelVars
      BY <2>2 DEF Computes
    <3>2. CASE /\ Step \/ StepHangs \/ StepCoroutine \/ StepFiber
               /\ UNCHANGED computing
      BY <2>1, <3>1, <3>2, StepKeeps, HangKeeps, CoroutineCallKeeps, FiberCallKeeps
      DEF ConsoleInv
    <3>3. CASE StepScheduler
      BY <2>1, <3>1, <3>3, SchedulerCallKeeps DEF ConsoleInv
    <3>. QED
      BY <2>2, <3>2, <3>3 DEF Computes
  <2>3. CASE ~Computes
    BY <1>2, <2>1, <2>3, PressKeeps, ShowKeeps, RenderKeeps
    DEF ConsoleNext, Core0, ConsoleInv
  <2>. QED
    BY <2>2, <2>3
<1>. QED
  BY <1>1, <1>2

\* The start state and every step of the loop, of a key and of core 1 keep the
\* invariant.
THEOREM ConsoleInvHolds == ConsoleSpec => []ConsoleInv
BY ConsoleInitInv, ConsoleNextKeeps, PTL DEF ConsoleSpec

\* The cursor leaves the page by no more than the lines that are still owed, the
\* channel never holds more frames than its size, and every variable its type.
THEOREM ConsoleTypeCorrect == ConsoleSpec => []ConsoleTypeOK
<1>1. ConsoleInv => ConsoleTypeOK
  BY DEF ConsoleInv, Inv, Types, PageTypes, AnswerNames, ChannelState, LoopState,
         CursorState, ConsoleTypeOK
<1>. QED
  BY <1>1, ConsoleInvHolds, PTL

\* No answer is drawn below the display or over the other, however keys overtake
\* answers and however the four calls share the cursor.
THEOREM AnswersOnScreen == ConsoleSpec => []OnScreen
<1>1. ConsoleInv => OnScreen
  <2> SUFFICES ASSUME ConsoleInv PROVE OnScreen
    OBVIOUS
  <2>1. cursor_y \in 0 .. Bottom + 3 /\ render_y \in 0 .. Bottom + 3
        /\ ~(Shown(output) /\ Shown(fiber_out))
    BY DEF ConsoleInv, LoopState, CursorState, AnswerState
  <2>2. FrameY \in 0 .. Bottom + 3
    BY <2>1 DEF FrameY
  <2>. QED
    BY <2>1, <2>2, BottomAssumption, RowsAssumption DEF OnScreen, RowOf
<1>. QED
  BY <1>1, ConsoleInvHolds, PTL

\* Of a pass's answers the last is the one that the next frame shows, and a page
\* that was started over is cleared: the calls after it leave its text alone, for
\* done_old or a shell not at rest keeps their early returns from it.  What the
\* theorem leaves out is what a later answer of the same pass replaces, and what
\* a coroutine or plain fiber that goes on with the shell at rest gives away.
THEOREM AnswersStay == ConsoleSpec => []NothingTakenBack
<1>1. ConsoleInv => NothingTakenBack
  BY DEF ConsoleInv, LoopState, OwedState
<1>. QED
  BY <1>1, ConsoleInvHolds, PTL

\* The loop that also drives the display takes no step that module Scheduler
\* does not have, so what holds there of the slots holds of it.
THEOREM LoopIsScheduler == ConsoleSpec => Init /\ [][Next]_vars
<1>1. ConsoleInit => Init
  BY DEF ConsoleInit
<1>2. [ConsoleNext]_consoleVars => [Next]_vars
  BY StepsOfScheduler DEF consoleVars
<1>. QED
  BY <1>1, <1>2, PTL DEF ConsoleSpec

\* With the display too the unbounded search ends, the counters account for the
\* slots, no live slot waits longer than a round and no line is served twice.
THEOREM SlotsBesideDisplay ==
    ConsoleSpec => [](NoEndlessSearch /\ CountsSum /\ BoundedWait /\ CommandOnce)
<1>1. ConsoleInv => NoEndlessSearch /\ CountsSum /\ BoundedWait /\ CommandOnce
  BY WaitIsBounded DEF ConsoleInv, Inv, LineState
<1>. QED
  BY <1>1, ConsoleInvHolds, PTL
==============================================================================
