------------------------------ MODULE Console ------------------------------
(***************************************************************************)
(* The loop of core 0 with what its calls do to the display, and core 1.   *)
(* A pass takes a key or none, shows the shell (shell_render, and a frame  *)
(* into the channel if there is room) and computes.  Every action of       *)
(* Scheduler is joined here by what the same code does to the cursor and   *)
(* to the two texts of the answer.                                         *)
(*                                                                         *)
(* output and fiber_out are pointers: to "$" (nothing to show), to the     *)
(* text of whoever answers or refuses, or to one that starts with a blank, *)
(* which is not drawn.                                                     *)
(* The channel is the FIFO that module Channel implements; of a frame only *)
(* counts whether it was made since the last key.                          *)
(***************************************************************************)
EXTENDS Scheduler, Sequences

CONSTANTS
    Bottom,   \* the last line before the page is started over, 19
    Rows,     \* of the display, 25
    Size      \* channel0_size, 4

ASSUME BottomAssumption == Bottom \in Nat
ASSUME RowsAssumption == Rows = Bottom + 6
ASSUME SizeAssumption == Size \in Nat \ {0}

VARIABLES
    computing,    \* the pass is past norender
    cursor_y,
    output, fiber_out,
    refresh,      \* pnt_buf > 0
    render_y,     \* rendertmp.cursor_y + 1
    unread, read, \* frames in the channel, and slots read but not freed
    screen,       \* the frame on the display
    answered,     \* history: the text of the pass's last answer
    over          \* history: the pass has started the page over

textVars    == <<output, fiber_out>>
pageVars    == <<cursor_y, textVars, refresh, answered, over>>
channelVars == <<render_y, unread, read, screen>>
consoleVars == <<vars, computing, pageVars, channelVars>>

Texts  == {"$", "blank", "shell", "echo", "coroutine", "fiber", "error"}
SlotTexts == {"$", "slot", "error"}
Frames == {"old", "current"}

ConsoleTypeOK ==
    /\ TypeOK
    /\ computing \in BOOLEAN
    /\ cursor_y \in 0 .. Bottom + 3
    /\ output \in Texts /\ fiber_out \in SlotTexts
    /\ refresh \in BOOLEAN
    /\ render_y \in 0 .. Bottom + 3
    /\ unread \in Seq(Frames) /\ read \in 0 .. Size
    /\ Len(unread) + read <= Size
    /\ screen \in Frames
    /\ answered \in (Texts \cup SlotTexts \cup {"none"}) \ {"$"}
    /\ over \in BOOLEAN

ConsoleInit ==
    /\ Init
    /\ computing = FALSE
    /\ cursor_y = 0
    /\ output = "$" /\ fiber_out = "$"
    /\ refresh = FALSE
    /\ render_y = 0
    /\ unread = <<>> /\ read = 0
    /\ screen = "old"
    /\ answered = "none" /\ over = FALSE

Shown(text) == text \notin {"$", "blank"}

(***************************************************************************)
(* A key                                                                   *)
(***************************************************************************)

\* The first key of a line starts the page over behind the last line.
Refreshes == ~Owned /\ ~typing /\ cursor_y > Bottom

Press ==
    /\ ~computing
    /\ LET top == IF Refreshes THEN 0 ELSE cursor_y
       IN \/ (KeyDropped \/ KeyTyped) /\ cursor_y' = top
          \/ EnterTyped /\ cursor_y' = top + 1
    /\ output' = "$" /\ fiber_out' = "$"
    /\ refresh' = Refreshes
    /\ answered' = "none"
    /\ over' = Refreshes
    /\ unread' = [i \in DOMAIN unread |-> "old"]
    /\ screen' = "old"
    /\ UNCHANGED <<computing, render_y, read>>

(***************************************************************************)
(* The display                                                             *)
(***************************************************************************)

\* Rows of the frame that shell_render makes now, and what is drawn there.
RowOf(y) == y - 1 + 3
FrameY == IF Owned THEN render_y ELSE cursor_y

\* Slip: a full channel skips the read counter too.
ShowSlip ==
    /\ ~computing
    /\ render_y' = FrameY
    /\ IF Len(unread) + read < Size
         THEN /\ unread' = Append(unread, "current")
              /\ read' = IF read > 0 THEN read - 1 ELSE 0
         ELSE UNCHANGED <<unread, read>>
    /\ computing' = TRUE
    /\ answered' = "none" /\ over' = FALSE
    /\ UNCHANGED <<vars, cursor_y, textVars, refresh, screen>>

\* No key, or a break code: shell_render, a frame if there is room (render_eq
\* compares addresses and finds every frame new), and one slot back from those
\* that core 1 has read.  A key that came meanwhile ends a pass that freed one.
Show ==
    /\ ~computing
    /\ render_y' = FrameY
    /\ unread' = IF Len(unread) + read < Size THEN Append(unread, "current")
                                              ELSE unread
    /\ IF read > 0 THEN read' = read - 1 /\ computing' \in BOOLEAN
                   ELSE read' = read /\ computing' = TRUE
    /\ answered' = "none" /\ over' = FALSE
    /\ UNCHANGED <<vars, cursor_y, textVars, refresh, screen>>

\* Core 1.
Render ==
    /\ unread # <<>>
    /\ screen' = Head(unread)
    /\ unread' = Tail(unread)
    /\ read' = read + 1
    /\ UNCHANGED <<vars, computing, pageVars, render_y>>

(***************************************************************************)
(* Computing                                                               *)
(***************************************************************************)

\* One line down; the calls that run something start the page over, those that
\* answer or refuse at once leave that to the next key.
Down == cursor_y' = cursor_y + 1 /\ UNCHANGED refresh

\* Slip: the calls that run something leave it to the next key too.
DownAndOverSlip == cursor_y' = cursor_y + 1 /\ UNCHANGED refresh

DownAndOver ==
    /\ cursor_y' = IF cursor_y + 1 > Bottom THEN 0 ELSE cursor_y + 1
    /\ refresh' = (refresh \/ cursor_y + 1 > Bottom)

Stay == UNCHANGED <<cursor_y, refresh>>

\* What is remembered of a call that makes text its answer, or makes none.
Makes(text) ==
    /\ answered' = IF text = "$" THEN answered ELSE text
    /\ over' = (over \/ cursor_y' < cursor_y)

AnswerTexts ==
    IF ~Pending THEN {"$"} ELSE
    CASE curr_cmd.name = "npr"              -> {"shell"}
      [] curr_cmd.name \in {"fac", "fib"}   -> {"shell", "blank"}   \* nothing for 0
      [] curr_cmd.name = "echo"             -> {"echo", "blank"}
      [] curr_cmd.name = "partial"          -> {"$", "blank", "error"}
      [] OTHER                              -> {"$"}

StepHangs ==
    /\ Hang
    /\ UNCHANGED pageVars

Serves == Pending /\ curr_cmd.name \in Functions \cup {"echo", "partial"}

Step ==
    /\ ShellStep
    /\ output' \in AnswerTexts
    /\ fiber_out' = "$"
    /\ IF Serves THEN Down ELSE Stay
    /\ Makes(output')

\* What shell_step_coroutine and shell_step_fiber do here, and where.
Silent       == output' = "$" /\ fiber_out' = "$" /\ Stay /\ Makes("$")
Same         == UNCHANGED textVars /\ Stay /\ Makes("$")
Answer(text) == output' = text /\ fiber_out' = "$" /\ DownAndOver /\ Makes(text)
Refuse       == output' = "error" /\ fiber_out' = "$" /\ Down /\ Makes("error")

\* One that goes on has cleared done_old.  With the shell at rest the next call
\* takes back what another has answered in this pass, and it is forgotten here.
GoesOn ==
    /\ UNCHANGED textVars /\ Stay /\ UNCHANGED over
    /\ answered' = IF AtRest' THEN "none" ELSE answered

StepCoroutine ==
    \/ StartCoroutine /\ IF coroutine_running' THEN Silent ELSE Answer("coroutine")
    \/ RefuseCoroutine /\ Refuse
    \/ ContinueCoroutine /\ IF coroutine_running' THEN GoesOn ELSE Answer("coroutine")
    \/ SkipCoroutine /\ IF AtRest THEN Silent ELSE Same

StepFiber ==
    \/ StartFiber /\ IF fiber_running' THEN Silent ELSE Answer("fiber")
    \/ RefuseFiber /\ Refuse
    \/ ContinueFiber /\ IF fiber_running' THEN GoesOn ELSE Answer("fiber")
    \/ SkipFiber /\ IF AtRest THEN Silent ELSE Same

\* Slip: output keeps what shell_step made of it.
SlotAnswersSlip ==
    /\ UNCHANGED output /\ fiber_out' = "slot"
    /\ DownAndOver
    /\ Makes("slot")

\* The answer of a slot that its turn has finished.
SlotAnswers ==
    /\ output' = "$" /\ fiber_out' = "slot"
    /\ DownAndOver
    /\ Makes("slot")

StepScheduler ==
    /\ \/ /\ SchedIdle
          /\ output' = IF AtRest THEN "$" ELSE output
          /\ Stay /\ Makes("$") /\ UNCHANGED fiber_out
       \/ SchedIgnores /\ Same
       \/ /\ SchedRefuses   \* the text about a bad argument is taken back at once
          /\ fiber_out' = IF curr_cmd.arg = BadArg THEN "$" ELSE "error"
          /\ Down /\ Makes(fiber_out') /\ UNCHANGED output
       \/ /\ SchedContinues
          /\ IF done'[fiber_index'] THEN SlotAnswers ELSE Same
       \/ /\ \E kind \in {"npr", "nop"}, new \in Slots : SchedSpawns(kind, new)
          /\ IF done'[fiber_index'] THEN SlotAnswers
             ELSE fiber_out' = "$" /\ UNCHANGED output /\ Stay /\ Makes("$")
    /\ computing' = FALSE

Computes ==
    /\ computing
    /\ \/ (Step \/ StepHangs \/ StepCoroutine \/ StepFiber) /\ UNCHANGED computing
       \/ StepScheduler
    /\ UNCHANGED channelVars

(***************************************************************************)
(* Specification                                                           *)
(***************************************************************************)

Core0 == Show \/ Computes

ConsoleNext == Press \/ Core0 \/ Render

\* Both cores loop for ever; keys come or do not come.
ConsoleSpec == /\ ConsoleInit /\ [][ConsoleNext]_consoleVars
               /\ WF_consoleVars(Core0) /\ WF_consoleVars(Render)

(***************************************************************************)
(* Properties                                                              *)
(***************************************************************************)

\* Every answer is drawn on the display, though a refusal never starts the page
\* over, and the prompt at most one row below it: that far it comes when a key
\* overtakes the answer to the line before, so that the line it starts is behind
\* the last one.  There is one answer at most: a second would be drawn below the
\* first (shell.cc:556).
OnScreen ==
    /\ Shown(output) \/ Shown(fiber_out) => RowOf(FrameY) \in 1 .. Rows - 1
    /\ cursor_y + 3 <= Rows
    /\ ~(Shown(output) /\ Shown(fiber_out))

\* Of the answers that a pass makes, the next frame shows the last one, though
\* every call after it writes the two texts: an early return writes "$" over an
\* answer unless done_old holds it back.  (An earlier one of the same pass is
\* replaced, a slot's takes the place of any other; and one that GoesOn forgets is
\* lost.)  A page that was started over is cleared.
NothingTakenBack ==
    /\ answered # "none" => answered \in {output, fiber_out}
    /\ over => refresh

\* When no key comes any more the display shows the last one: frames are dropped
\* while the channel is full, but the loop makes another.  Only npr 0 stops it.
CatchesUp ==
    \/ []<>(screen = "current")
    \/ []<><<Press>>_consoleVars
    \/ <>(pc = "hung")
=============================================================================
