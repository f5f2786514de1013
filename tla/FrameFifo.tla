----------------------------- MODULE FrameFifo -----------------------------
(***************************************************************************)
(* What the display channel promises: frames are drawn in the order they   *)
(* were published, each once and whole, and none is left undrawn.          *)
(***************************************************************************)
EXTENDS Naturals, Sequences

CONSTANTS Frames, Blank, Size

VARIABLES queue, screen

fifoVars == <<queue, screen>>

Init == queue = <<>> /\ screen = Blank

Publish(f) == /\ Len(queue) < Size
              /\ queue' = Append(queue, f)
              /\ UNCHANGED screen

Draw == /\ queue # <<>>
        /\ screen' = Head(queue)
        /\ queue' = Tail(queue)

Next == Draw \/ \E f \in Frames : Publish(f)

Spec == Init /\ [][Next]_fifoVars /\ WF_fifoVars(Draw)
=============================================================================
