------------------------------ MODULE Answers ------------------------------
(***************************************************************************)
(* The calls of module Scheduler with the numbers they compute and write:  *)
(* those of the functions at once, those of the coroutine and of the plain *)
(* fiber prime by prime, with the two in turns on one answer_old.  A slot  *)
(* counts in one step here (it yields or is preempted anywhere, and keeps  *)
(* its stack: module Preempt).                                             *)
(***************************************************************************)
EXTENDS Scheduler, Numbers, SequencesExt

VARIABLES
    f_locals,    \* the coroutine's
    frame,       \* the locals on the plain fiber's stack
    answer_old,  \* what either has found last
    told,        \* history: what the command of each said
    written      \* history: the answer written last, and the command it is to

searchVars == <<f_locals, frame, answer_old, told>>
answerVars == <<searchVars, written>>

Nothing == [name |-> "none", arg |-> 0, text |-> <<>>]
Unused == [steps |-> 0, count |-> 0, prime |-> 2, done |-> TRUE]
Begun(arg) == [steps |-> arg, count |-> 0, prime |-> 2, done |-> FALSE]

AnswersInit ==
    /\ Init
    /\ f_locals = Unused /\ frame = Unused
    /\ answer_old = 0
    /\ told = [nprc |-> 0, nprf |-> 0]
    /\ written = Nothing

Writes(name, arg, text) == written' = [name |-> name, arg |-> arg, text |-> text]

Press == Key /\ written' = Nothing /\ UNCHANGED searchVars

(***************************************************************************)
(* The functions                                                           *)
(***************************************************************************)

\* Slip: func_id 1 and 2 are exchanged.
ResultSlip(name, arg) ==
    CASE name = "fib" -> factorial[arg]
      [] name = "fac" -> fibonacci[arg]
      [] name = "npr" -> nthPrime[arg]

Result(name, arg) ==
    CASE name = "fib" -> fibonacci[arg]
      [] name = "fac" -> factorial[arg]
      [] name = "npr" -> nthPrime[arg]

Evaluate ==
    \/ /\ ShellStep
       /\ IF Pending /\ curr_cmd.name \in Functions
            THEN Writes(curr_cmd.name, curr_cmd.arg,
                        convert_to_char[Result(curr_cmd.name, curr_cmd.arg)])
            ELSE UNCHANGED written
       /\ UNCHANGED searchVars
    \/ Hang /\ UNCHANGED answerVars

(***************************************************************************)
(* The coroutine and the plain fiber                                       *)
(***************************************************************************)

\* What its call writes when the search is over.
Concludes(name, over) ==
    IF over THEN Writes(name, told'[name], convert_to_char[answer_old'])
            ELSE UNCHANGED written

ResumeCoroutine(local) ==
    /\ f_locals' = npr_step(local)
    /\ answer_old' = Found(local)
    /\ Concludes("nprc", f_locals'.done)
    /\ UNCHANGED frame

ResumeFiber(local) ==
    /\ frame' = npr_step(local)
    /\ answer_old' = Found(local)
    /\ Concludes("nprf", frame'.done)
    /\ UNCHANGED f_locals

Search ==
    \/ /\ StartCoroutine
       /\ told' = [told EXCEPT !.nprc = curr_cmd.arg]
       /\ ResumeCoroutine(Begun(curr_cmd.arg))
    \/ ContinueCoroutine /\ UNCHANGED told /\ ResumeCoroutine(f_locals)
    \/ /\ StartFiber
       /\ told' = [told EXCEPT !.nprf = curr_cmd.arg]
       /\ ResumeFiber(Begun(curr_cmd.arg))
    \/ ContinueFiber /\ UNCHANGED told /\ ResumeFiber(frame)
    \/ /\ RefuseCoroutine \/ SkipCoroutine \/ RefuseFiber \/ SkipFiber
       /\ UNCHANGED answerVars

(***************************************************************************)
(* The slots                                                               *)
(***************************************************************************)

\* What npr_fiber and nop_fiber leave in answer[i].
SlotResult(kind, arg) == IF kind = "npr" THEN nthPrime[arg] ELSE nthPrime[arg] % 6

\* The number the slot counts to: its stack's, or the caller's if it starts here.
StepsOf(i, arg) == IF done[i] \/ steps[i] = Unread THEN arg ELSE steps[i]

\* The slot of this turn has finished; its answer is to the number it has read.
Turn(arg) ==
    IF done'[fiber_index']
      THEN LET i    == fiber_index'
               kind == func_type'[i]
               read == StepsOf(i, arg)
           IN Writes(kind, read, co_to_char(SlotResult(kind, read)))
      ELSE UNCHANGED written

Schedule ==
    /\ \/ SchedContinues /\ Turn(0)
       \/ /\ \E kind \in {"npr", "nop"}, new \in Slots : SchedSpawns(kind, new)
          /\ Turn(curr_cmd.arg)
       \/ (SchedIdle \/ SchedIgnores \/ SchedRefuses) /\ UNCHANGED written
    /\ UNCHANGED searchVars

(***************************************************************************)
(* Specification                                                           *)
(***************************************************************************)

AnswersNext == Press \/ Evaluate \/ Search \/ Schedule

AnswersSpec == AnswersInit /\ [][AnswersNext]_<<vars, answerVars>>

(***************************************************************************)
(* What the answers ought to be                                            *)
(***************************************************************************)

Prime(q) == q > 1 /\ \A d \in 2 .. q - 1 : q % d # 0
PrimeAt(n) == CHOOSE p \in 2 .. n * n + 1 :
                 Prime(p) /\ Cardinality({q \in 2 .. p : Prime(q)}) = n

\* Sets without neighbours, which Fibonacci's numbers count.
Sparse(n) == {S \in SUBSET (1 .. n) : \A i \in S : i + 1 \notin S}

Counts == (Typed \cup Args) \ {0}
Primes == [n \in Counts |-> PrimeAt(n)]
Reference ==
    [fac  |-> [n \in Typed |-> FoldLeft(LAMBDA p, i : p * i, 1, [i \in 1 .. n |-> i])],
     fib  |-> [n \in Typed |-> IF n = 0 THEN 0 ELSE Cardinality(Sparse(n - 2))],
     npr  |-> Primes,
     nprc |-> Primes,
     nprf |-> Primes,
     nop  |-> [n \in Counts |-> Primes[n] % 6]]

\* The decimal digits of n.
IsDecimal(text, n) ==
    /\ text # <<>> /\ text \in Seq(0 .. 9)
    /\ text[1] = 0 => Len(text) = 1
    /\ FoldLeft(LAMBDA m, d : 10 * m + d, 0, text) = n

Fits(n) == n < 2 ^ (Width - 1)

(***************************************************************************)
(* Properties                                                              *)
(***************************************************************************)

\* What a call writes is the answer to the command it is to, whichever searches
\* run beside it, exactly when that is not 0 and an int can hold it: for 0
\* nothing is written (shell.cc:253), and what is too large wraps.  The searches
\* that stop at every prime are over when, and only when, module Scheduler says.
AnswersRight ==
    /\ written # Nothing =>
          LET right == Reference[written.name][written.arg]
          IN IsDecimal(written.text, right) <=> right # 0 /\ Fits(right)
    /\ coroutine_running <=> ~f_locals.done
    /\ fiber_running <=> ~frame.done
=============================================================================
