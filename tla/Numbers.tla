------------------------------ MODULE Numbers ------------------------------
(***************************************************************************)
(* The functions that the shell computes, and their way to and from text.  *)
(* int and long have Width bits and wrap.  A number's text is the sequence *)
(* of what is added to '0' for each of its characters, without the blanks  *)
(* that fill the buffer up to 64.                                          *)
(***************************************************************************)
EXTENDS Integers, Sequences

CONSTANT Width  \* 32 in the code

ASSUME WidthAssumption == Width \in Nat \ {0}

Wrapped(n) == ((n + 2 ^ (Width - 1)) % 2 ^ Width) - 2 ^ (Width - 1)

factorial == [num \in Nat |->
    LET ans[i \in Nat] == IF i < 2 THEN 1 ELSE Wrapped(ans[i - 1] * i)
    IN ans[num]]

\* num1, num2 and num3 of the loop; fib 0 is what num3 starts with.
fibonacci == [num \in Nat |->
    LET loop[i \in Nat] ==
            IF i < 3 THEN <<1, 1, IF num = 0 THEN 0 ELSE 1>>
            ELSE LET before == loop[i - 1]
                     sum == Wrapped(before[1] + before[2])
                 IN <<before[2], sum, sum>>
    IN loop[num][3]]

\* The inner loop of every search: no divisor up to half of it.
Flag(prime) == \A i \in 2 .. prime \div 2 : prime % i # 0

\* Counts up to num, which must not be 0: the loop tests for equality only, and
\* after it has counted a prime.
nthPrime == [num \in Nat \ {0} |->
    LET search[at \in Nat \X Nat] ==
            LET count == at[2] + (IF Flag(at[1]) THEN 1 ELSE 0)
            IN IF count = num THEN at[1] ELSE search[<<at[1] + 1, count>>]
    IN search[<<2, 0>>]]

\* One resumption of npr_step finds the next prime, which is its *pret.
NextPrime == [p \in Nat |->
    LET from[q \in Nat] == IF Flag(q) THEN q ELSE from[q + 1] IN from[p]]
Found(local) == NextPrime[local.prime]

\* It counts it, and as the last of them the prime ends the search.  Any other
\* one is yielded, with prime past it.  (local is f_t and *pdone, or those of the
\* plain fiber's frame.)
npr_step(local) ==
    LET ends == local.count + 1 = local.steps
    IN [local EXCEPT !.count = @ + 1, !.done = ends,
                     !.prime = IF ends THEN Found(local) ELSE Found(local) + 1]

\* C divides towards zero, and its remainder has the sign of the dividend.
TowardsZero(n) == IF n < 0 THEN -((-n) \div 10) ELSE n \div 10

\* The same in three files: nothing is written for 0.
convert_to_char == LET text[n \in Int] ==
                           IF n = 0 THEN <<>>
                           ELSE Append(text[TowardsZero(n)],
                                       n - 10 * TowardsZero(n))
                   IN text

\* The fiber scheduler's thinks of 0.
co_to_char(n) == IF n = 0 THEN <<0>> ELSE convert_to_char[n]
=============================================================================
