-------------------------------- MODULE Bitpool --------------------------------
(*
 * The page allocator (util/bitpool.h): a bitmap of N words of W bits, and a
 * word of one bit for each of them that says whether it has any bit left.
 * Words are sets of bit positions.
 *)
EXTENDS Integers, FiniteSets

CONSTANTS
    N,  \* words, 61 in the code
    W   \* bits of a word, 64

ASSUME WordsAssumption == N \in Nat \ {0} /\ W \in Nat \ {0}

Words   == 0 .. N - 1
Bits    == 0 .. W - 1
Indices == 0 .. N * W - 1

Pools == [level0 : SUBSET Words, level1 : [Words -> SUBSET Bits]]

bitpool == [level0 |-> {}, level1 |-> [i \in Words |-> {}]]

Free(p, i) == (i % W) \in p.level1[i \div W]

\* What the bitmap stands for.
Pages(p) == {i \in Indices : Free(p, i)}

\* The summary is right: it is all that canalloc looks at.
Summary(p) == \A i \in Words : i \in p.level0 <=> p.level1[i] # {}

canalloc(p) == p.level0 # {}

bitfind1(S) == CHOOSE b \in S : \A c \in S : b <= c

\* alloc: the index it returns ...
index(p) ==
    LET i0 == bitfind1(p.level0) IN i0 * W + bitfind1(p.level1[i0])

\* Slip: the summary is left as it was.
allocSlip(p) ==
    LET i0 == bitfind1(p.level0)
        rest == p.level1[i0] \ {bitfind1(p.level1[i0])}
    IN  [p EXCEPT !.level1[i0] = rest]

\* ... and the pool it leaves.
alloc(p) ==
    LET i0 == bitfind1(p.level0)
        rest == p.level1[i0] \ {bitfind1(p.level1[i0])}
    IN  [level0 |-> IF rest = {} THEN p.level0 \ {i0} ELSE p.level0,
         level1 |-> [p.level1 EXCEPT ![i0] = rest]]

\* What free() of an index asserts.
canfree(p, i) == i \in Indices /\ ~Free(p, i)

\* add_mem: free() of each page of S.
add_mem(p, S) ==
    [level0 |-> p.level0 \cup {i \div W : i \in S},
     level1 |-> [k \in Words |->
                    p.level1[k] \cup {i % W : i \in {j \in S : j \div W = k}}]]

remaining(p) == Cardinality(Pages(p))
================================================================================
