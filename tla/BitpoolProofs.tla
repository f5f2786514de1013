----------------------------- MODULE BitpoolProofs -----------------------------
(*
 * The two-level bitmap of util/bitpool.h is a set of page indices: for every
 * number and width of words, its operations are those of the set, as long as
 * the summary word is right, and they keep it right.
 *)
EXTENDS Bitpool, FiniteSetTheorems, WellFoundedInduction, TLAPS

-----------------------------------------------------------------------------
(* Indices *)

LEMMA PlaceOfIndex ==
    ASSUME NEW i \in Indices
    PROVE  /\ i \div W \in Words /\ i % W \in Bits
           /\ i = (i \div W) * W + (i % W)
<1> USE WordsAssumption
<1> DEFINE q == i \div W
           b == i % W
<1>1. q \in Int /\ b \in 0 .. W - 1 /\ i = q * W + b /\ i \in 0 .. N * W - 1
  BY DEF Indices
<1> HIDE DEF q, b
<1>2. q >= 0
  <2>1. SUFFICES ASSUME q <= -1 PROVE FALSE
    BY <1>1
  <2>2. q * W <= (-1) * W
    BY <1>1, <2>1
  <2>. QED
    BY <1>1, <2>2
<1>3. q <= N - 1
  <2>1. SUFFICES ASSUME q >= N PROVE FALSE
    BY <1>1
  <2>2. q * W >= N * W
    BY <1>1, <2>1
  <2>3. N * W \in Int
    OBVIOUS
  <2>. QED
    BY <1>1, <2>2, <2>3
<1>. QED
  BY <1>1, <1>2, <1>3 DEF Words, Bits, q, b

LEMMA IndexOfPlace ==
    ASSUME NEW k \in Words, NEW b \in Bits
    PROVE  /\ k * W + b \in Indices
           /\ (k * W + b) \div W = k /\ (k * W + b) % W = b
<1> USE WordsAssumption DEF Words, Bits
<1> DEFINE i == k * W + b
<1>1. i \in Nat
  OBVIOUS
<1>2. i <= N * W - 1
  <2>1. k * W <= (N - 1) * W
    OBVIOUS
  <2>. QED
    BY <2>1
<1>3. i \div W = k /\ i % W = b
  <2> DEFINE q == i \div W
             m == i % W
  <2>1. q \in Int /\ m \in 0 .. W - 1 /\ i = q * W + m
    BY <1>1
  <2> HIDE DEF q, m
  <2>2. (q - k) * W = b - m
    BY <2>1
  <2>3. CASE q - k >= 1
    BY <2>1, <2>2, <2>3
  <2>4. CASE q - k <= -1
    BY <2>1, <2>2, <2>4
  <2>5. q = k /\ m = b
    BY <2>1, <2>2, <2>3, <2>4
  <2>. QED
    BY <2>5 DEF q, m
<1>. QED
  BY <1>1, <1>2, <1>3 DEF Indices

\* A page is free exactly if the bit at its place is set.
LEMMA PageAtPlace ==
    ASSUME NEW p, NEW k \in Words, NEW b \in Bits
    PROVE  k * W + b \in Pages(p) <=> b \in p.level1[k]
BY IndexOfPlace DEF Pages, Free

\* The least-number principle; BSF finds the lowest bit.
LEMMA LowestBit ==
    ASSUME NEW S \in SUBSET Nat, S # {}
    PROVE  bitfind1(S) \in S /\ \A c \in S : bitfind1(S) <= c
<1> DEFINE below == OpToRel(<, Nat)
<1>0. IsWellFoundedOn(below, Nat)
  BY NatLessThanWellFounded
<1>1. \A m, n \in Nat : m < n => <<m, n>> \in below
  BY DEF OpToRel
<1> HIDE DEF below
<1>2. PICK b \in S : \A c \in S : <<c, b>> \notin below
  BY <1>0, WFMin
<1>3. \A c \in S : b <= c
  <2>1. SUFFICES ASSUME NEW c \in S, c < b PROVE FALSE
    OBVIOUS
  <2>2. b \in Nat /\ c \in Nat
    OBVIOUS
  <2>3. <<c, b>> \in below
    BY <1>1, <2>1, <2>2
  <2>. QED
    BY <1>2, <2>3
<1>. QED
  BY <1>3 DEF bitfind1

-----------------------------------------------------------------------------
(* The operations *)

\* canalloc looks at the summary only; it is right about the pages.
THEOREM CanallocIsNotEmpty ==
    ASSUME NEW p \in Pools, Summary(p)
    PROVE  canalloc(p) <=> Pages(p) # {}
<1>1. ASSUME canalloc(p) PROVE Pages(p) # {}
  <2>1. PICK k \in Words : k \in p.level0
    BY <1>1 DEF canalloc, Pools
  <2>2. PICK b \in Bits : b \in p.level1[k]
    BY <2>1 DEF Summary, Pools
  <2>. QED
    BY <2>2, PageAtPlace
<1>2. ASSUME Pages(p) # {} PROVE canalloc(p)
  <2>1. PICK i \in Indices : Free(p, i)
    BY <1>2 DEF Pages
  <2>2. i \div W \in Words /\ p.level1[i \div W] # {}
    BY <2>1, PlaceOfIndex DEF Free
  <2>. QED
    BY <2>2 DEF canalloc, Summary
<1>. QED
  BY <1>1, <1>2

\* alloc takes the page with the lowest index, and only that.
THEOREM AllocTakesTheLowest ==
    ASSUME NEW p \in Pools, Summary(p), canalloc(p)
    PROVE  /\ index(p) \in Pages(p)
           /\ \A i \in Pages(p) : index(p) <= i
           /\ alloc(p) \in Pools /\ Summary(alloc(p))
           /\ Pages(alloc(p)) = Pages(p) \ {index(p)}
<1> USE WordsAssumption
<1> DEFINE i0 == bitfind1(p.level0)
           i1 == bitfind1(p.level1[i0])
<1>1. i0 \in p.level0 /\ i0 \in Words /\ \A k \in p.level0 : i0 <= k
  <2>1. p.level0 \in SUBSET Nat /\ p.level0 \in SUBSET Words
    BY DEF Pools, Words
  <2>. QED
    BY <2>1, LowestBit DEF canalloc
<1>2. i1 \in p.level1[i0] /\ i1 \in Bits /\ \A b \in p.level1[i0] : i1 <= b
  <2>1. p.level1[i0] \in SUBSET Nat /\ p.level1[i0] \in SUBSET Bits
    BY <1>1 DEF Pools, Bits
  <2>2. p.level1[i0] # {}
    BY <1>1 DEF Summary
  <2>. QED
    BY <2>1, <2>2, LowestBit
<1>3. index(p) = i0 * W + i1
  BY DEF index
<1>4. alloc(p) = [level0 |-> IF p.level1[i0] \ {i1} = {} THEN p.level0 \ {i0}
                             ELSE p.level0,
                  level1 |-> [p.level1 EXCEPT ![i0] = p.level1[i0] \ {i1}]]
  BY DEF alloc
<1> HIDE DEF i0, i1
<1>5. index(p) \in Pages(p)
  BY <1>1, <1>2, <1>3, PageAtPlace
<1>6. \A i \in Pages(p) : index(p) <= i
  <2>1. SUFFICES ASSUME NEW i \in Pages(p) PROVE i0 * W + i1 <= i
    BY <1>3
  <2> DEFINE k == i \div W
             b == i % W
  <2>2. /\ i \in Indices /\ k \in Words /\ b \in Bits /\ i = k * W + b
        /\ b \in p.level1[k]
    BY PlaceOfIndex DEF Pages, Free
  <2>3. k \in p.level0
    BY <2>2 DEF Summary
  <2> HIDE DEF k, b
  <2>4. CASE k = i0
    BY <1>1, <1>2, <2>2, <2>4 DEF Words, Bits
  <2>5. CASE k >= i0 + 1
    <3>1. k * W >= (i0 + 1) * W
      BY <1>1, <2>2, <2>5 DEF Words
    <3>. QED
      BY <1>1, <1>2, <2>2, <3>1 DEF Words, Bits
  <2>. QED
    BY <1>1, <2>2, <2>3, <2>4, <2>5 DEF Words
<1>7. alloc(p) \in Pools
  <2>1. (IF p.level1[i0] \ {i1} = {} THEN p.level0 \ {i0} ELSE p.level0)
           \in SUBSET Words
    BY DEF Pools
  <2>2. [p.level1 EXCEPT ![i0] = p.level1[i0] \ {i1}] \in [Words -> SUBSET Bits]
    BY <1>1 DEF Pools
  <2>. QED
    BY <1>4, <2>1, <2>2 DEF Pools
<1>8. \A k \in Words : alloc(p).level1[k] =
                           IF k = i0 THEN p.level1[i0] \ {i1} ELSE p.level1[k]
  BY <1>1, <1>4 DEF Pools
<1>9. Summary(alloc(p))
  <2>1. SUFFICES ASSUME NEW k \in Words
                PROVE  k \in alloc(p).level0 <=> alloc(p).level1[k] # {}
    BY DEF Summary
  <2>2. alloc(p).level0 = IF p.level1[i0] \ {i1} = {} THEN p.level0 \ {i0}
                          ELSE p.level0
    BY <1>4
  <2>3. k \in p.level0 <=> p.level1[k] # {}
    BY DEF Summary
  <2>. QED
    BY <1>1, <1>8, <2>2, <2>3
<1>10. Pages(alloc(p)) = Pages(p) \ {index(p)}
  <2>1. SUFFICES ASSUME NEW i \in Indices
                PROVE  Free(alloc(p), i) <=> Free(p, i) /\ i # index(p)
    BY DEF Pages
  <2>2. i \div W \in Words /\ i % W \in Bits /\ i = (i \div W) * W + (i % W)
    BY PlaceOfIndex
  <2>3. i = i0 * W + i1 <=> (i \div W) = i0 /\ (i % W) = i1
    BY <1>1, <1>2, <2>2, IndexOfPlace
  <2>. QED
    BY <1>3, <1>8, <2>2, <2>3 DEF Free
<1>. QED
  BY <1>5, <1>6, <1>7, <1>9, <1>10

\* The pages that add_mem was given are in the pool, besides those that were.
THEOREM AddMemAdds ==
    ASSUME NEW p \in Pools, Summary(p), NEW S \in SUBSET Indices
    PROVE  /\ add_mem(p, S) \in Pools /\ Summary(add_mem(p, S))
           /\ Pages(add_mem(p, S)) = Pages(p) \cup S
<1> DEFINE q == add_mem(p, S)
           At(k) == {i % W : i \in {j \in S : j \div W = k}}
<1>1. /\ q.level0 = p.level0 \cup {i \div W : i \in S}
      /\ q.level1 = [k \in Words |-> p.level1[k] \cup At(k)]
  BY DEF add_mem
<1>2. \A i \in S : i \div W \in Words /\ i % W \in Bits
  BY PlaceOfIndex
<1>3. q \in Pools
  <2>1. q = [level0 |-> q.level0, level1 |-> q.level1]
    BY DEF add_mem
  <2>2. q.level0 \in SUBSET Words
    BY <1>1, <1>2 DEF Pools
  <2>3. q.level1 \in [Words -> SUBSET Bits]
    BY <1>1, <1>2 DEF Pools
  <2> HIDE DEF q
  <2>. QED
    BY <2>1, <2>2, <2>3 DEF Pools
<1> HIDE DEF q
<1>4. Summary(q)
  <2>1. SUFFICES ASSUME NEW k \in Words
                PROVE  k \in q.level0 <=> q.level1[k] # {}
    BY DEF Summary
  <2>2. k \in p.level0 <=> p.level1[k] # {}
    BY DEF Summary
  <2>3. At(k) # {} <=> k \in {i \div W : i \in S}
    OBVIOUS
  <2>. QED
    BY <1>1, <2>2, <2>3
<1>5. Pages(q) = Pages(p) \cup S
  <2>1. SUFFICES ASSUME NEW i \in Indices
                PROVE  Free(q, i) <=> Free(p, i) \/ i \in S
    BY DEF Pages
  <2>2. i \div W \in Words /\ i = (i \div W) * W + (i % W)
    BY PlaceOfIndex
  <2>3. (i % W) \in At(i \div W) <=> i \in S
    <3>1. ASSUME NEW j \in S, j \div W = i \div W, j % W = i % W
          PROVE  j = i
      BY <2>2, <3>1, PlaceOfIndex
    <3>. QED
      BY <3>1
  <2>. QED
    BY <1>1, <2>2, <2>3 DEF Free
<1>. QED
  BY <1>3, <1>4, <1>5 DEF q

\* The pool as it is constructed.
LEMMA EmptyPool == bitpool \in Pools /\ Summary(bitpool) /\ Pages(bitpool) = {}
<1>1. bitpool \in Pools /\ Summary(bitpool)
  BY DEF bitpool, Pools, Summary
<1>2. Pages(bitpool) = {}
  BY PlaceOfIndex DEF bitpool, Pages, Free
<1>. QED
  BY <1>1, <1>2

\* What remaining() counts is finite.
LEMMA PagesAreFinite ==
    ASSUME NEW p
    PROVE  IsFiniteSet(Pages(p)) /\ Cardinality(Pages(p)) \in Nat
<1>1. IsFiniteSet(Indices)
  <2>1. N * W - 1 \in Int
    BY WordsAssumption
  <2>. QED
    BY <2>1, FS_Interval DEF Indices
<1>2. Pages(p) \in SUBSET Indices
  BY DEF Pages
<1>. QED
  BY <1>1, <1>2, FS_Subset, FS_CardinalityType

================================================================================
