--------------------------- MODULE AllocatorProofs ---------------------------
(***************************************************************************)
(* Proofs about module Allocator: the free list and the blocks handed out  *)
(* always partition the heap, the list is sorted and coalesced, and the    *)
(* allocator implements module Heap, for every heap size, header size,     *)
(* alignment and set of requests.                                          *)
(***************************************************************************)
EXTENDS Allocator, SequenceTheorems, TLAPS

\* Steps are first-order reasoning unless they name another prover.
USE ZenonT(60)

-----------------------------------------------------------------------------
(* The list operations                                                     *)

\* The first n blocks of a list (the ones a loop of allocator.c walked past).
LEMMA PrefixFacts ==
    ASSUME NEW S, NEW s \in Seq(S), NEW n \in 0 .. Len(s)
    PROVE  /\ SubSeq(s, 1, n) \in Seq(S)
           /\ Len(SubSeq(s, 1, n)) = n
           /\ \A j \in 1 .. n : SubSeq(s, 1, n)[j] = s[j]
<1>1. Len(s) \in Nat /\ \A j \in 1 .. Len(s) : s[j] \in S
  BY LenProperties, ElementOfSeq
<1>2. \A j \in 1 .. n : s[j] \in S
  BY <1>1, SMTT(60)
<1>3. QED
  BY <1>1, <1>2, SubSeqProperties, SMTT(60)

\* The blocks of a list from the m-th on.
LEMMA SuffixFacts ==
    ASSUME NEW S, NEW s \in Seq(S), NEW m \in 1 .. Len(s) + 1
    PROVE  /\ SubSeq(s, m, Len(s)) \in Seq(S)
           /\ Len(SubSeq(s, m, Len(s))) = Len(s) - m + 1
           /\ \A j \in 1 .. Len(s) - m + 1 : SubSeq(s, m, Len(s))[j] = s[m + j - 1]
<1>1. Len(s) \in Nat /\ \A j \in 1 .. Len(s) : s[j] \in S
  BY LenProperties, ElementOfSeq
<1>2. \A j \in m .. Len(s) : s[j] \in S
  BY <1>1, SMTT(60)
<1>3. m \in Int /\ Len(s) \in Int
  BY <1>1, SMTT(60)
<1>4. /\ SubSeq(s, m, Len(s)) \in Seq(S)
      /\ Len(SubSeq(s, m, Len(s))) = IF m <= Len(s) THEN Len(s) - m + 1 ELSE 0
      /\ \A j \in 1 .. Len(s) - m + 1 : SubSeq(s, m, Len(s))[j] = s[m + j - 1]
  BY <1>2, <1>3, SubSeqProperties, SMTT(60)
<1>5. (IF m <= Len(s) THEN Len(s) - m + 1 ELSE 0) = Len(s) - m + 1
  BY <1>1, SMTT(60)
<1>6. QED
  BY <1>4, <1>5

\* What unlinking the i-th block of a list leaves (malloc_internal, the entire
\* block; free_internal, coalescing).
LEMMA UnlinkAtFacts ==
    ASSUME NEW S, NEW s \in Seq(S), NEW i \in 1 .. Len(s)
    PROVE  /\ UnlinkAt(s, i) \in Seq(S)
           /\ Len(UnlinkAt(s, i)) = Len(s) - 1
           /\ \A j \in 1 .. Len(s) - 1 :
                UnlinkAt(s, i)[j] = IF j < i THEN s[j] ELSE s[j + 1]
<1> DEFINE front == SubSeq(s, 1, i - 1)
           back == SubSeq(s, i + 1, Len(s))
<1>1. Len(s) \in Nat /\ i - 1 \in 0 .. Len(s) /\ i + 1 \in 1 .. Len(s) + 1
  BY LenProperties, SMTT(60)
<1>2. /\ front \in Seq(S) /\ Len(front) = i - 1
      /\ \A j \in 1 .. i - 1 : front[j] = s[j]
  BY <1>1, PrefixFacts
<1>3. /\ back \in Seq(S) /\ Len(back) = Len(s) - (i + 1) + 1
      /\ \A j \in 1 .. Len(s) - (i + 1) + 1 : back[j] = s[(i + 1) + j - 1]
  BY <1>1, SuffixFacts
<1>4. UnlinkAt(s, i) = front \o back
  BY DEF UnlinkAt
<1> HIDE DEF front, back
<1>5. /\ front \o back \in Seq(S)
      /\ Len(front \o back) = Len(front) + Len(back)
      /\ \A j \in 1 .. Len(front) + Len(back) : (front \o back)[j] =
           IF j <= Len(front) THEN front[j] ELSE back[j - Len(front)]
  BY <1>2, <1>3, ConcatProperties
<1>6. Len(front) + Len(back) = Len(s) - 1
  BY <1>1, <1>2, <1>3, SMTT(60)
<1>7. ASSUME NEW j \in 1 .. Len(s) - 1
      PROVE  (front \o back)[j] = IF j < i THEN s[j] ELSE s[j + 1]
  <2>1. CASE j < i
    BY <1>1, <1>2, <1>5, <1>6, <2>1, SMTT(60)
  <2>2. CASE ~(j < i)
    <3>1. /\ j - (i - 1) \in 1 .. Len(s) - (i + 1) + 1
          /\ (i + 1) + (j - (i - 1)) - 1 = j + 1
      BY <1>1, <2>2, SMTT(60)
    <3>2. (front \o back)[j] = back[j - (i - 1)]
      BY <1>1, <1>2, <1>5, <1>6, <2>2, SMTT(60)
    <3>3. QED
      BY <1>3, <2>2, <3>1, <3>2
  <2>3. QED
    BY <2>1, <2>2
<1>8. QED
  BY <1>4, <1>5, <1>6, <1>7

\* What linking a block in as the i-th of a list gives (free_internal).
LEMMA LinkAtFacts ==
    ASSUME NEW S, NEW s \in Seq(S), NEW i \in 1 .. Len(s) + 1, NEW e \in S
    PROVE  /\ LinkAt(s, i, e) \in Seq(S)
           /\ Len(LinkAt(s, i, e)) = Len(s) + 1
           /\ \A j \in 1 .. Len(s) + 1 : LinkAt(s, i, e)[j] =
                IF j < i THEN s[j] ELSE IF j = i THEN e ELSE s[j - 1]
<1> DEFINE front == SubSeq(s, 1, i - 1)
           mid == front \o <<e>>
           back == SubSeq(s, i, Len(s))
<1>1. Len(s) \in Nat /\ i - 1 \in 0 .. Len(s)
  BY LenProperties, SMTT(60)
<1>2. /\ front \in Seq(S) /\ Len(front) = i - 1
      /\ \A j \in 1 .. i - 1 : front[j] = s[j]
  BY <1>1, PrefixFacts
<1>3. /\ back \in Seq(S) /\ Len(back) = Len(s) - i + 1
      /\ \A j \in 1 .. Len(s) - i + 1 : back[j] = s[i + j - 1]
  BY <1>1, SuffixFacts
<1>4. LinkAt(s, i, e) = mid \o back
  BY DEF LinkAt
<1> HIDE DEF front, back
<1>5. <<e>> \in Seq(S) /\ Len(<<e>>) = 1 /\ <<e>>[1] = e
  BY SMTT(60)
<1>6. /\ mid \in Seq(S) /\ Len(mid) = Len(front) + Len(<<e>>)
      /\ \A j \in 1 .. Len(front) + Len(<<e>>) : mid[j] =
           IF j <= Len(front) THEN front[j] ELSE <<e>>[j - Len(front)]
  BY <1>2, <1>5, ConcatProperties
<1> HIDE DEF mid
<1>7. mid \in Seq(S) /\ Len(mid) = i
  BY <1>1, <1>2, <1>5, <1>6, SMTT(60)
<1>8. ASSUME NEW j \in 1 .. i
      PROVE  mid[j] = IF j < i THEN s[j] ELSE e
  <2>1. CASE j < i
    BY <1>1, <1>2, <1>5, <1>6, <2>1, SMTT(60)
  <2>2. CASE j = i
    <3>1. j - Len(front) = 1 /\ ~(j <= Len(front)) /\ j \in 1 .. Len(front) + 1
      BY <1>1, <1>2, <2>2, SMTT(60)
    <3>2. mid[j] = <<e>>[j - Len(front)]
      BY <1>5, <1>6, <3>1
    <3>3. QED
      BY <1>5, <2>2, <3>1, <3>2, SMTT(60)
  <2>3. QED
    BY <2>1, <2>2, SMTT(60)
<1>9. /\ mid \o back \in Seq(S)
      /\ Len(mid \o back) = Len(mid) + Len(back)
      /\ \A j \in 1 .. Len(mid) + Len(back) : (mid \o back)[j] =
           IF j <= Len(mid) THEN mid[j] ELSE back[j - Len(mid)]
  BY <1>7, <1>3, ConcatProperties
<1>10. Len(mid) + Len(back) = Len(s) + 1
  BY <1>1, <1>7, <1>3, SMTT(60)
<1>11. ASSUME NEW j \in 1 .. Len(s) + 1
       PROVE  (mid \o back)[j] =
                IF j < i THEN s[j] ELSE IF j = i THEN e ELSE s[j - 1]
  <2>1. CASE j <= i
    BY <1>1, <1>7, <1>8, <1>9, <1>10, <2>1, SMTT(60)
  <2>2. CASE ~(j <= i)
    <3>1. j - i \in 1 .. Len(s) - i + 1 /\ i + (j - i) - 1 = j - 1
      BY <1>1, <2>2, SMTT(60)
    <3>2. (mid \o back)[j] = back[j - i]
      BY <1>1, <1>7, <1>9, <1>10, <2>2
    <3>3. ~(j < i) /\ j # i
      BY <2>2, SMTT(60)
    <3>4. QED
      BY <1>3, <3>1, <3>2, <3>3
  <2>3. QED
    BY <2>1, <2>2
<1>12. QED
  BY <1>4, <1>9, <1>10, <1>11

-----------------------------------------------------------------------------
(* Free lists                                                              *)

\* A list of blocks inside the heap, each longer than a header, sorted by
\* address and disjoint.
ListOK(l) ==
    /\ l \in Seq(Block)
    /\ \A i \in 1 .. Len(l) : End(l[i]) <= HEAP_SIZE /\ l[i].size > HEADER
    /\ \A i, j \in 1 .. Len(l) : i < j => End(l[i]) <= l[j].addr

\* The j-th block touches the next one.
Touch(l, j) == j \in 1 .. Len(l) - 1 /\ End(l[j]) = l[j + 1].addr

Covers(l, x) == \E i \in 1 .. Len(l) : x \in Bytes(l[i])

ApartFrom(l, b) == \A i \in 1 .. Len(l) : Apart(l[i], b)

\* The fields of a block, and where it ends.
LEMMA BlockFacts ==
    ASSUME NEW b \in Block
    PROVE  b.addr \in Nat /\ b.size \in Nat /\ b.size > 0 /\ End(b) = b.addr + b.size
BY AllocatorAssumption, SMTT(60) DEF Block, End

\* The bytes of two blocks that touch are those of the merged block.
LEMMA MergedBytes ==
    ASSUME NEW b \in Block, NEW c \in Block, End(b) = c.addr,
           NEW big, big.addr = b.addr, big.size = b.size + c.size,
           NEW x, x \in Bytes(b) \cup Bytes(c)
    PROVE  x \in Bytes(big)
<1>1. /\ b.addr \in Nat /\ b.size \in Nat /\ End(b) = b.addr + b.size
      /\ c.addr \in Nat /\ c.size \in Nat /\ End(c) = c.addr + c.size
  BY BlockFacts
<1>2. /\ big.addr \in Int /\ End(big) \in Int /\ End(b) \in Int /\ End(c) \in Int
      /\ b.addr \in Int /\ c.addr \in Int
      /\ big.addr <= b.addr /\ End(b) <= End(big)
      /\ big.addr <= c.addr /\ End(c) <= End(big)
  BY <1>1, SMTT(60) DEF End
<1>3. \A p, q, s, t \in Int : x \in p .. s - 1 /\ q <= p /\ s <= t => x \in q .. t - 1
  BY SMTT(60)
<1>4. QED
  BY <1>2, <1>3 DEF Bytes

\* The list after merging its i-th block with the touching successor.
LEMMA MergedList ==
    ASSUME NEW l, ListOK(l), NEW i \in 1 .. Len(l) - 1,
           End(l[i]) = l[i + 1].addr
    PROVE  LET big == [addr |-> l[i].addr, size |-> l[i].size + l[i + 1].size]
           IN  /\ big \in Block
               /\ Coalesce(l, i) \in Seq(Block)
               /\ Len(Coalesce(l, i)) = Len(l) - 1
               /\ \A j \in 1 .. Len(l) - 1 : Coalesce(l, i)[j] =
                    IF j < i THEN l[j] ELSE IF j = i THEN big ELSE l[j + 1]
<1> DEFINE big == [addr |-> l[i].addr, size |-> l[i].size + l[i + 1].size]
           m == [l EXCEPT ![i] = big]
<1>1. Len(l) \in Nat /\ l \in Seq(Block) /\ i \in 1 .. Len(l) /\ i + 1 \in 1 .. Len(l)
  BY LenProperties, SMTT(60) DEF ListOK
<1>2. l[i] \in Block /\ l[i + 1] \in Block
  BY <1>1, ElementOfSeq
<1>3. big \in Block
  <2>1. End(l[i + 1]) <= HEAP_SIZE
    BY <1>1 DEF ListOK
  <2>2. l[i].addr \in 0 .. HEAP_SIZE
    BY <1>2 DEF Block
  <2>3. l[i].size + l[i + 1].size \in 1 .. HEAP_SIZE
    <3>1. /\ l[i].addr \in Nat /\ l[i].size \in Nat /\ l[i].size > 0
          /\ End(l[i]) = l[i].addr + l[i].size
      BY <1>2, BlockFacts
    <3>2. /\ l[i + 1].addr \in Nat /\ l[i + 1].size \in Nat /\ l[i + 1].size > 0
          /\ End(l[i + 1]) = l[i + 1].addr + l[i + 1].size
      BY <1>2, BlockFacts
    <3>3. HEAP_SIZE \in Nat
      BY AllocatorAssumption
    <3>4. \A a, n, c, k \in Nat :
            a + n = c /\ c + k <= HEAP_SIZE /\ n > 0 => n + k \in 1 .. HEAP_SIZE
      BY <3>3, SMTT(60)
    <3>5. /\ l[i].addr + l[i].size = l[i + 1].addr
          /\ l[i + 1].addr + l[i + 1].size <= HEAP_SIZE
      BY <2>1, <3>1, <3>2
    <3>6. QED
      BY <3>1, <3>2, <3>4, <3>5
  <2>4. QED
    BY <2>2, <2>3 DEF Block
<1>4. m \in Seq(Block) /\ Len(m) = Len(l)
      /\ \A j \in 1 .. Len(l) : m[j] = IF j = i THEN big ELSE l[j]
  <2> HIDE DEF big
  <2>1. QED
    BY <1>1, <1>3, ExceptSeq, SMTT(60)
<1>5. [l EXCEPT ![i].size = @ + l[i + 1].size] = m
  <2>1. [l[i] EXCEPT !.size = @ + l[i + 1].size] = big
    BY <1>2, SMTT(60) DEF Block
  <2>2. QED
    BY <2>1
<1>6. Coalesce(l, i) = UnlinkAt(m, i + 1)
  BY <1>5 DEF Coalesce
<1> HIDE DEF m, big
<1>7. /\ UnlinkAt(m, i + 1) \in Seq(Block)
      /\ Len(UnlinkAt(m, i + 1)) = Len(m) - 1
      /\ \A j \in 1 .. Len(m) - 1 :
           UnlinkAt(m, i + 1)[j] = IF j < i + 1 THEN m[j] ELSE m[j + 1]
  BY <1>1, <1>4, UnlinkAtFacts
<1>8. ASSUME NEW j \in 1 .. Len(l) - 1
      PROVE  UnlinkAt(m, i + 1)[j] =
                IF j < i THEN l[j] ELSE IF j = i THEN big ELSE l[j + 1]
  <2>1. j \in 1 .. Len(l) /\ j + 1 \in 1 .. Len(l)
    BY <1>1, SMTT(60)
  <2>2. /\ UnlinkAt(m, i + 1)[j] = IF j < i + 1 THEN m[j] ELSE m[j + 1]
        /\ m[j] = IF j = i THEN big ELSE l[j]
        /\ m[j + 1] = IF j + 1 = i THEN big ELSE l[j + 1]
    BY <1>4, <1>7, <2>1
  <2>3. CASE j < i
    <3>1. j < i + 1 /\ j # i
      BY <1>1, <2>1, <2>3, SMTT(60)
    <3>2. QED
      BY <2>2, <2>3, <3>1
  <2>4. CASE j = i
    <3>1. j < i + 1 /\ ~ (j < i)
      BY <1>1, <2>4, SMTT(60)
    <3>2. QED
      BY <2>2, <2>4, <3>1
  <2>5. CASE j > i
    <3>1. ~ (j < i + 1) /\ ~ (j < i) /\ j # i /\ j + 1 # i
      BY <1>1, <2>1, <2>5, SMTT(60)
    <3>2. QED
      BY <2>2, <3>1
  <2>6. QED
    BY <1>1, <2>3, <2>4, <2>5, SMTT(60)
<1>9. QED
  BY <1>3, <1>4, <1>6, <1>7, <1>8 DEF big

\* Coalescing keeps the list sorted and disjoint, covers the bytes it covered,
\* touches no block it did not touch, and removes the contact at i.
LEMMA CoalesceFacts ==
    ASSUME NEW l, ListOK(l), NEW i \in Nat
    PROVE  LET r == Coalesce(l, i)
           IN  /\ ListOK(r)
               /\ \A x \in Int : Covers(l, x) => Covers(r, x)
               /\ \A b \in Block : ApartFrom(l, b) => ApartFrom(r, b)
               /\ \A j : Touch(r, j) => \/ j # i /\ Touch(l, j)
                                        \/ j >= i /\ Touch(l, j + 1)
<1> DEFINE r == Coalesce(l, i)
<1>1. Len(l) \in Nat /\ l \in Seq(Block) /\ \A j \in 1 .. Len(l) : l[j] \in Block
  BY LenProperties, ElementOfSeq DEF ListOK
<1>2. CASE ~(i \in 1 .. Len(l) - 1 /\ End(l[i]) = l[i + 1].addr)
  <2>1. r = l
    BY <1>2 DEF Coalesce
  <2>2. QED
    BY <1>2, <2>1 DEF Touch
<1>3. CASE i \in 1 .. Len(l) - 1 /\ End(l[i]) = l[i + 1].addr
  <2> DEFINE big == [addr |-> l[i].addr, size |-> l[i].size + l[i + 1].size]
  <2>1. /\ big \in Block
        /\ r \in Seq(Block)
        /\ Len(r) = Len(l) - 1
        /\ \A j \in 1 .. Len(l) - 1 : r[j] =
             IF j < i THEN l[j] ELSE IF j = i THEN big ELSE l[j + 1]
    BY <1>3, MergedList
  <2>2. big.addr = l[i].addr /\ big.size = l[i].size + l[i + 1].size
    OBVIOUS
  <2>3. /\ l[i].addr \in Nat /\ l[i].size \in Nat /\ l[i].size > 0
        /\ l[i + 1].addr \in Nat /\ l[i + 1].size \in Nat /\ l[i + 1].size > 0
    <3>1. i \in 1 .. Len(l) /\ i + 1 \in 1 .. Len(l)
      BY <1>1, <1>3, SMTT(60)
    <3>2. l[i] \in Block /\ l[i + 1] \in Block
      BY <1>1, <3>1
    <3>3. QED
      BY <3>2, BlockFacts
  <2>4. End(big) = End(l[i + 1])
    BY <1>3, <2>2, <2>3, SMTT(60) DEF End
  <2> HIDE DEF r, big
  <2>5. ListOK(r)
    <3>1. ASSUME NEW j \in 1 .. Len(r)
          PROVE  End(r[j]) <= HEAP_SIZE /\ r[j].size > HEADER
      <4>1. /\ j \in 1 .. Len(l) /\ j + 1 \in 1 .. Len(l)
            /\ i \in 1 .. Len(l) /\ i + 1 \in 1 .. Len(l) /\ j \in 1 .. Len(l) - 1
        BY <1>1, <1>3, <2>1, SMTT(60)
      <4>2. CASE j < i
        BY <2>1, <4>1, <4>2 DEF ListOK
      <4>3. CASE j = i
        <5>1. r[j] = big
          BY <2>1, <4>1, <4>3, SMTT(60)
        <5>2. l[i].size > HEADER /\ End(l[i + 1]) <= HEAP_SIZE
          BY <4>1 DEF ListOK
        <5>3. QED
          BY <2>2, <2>3, <2>4, <5>1, <5>2, AllocatorAssumption, SMTT(60)
      <4>4. CASE j > i
        BY <2>1, <4>1, <4>4 DEF ListOK
      <4>5. QED
        BY <4>1, <4>2, <4>3, <4>4, SMTT(60)
    <3>2. ASSUME NEW j \in 1 .. Len(r), NEW k \in 1 .. Len(r), j < k
          PROVE  End(r[j]) <= r[k].addr
      <4>1. j + 1 \in 1 .. Len(l) /\ k + 1 \in 1 .. Len(l)
            /\ j \in 1 .. Len(l) /\ k \in 1 .. Len(l) /\ i \in 1 .. Len(l)
            /\ i + 1 \in 1 .. Len(l)
        BY <1>1, <1>3, <2>1, SMTT(60)
      <4>2. CASE j < i
        <5>1. r[j] = l[j]
          BY <1>1, <2>1, <4>1, <4>2
        <5>2. CASE k < i
          BY <2>1, <3>2, <4>1, <5>1, <5>2 DEF ListOK
        <5>3. CASE k = i
          <6>1. r[k].addr = l[k].addr
            BY <2>1, <2>2, <5>3
          <6>2. QED
            BY <3>2, <4>1, <5>1, <6>1 DEF ListOK
        <5>4. CASE k > i
          <6>1. r[k] = l[k + 1] /\ j < k + 1
            BY <2>1, <3>2, <4>1, <5>4, SMTT(60)
          <6>2. QED
            BY <4>1, <5>1, <6>1 DEF ListOK
        <5>5. QED
          BY <4>1, <5>2, <5>3, <5>4, SMTT(60)
      <4>3. CASE j = i
        <5>1. r[j] = big /\ r[k] = l[k + 1] /\ i + 1 < k + 1
          BY <2>1, <3>2, <4>1, <4>3, SMTT(60)
        <5>2. End(l[i + 1]) <= l[k + 1].addr
          BY <4>1, <5>1 DEF ListOK
        <5>3. QED
          BY <2>4, <5>1, <5>2
      <4>4. CASE j > i
        <5>1. r[j] = l[j + 1] /\ r[k] = l[k + 1] /\ j + 1 < k + 1
          BY <1>1, <2>1, <3>2, <4>1, <4>4, SMTT(60)
        <5>2. QED
          BY <4>1, <5>1 DEF ListOK
      <4>5. QED
        BY <1>3, <4>2, <4>3, <4>4, SMTT(60)
    <3>3. QED
      BY <2>1, <3>1, <3>2 DEF ListOK
  <2>6. ASSUME NEW x \in Int, Covers(l, x) PROVE Covers(r, x)
    <3>1. PICK j \in 1 .. Len(l) : x \in Bytes(l[j])
      BY <2>6 DEF Covers
    <3>2. CASE j < i
      <4>1. j \in 1 .. Len(r) /\ r[j] = l[j]
        BY <1>1, <1>3, <2>1, <3>2, SMTT(60)
      <4>2. QED
        BY <3>1, <4>1 DEF Covers
    <3>3. CASE j = i \/ j = i + 1
      <4>1. i \in 1 .. Len(r) /\ r[i] = big
        BY <1>1, <1>3, <2>1, SMTT(60)
      <4>2. x \in Bytes(l[i]) \cup Bytes(l[i + 1])
        BY <3>1, <3>3
      <4>3. l[i] \in Block /\ l[i + 1] \in Block
        BY <1>1, <1>3, SMTT(60)
      <4>4. x \in Bytes(big)
        BY <1>3, <2>2, <4>2, <4>3, MergedBytes, SMTT(60)
      <4>5. QED
        BY <4>1, <4>4 DEF Covers
    <3>4. CASE j > i + 1
      <4>1. j - 1 \in 1 .. Len(r) /\ r[j - 1] = l[j]
        BY <1>1, <1>3, <2>1, <3>4, SMTT(60)
      <4>2. QED
        BY <3>1, <4>1 DEF Covers
    <3>5. QED
      BY <1>1, <1>3, <3>2, <3>3, <3>4, SMTT(60)
  <2>7. ASSUME NEW b \in Block, ApartFrom(l, b) PROVE ApartFrom(r, b)
    <3>1. SUFFICES ASSUME NEW j \in 1 .. Len(r) PROVE Apart(r[j], b)
      BY DEF ApartFrom
    <3>2. CASE j # i
      BY <1>1, <1>3, <2>1, <2>7, <3>2, SMTT(60) DEF ApartFrom
    <3>3. CASE j = i
      <4>1. Apart(l[i], b) /\ Apart(l[i + 1], b) /\ r[j] = big
        BY <1>1, <1>3, <2>1, <2>7, <3>3, SMTT(60) DEF ApartFrom
      <4>2. b.addr \in Nat /\ b.size \in Nat /\ b.size > 0
        BY AllocatorAssumption, SMTT(60) DEF Block
      <4>3. QED
        BY <1>3, <2>2, <2>3, <2>4, <4>1, <4>2, SMTT(60) DEF Apart, End
    <3>4. QED
      BY <3>2, <3>3
  <2>8. ASSUME NEW j, Touch(r, j)
        PROVE  \/ j # i /\ Touch(l, j)
               \/ j >= i /\ Touch(l, j + 1)
    <3>1. j \in 1 .. Len(r) - 1 /\ j + 1 \in 1 .. Len(r) /\ End(r[j]) = r[j + 1].addr
      BY <1>1, <2>1, <2>8, SMTT(60) DEF Touch
    <3>2. CASE j + 1 < i
      <4>1. r[j] = l[j] /\ r[j + 1] = l[j + 1]
        BY <1>1, <1>3, <2>1, <3>1, <3>2, SMTT(60)
      <4>2. j \in 1 .. Len(l) - 1 /\ j # i
        BY <1>1, <1>3, <2>1, <3>1, <3>2, SMTT(60)
      <4>3. QED
        BY <3>1, <4>1, <4>2 DEF Touch
    <3>3. CASE j + 1 = i
      BY <1>1, <1>3, <2>1, <2>2, <3>1, <3>3, SMTT(60) DEF Touch
    <3>4. CASE j = i
      BY <1>1, <1>3, <2>1, <2>4, <3>1, <3>4, SMTT(60) DEF Touch
    <3>5. CASE j > i
      BY <1>1, <1>3, <2>1, <3>1, <3>5, SMTT(60) DEF Touch
    <3>6. QED
      BY <1>1, <1>3, <3>1, <3>2, <3>3, <3>4, <3>5, SMTT(60)
  <2>9. QED
    BY <2>5, <2>6, <2>7, <2>8 DEF r
<1>4. QED
  BY <1>2, <1>3

\* Linking a block that is apart from the list in at its insertion point keeps
\* the list sorted and disjoint; the only new contacts are its own two.
LEMMA InsertFacts ==
    ASSUME NEW l, ListOK(l), \A j : ~ Touch(l, j),
           NEW b \in Block, End(b) <= HEAP_SIZE, b.size > HEADER, ApartFrom(l, b),
           NEW k \in 0 .. Len(l),
           \A j \in 1 .. k : l[j].addr < b.addr,
           k < Len(l) => l[k + 1].addr >= b.addr
    PROVE  LET r == LinkAt(l, k + 1, b)
           IN  /\ ListOK(r)
               /\ \A x \in Int : Covers(l, x) \/ x \in Bytes(b) => Covers(r, x)
               /\ \A c \in Block : ApartFrom(l, c) /\ Apart(b, c) => ApartFrom(r, c)
               /\ \A j : Touch(r, j) => j \in {k, k + 1}
<1> DEFINE r == LinkAt(l, k + 1, b)
<1>1. Len(l) \in Nat /\ l \in Seq(Block) /\ \A j \in 1 .. Len(l) : l[j] \in Block
  BY LenProperties, ElementOfSeq DEF ListOK
<1>2. /\ r \in Seq(Block)
      /\ Len(r) = Len(l) + 1
      /\ \A j \in 1 .. Len(l) + 1 : r[j] =
           IF j < k + 1 THEN l[j] ELSE IF j = k + 1 THEN b ELSE l[j - 1]
  <2>1. PICK i \in 1 .. Len(l) + 1 : i = k + 1
    BY <1>1, SMTT(60)
  <2>2. /\ LinkAt(l, i, b) \in Seq(Block)
        /\ Len(LinkAt(l, i, b)) = Len(l) + 1
        /\ \A j \in 1 .. Len(l) + 1 : LinkAt(l, i, b)[j] =
             IF j < i THEN l[j] ELSE IF j = i THEN b ELSE l[j - 1]
    BY <1>1, LinkAtFacts, SMTT(60)
  <2>3. QED
    BY <2>1, <2>2
<1> HIDE DEF r
<1>3. b.addr \in Nat /\ b.size \in Nat /\ b.size > 0 /\ End(b) = b.addr + b.size
  BY BlockFacts
<1>4. \A j \in 1 .. Len(l) :
        /\ l[j].addr \in Nat /\ l[j].size \in Nat /\ l[j].size > 0
        /\ End(l[j]) = l[j].addr + l[j].size
        /\ Apart(l[j], b)
  BY <1>1, BlockFacts DEF ApartFrom
<1>5. \A j \in 1 .. k : End(l[j]) <= b.addr
  <2>1. TAKE j \in 1 .. k
  <2>2. j \in 1 .. Len(l)
    BY <1>1, SMTT(60)
  <2>3. l[j].addr < b.addr
    OBVIOUS
  <2>4. QED
    BY <1>3, <1>4, <2>2, <2>3, SMTT(60) DEF Apart
<1>6. \A j \in k + 1 .. Len(l) : End(b) <= l[j].addr
  <2>1. TAKE j \in k + 1 .. Len(l)
  <2>2. j \in 1 .. Len(l) /\ k + 1 \in 1 .. Len(l) /\ k < Len(l)
    BY <1>1, SMTT(60)
  <2>3. l[k + 1].addr <= l[j].addr
    <3>1. CASE j = k + 1
      BY <1>4, <2>2, <3>1, SMTT(60)
    <3>2. CASE k + 1 < j
      <4>1. End(l[k + 1]) <= l[j].addr
        BY <2>2, <3>2 DEF ListOK
      <4>2. QED
        BY <1>4, <2>2, <4>1, SMTT(60)
    <3>3. QED
      BY <2>2, <3>1, <3>2, SMTT(60)
  <2>4. b.addr <= l[j].addr
    BY <1>3, <1>4, <2>2, <2>3, SMTT(60)
  <2>5. /\ l[j].addr \in Nat /\ l[j].size \in Nat /\ l[j].size > 0
        /\ l[j].addr + l[j].size <= b.addr \/ End(b) <= l[j].addr
    BY <1>4, <2>2 DEF Apart
  <2>6. QED
    BY <1>3, <2>4, <2>5, SMTT(60)
<1>7. ListOK(r)
  <2>1. ASSUME NEW j \in 1 .. Len(r)
        PROVE  End(r[j]) <= HEAP_SIZE /\ r[j].size > HEADER
    <3>1. CASE j < k + 1
      BY <1>1, <1>2, <3>1, SMTT(60) DEF ListOK
    <3>2. CASE j = k + 1
      <4>1. r[j] = b
        BY <1>1, <1>2, <3>2, SMTT(60)
      <4>2. QED
        BY <4>1
    <3>3. CASE j > k + 1
      <4>1. j - 1 \in 1 .. Len(l) /\ r[j] = l[j - 1]
        BY <1>1, <1>2, <3>3, SMTT(60)
      <4>2. QED
        BY <4>1 DEF ListOK
    <3>4. QED
      BY <1>1, <1>2, <3>1, <3>2, <3>3, SMTT(60)
  <2>2. ASSUME NEW i \in 1 .. Len(r), NEW j \in 1 .. Len(r), i < j
        PROVE  End(r[i]) <= r[j].addr
    <3>1. CASE j < k + 1
      <4>1. i \in 1 .. Len(l) /\ j \in 1 .. Len(l) /\ r[i] = l[i] /\ r[j] = l[j]
        BY <1>1, <1>2, <2>2, <3>1, SMTT(60)
      <4>2. QED
        BY <2>2, <4>1 DEF ListOK
    <3>2. CASE j = k + 1
      <4>1. i \in 1 .. k /\ r[i] = l[i] /\ r[j] = b
        BY <1>1, <1>2, <2>2, <3>2, SMTT(60)
      <4>2. QED
        BY <1>5, <4>1
    <3>3. CASE j > k + 1
      <4>1. j - 1 \in k + 1 .. Len(l) /\ r[j] = l[j - 1]
        BY <1>1, <1>2, <2>2, <3>3, SMTT(60)
      <4>2. CASE i = k + 1
        <5>1. r[i] = b
          BY <1>1, <1>2, <4>2, SMTT(60)
        <5>2. QED
          BY <1>6, <4>1, <5>1
      <4>3. CASE i < k + 1
        <5>1. /\ i \in 1 .. Len(l) /\ j - 1 \in 1 .. Len(l)
              /\ i < j - 1 /\ r[i] = l[i]
          BY <1>1, <1>2, <2>2, <3>3, <4>3, SMTT(60)
        <5>2. QED
          BY <4>1, <5>1 DEF ListOK
      <4>4. CASE i > k + 1
        <5>1. /\ i - 1 \in 1 .. Len(l) /\ j - 1 \in 1 .. Len(l)
              /\ i - 1 < j - 1 /\ r[i] = l[i - 1]
          BY <1>1, <1>2, <2>2, <3>3, <4>4, SMTT(60)
        <5>2. QED
          BY <4>1, <5>1 DEF ListOK
      <4>5. QED
        BY <1>1, <1>2, <4>2, <4>3, <4>4, SMTT(60)
    <3>4. QED
      BY <1>1, <1>2, <3>1, <3>2, <3>3, SMTT(60)
  <2>3. QED
    BY <1>2, <2>1, <2>2 DEF ListOK
<1>8. ASSUME NEW x \in Int, Covers(l, x) \/ x \in Bytes(b) PROVE Covers(r, x)
  <2>1. CASE x \in Bytes(b)
    <3>1. k + 1 \in 1 .. Len(r) /\ r[k + 1] = b
      BY <1>1, <1>2, SMTT(60)
    <3>2. QED
      BY <2>1, <3>1 DEF Covers
  <2>2. CASE Covers(l, x)
    <3>1. PICK j \in 1 .. Len(l) : x \in Bytes(l[j])
      BY <2>2 DEF Covers
    <3>2. CASE j < k + 1
      <4>1. j \in 1 .. Len(r) /\ r[j] = l[j]
        BY <1>1, <1>2, <3>2, SMTT(60)
      <4>2. QED
        BY <3>1, <4>1 DEF Covers
    <3>3. CASE ~(j < k + 1)
      <4>1. j + 1 \in 1 .. Len(r) /\ r[j + 1] = l[j]
        <5>1. j + 1 \in 1 .. Len(l) + 1 /\ ~(j + 1 < k + 1) /\ j + 1 # k + 1
              /\ (j + 1) - 1 = j
          BY <1>1, <3>3, SMTT(60)
        <5>2. QED
          BY <1>2, <5>1, SMTT(60)
      <4>2. QED
        BY <3>1, <4>1 DEF Covers
    <3>4. QED
      BY <3>2, <3>3
  <2>3. QED
    BY <1>8, <2>1, <2>2
<1>9. ASSUME NEW c \in Block, ApartFrom(l, c), Apart(b, c) PROVE ApartFrom(r, c)
  <2>1. SUFFICES ASSUME NEW j \in 1 .. Len(r) PROVE Apart(r[j], c)
    BY DEF ApartFrom
  <2>2. \/ r[j] = b
        \/ j \in 1 .. Len(l) /\ r[j] = l[j]
        \/ j - 1 \in 1 .. Len(l) /\ r[j] = l[j - 1]
    BY <1>1, <1>2, SMTT(60)
  <2>3. QED
    BY <1>9, <2>2 DEF ApartFrom
<1>10. ASSUME NEW j, Touch(r, j) PROVE j \in {k, k + 1}
  <2>1. j \in 1 .. Len(r) - 1 /\ End(r[j]) = r[j + 1].addr
    BY <1>10 DEF Touch
  <2>2. ASSUME j < k PROVE FALSE
    <3>1. j \in 1 .. Len(l) - 1 /\ r[j] = l[j] /\ r[j + 1] = l[j + 1]
      BY <1>1, <1>2, <2>1, <2>2, SMTT(60)
    <3>2. Touch(l, j)
      BY <2>1, <3>1 DEF Touch
    <3>3. QED
      BY <3>2
  <2>3. ASSUME j > k + 1 PROVE FALSE
    <3>1. /\ j - 1 \in 1 .. Len(l) - 1 /\ r[j] = l[j - 1]
          /\ r[j + 1] = l[(j - 1) + 1]
      <4>1. /\ j \in 1 .. Len(l) + 1 /\ j + 1 \in 1 .. Len(l) + 1
            /\ (j + 1) - 1 = (j - 1) + 1 /\ ~(j < k + 1) /\ ~(j + 1 < k + 1)
            /\ j # k + 1 /\ j + 1 # k + 1 /\ j - 1 \in 1 .. Len(l) - 1
        BY <1>1, <1>2, <2>1, <2>3, SMTT(60)
      <4>2. QED
        BY <1>2, <4>1, SMTT(60)
    <3>2. Touch(l, j - 1)
      BY <2>1, <3>1 DEF Touch
    <3>3. QED
      BY <3>2
  <2>4. QED
    BY <1>1, <1>2, <2>1, <2>2, <2>3, SMTT(60)
<1>11. QED
  BY <1>7, <1>8, <1>9, <1>10 DEF r

-----------------------------------------------------------------------------
(* The inductive invariant                                                 *)

\* The blocks handed out are inside the heap, longer than a header and
\* pairwise apart.
AllocatedOK(A) ==
    /\ A \subseteq Block
    /\ \A b \in A : End(b) <= HEAP_SIZE /\ b.size > HEADER
    /\ \A b, c \in A : b # c => Apart(b, c)

IInv ==
    /\ ListOK(free_list)
    /\ \A j : ~ Touch(free_list, j)
    /\ AllocatedOK(allocated)
    /\ \A b \in allocated : ApartFrom(free_list, b)
    /\ \A x \in 0 .. HEAP_SIZE - 1 :
         Covers(free_list, x) \/ \E b \in allocated : x \in Bytes(b)

\* A request for at least one byte needs a block longer than a header.
LEMMA BlockSizeFacts ==
    ASSUME NEW size \in Requests, size # 0
    PROVE  BlockSize(size) \in Nat /\ BlockSize(size) > HEADER
<1> DEFINE sum == size + HEADER + (ALIGN - 1)
<1>1. /\ size \in Nat /\ HEADER \in Nat /\ ALIGN \in Nat /\ ALIGN > 0 /\ WORD \in Nat
      /\ size + HEADER + ALIGN <= WORD
  BY AllocatorAssumption
<1>2. sum \in Nat /\ sum < WORD /\ sum >= HEADER + ALIGN
  BY <1>1, SMTT(60)
<1> HIDE DEF sum
<1>3. sum % WORD = sum
  BY <1>1, <1>2, SMTT(60)
<1>4. sum % ALIGN \in 0 .. ALIGN - 1
  BY <1>1, <1>2, SMTT(60)
<1>5. BlockSize(size) = sum - (sum % ALIGN)
  BY <1>3 DEF BlockSize, sum
<1>6. QED
  BY <1>1, <1>2, <1>4, <1>5, SMTT(60)

\* The heap that allocator_heap_init makes satisfies the inductive invariant.
LEMMA InitIInv == Init => IInv
<1> SUFFICES ASSUME Init PROVE IInv
  OBVIOUS
<1> DEFINE whole == [addr |-> 0, size |-> HEAP_SIZE]
<1>1. /\ whole \in Block /\ whole.addr = 0 /\ whole.size = HEAP_SIZE
      /\ End(whole) = HEAP_SIZE /\ HEAP_SIZE \in Nat /\ HEAP_SIZE > HEADER
  BY AllocatorAssumption, SMTT(60) DEF Block, End
<1>2. free_list = <<whole>> /\ allocated = {}
  BY DEF Init
<1> HIDE DEF whole
<1>3. /\ free_list \in Seq(Block) /\ Len(free_list) = 1 /\ free_list[1] = whole
  BY <1>1, <1>2, SMTT(60)
<1>4. ListOK(free_list)
  BY <1>1, <1>3, SMTT(60) DEF ListOK
<1>5. \A j : ~ Touch(free_list, j)
  BY <1>3, SMTT(60) DEF Touch
<1>6. \A x \in 0 .. HEAP_SIZE - 1 : Covers(free_list, x)
  BY <1>1, <1>3, SMTT(60) DEF Covers, Bytes
<1>7. QED
  BY <1>2, <1>4, <1>5, <1>6 DEF IInv, AllocatedOK

\* malloc_internal, the split: the front of the block goes to the caller, the
\* rest stays in the list.
LEMMA SplitIInv ==
    ASSUME IInv, NEW i \in DOMAIN free_list, NEW n \in Nat, n > HEADER,
           free_list[i].size >= n, Split(i, n)
    PROVE  IInv'
<1> DEFINE l == free_list
           b == l[i]
           rest == [addr |-> b.addr + n, size |-> b.size - n]
           got == [addr |-> b.addr, size |-> n]
<1>1. /\ Len(l) \in Nat /\ l \in Seq(Block) /\ i \in 1 .. Len(l)
      /\ \A j \in 1 .. Len(l) : l[j] \in Block
  BY LenProperties, ElementOfSeq DEF IInv, ListOK
<1>2. /\ b.addr \in Nat /\ b.size \in Nat /\ b.size > 0 /\ End(b) = b.addr + b.size
      /\ End(b) <= HEAP_SIZE
  BY <1>1, BlockFacts DEF IInv, ListOK
<1>3. b.size - n >= HEADER + ALIGN /\ HEADER \in Nat /\ ALIGN \in Nat /\ ALIGN > 0
      /\ HEAP_SIZE \in Nat
  BY AllocatorAssumption DEF Split, CanSplit
<1>4. /\ free_list' = [l EXCEPT ![i] = rest]
      /\ allocated' = allocated \cup {got}
  BY DEF Split
<1>5. /\ rest \in Block /\ rest.addr = b.addr + n /\ rest.size = b.size - n
      /\ End(rest) = End(b) /\ rest.size > HEADER
  <2>1. b.addr + n \in 0 .. HEAP_SIZE /\ b.size - n \in 1 .. HEAP_SIZE
    BY <1>2, <1>3, SMTT(60)
  <2>2. QED
    BY <1>2, <1>3, <2>1, SMTT(60) DEF Block, End
<1>6. /\ got \in Block /\ got.addr = b.addr /\ got.size = n
      /\ End(got) = b.addr + n /\ End(got) <= HEAP_SIZE
  <2>1. b.addr \in 0 .. HEAP_SIZE /\ n \in 1 .. HEAP_SIZE
    BY <1>2, <1>3, SMTT(60)
  <2>2. QED
    BY <1>2, <1>3, <2>1, SMTT(60) DEF Block, End
<1> HIDE DEF rest, got
<1>7. /\ free_list' \in Seq(Block) /\ Len(free_list') = Len(l)
      /\ \A j \in 1 .. Len(l) : free_list'[j] = IF j = i THEN rest ELSE l[j]
  BY <1>1, <1>4, <1>5, ExceptSeq, SMTT(60)
<1>8. \A j, k \in 1 .. Len(l) : j < k => End(l[j]) <= l[k].addr
  BY DEF IInv, ListOK
<1>9. ListOK(free_list')
  <2>1. ASSUME NEW j \in 1 .. Len(l)
        PROVE  End(free_list'[j]) <= HEAP_SIZE /\ free_list'[j].size > HEADER
    BY <1>2, <1>5, <1>7 DEF IInv, ListOK
  <2>2. ASSUME NEW j \in 1 .. Len(l), NEW k \in 1 .. Len(l), j < k
        PROVE  End(free_list'[j]) <= free_list'[k].addr
    <3>1. End(free_list'[j]) = End(l[j])
      BY <1>5, <1>7
    <3>2. CASE k = i
      <4>1. End(l[j]) <= b.addr /\ End(l[j]) \in Int
        <5>1. End(l[j]) = l[j].addr + l[j].size /\ l[j].addr \in Nat /\ l[j].size \in Nat
          BY <1>1, BlockFacts
        <5>2. QED
          BY <1>1, <1>8, <2>2, <3>2, <5>1, SMTT(60)
      <4>2. free_list'[k].addr = b.addr + n
        BY <1>5, <1>7, <3>2
      <4>3. QED
        BY <1>2, <3>1, <4>1, <4>2, SMTT(60)
    <3>3. CASE k # i
      BY <1>7, <1>8, <2>2, <3>1, <3>3
    <3>4. QED
      BY <3>2, <3>3
  <2>3. QED
    BY <1>7, <2>1, <2>2 DEF ListOK
<1>10. ASSUME NEW j, Touch(free_list', j) PROVE FALSE
  <2>1. /\ j \in 1 .. Len(l) - 1 /\ j \in 1 .. Len(l) /\ j + 1 \in 1 .. Len(l)
        /\ End(free_list'[j]) = free_list'[j + 1].addr
    BY <1>1, <1>7, <1>10, SMTT(60) DEF Touch
  <2>2. End(free_list'[j]) = End(l[j])
    BY <1>5, <1>7, <2>1
  <2>3. CASE j + 1 = i
    <3>1. j < j + 1 /\ free_list'[j + 1] = rest /\ l[j + 1] = b
      BY <1>7, <2>1, <2>3, SMTT(60)
    <3>2. End(l[j]) <= b.addr
      BY <1>8, <2>1, <3>1
    <3>3. End(l[j]) = b.addr + n
      BY <1>5, <2>1, <2>2, <3>1
    <3>4. QED
      BY <1>2, <1>3, <3>2, <3>3, AllocatorAssumption, SMTT(60)
  <2>4. CASE j + 1 # i
    <3>1. free_list'[j + 1] = l[j + 1]
      BY <1>7, <2>1, <2>4
    <3>2. Touch(l, j)
      BY <2>1, <2>2, <3>1 DEF Touch
    <3>3. QED
      BY <3>2 DEF IInv
  <2>5. QED
    BY <2>3, <2>4
<1>11. \A c \in allocated : Apart(b, c) /\ c \in Block
  BY <1>1 DEF IInv, AllocatedOK, ApartFrom
<1>12. \A c \in allocated : Apart(got, c) /\ Apart(c, got) /\ Apart(rest, c)
  <2>1. TAKE c \in allocated
  <2>2. c.addr \in Nat /\ c.size \in Nat /\ End(c) = c.addr + c.size
    BY <1>11, BlockFacts
  <2>3. QED
    BY <1>2, <1>3, <1>5, <1>6, <1>11, <2>2, SMTT(60) DEF Apart
<1>13. AllocatedOK(allocated')
  BY <1>4, <1>6, <1>12 DEF IInv, AllocatedOK
<1>14. \A c \in allocated' : ApartFrom(free_list', c)
  <2>1. ASSUME NEW c \in allocated' PROVE ApartFrom(free_list', c)
    <3>1. SUFFICES ASSUME NEW j \in 1 .. Len(l) PROVE Apart(free_list'[j], c)
      BY <1>7 DEF ApartFrom
    <3>2. CASE c \in allocated
      BY <1>7, <1>12, <3>2 DEF IInv, ApartFrom
    <3>3. CASE c = got
      <4>1. CASE j = i
        BY <1>2, <1>3, <1>5, <1>6, <1>7, <3>3, <4>1, SMTT(60) DEF Apart
      <4>2. CASE j # i
        <5>1. End(l[j]) <= b.addr \/ End(b) <= l[j].addr
          BY <1>1, <1>8, <4>2, SMTT(60)
        <5>2. /\ l[j].addr \in Nat /\ l[j].size \in Nat
              /\ End(l[j]) = l[j].addr + l[j].size
          BY <1>1, BlockFacts
        <5>3. free_list'[j] = l[j]
          BY <1>7, <4>2
        <5>4. End(got) <= End(b)
          BY <1>2, <1>3, <1>6, SMTT(60)
        <5>5. End(l[j]) <= got.addr \/ End(got) <= l[j].addr
          BY <1>2, <1>6, <5>1, <5>2, <5>4, SMTT(60)
        <5>6. QED
          BY <3>3, <5>3, <5>5 DEF Apart
      <4>3. QED
        BY <4>1, <4>2
    <3>4. QED
      BY <1>4, <2>1, <3>2, <3>3
  <2>2. QED
    BY <2>1
<1>15. ASSUME NEW x \in 0 .. HEAP_SIZE - 1
       PROVE  Covers(free_list', x) \/ \E c \in allocated' : x \in Bytes(c)
  <2>1. CASE \E c \in allocated : x \in Bytes(c)
    BY <1>4, <2>1
  <2>2. CASE Covers(l, x)
    <3>1. PICK j \in 1 .. Len(l) : x \in Bytes(l[j])
      BY <2>2 DEF Covers
    <3>2. CASE j # i
      BY <1>7, <3>1, <3>2 DEF Covers
    <3>3. CASE j = i
      <4>1. x \in Bytes(got) \/ x \in Bytes(rest)
        BY <1>2, <1>3, <1>5, <1>6, <3>1, <3>3, SMTT(60) DEF Bytes
      <4>2. QED
        BY <1>1, <1>4, <1>7, <4>1 DEF Covers
    <3>4. QED
      BY <3>2, <3>3
  <2>3. QED
    BY <2>1, <2>2 DEF IInv
<1>16. QED
  BY <1>9, <1>10, <1>13, <1>14, <1>15 DEF IInv

\* malloc_internal, the entire block: it leaves the list for the caller.
LEMMA UseEntireBlockIInv ==
    ASSUME IInv, NEW i \in DOMAIN free_list, NEW n \in Nat, UseEntireBlock(i, n)
    PROVE  IInv'
<1> DEFINE l == free_list
           b == l[i]
<1>1. /\ Len(l) \in Nat /\ l \in Seq(Block) /\ i \in 1 .. Len(l)
      /\ \A j \in 1 .. Len(l) : l[j] \in Block
  BY LenProperties, ElementOfSeq DEF IInv, ListOK
<1>2. /\ b \in Block /\ b.addr \in Nat /\ b.size \in Nat /\ b.size > 0
      /\ End(b) = b.addr + b.size /\ End(b) <= HEAP_SIZE /\ b.size > HEADER
  BY <1>1, BlockFacts DEF IInv, ListOK
<1>3. free_list' = UnlinkAt(l, i) /\ allocated' = allocated \cup {b}
  BY DEF UseEntireBlock
<1>4. /\ free_list' \in Seq(Block) /\ Len(free_list') = Len(l) - 1
      /\ \A j \in 1 .. Len(l) - 1 :
           free_list'[j] = IF j < i THEN l[j] ELSE l[j + 1]
  BY <1>1, <1>3, UnlinkAtFacts
<1>5. \A j, k \in 1 .. Len(l) : j < k => End(l[j]) <= l[k].addr
  BY DEF IInv, ListOK
<1>6. \A j \in 1 .. Len(l) : End(l[j]) <= HEAP_SIZE /\ l[j].size > HEADER
  BY DEF IInv, ListOK
<1>7. ASSUME NEW j \in 1 .. Len(l) - 1
      PROVE  \E k \in 1 .. Len(l) : k # i /\ free_list'[j] = l[k]
  <2>1. j \in 1 .. Len(l) /\ j + 1 \in 1 .. Len(l)
    BY <1>1, SMTT(60)
  <2>2. CASE j < i
    BY <1>4, <2>1, <2>2, SMTT(60)
  <2>3. CASE ~(j < i)
    <3>1. free_list'[j] = l[j + 1] /\ j + 1 # i
      BY <1>1, <1>4, <2>3, SMTT(60)
    <3>2. QED
      BY <2>1, <3>1
  <2>4. QED
    BY <2>2, <2>3
<1>8. ListOK(free_list')
  <2>1. ASSUME NEW j \in 1 .. Len(l) - 1
        PROVE  End(free_list'[j]) <= HEAP_SIZE /\ free_list'[j].size > HEADER
    BY <1>6, <1>7
  <2>2. ASSUME NEW j \in 1 .. Len(l) - 1, NEW k \in 1 .. Len(l) - 1, j < k
        PROVE  End(free_list'[j]) <= free_list'[k].addr
    <3>1. /\ j \in 1 .. Len(l) /\ j + 1 \in 1 .. Len(l) /\ j + 1 < k + 1
          /\ k \in 1 .. Len(l) /\ k + 1 \in 1 .. Len(l) /\ j < k + 1
      BY <1>1, <2>2, SMTT(60)
    <3>2. CASE k < i
      <4>1. j < i /\ free_list'[j] = l[j] /\ free_list'[k] = l[k]
        BY <1>1, <1>4, <2>2, <3>2, SMTT(60)
      <4>2. QED
        BY <1>5, <2>2, <3>1, <4>1
    <3>3. CASE ~(k < i)
      <4>1. free_list'[k] = l[k + 1]
        BY <1>4, <3>3
      <4>2. free_list'[j] = l[j] \/ free_list'[j] = l[j + 1]
        BY <1>4
      <4>3. QED
        BY <1>5, <3>1, <4>1, <4>2
    <3>4. QED
      BY <3>2, <3>3
  <2>3. QED
    BY <1>4, <2>1, <2>2 DEF ListOK
<1>9. ASSUME NEW j, Touch(free_list', j) PROVE FALSE
  <2>1. /\ j \in 1 .. Len(l) - 2 /\ j \in 1 .. Len(l) - 1 /\ j + 1 \in 1 .. Len(l) - 1
        /\ j \in 1 .. Len(l) /\ j + 1 \in 1 .. Len(l) /\ j + 2 \in 1 .. Len(l)
        /\ End(free_list'[j]) = free_list'[j + 1].addr
    BY <1>1, <1>4, <1>9, SMTT(60) DEF Touch
  <2>2. CASE j + 1 < i
    <3>1. free_list'[j] = l[j] /\ free_list'[j + 1] = l[j + 1]
      BY <1>1, <1>4, <2>1, <2>2, SMTT(60)
    <3>2. Touch(l, j)
      BY <2>1, <3>1 DEF Touch
    <3>3. QED
      BY <3>2 DEF IInv
  <2>3. CASE j + 1 = i
    \* The removed block lay between the two, and it is not empty.
    <3>1. free_list'[j] = l[j] /\ free_list'[j + 1] = l[j + 2]
      BY <1>1, <1>4, <2>1, <2>3, SMTT(60)
    <3>2. End(l[j]) <= b.addr /\ End(b) <= l[j + 2].addr
      BY <1>1, <1>5, <2>1, <2>3, SMTT(60)
    <3>3. l[j + 2].addr \in Nat
      BY <1>1, <2>1, BlockFacts
    <3>4. End(l[j]) = l[j + 2].addr
      BY <2>1, <3>1
    <3>5. l[j + 2].addr <= b.addr /\ b.addr + b.size <= l[j + 2].addr
      BY <1>2, <3>2, <3>4
    <3>6. QED
      BY <1>2, <3>3, <3>5, SMTT(60)
  <2>4. CASE j + 1 > i
    <3>1. /\ j \in 1 .. Len(l) - 1 /\ j + 1 \in 1 .. Len(l) - 1
          /\ ~ (j < i) /\ ~ (j + 1 < i)
      BY <1>1, <2>1, <2>4, SMTT(60)
    <3>2. free_list'[j] = l[j + 1] /\ free_list'[j + 1] = l[(j + 1) + 1]
      BY <1>4, <3>1
    <3>3. Touch(l, j + 1)
      BY <2>1, <3>2, <3>1 DEF Touch
    <3>4. QED
      BY <3>3 DEF IInv
  <2>5. QED
    BY <1>1, <2>1, <2>2, <2>3, <2>4, SMTT(60)
<1>10. \A c \in allocated : Apart(b, c) /\ Apart(c, b)
  BY <1>1 DEF IInv, ApartFrom, Apart
<1>11. AllocatedOK(allocated')
  BY <1>2, <1>3, <1>10 DEF IInv, AllocatedOK
<1>12. ASSUME NEW c \in allocated', NEW j \in 1 .. Len(l) - 1
       PROVE  Apart(free_list'[j], c)
  <2>1. PICK k \in 1 .. Len(l) : k # i /\ free_list'[j] = l[k]
    BY <1>7
  <2>2. CASE c \in allocated
    BY <2>1, <2>2 DEF IInv, ApartFrom
  <2>3. CASE c = b
    BY <1>1, <1>5, <2>1, <2>3, SMTT(60) DEF Apart
  <2>4. QED
    BY <1>3, <2>2, <2>3
<1>13. \A c \in allocated' : ApartFrom(free_list', c)
  BY <1>4, <1>12 DEF ApartFrom
<1>14. ASSUME NEW x \in 0 .. HEAP_SIZE - 1
       PROVE  Covers(free_list', x) \/ \E c \in allocated' : x \in Bytes(c)
  <2>1. CASE \E c \in allocated : x \in Bytes(c)
    BY <1>3, <2>1
  <2>2. CASE Covers(l, x)
    <3>1. PICK j \in 1 .. Len(l) : x \in Bytes(l[j])
      BY <2>2 DEF Covers
    <3>2. CASE j = i
      BY <1>3, <3>1, <3>2
    <3>3. CASE j < i
      <4>1. j \in 1 .. Len(l) - 1 /\ free_list'[j] = l[j]
        BY <1>1, <1>4, <3>3, SMTT(60)
      <4>2. QED
        BY <1>4, <3>1, <4>1 DEF Covers
    <3>4. CASE j > i
      <4>1. j - 1 \in 1 .. Len(l) - 1 /\ free_list'[j - 1] = l[j]
        BY <1>1, <1>4, <3>4, SMTT(60)
      <4>2. QED
        BY <1>4, <3>1, <4>1 DEF Covers
    <3>5. QED
      BY <1>1, <3>2, <3>3, <3>4, SMTT(60)
  <2>3. QED
    BY <2>1, <2>2 DEF IInv
<1>15. QED
  BY <1>8, <1>9, <1>11, <1>13, <1>14 DEF IInv

\* free_internal: insertion at the sorted place, then the two merges.
LEMMA FreeIInv ==
    ASSUME IInv, NEW b \in allocated, Free(b)
    PROVE  IInv'
<1>1. PICK k \in 0 .. Len(free_list) :
        /\ InsertionPoint(k, b)
        /\ free_list' = Coalesce(Coalesce(LinkAt(free_list, k + 1, b), k + 1), k)
  BY DEF Free
<1> DEFINE l == free_list
           l1 == LinkAt(l, k + 1, b)
           l2 == Coalesce(l1, k + 1)
           l3 == Coalesce(l2, k)
<1>2. allocated' = allocated \ {b} /\ free_list' = l3
  BY <1>1 DEF Free
<1>3. /\ b \in Block /\ End(b) <= HEAP_SIZE /\ b.size > HEADER
      /\ ApartFrom(l, b) /\ ListOK(l) /\ \A j : ~ Touch(l, j)
  BY DEF IInv, AllocatedOK
<1>4. Len(l) \in Nat /\ k \in Nat /\ k + 1 \in Nat
  BY <1>3, LenProperties, SMTT(60) DEF ListOK
<1>5. /\ ListOK(l1)
      /\ \A x \in Int : Covers(l, x) \/ x \in Bytes(b) => Covers(l1, x)
      /\ \A c \in Block : ApartFrom(l, c) /\ Apart(b, c) => ApartFrom(l1, c)
      /\ \A j : Touch(l1, j) => j \in {k, k + 1}
  BY <1>1, <1>3, InsertFacts DEF InsertionPoint
<1> HIDE DEF l1
<1>6. /\ ListOK(l2)
      /\ \A x \in Int : Covers(l1, x) => Covers(l2, x)
      /\ \A c \in Block : ApartFrom(l1, c) => ApartFrom(l2, c)
      /\ \A j : Touch(l2, j) => \/ j # k + 1 /\ Touch(l1, j)
                                \/ j >= k + 1 /\ Touch(l1, j + 1)
  BY <1>4, <1>5, CoalesceFacts
<1> HIDE DEF l2
<1>7. /\ ListOK(l3)
      /\ \A x \in Int : Covers(l2, x) => Covers(l3, x)
      /\ \A c \in Block : ApartFrom(l2, c) => ApartFrom(l3, c)
      /\ \A j : Touch(l3, j) => \/ j # k /\ Touch(l2, j)
                                \/ j >= k /\ Touch(l2, j + 1)
  BY <1>4, <1>6, CoalesceFacts
<1> HIDE DEF l3
<1>8. ASSUME NEW j, Touch(l2, j) PROVE j = k
  <2>1. j \in Nat
    BY <1>8, SMTT(60) DEF Touch
  <2>2. QED
    BY <1>4, <1>5, <1>6, <1>8, <2>1, SMTT(60)
<1>9. ASSUME NEW j, Touch(l3, j) PROVE FALSE
  <2>1. j \in Nat
    BY <1>9, SMTT(60) DEF Touch
  <2>2. QED
    BY <1>4, <1>7, <1>8, <1>9, <2>1, SMTT(60)
<1>10. AllocatedOK(allocated')
  BY <1>2 DEF IInv, AllocatedOK
<1>11. \A c \in allocated' : ApartFrom(free_list', c)
  <2>1. TAKE c \in allocated'
  <2>2. c \in Block /\ Apart(b, c) /\ ApartFrom(l, c)
    BY <1>2 DEF IInv, AllocatedOK
  <2>3. QED
    BY <1>2, <1>5, <1>6, <1>7, <2>2
<1>12. ASSUME NEW x \in 0 .. HEAP_SIZE - 1
       PROVE  Covers(free_list', x) \/ \E c \in allocated' : x \in Bytes(c)
  <2>1. Covers(l, x) \/ x \in Bytes(b) \/ \E c \in allocated' : x \in Bytes(c)
    BY <1>2 DEF IInv
  <2>2. x \in Int
    BY SMTT(60)
  <2>3. QED
    BY <1>2, <1>5, <1>6, <1>7, <2>1, <2>2
<1>13. QED
  BY <1>2, <1>7, <1>9, <1>10, <1>11, <1>12 DEF IInv

\* Every step of the allocator keeps the inductive invariant.
LEMMA NextIInv == IInv /\ [Next]_vars => IInv'
<1> SUFFICES ASSUME IInv, [Next]_vars PROVE IInv'
  OBVIOUS
<1>1. CASE UNCHANGED vars
  BY <1>1 DEF vars, IInv, ListOK, Touch, Covers, ApartFrom, AllocatedOK
<1>2. ASSUME NEW size \in Requests, MallocNull(size) PROVE IInv'
  BY <1>1, <1>2 DEF MallocNull
<1>3. ASSUME NEW size \in Requests, Malloc(size) PROVE IInv'
  <2>1. size # 0
    BY <1>3 DEF Malloc
  <2>2. BlockSize(size) \in Nat /\ BlockSize(size) > HEADER
    BY <2>1, BlockSizeFacts
  <2>3. PICK i \in DOMAIN free_list :
          /\ free_list[i].size >= BlockSize(size)
          /\ Split(i, BlockSize(size)) \/ UseEntireBlock(i, BlockSize(size))
    BY <1>3 DEF Malloc, FirstFit
  <2>4. QED
    BY <2>2, <2>3, SplitIInv, UseEntireBlockIInv
<1>4. ASSUME NEW b \in allocated, Free(b) PROVE IInv'
  BY <1>4, FreeIInv
<1>5. QED
  BY <1>1, <1>2, <1>3, <1>4 DEF Next

\* The inductive invariant always holds.
LEMMA SpecIInv == Spec => []IInv
<1>1. Init => IInv
  BY InitIInv
<1>2. IInv /\ [Next]_vars => IInv'
  BY NextIInv
<1>3. QED
  BY <1>1, <1>2, PTL DEF Spec

-----------------------------------------------------------------------------
(* Theorems                                                                *)

\* It implies the invariants of module Allocator.
LEMMA IInvImplies == IInv => TypeOK /\ NoOverlap /\ NothingLost /\ FullyCoalesced /\ HeaderFits
<1> SUFFICES ASSUME IInv PROVE TypeOK /\ NoOverlap /\ NothingLost /\ FullyCoalesced /\ HeaderFits
  OBVIOUS
<1>1. free_list \in Seq(Block) /\ DOMAIN free_list = 1 .. Len(free_list)
  BY LenProperties DEF IInv, ListOK
<1>2. TypeOK
  BY <1>1 DEF TypeOK, IInv, AllocatedOK
<1>3. NoOverlap
  BY <1>1 DEF NoOverlap, IInv, ListOK, AllocatedOK, ApartFrom
<1>4. NothingLost
  BY <1>1 DEF NothingLost, IInv, Covers
<1>5. FullyCoalesced
  BY DEF FullyCoalesced, IInv, Touch
<1>6. HeaderFits
  BY <1>1 DEF HeaderFits, IInv, ListOK, AllocatedOK
<1>7. QED
  BY <1>2, <1>3, <1>4, <1>5, <1>6

\* The free list and the blocks handed out keep their type.
THEOREM TypeCorrect == Spec => []TypeOK
BY SpecIInv, IInvImplies, PTL

\* Whatever is malloced and freed, in any order, the blocks tile the heap: none
\* share a byte, no byte is lost, free neighbours are merged and headers fit
\* (malloc_internal, free_internal).
THEOREM HeapStaysTiled == Spec => []HeapTiled
<1>1. IInv => HeapTiled
  BY IInvImplies DEF HeapTiled
<1>2. QED
  BY SpecIInv, <1>1, PTL

\* Once every block has been freed the list is one block, the whole heap.
LEMMA IInvWholeAgain == IInv => WholeAgain
<1> SUFFICES ASSUME IInv, allocated = {}
             PROVE  free_list = <<[addr |-> 0, size |-> HEAP_SIZE]>>
  BY DEF WholeAgain
<1> DEFINE l == free_list
           whole == [addr |-> 0, size |-> HEAP_SIZE]
<1>1. /\ Len(l) \in Nat /\ l \in Seq(Block)
      /\ \A j \in 1 .. Len(l) : l[j] \in Block /\ End(l[j]) <= HEAP_SIZE
      /\ \A i, j \in 1 .. Len(l) : i < j => End(l[i]) <= l[j].addr
  BY LenProperties, ElementOfSeq DEF IInv, ListOK
<1>2. \A j \in 1 .. Len(l) : /\ l[j].addr \in Nat /\ l[j].size \in Nat /\ l[j].size > 0
                             /\ End(l[j]) = l[j].addr + l[j].size
  BY <1>1, BlockFacts
<1>3. \A x \in 0 .. HEAP_SIZE - 1 : \E j \in 1 .. Len(l) : x \in Bytes(l[j])
  BY DEF IInv, Covers
<1>4. HEAP_SIZE \in Nat /\ HEAP_SIZE > 0
  BY AllocatorAssumption, SMTT(60)
<1>5. 1 \in 1 .. Len(l) /\ l[1].addr = 0
  <2>1. PICK j \in 1 .. Len(l) : 0 \in Bytes(l[j])
    <3>1. 0 \in 0 .. HEAP_SIZE - 1
      BY <1>4, SMTT(60)
    <3>2. QED
      BY <1>3, <3>1
  <2>2. l[j].addr = 0
    BY <1>2, <2>1, SMTT(60) DEF Bytes
  <2>3. 1 \in 1 .. Len(l)
    BY <1>1, SMTT(60)
  <2>4. CASE j = 1
    BY <2>2, <2>3, <2>4
  <2>5. CASE 1 < j
    <3>1. End(l[1]) <= 0
      BY <1>1, <2>2, <2>3, <2>5
    <3>2. QED
      BY <1>2, <2>3, <3>1, SMTT(60)
  <2>6. QED
    BY <2>4, <2>5, SMTT(60)
<1>6. End(l[1]) = HEAP_SIZE
  <2>1. SUFFICES ASSUME End(l[1]) < HEAP_SIZE PROVE FALSE
    BY <1>1, <1>2, <1>4, <1>5, SMTT(60)
  <2>2. End(l[1]) \in 0 .. HEAP_SIZE - 1
    BY <1>2, <1>4, <1>5, <2>1, SMTT(60)
  <2>3. PICK j \in 1 .. Len(l) : End(l[1]) \in Bytes(l[j])
    BY <1>3, <2>2
  <2>4. /\ l[j].addr <= End(l[1]) /\ j # 1
    BY <1>2, <1>5, <2>3, SMTT(60) DEF Bytes
  <2>5. 1 < j /\ 2 \in 1 .. Len(l)
    BY <1>1, <2>4, SMTT(60)
  <2>6. End(l[1]) <= l[2].addr
    BY <1>1, <1>5, <2>5, SMTT(60)
  <2>7. l[2].addr <= l[j].addr
    <3>1. CASE j = 2
      BY <1>2, <2>5, <3>1, SMTT(60)
    <3>2. CASE 2 < j
      <4>1. End(l[2]) <= l[j].addr
        BY <1>1, <2>5, <3>2
      <4>2. QED
        BY <1>2, <2>5, <4>1, SMTT(60)
    <3>3. QED
      BY <1>1, <2>5, <3>1, <3>2, SMTT(60)
  <2>8. End(l[1]) = l[2].addr
    BY <1>2, <1>5, <2>4, <2>5, <2>6, <2>7, SMTT(60)
  <2>9. Touch(l, 1)
    BY <1>1, <2>5, <2>8, SMTT(60) DEF Touch
  <2>10. QED
    BY <2>9 DEF IInv
<1>7. Len(l) = 1
  <2>1. ASSUME 2 \in 1 .. Len(l) PROVE FALSE
    <3>1. End(l[1]) <= l[2].addr
      BY <1>1, <1>5, <2>1, SMTT(60)
    <3>2. /\ l[2].addr \in Nat /\ l[2].size \in Nat /\ l[2].size > 0
          /\ l[2].addr + l[2].size <= HEAP_SIZE
      BY <1>1, <1>2, <2>1
    <3>3. QED
      BY <1>4, <1>6, <3>1, <3>2, SMTT(60)
  <2>2. QED
    BY <1>1, <1>5, <2>1, SMTT(60)
<1>8. l[1] = whole
  <2>1. l[1] \in Block
    BY <1>1, <1>5
  <2>2. l[1].size = HEAP_SIZE
    BY <1>2, <1>4, <1>5, <1>6, SMTT(60)
  <2>3. QED
    BY <1>5, <2>1, <2>2 DEF Block
<1>9. whole \in Block
  BY <1>1, <1>5, <1>8
<1> HIDE DEF whole
<1>10. <<whole>> \in Seq(Block) /\ Len(<<whole>>) = 1 /\ <<whole>>[1] = whole
  BY <1>9, SMTT(60)
<1>11. QED
  BY <1>1, <1>7, <1>8, <1>10, SeqEqual, SMTT(60) DEF whole

\* Fragmentation is never permanent: when all blocks are back, so is the heap.
THEOREM EverythingFreedIsWhole == Spec => []WholeAgain
BY SpecIInv, IInvWholeAgain, PTL

-----------------------------------------------------------------------------
(* The allocator implements Heap                                           *)

\* Every malloc hands out a block that overlaps no block in use and every free
\* takes one back, as module Heap promises; the split and merged blocks of the
\* free list never show.
THEOREM Refinement == Spec => ImplementsHeap
<1>1. Init => Promise!Init
  BY DEF Init, Promise!Init
<1>2. IInv /\ IInv' /\ [Next]_vars => [Promise!Next]_allocated
  <2> SUFFICES ASSUME IInv, IInv', [Next]_vars PROVE [Promise!Next]_allocated
    OBVIOUS
  <2>1. CASE UNCHANGED vars
    BY <2>1 DEF vars
  <2>2. ASSUME NEW size \in Requests, MallocNull(size) PROVE UNCHANGED allocated
    BY <2>2 DEF MallocNull, vars
  <2>3. ASSUME NEW b, allocated' = allocated \cup {b}
        PROVE  [Promise!Next]_allocated
    <3>1. CASE b \in allocated
      BY <2>3, <3>1
    <3>2. CASE b \notin allocated
      <4>1. b \in Block /\ End(b) <= HEAP_SIZE /\ \A c \in allocated : Apart(b, c)
        BY <2>3, <3>2 DEF IInv, AllocatedOK
      <4>2. Promise!Allocate(b) /\ b \in Promise!Block
        BY <2>3, <4>1 DEF Promise!Allocate, Promise!End, Promise!Apart, Promise!Block,
                          End, Apart, Block
      <4>3. QED
        BY <4>2 DEF Promise!Next
    <3>3. QED
      BY <3>1, <3>2
  <2>4. ASSUME NEW size \in Requests, Malloc(size) PROVE [Promise!Next]_allocated
    <3>1. \E b : allocated' = allocated \cup {b}
      BY <2>4 DEF Malloc, Split, UseEntireBlock
    <3>2. QED
      BY <2>3, <3>1
  <2>5. ASSUME NEW b \in allocated, Free(b) PROVE [Promise!Next]_allocated
    <3>1. b \in Promise!Block
      BY DEF IInv, AllocatedOK, Block, Promise!Block
    <3>2. Promise!Release(b)
      BY <2>5 DEF Free, Promise!Release
    <3>3. QED
      BY <3>1, <3>2 DEF Promise!Next
  <2>6. QED
    BY <2>1, <2>2, <2>4, <2>5 DEF Next
<1>3. QED
  BY <1>1, <1>2, SpecIInv, PTL DEF Spec, ImplementsHeap, Promise!Spec
=============================================================================
