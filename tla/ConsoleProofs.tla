---------------------------- MODULE ConsoleProofs ----------------------------
(***************************************************************************)
(* Proofs about module Console, for every size of the buffer and of a      *)
(* line, and every number of keys.  What the shell prints ends inside the  *)
(* buffer, so that the kernel's value of buffer_end, however old it is     *)
(* when it is stored, is at most one too large; and the line editor keeps  *)
(* a stack: the positions, among the keys typed, of those no backspace     *)
(* took away.                                                              *)
(***************************************************************************)
EXTENDS Console, TLAPS, FiniteSetTheorems

\* Steps are first-order reasoning unless they name another prover.
USE ZenonT(60)

\* A set of numbers that is not empty has a least element.
LEMMA LeastNumber ==
    ASSUME NEW S \in SUBSET Nat, S # {}
    PROVE  \E x \in S : \A y \in S : x <= y
<1>1. PICK R : /\ IsWellFoundedOn(R, Nat)
               /\ \A x, y \in Nat : x < y => <<x, y>> \in R
  <2>1. \A x, y \in Nat : x < y => <<x, y>> \in OpToRel(<, Nat)
    BY DEF OpToRel
  <2>2. QED
    BY <2>1, NatLessThanWellFounded
<1>2. S \subseteq Nat /\ IsWellFoundedOn(R, Nat)
  BY <1>1
<1>3. \E x \in S : \A y \in S : ~ (<<y, x>> \in R)
  BY <1>2, WFMin
<1>4. PICK x \in S : \A y \in S : ~ (<<y, x>> \in R)
  BY <1>3
<1>5. \A y \in S : ~ (y < x)
  BY <1>1, <1>4
<1>6. QED
  BY <1>4, <1>5, SMTT(60)

\* The constants that are numbers.
LEMMA Numbers ==
    BUFFER_SIZE \in Nat \ {0} /\ TAB \in Nat \ {0} /\ LINE \in Nat \ {0} /\ KEYS \in Nat
BY ConsoleAssumption

-----------------------------------------------------------------------------
(* screen_print                                                             *)

\* f[n] is the screen after n characters of msg.
Printed(s, msg, m, f) ==
    f = [n \in 0 .. m |-> IF n = 0 THEN s ELSE PrintChar(Room(f[n - 1]), msg[n])]

\* The loop of screen_print has a result.
LEMMA PrintedExists ==
    ASSUME NEW s, NEW msg, NEW m \in Nat
    PROVE  \E f : Printed(s, msg, m, f)
<1> DEFINE Bad == {n \in Nat : ~ \E f : Printed(s, msg, n, f)}
<1>1. ASSUME Bad # {}
      PROVE  FALSE
  <2>1. PICK n \in Bad : \A k \in Bad : n <= k
    BY <1>1, LeastNumber
  <2>2. CASE n = 0
    <3>1. Printed(s, msg, 0, [k \in 0 .. 0 |-> s])
      BY SMTT(60) DEF Printed
    <3>2. QED
      BY <2>1, <2>2, <3>1
  <2>3. CASE n # 0
    <3>1. PICK g : Printed(s, msg, n - 1, g)
      BY <2>1, <2>3, SMTT(60)
    <3> DEFINE f == [k \in 0 .. n |-> IF k = n THEN PrintChar(Room(g[n - 1]), msg[n]) ELSE g[k]]
    <3>2. \A k \in 0 .. n : f[k] = IF k = 0 THEN s ELSE PrintChar(Room(f[k - 1]), msg[k])
      BY <2>3, <3>1, SMTT(60) DEF Printed
    <3>3. Printed(s, msg, n, f)
      BY <3>2 DEF Printed
    <3>4. QED
      BY <2>1, <3>3
  <2>4. QED
    BY <2>2, <2>3
<1>2. QED
  BY <1>1

\* What PrintAll returns is the last value of its recursion.
LEMMA PrintAllIs ==
    ASSUME NEW s, NEW msg, Len(msg) \in Nat
    PROVE  \E f : Printed(s, msg, Len(msg), f) /\ PrintAll(s, msg) = f[Len(msg)]
<1> DEFINE g == CHOOSE f : Printed(s, msg, Len(msg), f)
<1>1. Printed(s, msg, Len(msg), g)
  BY PrintedExists
<1>2. PrintAll(s, msg) = g[Len(msg)]
  BY DEF PrintAll, Printed
<1>3. QED
  BY <1>1, <1>2

\* What can stand on the screen.
Cell == STRING \cup Keys \cup {"", " ", "newline"}

\* A screen's text and end.
Screen(most) == [text : [0 .. BUFFER_SIZE -> Cell], end : 0 .. most]

\* One character, printed where there is room, ends inside the buffer.
LEMMA CharPrinted ==
    ASSUME NEW s \in Screen(BUFFER_SIZE + 1), NEW c \in Cell
    PROVE  PrintChar(Room(s), c) \in Screen(BUFFER_SIZE)
<1>1. PICK r \in Screen(BUFFER_SIZE - 1) : Room(s) = r
  <2>1. Room(s) \in Screen(BUFFER_SIZE - 1)
    <3>1. CASE s.end >= BUFFER_SIZE
      BY <3>1, Numbers, SMTT(60) DEF Screen, Room
    <3>2. CASE s.end < BUFFER_SIZE
      BY <3>2, Numbers, SMTT(60) DEF Screen, Room
    <3>3. QED
      BY <3>1, <3>2, Numbers, SMTT(60) DEF Screen
  <2>2. QED
    BY <2>1
<1> DEFINE t == r.text
           e == r.end
<1>6. t \in [0 .. BUFFER_SIZE -> Cell] /\ e \in Nat /\ e < BUFFER_SIZE
  BY Numbers, SMTT(60) DEF Screen
<1> HIDE DEF t, e
<1>7. PICK zero \in Cell, blank \in Cell : zero = "" /\ blank = " "
  BY DEF Cell
<1>2. CASE c = "backspace"
  <2>1. PrintChar(r, c) = IF e > 0 THEN [text |-> [t EXCEPT ![e] = zero], end |-> e - 1] ELSE r
    BY <1>2, <1>7 DEF PrintChar, t, e
  <2>2. r \in Screen(BUFFER_SIZE)
    BY Numbers, SMTT(60) DEF Screen
  <2>3. e > 0 => [text |-> [t EXCEPT ![e] = zero], end |-> e - 1] \in Screen(BUFFER_SIZE)
    BY <1>6, Numbers, SMTT(60) DEF Screen
  <2>4. QED
    BY <1>1, <2>1, <2>2, <2>3
<1>3. CASE c = "tab"
  <2>1. PrintChar(r, c) = Spaces(r, TAB - (e % TAB))
    BY <1>3 DEF PrintChar, e
  <2>2. e % TAB \in 0 .. TAB - 1
    BY <1>6, Numbers, SMTT(60)
  <2>3. PICK n \in Nat : n = TAB - (e % TAB)
    BY <2>2, Numbers, SMTT(60)
  <2> DEFINE last == IF e + n <= BUFFER_SIZE THEN e + n ELSE BUFFER_SIZE
             text == [i \in DOMAIN t |-> IF e <= i /\ i < last THEN blank ELSE t[i]]
  <2>6. text \in [0 .. BUFFER_SIZE -> Cell] /\ last \in 0 .. BUFFER_SIZE
    BY <1>6, Numbers, SMTT(60)
  <2>7. Spaces(r, n) = [text |-> text, end |-> last]
    BY <1>7 DEF Spaces, t, e
  <2> HIDE DEF last, text
  <2>4. Spaces(r, n) \in Screen(BUFFER_SIZE)
    BY <2>6, <2>7, SMTT(60) DEF Screen
  <2>5. QED
    BY <1>1, <2>1, <2>3, <2>4
<1>4. CASE c \notin {"backspace", "tab"}
  <2>1. PrintChar(r, c) = [text |-> [t EXCEPT ![e] = c], end |-> e + 1]
    BY <1>4 DEF PrintChar, Put, t, e
  <2>2. QED
    BY <1>1, <1>6, <2>1, Numbers, SMTT(60) DEF Screen
<1>5. QED
  BY <1>2, <1>3, <1>4

\* A message leaves the screen as it is, or its end inside the buffer.
LEMMA MessagePrinted ==
    ASSUME NEW s \in Screen(BUFFER_SIZE + 1), NEW msg \in Seq(Cell)
    PROVE  /\ PrintAll(s, msg) \in Screen(BUFFER_SIZE + 1)
           /\ PrintAll(s, msg) = s \/ PrintAll(s, msg) \in Screen(BUFFER_SIZE)
<1>1. PICK f : Printed(s, msg, Len(msg), f) /\ PrintAll(s, msg) = f[Len(msg)]
  BY PrintAllIs, SMTT(60)
<1>2. /\ f[0] = s
      /\ \A n \in 1 .. Len(msg) : f[n] = PrintChar(Room(f[n - 1]), msg[n])
  BY <1>1, SMTT(60) DEF Printed
<1> DEFINE Good(n) == f[n] = s \/ f[n] \in Screen(BUFFER_SIZE)
<1> DEFINE Bad == {n \in 0 .. Len(msg) : ~ Good(n)}
<1>3. Screen(BUFFER_SIZE) \subseteq Screen(BUFFER_SIZE + 1)
  BY Numbers, SMTT(60) DEF Screen
<1>4. ASSUME Bad # {}
      PROVE  FALSE
  <2>1. Bad \in SUBSET Nat
    BY SMTT(60)
  <2>2. PICK n \in Bad : \A k \in Bad : n <= k
    BY <1>4, <2>1, LeastNumber
  <2>3. n # 0
    BY <1>2, <2>2
  <2>4. n - 1 \in 0 .. Len(msg) /\ n - 1 \notin Bad
    BY <2>2, <2>3, SMTT(60)
  <2>5. f[n - 1] \in Screen(BUFFER_SIZE + 1)
    BY <1>3, <2>4
  <2>6. msg[n] \in Cell /\ f[n] = PrintChar(Room(f[n - 1]), msg[n])
    BY <1>2, <2>2, <2>3, SMTT(60)
  <2>7. f[n] \in Screen(BUFFER_SIZE)
    BY <2>5, <2>6, CharPrinted
  <2>8. QED
    BY <2>2, <2>7
<1>5. Good(Len(msg))
  BY <1>4, SMTT(60)
<1>6. QED
  BY <1>1, <1>3, <1>5

\* One character.
LEMMA OnePrinted ==
    ASSUME NEW s, NEW c
    PROVE  PrintAll(s, <<c>>) = PrintChar(Room(s), c)
<1>1. Len(<<c>>) = 1 /\ <<c>>[1] = c
  OBVIOUS
<1>2. PICK f : Printed(s, <<c>>, 1, f) /\ PrintAll(s, <<c>>) = f[1]
  BY <1>1, PrintAllIs
<1>3. f[0] = s
  BY <1>2, SMTT(60) DEF Printed
<1>4. f[1] = PrintChar(Room(f[0]), <<c>>[1])
  BY <1>2, SMTT(60) DEF Printed
<1>5. QED
  BY <1>1, <1>2, <1>3, <1>4

-----------------------------------------------------------------------------
(* The keys that no backspace took away                                     *)

\* Counting.
LEMMA CountIsFinite ==
    ASSUME NEW s, NEW a \in Nat, NEW b \in Nat, NEW S
    PROVE  LET T == {n \in a .. b : s[n] \in S}
           IN  IsFiniteSet(T) /\ Cardinality(T) \in Nat
<1> DEFINE T == {n \in a .. b : s[n] \in S}
<1>1. T \in SUBSET (a .. b)
  OBVIOUS
<1>2. IsFiniteSet(a .. b)
  BY FS_Interval, SMTT(60)
<1>3. IsFiniteSet(T)
  BY <1>1, <1>2, FS_Subset
<1>4. Cardinality(T) \in Nat
  BY <1>3, FS_CardinalityType
<1>5. QED
  BY <1>3, <1>4

\* A count of keys is a number.
LEMMA CountIsNat ==
    \A s, S : \A a, b \in Nat :
        Count(s, a, b, S) \in Nat /\ (a > b => Count(s, a, b, S) = 0)
<1> SUFFICES ASSUME NEW s, NEW S, NEW a \in Nat, NEW b \in Nat
             PROVE  Count(s, a, b, S) \in Nat /\ (a > b => Count(s, a, b, S) = 0)
  OBVIOUS
<1>1. Count(s, a, b, S) \in Nat
  BY CountIsFinite DEF Count
<1>2. ASSUME a > b
      PROVE  Count(s, a, b, S) = 0
  <2>1. {n \in a .. b : s[n] \in S} = {}
    BY <1>2, SMTT(60)
  <2>2. QED
    BY <2>1, FS_EmptySet DEF Count
<1>3. QED
  BY <1>1, <1>2

\* The count over a prefix looks at that prefix only.
LEMMA CountPrefix ==
    ASSUME NEW s \in Seq(Keys), NEW c \in Keys, NEW S,
           NEW a \in Nat \ {0}, NEW b \in 0 .. Len(s)
    PROVE  Count(Append(s, c), a, b, S) = Count(s, a, b, S)
<1> DEFINE t == Append(s, c)
<1>1. \A n \in 1 .. Len(s) : t[n] = s[n]
  BY SMTT(60)
<1> HIDE DEF t
<1>2. {n \in a .. b : t[n] \in S} = {n \in a .. b : s[n] \in S}
  BY <1>1, SMTT(60)
<1>3. QED
  BY <1>2 DEF Count, t

\* One more key counts for one or for nothing.
LEMMA CountAppend ==
    ASSUME NEW s \in Seq(Keys), NEW c \in Keys, NEW S, NEW a \in 1 .. Len(s) + 1
    PROVE  Count(Append(s, c), a, Len(s) + 1, S)
             = IF c \in S THEN Count(s, a, Len(s), S) + 1 ELSE Count(s, a, Len(s), S)
<1> DEFINE t == Append(s, c)
<1>1. /\ Len(s) \in Nat /\ t[Len(s) + 1] = c
      /\ \A n \in 1 .. Len(s) : t[n] = s[n]
  BY SMTT(60)
<1> HIDE DEF t
<1> DEFINE l == Len(s)
           T == {n \in a .. l : s[n] \in S}
           U == {n \in a .. l + 1 : t[n] \in S}
<1>3. U = IF c \in S THEN T \cup {l + 1} ELSE T
  BY <1>1, SMTT(60)
<1>4. IsFiniteSet(T) /\ l + 1 \notin T /\ Cardinality(T) \in Nat
  <2>1. l + 1 \notin T /\ a \in Nat /\ l \in Nat
    BY <1>1, SMTT(60)
  <2>2. QED
    BY <2>1, CountIsFinite
<1> HIDE DEF T, U
<1>5. Cardinality(T \cup {l + 1}) = Cardinality(T) + 1
  BY <1>4, FS_AddElement
<1>6. Cardinality(U) = IF c \in S THEN Cardinality(T) + 1 ELSE Cardinality(T)
  BY <1>3, <1>4, <1>5
<1>7. QED
  BY <1>6 DEF Count, t, T, U

\* How many more characters than backspaces follow the n-th key, up to the m-th.
Surplus(s, n, m) ==
    Count(s, n + 1, m, Characters) - Count(s, n + 1, m, {"backspace"})

\* What the next key adds to it.
Worth(c) == IF c \in Characters THEN 1 ELSE IF c = "backspace" THEN -1 ELSE 0

\* The keys typed and erased, in numbers.
LEMMA SurplusFacts ==
    ASSUME NEW s \in Seq(Keys), NEW c \in Keys, NEW n \in 0 .. Len(s)
    PROVE  /\ \A m \in 0 .. Len(s) :
                /\ Surplus(s, n, m) \in Int
                /\ Surplus(Append(s, c), n, m) = Surplus(s, n, m)
           /\ Surplus(s, n, n) = 0
           /\ Surplus(Append(s, c), n, Len(s) + 1) = Surplus(s, n, Len(s)) + Worth(c)
<1> DEFINE a == n + 1
<1>1. a \in 1 .. Len(s) + 1 /\ a \in Nat \ {0} /\ Len(s) \in Nat /\ a > n
  BY SMTT(60)
<1> HIDE DEF a
<1>2. ASSUME NEW m \in 0 .. Len(s)
      PROVE  /\ Surplus(s, n, m) \in Int
             /\ Surplus(Append(s, c), n, m) = Surplus(s, n, m)
  <2>1. ASSUME NEW S
        PROVE  /\ Count(Append(s, c), a, m, S) = Count(s, a, m, S)
               /\ Count(s, a, m, S) \in Nat
    <3>1. Count(Append(s, c), a, m, S) = Count(s, a, m, S)
      BY <1>1, CountPrefix
    <3>2. QED
      BY <1>1, <3>1, CountIsNat, SMTT(60)
  <2>2. QED
    BY <2>1, SMTT(60) DEF Surplus, a
<1>3. Surplus(s, n, n) = 0
  BY <1>1, CountIsNat, SMTT(60) DEF Surplus, a
<1>4. "backspace" \notin Characters
  BY ConsoleAssumption DEF Controls
<1>5. Surplus(Append(s, c), n, Len(s) + 1) = Surplus(s, n, Len(s)) + Worth(c)
  <2>1. ASSUME NEW S
        PROVE  Count(Append(s, c), a, Len(s) + 1, S)
                 = IF c \in S THEN Count(s, a, Len(s), S) + 1 ELSE Count(s, a, Len(s), S)
    BY <1>1, CountAppend
  <2>2. \A S : Count(s, a, Len(s), S) \in Nat
    BY <1>1, CountIsNat
  <2>3. QED
    BY <1>4, <2>1, <2>2, SMTT(60) DEF Surplus, Worth, a
<1>6. QED
  BY <1>2, <1>3, <1>5

\* p[1] < ... < p[k] are the places of the characters of s that are kept.  As many
\* characters as stand above one of them on the stack are its surplus.
Stack(s, k, p) ==
    /\ p \in [1 .. k -> 1 .. Len(s)]
    /\ \A i, j \in 1 .. k : i < j => p[i] < p[j]
    /\ \A i \in 1 .. k :
         /\ s[p[i]] \in Characters
         /\ Surplus(s, p[i], Len(s)) = k - i
         /\ \A m \in p[i] + 1 .. Len(s) : Surplus(s, p[i], m) >= 0
    /\ \A n \in 1 .. Len(s) :
         s[n] \in Characters =>
           \/ \E i \in 1 .. k : n = p[i]
           \/ \E m \in n + 1 .. Len(s) : Surplus(s, n, m) < 0

\* Kept reads the stack from the bottom.
LEMMA KeptIsStack ==
    ASSUME NEW s \in Seq(Keys), NEW k \in Nat, NEW p, Stack(s, k, p)
    PROVE  /\ Kept(s) = [i \in 1 .. k |-> s[p[i]]]
           /\ Len(Kept(s)) = k
<1> DEFINE kept == {n \in DOMAIN s :
                   /\ s[n] \in Characters
                   /\ \A m \in n + 1 .. Len(s) :
                        Count(s, n + 1, m, {"backspace"}) <= Count(s, n + 1, m, Characters)}
<1>1. p \in [1 .. k -> Nat] /\ \A i, j \in 1 .. k : i < j => p[i] < p[j]
  BY SMTT(60) DEF Stack
<1>2. kept = {p[i] : i \in 1 .. k}
  <2>1. ASSUME NEW n \in 1 .. Len(s), NEW m \in n + 1 .. Len(s)
        PROVE  /\ Surplus(s, n, m) \in Int
               /\ Count(s, n + 1, m, {"backspace"}) <= Count(s, n + 1, m, Characters)
                    <=> Surplus(s, n, m) >= 0
    <3>1. \A S : Count(s, n + 1, m, S) \in Nat
      BY CountIsNat, SMTT(60)
    <3>2. QED
      BY <3>1, SMTT(60) DEF Surplus
  <2>2. DOMAIN s = 1 .. Len(s)
    BY SMTT(60)
  <2>3. ASSUME NEW n \in kept
        PROVE  n \in {p[i] : i \in 1 .. k}
    <3>1. n \in 1 .. Len(s) /\ s[n] \in Characters
      BY <2>2, <2>3
    <3>2. \A m \in n + 1 .. Len(s) : ~ (Surplus(s, n, m) < 0)
      BY <2>1, <2>3, <3>1, SMTT(60)
    <3>3. QED
      BY <3>1, <3>2 DEF Stack
  <2>4. ASSUME NEW i \in 1 .. k
        PROVE  p[i] \in kept
    <3>1. p[i] \in 1 .. Len(s) /\ s[p[i]] \in Characters
      BY DEF Stack
    <3>2. \A m \in p[i] + 1 .. Len(s) : Surplus(s, p[i], m) >= 0
      BY DEF Stack
    <3>3. QED
      BY <2>1, <2>2, <3>1, <3>2
  <2>5. QED
    BY <2>3, <2>4
<1> HIDE DEF kept
<1>3. ASSUME NEW i \in 1 .. k + 1
      PROVE  /\ IsFiniteSet({p[j] : j \in 1 .. i - 1})
             /\ Cardinality({p[j] : j \in 1 .. i - 1}) = i - 1
  <2> DEFINE T == {p[j] : j \in 1 .. i - 1}
             f == [j \in 1 .. i - 1 |-> p[j]]
  <2>1. \A j, l \in 1 .. i - 1 : f[j] = f[l] => j = l
    BY <1>1, SMTT(60)
  <2>2. f \in [1 .. i - 1 -> T] /\ \A t \in T : \E j \in 1 .. i - 1 : f[j] = t
    OBVIOUS
  <2> HIDE DEF T, f
  <2>3. f \in Bijection(1 .. i - 1, T)
    BY <2>1, <2>2 DEF Bijection, Injection, Surjection, IsInjective
  <2>4. IsFiniteSet(1 .. i - 1) /\ Cardinality(1 .. i - 1) = i - 1
    BY FS_Interval, SMTT(60)
  <2>5. ExistsBijection(1 .. i - 1, T)
    BY <2>3 DEF ExistsBijection
  <2>6. IsFiniteSet(T) /\ Cardinality(T) = Cardinality(1 .. i - 1)
    BY <2>4, <2>5, FS_Bijection
  <2>7. QED
    BY <2>4, <2>6 DEF T
<1>4. Cardinality(kept) = k
  <2>1. k + 1 \in 1 .. k + 1 /\ (k + 1) - 1 = k
    BY SMTT(60)
  <2>2. Cardinality({p[j] : j \in 1 .. (k + 1) - 1}) = (k + 1) - 1
    BY <1>3, <2>1
  <2>3. QED
    BY <1>2, <2>1, <2>2
<1>5. ASSUME NEW i \in 1 .. k
      PROVE  Cardinality({m \in kept : m < p[i]}) = i - 1
  <2>1. {m \in kept : m < p[i]} = {p[j] : j \in 1 .. i - 1}
    BY <1>1, <1>2, SMTT(60)
  <2>2. i \in 1 .. k + 1
    BY SMTT(60)
  <2>3. QED
    BY <1>3, <2>1, <2>2
<1>6. ASSUME NEW i \in 1 .. k
      PROVE  (CHOOSE n \in kept : Cardinality({m \in kept : m < n}) = i - 1) = p[i]
  <2>1. p[i] \in kept /\ Cardinality({m \in kept : m < p[i]}) = i - 1
    BY <1>2, <1>5
  <2>2. ASSUME NEW n \in kept, Cardinality({m \in kept : m < n}) = i - 1
        PROVE  n = p[i]
    <3>1. PICK j \in 1 .. k : n = p[j]
      BY <1>2
    <3>2. j = i
      BY <1>5, <2>2, <3>1, SMTT(60)
    <3>3. QED
      BY <3>1, <3>2
  <2>3. QED
    BY <2>1, <2>2
<1>7. Kept(s) = [i \in 1 .. k |->
                   s[CHOOSE n \in kept : Cardinality({m \in kept : m < n}) = i - 1]]
  BY <1>4 DEF Kept, kept
<1>8. Kept(s) = [i \in 1 .. k |-> s[p[i]]]
  BY <1>6, <1>7
<1>9. QED
  BY <1>8, SMTT(60)

\* What a stack is made of, after one more key.
LEMMA NextKey ==
    ASSUME NEW s \in Seq(Keys), NEW c \in Keys
    PROVE  LET t == Append(s, c)
               l == Len(s)
           IN  /\ l \in Nat /\ Len(t) = l + 1 /\ t[l + 1] = c
               /\ \A n \in 1 .. l : t[n] = s[n]
               /\ \A n \in 1 .. l, m \in 1 .. l :
                    Surplus(s, n, m) \in Int /\ Surplus(t, n, m) = Surplus(s, n, m)
               /\ \A n \in 1 .. l : Surplus(t, n, l + 1) = Surplus(s, n, l) + Worth(c)
               /\ Surplus(t, l + 1, l + 1) = 0
<1> DEFINE t == Append(s, c)
           l == Len(s)
<1>1. /\ l \in Nat /\ Len(t) = l + 1 /\ t[l + 1] = c /\ t \in Seq(Keys)
      /\ \A n \in 1 .. l : t[n] = s[n]
  BY SMTT(60)
<1>2. ASSUME NEW n \in 1 .. l
      PROVE  /\ \A m \in 1 .. l : Surplus(s, n, m) \in Int /\ Surplus(t, n, m) = Surplus(s, n, m)
             /\ Surplus(t, n, l + 1) = Surplus(s, n, l) + Worth(c)
  BY SurplusFacts, SMTT(60)
<1>3. Surplus(t, l + 1, l + 1) = 0
  <2>1. l + 1 \in 0 .. Len(t)
    BY <1>1, SMTT(60)
  <2>2. QED
    BY <1>1, <2>1, SurplusFacts
<1>4. QED
  BY <1>1, <1>2, <1>3

\* A character is put on the stack.
LEMMA StackPush ==
    ASSUME NEW s \in Seq(Keys), NEW c \in Characters, NEW k \in Nat, NEW p, Stack(s, k, p)
    PROVE  Stack(Append(s, c), k + 1,
                 [i \in 1 .. k + 1 |-> IF i = k + 1 THEN Len(s) + 1 ELSE p[i]])
<1> DEFINE t == Append(s, c)
           l == Len(s)
           q == [i \in 1 .. k + 1 |-> IF i = k + 1 THEN l + 1 ELSE p[i]]
<1>1. c \in Keys /\ Worth(c) = 1
  BY DEF Keys, Worth
<1>2. /\ l \in Nat /\ Len(t) = l + 1 /\ t[l + 1] = c
      /\ \A n \in 1 .. l : t[n] = s[n]
  BY <1>1, NextKey
<1>3. /\ \A n \in 1 .. l, m \in 1 .. l :
           Surplus(s, n, m) \in Int /\ Surplus(t, n, m) = Surplus(s, n, m)
      /\ \A n \in 1 .. l : Surplus(t, n, l + 1) = Surplus(s, n, l) + 1
      /\ Surplus(t, l + 1, l + 1) = 0
  BY <1>1, NextKey, SMTT(60)
<1> HIDE DEF t, l
<1>4. p \in [1 .. k -> 1 .. l]
  BY DEF Stack, l
<1>5. \A i, j \in 1 .. k : i < j => p[i] < p[j]
  BY DEF Stack
<1>6. ASSUME NEW i \in 1 .. k
      PROVE  /\ p[i] \in 1 .. l
             /\ s[p[i]] \in Characters
             /\ Surplus(s, p[i], l) = k - i
             /\ \A m \in p[i] + 1 .. l : Surplus(s, p[i], m) >= 0
  BY <1>4 DEF Stack, l
<1>7. \A n \in 1 .. l :
        s[n] \in Characters =>
          \/ \E i \in 1 .. k : n = p[i]
          \/ \E m \in n + 1 .. l : Surplus(s, n, m) < 0
  BY DEF Stack, l
<1>8. /\ \A i \in 1 .. k : q[i] = p[i]
      /\ q[k + 1] = l + 1
  BY SMTT(60)
<1>9. q \in [1 .. k + 1 -> 1 .. l + 1]
  BY <1>2, <1>4, SMTT(60)
<1> HIDE DEF q
<1>10. ASSUME NEW i \in 1 .. k + 1, NEW j \in 1 .. k + 1, i < j
       PROVE  q[i] < q[j]
  <2>1. i \in 1 .. k /\ q[i] = p[i] /\ p[i] \in 1 .. l
    BY <1>4, <1>8, <1>10, SMTT(60)
  <2>2. CASE j = k + 1
    BY <1>2, <1>8, <2>1, <2>2, SMTT(60)
  <2>3. CASE j \in 1 .. k
    BY <1>5, <1>8, <1>10, <2>1, <2>3
  <2>4. QED
    BY <2>2, <2>3, SMTT(60)
<1>11. ASSUME NEW i \in 1 .. k + 1
       PROVE  /\ t[q[i]] \in Characters
              /\ Surplus(t, q[i], l + 1) = (k + 1) - i
              /\ \A m \in q[i] + 1 .. l + 1 : Surplus(t, q[i], m) >= 0
  <2>1. CASE i = k + 1
    BY <1>2, <1>3, <1>8, <2>1, SMTT(60)
  <2>2. CASE i \in 1 .. k
    <3>1. PICK n \in 1 .. l : n = p[i] /\ n = q[i]
      BY <1>6, <1>8, <2>2
    <3>2. s[n] \in Characters /\ Surplus(s, n, l) = k - i
      BY <1>6, <2>2, <3>1
    <3>3. \A m \in n + 1 .. l : Surplus(s, n, m) >= 0
      BY <1>6, <2>2, <3>1
    <3>4. Surplus(t, n, l + 1) = (k + 1) - i
      BY <1>3, <2>2, <3>2, SMTT(60)
    <3>5. \A m \in n + 1 .. l : Surplus(t, n, m) >= 0
      BY <1>3, <3>3, SMTT(60)
    <3>6. \A m \in n + 1 .. l + 1 : Surplus(t, n, m) >= 0
      BY <1>2, <2>2, <3>4, <3>5, SMTT(60)
    <3>7. QED
      BY <1>2, <3>1, <3>2, <3>4, <3>6
  <2>3. QED
    BY <2>1, <2>2, SMTT(60)
<1>12. ASSUME NEW n \in 1 .. l + 1, t[n] \in Characters
       PROVE  \/ \E i \in 1 .. k + 1 : n = q[i]
              \/ \E m \in n + 1 .. l + 1 : Surplus(t, n, m) < 0
  <2>1. CASE n = l + 1
    BY <1>8, <2>1, SMTT(60)
  <2>2. CASE n \in 1 .. l
    <3>1. CASE \E i \in 1 .. k : n = p[i]
      BY <1>8, <3>1, SMTT(60)
    <3>2. CASE \E m \in n + 1 .. l : Surplus(s, n, m) < 0
      BY <1>2, <1>3, <2>2, <3>2, SMTT(60)
    <3>3. QED
      BY <1>2, <1>7, <1>12, <2>2, <3>1, <3>2
  <2>3. QED
    BY <1>2, <2>1, <2>2, SMTT(60)
<1>13. Stack(t, k + 1, q)
  BY <1>2, <1>9, <1>10, <1>11, <1>12 DEF Stack
<1>14. QED
  BY <1>13 DEF t, q, l

\* Any other key leaves the first j of the stack: all, or all but the one that a
\* backspace takes away.
LEMMA StackLeave ==
    ASSUME NEW s \in Seq(Keys), NEW c \in Keys \ Characters, NEW k \in Nat, NEW p,
           Stack(s, k, p),
           NEW j \in Nat, IF c = "backspace" /\ k > 0 THEN j = k - 1 ELSE j = k
    PROVE  Stack(Append(s, c), j, [i \in 1 .. j |-> p[i]])
<1> DEFINE t == Append(s, c)
           l == Len(s)
           q == [i \in 1 .. j |-> p[i]]
           w == Worth(c)
<1>1. c \in Keys /\ c \notin Characters
  OBVIOUS
<1>2. /\ l \in Nat /\ Len(t) = l + 1 /\ t[l + 1] = c
      /\ \A n \in 1 .. l : t[n] = s[n]
  BY <1>1, NextKey
<1>3. /\ \A n \in 1 .. l, m \in 1 .. l :
           Surplus(s, n, m) \in Int /\ Surplus(t, n, m) = Surplus(s, n, m)
      /\ \A n \in 1 .. l : Surplus(t, n, l + 1) = Surplus(s, n, l) + w
  BY <1>1, NextKey
<1> HIDE DEF t, l
<1>4. p \in [1 .. k -> 1 .. l]
  BY DEF Stack, l
<1>5. \A i, h \in 1 .. k : i < h => p[i] < p[h]
  BY DEF Stack
<1>6. ASSUME NEW i \in 1 .. k
      PROVE  /\ p[i] \in 1 .. l
             /\ s[p[i]] \in Characters
             /\ Surplus(s, p[i], l) = k - i
             /\ \A m \in p[i] + 1 .. l : Surplus(s, p[i], m) >= 0
  BY <1>4 DEF Stack, l
<1>7. \A n \in 1 .. l :
        s[n] \in Characters =>
          \/ \E i \in 1 .. k : n = p[i]
          \/ \E m \in n + 1 .. l : Surplus(s, n, m) < 0
  BY DEF Stack, l
<1>8. w \in Int /\ j <= k /\ (k > 0 => j = k + w) /\ (j < k => j = k - 1 /\ w = -1)
  BY <1>1, SMTT(60) DEF Worth
<1> HIDE DEF w
<1>9. /\ \A i \in 1 .. j : i \in 1 .. k /\ q[i] = p[i]
      /\ q \in [1 .. j -> 1 .. l + 1]
  <2>1. \A i \in 1 .. j : i \in 1 .. k
    BY <1>8, SMTT(60)
  <2>2. \A i \in 1 .. j : p[i] \in 1 .. l + 1
    BY <1>2, <1>6, <2>1, SMTT(60)
  <2>3. QED
    BY <2>1, <2>2
<1> HIDE DEF q
<1>10. \A i, h \in 1 .. j : i < h => q[i] < q[h]
  BY <1>5, <1>9
<1>11. ASSUME NEW i \in 1 .. j
       PROVE  /\ t[q[i]] \in Characters
              /\ Surplus(t, q[i], l + 1) = j - i
              /\ \A m \in q[i] + 1 .. l + 1 : Surplus(t, q[i], m) >= 0
  <2>1. PICK n \in 1 .. l : n = p[i] /\ n = q[i]
    BY <1>6, <1>9
  <2>2. i \in 1 .. k /\ j = k + w
    BY <1>8, <1>9, SMTT(60)
  <2>3. s[n] \in Characters /\ Surplus(s, n, l) = k - i
    BY <1>6, <2>1, <2>2
  <2>4. \A m \in n + 1 .. l : Surplus(s, n, m) >= 0
    BY <1>6, <2>1, <2>2
  <2>5. Surplus(t, n, l + 1) = j - i
    BY <1>3, <1>8, <2>2, <2>3, SMTT(60)
  <2>6. \A m \in n + 1 .. l : Surplus(t, n, m) >= 0
    BY <1>3, <2>4, SMTT(60)
  <2>7. \A m \in n + 1 .. l + 1 : Surplus(t, n, m) >= 0
    BY <1>2, <2>5, <2>6, SMTT(60)
  <2>8. QED
    BY <1>2, <2>1, <2>3, <2>5, <2>7
<1>12. ASSUME NEW n \in 1 .. l + 1, t[n] \in Characters
       PROVE  \/ \E i \in 1 .. j : n = q[i]
              \/ \E m \in n + 1 .. l + 1 : Surplus(t, n, m) < 0
  <2>1. n \in 1 .. l /\ s[n] \in Characters
    BY <1>1, <1>2, <1>12, SMTT(60)
  <2>2. CASE \E m \in n + 1 .. l : Surplus(s, n, m) < 0
    BY <1>2, <1>3, <2>1, <2>2, SMTT(60)
  <2>3. ASSUME NEW i \in 1 .. k, n = p[i]
        PROVE  \/ \E h \in 1 .. j : n = q[h]
               \/ \E m \in n + 1 .. l + 1 : Surplus(t, n, m) < 0
    <3>1. CASE i \in 1 .. j
      BY <1>9, <2>3, <3>1
    <3>2. CASE i \notin 1 .. j
      <4>1. i = k /\ w = -1
        BY <1>8, <3>2, SMTT(60)
      <4>2. Surplus(s, n, l) = 0
        BY <1>6, <2>3, <4>1, SMTT(60)
      <4>3. Surplus(t, n, l + 1) = -1
        BY <1>3, <2>1, <4>1, <4>2, SMTT(60)
      <4>4. QED
        BY <1>2, <2>1, <4>3, SMTT(60)
    <3>3. QED
      BY <3>1, <3>2
  <2>4. QED
    BY <1>7, <2>1, <2>2, <2>3
<1>13. Stack(t, j, q)
  BY <1>2, <1>9, <1>10, <1>11, <1>12 DEF Stack
<1>14. QED
  BY <1>13 DEF t, q

-----------------------------------------------------------------------------
(* The inductive invariant                                                  *)

\* The kernel's value of buffer_end, and what it is about to load, is inside the
\* buffer; while it prints there is something left.
KernelInside ==
    /\ kpc = "load" => buffer_end <= BUFFER_SIZE
    /\ kpc \in {"bump", "put"} => reg \in 0 .. BUFFER_SIZE
    /\ Printing => message # <<>>

TypeInv ==
    /\ buffer \in [0 .. BUFFER_SIZE -> Cell]
    /\ buffer_end \in 0 .. BUFFER_SIZE + 1
    /\ scroll \in Nat
    /\ io_keyboard_buffer \in Keys \cup {"none"}
    /\ kpc \in {"read", "up", "down", "scroll", "check", "reset", "load", "bump", "put"}
    /\ message \in Seq(Cell)
    /\ reg \in Int
    /\ spc \in {"prompt", "read", "key", "command"}
    /\ key \in Keys \cup {"none"}
    /\ spc = "key" => key \in Keys
    /\ line \in [0 .. LINE - 1 -> Cell]
    /\ counter \in 0 .. LINE - 1
    /\ keys \in Seq(Keys)
    /\ mark \in Nat
    /\ quiet \in BOOLEAN

\* The value of a byte that is not used.
Zero == ""

\* The line l is the stack of the k characters kept of s, and zeros behind them.
LineOf(s, k, l) ==
    \E p \in [1 .. k -> 1 .. Len(s)] :
        /\ Stack(s, k, p)
        /\ \A i \in 0 .. LINE - 1 : l[i] = IF i < k THEN s[p[i + 1]] ELSE Zero

LineInv == Short => LineOf(keys, counter, line)

NoTab == \A n \in DOMAIN keys : keys[n] # "tab"

\* While only the shell has printed, the line is on the screen.
EchoInv ==
    /\ quiet => ~Printing
    /\ spc = "prompt" => keys = <<>> /\ counter = 0
    /\ quiet /\ spc \in {"read", "key"} /\ Short /\ NoTab =>
         /\ buffer_end = mark + counter
         /\ \A i \in 0 .. counter - 1 : buffer[mark + i] = line[i]

Inv == TypeInv /\ KernelInside /\ LineInv /\ EchoInv

\* The line is short, whatever the keys are that stand in it.
ShortKeys(s) == \A n \in DOMAIN s : Len(Kept(SubSeq(s, 1, n))) < LINE

\* A prefix of keys that fit fits.
LEMMA ShortPrefix ==
    ASSUME NEW s \in Seq(Keys), NEW c \in Keys, ShortKeys(Append(s, c))
    PROVE  ShortKeys(s) /\ Len(Kept(Append(s, c))) < LINE
<1> DEFINE t == Append(s, c)
<1>1. /\ \A n \in DOMAIN s : n \in DOMAIN t /\ SubSeq(t, 1, n) = SubSeq(s, 1, n)
      /\ Len(s) + 1 \in DOMAIN t /\ SubSeq(t, 1, Len(s) + 1) = t
  BY SMTT(60)
<1>2. QED
  BY <1>1 DEF ShortKeys

\* screen_print as one step.
LEMMA ScreenPrint ==
    ASSUME TypeInv, NEW msg \in Seq(Cell), screen_print(msg)
    PROVE  /\ buffer' \in [0 .. BUFFER_SIZE -> Cell]
           /\ buffer_end' \in 0 .. BUFFER_SIZE + 1
           /\ buffer_end' <= BUFFER_SIZE \/ buffer_end' = buffer_end
           /\ scroll' = scroll
<1> DEFINE s == [text |-> buffer, end |-> buffer_end]
           r == PrintAll(s, msg)
<1>1. s \in Screen(BUFFER_SIZE + 1) /\ s.end = buffer_end
  BY DEF TypeInv, Screen
<1>2. buffer' = r.text /\ buffer_end' = r.end /\ scroll' = scroll
  BY DEF screen_print
<1> HIDE DEF s
<1>3. r \in Screen(BUFFER_SIZE + 1) /\ (r = s \/ r \in Screen(BUFFER_SIZE))
  BY <1>1, MessagePrinted
<1> HIDE DEF r
<1>4. QED
  BY <1>1, <1>2, <1>3, Numbers, SMTT(60) DEF Screen

\* Sequences and functions of any sets.
LEMMA WiderSeq ==
    ASSUME NEW S, NEW T, S \subseteq T, NEW s \in Seq(S)
    PROVE  s \in Seq(T)
BY SMTT(60)

\* One place of a function changed, whatever the values are.
LEMMA Updated ==
    ASSUME NEW S, NEW T, NEW f \in [S -> T], NEW x \in S, NEW v \in T
    PROVE  /\ [f EXCEPT ![x] = v] \in [S -> T]
           /\ [f EXCEPT ![x] = v][x] = v
           /\ \A y \in S : y # x => [f EXCEPT ![x] = v][y] = f[y]
OBVIOUS

\* Messages are made of cells.
LEMMA MessagesAreCells ==
    /\ Prompt \in Seq(Cell) /\ Message \in Seq(Cell) /\ Message # <<>>
    /\ Outputs \subseteq Seq(Cell)
    /\ \A k \in Keys : <<k>> \in Seq(Cell)
    /\ <<"newline">> \in Seq(Cell)
<1>1. STRING \subseteq Cell /\ Keys \subseteq Cell /\ "newline" \in Cell
  BY DEF Cell
<1>2. ASSUME NEW s \in Seq(STRING)
      PROVE  s \in Seq(Cell)
  BY <1>1, WiderSeq
<1>3. /\ Prompt \in Seq(STRING) /\ Message \in Seq(STRING) /\ Message # <<>>
      /\ Outputs \subseteq Seq(STRING)
  BY ConsoleAssumption
<1>4. Prompt \in Seq(Cell) /\ Message \in Seq(Cell) /\ Outputs \subseteq Seq(Cell)
  BY <1>2, <1>3
<1>5. (\A k \in Keys : <<k>> \in Seq(Cell)) /\ <<"newline">> \in Seq(Cell)
  BY <1>1, SMTT(60)
<1>6. QED
  BY <1>3, <1>4, <1>5

\* The line and the counter keep their sizes.
LEMMA EditType ==
    ASSUME TypeInv, is_character(key), key = "backspace" => counter > 0
    PROVE  Edited \in [0 .. LINE - 1 -> Cell] /\ Moved \in 0 .. LINE - 1
<1>1. key \in Keys /\ key \in Cell /\ "" \in Cell
  BY DEF TypeInv, is_character, Keys, Controls, Cell
<1>6. /\ line \in [0 .. LINE - 1 -> Cell]
      /\ counter \in 0 .. LINE - 1 /\ LINE \in Nat \ {0}
  BY Numbers DEF TypeInv
<1>2. CASE key \in Characters
  <2>1. /\ Edited = [line EXCEPT ![counter] = key]
        /\ Moved = IF counter + 1 >= LINE THEN 0 ELSE counter + 1
    BY <1>2 DEF Edited, Moved
  <2>2. Edited \in [0 .. LINE - 1 -> Cell]
    BY <1>1, <1>6, <2>1, Updated
  <2>3. Moved \in 0 .. LINE - 1
    BY <1>6, <2>1, SMTT(60)
  <2>4. QED
    BY <2>2, <2>3
<1>3. CASE key \notin Characters /\ key = "backspace"
  <2>1. /\ Edited = [line EXCEPT ![counter - 1] = ""]
        /\ Moved = counter - 1
    BY <1>3 DEF Edited, Moved
  <2>2. counter - 1 \in 0 .. LINE - 1
    BY <1>3, <1>6, SMTT(60)
  <2>3. Edited \in [0 .. LINE - 1 -> Cell]
    BY <1>1, <1>6, <2>1, <2>2, Updated
  <2>4. QED
    BY <2>1, <2>2, <2>3
<1>4. CASE key \notin Characters /\ key # "backspace"
  BY <1>4 DEF TypeInv, Edited, Moved
<1>5. QED
  BY <1>2, <1>3, <1>4

\* The line a new prompt begins with.
LEMMA NewLineType == NewLine \in [0 .. LINE - 1 -> Cell]
<1>1. PICK zero \in Cell : zero = ""
  BY DEF Cell
<1>2. NewLine = [i \in 0 .. LINE - 1 |-> zero]
  BY <1>1 DEF NewLine
<1>3. QED
  BY <1>2

-----------------------------------------------------------------------------
(* The kernel's and the shell's steps and the end of the buffer.            *)

\* The console starts well formed.
LEMMA InitShape == Init => TypeInv /\ KernelInside
<1> SUFFICES ASSUME Init
             PROVE  TypeInv /\ KernelInside
  OBVIOUS
<1>1. line \in [0 .. LINE - 1 -> Cell]
  BY NewLineType DEF Init
<1>2. buffer \in [0 .. BUFFER_SIZE -> Cell]
  <2>1. PICK zero \in Cell : zero = ""
    BY DEF Cell
  <2>2. buffer = [i \in 0 .. BUFFER_SIZE |-> zero]
    BY <2>1 DEF Init
  <2>3. QED
    BY <2>2
<1>3. /\ buffer_end = 0 /\ mark = 0 /\ scroll = 0 /\ reg = 0 /\ counter = 0
      /\ keys = <<>> /\ message = Message /\ kpc = "check" /\ quiet = FALSE
  BY DEF Init
<1>4. TypeInv
  <2>1. keys \in Seq(Keys) /\ counter \in 0 .. LINE - 1
    BY <1>3, Numbers, SMTT(60)
  <2>2. buffer_end \in 0 .. BUFFER_SIZE + 1 /\ mark \in Nat /\ scroll \in Nat /\ reg \in Int
    BY <1>3, Numbers, SMTT(60)
  <2>3. message \in Seq(Cell) /\ quiet \in BOOLEAN
    BY <1>3, MessagesAreCells
  <2>4. QED
    BY <1>1, <1>2, <2>1, <2>2, <2>3 DEF Init, TypeInv
<1>5. KernelInside
  BY <1>3, MessagesAreCells DEF KernelInside
<1>6. QED
  BY <1>4, <1>5

\* The kernel's steps.
LEMMA KernelShape ==
    ASSUME TypeInv, KernelInside, KeyPressed \/ KernelStep
    PROVE  TypeInv' /\ KernelInside'
<1> USE Numbers
<1>1. CASE KeyPressed
  <2>1. PICK k \in Keys :
         /\ io_keyboard_buffer' = k
         /\ kpc' = CASE k \in {"up", "down"} -> k
                     [] k = "f12" -> "check"
                     [] OTHER -> "read"
         /\ message' = IF k = "f12" THEN Message ELSE <<>>
         /\ quiet' = (quiet /\ k # "f12")
    BY <1>1 DEF KeyPressed
  <2>2. kpc' = IF k \in {"up", "down"} THEN k ELSE IF k = "f12" THEN "check" ELSE "read"
    BY <2>1
  <2>3. UNCHANGED <<screenVars, reg, shellVars, mark>>
    BY <1>1 DEF KeyPressed
  <2>4. message' \in Seq(Cell) /\ (kpc' = "check" => message' # <<>>)
    BY <2>1, <2>2, MessagesAreCells, SMTT(60)
  <2>5. kpc' \in {"read", "up", "down", "check"}
    BY <2>2
  <2>6. io_keyboard_buffer' \in Keys \cup {"none"} /\ quiet' \in BOOLEAN
    BY <2>1
  <2>7. TypeInv'
    BY <2>3, <2>4, <2>5, <2>6 DEF TypeInv, screenVars, shellVars, lineVars
  <2>8. KernelInside'
    BY <2>4, <2>5 DEF KernelInside, Printing
  <2>9. QED
    BY <2>7, <2>8
<1>2. CASE LoadScroll
  BY <1>2, SMTT(60)
     DEF LoadScroll, TypeInv, KernelInside, Printing, screenVars, keyVars, shellVars, lineVars, echoVars
<1>3. CASE StoreScroll
  BY <1>3, SMTT(60)
     DEF StoreScroll, TypeInv, KernelInside, Printing, keyVars, shellVars, lineVars, echoVars
<1>4. CASE CheckEnd
  BY <1>4, SMTT(60)
     DEF CheckEnd, TypeInv, KernelInside, Printing, screenVars, keyVars, shellVars, lineVars, echoVars
<1>5. CASE ResetEnd
  BY <1>5, SMTT(60)
     DEF ResetEnd, TypeInv, KernelInside, Printing, keyVars, shellVars, lineVars, echoVars
<1>6. CASE LoadEnd
  BY <1>6, SMTT(60)
     DEF LoadEnd, TypeInv, KernelInside, Printing, screenVars, keyVars, shellVars, lineVars, echoVars
<1>7. CASE StoreEnd
  BY <1>7, SMTT(60)
     DEF StoreEnd, TypeInv, KernelInside, Printing, keyVars, shellVars, lineVars, echoVars
<1>8. CASE StoreChar
  BY <1>8, SMTT(60)
     DEF StoreChar, TypeInv, KernelInside, Printing, keyVars, shellVars, lineVars, echoVars
<1>9. QED
  BY <1>1, <1>2, <1>3, <1>4, <1>5, <1>6, <1>7, <1>8 DEF KernelStep

\* The shell's steps.
LEMMA ShellShape ==
    ASSUME TypeInv, KernelInside, ShellStep
    PROVE  TypeInv' /\ KernelInside'
<1>1. ASSUME /\ buffer' \in [0 .. BUFFER_SIZE -> Cell]
             /\ buffer_end' \in 0 .. BUFFER_SIZE + 1
             /\ buffer_end' <= BUFFER_SIZE \/ buffer_end' = buffer_end
             /\ scroll' \in Nat,
             UNCHANGED kernelVars,
             io_keyboard_buffer' \in {io_keyboard_buffer, "none"},
             spc' \in {"prompt", "read", "key", "command"},
             key' \in Keys \cup {"none"}, spc' = "key" => key' \in Keys,
             line' \in [0 .. LINE - 1 -> Cell], counter' \in 0 .. LINE - 1,
             keys' \in Seq(Keys), mark' \in Nat, quiet' \in BOOLEAN
      PROVE  TypeInv' /\ KernelInside'
  <2>1. TypeInv'
    BY <1>1 DEF TypeInv, kernelVars
  <2>2. KernelInside'
    BY <1>1 DEF KernelInside, Printing, kernelVars
  <2>3. QED
    BY <2>1, <2>2
<1>2. scroll \in Nat
  BY DEF TypeInv
<1>3. CASE PrintPrompt
  <2>1. /\ screen_print(Prompt) /\ spc' = "read"
        /\ mark' = buffer_end' /\ quiet' = ~Printing
        /\ UNCHANGED <<keyVars, kernelVars, key, lineVars>>
    BY <1>3 DEF PrintPrompt
  <2>2. /\ buffer' \in [0 .. BUFFER_SIZE -> Cell]
        /\ buffer_end' \in 0 .. BUFFER_SIZE + 1
        /\ buffer_end' <= BUFFER_SIZE \/ buffer_end' = buffer_end
        /\ scroll' = scroll
    BY <2>1, ScreenPrint, MessagesAreCells
  <2>3. mark' \in Nat
    BY <2>1, <2>2, Numbers, SMTT(60)
  <2>4. quiet' \in BOOLEAN
    BY <2>1 DEF Printing
  <2>5. QED
    BY <1>1, <1>2, <2>1, <2>2, <2>3, <2>4 DEF TypeInv, keyVars, lineVars
<1>4. CASE read_keyboard
  BY <1>1, <1>4
     DEF read_keyboard, ReadSyscall, TypeInv, screenVars, kernelVars, lineVars, echoVars
<1>5. CASE KeyIgnored
  <2>1. key \in Keys
    BY <1>5 DEF KeyIgnored, TypeInv
  <2>2. keys' = IF is_character(key) THEN Append(keys, key) ELSE keys
    BY <1>5 DEF KeyIgnored
  <2>3. keys' \in Seq(Keys)
    BY <2>1, <2>2, SMTT(60) DEF TypeInv
  <2>4. /\ UNCHANGED <<screenVars, keyVars, kernelVars, line, counter, echoVars>>
        /\ spc' = "read" /\ key' = "none"
    BY <1>5 DEF KeyIgnored, Ignore
  <2>5. buffer_end' = buffer_end
    BY <2>4 DEF screenVars
  <2>6. QED
    BY <1>1, <2>3, <2>4, <2>5 DEF TypeInv, screenVars, keyVars, echoVars
<1>6. CASE KeyTyped
  <2>1. /\ is_character(key) /\ (key = "backspace" => counter > 0)
        /\ line' = Edited /\ counter' = Moved
        /\ screen_print(Echo)
        /\ keys' = Append(keys, key)
        /\ quiet' = (quiet /\ buffer_end < BUFFER_SIZE)
        /\ spc' = IF key = "enter" THEN "command" ELSE "read"
        /\ key' = "none"
        /\ UNCHANGED <<keyVars, kernelVars, mark>>
    BY <1>6 DEF KeyTyped
  <2>2. key \in Keys
    BY <2>1 DEF is_character, Keys, Controls
  <2>3. Echo \in Seq(Cell)
    BY <2>2, MessagesAreCells DEF Echo
  <2>4. /\ buffer' \in [0 .. BUFFER_SIZE -> Cell]
        /\ buffer_end' \in 0 .. BUFFER_SIZE + 1
        /\ buffer_end' <= BUFFER_SIZE \/ buffer_end' = buffer_end
        /\ scroll' = scroll
    BY <2>1, <2>3, ScreenPrint
  <2>5. line' \in [0 .. LINE - 1 -> Cell] /\ counter' \in 0 .. LINE - 1
    BY <2>1, EditType
  <2>6. keys' \in Seq(Keys)
    BY <2>1, <2>2, SMTT(60) DEF TypeInv
  <2>7. spc' \in {"command", "read"}
    BY <2>1
  <2>8. quiet' \in BOOLEAN
    BY <2>1
  <2>9. QED
    BY <1>1, <1>2, <2>1, <2>4, <2>5, <2>6, <2>7, <2>8 DEF TypeInv, keyVars
<1>7. CASE Command
  <2>1. /\ (\E msg \in Outputs : screen_print(msg)) \/ screen_clear
        /\ line' = NewLine /\ counter' = 0 /\ keys' = <<>>
        /\ spc' = "prompt"
        /\ quiet' = FALSE /\ mark' = 0
        /\ UNCHANGED <<keyVars, kernelVars, key>>
    BY <1>7 DEF Command
  <2>2. /\ buffer' \in [0 .. BUFFER_SIZE -> Cell]
        /\ buffer_end' \in 0 .. BUFFER_SIZE + 1
        /\ buffer_end' <= BUFFER_SIZE \/ buffer_end' = buffer_end
        /\ scroll' \in Nat
    <3>1. CASE \E msg \in Outputs : screen_print(msg)
      BY <1>2, <3>1, ScreenPrint, MessagesAreCells
    <3>2. CASE screen_clear
      <4>1. PICK zero \in Cell : zero = ""
        BY DEF Cell
      <4>2. buffer' = [i \in DOMAIN buffer |-> IF i < BUFFER_SIZE THEN zero ELSE buffer[i]]
        BY <3>2, <4>1 DEF screen_clear
      <4>3. buffer' \in [0 .. BUFFER_SIZE -> Cell]
        BY <4>2 DEF TypeInv
      <4>4. buffer_end' = 0 /\ scroll' = 0
        BY <3>2 DEF screen_clear
      <4>5. QED
        BY <4>3, <4>4, Numbers, SMTT(60)
    <3>3. QED
      BY <2>1, <3>1, <3>2
  <2>3. counter' \in 0 .. LINE - 1 /\ keys' \in Seq(Keys) /\ mark' \in Nat
    BY <2>1, Numbers, SMTT(60)
  <2>4. line' \in [0 .. LINE - 1 -> Cell]
    BY <2>1, NewLineType
  <2>5. QED
    BY <1>1, <2>1, <2>2, <2>3, <2>4 DEF TypeInv, keyVars
<1>8. QED
  BY <1>3, <1>4, <1>5, <1>6, <1>7 DEF ShellStep

-----------------------------------------------------------------------------
(* The line                                                                 *)

\* A line holds what is kept.
LEMMA LineIsKept ==
    ASSUME NEW s \in Seq(Keys), NEW k \in Nat, NEW l, LineOf(s, k, l)
    PROVE  /\ Len(Kept(s)) = k
           /\ \A i \in 0 .. LINE - 1 : l[i] = IF i < k THEN Kept(s)[i + 1] ELSE Zero
<1>1. PICK p : /\ Stack(s, k, p)
               /\ \A i \in 0 .. LINE - 1 : l[i] = IF i < k THEN s[p[i + 1]] ELSE Zero
  BY DEF LineOf
<1>2. Kept(s) = [i \in 1 .. k |-> s[p[i]]] /\ Len(Kept(s)) = k
  BY <1>1, KeptIsStack
<1>3. ASSUME NEW i \in 0 .. LINE - 1
      PROVE  l[i] = IF i < k THEN Kept(s)[i + 1] ELSE Zero
  <2>1. CASE i < k
    <3>1. i + 1 \in 1 .. k
      BY <2>1, Numbers, SMTT(60)
    <3>2. QED
      BY <1>1, <1>2, <2>1, <3>1
  <2>2. CASE ~ (i < k)
    BY <1>1, <2>2
  <2>3. QED
    BY <2>1, <2>2
<1>4. QED
  BY <1>2, <1>3

\* A character goes on the line and on the stack.
LEMMA LinePush ==
    ASSUME NEW s \in Seq(Keys), NEW c \in Characters, NEW k \in 0 .. LINE - 1,
           NEW l \in [0 .. LINE - 1 -> Cell], LineOf(s, k, l),
           Len(Kept(Append(s, c))) < LINE
    PROVE  /\ k + 1 < LINE
           /\ LineOf(Append(s, c), k + 1, [l EXCEPT ![k] = c])
<1>0. k \in Nat /\ LINE \in Nat /\ c \in Keys /\ Len(s) \in Nat
  BY Numbers, SMTT(60) DEF Keys
<1>1. PICK p \in [1 .. k -> 1 .. Len(s)] :
          /\ Stack(s, k, p)
          /\ \A i \in 0 .. LINE - 1 : l[i] = IF i < k THEN s[p[i + 1]] ELSE Zero
  BY DEF LineOf
<1> DEFINE t == Append(s, c)
           q == [i \in 1 .. k + 1 |-> IF i = k + 1 THEN Len(s) + 1 ELSE p[i]]
           m == [l EXCEPT ![k] = c]
<1>2. Stack(t, k + 1, q)
  BY <1>0, <1>1, StackPush
<1>3. /\ Len(t) = Len(s) + 1 /\ t[Len(s) + 1] = c /\ t \in Seq(Keys)
      /\ \A n \in 1 .. Len(s) : t[n] = s[n]
  BY <1>0, SMTT(60)
<1>4. Len(Kept(t)) = k + 1
  <2>1. k + 1 \in Nat
    BY <1>0, SMTT(60)
  <2>2. QED
    BY <1>2, <1>3, <2>1, KeptIsStack
<1>5. q \in [1 .. k + 1 -> 1 .. Len(t)]
  BY <1>0, <1>3, SMTT(60)
<1>6. ASSUME NEW i \in 0 .. LINE - 1
      PROVE  m[i] = IF i < k + 1 THEN t[q[i + 1]] ELSE Zero
  <2>1. CASE i = k
    <3>1. q[i + 1] = Len(s) + 1
      BY <1>0, <2>1, SMTT(60)
    <3>2. m[i] = c
      BY <2>1
    <3>3. QED
      BY <1>0, <1>3, <2>1, <3>1, <3>2, SMTT(60)
  <2>2. CASE i < k
    <3>1. q[i + 1] = p[i + 1] /\ p[i + 1] \in 1 .. Len(s)
      BY <1>0, <2>2, SMTT(60)
    <3>2. m[i] = l[i]
      BY <1>0, <2>2, SMTT(60)
    <3>3. QED
      BY <1>0, <1>1, <1>3, <2>2, <3>1, <3>2, SMTT(60)
  <2>3. CASE i > k
    <3>1. m[i] = l[i]
      BY <1>0, <2>3, SMTT(60)
    <3>2. QED
      BY <1>0, <1>1, <2>3, <3>1, SMTT(60)
  <2>4. QED
    BY <1>0, <2>1, <2>2, <2>3, SMTT(60)
<1> HIDE DEF q, m
<1>7. LineOf(t, k + 1, m)
  BY <1>2, <1>5, <1>6 DEF LineOf
<1>8. QED
  BY <1>0, <1>4, <1>7 DEF t, m

\* Another key leaves the line, or takes the last character away.
LEMMA LineLeave ==
    ASSUME NEW s \in Seq(Keys), NEW c \in Keys \ Characters, NEW k \in 0 .. LINE - 1,
           NEW l \in [0 .. LINE - 1 -> Cell], LineOf(s, k, l)
    PROVE  IF c = "backspace" /\ k > 0
             THEN LineOf(Append(s, c), k - 1, [l EXCEPT ![k - 1] = Zero])
             ELSE LineOf(Append(s, c), k, l)
<1>0. k \in Nat /\ LINE \in Nat /\ c \in Keys /\ Len(s) \in Nat
  BY Numbers, SMTT(60)
<1>1. PICK p \in [1 .. k -> 1 .. Len(s)] :
          /\ Stack(s, k, p)
          /\ \A i \in 0 .. LINE - 1 : l[i] = IF i < k THEN s[p[i + 1]] ELSE Zero
  BY DEF LineOf
<1> DEFINE t == Append(s, c)
<1>2. /\ Len(t) = Len(s) + 1
      /\ \A n \in 1 .. Len(s) : t[n] = s[n]
  BY <1>0, SMTT(60)
<1>3. ASSUME NEW j \in Nat, IF c = "backspace" /\ k > 0 THEN j = k - 1 ELSE j = k, j <= k,
             NEW m, \A i \in 0 .. LINE - 1 : m[i] = IF i < j THEN l[i] ELSE Zero
      PROVE  LineOf(t, j, m)
  <2> DEFINE q == [i \in 1 .. j |-> p[i]]
  <2>1. Stack(t, j, q)
    BY <1>0, <1>1, <1>3, StackLeave, SMTT(60)
  <2>2. j <= k
    BY <1>3
  <2>3. \A i \in 1 .. j : q[i] = p[i] /\ p[i] \in 1 .. Len(s)
    BY <1>0, <2>2, SMTT(60)
  <2>4. q \in [1 .. j -> 1 .. Len(t)]
    BY <1>0, <1>2, <2>3, SMTT(60)
  <2> HIDE DEF q
  <2>5. ASSUME NEW i \in 0 .. LINE - 1
        PROVE  m[i] = IF i < j THEN t[q[i + 1]] ELSE Zero
    <3>1. CASE i < j
      <4>1. i + 1 \in 1 .. j /\ i < k
        BY <1>0, <2>2, <3>1, SMTT(60)
      <4>2. t[q[i + 1]] = s[p[i + 1]]
        BY <1>2, <2>3, <4>1
      <4>3. l[i] = s[p[i + 1]]
        BY <1>1, <4>1
      <4>4. QED
        BY <1>3, <3>1, <4>2, <4>3
    <3>2. CASE ~ (i < j)
      BY <1>3, <3>2
    <3>3. QED
      BY <3>1, <3>2
  <2>6. QED
    BY <2>1, <2>4, <2>5 DEF LineOf
<1>4. CASE c = "backspace" /\ k > 0
  <2>0. k - 1 \in 0 .. LINE - 1
    BY <1>0, <1>4, SMTT(60)
  <2> DEFINE m == [l EXCEPT ![k - 1] = Zero]
  <2>1. ASSUME NEW i \in 0 .. LINE - 1
        PROVE  m[i] = IF i < k - 1 THEN l[i] ELSE Zero
    <3>1. CASE i = k - 1
      BY <1>0, <2>0, <3>1, SMTT(60)
    <3>2. CASE i < k - 1
      BY <1>0, <2>0, <3>2, SMTT(60)
    <3>3. CASE i > k - 1
      <4>1. m[i] = l[i]
        BY <1>0, <2>0, <3>3, SMTT(60)
      <4>2. QED
        BY <1>0, <1>1, <3>3, <4>1, SMTT(60)
    <3>4. QED
      BY <1>0, <3>1, <3>2, <3>3, SMTT(60)
  <2> HIDE DEF m
  <2>2. k - 1 \in Nat /\ k - 1 <= k
    BY <1>0, <1>4, SMTT(60)
  <2>3. LineOf(t, k - 1, m)
    BY <1>3, <1>4, <2>1, <2>2
  <2>4. QED
    BY <1>4, <2>3 DEF m
<1>5. CASE ~ (c = "backspace" /\ k > 0)
  <2>1. LineOf(t, k, l)
    BY <1>0, <1>1, <1>3, <1>5, SMTT(60)
  <2>2. QED
    BY <1>5, <2>1
<1>6. QED
  BY <1>4, <1>5

\* A new line.
LEMMA LineEmpty == LineOf(<<>>, 0, NewLine)
<1> DEFINE p == [i \in 1 .. 0 |-> i]
<1>1. Len(<<>>) = 0 /\ DOMAIN <<>> = {}
  BY SMTT(60)
<1>2. p \in [1 .. 0 -> 1 .. Len(<<>>)]
  BY <1>1
<1>3. Stack(<<>>, 0, p)
  BY <1>1, <1>2, SMTT(60) DEF Stack
<1>4. \A i \in 0 .. LINE - 1 : NewLine[i] = Zero
  BY DEF NewLine, Zero
<1> HIDE DEF p
<1>5. \A i \in 0 .. LINE - 1 : NewLine[i] = IF i < 0 THEN <<>>[p[i + 1]] ELSE Zero
  BY <1>4, Numbers, SMTT(60)
<1>6. QED
  BY <1>2, <1>3, <1>5 DEF LineOf

\* Short is about the keys alone.
LEMMA ShortIs == Short <=> ShortKeys(keys)
BY DEF Short, ShortKeys

\* The same after a step.
LEMMA ShortIsNext == Short' <=> ShortKeys(keys')
BY DEF Short, ShortKeys

\* LineInv is inductive.
LEMMA LineStep ==
    ASSUME TypeInv, LineInv, [Next]_vars
    PROVE  LineInv'
<1>1. CASE UNCHANGED lineVars
  BY <1>1, ShortIs, ShortIsNext DEF LineInv, lineVars
<1>2. SUFFICES ASSUME KeyIgnored \/ KeyTyped \/ Command
               PROVE  LineInv'
  <2>1. \/ UNCHANGED lineVars \/ KeyIgnored \/ KeyTyped \/ Command
    BY DEF Next, KernelStep, ShellStep, vars, shellVars, KeyPressed, LoadScroll, StoreScroll,
           CheckEnd, ResetEnd, LoadEnd, StoreEnd, StoreChar, PrintPrompt, read_keyboard
  <2>2. QED
    BY <1>1, <1>2, <2>1
<1>3. /\ keys \in Seq(Keys) /\ counter \in 0 .. LINE - 1
      /\ line \in [0 .. LINE - 1 -> Cell]
  BY DEF TypeInv
<1>4. CASE Command
  <2>1. line' = NewLine /\ counter' = 0 /\ keys' = <<>>
    BY <1>4 DEF Command
  <2>2. QED
    BY <2>1, LineEmpty DEF LineInv
<1>5. ASSUME key \in Keys, keys' = Append(keys, key), ShortKeys(keys')
      PROVE  LineOf(keys, counter, line) /\ Len(Kept(Append(keys, key))) < LINE
  <2>1. ShortKeys(keys) /\ Len(Kept(Append(keys, key))) < LINE
    BY <1>3, <1>5, ShortPrefix
  <2>2. QED
    BY <2>1, ShortIs DEF LineInv
<1>6. CASE KeyIgnored /\ ~ is_character(key)
  <2>1. UNCHANGED lineVars
    BY <1>6 DEF KeyIgnored, lineVars
  <2>2. QED
    BY <1>1, <2>1
<1>7. CASE KeyIgnored /\ is_character(key)
  <2>1. key = "backspace" /\ counter <= 0 /\ keys' = Append(keys, key)
        /\ line' = line /\ counter' = counter
    BY <1>7 DEF KeyIgnored
  <2>2. key \in Keys \ Characters
    BY <2>1, ConsoleAssumption DEF Keys, Controls
  <2>3. ~ (counter > 0)
    BY <1>3, <2>1, SMTT(60)
  <2>4. ASSUME ShortKeys(keys')
        PROVE  LineOf(keys', counter', line')
    <3>1. LineOf(keys, counter, line)
      BY <1>5, <2>1, <2>2, <2>4
    <3>2. LineOf(Append(keys, key), counter, line)
      BY <1>3, <2>2, <2>3, <3>1, LineLeave
    <3>3. QED
      BY <2>1, <3>2
  <2>5. QED
    BY <2>4, ShortIsNext DEF LineInv
<1>8. CASE KeyTyped
  <2>1. /\ is_character(key) /\ (key = "backspace" => counter > 0)
        /\ line' = Edited /\ counter' = Moved /\ keys' = Append(keys, key)
    BY <1>8 DEF KeyTyped
  <2>2. key \in Keys
    BY <2>1 DEF is_character, Keys, Controls
  <2>3. ASSUME ShortKeys(keys')
        PROVE  LineOf(keys', counter', line')
    <3>1. LineOf(keys, counter, line) /\ Len(Kept(Append(keys, key))) < LINE
      BY <1>5, <2>1, <2>2, <2>3
    <3>2. CASE key \in Characters
      <4>1. /\ counter + 1 < LINE
            /\ LineOf(Append(keys, key), counter + 1, [line EXCEPT ![counter] = key])
        BY <1>3, <3>1, <3>2, LinePush
      <4>2. Edited = [line EXCEPT ![counter] = key] /\ Moved = counter + 1
        BY <1>3, <3>2, <4>1, Numbers, SMTT(60) DEF Edited, Moved
      <4>3. QED
        BY <2>1, <4>1, <4>2
    <3>3. CASE key \notin Characters /\ key = "backspace"
      <4>1. LineOf(Append(keys, key), counter - 1, [line EXCEPT ![counter - 1] = Zero])
        BY <1>3, <2>1, <2>2, <3>1, <3>3, LineLeave
      <4>2. Edited = [line EXCEPT ![counter - 1] = Zero] /\ Moved = counter - 1
        BY <3>3 DEF Edited, Moved, Zero
      <4>3. QED
        BY <2>1, <4>1, <4>2
    <3>4. CASE key \notin Characters /\ key # "backspace"
      <4>1. LineOf(Append(keys, key), counter, line)
        BY <1>3, <2>2, <3>1, <3>4, LineLeave
      <4>2. Edited = line /\ Moved = counter
        BY <3>4 DEF Edited, Moved
      <4>3. QED
        BY <2>1, <4>1, <4>2
    <3>5. QED
      BY <3>2, <3>3, <3>4
  <2>4. QED
    BY <2>3, ShortIsNext DEF LineInv
<1>9. QED
  BY <1>2, <1>4, <1>6, <1>7, <1>8

-----------------------------------------------------------------------------
(* The echo                                                                 *)

\* A character printed where there is room for it.
LEMMA EchoPrinted ==
    ASSUME TypeInv, NEW c, screen_print(<<c>>), buffer_end < BUFFER_SIZE
    PROVE  /\ c \notin {"backspace", "tab"} =>
                buffer' = [buffer EXCEPT ![buffer_end] = c] /\ buffer_end' = buffer_end + 1
           /\ c = "backspace" /\ buffer_end > 0 =>
                buffer' = [buffer EXCEPT ![buffer_end] = Zero] /\ buffer_end' = buffer_end - 1
<1> DEFINE s == [text |-> buffer, end |-> buffer_end]
           r == PrintChar(s, c)
<1>1. s.text = buffer /\ s.end = buffer_end
  OBVIOUS
<1>2. Room(s) = s
  BY <1>1, Numbers, SMTT(60) DEF Room, TypeInv
<1>3. PrintAll(s, <<c>>) = r
  BY <1>2, OnePrinted
<1>4. buffer' = r.text /\ buffer_end' = r.end
  BY <1>3 DEF screen_print
<1>5. c \notin {"backspace", "tab"} => r = [text |-> [buffer EXCEPT ![buffer_end] = c],
                                            end |-> buffer_end + 1]
  BY <1>1 DEF PrintChar, Put
<1>6. c = "backspace" /\ buffer_end > 0 => r = [text |-> [buffer EXCEPT ![buffer_end] = Zero],
                                                end |-> buffer_end - 1]
  BY <1>1 DEF PrintChar, Zero
<1> HIDE DEF r
<1>7. \A t, e : r = [text |-> t, end |-> e] => buffer' = t /\ buffer_end' = e
  BY <1>4, SMTT(60)
<1>8. QED
  BY <1>5, <1>6, <1>7

\* There is no tab among fewer keys.
LEMMA NoTabPrefix ==
    ASSUME NEW s \in Seq(Keys), NEW c \in Keys,
           \A n \in DOMAIN Append(s, c) : Append(s, c)[n] # "tab"
    PROVE  (\A n \in DOMAIN s : s[n] # "tab") /\ c # "tab"
<1> DEFINE t == Append(s, c)
<1>1. \A n \in DOMAIN s : n \in DOMAIN t /\ t[n] = s[n]
  BY SMTT(60)
<1>2. Len(s) + 1 \in DOMAIN t /\ t[Len(s) + 1] = c
  BY SMTT(60)
<1>3. QED
  BY <1>1, <1>2

\* EchoInv is inductive.
LEMMA EchoStep ==
    ASSUME Inv, [Next]_vars
    PROVE  EchoInv'
<1> USE DEF Inv
<1>1. /\ quiet \in BOOLEAN /\ quiet' \in BOOLEAN
      /\ keys \in Seq(Keys) /\ counter \in 0 .. LINE - 1
      /\ buffer \in [0 .. BUFFER_SIZE -> Cell] /\ buffer_end \in 0 .. BUFFER_SIZE + 1
      /\ line \in [0 .. LINE - 1 -> Cell] /\ mark \in Nat
  <2>1. TypeInv' \/ UNCHANGED vars
    BY KernelShape, ShellShape DEF Next
  <2>2. quiet' \in BOOLEAN
    BY <2>1 DEF TypeInv, vars, echoVars
  <2>3. QED
    BY <2>2 DEF TypeInv
\* A step that prints nothing.
<1>2. ASSUME UNCHANGED <<screenVars, lineVars, mark>>, quiet' => quiet,
             quiet' => ~Printing', spc' = spc \/ (spc' = "key" /\ spc = "read")
      PROVE  EchoInv'
  <2>1. Short' = Short /\ NoTab' = NoTab
    BY <1>2 DEF Short, NoTab, lineVars
  <2>2. QED
    BY <1>2, <2>1 DEF EchoInv, screenVars, lineVars
\* A step of the kernel while it prints.
<1>3. ASSUME ~quiet', UNCHANGED shellVars
      PROVE  EchoInv'
  BY <1>3 DEF EchoInv, shellVars, lineVars
<1>4. CASE UNCHANGED vars
  <2>1. UNCHANGED <<screenVars, lineVars, mark>> /\ kpc' = kpc /\ quiet' = quiet /\ spc' = spc
    BY <1>4 DEF vars, shellVars, echoVars, kernelVars
  <2>2. quiet' => ~Printing'
    BY <2>1 DEF EchoInv, Printing
  <2>3. QED
    BY <1>2, <2>1, <2>2
<1>5. CASE KeyPressed
  <2>1. PICK k \in Keys :
         /\ kpc' = CASE k \in {"up", "down"} -> k
                     [] k = "f12" -> "check"
                     [] OTHER -> "read"
         /\ quiet' = (quiet /\ k # "f12")
    BY <1>5 DEF KeyPressed
  <2>2. UNCHANGED <<screenVars, lineVars, mark>> /\ spc' = spc
    BY <1>5 DEF KeyPressed, shellVars
  <2>3. k # "f12" => kpc' \in {"up", "down", "read"}
    BY <2>1
  <2>4. quiet' => quiet /\ k # "f12"
    BY <2>1
  <2>5. quiet' => ~Printing'
    BY <2>3, <2>4 DEF Printing
  <2>6. QED
    BY <1>2, <2>2, <2>4, <2>5
<1>6. CASE LoadScroll
  <2>1. /\ kpc' = "scroll" /\ spc' = spc /\ quiet' = quiet
        /\ UNCHANGED <<screenVars, lineVars, mark>>
    BY <1>6 DEF LoadScroll, shellVars, echoVars
  <2>2. ~Printing'
    BY <2>1 DEF Printing
  <2>3. QED
    BY <1>2, <2>1, <2>2
<1>7. CASE StoreScroll
  <2>1. kpc' = "read" /\ UNCHANGED <<buffer, buffer_end, shellVars, echoVars>>
    BY <1>7 DEF StoreScroll
  <2>2. ~Printing'
    BY <2>1 DEF Printing
  <2>3. Short' = Short /\ NoTab' = NoTab
    BY <2>1 DEF Short, NoTab, shellVars, lineVars
  <2>4. QED
    BY <2>1, <2>2, <2>3 DEF EchoInv, shellVars, lineVars, echoVars
<1>8. CASE CheckEnd \/ ResetEnd \/ LoadEnd \/ StoreEnd \/ StoreChar
  <2>1. Printing /\ UNCHANGED <<shellVars, echoVars>>
    BY <1>8 DEF CheckEnd, ResetEnd, LoadEnd, StoreEnd, StoreChar, Printing
  <2>2. ~quiet'
    BY <2>1 DEF EchoInv, echoVars
  <2>3. QED
    BY <1>3, <2>1, <2>2
<1>9. CASE PrintPrompt
  <2>1. /\ spc = "prompt" /\ spc' = "read" /\ mark' = buffer_end' /\ quiet' = ~Printing
        /\ UNCHANGED <<kernelVars, lineVars>>
    BY <1>9 DEF PrintPrompt
  <2>2. counter' = 0
    BY <2>1 DEF EchoInv, lineVars
  <2>3. buffer_end' = mark' + counter'
    <3>1. TypeInv'
      BY <1>9, ShellShape DEF ShellStep
    <3>2. buffer_end' \in Nat
      BY <3>1, Numbers, SMTT(60) DEF TypeInv
    <3>3. mark' = buffer_end'
      BY <2>1
    <3>4. \A x \in Nat : x + 0 = x
      BY SMTT(60)
    <3>5. QED
      BY <2>2, <3>2, <3>3, <3>4
  <2>4. \A i \in 0 .. counter' - 1 : buffer'[mark' + i] = line'[i]
    BY <2>2, SMTT(60)
  <2>5. quiet' => ~Printing'
    BY <2>1 DEF kernelVars, Printing
  <2>6. spc' # "prompt"
    BY <2>1
  <2>7. QED
    BY <2>3, <2>4, <2>5, <2>6 DEF EchoInv
<1>10. CASE read_keyboard
  <2>1. /\ spc = "read" /\ spc' = "key"
        /\ UNCHANGED <<screenVars, kernelVars, lineVars, echoVars>>
    BY <1>10 DEF read_keyboard
  <2>2. quiet' => ~Printing'
    BY <2>1 DEF EchoInv, Printing, kernelVars, echoVars
  <2>3. QED
    BY <1>2, <2>1, <2>2 DEF echoVars
<1>11. CASE Command
  <2>1. ~quiet' /\ keys' = <<>> /\ counter' = 0
    BY <1>11 DEF Command
  <2>2. QED
    BY <2>1 DEF EchoInv
<1>12. CASE KeyIgnored
  <2>1. /\ spc = "key" /\ spc' = "read"
        /\ keys' = IF is_character(key) THEN Append(keys, key) ELSE keys
        /\ UNCHANGED <<screenVars, kernelVars, line, counter, echoVars>>
    BY <1>12 DEF KeyIgnored, Ignore
  <2>2. quiet' => ~Printing'
    BY <2>1 DEF EchoInv, Printing, kernelVars, echoVars
  <2>3. key \in Keys
    BY <2>1 DEF TypeInv
  <2>4. Short' => Short
    BY <1>1, <2>1, <2>3, ShortPrefix, ShortIs, ShortIsNext
  <2>5. NoTab' => NoTab
    BY <1>1, <2>1, <2>3, NoTabPrefix DEF NoTab
  <2>6. spc' # "prompt" /\ spc \in {"read", "key"}
    BY <2>1
  <2>7. QED
    BY <2>1, <2>2, <2>4, <2>5, <2>6 DEF EchoInv, screenVars, echoVars
<1>13. CASE KeyTyped
  <2>1. /\ spc = "key" /\ is_character(key) /\ (key = "backspace" => counter > 0)
        /\ line' = Edited /\ counter' = Moved
        /\ screen_print(Echo)
        /\ keys' = Append(keys, key)
        /\ quiet' = (quiet /\ buffer_end < BUFFER_SIZE)
        /\ spc' = IF key = "enter" THEN "command" ELSE "read"
        /\ kpc' = kpc /\ mark' = mark
    BY <1>13 DEF KeyTyped, kernelVars
  <2>2. quiet' => ~Printing'
    BY <2>1 DEF EchoInv, Printing
  <2>3. key \in Keys /\ spc' # "prompt"
    BY <2>1 DEF is_character, Keys, Controls
  <2>4. ASSUME quiet', spc' \in {"read", "key"}, Short', NoTab'
        PROVE  /\ buffer_end' = mark' + counter'
               /\ \A i \in 0 .. counter' - 1 : buffer'[mark' + i] = line'[i]
    <3>1. quiet /\ buffer_end < BUFFER_SIZE
      BY <2>1, <2>4
    <3>2. Short /\ Len(Kept(Append(keys, key))) < LINE
      BY <1>1, <2>1, <2>3, <2>4, ShortPrefix, ShortIs, ShortIsNext
    <3>3. NoTab /\ key # "tab"
      BY <1>1, <2>1, <2>3, <2>4, NoTabPrefix DEF NoTab
    <3>4. buffer_end = mark + counter /\ \A i \in 0 .. counter - 1 : buffer[mark + i] = line[i]
      BY <2>1, <3>1, <3>2, <3>3 DEF EchoInv
    <3>5. key # "enter" /\ key \in Characters \cup {"backspace"}
      BY <2>1, <2>4, <3>3 DEF is_character
    <3>6. screen_print(<<key>>)
      BY <2>1, <3>5 DEF Echo
    <3>7. CASE key \in Characters
      <4>1. key \notin {"backspace", "tab"}
        BY <3>7, ConsoleAssumption DEF Controls
      <4>2. buffer' = [buffer EXCEPT ![buffer_end] = key] /\ buffer_end' = buffer_end + 1
        BY <3>1, <3>6, <4>1, EchoPrinted
      <4>3. LineOf(keys, counter, line)
        BY <3>2 DEF LineInv
      <4>4. counter + 1 < LINE
        BY <1>1, <3>2, <3>7, <4>3, LinePush
      <4>5. line' = [line EXCEPT ![counter] = key] /\ counter' = counter + 1
        BY <1>1, <2>1, <3>7, <4>4, Numbers, SMTT(60) DEF Edited, Moved
      <4>6. QED
        BY <1>1, <2>1, <3>1, <3>4, <4>2, <4>5, Numbers, SMTT(60)
    <3>8. CASE key = "backspace" /\ key \notin Characters
      <4>1. counter > 0 /\ buffer_end > 0
        BY <1>1, <2>1, <3>4, <3>8, SMTT(60)
      <4>2. buffer' = [buffer EXCEPT ![buffer_end] = Zero] /\ buffer_end' = buffer_end - 1
        BY <3>1, <3>6, <3>8, <4>1, EchoPrinted
      <4>3. line' = [line EXCEPT ![counter - 1] = Zero] /\ counter' = counter - 1
        BY <2>1, <3>8 DEF Edited, Moved, Zero
      <4>4. QED
        BY <1>1, <2>1, <3>1, <3>4, <4>1, <4>2, <4>3, Numbers, SMTT(60)
    <3>9. QED
      BY <3>5, <3>7, <3>8
  <2>5. QED
    BY <2>2, <2>3, <2>4 DEF EchoInv
<1>14. QED
  BY <1>4, <1>5, <1>6, <1>7, <1>8, <1>9, <1>10, <1>11, <1>12, <1>13
     DEF Next, KernelStep, ShellStep

-----------------------------------------------------------------------------
(* The theorems                                                             *)

\* The invariant holds at the start.
LEMMA InitInv == Init => Inv
<1> SUFFICES ASSUME Init
             PROVE  Inv
  OBVIOUS
<1>1. TypeInv /\ KernelInside
  BY InitShape
<1>2. keys = <<>> /\ counter = 0 /\ line = NewLine /\ quiet = FALSE
  BY DEF Init
<1>3. LineInv
  BY <1>2, LineEmpty DEF LineInv
<1>4. EchoInv
  BY <1>2 DEF EchoInv
<1>5. QED
  BY <1>1, <1>3, <1>4 DEF Inv

\* Every step of the kernel and of the shell keeps the invariant.
LEMMA InvStep == Inv /\ [Next]_vars => Inv'
<1> SUFFICES ASSUME Inv, [Next]_vars
             PROVE  Inv'
  OBVIOUS
<1>1. TypeInv' /\ KernelInside'
  <2>1. CASE KeyPressed \/ KernelStep
    BY <2>1, KernelShape DEF Inv
  <2>2. CASE ShellStep
    BY <2>2, ShellShape DEF Inv
  <2>3. CASE UNCHANGED vars
    <3>1. /\ UNCHANGED <<buffer, buffer_end, scroll, io_keyboard_buffer, kpc, message, reg>>
          /\ UNCHANGED <<spc, key, line, counter, keys, mark, quiet>>
      BY <2>3 DEF vars, screenVars, keyVars, kernelVars, shellVars, lineVars, echoVars
    <3>2. TypeInv'
      BY <3>1 DEF Inv, TypeInv
    <3>3. KernelInside'
      BY <3>1 DEF Inv, KernelInside, Printing
    <3>4. QED
      BY <3>2, <3>3
  <2>4. QED
    BY <2>1, <2>2, <2>3 DEF Next
<1>2. LineInv'
  BY LineStep DEF Inv
<1>3. EchoInv'
  BY EchoStep
<1>4. QED
  BY <1>1, <1>2, <1>3 DEF Inv

\* The invariant the three results below rest on: both writers' copies of the end
\* of the screen buffer stay inside it, the line holds the keys that were typed and
\* not erased, and what the shell echoed is the line, wherever either stands.
THEOREM InvHolds == Spec => []Inv
<1>1. QED
  BY InitInv, InvStep, PTL DEF Spec

\* Whatever the kernel prints while a system call of the shell fills the buffer,
\* screen_print stores at most one character behind it.
THEOREM BufferEndBounded == Spec => []AtMostOneBehind
<1>1. Inv => AtMostOneBehind
  BY DEF Inv, TypeInv, AtMostOneBehind
<1>2. QED
  BY <1>1, InvHolds, PTL

\* read_command_line gives back the characters that were typed and not erased, for
\* lines of any length and any order of the keys, as long as the line is not full.
THEOREM TypedLine == Spec => []LineIsTyped
<1>1. Inv => LineIsTyped
  <2> SUFFICES ASSUME Inv, Short
               PROVE  \A i \in DOMAIN line :
                         line[i] = IF i < Len(Kept(keys)) THEN Kept(keys)[i + 1] ELSE ""
    BY DEF LineIsTyped
  <2>1. /\ keys \in Seq(Keys) /\ counter \in Nat /\ DOMAIN line = 0 .. LINE - 1
        /\ LineOf(keys, counter, line)
    BY Numbers, SMTT(60) DEF Inv, TypeInv, LineInv
  <2>2. QED
    BY <2>1, LineIsKept DEF Zero
<1>2. QED
  BY <1>1, InvHolds, PTL

\* The shell's line editor and the screen agree: what stands behind the prompt is
\* the line, and a backspace never erases the prompt.
THEOREM EchoedLine == Spec => []EchoIsLine
<1>1. Inv => EchoIsLine
  <2> SUFFICES ASSUME Inv, spc = "read", quiet, Short, NoTab
               PROVE  /\ buffer_end = mark + Len(Kept(keys))
                      /\ \A n \in 1 .. Len(Kept(keys)) : buffer[mark + n - 1] = Kept(keys)[n]
    BY DEF EchoIsLine, NoTab
  <2>1. /\ keys \in Seq(Keys) /\ counter \in 0 .. LINE - 1 /\ mark \in Nat
        /\ LineOf(keys, counter, line)
    BY DEF Inv, TypeInv, LineInv
  <2>2. /\ buffer_end = mark + counter
        /\ \A i \in 0 .. counter - 1 : buffer[mark + i] = line[i]
    BY DEF Inv, EchoInv
  <2>3. /\ Len(Kept(keys)) = counter
        /\ \A i \in 0 .. LINE - 1 : line[i] = IF i < counter THEN Kept(keys)[i + 1] ELSE Zero
    <3>1. counter \in Nat
      BY <2>1, Numbers, SMTT(60)
    <3>2. QED
      BY <2>1, <3>1, LineIsKept
  <2>4. ASSUME NEW n \in 1 .. counter
        PROVE  buffer[mark + n - 1] = Kept(keys)[n]
    <3>1. /\ n - 1 \in 0 .. counter - 1 /\ n - 1 \in 0 .. LINE - 1 /\ n - 1 < counter
          /\ (n - 1) + 1 = n /\ mark + n - 1 = mark + (n - 1)
      BY <2>1, Numbers, SMTT(60)
    <3>2. buffer[mark + (n - 1)] = line[n - 1]
      BY <2>2, <3>1
    <3>3. line[n - 1] = Kept(keys)[(n - 1) + 1]
      BY <2>3, <3>1
    <3>4. QED
      BY <3>1, <3>2, <3>3
  <2>5. QED
    BY <2>2, <2>3, <2>4
<1>2. QED
  BY <1>1, InvHolds, PTL
=============================================================================
