----------------------------- MODULE PagingProofs -----------------------------
(***************************************************************************)
(* Ownership of frames for every memory map, every table size and every    *)
(* set of ranges.                                                          *)
(*                                                                         *)
(* Each frame has a level: 4 for a PML4, 3, 2 and 1 for the tables below   *)
(* it, 0 for a mapped frame and -1 for the rest.  An entry of a table      *)
(* points one level down, and every frame with a level below 4 has an      *)
(* entry that points to it.  The lemmas say which changes of a table keep  *)
(* this so, the invariant that the PML4s of the address spaces are on top. *)
(***************************************************************************)
EXTENDS Paging, TLAPS, WellFoundedInduction, SequenceTheorems

\* Steps are first-order reasoning unless they name another prover.
USE ZenonT(60)

Levels == [Frame -> -1 .. 4]

\* Entries of tables point one level down.
Points(lev, m) ==
    \A t \in Frame, i \in Index :
        lev[t] >= 1 /\ m[t][i].present => lev[m[t][i].addr] = lev[t] - 1

\* No two entries of tables point to one frame, but for the shared kernel half.
Owners(lev, m) ==
    \A t, u \in Frame, i, j \in Index :
        lev[t] >= 1 /\ lev[u] >= 1 /\ m[t][i].present /\ m[u][j].present
          /\ m[t][i].addr = m[u][j].addr =>
            /\ i = j
            /\ t = u \/ (lev[t] = 4 /\ lev[u] = 4 /\ i \in KernelHalf)

\* Every frame below a PML4 has an owner.
Owned(lev, m) ==
    \A f \in Frame : lev[f] \in 0 .. 3 =>
        \E t \in Frame, i \in Index :
            lev[t] = lev[f] + 1 /\ m[t][i].present /\ m[t][i].addr = f

\* The bitmap: what pmm_init reserved, the frames with a level, and the frames taken
\* and not yet linked.  Of the former only the bootloader's table has a level.
Bits(lev, r, loose) ==
    /\ loose \subseteq Frame
    /\ \A f \in loose : lev[f] = -1 /\ f \notin pmm_init
    /\ r = pmm_init \cup {f \in Frame : lev[f] >= 0} \cup loose
    /\ \A f \in pmm_init : lev[f] >= 0 => f = LIMINE /\ lev[f] = 3

Memory == [Frame -> [Index -> Entry]]

Sound(lev, r, m, loose) ==
    /\ lev \in Levels
    /\ m \in Memory
    /\ Points(lev, m)
    /\ Owners(lev, m)
    /\ Owned(lev, m)
    /\ Bits(lev, r, loose)

-----------------------------------------------------------------------------
(* Frames                                                                  *)

\* A set of numbers that is not empty has a least element.
LEMMA LeastExists ==
    ASSUME NEW S \in SUBSET Nat, S # {}
    PROVE  Min(S) \in S
<1>1. PICK R : /\ IsWellFoundedOn(R, Nat)
               /\ \A x, y \in Nat : x < y => <<x, y>> \in R
  <2>1. \A x, y \in Nat : x < y => <<x, y>> \in OpToRel(<, Nat)
    BY DEF OpToRel
  <2>2. QED
    BY <2>1, NatLessThanWellFounded
<1>2. S \subseteq Nat /\ IsWellFoundedOn(R, Nat)
  BY <1>1
<1>3. \E x \in S : \A y \in S : ~ (<<y, x>> \in R)
  BY <1>2, WFMin
<1>4. PICK x \in S : \A y \in S : ~ (<<y, x>> \in R)
  BY <1>3
<1>5. \A y \in S : ~ (y < x)
  BY <1>1, <1>4
<1>6. \A y \in S : x <= y
  BY <1>5, SMTT(60)
<1>7. QED
  BY <1>4, <1>6 DEF Min

\* Frames are numbers, and pmm_init reserves frames.
LEMMA FrameFacts == Frame \subseteq Nat /\ pmm_init \subseteq Frame
<1>1. total_frames \in Int
  BY FramesAssumption, SMTT(60) DEF total_frames
<1>2. QED
  BY <1>1, SMTT(60) DEF Frame, pmm_init

\* Division of natural numbers.
LEMMA DivFacts ==
    ASSUME NEW x \in Nat, NEW d \in Nat \ {0}
    PROVE  /\ x \div d \in Nat
           /\ x >= d => x \div d >= 1
BY SMTT(60)

\* The bitmap has a size, and the entries of the map are entries.
LEMMA MapFacts ==
    /\ pmm_bitmap_size \in Nat
    /\ \A k \in UsableEntries :
         MemoryMap[k] \in [base : Nat, length : Nat, usable : BOOLEAN]
<1>1. total_frames \in Nat
  BY FramesAssumption, DivFacts DEF total_frames
<1>2. pmm_bitmap_size \in Nat
  BY <1>1, DivFacts, SMTT(60) DEF pmm_bitmap_size
<1>3. ASSUME NEW k \in UsableEntries
      PROVE  MemoryMap[k] \in [base : Nat, length : Nat, usable : BOOLEAN]
  <2> DEFINE T == [base : Nat, length : Nat, usable : BOOLEAN]
  <2>1. MemoryMap \in Seq(T)
    BY FramesAssumption
  <2>2. k \in DOMAIN MemoryMap
    BY DEF UsableEntries
  <2> HIDE DEF T
  <2>3. k \in 1 .. Len(MemoryMap)
    BY <2>1, <2>2, SMTT(60)
  <2>4. MemoryMap[k] \in T
    BY <2>1, <2>3, ElementOfSeq
  <2>5. QED
    BY <2>4 DEF T
<1>4. QED
  BY <1>2, <1>3

\* The address null is not usable memory and stays reserved.
LEMMA NullReserved == 0 \in Frame => 0 \in pmm_init
<1>1. ASSUME NEW k \in UsableEntries
      PROVE  0 \notin Region(Adjusted(k).base, Limit(Adjusted(k)))
  <2>1. MemoryMap[k] \in [base : Nat, length : Nat, usable : BOOLEAN]
    BY MapFacts
  <2>2. MemoryMap[k].base >= FRAME_SIZE /\ FRAME_SIZE \in Nat \ {0}
    BY FramesAssumption
  <2>3. /\ Adjusted(k).base \in Nat /\ Adjusted(k).base >= FRAME_SIZE
        /\ Limit(Adjusted(k)) \in Nat
    BY <2>1, <2>2, MapFacts, SMTT(60) DEF Adjusted, Limit
  <2>4. /\ Adjusted(k).base \div FRAME_SIZE \in Nat
        /\ Adjusted(k).base \div FRAME_SIZE >= 1
        /\ Limit(Adjusted(k)) \div FRAME_SIZE \in Nat
    BY <2>2, <2>3, DivFacts
  <2>5. QED
    BY <2>4, SMTT(60) DEF Region
<1>2. QED
  BY <1>1 DEF pmm_init, Freed

\* A frame handed out was free and is not null; null means none is left.
LEMMA AllocFacts ==
    ASSUME NEW r \in SUBSET Frame, pmm_init \subseteq r
    PROVE  LET f == pmm_alloc_frame(r)
           IN  f # 0 => f \in Frame /\ f \notin r
<1>1. CASE Free(r) = {}
  BY <1>1 DEF pmm_alloc_frame
<1>2. CASE Free(r) # {}
  <2>1. Free(r) \subseteq Nat
    BY FrameFacts DEF Free
  <2>2. Min(Free(r)) \in Free(r)
    BY <1>2, <2>1, LeastExists
  <2>3. QED
    BY <1>2, <2>2 DEF pmm_alloc_frame, Free
<1>3. QED
  BY <1>1, <1>2

-----------------------------------------------------------------------------
(* Changes of the tables                                                   *)

LEMMA EntryFacts ==
    /\ NotPresent \in Entry /\ ~ NotPresent.present
    /\ \A e \in Entry : e.present \in BOOLEAN /\ (e.present => e.addr \in Frame)
    /\ \A f \in Frame, flags \in Flags :
         /\ To(f, flags) \in Entry
         /\ To(f, flags).present
         /\ To(f, flags).addr = f
<1>1. NotPresent \in Entry /\ ~ NotPresent.present
  BY SMTT(60) DEF Entry, NotPresent
<1>2. ASSUME NEW e \in Entry
      PROVE  e.present \in BOOLEAN /\ (e.present => e.addr \in Frame)
  <2>1. CASE e = NotPresent
    BY <2>1 DEF NotPresent
  <2>2. CASE \E f \in Frame, flags \in Flags : e = To(f, flags)
    BY <2>2, SMTT(60) DEF To
  <2>3. QED
    BY <2>1, <2>2, SMTT(60) DEF Entry
<1>3. ASSUME NEW f \in Frame, NEW flags \in Flags
      PROVE  To(f, flags) \in Entry /\ To(f, flags).present /\ To(f, flags).addr = f
  <2>1. To(f, flags) \in Entry
    BY SMTT(60) DEF Entry
  <2>2. To(f, flags).present /\ To(f, flags).addr = f
    BY DEF To
  <2>3. QED
    BY <2>1, <2>2
<1>4. QED
  BY <1>1, <1>2, <1>3

\* m2 is m but for entry i of table t, which is e, and for table f.
Changed(m, m2, t, i, e, f) ==
    /\ m2 \in Memory
    /\ m2[t][i] = e
    /\ \A u \in Frame \ {f}, j \in Index : u # t \/ j # i => m2[u][j] = m[u][j]

\* pmm_alloc_frame hands out a frame without a level.
LEMMA TakeOK ==
    ASSUME NEW lev, NEW r, NEW m, NEW loose, Sound(lev, r, m, loose),
           NEW f, f = pmm_alloc_frame(r), f # 0
    PROVE  /\ f \in Frame /\ f \notin pmm_init /\ f \notin loose /\ lev[f] = -1
           /\ Sound(lev, pmm_set_frame(r, f, TRUE), m, loose \cup {f})
<1>1. lev \in Levels /\ Bits(lev, r, loose)
  BY DEF Sound
<1>2. r \subseteq Frame /\ pmm_init \subseteq r
  BY <1>1, FrameFacts DEF Bits
<1>3. f \in Frame /\ f \notin r
  BY <1>2, AllocFacts
<1>4. f \notin pmm_init /\ f \notin loose /\ ~ (lev[f] >= 0)
  BY <1>1, <1>3 DEF Bits
<1>5. lev[f] = -1
  BY <1>1, <1>3, <1>4, SMTT(60) DEF Levels
<1>6. Bits(lev, pmm_set_frame(r, f, TRUE), loose \cup {f})
  BY <1>1, <1>3, <1>4, <1>5 DEF Bits, pmm_set_frame
<1>7. QED
  BY <1>3, <1>4, <1>5, <1>6 DEF Sound

\* The same when no frame is loose.
LEMMA TakeFirst ==
    ASSUME NEW lev, NEW r, NEW m, Sound(lev, r, m, {}),
           NEW f, f = pmm_alloc_frame(r), f # 0
    PROVE  /\ f \in Frame /\ f \notin pmm_init /\ lev[f] = -1
           /\ Sound(lev, pmm_set_frame(r, f, TRUE), m, {f})
<1>1. PICK none : none = {}
  OBVIOUS
<1>2. Sound(lev, r, m, none)
  BY <1>1
<1>3. /\ f \in Frame /\ f \notin pmm_init /\ f \notin none /\ lev[f] = -1
      /\ Sound(lev, pmm_set_frame(r, f, TRUE), m, none \cup {f})
  BY <1>2, TakeOK
<1>4. none \cup {f} = {f}
  BY <1>1
<1>5. QED
  BY <1>3, <1>4

\* A frame taken and not linked is given back.
LEMMA DropOK ==
    ASSUME NEW lev, NEW r, NEW m, NEW f, Sound(lev, r, m, {f})
    PROVE  Sound(lev, pmm_set_frame(r, f, FALSE), m, {})
<1>1. Bits(lev, r, {f}) /\ lev \in Levels
  BY DEF Sound
<1>2. Bits(lev, pmm_set_frame(r, f, FALSE), {})
  BY <1>1, SMTT(60) DEF Bits, pmm_set_frame, Levels
<1>3. QED
  BY <1>2 DEF Sound

\* A loose frame is linked to an entry that is not present: it is a table, and empty,
\* or it is mapped.
LEMMA LinkOK ==
    ASSUME NEW lev, NEW r, NEW m, NEW loose, Sound(lev, r, m, loose),
           NEW f \in loose, NEW t \in Frame, NEW i \in Index,
           lev[t] \in 1 .. 4, ~ m[t][i].present,
           NEW flags \in Flags, NEW m2, Changed(m, m2, t, i, To(f, flags), f),
           lev[t] > 1 => \A j \in Index : ~ m2[f][j].present
    PROVE  Sound([lev EXCEPT ![f] = lev[t] - 1], r, m2, loose \ {f})
<1> DEFINE lev2 == [lev EXCEPT ![f] = lev[t] - 1]
<1>0. /\ lev \in Levels /\ m \in Memory /\ m2 \in Memory
      /\ Points(lev, m) /\ Owners(lev, m) /\ Owned(lev, m) /\ Bits(lev, r, loose)
      /\ f \in Frame /\ lev[f] = -1 /\ f \notin pmm_init /\ f # t
  BY SMTT(60) DEF Sound, Bits, Changed
<1>1. /\ lev2 \in Levels
      /\ lev2[f] = lev[t] - 1
      /\ \A u \in Frame : u # f => lev2[u] = lev[u]
  BY <1>0, SMTT(60) DEF Levels
<1>2. /\ m2[t][i].present /\ m2[t][i].addr = f
      /\ \A u \in Frame, j \in Index : u # f /\ (u # t \/ j # i) => m2[u][j] = m[u][j]
  BY <1>0, EntryFacts, SMTT(60) DEF Changed
<1>3. /\ \A u \in Frame : lev[u] \in -1 .. 4
      /\ \A u \in Frame, j \in Index :
           m[u][j].present => m[u][j].addr \in Frame
  BY <1>0, EntryFacts, SMTT(60) DEF Levels, Memory
\* No table had an entry for f, and f itself has none.
<1>4. \A u \in Frame, j \in Index :
        lev[u] >= 1 /\ m[u][j].present => m[u][j].addr # f
  BY <1>0, <1>3, SMTT(60) DEF Points
<1>5. \A j \in Index : lev2[f] >= 1 => ~ m2[f][j].present
  BY <1>1, <1>3, SMTT(60)
\* The entries of tables are those of before and the new one.
<1>6. ASSUME NEW u \in Frame, NEW j \in Index, lev2[u] >= 1, m2[u][j].present
      PROVE  \/ u = t /\ j = i
             \/ u # f /\ lev2[u] = lev[u] /\ lev[u] >= 1 /\ m2[u][j] = m[u][j]
                /\ m[u][j].present /\ m[u][j].addr \in Frame /\ m[u][j].addr # f
  BY <1>1, <1>2, <1>3, <1>4, <1>5, <1>6, SMTT(60)
<1> HIDE DEF lev2
<1>7. Points(lev2, m2)
  <2>1. SUFFICES ASSUME NEW u \in Frame, NEW j \in Index, lev2[u] >= 1, m2[u][j].present
                 PROVE  lev2[m2[u][j].addr] = lev2[u] - 1
    BY DEF Points
  <2>2. CASE u = t /\ j = i
    BY <1>0, <1>1, <1>2, <2>2
  <2>3. CASE ~ (u = t /\ j = i)
    <3>1. /\ lev2[u] = lev[u] /\ lev[u] >= 1 /\ m2[u][j] = m[u][j]
          /\ m[u][j].present /\ m[u][j].addr \in Frame /\ m[u][j].addr # f
      BY <1>6, <2>1, <2>3
    <3>2. lev[m[u][j].addr] = lev[u] - 1
      BY <1>0, <3>1 DEF Points
    <3>3. QED
      BY <1>1, <3>1, <3>2
  <2>4. QED
    BY <2>2, <2>3
<1>8. Owners(lev2, m2)
  <2>1. SUFFICES ASSUME NEW u \in Frame, NEW v \in Frame, NEW j \in Index, NEW k \in Index,
                        lev2[u] >= 1, lev2[v] >= 1, m2[u][j].present, m2[v][k].present,
                        m2[u][j].addr = m2[v][k].addr
                 PROVE  /\ j = k
                        /\ u = v \/ (lev2[u] = 4 /\ lev2[v] = 4 /\ j \in KernelHalf)
    BY SMTT(60) DEF Owners
  <2>2. CASE (u = t /\ j = i) \/ (v = t /\ k = i)
    BY <1>2, <1>6, <2>1, <2>2, SMTT(60)
  <2>3. CASE ~ (u = t /\ j = i) /\ ~ (v = t /\ k = i)
    <3>1. /\ lev2[u] = lev[u] /\ m2[u][j] = m[u][j] /\ lev[u] >= 1 /\ m[u][j].present
          /\ lev2[v] = lev[v] /\ m2[v][k] = m[v][k] /\ lev[v] >= 1 /\ m[v][k].present
      BY <1>6, <2>1, <2>3
    <3>2. QED
      BY <1>0, <2>1, <3>1, SMTT(60) DEF Owners
  <2>4. QED
    BY <2>2, <2>3
<1>9. Owned(lev2, m2)
  <2>1. SUFFICES ASSUME NEW g \in Frame, lev2[g] \in 0 .. 3
                 PROVE  \E u \in Frame, j \in Index :
                          lev2[u] = lev2[g] + 1 /\ m2[u][j].present /\ m2[u][j].addr = g
    BY DEF Owned
  <2>2. CASE g = f
    BY <1>0, <1>1, <1>2, <1>3, <2>2, SMTT(60)
  <2>3. CASE g # f
    <3>1. lev2[g] = lev[g]
      BY <1>1, <2>3
    <3>2. PICK u \in Frame, j \in Index :
             lev[u] = lev[g] + 1 /\ m[u][j].present /\ m[u][j].addr = g
      BY <1>0, <2>1, <3>1 DEF Owned
    <3>3. u # f /\ (u # t \/ j # i)
      BY <1>0, <2>1, <3>1, <3>2, SMTT(60)
    <3>4. lev2[u] = lev2[g] + 1 /\ m2[u][j].present /\ m2[u][j].addr = g
      BY <1>1, <1>2, <3>1, <3>2, <3>3
    <3>5. QED
      BY <3>4
  <2>4. QED
    BY <2>2, <2>3
<1>10. Bits(lev2, r, loose \ {f})
  <2>1. lev2[f] >= 0
    BY <1>0, <1>1, <1>3, SMTT(60)
  <2>2. {g \in Frame : lev2[g] >= 0} = {g \in Frame : lev[g] >= 0} \cup {f}
    BY <1>0, <1>1, <2>1
  <2>3. r = pmm_init \cup {g \in Frame : lev2[g] >= 0} \cup (loose \ {f})
    BY <1>0, <2>2 DEF Bits
  <2>4. /\ loose \ {f} \subseteq Frame
        /\ \A g \in loose \ {f} : lev2[g] = -1 /\ g \notin pmm_init
    BY <1>0, <1>1 DEF Bits
  <2>5. \A g \in pmm_init : lev2[g] >= 0 => g = LIMINE /\ lev2[g] = 3
    BY <1>0, <1>1, FrameFacts DEF Bits
  <2>6. QED
    BY <2>3, <2>4, <2>5 DEF Bits
<1>11. QED
  BY <1>0, <1>1, <1>7, <1>8, <1>9, <1>10 DEF Sound, lev2

\* m2 is m without the mapping of frame f in entry i of table t.
Unlinked(lev, m, m2, t, i, f) ==
    /\ t \in Frame /\ i \in Index /\ lev[t] = 1
    /\ m[t][i].present /\ f = m[t][i].addr
    /\ Changed(m, m2, t, i, NotPresent, f)

\* The frame of a page is unmapped and given back.
LEMMA UnlinkOK ==
    ASSUME NEW lev, NEW r, NEW m, Sound(lev, r, m, {}),
           NEW t, NEW i, NEW f, NEW m2, Unlinked(lev, m, m2, t, i, f),
           NEW lev2, lev2 = [lev EXCEPT ![f] = -1]
    PROVE  lev[f] = 0 /\ Sound(lev2, pmm_set_frame(r, f, FALSE), m2, {})
<1>0. /\ lev \in Levels /\ m \in Memory /\ m2 \in Memory
      /\ Points(lev, m) /\ Owners(lev, m) /\ Owned(lev, m) /\ Bits(lev, r, {})
      /\ t \in Frame /\ i \in Index /\ lev[t] = 1 /\ m[t][i].present /\ f = m[t][i].addr
  BY DEF Sound, Changed, Unlinked
<1>1. /\ \A u \in Frame : lev[u] \in -1 .. 4
      /\ \A u \in Frame, j \in Index :
           m[u][j].present => m[u][j].addr \in Frame
  BY <1>0, EntryFacts, SMTT(60) DEF Levels, Memory
<1>2. f \in Frame /\ lev[f] = 0 /\ f # t
  BY <1>0, <1>1, SMTT(60) DEF Points
<1>3. /\ lev2 \in Levels
      /\ lev2[f] = -1
      /\ \A u \in Frame : u # f => lev2[u] = lev[u]
  BY <1>0, <1>2, SMTT(60) DEF Levels
<1>4. /\ ~ m2[t][i].present
      /\ \A u \in Frame, j \in Index : u # f /\ (u # t \/ j # i) => m2[u][j] = m[u][j]
  BY <1>0, EntryFacts, SMTT(60) DEF Changed, Unlinked
\* The entries of tables are those of before without the one for f.
<1>5. ASSUME NEW u \in Frame, NEW j \in Index, lev2[u] >= 1, m2[u][j].present
      PROVE  /\ lev2[u] = lev[u] /\ lev[u] >= 1 /\ m2[u][j] = m[u][j]
             /\ m[u][j].present /\ m[u][j].addr \in Frame
             /\ m[u][j].addr # f
  <2>1. u # f /\ (u # t \/ j # i)
    BY <1>3, <1>4, <1>5, SMTT(60)
  <2>2. /\ lev2[u] = lev[u] /\ lev[u] >= 1 /\ m2[u][j] = m[u][j]
        /\ m[u][j].present /\ m[u][j].addr \in Frame
    BY <1>1, <1>3, <1>4, <1>5, <2>1
  <2>3. m[u][j].addr = f => j = i /\ (u = t \/ lev[t] = 4)
    BY <1>0, <2>2, SMTT(60) DEF Owners
  <2>4. QED
    BY <1>0, <2>1, <2>2, <2>3, SMTT(60)
<1>6. Points(lev2, m2)
  <2>1. SUFFICES ASSUME NEW u \in Frame, NEW j \in Index, lev2[u] >= 1, m2[u][j].present
                 PROVE  lev2[m2[u][j].addr] = lev2[u] - 1
    BY DEF Points
  <2>2. /\ lev2[u] = lev[u] /\ lev[u] >= 1 /\ m2[u][j] = m[u][j]
        /\ m[u][j].present /\ m[u][j].addr \in Frame /\ m[u][j].addr # f
    BY <1>5, <2>1
  <2>3. lev[m[u][j].addr] = lev[u] - 1
    BY <1>0, <2>2 DEF Points
  <2>4. QED
    BY <1>3, <2>2, <2>3
<1>7. Owners(lev2, m2)
  <2>1. SUFFICES ASSUME NEW u \in Frame, NEW v \in Frame, NEW j \in Index, NEW k \in Index,
                        lev2[u] >= 1, lev2[v] >= 1, m2[u][j].present, m2[v][k].present,
                        m2[u][j].addr = m2[v][k].addr
                 PROVE  /\ j = k
                        /\ u = v \/ (lev2[u] = 4 /\ lev2[v] = 4 /\ j \in KernelHalf)
    BY SMTT(60) DEF Owners
  <2>2. /\ lev2[u] = lev[u] /\ m2[u][j] = m[u][j] /\ lev[u] >= 1 /\ m[u][j].present
        /\ lev2[v] = lev[v] /\ m2[v][k] = m[v][k] /\ lev[v] >= 1 /\ m[v][k].present
    BY <1>5, <2>1
  <2>3. QED
    BY <1>0, <2>1, <2>2, SMTT(60) DEF Owners
<1>8. Owned(lev2, m2)
  <2>1. SUFFICES ASSUME NEW g \in Frame, lev2[g] \in 0 .. 3
                 PROVE  \E u \in Frame, j \in Index :
                          lev2[u] = lev2[g] + 1 /\ m2[u][j].present /\ m2[u][j].addr = g
    BY DEF Owned
  <2>2. g # f /\ lev2[g] = lev[g]
    BY <1>3, <2>1, SMTT(60)
  <2>3. PICK u \in Frame, j \in Index :
           lev[u] = lev[g] + 1 /\ m[u][j].present /\ m[u][j].addr = g
    BY <1>0, <2>1, <2>2 DEF Owned
  <2>4. u # f /\ (u # t \/ j # i)
    BY <1>0, <1>2, <2>1, <2>2, <2>3, SMTT(60)
  <2>5. lev2[u] = lev2[g] + 1 /\ m2[u][j].present /\ m2[u][j].addr = g
    BY <1>3, <1>4, <2>2, <2>3, <2>4
  <2>6. QED
    BY <2>5
<1>9. Bits(lev2, pmm_set_frame(r, f, FALSE), {})
  <2>1. f \notin pmm_init
    BY <1>0, <1>2, SMTT(60) DEF Bits
  <2>2. {g \in Frame : lev2[g] >= 0} = {g \in Frame : lev[g] >= 0} \ {f}
    BY <1>2, <1>3, SMTT(60)
  <2>3. pmm_set_frame(r, f, FALSE) = pmm_init \cup {g \in Frame : lev2[g] >= 0} \cup {}
    BY <1>0, <2>1, <2>2 DEF Bits, pmm_set_frame
  <2>4. \A g \in pmm_init : lev2[g] >= 0 => g = LIMINE /\ lev2[g] = 3
    BY <1>0, <1>3, <2>1, FrameFacts DEF Bits
  <2>5. QED
    BY <2>3, <2>4 DEF Bits
<1>10. QED
  BY <1>0, <1>2, <1>3, <1>6, <1>7, <1>8, <1>9 DEF Sound

\* The flags of a page change.
LEMMA EditOK ==
    ASSUME NEW lev, NEW r, NEW m, NEW loose, Sound(lev, r, m, loose),
           NEW t \in Frame, NEW i \in Index, lev[t] = 1, m[t][i].present,
           NEW flags \in Flags, NEW m2,
           Changed(m, m2, t, i, To(m[t][i].addr, flags), m[t][i].addr)
    PROVE  Sound(lev, r, m2, loose)
<1>0. /\ lev \in Levels /\ m \in Memory /\ m2 \in Memory
      /\ Points(lev, m) /\ Owners(lev, m) /\ Owned(lev, m) /\ Bits(lev, r, loose)
  BY DEF Sound, Changed
<1>1. m[t][i].addr \in Frame /\ lev[m[t][i].addr] = 0
  BY <1>0, EntryFacts, SMTT(60) DEF Points, Memory
<1>2. m2[t][i].present /\ m2[t][i].addr = m[t][i].addr
  BY <1>1, EntryFacts, SMTT(60) DEF Changed
<1>3. \A u \in Frame, j \in Index : lev[u] >= 1 =>
        (m2[u][j].present <=> m[u][j].present) /\ m2[u][j].addr = m[u][j].addr
  <2>1. ASSUME NEW u \in Frame, NEW j \in Index, lev[u] >= 1, u # t \/ j # i
        PROVE  m2[u][j] = m[u][j]
    BY <1>1, <2>1, SMTT(60) DEF Changed
  <2>2. QED
    BY <1>2, <2>1
<1>4. Points(lev, m2)
  <2>1. SUFFICES ASSUME NEW u \in Frame, NEW j \in Index, lev[u] >= 1, m2[u][j].present
                 PROVE  lev[m2[u][j].addr] = lev[u] - 1
    BY DEF Points
  <2>2. m[u][j].present /\ m2[u][j].addr = m[u][j].addr
    BY <1>3, <2>1
  <2>3. QED
    BY <1>0, <2>1, <2>2, SMTT(60) DEF Points
<1>5. Owners(lev, m2)
  <2>1. SUFFICES ASSUME NEW u \in Frame, NEW v \in Frame, NEW j \in Index, NEW k \in Index,
                        lev[u] >= 1, lev[v] >= 1, m2[u][j].present, m2[v][k].present,
                        m2[u][j].addr = m2[v][k].addr
                 PROVE  j = k /\ (u = v \/ (lev[u] = 4 /\ lev[v] = 4 /\ j \in KernelHalf))
    BY SMTT(60) DEF Owners
  <2>2. m[u][j].present /\ m[v][k].present /\ m[u][j].addr = m[v][k].addr
    BY <1>3, <2>1
  <2>3. QED
    BY <1>0, <2>1, <2>2 DEF Owners
<1>6. Owned(lev, m2)
  <2>1. SUFFICES ASSUME NEW g \in Frame, lev[g] \in 0 .. 3
                 PROVE  \E u \in Frame, j \in Index :
                          lev[u] = lev[g] + 1 /\ m2[u][j].present /\ m2[u][j].addr = g
    BY DEF Owned
  <2>2. PICK u \in Frame, j \in Index :
           lev[u] = lev[g] + 1 /\ m[u][j].present /\ m[u][j].addr = g
    BY <1>0, <2>1 DEF Owned
  <2>3. m2[u][j].present /\ m2[u][j].addr = g
    BY <1>3, <2>1, <2>2, SMTT(60)
  <2>4. QED
    BY <2>2, <2>3
<1>7. QED
  BY <1>0, <1>4, <1>5, <1>6 DEF Sound

\* One entry is written.
LEMMA WriteFacts ==
    ASSUME NEW m \in Memory, NEW t \in Frame, NEW i \in Index, NEW e \in Entry, NEW f
    PROVE  Changed(m, [m EXCEPT ![t][i] = e], t, i, e, f)
BY DEF Changed, Memory

\* The same frames are PML4s, and of their entries at most entry i of t changed.
SameRoots(lev, lev2, m, m2, t, i) ==
    /\ \A u \in Frame : lev2[u] = 4 <=> lev[u] = 4
    /\ \A u \in Frame, j \in Index :
         lev[u] = 4 /\ (u # t \/ j # i) => m2[u][j] = m[u][j]

\* A walk is a record, and does not forget that it met null.
LEMMA DescendShape ==
    ASSUME NEW w, NEW i,
           w = [reserved |-> w.reserved, mem |-> w.mem, at |-> w.at, null |-> w.null],
           w.null \in BOOLEAN
    PROVE  LET d == Descend(w, i)
           IN  /\ d = [reserved |-> d.reserved, mem |-> d.mem, at |-> d.at, null |-> d.null]
               /\ d.null \in BOOLEAN
               /\ w.null => d.null
<1>1. CASE w.mem[w.at][i].present
  <2>1. Descend(w, i) = [reserved |-> w.reserved, mem |-> w.mem,
                         at |-> w.mem[w.at][i].addr, null |-> w.null]
    BY <1>1 DEF Descend
  <2>2. QED
    BY <2>1, SMTT(60)
<1>2. CASE ~ w.mem[w.at][i].present
  BY <1>2 DEF Descend
<1>3. QED
  BY <1>1, <1>2

\* One level down, unless null is met.
LEMMA DescendOK ==
    ASSUME NEW w, NEW i \in Index, NEW lev, NEW loose,
           w = [reserved |-> w.reserved, mem |-> w.mem, at |-> w.at, null |-> w.null],
           Sound(lev, w.reserved, w.mem, loose),
           w.at \in Frame, lev[w.at] \in 2 .. 4,
           ~ Descend(w, i).null
    PROVE  LET d == Descend(w, i)
           IN  \E lev2 : /\ Sound(lev2, d.reserved, d.mem, loose)
                         /\ d.at \in Frame /\ lev2[d.at] = lev[w.at] - 1
                         /\ SameRoots(lev, lev2, w.mem, d.mem, w.at, i)
<1> DEFINE r == w.reserved
           m == w.mem
           t == w.at
           d == Descend(w, i)
           f == pmm_alloc_frame(r)
           m2 == [m EXCEPT ![f] = EmptyTable, ![t][i] = To(f, "table")]
           lev2 == [lev EXCEPT ![f] = lev[t] - 1]
<1>0. lev \in Levels /\ m \in Memory
  BY DEF Sound
<1>1. CASE m[t][i].present
  <2>1. d = [reserved |-> r, mem |-> m, at |-> m[t][i].addr, null |-> w.null]
    BY <1>1 DEF Descend
  <2>2. m[t][i].addr \in Frame /\ lev[m[t][i].addr] = lev[t] - 1
    BY <1>0, <1>1, EntryFacts, SMTT(60) DEF Sound, Points, Memory
  <2>3. SameRoots(lev, lev, m, m, t, i)
    BY DEF SameRoots
  <2>4. QED
    BY <2>1, <2>2, <2>3, SMTT(60)
<1>2. CASE ~ m[t][i].present
  <2>1. d = [reserved |-> pmm_set_frame(r, f, TRUE), mem |-> m2, at |-> f,
             null |-> w.null \/ f = 0]
    BY <1>2 DEF Descend
  <2>2. f # 0
    <3>1. d.null = (w.null \/ f = 0)
      BY <2>1, SMTT(60)
    <3>2. QED
      BY <3>1
  <2>3. /\ f \in Frame /\ f \notin loose /\ lev[f] = -1
        /\ Sound(lev, pmm_set_frame(r, f, TRUE), m, loose \cup {f})
    BY <2>2, TakeOK
  <2>4. f # t /\ "table" \in Flags
    BY <2>3, SMTT(60) DEF Flags
  <2>5. To(f, "table") \in Entry /\ EmptyTable \in [Index -> Entry]
    BY <2>3, <2>4, EntryFacts DEF EmptyTable
  <2>6. m2 \in Memory /\ m2[f] = EmptyTable /\ Changed(m, m2, t, i, To(f, "table"), f)
    BY <1>0, <2>3, <2>4, <2>5 DEF Memory, Changed
  <2> HIDE DEF m2, f, r, m, t, d, lev2
  <2>7. \A j \in Index : ~ m2[f][j].present
    BY <2>6, EntryFacts, SMTT(60) DEF EmptyTable
  <2>8. Sound(lev2, pmm_set_frame(r, f, TRUE), m2, (loose \cup {f}) \ {f})
    <3>1. f \in loose \cup {f} /\ lev[t] \in 1 .. 4
      BY SMTT(60) DEF t
    <3>2. t \in Frame
      BY DEF t
    <3>3. QED
      BY <1>2, <2>3, <2>4, <2>6, <2>7, <3>1, <3>2, LinkOK DEF lev2
  <2>9. (loose \cup {f}) \ {f} = loose
    BY <2>3
  <2>10. lev2[f] = lev[t] - 1 /\ SameRoots(lev, lev2, m, m2, t, i)
    BY <1>0, <2>3, <2>4, <2>6, SMTT(60) DEF SameRoots, Levels, Changed, t, lev2
  <2>11. QED
    <3>1. Sound(lev2, pmm_set_frame(r, f, TRUE), m2, loose)
      BY <2>8, <2>9
    <3>2. d.reserved = pmm_set_frame(r, f, TRUE) /\ d.mem = m2 /\ d.at = f
      BY <2>1
    <3>3. /\ Sound(lev2, d.reserved, d.mem, loose)
          /\ d.at \in Frame /\ lev2[d.at] = lev[t] - 1
          /\ SameRoots(lev, lev2, m, d.mem, t, i)
      BY <2>3, <2>10, <3>1, <3>2
    <3>4. QED
      BY <3>3 DEF d, t, m
<1>3. QED
  BY <1>1, <1>2

\* m2 is m but for table f, which has the kernel half of table k and nothing else.
NewRoot(m, m2, f, k) ==
    /\ m2 \in Memory
    /\ \A u \in Frame \ {f} : m2[u] = m[u]
    /\ \A i \in Index : m2[f][i] = IF i \in KernelHalf THEN m[k][i] ELSE NotPresent

\* A new PML4 with the kernel half of another.
LEMMA RootOK ==
    ASSUME NEW lev, NEW r, NEW m, Sound(lev, r, m, {}),
           NEW f, f = pmm_alloc_frame(r), f # 0,
           NEW k \in Frame, lev[k] = 4,
           NEW m2, NewRoot(m, m2, f, k)
    PROVE  Sound([lev EXCEPT ![f] = 4], pmm_set_frame(r, f, TRUE), m2, {})
<1> DEFINE lev2 == [lev EXCEPT ![f] = 4]
<1>0. /\ lev \in Levels /\ m \in Memory
      /\ Points(lev, m) /\ Owners(lev, m) /\ Owned(lev, m) /\ Bits(lev, r, {})
  BY DEF Sound
<1>1. f \in Frame /\ f \notin pmm_init /\ lev[f] = -1
  BY TakeFirst
<1>2. /\ lev2 \in Levels /\ lev2[f] = 4
      /\ \A u \in Frame : u # f => lev2[u] = lev[u]
  BY <1>0, <1>1 DEF Levels
<1>3. /\ \A u \in Frame : lev[u] \in -1 .. 4
      /\ \A u \in Frame, j \in Index :
           m[u][j].present => m[u][j].addr \in Frame
  BY <1>0, EntryFacts, SMTT(60) DEF Levels, Memory
\* Every entry of a table is one of before, in the table or in k.
<1>4. ASSUME NEW u \in Frame, NEW j \in Index, lev2[u] >= 1, m2[u][j].present
      PROVE  \E v \in Frame :
               /\ lev[v] = lev2[u] /\ lev[v] >= 1
               /\ m2[u][j] = m[v][j] /\ m[v][j].present
               /\ m[v][j].addr \in Frame /\ m[v][j].addr # f
               /\ u = v \/ (u = f /\ v = k /\ j \in KernelHalf)
  <2>1. CASE u = f
    <3>1. j \in KernelHalf /\ m2[u][j] = m[k][j]
      BY <1>4, <2>1, EntryFacts DEF NewRoot
    <3>2. lev[m[k][j].addr] = 3
      BY <1>0, <1>4, <3>1, SMTT(60) DEF Points
    <3>3. QED
      BY <1>1, <1>2, <1>3, <1>4, <2>1, <3>1, <3>2, SMTT(60)
  <2>2. CASE u # f
    <3>1. lev[u] = lev2[u] /\ m2[u][j] = m[u][j]
      BY <1>2, <2>2 DEF NewRoot
    <3>2. lev[m[u][j].addr] = lev[u] - 1
      BY <1>0, <1>4, <3>1 DEF Points
    <3>3. QED
      BY <1>1, <1>3, <1>4, <3>1, <3>2, SMTT(60)
  <2>3. QED
    BY <2>1, <2>2
<1> HIDE DEF lev2
<1>5. Points(lev2, m2)
  <2>1. SUFFICES ASSUME NEW u \in Frame, NEW j \in Index, lev2[u] >= 1, m2[u][j].present
                 PROVE  lev2[m2[u][j].addr] = lev2[u] - 1
    BY DEF Points
  <2>2. PICK v \in Frame :
          /\ lev[v] = lev2[u] /\ lev[v] >= 1
          /\ m2[u][j] = m[v][j] /\ m[v][j].present
          /\ m[v][j].addr \in Frame /\ m[v][j].addr # f
    BY <1>4, <2>1
  <2>3. lev[m[v][j].addr] = lev[v] - 1
    BY <1>0, <2>2 DEF Points
  <2>4. QED
    BY <1>2, <2>2, <2>3
<1>6. Owners(lev2, m2)
  <2>1. SUFFICES ASSUME NEW a \in Frame, NEW b \in Frame, NEW i \in Index, NEW j \in Index,
                        lev2[a] >= 1, lev2[b] >= 1, m2[a][i].present, m2[b][j].present,
                        m2[a][i].addr = m2[b][j].addr
                 PROVE  /\ i = j
                        /\ a = b \/ (lev2[a] = 4 /\ lev2[b] = 4 /\ i \in KernelHalf)
    BY SMTT(60) DEF Owners
  <2>2. PICK u \in Frame :
          /\ lev[u] = lev2[a] /\ lev[u] >= 1 /\ m2[a][i] = m[u][i] /\ m[u][i].present
          /\ a = u \/ (a = f /\ u = k /\ i \in KernelHalf)
    BY <1>4, <2>1, SMTT(60)
  <2>3. PICK v \in Frame :
          /\ lev[v] = lev2[b] /\ lev[v] >= 1 /\ m2[b][j] = m[v][j] /\ m[v][j].present
          /\ b = v \/ (b = f /\ v = k /\ j \in KernelHalf)
    BY <1>4, <2>1, SMTT(60)
  <2>4. i = j /\ (u = v \/ (lev[u] = 4 /\ lev[v] = 4 /\ i \in KernelHalf))
    BY <1>0, <2>1, <2>2, <2>3, SMTT(60) DEF Owners
  <2>5. QED
    BY <2>2, <2>3, <2>4
<1>7. Owned(lev2, m2)
  <2>1. SUFFICES ASSUME NEW g \in Frame, lev2[g] \in 0 .. 3
                 PROVE  \E u \in Frame, j \in Index :
                          lev2[u] = lev2[g] + 1 /\ m2[u][j].present /\ m2[u][j].addr = g
    BY DEF Owned
  <2>2. g # f /\ lev2[g] = lev[g]
    BY <1>2, <2>1, SMTT(60)
  <2>3. PICK u \in Frame, j \in Index :
           lev[u] = lev[g] + 1 /\ m[u][j].present /\ m[u][j].addr = g
    BY <1>0, <2>1, <2>2 DEF Owned
  <2>4. u # f
    BY <1>1, <2>1, <2>2, <2>3, SMTT(60)
  <2>5. lev2[u] = lev2[g] + 1 /\ m2[u][j].present /\ m2[u][j].addr = g
    BY <1>2, <2>2, <2>3, <2>4 DEF NewRoot
  <2>6. QED
    BY <2>5
<1>8. Bits(lev2, pmm_set_frame(r, f, TRUE), {})
  <2>1. {g \in Frame : lev2[g] >= 0} = {g \in Frame : lev[g] >= 0} \cup {f}
    BY <1>1, <1>2, SMTT(60)
  <2>2. pmm_set_frame(r, f, TRUE) = pmm_init \cup {g \in Frame : lev2[g] >= 0} \cup {}
    BY <1>0, <2>1 DEF Bits, pmm_set_frame
  <2>3. \A g \in pmm_init : lev2[g] >= 0 => g = LIMINE /\ lev2[g] = 3
    BY <1>0, <1>1, <1>2, FrameFacts DEF Bits
  <2>4. QED
    BY <2>2, <2>3 DEF Bits
<1>9. QED
  BY <1>2, <1>5, <1>6, <1>7, <1>8 DEF Sound, lev2, NewRoot

-----------------------------------------------------------------------------
(* Walks                                                                   *)

LEMMA ProductFacts ==
    ASSUME NEW a \in Nat \ {0}, NEW b \in Nat \ {0}
    PROVE  a * b \in Nat \ {0}
BY SMTT(60)

LEMMA ModFacts ==
    ASSUME NEW x \in Nat, NEW d \in Nat \ {0}
    PROVE  x % d \in 0 .. d - 1
BY SMTT(60)

\* Indices are indices.
LEMMA IndexFacts ==
    ASSUME NEW page \in Nat
    PROVE  /\ PML4_INDEX(page) \in Index /\ PDPT_INDEX(page) \in Index
           /\ PD_INDEX(page) \in Index /\ PT_INDEX(page) \in Index
<1>1. ENTRIES \in Nat \ {0}
  BY PagingAssumption, SMTT(60)
<1>2. ENTRIES * ENTRIES \in Nat \ {0}
  BY <1>1, ProductFacts
<1>3. ENTRIES * ENTRIES * ENTRIES \in Nat \ {0}
  BY <1>1, <1>2, ProductFacts
<1>4. PML4_INDEX(page) \in Index
  <2>1. page \div (ENTRIES * ENTRIES * ENTRIES) \in Nat
    BY <1>3, DivFacts
  <2>2. QED
    BY <1>1, <2>1, ModFacts DEF PML4_INDEX, Index
<1>5. PDPT_INDEX(page) \in Index
  <2>1. page \div (ENTRIES * ENTRIES) \in Nat
    BY <1>2, DivFacts
  <2>2. QED
    BY <1>1, <2>1, ModFacts DEF PDPT_INDEX, Index
<1>6. PD_INDEX(page) \in Index
  <2>1. page \div ENTRIES \in Nat
    BY <1>1, DivFacts
  <2>2. QED
    BY <1>1, <2>1, ModFacts DEF PD_INDEX, Index
<1>7. PT_INDEX(page) \in Index
  BY <1>1, ModFacts DEF PT_INDEX, Index
<1>8. QED
  BY <1>4, <1>5, <1>6, <1>7

\* vmm_map_page finds or makes the page table; only the entry for the page of the
\* current PML4 may change among those of PML4s.
LEMMA WalkOK ==
    ASSUME NEW lev, NEW r, NEW m, NEW loose, Sound(lev, r, m, loose),
           NEW page \in Nat, current_PML4 \in Frame, lev[current_PML4] = 4,
           ~ DescendToTable(r, m, page).null
    PROVE  LET w == DescendToTable(r, m, page)
           IN  \E lev2 : /\ Sound(lev2, w.reserved, w.mem, loose)
                         /\ w.at \in Frame /\ lev2[w.at] = 1
                         /\ SameRoots(lev, lev2, m, w.mem, current_PML4, PML4_INDEX(page))
<1> DEFINE w0 == Walk(r, m, current_PML4)
           w1 == Descend(w0, PML4_INDEX(page))
           w2 == Descend(w1, PDPT_INDEX(page))
           w3 == Descend(w2, PD_INDEX(page))
           IsWalk(w) == w = [reserved |-> w.reserved, mem |-> w.mem, at |-> w.at,
                             null |-> w.null]
<1>1. /\ w0.reserved = r /\ w0.mem = m /\ w0.at = current_PML4 /\ w0.null = FALSE
      /\ IsWalk(w0)
  BY DEF Walk
<1>2. DescendToTable(r, m, page) = w3
  BY DEF DescendToTable
<1> HIDE DEF w0
<1>3. IsWalk(w1) /\ w1.null \in BOOLEAN
  BY <1>1, DescendShape
<1> HIDE DEF w1
<1>4. IsWalk(w2) /\ w2.null \in BOOLEAN /\ (w1.null => w2.null)
  BY <1>3, DescendShape
<1> HIDE DEF w2
<1>5. IsWalk(w3) /\ w3.null \in BOOLEAN /\ (w2.null => w3.null)
  BY <1>4, DescendShape
<1> HIDE DEF w3, IsWalk
<1>6. ~ w3.null
  BY <1>2
<1>7. ~ w2.null /\ ~ w1.null
  BY <1>4, <1>5, <1>6
<1>8. \E l : /\ Sound(l, w1.reserved, w1.mem, loose)
             /\ w1.at \in Frame /\ l[w1.at] = 3
             /\ SameRoots(lev, l, m, w1.mem, current_PML4, PML4_INDEX(page))
  <2>1. lev[w0.at] \in 2 .. 4 /\ w0.at \in Frame /\ Sound(lev, w0.reserved, w0.mem, loose)
    BY <1>1, SMTT(60)
  <2>2. w0 = [reserved |-> w0.reserved, mem |-> w0.mem, at |-> w0.at, null |-> w0.null]
    BY <1>1 DEF IsWalk
  <2>3. PML4_INDEX(page) \in Index /\ ~ Descend(w0, PML4_INDEX(page)).null
    BY <1>7, IndexFacts DEF w1
  <2>4. \E l : /\ Sound(l, w1.reserved, w1.mem, loose)
               /\ w1.at \in Frame /\ l[w1.at] = lev[w0.at] - 1
               /\ SameRoots(lev, l, w0.mem, w1.mem, w0.at, PML4_INDEX(page))
    BY <2>1, <2>2, <2>3, DescendOK DEF w1
  <2>5. QED
    BY <1>1, <2>4, SMTT(60)
<1>9. PICK l1 : /\ Sound(l1, w1.reserved, w1.mem, loose)
                /\ w1.at \in Frame /\ l1[w1.at] = 3
                /\ SameRoots(lev, l1, m, w1.mem, current_PML4, PML4_INDEX(page))
  BY <1>8
<1>10. \E l : /\ Sound(l, w2.reserved, w2.mem, loose)
              /\ w2.at \in Frame /\ l[w2.at] = 2
              /\ SameRoots(l1, l, w1.mem, w2.mem, w1.at, PDPT_INDEX(page))
  <2>1. l1[w1.at] \in 2 .. 4 /\ w1.at \in Frame /\ Sound(l1, w1.reserved, w1.mem, loose)
    BY <1>9, SMTT(60)
  <2>2. w1 = [reserved |-> w1.reserved, mem |-> w1.mem, at |-> w1.at, null |-> w1.null]
    BY <1>3 DEF IsWalk
  <2>3. PDPT_INDEX(page) \in Index /\ ~ Descend(w1, PDPT_INDEX(page)).null
    BY <1>7, IndexFacts DEF w2
  <2>4. \E l : /\ Sound(l, w2.reserved, w2.mem, loose)
               /\ w2.at \in Frame /\ l[w2.at] = l1[w1.at] - 1
               /\ SameRoots(l1, l, w1.mem, w2.mem, w1.at, PDPT_INDEX(page))
    BY <2>1, <2>2, <2>3, DescendOK DEF w2
  <2>5. QED
    BY <1>9, <2>4, SMTT(60)
<1>11. PICK l2 : /\ Sound(l2, w2.reserved, w2.mem, loose)
                 /\ w2.at \in Frame /\ l2[w2.at] = 2
                 /\ SameRoots(l1, l2, w1.mem, w2.mem, w1.at, PDPT_INDEX(page))
  BY <1>10
<1>12. \E l : /\ Sound(l, w3.reserved, w3.mem, loose)
              /\ w3.at \in Frame /\ l[w3.at] = 1
              /\ SameRoots(l2, l, w2.mem, w3.mem, w2.at, PD_INDEX(page))
  <2>1. l2[w2.at] \in 2 .. 4 /\ w2.at \in Frame /\ Sound(l2, w2.reserved, w2.mem, loose)
    BY <1>11, SMTT(60)
  <2>2. w2 = [reserved |-> w2.reserved, mem |-> w2.mem, at |-> w2.at, null |-> w2.null]
    BY <1>4 DEF IsWalk
  <2>3. PD_INDEX(page) \in Index /\ ~ Descend(w2, PD_INDEX(page)).null
    BY <1>7, <1>6, IndexFacts DEF w3
  <2>4. \E l : /\ Sound(l, w3.reserved, w3.mem, loose)
               /\ w3.at \in Frame /\ l[w3.at] = l2[w2.at] - 1
               /\ SameRoots(l2, l, w2.mem, w3.mem, w2.at, PD_INDEX(page))
    BY <2>1, <2>2, <2>3, DescendOK DEF w3
  <2>5. QED
    BY <1>11, <2>4, SMTT(60)
<1>13. PICK l3 : /\ Sound(l3, w3.reserved, w3.mem, loose)
                 /\ w3.at \in Frame /\ l3[w3.at] = 1
                 /\ SameRoots(l2, l3, w2.mem, w3.mem, w2.at, PD_INDEX(page))
  BY <1>12
<1>14. SameRoots(lev, l3, m, w3.mem, current_PML4, PML4_INDEX(page))
  <2>1. \A u \in Frame : l3[u] = 4 <=> lev[u] = 4
    BY <1>9, <1>11, <1>13 DEF SameRoots
  <2>2. ASSUME NEW u \in Frame, NEW j \in Index, lev[u] = 4,
               u # current_PML4 \/ j # PML4_INDEX(page)
        PROVE  w3.mem[u][j] = m[u][j]
    <3>1. l1[u] = 4 /\ w1.mem[u][j] = m[u][j]
      BY <1>9, <2>2 DEF SameRoots
    <3>2. u # w1.at /\ l2[u] = 4 /\ w2.mem[u][j] = w1.mem[u][j]
      BY <1>9, <1>11, <3>1, SMTT(60) DEF SameRoots
    <3>3. u # w2.at /\ w3.mem[u][j] = w2.mem[u][j]
      BY <1>11, <1>13, <3>2, SMTT(60) DEF SameRoots
    <3>4. QED
      BY <3>1, <3>2, <3>3
  <2>3. QED
    BY <2>1, <2>2 DEF SameRoots
<1>15. QED
  BY <1>2, <1>13, <1>14

\* Only a present entry has entries below it.
LEMMA ChildPresent ==
    ASSUME NEW m, NEW e, NEW i, Child(m, e, i).present
    PROVE  e.present /\ Child(m, e, i) = m[e.addr][i]
BY EntryFacts DEF Child

\* A present entry of a table leads one level down.
LEMMA PointsFacts ==
    ASSUME NEW lev, NEW m \in Memory, Points(lev, m),
           NEW t \in Frame, NEW i \in Index, lev[t] >= 1, m[t][i].present
    PROVE  m[t][i].addr \in Frame /\ lev[m[t][i].addr] = lev[t] - 1
BY EntryFacts, SMTT(60) DEF Points, Memory

\* A page that is mapped has a page table.
LEMMA ReadFacts ==
    ASSUME NEW lev, NEW r, NEW m, NEW loose, Sound(lev, r, m, loose),
           NEW page \in Nat, NEW space \in Frame, lev[space] = 4,
           PageEntry(m, space, page).present
    PROVE  LET t == TableEntry(m, space, page).addr
           IN  /\ t \in Frame /\ lev[t] = 1
               /\ PageEntry(m, space, page) = m[t][PT_INDEX(page)]
<1> DEFINE a == m[space][PML4_INDEX(page)]
           b == Child(m, a, PDPT_INDEX(page))
           c == Child(m, b, PD_INDEX(page))
<1>1. m \in Memory /\ Points(lev, m)
  BY DEF Sound
<1>2. /\ PML4_INDEX(page) \in Index /\ PDPT_INDEX(page) \in Index
      /\ PD_INDEX(page) \in Index
  BY IndexFacts
<1>3. TableEntry(m, space, page) = c /\ PageEntry(m, space, page) = Child(m, c, PT_INDEX(page))
  BY DEF TableEntry, PageEntry
<1> HIDE DEF c
<1>4. c.present /\ Child(m, c, PT_INDEX(page)) = m[c.addr][PT_INDEX(page)]
  BY <1>3, ChildPresent, SMTT(60)
<1> HIDE DEF b
<1>5. b.present /\ c = m[b.addr][PD_INDEX(page)]
  BY <1>4, ChildPresent, SMTT(60) DEF c
<1> HIDE DEF a
<1>6. a.present /\ b = m[a.addr][PDPT_INDEX(page)]
  BY <1>5, ChildPresent, SMTT(60) DEF b
<1>7. a.addr \in Frame /\ lev[a.addr] = 3
  BY <1>1, <1>2, <1>6, PointsFacts, SMTT(60) DEF a
<1>8. b.addr \in Frame /\ lev[b.addr] = 2
  <2>1. lev[a.addr] >= 1 /\ m[a.addr][PDPT_INDEX(page)].present
    BY <1>5, <1>6, <1>7, SMTT(60)
  <2>2. b.addr \in Frame /\ lev[b.addr] = lev[a.addr] - 1
    BY <1>1, <1>2, <1>6, <1>7, <2>1, PointsFacts, SMTT(60)
  <2>3. QED
    BY <1>7, <2>2, SMTT(60)
<1>9. c.addr \in Frame /\ lev[c.addr] = 1
  <2>1. lev[b.addr] >= 1 /\ m[b.addr][PD_INDEX(page)].present
    BY <1>4, <1>5, <1>8, SMTT(60)
  <2>2. c.addr \in Frame /\ lev[c.addr] = lev[b.addr] - 1
    BY <1>1, <1>2, <1>5, <1>8, <2>1, PointsFacts, SMTT(60)
  <2>3. QED
    BY <1>8, <2>2, SMTT(60)
<1>10. QED
  BY <1>3, <1>4, <1>9

\* The page the program works on, when it is mapped: the table it is in.
LEMMA PageTableFacts ==
    ASSUME NEW lev, Sound(lev, reserved, mem, {}), current_PML4 \in Frame,
           lev[current_PML4] = 4, call.page \in Nat,
           PageEntry(mem, current_PML4, call.page).present
    PROVE  LET t == TableEntry(mem, current_PML4, call.page).addr
           IN  /\ t \in Frame /\ lev[t] = 1 /\ PT_INDEX(call.page) \in Index
               /\ PageEntry(mem, current_PML4, call.page) = mem[t][PT_INDEX(call.page)]
<1>1. PICK none : none = {}
  OBVIOUS
<1>2. Sound(lev, reserved, mem, none)
  BY <1>1
<1>3. PT_INDEX(call.page) \in Index
  BY IndexFacts
<1>4. QED
  BY <1>2, <1>3, ReadFacts, SMTT(60)

-----------------------------------------------------------------------------
(* The invariant                                                           *)

\* The PML4s are the frames of level 4.
Roots(lev, S) == \A f \in Frame : lev[f] = 4 <=> f \in S

Structure == \E lev : Sound(lev, reserved, mem, {}) /\ Roots(lev, PML4s)

\* A vmm_alloc for a process stays out of the kernel half.
CallOK ==
    /\ call \in Call
    /\ call.op \in {"alloc", "edit"} => call.flags \in Flags
    /\ call.op = "alloc" =>
         /\ call.first <= call.page
         /\ \/ spaces = {}
            \/ \A page \in call.first .. call.last : PML4_INDEX(page) \notin KernelHalf

Places ==
    /\ kernel_PML4 \in Frame
    /\ spaces \subseteq Frame
    /\ current_PML4 \in PML4s

SharedHalf ==
    \A space \in spaces : \A i \in KernelHalf : mem[space][i] = mem[kernel_PML4][i]

\* Nothing runs any more once null was taken for a table, or after a panic.
IInv == phase = "run" => Structure /\ Places /\ CallOK /\ SharedHalf

\* vmm_init
LEMMA InitOK == Init => IInv
<1> SUFFICES ASSUME Init, phase = "run" PROVE Structure /\ Places /\ CallOK /\ SharedHalf
  BY DEF IInv
<1> DEFINE k == pmm_alloc_frame(pmm_init)
           last == ENTRIES - 1
           lev == [f \in Frame |-> IF f = k THEN 4 ELSE IF f = LIMINE THEN 3 ELSE -1]
<1>1. /\ k # 0 /\ kernel_PML4 = k /\ spaces = {} /\ current_PML4 = k /\ call = NoCall
      /\ reserved = pmm_set_frame(pmm_init, k, TRUE)
      /\ mem = [[t \in Frame |-> EmptyTable] EXCEPT ![k][last] = To(LIMINE, "table")]
  BY DEF Init
<1>2. /\ LIMINE \in Frame /\ LIMINE \in pmm_init /\ last \in Index
      /\ pmm_init \subseteq Frame
  BY PagingAssumption, FrameFacts, SMTT(60) DEF Index
<1>3. k \in Frame /\ k \notin pmm_init /\ k # LIMINE
  BY <1>1, <1>2, AllocFacts
<1>4. To(LIMINE, "table") \in Entry /\ To(LIMINE, "table").present
      /\ To(LIMINE, "table").addr = LIMINE
  BY <1>2, EntryFacts DEF Flags
<1>5. EmptyTable \in [Index -> Entry] /\ \A i \in Index : ~ EmptyTable[i].present
  BY EntryFacts DEF EmptyTable
<1> HIDE DEF k, last
<1>6. /\ mem \in Memory
      /\ mem[k][last] = To(LIMINE, "table")
      /\ \A u \in Frame, j \in Index : u # k \/ j # last => ~ mem[u][j].present
  BY <1>1, <1>2, <1>3, <1>4, <1>5 DEF Memory
<1>7. /\ lev \in Levels /\ lev[k] = 4 /\ lev[LIMINE] = 3
      /\ \A u \in Frame : u # k /\ u # LIMINE => lev[u] = -1
  BY <1>2, <1>3, SMTT(60) DEF Levels
<1> HIDE DEF lev
<1>8. Points(lev, mem) /\ Owners(lev, mem)
  BY <1>2, <1>3, <1>4, <1>6, <1>7, SMTT(60) DEF Points, Owners
<1>9. Owned(lev, mem)
  <2>1. SUFFICES ASSUME NEW f \in Frame, lev[f] \in 0 .. 3
                 PROVE  \E t \in Frame, i \in Index :
                          lev[t] = lev[f] + 1 /\ mem[t][i].present /\ mem[t][i].addr = f
    BY DEF Owned
  <2>2. f = LIMINE
    BY <1>7, <2>1, SMTT(60)
  <2>3. lev[k] = lev[f] + 1 /\ mem[k][last].present /\ mem[k][last].addr = f
    BY <1>4, <1>6, <1>7, <2>2, SMTT(60)
  <2>4. QED
    BY <1>2, <1>3, <2>3
<1>10. Bits(lev, reserved, {})
  <2>1. {f \in Frame : lev[f] >= 0} = {k, LIMINE}
    BY <1>2, <1>3, <1>7, SMTT(60)
  <2>2. reserved = pmm_init \cup {f \in Frame : lev[f] >= 0} \cup {}
    BY <1>1, <1>2, <2>1 DEF pmm_set_frame
  <2>3. \A f \in pmm_init : lev[f] >= 0 => f = LIMINE /\ lev[f] = 3
    BY <1>2, <1>3, <1>7, SMTT(60)
  <2>4. QED
    BY <2>2, <2>3 DEF Bits
<1>11. Sound(lev, reserved, mem, {})
  BY <1>6, <1>7, <1>8, <1>9, <1>10 DEF Sound
<1>12. Roots(lev, PML4s)
  BY <1>1, <1>2, <1>3, <1>7, SMTT(60) DEF Roots, PML4s
<1>13. Structure
  BY <1>11, <1>12 DEF Structure
<1>14. Places /\ SharedHalf
  BY <1>1, <1>3 DEF Places, PML4s, SharedHalf
<1>15. CallOK
  BY <1>1, SMTT(60) DEF CallOK, NoCall, Call
<1>16. QED
  BY <1>13, <1>14, <1>15

\* vmm_create_PML4 and vmm_copy_kernel_PML4
LEMMA CreateSpaceOK == IInv /\ CreateSpace => IInv'
<1> SUFFICES ASSUME IInv, CreateSpace, phase' = "run"
             PROVE  Structure' /\ Places' /\ CallOK' /\ SharedHalf'
  BY DEF IInv
<1>1. phase = "run" /\ Structure /\ Places /\ CallOK /\ SharedHalf /\ call.op = "none"
  BY DEF IInv, CreateSpace, Idle
<1>2. PICK lev : Sound(lev, reserved, mem, {}) /\ Roots(lev, PML4s)
  BY <1>1 DEF Structure
<1>3. PICK f : f = pmm_alloc_frame(reserved)
  OBVIOUS
<1>4. /\ f # 0
      /\ reserved' = pmm_set_frame(reserved, f, TRUE)
      /\ mem' = KernelHalfCopied([mem EXCEPT ![f] = EmptyTable], f)
      /\ spaces' = spaces \cup {f} /\ current_PML4' = f
      /\ kernel_PML4' = kernel_PML4 /\ call' = call
  BY <1>3 DEF CreateSpace
<1>5. f \in Frame /\ lev[f] = -1
  BY <1>2, <1>3, <1>4, TakeFirst
<1>6. kernel_PML4 \in Frame /\ lev[kernel_PML4] = 4 /\ kernel_PML4 # f /\ f \notin spaces
  BY <1>1, <1>2, <1>5, SMTT(60) DEF Places, Roots, PML4s
<1>7. mem \in Memory /\ lev \in Levels
  BY <1>2 DEF Sound
<1>8. NewRoot(mem, mem', f, kernel_PML4)
  <2>1. EmptyTable \in [Index -> Entry] /\ \A i \in Index : EmptyTable[i] = NotPresent
    BY EntryFacts DEF EmptyTable
  <2>2. PICK m1 : m1 = [mem EXCEPT ![f] = EmptyTable]
    OBVIOUS
  <2>3. /\ m1 \in Memory /\ m1[f] = EmptyTable /\ m1[kernel_PML4] = mem[kernel_PML4]
        /\ \A u \in Frame \ {f} : m1[u] = mem[u]
    BY <1>5, <1>6, <1>7, <2>1, <2>2 DEF Memory
  <2>4. mem' = [m1 EXCEPT ![f] = [i \in Index |-> IF i \in KernelHalf
                                                 THEN m1[kernel_PML4][i] ELSE m1[f][i]]]
    BY <1>4, <2>2, SMTT(60) DEF KernelHalfCopied
  <2>5. [i \in Index |-> IF i \in KernelHalf THEN m1[kernel_PML4][i] ELSE m1[f][i]]
          \in [Index -> Entry]
    BY <1>5, <1>6, <2>3 DEF Memory
  <2>6. /\ mem' \in Memory
        /\ \A u \in Frame \ {f} : mem'[u] = m1[u]
        /\ \A i \in Index : mem'[f][i] = IF i \in KernelHalf THEN m1[kernel_PML4][i]
                                         ELSE m1[f][i]
    BY <1>5, <2>3, <2>4, <2>5 DEF Memory
  <2>7. QED
    BY <2>1, <2>3, <2>6 DEF NewRoot
<1>9. PICK lev2 : lev2 = [lev EXCEPT ![f] = 4]
  OBVIOUS
<1>10. Sound(lev2, reserved', mem', {})
  BY <1>2, <1>3, <1>4, <1>6, <1>8, <1>9, RootOK
<1>11. Roots(lev2, PML4s')
  BY <1>2, <1>4, <1>5, <1>7, <1>9 DEF Roots, PML4s, Levels
<1>12. Structure'
  BY <1>10, <1>11 DEF Structure
<1>13. Places'
  BY <1>1, <1>4, <1>5 DEF Places, PML4s
<1>14. CallOK'
  BY <1>1, <1>4 DEF CallOK
<1>15. SharedHalf'
  <2>1. KernelHalf \subseteq Index
    BY PagingAssumption, SMTT(60) DEF KernelHalf, Index
  <2>2. ASSUME NEW space \in spaces', NEW i \in KernelHalf
        PROVE  mem'[space][i] = mem'[kernel_PML4'][i]
    <3>1. mem'[kernel_PML4'][i] = mem[kernel_PML4][i]
      BY <1>4, <1>6, <1>8 DEF NewRoot
    <3>2. CASE space = f
      BY <1>8, <2>1, <3>1, <3>2 DEF NewRoot
    <3>3. CASE space # f
      BY <1>1, <1>4, <1>8, <3>1, <3>3 DEF NewRoot, SharedHalf, Places
    <3>4. QED
      BY <3>2, <3>3
  <2>3. QED
    BY <2>2 DEF SharedHalf
<1>16. QED
  BY <1>12, <1>13, <1>14, <1>15

\* Copying the kernel half again when it is shared changes nothing.
LEMMA SwitchOK == ASSUME IInv, NEW space \in PML4s, Switch(space) PROVE IInv'
<1>1. phase = "run" /\ Structure /\ Places /\ CallOK /\ SharedHalf
  BY DEF IInv, Switch, Idle
<1>2. mem \in Memory
  BY <1>1 DEF Structure, Sound
<1>3. space \in Frame /\ mem[space] \in [Index -> Entry]
  BY <1>1, <1>2 DEF Places, PML4s, Memory
<1>4. \A i \in KernelHalf : mem[space][i] = mem[kernel_PML4][i]
  BY <1>1 DEF SharedHalf, PML4s
<1>5. [i \in Index |-> IF i \in KernelHalf THEN mem[kernel_PML4][i] ELSE mem[space][i]]
        = mem[space]
  BY <1>3, <1>4
<1>6. mem' = mem
  <2>1. mem' = [mem EXCEPT ![space] = mem[space]]
    BY <1>5 DEF Switch, KernelHalfCopied
  <2>2. QED
    BY <1>2, <2>1 DEF Memory
<1>7. /\ reserved' = reserved /\ kernel_PML4' = kernel_PML4 /\ spaces' = spaces
      /\ call' = call /\ current_PML4' = space
  BY DEF Switch
<1>8. PML4s' = PML4s
  BY <1>7 DEF PML4s
<1>9. Structure' /\ CallOK' /\ SharedHalf'
  BY <1>1, <1>6, <1>7, <1>8 DEF Structure, CallOK, SharedHalf
<1>10. Places'
  BY <1>1, <1>7, <1>8 DEF Places
<1>11. QED
  BY <1>9, <1>10 DEF IInv

\* A loop begins with a range and flags that suit the operation.
LEMMA BeginOK ==
    ASSUME IInv, NEW op \in {"alloc", "edit", "free"}, NEW flags \in Flags \cup {"none"},
           NEW range \in Page \X Page, Begin(op, range, flags),
           op \in {"alloc", "edit"} => flags \in Flags,
           op = "alloc" =>
             \/ spaces = {}
             \/ \A page \in range[1] .. range[2] : PML4_INDEX(page) \notin KernelHalf
    PROVE  IInv'
<1>1. phase = "run" /\ Structure /\ Places /\ SharedHalf
  BY DEF IInv, Begin, Idle
<1>2. /\ reserved' = reserved /\ mem' = mem /\ kernel_PML4' = kernel_PML4
      /\ spaces' = spaces /\ current_PML4' = current_PML4
      /\ call' = [op |-> op, first |-> range[1], last |-> range[2], page |-> range[1],
                  flags |-> flags]
  BY DEF Begin
<1>3. Structure' /\ Places' /\ SharedHalf'
  BY <1>1, <1>2 DEF Structure, Places, SharedHalf, PML4s
<1>4. range[1] \in Nat /\ range[2] \in Nat
  <2>1. range[1] \in Page /\ range[2] \in Page
    OBVIOUS
  <2>2. Page \subseteq Nat
    <3>1. ENTRIES \in Nat
      BY PagingAssumption
    <3>2. ENTRIES * ENTRIES * ENTRIES * ENTRIES \in Int
      BY <3>1, SMTT(60)
    <3>3. QED
      BY <3>2, SMTT(60) DEF Page
  <2>3. QED
    BY <2>1, <2>2
<1>5. call' \in Call
  BY <1>2, <1>4, SMTT(60) DEF Call
<1>6. CallOK'
  BY <1>2, <1>4, <1>5, SMTT(60) DEF CallOK
<1>7. QED
  BY <1>3, <1>6 DEF IInv

LEMMA BeginsOK == IInv /\ (AllocBegins \/ EditBegins \/ FreeBegins) => IInv'
<1>1. /\ KernelRanges \subseteq Page \X Page /\ Segments \subseteq Page \X Page
      /\ Heaps \subseteq Page \X Page
      /\ \A range \in Segments \cup Heaps : \A page \in range[1] .. range[2] :
           PML4_INDEX(page) \notin KernelHalf
      /\ "kernel" \in Flags /\ "user" \in Flags
  BY PagingAssumption DEF Flags
<1>2. ASSUME IInv, spaces = {}, NEW range \in KernelRanges, Begin("alloc", range, "kernel")
      PROVE  IInv'
  BY <1>1, <1>2, BeginOK
<1>3. ASSUME IInv, NEW range \in Segments, Begin("alloc", range, "kernel")
      PROVE  IInv'
  BY <1>1, <1>3, BeginOK
<1>4. ASSUME IInv, NEW range \in Heaps, Begin("alloc", range, "user")
      PROVE  IInv'
  BY <1>1, <1>4, BeginOK
<1>5. ASSUME IInv, NEW range \in Segments, Begin("edit", range, "user")
      PROVE  IInv'
  BY <1>1, <1>5, BeginOK
<1>6. ASSUME IInv, NEW range \in Heaps, Begin("free", range, "none")
      PROVE  IInv'
  BY <1>1, <1>6, BeginOK
<1>7. QED
  BY <1>2, <1>3, <1>4, <1>5, <1>6 DEF AllocBegins, EditBegins, FreeBegins

\* The kernel half stays shared when at most one entry of the current PML4 changed,
\* and that one outside the kernel half or in the only PML4.
LEMMA SharedKept ==
    ASSUME NEW lev, NEW lev2, NEW m2, NEW i \in Index,
           Places, SharedHalf, Roots(lev, PML4s),
           SameRoots(lev, lev2, mem, m2, current_PML4, i),
           spaces = {} \/ i \notin KernelHalf
    PROVE  /\ Roots(lev2, PML4s)
           /\ \A space \in spaces : \A j \in KernelHalf : m2[space][j] = m2[kernel_PML4][j]
<1>1. Roots(lev2, PML4s)
  BY DEF Roots, SameRoots
<1>2. KernelHalf \subseteq Index
  BY PagingAssumption, SMTT(60) DEF KernelHalf, Index
<1>3. ASSUME NEW space \in PML4s, NEW j \in KernelHalf, j # i
      PROVE  m2[space][j] = mem[space][j]
  BY <1>2, <1>3 DEF Roots, SameRoots, Places, PML4s
<1>4. ASSUME NEW space \in spaces, NEW j \in KernelHalf
      PROVE  m2[space][j] = m2[kernel_PML4][j]
  BY <1>3 DEF SharedHalf, PML4s
<1>5. QED
  BY <1>1, <1>4

\* The call goes on to the next page, or to the rollback.
LEMMA CallKept ==
    ASSUME CallOK, spaces' = spaces, call.op # "none", NextPage \/ RollBack
    PROVE  CallOK'
<1>1. call \in Call
  BY DEF CallOK
<1>2. CASE NextPage
  <2>1. call' = [op |-> call.op, first |-> call.first, last |-> call.last,
                 page |-> call.page + 1, flags |-> call.flags]
    BY <1>1, <1>2 DEF NextPage, Call
  <2>2. call' \in Call
    BY <1>1, <2>1, SMTT(60) DEF Call
  <2>3. call.first \in Nat /\ call.page \in Nat
    BY <1>1 DEF Call
  <2>4. QED
    BY <2>1, <2>2, <2>3, SMTT(60) DEF CallOK
<1>3. CASE RollBack
  <2>1. call' = [op |-> "undo", first |-> call.first, last |-> call.page - 1,
                 page |-> call.first, flags |-> call.flags]
    BY <1>1, <1>3 DEF RollBack, Call
  <2>2. call' \in Call
    BY <1>1, <2>1, SMTT(60) DEF Call
  <2>3. QED
    BY <2>1, <2>2 DEF CallOK
<1>4. QED
  BY <1>2, <1>3

\* vmm_alloc: one page
LEMMA AllocPageOK == IInv /\ AllocPage => IInv'
<1> SUFFICES ASSUME IInv, AllocPage, phase' = "run"
             PROVE  Structure' /\ Places' /\ CallOK' /\ SharedHalf'
  BY DEF IInv
<1>1. PICK f, r, w, i : /\ f = pmm_alloc_frame(reserved)
                        /\ r = pmm_set_frame(reserved, f, TRUE)
                        /\ w = DescendToTable(r, mem, call.page)
                        /\ i = PT_INDEX(call.page)
  OBVIOUS
<1>2. /\ phase = "run" /\ call.op = "alloc" /\ call.page <= call.last
      /\ kernel_PML4' = kernel_PML4 /\ spaces' = spaces /\ current_PML4' = current_PML4
      /\ NextPage \/ RollBack
      /\ \/ reserved' = reserved /\ mem' = mem
         \/ /\ f # 0 /\ ~ w.null
            /\ w.mem[w.at][i].present
            /\ reserved' = pmm_set_frame(w.reserved, f, FALSE)
            /\ mem' = w.mem
         \/ /\ f # 0 /\ ~ w.null
            /\ ~ w.mem[w.at][i].present
            /\ reserved' = w.reserved
            /\ mem' = [w.mem EXCEPT ![w.at][i] = To(f, call.flags)]
  BY <1>1 DEF AllocPage, InLoop, MorePages, FrameGivenBack
<1>3. Structure /\ Places /\ CallOK /\ SharedHalf
  BY <1>2 DEF IInv
<1>4. PML4s' = PML4s /\ Places'
  BY <1>2, <1>3 DEF Places, PML4s
<1>5. CallOK'
  BY <1>2, <1>3, CallKept
<1>6. PICK lev : Sound(lev, reserved, mem, {}) /\ Roots(lev, PML4s)
  BY <1>3 DEF Structure
<1>7. current_PML4 \in Frame /\ lev[current_PML4] = 4
  BY <1>3, <1>6 DEF Places, PML4s, Roots
<1>8. /\ call.page \in Nat /\ call.flags \in Flags
      /\ i \in Index /\ PML4_INDEX(call.page) \in Index
      /\ spaces = {} \/ PML4_INDEX(call.page) \notin KernelHalf
  <2>1. /\ call.page \in Nat /\ call.first \in Nat /\ call.last \in Int
        /\ call.flags \in Flags /\ call.first <= call.page
        /\ \/ spaces = {}
           \/ \A page \in call.first .. call.last : PML4_INDEX(page) \notin KernelHalf
    BY <1>2, <1>3 DEF CallOK, Call
  <2>2. call.page \in call.first .. call.last
    BY <1>2, <2>1, SMTT(60)
  <2>3. QED
    BY <1>1, <2>1, <2>2, IndexFacts
<1>9. CASE reserved' = reserved /\ mem' = mem
  BY <1>2, <1>3, <1>4, <1>5, <1>9 DEF Structure, SharedHalf
<1>10. ASSUME f # 0, ~ w.null
       PROVE  \E lev2 : /\ Sound(lev2, w.reserved, w.mem, {f})
                        /\ w.at \in Frame /\ lev2[w.at] = 1
                        /\ SameRoots(lev, lev2, mem, w.mem, current_PML4,
                                     PML4_INDEX(call.page))
  <2>1. Sound(lev, r, mem, {f})
    BY <1>1, <1>6, <1>10, TakeFirst
  <2>2. PICK loose : loose = {f}
    OBVIOUS
  <2>3. Sound(lev, r, mem, loose) /\ ~ DescendToTable(r, mem, call.page).null
    BY <1>1, <1>10, <2>1, <2>2
  <2>4. \E lev2 : /\ Sound(lev2, w.reserved, w.mem, loose)
                  /\ w.at \in Frame /\ lev2[w.at] = 1
                  /\ SameRoots(lev, lev2, mem, w.mem, current_PML4, PML4_INDEX(call.page))
    BY <1>1, <1>7, <1>8, <2>3, WalkOK
  <2>5. QED
    BY <2>2, <2>4
<1>11. CASE /\ f # 0 /\ ~ w.null
            /\ reserved' = pmm_set_frame(w.reserved, f, FALSE)
            /\ mem' = w.mem
  <2>1. PICK lev2 : /\ Sound(lev2, w.reserved, w.mem, {f})
                    /\ SameRoots(lev, lev2, mem, w.mem, current_PML4,
                                 PML4_INDEX(call.page))
    BY <1>10, <1>11
  <2>2. Sound(lev2, reserved', mem', {})
    BY <1>11, <2>1, DropOK
  <2>3. /\ Roots(lev2, PML4s)
        /\ \A space \in spaces : \A j \in KernelHalf : w.mem[space][j] = w.mem[kernel_PML4][j]
    BY <1>3, <1>6, <1>8, <2>1, SharedKept, SMTT(60)
  <2>4. Structure'
    BY <1>4, <2>2, <2>3 DEF Structure
  <2>5. SharedHalf'
    BY <1>2, <1>11, <2>3 DEF SharedHalf
  <2>6. QED
    BY <1>4, <1>5, <2>4, <2>5
<1>12. CASE /\ f # 0 /\ ~ w.null
            /\ ~ w.mem[w.at][i].present
            /\ reserved' = w.reserved
            /\ mem' = [w.mem EXCEPT ![w.at][i] = To(f, call.flags)]
  <2>1. PICK lev2 : /\ Sound(lev2, w.reserved, w.mem, {f})
                    /\ w.at \in Frame /\ lev2[w.at] = 1
                    /\ SameRoots(lev, lev2, mem, w.mem, current_PML4,
                                 PML4_INDEX(call.page))
    BY <1>10, <1>12
  <2>2. /\ w.mem \in Memory /\ lev2 \in Levels
        /\ f \in Frame /\ lev2[f] = -1
    BY <2>1 DEF Sound, Bits
  <2>3. Changed(w.mem, mem', w.at, i, To(f, call.flags), f)
    BY <1>8, <1>12, <2>1, <2>2, WriteFacts, EntryFacts
  <2>4. PICK lev3 : lev3 = [lev2 EXCEPT ![f] = lev2[w.at] - 1]
    OBVIOUS
  <2>5. Sound(lev3, w.reserved, mem', {f} \ {f})
    <3>1. PICK m : m = w.mem
      OBVIOUS
    <3>2. PICK t : t = w.at
      OBVIOUS
    <3>3. PICK loose : loose = {f}
      OBVIOUS
    <3>4. Sound(lev2, w.reserved, m, loose) /\ f \in loose
      BY <2>1, <3>1, <3>3
    <3>5. t \in Frame /\ lev2[t] = 1
      BY <2>1, <3>2
    <3>6. lev2[t] \in 1 .. 4 /\ ~ (lev2[t] > 1)
      BY <3>5, SMTT(60)
    <3>7. ~ m[t][i].present
      BY <1>12, <3>1, <3>2
    <3>8. Changed(m, mem', t, i, To(f, call.flags), f)
      BY <2>3, <3>1, <3>2
    <3>9. lev3 = [lev2 EXCEPT ![f] = lev2[t] - 1]
      BY <2>4, <3>2
    <3>10. Sound(lev3, w.reserved, mem', loose \ {f})
      BY <1>8, <3>4, <3>5, <3>6, <3>7, <3>8, <3>9, LinkOK
    <3>11. QED
      BY <3>3, <3>10
  <2>6. Sound(lev3, reserved', mem', {})
    <3>1. {f} \ {f} = {}
      OBVIOUS
    <3>2. QED
      BY <1>12, <2>5, <3>1
  <2>7. SameRoots(lev, lev3, mem, mem', current_PML4, PML4_INDEX(call.page))
    BY <2>1, <2>2, <2>3, <2>4, SMTT(60) DEF SameRoots, Changed, Levels
  <2>8. /\ Roots(lev3, PML4s)
        /\ \A space \in spaces : \A j \in KernelHalf : mem'[space][j] = mem'[kernel_PML4][j]
    BY <1>3, <1>6, <1>8, <2>7, SharedKept, SMTT(60)
  <2>9. Structure'
    BY <1>4, <2>6, <2>8 DEF Structure
  <2>10. SharedHalf'
    BY <1>2, <2>8 DEF SharedHalf
  <2>11. QED
    BY <1>4, <1>5, <2>9, <2>10
<1>13. QED
  BY <1>2, <1>9, <1>11, <1>12

\* What a change of a page table entry means for the rest.
LEMMA PageChanged ==
    ASSUME IInv, phase = "run", NEW lev, Roots(lev, PML4s), lev \in Levels,
           NEW lev2, Roots(lev2, PML4s), Sound(lev2, reserved', mem', {}),
           NEW t \in Frame, NEW i, lev[t] = 1, NEW e, NEW f, lev[f] = 0,
           Changed(mem, mem', t, i, e, f),
           UNCHANGED <<kernel_PML4, spaces, current_PML4>>,
           call.op # "none", NextPage
    PROVE  IInv'
<1>1. Structure /\ Places /\ CallOK /\ SharedHalf
  BY DEF IInv
<1>2. PML4s' = PML4s /\ Places'
  BY <1>1 DEF Places, PML4s
<1>3. CallOK'
  BY <1>1, CallKept
<1>4. Structure'
  BY <1>2 DEF Structure
<1>5. KernelHalf \subseteq Index
  BY PagingAssumption, SMTT(60) DEF KernelHalf, Index
<1>6. ASSUME NEW space \in PML4s, NEW j \in KernelHalf
      PROVE  mem'[space][j] = mem[space][j]
  <2>1. space \in Frame /\ lev[space] = 4
    BY <1>1 DEF Roots, Places, PML4s
  <2>2. space # t /\ space # f /\ j \in Index
    BY <1>5, <2>1, SMTT(60)
  <2>3. QED
    BY <2>1, <2>2 DEF Changed
<1>7. SharedHalf'
  <2>1. SUFFICES ASSUME NEW space \in spaces, NEW j \in KernelHalf
                 PROVE  mem'[space][j] = mem'[kernel_PML4][j]
    BY DEF SharedHalf
  <2>2. mem[space][j] = mem[kernel_PML4][j]
    BY <1>1 DEF SharedHalf
  <2>3. space \in PML4s /\ kernel_PML4 \in PML4s
    BY DEF PML4s
  <2>4. mem'[space][j] = mem[space][j] /\ mem'[kernel_PML4][j] = mem[kernel_PML4][j]
    BY <1>6, <2>3
  <2>5. QED
    BY <2>2, <2>4
<1>8. QED
  BY <1>2, <1>3, <1>4, <1>7 DEF IInv

\* vmm_free and the rollback: one page
LEMMA UnmapPageOK == IInv /\ UnmapPage => IInv'
<1> SUFFICES ASSUME IInv, UnmapPage PROVE IInv'
  OBVIOUS
<1>1. PICK e : e = PageEntry(mem, current_PML4, call.page)
  OBVIOUS
<1>2. /\ phase = "run" /\ call.op # "none" /\ phase' = phase
      /\ UNCHANGED <<kernel_PML4, spaces, current_PML4>> /\ NextPage
      /\ e.present => /\ reserved' = pmm_set_frame(reserved, e.addr, FALSE)
                      /\ mem' = Updated(mem, call.page, NotPresent)
      /\ ~ e.present => reserved' = reserved /\ mem' = mem
  BY <1>1 DEF UnmapPage, InLoop
<1>3. Structure /\ Places /\ CallOK /\ SharedHalf
  BY <1>2 DEF IInv
<1>4. CASE ~ e.present
  <2>1. CallOK'
    BY <1>2, <1>3, CallKept
  <2>2. QED
    BY <1>2, <1>3, <1>4, <2>1, SMTT(60) DEF IInv, Structure, Places, SharedHalf, PML4s
<1>5. CASE e.present
  <2>1. PICK lev : Sound(lev, reserved, mem, {}) /\ Roots(lev, PML4s)
    BY <1>3 DEF Structure
  <2>2. current_PML4 \in Frame /\ lev[current_PML4] = 4 /\ call.page \in Nat
    BY <1>3, <2>1 DEF Places, PML4s, Roots, CallOK, Call
  <2>3. PICK t, i : t = TableEntry(mem, current_PML4, call.page).addr /\ i = PT_INDEX(call.page)
    OBVIOUS
  <2>4. t \in Frame /\ lev[t] = 1 /\ e = mem[t][i] /\ i \in Index
    BY <1>1, <1>5, <2>1, <2>2, <2>3, PageTableFacts
  <2>5. mem \in Memory /\ lev \in Levels
    BY <2>1 DEF Sound
  <2>6. mem' = [mem EXCEPT ![t][i] = NotPresent]
    BY <1>2, <1>5, <2>3 DEF Updated
  <2>7. PICK f : f = mem[t][i].addr
    OBVIOUS
  <2>8. Changed(mem, mem', t, i, NotPresent, f)
    BY <2>4, <2>5, <2>6, WriteFacts, EntryFacts
  <2>9. PICK lev2 : lev2 = [lev EXCEPT ![f] = -1]
    OBVIOUS
  <2>10. lev[f] = 0 /\ Sound(lev2, reserved', mem', {})
    <3>1. mem[t][i].present /\ reserved' = pmm_set_frame(reserved, f, FALSE)
      BY <1>2, <1>5, <2>4, <2>7
    <3>2. PICK m2 : m2 = mem'
      OBVIOUS
    <3>3. Unlinked(lev, mem, m2, t, i, f)
      BY <2>4, <2>7, <2>8, <3>1, <3>2 DEF Unlinked
    <3>4. lev[f] = 0 /\ Sound(lev2, pmm_set_frame(reserved, f, FALSE), m2, {})
      BY <2>1, <2>9, <3>3, UnlinkOK
    <3>5. QED
      BY <3>1, <3>2, <3>4
  <2>11. Roots(lev2, PML4s)
    BY <2>1, <2>5, <2>9, <2>10, SMTT(60) DEF Roots, Levels
  <2>12. QED
    BY <1>2, <2>1, <2>4, <2>5, <2>8, <2>10, <2>11, PageChanged
<1>6. QED
  BY <1>4, <1>5

\* vmm_edit_pages: one page
LEMMA EditPageOK == IInv /\ EditPage => IInv'
<1> SUFFICES ASSUME IInv, EditPage PROVE IInv'
  OBVIOUS
<1>1. PICK e : e = PageEntry(mem, current_PML4, call.page)
  OBVIOUS
<1>2. /\ phase = "run" /\ call.op = "edit" /\ phase' = phase /\ reserved' = reserved
      /\ UNCHANGED <<kernel_PML4, spaces, current_PML4>> /\ NextPage
      /\ e.present => mem' = Updated(mem, call.page, To(e.addr, call.flags))
      /\ ~ e.present => mem' = mem
  BY <1>1 DEF EditPage, InLoop
<1>3. Structure /\ Places /\ CallOK /\ SharedHalf
  BY <1>2 DEF IInv
<1>4. CASE ~ e.present
  <2>1. CallOK'
    BY <1>2, <1>3, CallKept
  <2>2. QED
    BY <1>2, <1>3, <1>4, <2>1, SMTT(60) DEF IInv, Structure, Places, SharedHalf, PML4s
<1>5. CASE e.present
  <2>1. PICK lev : Sound(lev, reserved, mem, {}) /\ Roots(lev, PML4s)
    BY <1>3 DEF Structure
  <2>2. /\ current_PML4 \in Frame /\ lev[current_PML4] = 4 /\ call.page \in Nat
        /\ call.flags \in Flags
    BY <1>2, <1>3, <2>1 DEF Places, PML4s, Roots, CallOK, Call
  <2>3. PICK t, i : t = TableEntry(mem, current_PML4, call.page).addr /\ i = PT_INDEX(call.page)
    OBVIOUS
  <2>4. PICK none : none = {}
    OBVIOUS
  <2>5. Sound(lev, reserved, mem, none)
    BY <2>1, <2>4
  <2>6. t \in Frame /\ lev[t] = 1 /\ e = mem[t][i] /\ i \in Index
    BY <1>1, <1>5, <2>1, <2>2, <2>3, PageTableFacts, SMTT(60)
  <2>7. mem \in Memory /\ lev \in Levels /\ Points(lev, mem)
    BY <2>1 DEF Sound
  <2>8. e \in Entry /\ e.addr \in Frame /\ lev[e.addr] = 0
    <3>1. e \in Entry
      BY <2>6, <2>7 DEF Memory
    <3>2. lev[t] >= 1 /\ mem[t][i].present
      BY <1>5, <2>6, SMTT(60)
    <3>3. mem[t][i].addr \in Frame /\ lev[mem[t][i].addr] = lev[t] - 1
      BY <2>6, <2>7, <3>2, PointsFacts, SMTT(60)
    <3>4. QED
      BY <2>6, <3>1, <3>3, SMTT(60)
  <2>10. mem' = [mem EXCEPT ![t][i] = To(e.addr, call.flags)]
    BY <1>2, <1>5, <2>3 DEF Updated
  <2>11. Changed(mem, mem', t, i, To(e.addr, call.flags), e.addr)
    <3>1. To(e.addr, call.flags) \in Entry
      BY <2>2, <2>8, EntryFacts
    <3>2. QED
      BY <2>6, <2>7, <2>10, <3>1, WriteFacts
  <2>12. Sound(lev, reserved, mem', none)
    BY <1>5, <2>2, <2>5, <2>6, <2>11, EditOK
  <2>13. Sound(lev, reserved', mem', {})
    BY <1>2, <2>4, <2>12
  <2>14. QED
    BY <1>2, <2>1, <2>6, <2>7, <2>8, <2>11, <2>13, PageChanged
<1>6. QED
  BY <1>4, <1>5

\* The loop is over.
LEMMA ReturnOK == IInv /\ Return => IInv'
<1> SUFFICES ASSUME IInv, Return, phase' = "run"
             PROVE  Structure' /\ Places' /\ CallOK' /\ SharedHalf'
  BY DEF IInv
<1>1. /\ phase = "run" /\ call' = NoCall
      /\ UNCHANGED <<reserved, mem, kernel_PML4, spaces, current_PML4>>
  BY DEF Return
<1>2. Structure /\ Places /\ SharedHalf
  BY <1>1 DEF IInv
<1>3. Structure' /\ Places' /\ SharedHalf'
  BY <1>1, <1>2 DEF Structure, Places, SharedHalf, PML4s
<1>4. CallOK'
  BY <1>1, SMTT(60) DEF CallOK, NoCall, Call
<1>5. QED
  BY <1>3, <1>4

\* Every step of the memory manager keeps the invariant.
THEOREM Invariant == Spec => []IInv
<1>1. Init => IInv
  BY InitOK
<1>2. IInv /\ [Next]_vars => IInv'
  <2> SUFFICES ASSUME IInv, [Next]_vars PROVE IInv'
    OBVIOUS
  <2>1. CASE CreateSpace
    BY <2>1, CreateSpaceOK
  <2>2. CASE \E space \in spaces \cup {kernel_PML4} : Switch(space)
    BY <2>2, SwitchOK DEF PML4s
  <2>3. CASE AllocBegins \/ EditBegins \/ FreeBegins
    BY <2>3, BeginsOK, SMTT(60)
  <2>4. CASE AllocPage
    BY <2>4, AllocPageOK
  <2>5. CASE UnmapPage
    BY <2>5, UnmapPageOK
  <2>6. CASE EditPage
    BY <2>6, EditPageOK
  <2>7. CASE Return
    BY <2>7, ReturnOK
  <2>8. CASE UNCHANGED vars
    BY <2>8 DEF vars, IInv, Structure, Places, CallOK, SharedHalf, PML4s
  <2>9. QED
    BY <2>1, <2>2, <2>3, <2>4, <2>5, <2>6, <2>7, <2>8 DEF Next
<1>3. QED
  BY <1>1, <1>2, PTL DEF Spec

-----------------------------------------------------------------------------
(* What the invariant means for the tables                                 *)

\* The frames below the tables of a level are the frames of the next.
LEMMA BelowLevel ==
    ASSUME NEW lev, Sound(lev, reserved, mem, {}), NEW k \in 1 .. 4,
           NEW S, S = {f \in Frame : lev[f] = k}
    PROVE  Below(S) = {f \in Frame : lev[f] = k - 1}
<1>1. lev \in Levels /\ mem \in Memory /\ Points(lev, mem) /\ Owned(lev, mem)
  BY DEF Sound
<1>2. ASSUME NEW f \in Below(S) PROVE f \in Frame /\ lev[f] = k - 1
  <2>1. PICK t \in S, i \in Index : f \in Frame /\ mem[t][i].present /\ mem[t][i].addr = f
    BY DEF Below
  <2>2. QED
    BY <1>1, <2>1, SMTT(60) DEF Points
<1>3. ASSUME NEW f \in Frame, lev[f] = k - 1 PROVE f \in Below(S)
  <2>1. lev[f] \in 0 .. 3
    BY <1>3, SMTT(60)
  <2>2. PICK t \in Frame, i \in Index :
           lev[t] = lev[f] + 1 /\ mem[t][i].present /\ mem[t][i].addr = f
    BY <1>1, <2>1 DEF Owned
  <2>3. t \in S
    BY <1>3, <2>2, SMTT(60)
  <2>4. QED
    BY <2>2, <2>3 DEF Below
<1>4. QED
  BY <1>2, <1>3

\* Tables and mapped frames by their levels.
LEMMA LevelsAre ==
    ASSUME NEW lev, Sound(lev, reserved, mem, {}), Roots(lev, PML4s),
           PML4s \subseteq Frame
    PROVE  /\ Tables = {f \in Frame : lev[f] >= 1}
           /\ Mapped = {f \in Frame : lev[f] = 0}
<1>1. PML4s = {f \in Frame : lev[f] = 4}
  BY DEF Roots
<1>2. PDPTs = {f \in Frame : lev[f] = 3}
  <2>1. Below(PML4s) = {f \in Frame : lev[f] = 4 - 1}
    BY <1>1, BelowLevel, SMTT(60)
  <2>2. QED
    BY <2>1, SMTT(60) DEF PDPTs
<1>3. Directories = {f \in Frame : lev[f] = 2}
  <2>1. Below(PDPTs) = {f \in Frame : lev[f] = 3 - 1}
    BY <1>2, BelowLevel, SMTT(60)
  <2>2. QED
    BY <2>1, SMTT(60) DEF Directories
<1>4. PageTables = {f \in Frame : lev[f] = 1}
  <2>1. Below(Directories) = {f \in Frame : lev[f] = 2 - 1}
    BY <1>3, BelowLevel, SMTT(60)
  <2>2. QED
    BY <2>1, SMTT(60) DEF PageTables
<1>5. Mapped = {f \in Frame : lev[f] = 0}
  <2>1. Below(PageTables) = {f \in Frame : lev[f] = 1 - 1}
    BY <1>4, BelowLevel, SMTT(60)
  <2>2. QED
    BY <2>1, SMTT(60) DEF Mapped
<1>6. \A f \in Frame : lev[f] \in -1 .. 4
  BY DEF Sound, Levels
<1>7. Tables = {f \in Frame : lev[f] >= 1}
  BY <1>1, <1>2, <1>3, <1>4, <1>6, SMTT(60) DEF Tables
<1>8. QED
  BY <1>5, <1>7

\* While the kernel runs there are levels, and they are those of the tables.
LEMMA LevelsExist ==
    ASSUME IInv, phase = "run"
    PROVE  \E lev : /\ Sound(lev, reserved, mem, {}) /\ Roots(lev, PML4s)
                    /\ PML4s \subseteq Frame
                    /\ Tables = {f \in Frame : lev[f] >= 1}
                    /\ Mapped = {f \in Frame : lev[f] = 0}
<1>1. PICK lev : Sound(lev, reserved, mem, {}) /\ Roots(lev, PML4s)
  BY DEF IInv, Structure
<1>2. PML4s \subseteq Frame
  BY DEF IInv, Places, PML4s
<1>3. QED
  BY <1>1, <1>2, LevelsAre

\* The frame bitmap and the page tables agree, for every memory map, table size and
\* sequence of vmm_alloc, vmm_free and vmm_edit_pages, failed ones included.
THEOREM BitmapIsAlwaysExact == Spec => []BitmapIsExact
<1>1. IInv => BitmapIsExact
  <2> SUFFICES ASSUME IInv, phase = "run"
               PROVE  reserved = pmm_init \cup Tables \cup Mapped
    BY DEF BitmapIsExact
  <2>1. PICK lev : /\ Sound(lev, reserved, mem, {})
                   /\ Tables = {f \in Frame : lev[f] >= 1}
                   /\ Mapped = {f \in Frame : lev[f] = 0}
    BY LevelsExist
  <2>2. /\ \A f \in Frame : lev[f] \in -1 .. 4
        /\ reserved = pmm_init \cup {f \in Frame : lev[f] >= 0} \cup {}
    BY <2>1 DEF Sound, Levels, Bits
  <2>3. {f \in Frame : lev[f] >= 0} = Tables \cup Mapped
    BY <2>1, <2>2, SMTT(60)
  <2>4. QED
    BY <2>2, <2>3
<1>2. QED
  BY <1>1, Invariant, PTL

\* No frame is mapped or used as a table twice, and no process reaches what belongs
\* to another.
THEOREM FramesHaveOneOwner == Spec => []OneOwner
<1>1. IInv => OneOwner
  <2> SUFFICES ASSUME IInv, phase = "run",
                      NEW t \in Tables, NEW u \in Tables, NEW i \in Index, NEW j \in Index,
                      mem[t][i].present
               PROVE  /\ mem[t][i].addr \notin PML4s
                      /\ mem[u][j].present /\ mem[u][j].addr = mem[t][i].addr =>
                             /\ i = j
                             /\ t = u \/ ({t, u} \subseteq PML4s /\ i \in KernelHalf)
    BY DEF OneOwner
  <2>1. PICK lev : /\ Sound(lev, reserved, mem, {}) /\ Roots(lev, PML4s)
                   /\ Tables = {f \in Frame : lev[f] >= 1}
    BY LevelsExist
  <2>2. /\ \A f \in Frame : lev[f] \in -1 .. 4
        /\ mem \in Memory /\ Points(lev, mem) /\ Owners(lev, mem)
    BY <2>1 DEF Sound, Levels
  <2>3. t \in Frame /\ u \in Frame /\ lev[t] \in 1 .. 4 /\ lev[u] \in 1 .. 4
    BY <2>1, <2>2, SMTT(60)
  <2>4. mem[t][i].addr \in Frame /\ lev[mem[t][i].addr] = lev[t] - 1
    <3>1. lev[t] >= 1
      BY <2>3, SMTT(60)
    <3>2. QED
      BY <2>2, <2>3, <3>1, PointsFacts, SMTT(60)
  <2>5. mem[t][i].addr \notin PML4s
    <3>1. lev[mem[t][i].addr] # 4
      BY <2>3, <2>4, SMTT(60)
    <3>2. QED
      BY <2>1, <2>4, <3>1 DEF Roots
  <2>6. ASSUME mem[u][j].present, mem[u][j].addr = mem[t][i].addr
        PROVE  i = j /\ (t = u \/ (lev[t] = 4 /\ lev[u] = 4 /\ i \in KernelHalf))
    BY <2>2, <2>3, <2>6, SMTT(60) DEF Owners
  <2>7. QED
    BY <2>1, <2>3, <2>5, <2>6 DEF Roots
<1>2. QED
  BY <1>1, Invariant, PTL

\* Whichever PML4 is loaded, the kernel is mapped, tables it made at boot included.
THEOREM KernelIsAlwaysMapped == Spec => []KernelHalfShared
<1>1. IInv => KernelHalfShared
  BY DEF IInv, SharedHalf, KernelHalfShared
<1>2. QED
  BY <1>1, Invariant, PTL

-----------------------------------------------------------------------------
(* The bitmap's own frames                                                 *)

\* A number lies in the block of its quotient, and quotients are monotone.
LEMMA BlockFacts ==
    ASSUME NEW x \in Nat, NEW d \in Nat \ {0}
    PROVE  x \in (x \div d) * d .. (x \div d + 1) * d - 1
<1>1. x % d \in 0 .. d - 1 /\ x \div d \in Nat
  BY ModFacts, DivFacts
<1>2. x = d * (x \div d) + (x % d)
  BY SMTT(60)
<1>3. PICK q \in Nat, s \in 0 .. d - 1 : x \div d = q /\ x = d * q + s
  BY <1>1, <1>2
<1>4. x >= q * d /\ x <= (q + 1) * d - 1
  BY <1>3, SMTT(60)
<1>5. QED
  BY <1>3, <1>4, SMTT(60)

LEMMA DivMonotone ==
    ASSUME NEW x \in Nat, NEW y \in Nat, NEW d \in Nat \ {0}, x <= y
    PROVE  x \div d <= y \div d
BY SMTT(60)

\* The region with the bitmap is usable and holds all of it.
LEMMA BitmapEntryFacts ==
    /\ BitmapEntry \in UsableEntries
    /\ MemoryMap[BitmapEntry].length >= pmm_bitmap_size
<1> DEFINE S == {k \in UsableEntries : MemoryMap[k].length >= pmm_bitmap_size}
<1>1. S # {}
  BY FramesAssumption
<1>2. S \subseteq Nat
  <2>1. DOMAIN MemoryMap \subseteq Nat
    BY FramesAssumption, SMTT(60)
  <2>2. QED
    BY <2>1 DEF UsableEntries
<1>3. BitmapEntry = Min(S)
  BY DEF BitmapEntry
<1> HIDE DEF S
<1>4. BitmapEntry \in S
  BY <1>1, <1>2, <1>3, LeastExists
<1>5. QED
  BY <1>4 DEF S

\* While the kernel runs, no frame with a byte of the bitmap is handed out.
THEOREM BitmapIsNeverOverwritten == Spec => [](phase = "run" => BitmapKept)
<1>1. ASSUME IInv, phase = "run" PROVE BitmapKept
  <2>1. PICK lev : /\ Sound(lev, reserved, mem, {}) /\ PML4s \subseteq Frame
                   /\ Tables = {f \in Frame : lev[f] >= 1}
                   /\ Mapped = {f \in Frame : lev[f] = 0}
    BY <1>1, LevelsExist
  <2>2. pmm_init \subseteq reserved /\ \A f \in pmm_init : lev[f] >= 0 => f = LIMINE
    BY <2>1 DEF Sound, Bits
  <2>3. SUFFICES ASSUME NEW x \in bitmap_phys .. bitmap_phys + pmm_bitmap_size - 1,
                        x \div FRAME_SIZE \in Free(reserved) \cup Tables \cup Mapped
                 PROVE  FALSE
    BY DEF BitmapKept
  <2>4. PICK f : f = x \div FRAME_SIZE
    OBVIOUS
  <2>5. f \in Frame
    BY <2>1, <2>3, <2>4 DEF Free
  <2>6. /\ FRAME_SIZE \in Nat \ {0} /\ pmm_bitmap_size \in Nat
        /\ MemoryMap[BitmapEntry] \in [base : Nat, length : Nat, usable : BOOLEAN]
    BY FramesAssumption, MapFacts, BitmapEntryFacts
  <2>7. /\ bitmap_phys \in Nat /\ x \in Nat
        /\ bitmap_phys <= x /\ x <= bitmap_phys + pmm_bitmap_size
    <3>1. bitmap_phys \in Nat
      BY <2>6 DEF bitmap_phys
    <3>2. QED
      BY <2>3, <2>6, <3>1, SMTT(60)
  <2>8. f \in BitmapFrames
    <3>0. bitmap_phys + pmm_bitmap_size \in Nat
      BY <2>6, <2>7, SMTT(60)
    <3>1. /\ bitmap_phys \div FRAME_SIZE <= f
          /\ f <= (bitmap_phys + pmm_bitmap_size) \div FRAME_SIZE
      BY <2>4, <2>6, <2>7, <3>0, DivMonotone
    <3>2. /\ bitmap_phys \div FRAME_SIZE \in Nat
          /\ (bitmap_phys + pmm_bitmap_size) \div FRAME_SIZE \in Nat
          /\ f \in Nat
      BY <2>4, <2>6, <2>7, DivFacts, SMTT(60)
    <3>3. QED
      BY <3>1, <3>2, SMTT(60) DEF BitmapFrames, Region
  <2>9. f = LIMINE
    <3>1. f \in pmm_init
      BY <2>5, <2>8 DEF pmm_init
    <3>2. f \notin Free(reserved)
      BY <2>2, <3>1 DEF Free
    <3>3. lev[f] >= 0
      <4>1. lev[f] \in -1 .. 4
        BY <2>1, <2>5 DEF Sound, Levels
      <4>2. QED
        BY <2>1, <2>3, <2>4, <3>2, <4>1, SMTT(60)
    <3>4. QED
      BY <2>2, <3>1, <3>3
  <2>10. x \in UsableBytes(f)
    <3>1. x \in f * FRAME_SIZE .. (f + 1) * FRAME_SIZE - 1
      BY <2>4, <2>6, <2>7, BlockFacts
    <3>2. /\ MemoryMap[BitmapEntry].base <= x
          /\ x < Limit(MemoryMap[BitmapEntry])
      BY <2>3, <2>6, <2>7, BitmapEntryFacts, SMTT(60) DEF Limit, bitmap_phys
    <3>3. QED
      BY <3>1, <3>2, BitmapEntryFacts DEF UsableBytes
  <2>11. QED
    BY <2>9, <2>10, PagingAssumption
<1>2. QED
  BY <1>1, Invariant, PTL
=============================================================================
