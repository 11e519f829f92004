-------------------------- MODULE FileSystemProofs ---------------------------
(***************************************************************************)
(* Proofs about module FileSystem: no two files ever share a sector, for   *)
(* every disk, file table, set of paths and size of files, whichever of    *)
(* its writes a power failure cuts an operation off after.                 *)
(*                                                                         *)
(* Every table an operation holds in memory or leaves on the disk is sound *)
(* (TableOK).  The heart of the argument is SpaceFacts: what               *)
(* find_space_for_file returns is apart from every file of the table.      *)
(***************************************************************************)
EXTENDS FileSystem, WellFoundedInduction, TLAPS

\* Steps are first-order reasoning unless they name another prover.
USE ZenonT(60)

\* A table is well formed and its files are apart.
TableOK(table) == table \in [Slots -> Entry] /\ Apart(table)

\* Sectors s .. s + c - 1 are free of the table's files.
FreeAt(table, s, c) ==
    /\ s \in Nat /\ s > FILE_TABLE_ENTRIES /\ s + c < SECTORS
    /\ \A j \in Filled(table) : End(table[j]) <= s \/ s + c <= table[j].start

-----------------------------------------------------------------------------
(* Space                                                                   *)

\* The sectors a file of n cells needs; at least one when it is not empty.
LEMMA CeilDivFacts ==
    ASSUME NEW n \in Nat
    PROVE  CeilDiv(n) \in Nat /\ (n > 0 => CeilDiv(n) >= 1)
<1> DEFINE m == n + SECTOR_SIZE - 1
<1>1. SECTOR_SIZE \in Nat /\ SECTOR_SIZE > 0
  BY FileSystemAssumption, SMTT(60)
<1>2. m \in Nat /\ (n > 0 => m >= SECTOR_SIZE)
  BY <1>1, SMTT(60)
<1> HIDE DEF m
<1>3. m \div SECTOR_SIZE \in Nat /\ (m >= SECTOR_SIZE => m \div SECTOR_SIZE >= 1)
  BY <1>1, <1>2, SMTT(60)
<1>4. QED
  BY <1>2, <1>3 DEF CeilDiv, m

\* The fields of a file that is not empty.
LEMMA FilledFacts ==
    ASSUME NEW table, TableOK(table), NEW i \in Filled(table)
    PROVE  /\ i \in Slots /\ table[i].start \in Nat /\ End(table[i]) \in Nat
           /\ table[i].start < End(table[i])
           /\ table[i].start > FILE_TABLE_ENTRIES /\ End(table[i]) < SECTORS
<1>1. /\ i \in Slots /\ table[i].start \in Nat /\ table[i].size \in Nat
      /\ table[i].size > 0
  BY DEF TableOK, Filled, Entry
<1>2. CeilDiv(table[i].size) \in Nat /\ CeilDiv(table[i].size) >= 1
  BY <1>1, CeilDivFacts
<1>3. QED
  BY <1>1, <1>2, SMTT(60) DEF TableOK, Apart, End

\* Disk order is total.
LEMMA DiskOrder ==
    ASSUME NEW table, TableOK(table), NEW i \in Filled(table), NEW j \in Filled(table),
           i # j
    PROVE  Precedes(table, i, j) \/ Precedes(table, j, i)
<1>1. i \in Int /\ j \in Int /\ table[i].start \in Nat /\ table[j].start \in Nat
  BY FilledFacts, FileSystemAssumption, SMTT(60) DEF Slots
<1>2. QED
  BY <1>1, SMTT(60) DEF Precedes

\* prev_end lies behind every file the loop of find_space_for_file has passed.
LEMMA PrevEndFacts ==
    ASSUME NEW table, TableOK(table), NEW passed \in SUBSET Filled(table),
           NEW s \in PrevEnd(table, passed)
    PROVE  /\ s \in Nat /\ s > FILE_TABLE_ENTRIES /\ s < SECTORS
           /\ \A j \in passed : End(table[j]) <= s
<1>0. FILE_TABLE_ENTRIES \in Nat /\ SECTORS \in Nat /\ FILE_TABLE_ENTRIES + 1 < SECTORS
  BY FileSystemAssumption
<1>1. CASE passed = {}
  BY <1>0, <1>1, SMTT(60) DEF PrevEnd
<1>2. CASE passed # {}
  <2>1. PICK i \in passed : /\ \A j \in passed \ {i} : Precedes(table, j, i)
                            /\ s = End(table[i])
    BY <1>2 DEF PrevEnd
  <2>2. /\ table[i].start \in Nat /\ s \in Nat /\ table[i].start < s
        /\ table[i].start > FILE_TABLE_ENTRIES /\ s < SECTORS
    BY <2>1, FilledFacts
  <2>3. ASSUME NEW j \in passed PROVE End(table[j]) <= s
    <3>1. CASE j = i
      BY <2>1, <2>2, <3>1, SMTT(60)
    <3>2. CASE j # i
      <4>1. Precedes(table, j, i)
        BY <2>1, <3>2
      <4>2. table[j].start \in Nat /\ End(table[j]) \in Nat
        BY FilledFacts
      <4>3. table[j].start <= table[i].start
        BY <4>1, <4>2, <2>2, SMTT(60) DEF Precedes
      <4>4. End(table[i]) <= table[j].start \/ End(table[j]) <= table[i].start
        BY <3>2 DEF TableOK, Apart
      <4>5. QED
        BY <2>1, <2>2, <4>2, <4>3, <4>4, SMTT(60)
    <3>3. QED
      BY <3>1, <3>2
  <2>4. QED
    BY <1>0, <2>2, <2>3, SMTT(60)
<1>3. QED
  BY <1>1, <1>2

\* What find_space_for_file returns for a file that is not empty is free.
LEMMA SpaceFacts ==
    ASSUME NEW table, TableOK(table), NEW n \in Nat, n > 0, NEW s \in Space(table, n)
    PROVE  FreeAt(table, s, CeilDiv(n))
<1> DEFINE c == CeilDiv(n)
<1>0. c \in Nat /\ c >= 1 /\ SECTORS \in Nat /\ WORD \in Nat /\ SECTORS < WORD
  BY CeilDivFacts, FileSystemAssumption
<1>1. CASE \E i \in Filled(table) : s \in GapBefore(table, n, i)
  <2>1. PICK i \in Filled(table) : s \in GapBefore(table, n, i)
    BY <1>1
  <2> DEFINE passed == {j \in Filled(table) : Precedes(table, j, i)}
  <2>2. /\ passed \in SUBSET Filled(table) /\ s \in PrevEnd(table, passed)
        /\ (IF table[i].start > s THEN table[i].start - s ELSE 0) >= c
    BY <2>1 DEF GapBefore
  <2> HIDE DEF c
  <2>3. /\ s \in Nat /\ s > FILE_TABLE_ENTRIES
        /\ \A j \in passed : End(table[j]) <= s
    BY <2>2, PrevEndFacts
  <2>4. /\ table[i].start \in Nat /\ End(table[i]) \in Nat
        /\ table[i].start < End(table[i]) /\ End(table[i]) < SECTORS
    BY FilledFacts
  <2>5. s + c <= table[i].start
    BY <1>0, <2>2, <2>3, <2>4, SMTT(60)
  <2>6. ASSUME NEW j \in Filled(table) PROVE End(table[j]) <= s \/ s + c <= table[j].start
    <3>1. CASE j = i
      BY <2>5, <3>1
    <3>2. CASE j \in passed
      BY <2>3, <3>2
    <3>3. CASE j # i /\ Precedes(table, i, j)
      <4>1. table[j].start \in Nat
        BY FilledFacts
      <4>2. table[i].start <= table[j].start
        BY <2>4, <4>1, <3>3, SMTT(60) DEF Precedes
      <4>3. QED
        BY <1>0, <2>3, <2>4, <2>5, <4>1, <4>2, SMTT(60)
    <3>4. QED
      BY <3>1, <3>2, <3>3, DiskOrder
  <2>7. s + c < SECTORS
    BY <1>0, <2>3, <2>4, <2>5, SMTT(60)
  <2>8. QED
    BY <2>3, <2>6, <2>7 DEF FreeAt, c
<1>2. CASE s \in PrevEnd(table, Filled(table)) /\ (SECTORS - 1 - s) % WORD >= c
  <2>1. /\ s \in Nat /\ s > FILE_TABLE_ENTRIES /\ s < SECTORS
        /\ \A j \in Filled(table) : End(table[j]) <= s
    BY <1>2, PrevEndFacts
  <2> DEFINE gap == SECTORS - 1 - s
  <2>2. gap \in Nat /\ gap < WORD
    BY <1>0, <2>1, SMTT(60)
  <2>3. gap % WORD >= c
    BY <1>2
  <2> HIDE DEF gap, c
  <2>4. gap % WORD = gap
    BY <1>0, <2>2, SMTT(60)
  <2>5. gap >= c
    BY <2>3, <2>4
  <2>6. s + c < SECTORS
    BY <1>0, <2>1, <2>5, SMTT(60) DEF gap
  <2>7. QED
    BY <2>1, <2>6 DEF FreeAt, c
<1>3. QED
  BY <1>1, <1>2 DEF Space

\* Also for an empty file the place is a number.
LEMMA SpaceIsNat ==
    ASSUME NEW table, TableOK(table), NEW n, NEW s \in Space(table, n)
    PROVE  s \in Nat
<1>1. CASE \E i \in Filled(table) : s \in GapBefore(table, n, i)
  <2>1. PICK i \in Filled(table) : s \in GapBefore(table, n, i)
    BY <1>1
  <2> DEFINE passed == {j \in Filled(table) : Precedes(table, j, i)}
  <2>2. passed \in SUBSET Filled(table) /\ s \in PrevEnd(table, passed)
    BY <2>1 DEF GapBefore
  <2> QED BY <2>2, PrevEndFacts
<1>2. CASE s \in PrevEnd(table, Filled(table))
  BY <1>2, PrevEndFacts
<1>3. QED
  BY <1>1, <1>2 DEF Space

-----------------------------------------------------------------------------
(* Tables                                                                  *)

\* A file put into a free place leaves a sound table.
LEMMA PutKeepsTable ==
    ASSUME NEW table \in [Slots -> Entry], NEW rest, TableOK(rest), NEW i \in Slots,
           \A j \in Slots \ {i} : table[j] = rest[j],
           i \notin Filled(rest),
           i \in Filled(table) => FreeAt(rest, table[i].start, CeilDiv(table[i].size))
    PROVE  TableOK(table)
<1>1. \A j \in Filled(table) \ {i} : j \in Filled(rest) /\ table[j] = rest[j]
  BY DEF Filled
<1>2. ASSUME NEW j \in Filled(table)
      PROVE  table[j].start > FILE_TABLE_ENTRIES /\ End(table[j]) < SECTORS
  <2>1. CASE j = i
    BY <2>1 DEF FreeAt, End
  <2>2. CASE j # i
    BY <1>1, <2>2 DEF TableOK, Apart
  <2>3. QED
    BY <2>1, <2>2
<1>3. ASSUME NEW j \in Filled(table), NEW k \in Filled(table) \ {j}
      PROVE  End(table[j]) <= table[k].start \/ End(table[k]) <= table[j].start
  <2>1. CASE j = i
    BY <1>1, <2>1 DEF FreeAt, End
  <2>2. CASE k = i
    BY <1>1, <2>2 DEF FreeAt, End
  <2>3. CASE j # i /\ k # i
    BY <1>1, <2>3 DEF TableOK, Apart
  <2>4. QED
    BY <2>1, <2>2, <2>3
<1>4. QED
  BY <1>2, <1>3 DEF TableOK, Apart

\* Freeing slots leaves a sound table.
LEMMA FreeingKeepsTable ==
    ASSUME NEW table, TableOK(table), NEW less \in [Slots -> Entry],
           \A j \in Slots : less[j].used => less[j] = table[j]
    PROVE  TableOK(less)
<1>1. \A j \in Filled(less) : j \in Filled(table) /\ less[j] = table[j]
  BY DEF Filled
<1>2. QED
  BY <1>1 DEF TableOK, Apart

\* What delete_directory_entries_recursive leaves is a sound table.
LEMMA WithoutKeepsTable ==
    ASSUME NEW table, TableOK(table), NEW slots
    PROVE  TableOK(Without(table, slots))
<1>1. table \in [Slots -> Entry]
  BY DEF TableOK
<1>2. /\ Without(table, slots) \in [Slots -> Entry]
      /\ \A j \in Slots : Without(table, slots)[j].used =>
                            Without(table, slots)[j] = table[j]
  BY <1>1 DEF Without, Entry
<1>3. QED
  BY <1>2, FreeingKeepsTable

-----------------------------------------------------------------------------
(* Runs                                                                    *)

\* A disk whose file table is sound.
DiskOK(d) == d = [table |-> d.table, data |-> d.data] /\ TableOK(d.table)

\* A run whose table and disks, those it left behind included, are sound.
RunOK(r) ==
    /\ r = [table |-> r.table, disk |-> r.disk, seen |-> r.seen, ok |-> r.ok,
            wild |-> r.wild]
    /\ TableOK(r.table)
    /\ DiskOK(r.disk)
    /\ \A d \in r.seen : DiskOK(d)

\* find_file_entry_slot finds the first free slot when there is one.
LEMMA LowestFacts ==
    ASSUME NEW S \in SUBSET Nat, S # {}
    PROVE  Lowest(S) \in S /\ \A j \in S : Lowest(S) <= j
<1>1. PICK R : /\ IsWellFoundedOn(R, Nat)
               /\ \A x, y \in Nat : x < y => <<x, y>> \in R
  <2>1. \A x, y \in Nat : x < y => <<x, y>> \in OpToRel(<, Nat)
    BY DEF OpToRel
  <2>2. QED
    BY <2>1, NatLessThanWellFounded
<1>2. S \subseteq Nat /\ IsWellFoundedOn(R, Nat)
  BY <1>1
<1>3. \E x \in S : \A y \in S : ~ (<<y, x>> \in R)
  BY <1>2, WFMin
<1>4. PICK x \in S : \A y \in S : ~ (<<y, x>> \in R)
  BY <1>3
<1>5. \A y \in S : ~ (y < x)
  BY <1>1, <1>4
<1>6. \A y \in S : x <= y
  BY <1>5, SMTT(60)
<1>7. QED
  BY <1>4, <1>6 DEF Lowest

\* A block of cells is a sequence.
LEMMA BlockIsSeq ==
    ASSUME NEW S, NEW n \in Nat, NEW g \in [1 .. n -> S]
    PROVE  g \in Seq(S) /\ Len(g) = n
BY SMTT(60)

\* What Append makes of a sequence.
LEMMA AppendFacts ==
    ASSUME NEW S, NEW g \in Seq(S), NEW x \in S
    PROVE  /\ Append(g, x) \in Seq(S) /\ Len(Append(g, x)) = Len(g) + 1
           /\ \A k \in 1 .. Len(g) : Append(g, x)[k] = g[k]
           /\ Append(g, x)[Len(g) + 1] = x
BY SMTT(60)

\* The length of a block of cells, and of the block with one more.
LEMMA BlockLength ==
    ASSUME NEW n \in Nat, NEW g, g = [k \in 1 .. n |-> g[k]]
    PROVE  Len(g) = n /\ \A x : Len(Append(g, x)) = n + 1
<1>1. ASSUME NEW x PROVE Len(g) = n /\ Len(Append(g, x)) = n + 1
  <2> DEFINE S == {g[k] : k \in 1 .. n} \cup {x}
  <2>1. g \in [1 .. n -> S] /\ x \in S
    OBVIOUS
  <2> HIDE DEF S
  <2>2. QED
    BY <2>1, BlockIsSeq, AppendFacts, SMTT(60)
<1>2. QED
  BY <1>1

\* What Write returns, field by field.
LEMMA WriteIs ==
    ASSUME NEW r, RunOK(r), NEW d
    PROVE  Write(r, d) = [table |-> r.table, disk |-> d, seen |-> r.seen \cup {d},
                          ok |-> r.ok, wild |-> r.wild]
<1> DEFINE q == [r EXCEPT !.disk = d]
<1> DEFINE more == r.seen \cup {d}
<1>1. r = [table |-> r.table, disk |-> r.disk, seen |-> r.seen, ok |-> r.ok, wild |-> r.wild]
  BY DEF RunOK
<1>2. q = [table |-> r.table, disk |-> d, seen |-> r.seen, ok |-> r.ok, wild |-> r.wild]
  BY <1>1, SMTT(60)
<1>3. Write(r, d) = [q EXCEPT !.seen = more]
  BY DEF Write
<1> HIDE DEF q, more
<1>4. [q EXCEPT !.seen = more] = [table |-> r.table, disk |-> d, seen |-> more,
                                  ok |-> r.ok, wild |-> r.wild]
  BY <1>2, SMTT(60)
<1>5. QED
  BY <1>3, <1>4 DEF more

\* A sound disk a run leaves keeps the run sound.
LEMMA WriteOK ==
    ASSUME NEW r, RunOK(r), NEW d, DiskOK(d), NEW table, TableOK(table)
    PROVE  RunOK([table |-> table, disk |-> d, seen |-> r.seen \cup {d}, ok |-> r.ok,
                  wild |-> r.wild])
BY DEF RunOK

\* Writing a sound table keeps the run sound.
LEMMA SaveTableOK ==
    ASSUME NEW r, RunOK(r), NEW table, TableOK(table)
    PROVE  RunOK(SaveTable(r, table))
<1> DEFINE d == [r.disk EXCEPT !.table = table]
<1>1. r.disk = [table |-> r.disk.table, data |-> r.disk.data]
  BY DEF RunOK, DiskOK
<1>2. d = [table |-> table, data |-> r.disk.data]
  BY <1>1, SMTT(60)
<1>3. DiskOK(d)
  BY <1>2 DEF DiskOK
<1>4. SaveTable(r, table) =
        [Write(r, d) EXCEPT !.table = table]
  BY DEF SaveTable
<1> HIDE DEF d
<1>6. Write(r, d) = [table |-> r.table, disk |-> d, seen |-> r.seen \cup {d},
                     ok |-> r.ok, wild |-> r.wild]
  BY WriteIs
<1>7. SaveTable(r, table) = [table |-> table, disk |-> d, seen |-> r.seen \cup {d},
                             ok |-> r.ok, wild |-> r.wild]
  BY <1>4, <1>6, SMTT(60)
<1>8. QED
  BY <1>3, <1>7, WriteOK

\* Writing data keeps the run sound.
LEMMA SaveDataOK ==
    ASSUME NEW r, RunOK(r), NEW lba, NEW cells
    PROVE  /\ RunOK(SaveData(r, lba, cells))
           /\ SaveData(r, lba, cells).table = r.table
<1> DEFINE w == WriteSectors(r.disk.data, lba, cells)
<1> DEFINE d == [r.disk EXCEPT !.data = w]
<1>1. r.disk = [table |-> r.disk.table, data |-> r.disk.data] /\ TableOK(r.disk.table)
  BY DEF RunOK, DiskOK
<1>2. d = [table |-> r.disk.table, data |-> w]
  BY <1>1, SMTT(60)
<1>3. DiskOK(d)
  BY <1>1, <1>2 DEF DiskOK
<1>4. SaveData(r, lba, cells) = Write(r, d)
  BY DEF SaveData
<1> HIDE DEF d
<1>5. TableOK(r.table)
  BY DEF RunOK
<1>6. Write(r, d) = [table |-> r.table, disk |-> d, seen |-> r.seen \cup {d},
                     ok |-> r.ok, wild |-> r.wild]
  BY WriteIs
<1>7. QED
  BY <1>3, <1>4, <1>5, <1>6, WriteOK, SMTT(60)

\* The fields an operation sets last do not matter.
LEMMA OutcomeOK ==
    ASSUME NEW r, RunOK(r), NEW b
    PROVE  /\ RunOK([r EXCEPT !.ok = b]) /\ [r EXCEPT !.ok = b].table = r.table
           /\ RunOK([r EXCEPT !.wild = b]) /\ [r EXCEPT !.wild = b].table = r.table
<1>1. /\ r = [table |-> r.table, disk |-> r.disk, seen |-> r.seen, ok |-> r.ok, wild |-> r.wild]
      /\ TableOK(r.table) /\ DiskOK(r.disk) /\ \A d \in r.seen : DiskOK(d)
  BY DEF RunOK
<1>2. [r EXCEPT !.ok = b] = [table |-> r.table, disk |-> r.disk, seen |-> r.seen,
                             ok |-> b, wild |-> r.wild]
  BY <1>1, SMTT(60)
<1>3. [r EXCEPT !.wild = b] = [table |-> r.table, disk |-> r.disk, seen |-> r.seen,
                               ok |-> r.ok, wild |-> b]
  BY <1>1, SMTT(60)
<1>4. QED
  BY <1>1, <1>2, <1>3 DEF RunOK

\* A run may hold any sound table in memory.
LEMMA TableSetOK ==
    ASSUME NEW r, RunOK(r), NEW table, TableOK(table)
    PROVE  RunOK([r EXCEPT !.table = table])
<1>1. /\ r = [table |-> r.table, disk |-> r.disk, seen |-> r.seen, ok |-> r.ok, wild |-> r.wild]
      /\ DiskOK(r.disk) /\ \A d \in r.seen : DiskOK(d)
  BY DEF RunOK
<1>2. [r EXCEPT !.table = table] = [table |-> table, disk |-> r.disk, seen |-> r.seen,
                                    ok |-> r.ok, wild |-> r.wild]
  BY <1>1, SMTT(60)
<1>3. QED
  BY <1>1, <1>2 DEF RunOK

\* edit_file: the file's old place does not count when a new one is looked for.
LEMMA EditOK ==
    ASSUME NEW r, RunOK(r), NEW i, NEW cells, i \in Slots => Len(cells) \in Nat
    PROVE  RunOK(edit_file(r, i, cells))
<1> DEFINE n == Len(cells)
<1> DEFINE rest == [r.table EXCEPT ![i].used = FALSE]
<1> DEFINE space == Space(rest, n)
<1> DEFINE s == CHOOSE s \in space : TRUE
<1> DEFINE table == [r.table EXCEPT ![i].start = s, ![i].size = n]
<1>1. CASE ~ r.table[i].used \/ space = {}
  BY <1>1, OutcomeOK DEF edit_file
<1>2. CASE ~ (~ r.table[i].used \/ space = {})
  <2>1. edit_file(r, i, cells) = SaveTable(SaveData(r, s, cells), table)
    BY <1>2 DEF edit_file
  <2>2. TableOK(r.table) /\ r.table \in [Slots -> Entry] /\ s \in space
    BY <1>2 DEF RunOK, TableOK
  <2>3. TableOK(table)
    <3>1. CASE i \notin Slots
      <4>1. table = r.table
        BY <3>1, <2>2
      <4>2. QED
        BY <4>1, <2>2
    <3>2. CASE i \in Slots
      <4>1. rest \in [Slots -> Entry] /\ \A j \in Slots : rest[j].used => rest[j] = r.table[j]
        BY <2>2, <3>2 DEF Entry
      <4>2. TableOK(rest)
        BY <2>2, <4>1, FreeingKeepsTable
      <4>3. n \in Nat
        BY <3>2
      <4>4. i \notin Filled(rest)
        BY <2>2, <3>2, SMTT(60) DEF Filled
      <4> HIDE DEF rest
      <4>5. s \in Nat
        BY <2>2, <4>2, SpaceIsNat
      <4>6. n > 0 => FreeAt(rest, s, CeilDiv(n))
        BY <2>2, <4>2, <4>3, SpaceFacts
      <4> HIDE DEF s, n
      <4>7. /\ table \in [Slots -> Entry]
            /\ \A j \in Slots \ {i} : table[j] = r.table[j]
            /\ table[i].start = s /\ table[i].size = n
        BY <2>2, <3>2, <4>3, <4>5 DEF Entry
      <4>8. \A j \in Slots \ {i} : rest[j] = r.table[j]
        BY <2>2 DEF rest
      <4> HIDE DEF table
      <4>9. i \in Filled(table) => FreeAt(rest, table[i].start, CeilDiv(table[i].size))
        BY <4>3, <4>6, <4>7 DEF Filled
      <4>10. \A j \in Slots \ {i} : table[j] = rest[j]
        BY <4>7, <4>8
      <4>11. QED
        BY <3>2, <4>2, <4>4, <4>7, <4>9, <4>10, PutKeepsTable
    <3>3. QED
      BY <3>1, <3>2
  <2> HIDE DEF s, table
  <2>4. RunOK(SaveData(r, s, cells))
    BY SaveDataOK
  <2>5. QED
    BY <2>1, <2>3, <2>4, SaveTableOK
<1>3. QED
  BY <1>1, <1>2

\* add_file_to_dir: the directory grows by one entry.
LEMMA AddOK ==
    ASSUME NEW r, RunOK(r), NEW dir, NEW i, NEW name
    PROVE  RunOK(add_file_to_dir(r, dir, i, name))
<1> DEFINE old == Entries(r.disk, r.table, dir)
<1> DEFINE cells == Append(old, [name |-> name, idx |-> i])
<1>1. ASSUME dir \in Slots PROVE Len(cells) \in Nat
  <2>1. r.table[dir].size \in Nat
    BY <1>1 DEF RunOK, TableOK, Entry
  <2>2. old = [k \in 1 .. r.table[dir].size |-> old[k]]
    BY DEF Entries, ReadSectors
  <2> HIDE DEF old
  <2>3. QED
    BY <2>1, <2>2, BlockLength, SMTT(60)
<1>2. add_file_to_dir(r, dir, i, name) = edit_file(r, dir, cells)
  BY DEF add_file_to_dir
<1> HIDE DEF cells
<1>3. QED
  BY <1>1, <1>2, EditOK

\* remove_file_from_dir: the directory shrinks by one entry.
LEMMA RemoveOK ==
    ASSUME NEW r, RunOK(r), NEW dir, NEW i
    PROVE  RunOK(remove_file_from_dir(r, dir, i))
<1> DEFINE size == r.table[dir].size
<1> DEFINE kept == Kept(Entries(r.disk, r.table, dir), size, i)
<1> DEFINE block == [k \in 1 .. size - 1 |-> IF k <= Len(kept) THEN kept[k] ELSE Unread]
<1> DEFINE cells == IF size = 0 THEN <<>> ELSE block
<1> DEFINE miscounted == Len(kept) = size
<1>1. remove_file_from_dir(r, dir, i) = [edit_file(r, dir, cells) EXCEPT !.wild = miscounted]
  BY DEF remove_file_from_dir
<1> HIDE DEF kept, miscounted
<1>2. ASSUME dir \in Slots PROVE Len(cells) \in Nat
  <2>1. size \in Nat
    BY <1>2 DEF RunOK, TableOK, Entry
  <2>2. CASE size = 0
    BY <2>2
  <2>3. CASE size # 0
    <3>1. size - 1 \in Nat
      BY <2>1, <2>3, SMTT(60)
    <3>2. block = [k \in 1 .. size - 1 |-> block[k]]
      OBVIOUS
    <3>3. cells = block
      BY <2>3
    <3> HIDE DEF block, cells, size
    <3>4. QED
      BY <3>1, <3>2, <3>3, BlockLength
  <2>4. QED
    BY <2>2, <2>3
<1> HIDE DEF cells
<1>3. RunOK(edit_file(r, dir, cells))
  BY <1>2, EditOK
<1> DEFINE r2 == edit_file(r, dir, cells)
<1> HIDE DEF r2
<1>4. RunOK([r2 EXCEPT !.wild = miscounted])
  BY <1>3, OutcomeOK DEF r2
<1>5. QED
  BY <1>1, <1>4 DEF r2

-----------------------------------------------------------------------------
(* Operations                                                              *)

\* An operation begins sound, whatever sound table it prepares in memory.
LEMMA BeginOK ==
    ASSUME DiskOK(disk)
    PROVE  /\ RunOK(Begin) /\ RunOK(Fail)
           /\ \A table : TableOK(table) => RunOK([Begin EXCEPT !.table = table])
<1>1. RunOK(Begin)
  BY DEF Begin, RunOK, DiskOK
<1>2. RunOK(Fail)
  BY <1>1, OutcomeOK DEF Fail
<1>3. ASSUME NEW table, TableOK(table) PROVE RunOK([Begin EXCEPT !.table = table])
  <2>1. PICK r : r = Begin
    OBVIOUS
  <2>2. RunOK([r EXCEPT !.table = table])
    BY <1>1, <1>3, <2>1, TableSetOK
  <2>3. QED
    BY <2>1, <2>2
<1>4. QED
  BY <1>1, <1>2, <1>3

\* The end of a deletion.
LEMMA UnlinkOK ==
    ASSUME DiskOK(disk), NEW r, RunOK(r), NEW dir, NEW i
    PROVE  RunOK(Unlink(r, dir, i))
<1> DEFINE removed == remove_file_from_dir(r, dir, i)
<1>1. RunOK(removed)
  BY RemoveOK
<1> HIDE DEF removed
<1>2. RunOK(SaveTable(removed, Without(removed.table, {i})))
  BY <1>1, WithoutKeepsTable, SaveTableOK DEF RunOK
<1>3. RunOK([Fail EXCEPT !.wild = removed.wild])
  BY BeginOK, OutcomeOK
<1>4. QED
  BY <1>2, <1>3 DEF Unlink, removed

\* The slot, the place and the table of a new file of n cells.
NewSlot == Lowest(FreeSlots(disk.table))
NewStart(n) == CHOOSE s \in Space(disk.table, n) : TRUE
NewTable(n, type) == [disk.table EXCEPT ![NewSlot] = [used |-> TRUE, type |-> type,
                                                      start |-> NewStart(n), size |-> n]]
Creating(n, type) == [Begin EXCEPT !.table = NewTable(n, type)]

\* What filesystem_write_file finds for a new file.
NewFacts(n, type, slot, start, table) ==
    /\ slot \in Slots /\ ~ disk.table[slot].used
    /\ start \in Nat /\ (n > 0 => FreeAt(disk.table, start, CeilDiv(n)))
    /\ table \in [Slots -> Entry]
    /\ table[slot].used /\ table[slot].type = type
    /\ table[slot].start = start /\ table[slot].size = n
    /\ \A j \in Slots \ {slot} : table[j] = disk.table[j]

\* A new file takes a free slot and a free place.
LEMMA NewEntry ==
    ASSUME DiskOK(disk), NEW n \in Nat, NEW type \in {"FILE", "DIRECTORY"},
           Space(disk.table, n) # {}, FreeSlots(disk.table) # {}
    PROVE  /\ NewFacts(n, type, NewSlot, NewStart(n), NewTable(n, type))
           /\ TableOK(NewTable(n, type)) /\ RunOK(Creating(n, type))
<1> DEFINE slot == NewSlot
<1> DEFINE start == NewStart(n)
<1> DEFINE table == NewTable(n, type)
<1> DEFINE entry == [used |-> TRUE, type |-> type, start |-> start, size |-> n]
<1>1. /\ TableOK(disk.table) /\ disk.table \in [Slots -> Entry]
      /\ start \in Space(disk.table, n)
  BY DEF DiskOK, TableOK, NewStart
<1>2. slot \in FreeSlots(disk.table)
  <2>1. FreeSlots(disk.table) \in SUBSET Nat
    BY FileSystemAssumption, SMTT(60) DEF FreeSlots, Slots
  <2>2. QED
    BY <2>1, LowestFacts DEF NewSlot
<1>3. slot \in Slots /\ ~ disk.table[slot].used /\ slot \notin Filled(disk.table)
  BY <1>2 DEF FreeSlots, Filled
<1>4. start \in Nat /\ (n > 0 => FreeAt(disk.table, start, CeilDiv(n)))
  BY <1>1, SpaceIsNat, SpaceFacts
<1>5. /\ entry \in Entry /\ entry.start = start /\ entry.size = n
      /\ entry.used /\ entry.type = type /\ table = [disk.table EXCEPT ![slot] = entry]
  BY <1>4 DEF Entry, NewTable
<1> HIDE DEF entry, slot, start, table
<1>6. /\ table \in [Slots -> Entry] /\ table[slot] = entry
      /\ \A j \in Slots \ {slot} : table[j] = disk.table[j]
  BY <1>1, <1>3, <1>5
<1>7. slot \in Filled(table) =>
        FreeAt(disk.table, table[slot].start, CeilDiv(table[slot].size))
  BY <1>4, <1>5, <1>6 DEF Filled
<1>8. TableOK(table)
  BY <1>1, <1>3, <1>6, <1>7, PutKeepsTable
<1>9. RunOK(Creating(n, type))
  BY <1>8, BeginOK DEF Creating, table
<1>10. NewFacts(n, type, slot, start, table)
  BY <1>3, <1>4, <1>5, <1>6 DEF NewFacts
<1>11. QED
  BY <1>8, <1>9, <1>10 DEF slot, start, table

\* filesystem_write_file.
LEMMA WriteFileOK ==
    ASSUME DiskOK(disk), NEW path, NEW cells, Len(cells) \in Nat,
           NEW type \in {"FILE", "DIRECTORY"}
    PROVE  RunOK(filesystem_write_file(path, type, cells))
<1> DEFINE n == Len(cells)
<1> DEFINE i == resolve_path(disk, disk.table, path)
<1> DEFINE space == Space(disk.table, n)
<1> DEFINE dir == resolve_path(disk, NewTable(n, type), DirPath(path))
<1> DEFINE r == add_file_to_dir(Creating(n, type), dir, NewSlot, StoredName(path))
<1>1. filesystem_write_file(path, type, cells) =
        IF i # None
        THEN IF disk.table[i].type = "FILE" THEN edit_file(Begin, i, cells) ELSE Fail
        ELSE IF space = {} \/ FreeSlots(disk.table) = {} \/ dir = None \/ ~ r.ok
             THEN Fail
             ELSE SaveData(r, NewStart(n), cells)
  BY DEF filesystem_write_file, Creating, NewTable, NewSlot, NewStart
<1>2. RunOK(Fail) /\ RunOK(edit_file(Begin, i, cells))
  BY BeginOK, EditOK
<1>3. ASSUME space # {}, FreeSlots(disk.table) # {}
      PROVE  RunOK(SaveData(r, NewStart(n), cells))
  <2>1. RunOK(r)
    BY <1>3, NewEntry, AddOK DEF r
  <2> HIDE DEF r
  <2>2. QED
    BY <2>1, SaveDataOK
<1>4. QED
  BY <1>1, <1>2, <1>3

\* filesystem_delete_file.
LEMMA DeleteFileOK ==
    ASSUME DiskOK(disk), NEW path
    PROVE  RunOK(filesystem_delete_file(path))
BY BeginOK, UnlinkOK DEF filesystem_delete_file

\* filesystem_delete_directory: the contents are freed in memory first.
LEMMA DeleteDirectoryOK ==
    ASSUME DiskOK(disk), NEW path
    PROVE  RunOK(filesystem_delete_directory(path))
<1> DEFINE i == resolve_path(disk, disk.table, path)
<1> DEFINE table == Without(disk.table, Nested(i))
<1> DEFINE dir == resolve_path(disk, table, DirPath(path))
<1>1. TableOK(table)
  BY WithoutKeepsTable DEF DiskOK
<1>2. RunOK([Begin EXCEPT !.table = table])
  BY <1>1, BeginOK
<1>3. RunOK(Unlink([Begin EXCEPT !.table = table], dir, i))
  BY <1>2, UnlinkOK
<1>4. RunOK(Fail)
  BY BeginOK
<1>5. QED
  BY <1>3, <1>4 DEF filesystem_delete_directory

\* filesystem_move_file: out of one directory and into another.
LEMMA MoveFileOK ==
    ASSUME DiskOK(disk), NEW path, NEW new_path
    PROVE  RunOK(filesystem_move_file(path, new_path))
<1> DEFINE i == resolve_path(disk, disk.table, path)
<1> DEFINE dir == resolve_path(disk, disk.table, DirPath(path))
<1> DEFINE new_dir == resolve_path(disk, disk.table, DirPath(new_path))
<1> DEFINE removed == remove_file_from_dir(Begin, dir, i)
<1> DEFINE added == add_file_to_dir([removed EXCEPT !.ok = TRUE], new_dir, i,
                                    StoredName(new_path))
<1>1. filesystem_move_file(path, new_path) =
        IF i = None \/ dir = None \/ new_dir = None THEN Fail
        ELSE [added EXCEPT !.ok = TRUE]
  BY DEF filesystem_move_file
<1>2. RunOK(Begin) /\ RunOK(Fail)
  BY BeginOK
<1>3. RunOK(removed)
  BY <1>2, RemoveOK
<1> HIDE DEF removed
<1>4. RunOK([removed EXCEPT !.ok = TRUE])
  BY <1>3, OutcomeOK
<1>5. RunOK(added)
  BY <1>4, AddOK
<1> HIDE DEF added
<1>6. RunOK([added EXCEPT !.ok = TRUE])
  BY <1>5, OutcomeOK
<1>7. QED
  BY <1>1, <1>2, <1>6

\* ensure_root writes a table with one empty directory, or leaves the disk alone.
LEMMA EnsureRootOK ==
    ASSUME NEW d, d = [table |-> d.table, data |-> d.data],
           Roots(d.table) # {} => TableOK(d.table)
    PROVE  DiskOK(ensure_root(d))
<1> DEFINE table == [i \in Slots |->
            IF i = 0 THEN [used |-> TRUE, type |-> "ROOT_DIRECTORY",
                           start |-> 1 + FILE_TABLE_SECTORS, size |-> 0]
            ELSE [used |-> FALSE, type |-> "FILE", start |-> 0, size |-> 0]]
<1>1. CASE Roots(d.table) # {}
  BY <1>1 DEF ensure_root, DiskOK
<1>2. CASE Roots(d.table) = {}
  <2>1. ensure_root(d) = [d EXCEPT !.table = table]
    BY <1>2 DEF ensure_root
  <2>2. table \in [Slots -> Entry]
    BY FileSystemAssumption, SMTT(60) DEF Entry
  <2>3. Filled(table) = {}
    BY SMTT(60) DEF Filled
  <2>4. TableOK(table)
    BY <2>2, <2>3 DEF TableOK, Apart
  <2> HIDE DEF table
  <2>5. [d EXCEPT !.table = table] = [table |-> table, data |-> d.data]
    BY SMTT(60)
  <2>6. QED
    BY <2>1, <2>4, <2>5 DEF DiskOK
<1>3. QED
  BY <1>1, <1>2

-----------------------------------------------------------------------------
(* The theorem                                                             *)

\* What callers write has a length.
LEMMA ContentsLength ==
    ASSUME NEW cells \in Contents
    PROVE  Len(cells) \in Nat
<1>1. PICK n \in Sizes, v \in Data : cells = [k \in 1 .. n |-> [name |-> v, idx |-> 0]]
  BY SMTT(60) DEF Contents
<1>2. n \in Nat
  BY FileSystemAssumption
<1>3. cells = [k \in 1 .. n |-> cells[k]]
  BY <1>1
<1>4. QED
  BY <1>2, <1>3, BlockLength

\* An operation that runs to its end, and one that power cuts off, leave a sound
\* disk when all its disks are sound.
LEMMA OutcomeOnDisk ==
    ASSUME DiskOK(disk), NEW r, RunOK(r), Complete(r) \/ Interrupted(r)
    PROVE  DiskOK(disk')
<1>1. CASE Complete(r)
  BY <1>1 DEF Complete, RunOK
<1>2. CASE Interrupted(r)
  <2>1. PICK d \in r.seen : disk' = ensure_root(d)
    BY <1>2 DEF Interrupted
  <2>2. DiskOK(d)
    BY DEF RunOK
  <2>3. DiskOK(ensure_root(d))
    BY <2>2, EnsureRootOK DEF DiskOK
  <2>4. QED
    BY <2>1, <2>3
<1>3. QED
  BY <1>1, <1>2

\* Init: the disk filesystem_init has just given a root.
LEMMA InitOK == Init => DiskOK(disk)
<1> SUFFICES ASSUME Init PROVE DiskOK(disk)
  OBVIOUS
<1> DEFINE table == [i \in Slots |-> [used |-> FALSE, type |-> "FILE", start |-> 0, size |-> 0]]
<1> DEFINE data == [x \in 0 .. SECTORS - 1 |-> [k \in 1 .. SECTOR_SIZE |-> Zero]]
<1> DEFINE d == [table |-> table, data |-> data]
<1>1. disk = ensure_root(d)
  BY DEF Init
<1>2. Roots(table) = {}
  BY DEF Roots
<1> HIDE DEF table, data
<1>3. d = [table |-> d.table, data |-> d.data] /\ Roots(d.table) = {}
  BY <1>2
<1> HIDE DEF d
<1>4. DiskOK(ensure_root(d))
  BY <1>3, EnsureRootOK
<1>5. QED
  BY <1>1, <1>4

\* Every step of the machine, power failures included, keeps the disk sound.
LEMMA StepOK ==
    ASSUME DiskOK(disk), [Operation \/ PowerFailure]_vars
    PROVE  DiskOK(disk')
<1>1. CASE Operation
  <2>1. PICK path \in Paths :
            \/ \E cells \in Contents : WriteFile(path, cells)
            \/ CreateDirectory(path)
            \/ DeleteFile(path)
            \/ DeleteDirectory(path)
            \/ \E new_path \in Paths : MoveFile(path, new_path)
    BY <1>1 DEF Operation
  <2>2. ASSUME NEW cells \in Contents, WriteFile(path, cells) PROVE DiskOK(disk')
    BY <2>2, ContentsLength, WriteFileOK, OutcomeOnDisk DEF WriteFile
  <2>3. CASE CreateDirectory(path)
    BY <2>3, WriteFileOK, OutcomeOnDisk DEF CreateDirectory
  <2>4. CASE DeleteFile(path)
    BY <2>4, DeleteFileOK, OutcomeOnDisk DEF DeleteFile
  <2>5. CASE DeleteDirectory(path)
    BY <2>5, DeleteDirectoryOK, OutcomeOnDisk DEF DeleteDirectory
  <2>6. ASSUME NEW new_path \in Paths, MoveFile(path, new_path) PROVE DiskOK(disk')
    BY <2>6, MoveFileOK, OutcomeOnDisk DEF MoveFile
  <2>7. QED
    BY <2>1, <2>2, <2>3, <2>4, <2>5, <2>6
<1>2. CASE PowerFailure
  <2>1. PICK path \in Paths :
            \/ \E cells \in Contents : Interrupted(filesystem_write_file(path, "FILE", cells))
            \/ Interrupted(filesystem_write_file(path, "DIRECTORY", <<>>))
            \/ Interrupted(filesystem_delete_file(path))
            \/ Interrupted(filesystem_delete_directory(path))
            \/ \E new_path \in Paths : Interrupted(filesystem_move_file(path, new_path))
    BY <1>2 DEF PowerFailure
  <2>2. ASSUME NEW cells \in Contents,
               Interrupted(filesystem_write_file(path, "FILE", cells))
        PROVE  DiskOK(disk')
    BY <2>2, ContentsLength, WriteFileOK, OutcomeOnDisk
  <2>3. CASE Interrupted(filesystem_write_file(path, "DIRECTORY", <<>>))
    BY <2>3, WriteFileOK, OutcomeOnDisk
  <2>4. CASE Interrupted(filesystem_delete_file(path))
    BY <2>4, DeleteFileOK, OutcomeOnDisk
  <2>5. CASE Interrupted(filesystem_delete_directory(path))
    BY <2>5, DeleteDirectoryOK, OutcomeOnDisk
  <2>6. ASSUME NEW new_path \in Paths,
               Interrupted(filesystem_move_file(path, new_path))
        PROVE  DiskOK(disk')
    BY <2>6, MoveFileOK, OutcomeOnDisk
  <2>7. QED
    BY <2>1, <2>2, <2>3, <2>4, <2>5, <2>6
<1>3. CASE UNCHANGED vars
  BY <1>3 DEF vars
<1>4. QED
  BY <1>1, <1>2, <1>3

\* No two files ever share a sector, nor reach into the file table: whatever
\* find_space_for_file returned, whatever moved and grew, and wherever in an
\* operation power failed.
THEOREM FilesStayApart == FailureSpec => []ExtentsApart
<1>1. Init => DiskOK(disk)
  BY InitOK
<1>2. DiskOK(disk) /\ [Operation \/ PowerFailure]_vars => DiskOK(disk)'
  BY StepOK DEF DiskOK, TableOK, Apart, Filled, End
<1>3. DiskOK(disk) => ExtentsApart
  BY DEF DiskOK, TableOK, ExtentsApart
<1>4. QED
  BY <1>1, <1>2, <1>3, PTL DEF FailureSpec
-----------------------------------------------------------------------------
(* Sectors                                                                 *)

\* The cells that stand for no entry.
LEMMA CellFacts == Zero \in Cell /\ Unread \in Cell /\ Zero.idx = 0 /\ Unread.idx = 0
<1>1. 0 \in Slots
  BY FileSystemAssumption, SMTT(60) DEF Slots
<1>2. QED
  BY <1>1 DEF Zero, Unread, Cell

\* An entry is of a slot.
LEMMA CellIndex == \A c \in Cell : c.idx \in Slots
BY DEF Cell

DataType == [0 .. SECTORS - 1 -> [1 .. SECTOR_SIZE -> Cell]]

\* What one command transfers lies on the disk.
LEMMA TransferredFacts ==
    ASSUME NEW lba \in Nat, NEW n \in Nat
    PROVE  /\ Transferred(lba, n) \in Nat /\ Transferred(lba, n) <= CeilDiv(n)
           /\ Transferred(lba, n) > 0 => lba + Transferred(lba, n) < SECTORS
           /\ CeilDiv(n) < COUNT_MOD /\ lba + CeilDiv(n) < SECTORS =>
                Transferred(lba, n) = CeilDiv(n)
<1> DEFINE c == CeilDiv(n)
<1> DEFINE count == c % COUNT_MOD
<1>1. c \in Nat /\ COUNT_MOD \in Nat \ {0} /\ SECTORS \in Nat
  BY CeilDivFacts, FileSystemAssumption
<1>2. Transferred(lba, n) = IF lba + count >= SECTORS THEN 0 ELSE count
  BY DEF Transferred
<1> HIDE DEF c
<1>3. count \in Nat /\ count <= c /\ (c < COUNT_MOD => count = c)
  BY <1>1, SMTT(60)
<1> HIDE DEF count
<1>4. QED
  BY <1>1, <1>2, <1>3, SMTT(60) DEF c

\* Where the k-th of n cells is.
LEMMA SectorOf ==
    \A n \in Nat : \A k \in 1 .. n :
      /\ (k - 1) \div SECTOR_SIZE \in Nat
      /\ (k - 1) \div SECTOR_SIZE < CeilDiv(n)
      /\ ((k - 1) % SECTOR_SIZE) + 1 \in 1 .. SECTOR_SIZE
      /\ ((k - 1) \div SECTOR_SIZE) * SECTOR_SIZE + (((k - 1) % SECTOR_SIZE) + 1) = k
\* Division with remainder.
<1>Division. ASSUME NEW x \in Nat, NEW d \in Nat \ {0}
             PROVE  x \div d \in Nat /\ x % d \in 0 .. d - 1 /\ x = d * (x \div d) + (x % d)
  BY <1>Division, SMTT(60)
\* A product grows with its factor.
<1>ProductGrows. ASSUME NEW b \in Nat, NEW c \in Nat, NEW d \in Nat, b <= c
                 PROVE  d * b <= d * c /\ d * b \in Nat /\ d * c \in Nat
  BY <1>ProductGrows, SMTT(60)
<1> SUFFICES ASSUME NEW n \in Nat, NEW k \in 1 .. n
         PROVE  /\ (k - 1) \div SECTOR_SIZE \in Nat
                /\ (k - 1) \div SECTOR_SIZE < CeilDiv(n)
                /\ ((k - 1) % SECTOR_SIZE) + 1 \in 1 .. SECTOR_SIZE
                /\ ((k - 1) \div SECTOR_SIZE) * SECTOR_SIZE + (((k - 1) % SECTOR_SIZE) + 1) = k
  OBVIOUS
<1> DEFINE S == SECTOR_SIZE
<1>0. S \in Nat \ {0} /\ k - 1 \in Nat /\ n + S - 1 \in Nat
  BY FileSystemAssumption, SMTT(60)
<1> HIDE DEF S
<1>1. PICK q \in Nat, r \in 0 .. S - 1 : q = (k - 1) \div S /\ r = (k - 1) % S /\ k - 1 = S * q + r
  BY <1>0, <1>Division, SMTT(60)
<1>2. PICK Q \in Nat, R \in 0 .. S - 1 : Q = (n + S - 1) \div S /\ n + S - 1 = S * Q + R
  BY <1>0, <1>Division, SMTT(60)
<1>3. ASSUME Q <= q PROVE FALSE
  <2>1. S * Q <= S * q /\ S * Q \in Nat /\ S * q \in Nat
    BY <1>0, <1>3, <1>ProductGrows
  <2>2. QED
    BY <1>0, <1>1, <1>2, <2>1, SMTT(60)
<1>4. q < Q
  BY <1>3, SMTT(60)
<1>5. S * q = q * S
  BY <1>0, SMTT(60)
<1>6. q * S + (r + 1) = k
  BY <1>0, <1>1, <1>5, SMTT(60)
<1>7. QED
  BY <1>0, <1>1, <1>2, <1>4, <1>6, SMTT(60) DEF CeilDiv, S

\* What a read returns are cells.
LEMMA ReadType ==
    ASSUME NEW data \in DataType, NEW lba \in Nat, NEW n \in Nat
    PROVE  ReadSectors(data, lba, n) \in [1 .. n -> Cell]
<1> DEFINE T == Transferred(lba, n)
<1>1. T \in Nat /\ (T > 0 => lba + T < SECTORS)
  BY TransferredFacts
<1> HIDE DEF T
<1>2. ASSUME NEW k \in 1 .. n, (k - 1) \div SECTOR_SIZE < T
      PROVE  data[lba + ((k - 1) \div SECTOR_SIZE)][((k - 1) % SECTOR_SIZE) + 1] \in Cell
  <2>1. /\ (k - 1) \div SECTOR_SIZE \in Nat
        /\ ((k - 1) % SECTOR_SIZE) + 1 \in 1 .. SECTOR_SIZE
    BY SectorOf
  <2>2. lba + ((k - 1) \div SECTOR_SIZE) \in 0 .. SECTORS - 1
    BY <1>1, <1>2, <2>1, FileSystemAssumption, SMTT(60)
  <2>3. QED
    BY <2>1, <2>2 DEF DataType
<1>3. QED
  BY <1>2, CellFacts DEF ReadSectors, T

\* What a write leaves are cells.
LEMMA WriteType ==
    ASSUME NEW data \in DataType, NEW lba \in Nat, NEW n \in Nat,
           NEW cells \in [1 .. n -> Cell], Len(cells) = n
    PROVE  WriteSectors(data, lba, cells) \in DataType
<1> DEFINE T == Transferred(lba, n)
<1>1. T \in Nat
  BY TransferredFacts
<1> HIDE DEF T
<1>2. ASSUME NEW x \in 0 .. SECTORS - 1, x \in lba .. lba + T - 1
      PROVE  [k \in 1 .. SECTOR_SIZE |->
                IF (x - lba) * SECTOR_SIZE + k <= n
                THEN cells[(x - lba) * SECTOR_SIZE + k] ELSE Zero] \in [1 .. SECTOR_SIZE -> Cell]
  <2>1. x - lba \in Nat
    BY <1>1, <1>2, SMTT(60)
  <2>2. (x - lba) * SECTOR_SIZE \in Nat
    BY <2>1, FileSystemAssumption, SMTT(60)
  <2>3. \A k \in 1 .. SECTOR_SIZE : (x - lba) * SECTOR_SIZE + k <= n =>
            cells[(x - lba) * SECTOR_SIZE + k] \in Cell
    BY <2>2, FileSystemAssumption, SMTT(60)
  <2>4. QED
    BY <2>3, CellFacts
<1>3. QED
  BY <1>2 DEF WriteSectors, DataType, T

\* What was written is read back, but for what one command does not transfer.
LEMMA ReadWritten ==
    ASSUME NEW data \in DataType, NEW lba \in Nat, NEW n \in Nat,
           NEW cells \in [1 .. n -> Cell], Len(cells) = n, NEW k \in 1 .. n
    PROVE  /\ ReadSectors(WriteSectors(data, lba, cells), lba, n)[k] \in {cells[k], Unread}
           /\ CeilDiv(n) < COUNT_MOD /\ lba + CeilDiv(n) < SECTORS =>
                ReadSectors(WriteSectors(data, lba, cells), lba, n)[k] = cells[k]
<1> DEFINE T == Transferred(lba, n)
<1> DEFINE q == (k - 1) \div SECTOR_SIZE
<1> DEFINE o == ((k - 1) % SECTOR_SIZE) + 1
<1> DEFINE w == WriteSectors(data, lba, cells)
<1>1. /\ T \in Nat /\ (T > 0 => lba + T < SECTORS)
      /\ CeilDiv(n) < COUNT_MOD /\ lba + CeilDiv(n) < SECTORS => T = CeilDiv(n)
  BY TransferredFacts
<1>2. q \in Nat /\ q < CeilDiv(n) /\ o \in 1 .. SECTOR_SIZE /\ q * SECTOR_SIZE + o = k
  BY SectorOf
<1>3. ReadSectors(w, lba, n)[k] = IF q < T THEN w[lba + q][o] ELSE Unread
  BY DEF ReadSectors
<1>4. ASSUME q < T PROVE w[lba + q][o] = cells[k]
  <2> DEFINE x == lba + q
  <2>1. x \in 0 .. SECTORS - 1
    BY <1>1, <1>2, <1>4, FileSystemAssumption, SMTT(60)
  <2>2. x \in lba .. lba + T - 1 /\ x - lba = q
    BY <1>1, <1>2, <1>4, SMTT(60)
  <2> HIDE DEF T, q, o, x
  <2>3. x \in DOMAIN data
    BY <2>1 DEF DataType
  <2>4. w[x] = [j \in 1 .. SECTOR_SIZE |->
                  IF (x - lba) * SECTOR_SIZE + j <= n
                  THEN cells[(x - lba) * SECTOR_SIZE + j] ELSE Zero]
    BY <2>2, <2>3 DEF WriteSectors, T
  <2>5. w[x][o] = IF q * SECTOR_SIZE + o <= n THEN cells[q * SECTOR_SIZE + o] ELSE Zero
    BY <1>2, <2>2, <2>4
  <2>6. w[x][o] = cells[k]
    BY <1>2, <2>5, SMTT(60)
  <2>7. QED
    BY <2>6 DEF x
<1> HIDE DEF T, q, o, w
<1>5. QED
  BY <1>1, <1>2, <1>3, <1>4 DEF w

-----------------------------------------------------------------------------
(* A file that shrinks finds a place                                       *)

\* Fewer cells need no more sectors.
LEMMA CeilDivGrows ==
    ASSUME NEW n \in Nat, NEW m \in Nat, n <= m
    PROVE  CeilDiv(n) <= CeilDiv(m)
<1> DEFINE x == n + SECTOR_SIZE - 1
<1> DEFINE y == m + SECTOR_SIZE - 1
<1>1. SECTOR_SIZE \in Nat \ {0} /\ x \in Nat /\ y \in Nat /\ x <= y
  BY FileSystemAssumption, SMTT(60)
<1> HIDE DEF x, y
<1>2. x \div SECTOR_SIZE <= y \div SECTOR_SIZE
  BY <1>1, SMTT(60)
<1>3. QED
  BY <1>2 DEF CeilDiv, x, y

\* A file that does not grow fits at least where it is.
LEMMA OwnPlaceFits ==
    \A table : \A i \in Slots, n \in Nat :
      (/\ TableOK(table)
       /\ table[i].used
       /\ n <= table[i].size)
      => Space([table EXCEPT ![i].used = FALSE], n) # {}
\* Files that are apart have different starts.
<1>StartsDiffer. ASSUME NEW table, TableOK(table), NEW i \in Filled(table), NEW j \in Filled(table),
                        i # j
                 PROVE  table[i].start # table[j].start
  <2> USE <1>StartsDiffer
  <2>1. /\ table[i].start \in Nat /\ End(table[i]) \in Nat /\ table[i].start < End(table[i])
        /\ table[j].start \in Nat /\ End(table[j]) \in Nat /\ table[j].start < End(table[j])
    BY FilledFacts
  <2>2. End(table[i]) <= table[j].start \/ End(table[j]) <= table[i].start
    BY DEF TableOK, Apart
  <2>3. QED
    BY <2>1, <2>2, SMTT(60)
\* Some files have a first and a last one on the disk.
<1>FirstAndLast. ASSUME NEW table, TableOK(table), NEW S \in SUBSET Filled(table), S # {}
                 PROVE  /\ \E i \in S : \A j \in S \ {i} : Precedes(table, i, j)
                        /\ \E i \in S : \A j \in S \ {i} : Precedes(table, j, i)
  <2> USE <1>FirstAndLast
  <2>0. SECTORS \in Nat
    BY FileSystemAssumption
  <2>1. \A i \in S : /\ table[i].start \in Nat /\ SECTORS - table[i].start \in Nat
    BY <2>0, FilledFacts, SMTT(60)
  <2>2. \E i \in S : \A j \in S \ {i} : Precedes(table, i, j)
    <3> DEFINE A == {table[i].start : i \in S}
    <3>1. A \in SUBSET Nat /\ A # {}
      BY <2>1
    <3>2. Lowest(A) \in A /\ \A x \in A : Lowest(A) <= x
      BY <3>1, LowestFacts
    <3>3. PICK i \in S : \A j \in S : table[i].start <= table[j].start
      BY <3>2
    <3>4. ASSUME NEW j \in S \ {i} PROVE Precedes(table, i, j)
      <4>1. table[i].start # table[j].start
        BY <1>StartsDiffer
      <4>2. QED
        BY <2>1, <3>3, <4>1, SMTT(60) DEF Precedes
    <3>5. QED
      BY <3>4
  <2>3. \E i \in S : \A j \in S \ {i} : Precedes(table, j, i)
    <3> DEFINE A == {SECTORS - table[i].start : i \in S}
    <3>1. A \in SUBSET Nat /\ A # {}
      BY <2>1
    <3>2. Lowest(A) \in A /\ \A x \in A : Lowest(A) <= x
      BY <3>1, LowestFacts
    <3>3. PICK i \in S : \A j \in S : SECTORS - table[i].start <= SECTORS - table[j].start
      BY <3>2
    <3>4. ASSUME NEW j \in S \ {i} PROVE Precedes(table, j, i)
      <4>1. table[i].start # table[j].start
        BY <1>StartsDiffer
      <4>2. QED
        BY <2>0, <2>1, <3>3, <4>1, SMTT(60) DEF Precedes
    <3>5. QED
      BY <3>4
  <2>4. QED
    BY <2>2, <2>3
\* prev_end has a value, which some file passed, or the table, ends at.
<1>PrevEndExists. ASSUME NEW table, TableOK(table), NEW passed \in SUBSET Filled(table)
                  PROVE  \E s \in PrevEnd(table, passed) :
                            s = FILE_TABLE_ENTRIES + 1 \/ \E i \in passed : s = End(table[i])
  <2> USE <1>PrevEndExists
  <2>1. CASE passed = {}
    BY <2>1 DEF PrevEnd
  <2>2. CASE passed # {}
    <3>1. PICK i \in passed : \A j \in passed \ {i} : Precedes(table, j, i)
      BY <2>2, <1>FirstAndLast
    <3>2. End(table[i]) \in PrevEnd(table, passed)
      BY <2>2, <3>1 DEF PrevEnd
    <3>3. QED
      BY <3>2
  <2>3. QED
    BY <2>1, <2>2
\* find_space_for_file succeeds when some gap is large enough.
<1>GapIsFound. ASSUME NEW table, TableOK(table), NEW n,
                      \/ \E i \in Filled(table) : GapBefore(table, n, i) # {}
                      \/ \E s \in PrevEnd(table, Filled(table)) : (SECTORS - 1 - s) % WORD >= CeilDiv(n)
               PROVE  Space(table, n) # {}
  <2> USE <1>GapIsFound
  <2> DEFINE fit == {i \in Filled(table) : GapBefore(table, n, i) # {}}
  <2> DEFINE first == {i \in fit : \A j \in fit \ {i} : Precedes(table, i, j)}
  <2> DEFINE trailing == {s \in PrevEnd(table, Filled(table)) :
                            (SECTORS - 1 - s) % WORD >= CeilDiv(n)}
  <2>1. Space(table, n) = IF fit # {} THEN UNION {GapBefore(table, n, i) : i \in first}
                          ELSE trailing
    BY DEF Space
  <2>2. CASE fit = {}
    BY <2>1, <2>2
  <2>3. CASE fit # {}
    <3>1. fit \in SUBSET Filled(table)
      OBVIOUS
    <3>2. PICK i \in fit : \A j \in fit \ {i} : Precedes(table, i, j)
      BY <2>3, <3>1, <1>FirstAndLast
    <3>3. i \in first /\ GapBefore(table, n, i) # {}
      BY <3>2
    <3>4. QED
      BY <2>1, <2>3, <3>3
  <2>4. QED
    BY <2>2, <2>3
<1> SUFFICES ASSUME NEW table, TableOK(table), NEW i \in Slots, table[i].used,
                NEW n \in Nat, n <= table[i].size
         PROVE  Space([table EXCEPT ![i].used = FALSE], n) # {}
  OBVIOUS
<1> DEFINE rest == [table EXCEPT ![i].used = FALSE]
<1> DEFINE c == CeilDiv(n)
<1> DEFINE C == CeilDiv(table[i].size)
<1> DEFINE st == table[i].start
<1>0. /\ table \in [Slots -> Entry] /\ table[i].size \in Nat /\ st \in Nat
      /\ SECTORS \in Nat /\ WORD \in Nat /\ SECTORS < WORD /\ FILE_TABLE_ENTRIES \in Nat
      /\ FILE_TABLE_ENTRIES + 1 < SECTORS
  BY FileSystemAssumption DEF TableOK, Entry
<1>1. rest \in [Slots -> Entry] /\ \A j \in Slots : rest[j].used => rest[j] = table[j]
  BY <1>0 DEF Entry
<1>2. TableOK(rest)
  BY <1>1, FreeingKeepsTable
<1>3. c \in Nat /\ C \in Nat /\ c <= C
  BY <1>0, CeilDivFacts, CeilDivGrows
<1>4. i \notin Filled(rest) /\ \A j \in Filled(rest) : j \in Filled(table) /\ rest[j] = table[j]
  BY <1>0, <1>1, SMTT(60) DEF Filled
<1> HIDE DEF rest, c
<1>5. CASE n = 0
  <2>1. c = 0
    <3>1. SECTOR_SIZE \in Nat \ {0}
      BY FileSystemAssumption
    <3>2. (0 + SECTOR_SIZE - 1) \div SECTOR_SIZE = 0
      BY <3>1, SMTT(60)
    <3>3. QED
      BY <1>5, <3>2 DEF c, CeilDiv
  <2>2. PICK s \in PrevEnd(rest, Filled(rest)) : TRUE
    BY <1>2, <1>PrevEndExists
  <2>3. s \in Nat /\ s < SECTORS
    BY <1>2, <2>2, PrevEndFacts
  <2>4. (SECTORS - 1 - s) % WORD >= c
    <3>1. SECTORS - 1 - s \in Nat
      BY <1>0, <2>3, SMTT(60)
    <3>2. (SECTORS - 1 - s) % WORD \in Nat
      BY <1>0, <3>1, SMTT(60)
    <3>3. QED
      BY <2>1, <3>2, SMTT(60)
  <2>5. QED
    BY <1>2, <2>2, <2>4, <1>GapIsFound DEF c, rest
<1>6. CASE n > 0
  <2>0. i \in Filled(table)
    BY <1>0, <1>6, SMTT(60) DEF Filled
  <2>1. st > FILE_TABLE_ENTRIES /\ st + C < SECTORS /\ C >= 1
    BY <1>0, <1>6, <2>0, CeilDivFacts, SMTT(60) DEF TableOK, Apart, End
  <2>2. \A j \in Filled(rest) : End(rest[j]) <= st \/ st + C <= rest[j].start
    BY <1>4, <2>0 DEF TableOK, Apart, End
  <2> DEFINE after == {j \in Filled(rest) : st + C <= rest[j].start}
  <2>3. CASE after = {}
    <3>1. PICK s \in PrevEnd(rest, Filled(rest)) :
              s = FILE_TABLE_ENTRIES + 1 \/ \E j \in Filled(rest) : s = End(rest[j])
      BY <1>2, <1>PrevEndExists
    <3>2. s \in Nat
      BY <1>2, <3>1, PrevEndFacts
    <3>3. s <= st
      BY <1>0, <2>1, <2>2, <2>3, <3>1, SMTT(60)
    <3>4. SECTORS - 1 - s \in Nat /\ SECTORS - 1 - s >= C /\ SECTORS - 1 - s < WORD
      BY <1>0, <1>3, <2>1, <3>2, <3>3, SMTT(60)
    <3>5. (SECTORS - 1 - s) % WORD = SECTORS - 1 - s
      BY <1>0, <3>4, SMTT(60)
    <3>6. (SECTORS - 1 - s) % WORD >= c
      BY <1>3, <3>4, <3>5, SMTT(60)
    <3>7. QED
      BY <1>2, <3>1, <3>6, <1>GapIsFound DEF c, rest
  <2>4. CASE after # {}
    <3>1. PICK m \in after : \A j \in after \ {m} : Precedes(rest, m, j)
      BY <1>2, <2>4, <1>FirstAndLast
    <3>2. /\ m \in Filled(rest) /\ rest[m].start \in Nat /\ m \in Nat
          /\ st + C <= rest[m].start
      BY <1>2, <3>1, FilledFacts, FileSystemAssumption, SMTT(60) DEF Slots
    <3> DEFINE passed == {j \in Filled(rest) : Precedes(rest, j, m)}
    <3>3. PICK s \in PrevEnd(rest, passed) :
              s = FILE_TABLE_ENTRIES + 1 \/ \E j \in passed : s = End(rest[j])
      BY <1>2, <1>PrevEndExists
    <3>4. s \in Nat
      BY <1>2, <3>3, PrevEndFacts
    <3>5. \A j \in passed : j \notin after
      <4>1. SUFFICES ASSUME NEW j \in passed, j \in after PROVE FALSE
        OBVIOUS
      <4>2. j # m
        BY <3>2, SMTT(60) DEF Precedes
      <4>3. Precedes(rest, m, j) /\ Precedes(rest, j, m)
        BY <3>1, <4>1, <4>2
      <4>4. rest[j].start \in Nat /\ j \in Nat
        BY <1>2, FilledFacts, FileSystemAssumption, SMTT(60) DEF Slots
      <4>5. QED
        BY <3>2, <4>3, <4>4, SMTT(60) DEF Precedes
    <3>6. s <= st
      BY <1>0, <2>1, <2>2, <3>3, <3>5, SMTT(60)
    <3>7. (IF rest[m].start > s THEN rest[m].start - s ELSE 0) >= c
      BY <1>0, <1>3, <2>1, <3>2, <3>4, <3>6, SMTT(60)
    <3>8. s \in GapBefore(rest, n, m)
      BY <3>3, <3>7 DEF GapBefore, c
    <3>9. QED
      BY <1>2, <3>2, <3>8, <1>GapIsFound DEF rest
  <2>5. QED
    BY <2>3, <2>4
<1>7. n = 0 \/ n > 0
  BY SMTT(60)
<1>8. QED
  BY <1>5, <1>6, <1>7

-----------------------------------------------------------------------------
(* What an edit leaves in the files                                        *)

\* What SaveData returns, field by field.
LEMMA SaveDataIs ==
    ASSUME NEW r, RunOK(r), NEW lba, NEW cells
    PROVE  SaveData(r, lba, cells) =
             [table |-> r.table,
              disk |-> [table |-> r.disk.table, data |-> WriteSectors(r.disk.data, lba, cells)],
              seen |-> r.seen \cup {[table |-> r.disk.table,
                                     data |-> WriteSectors(r.disk.data, lba, cells)]},
              ok |-> r.ok, wild |-> r.wild]
<1> DEFINE w == WriteSectors(r.disk.data, lba, cells)
<1> DEFINE d == [r.disk EXCEPT !.data = w]
<1>1. r.disk = [table |-> r.disk.table, data |-> r.disk.data]
  BY DEF RunOK, DiskOK
<1>2. d = [table |-> r.disk.table, data |-> w]
  BY <1>1, SMTT(60)
<1>3. SaveData(r, lba, cells) = Write(r, d)
  BY DEF SaveData
<1> HIDE DEF d
<1>4. Write(r, d) = [table |-> r.table, disk |-> d, seen |-> r.seen \cup {d},
                     ok |-> r.ok, wild |-> r.wild]
  BY WriteIs
<1>5. QED
  BY <1>2, <1>3, <1>4

\* What SaveTable returns, field by field.
LEMMA SaveTableIs ==
    ASSUME NEW r, RunOK(r), NEW table
    PROVE  SaveTable(r, table) =
             [table |-> table, disk |-> [table |-> table, data |-> r.disk.data],
              seen |-> r.seen \cup {[table |-> table, data |-> r.disk.data]},
              ok |-> r.ok, wild |-> r.wild]
<1> DEFINE d == [r.disk EXCEPT !.table = table]
<1>1. r.disk = [table |-> r.disk.table, data |-> r.disk.data]
  BY DEF RunOK, DiskOK
<1>2. d = [table |-> table, data |-> r.disk.data]
  BY <1>1, SMTT(60)
<1>3. SaveTable(r, table) = [Write(r, d) EXCEPT !.table = table]
  BY DEF SaveTable
<1> HIDE DEF d
<1>4. Write(r, d) = [table |-> r.table, disk |-> d, seen |-> r.seen \cup {d},
                     ok |-> r.ok, wild |-> r.wild]
  BY WriteIs
<1>5. QED
  BY <1>2, <1>3, <1>4, SMTT(60)

\* There is room for n cells at lba.
Room(table, lba, n) == lba \in Nat /\ n \in Nat /\ (n > 0 => FreeAt(table, lba, CeilDiv(n)))

\* A file that is not the written one reads as before.
LEMMA OthersRead ==
    \A table, lba, cells : \A data \in DataType, j \in Slots :
      (/\ TableOK(table)
       /\ Room(table, lba, Len(cells))
       /\ table[j].used)
      => ReadSectors(WriteSectors(data, lba, cells), table[j].start, table[j].size)
           = ReadSectors(data, table[j].start, table[j].size)
\* A write leaves alone what is read elsewhere.
<1>ReadApart. ASSUME NEW data \in DataType, NEW lba \in Nat, NEW cells, Len(cells) \in Nat,
                     NEW at \in Nat, NEW n \in Nat,
                     at + CeilDiv(n) <= lba \/ lba + CeilDiv(Len(cells)) <= at
              PROVE  ReadSectors(WriteSectors(data, lba, cells), at, n) = ReadSectors(data, at, n)
  <2> USE <1>ReadApart
  <2> DEFINE T == Transferred(at, n)
  <2> DEFINE W == Transferred(lba, Len(cells))
  <2> DEFINE w == WriteSectors(data, lba, cells)
  <2>1. /\ T \in Nat /\ T <= CeilDiv(n) /\ (T > 0 => at + T < SECTORS)
        /\ W \in Nat /\ W <= CeilDiv(Len(cells))
        /\ CeilDiv(n) \in Nat /\ CeilDiv(Len(cells)) \in Nat
    BY TransferredFacts, CeilDivFacts
  <2>2. \A x \in DOMAIN data : x \notin lba .. lba + W - 1 => w[x] = data[x]
    BY DEF WriteSectors
  <2> HIDE DEF w, W, T
  <2>3. ASSUME NEW k \in 1 .. n, (k - 1) \div SECTOR_SIZE < T
        PROVE  w[at + ((k - 1) \div SECTOR_SIZE)] = data[at + ((k - 1) \div SECTOR_SIZE)]
    <3>1. PICK q \in Nat : q = (k - 1) \div SECTOR_SIZE
      BY SectorOf
    <3>2. at + q \in 0 .. SECTORS - 1 /\ at + q \notin lba .. lba + W - 1
      BY <2>1, <2>3, <3>1, FileSystemAssumption, SMTT(60)
    <3>3. QED
      BY <2>2, <3>1, <3>2 DEF DataType
  <2>4. QED
    BY <2>3 DEF ReadSectors, T, w
\* Nothing is written for an empty file.
<1>WriteNothing. ASSUME NEW data \in DataType, NEW lba \in Nat, NEW cells, Len(cells) = 0
                 PROVE  WriteSectors(data, lba, cells) = data
  <2> USE <1>WriteNothing
  <2>1. CeilDiv(0) = 0
    <3>1. SECTOR_SIZE \in Nat \ {0}
      BY FileSystemAssumption
    <3>2. (0 + SECTOR_SIZE - 1) \div SECTOR_SIZE = 0
      BY <3>1, SMTT(60)
    <3>3. QED
      BY <3>2 DEF CeilDiv
  <2>2. Transferred(lba, 0) = 0
    BY <2>1, TransferredFacts, SMTT(60)
  <2>3. lba .. lba + 0 - 1 = {}
    BY SMTT(60)
  <2>4. \A x : x \notin lba .. lba + Transferred(lba, Len(cells)) - 1
    BY <2>2, <2>3
  <2>5. QED
    BY <2>4 DEF WriteSectors, DataType
<1> SUFFICES ASSUME NEW table, TableOK(table), NEW data \in DataType,
                NEW lba, NEW cells, Room(table, lba, Len(cells)),
                NEW j \in Slots, table[j].used
         PROVE  ReadSectors(WriteSectors(data, lba, cells), table[j].start, table[j].size)
                  = ReadSectors(data, table[j].start, table[j].size)
  BY SMTT(60)
<1>0. /\ table[j].start \in Nat /\ table[j].size \in Nat /\ lba \in Nat /\ Len(cells) \in Nat
      /\ Len(cells) > 0 => FreeAt(table, lba, CeilDiv(Len(cells)))
  BY DEF TableOK, Entry, Room
<1>1. CASE Len(cells) = 0
  BY <1>0, <1>1, <1>WriteNothing
<1>2. CASE table[j].size = 0
  <2>1. 1 .. table[j].size = {}
    BY <1>2, SMTT(60)
  <2>2. QED
    BY <2>1 DEF ReadSectors
<1>3. CASE Len(cells) > 0 /\ table[j].size > 0
  <2>1. j \in Filled(table)
    BY <1>3 DEF Filled
  <2>2. End(table[j]) <= lba \/ lba + CeilDiv(Len(cells)) <= table[j].start
    BY <1>0, <1>3, <2>1 DEF FreeAt
  <2>3. table[j].start + CeilDiv(table[j].size) <= lba
          \/ lba + CeilDiv(Len(cells)) <= table[j].start
    BY <2>2 DEF End
  <2>4. QED
    BY <1>0, <2>3, <1>ReadApart, SMTT(60)
<1>4. QED
  BY <1>0, <1>1, <1>2, <1>3, SMTT(60)

\* edit_file leaves the run alone when there is no place.
LEMMA EditFails ==
    ASSUME NEW r, NEW i, NEW cells,
           ~ r.table[i].used \/ Space([r.table EXCEPT ![i].used = FALSE], Len(cells)) = {}
    PROVE  edit_file(r, i, cells) = [r EXCEPT !.ok = FALSE]
BY DEF edit_file

\* What edit_file leaves: the file where it found space, and the others as before.
Edited(r, q, i, n, cells) ==
    /\ q.ok = r.ok
    /\ q.disk = [table |-> q.table, data |-> q.disk.data] /\ q.disk.data \in DataType
    /\ q.table \in [Slots -> Entry]
    /\ \A j \in Slots \ {i} : q.table[j] = r.table[j]
    /\ q.table[i].used /\ q.table[i].type = r.table[i].type /\ q.table[i].size = n
    /\ \A j \in Slots \ {i} :
          r.table[j].used => Entries(q.disk, q.table, j) = Entries(r.disk, r.table, j)
    /\ \A k \in 1 .. n :
          /\ Entries(q.disk, q.table, i)[k] \in {cells[k], Unread}
          /\ CeilDiv(n) < COUNT_MOD => Entries(q.disk, q.table, i)[k] = cells[k]

LEMMA EditReads ==
    ASSUME NEW r, RunOK(r), r.disk.data \in DataType, NEW i \in Slots, r.table[i].used,
           NEW n \in Nat, NEW cells \in [1 .. n -> Cell], Len(cells) = n,
           Space([r.table EXCEPT ![i].used = FALSE], n) # {}
    PROVE  /\ Edited(r, edit_file(r, i, cells), i, n, cells)
           /\ edit_file(r, i, cells).wild = r.wild
<1> DEFINE rest == [r.table EXCEPT ![i].used = FALSE]
<1> DEFINE space == Space(rest, n)
<1> DEFINE s == CHOOSE s \in space : TRUE
<1> DEFINE table == [r.table EXCEPT ![i].start = s, ![i].size = n]
<1> DEFINE w == WriteSectors(r.disk.data, s, cells)
<1> DEFINE q == edit_file(r, i, cells)
<1>1. q = SaveTable(SaveData(r, s, cells), table)
  BY DEF edit_file
<1>2. TableOK(r.table) /\ r.table \in [Slots -> Entry] /\ s \in space
  BY DEF RunOK, TableOK
<1>3. rest \in [Slots -> Entry] /\ \A j \in Slots : rest[j].used => rest[j] = r.table[j]
  BY <1>2 DEF Entry
<1>4. TableOK(rest)
  BY <1>2, <1>3, FreeingKeepsTable
<1>5. \A j \in Slots \ {i} : rest[j] = r.table[j]
  BY <1>2
<1> HIDE DEF rest
<1>6. s \in Nat /\ (n > 0 => FreeAt(rest, s, CeilDiv(n)))
  BY <1>2, <1>4, SpaceIsNat, SpaceFacts
<1> HIDE DEF s
<1>7. /\ table \in [Slots -> Entry]
      /\ \A j \in Slots \ {i} : table[j] = r.table[j]
      /\ table[i].start = s /\ table[i].size = n
      /\ table[i].used /\ table[i].type = r.table[i].type
  BY <1>2, <1>6 DEF Entry
<1> HIDE DEF table, q
<1>8. RunOK(SaveData(r, s, cells))
  BY SaveDataOK
<1>9. SaveData(r, s, cells).disk.data = w /\ SaveData(r, s, cells).ok = r.ok
        /\ SaveData(r, s, cells).wild = r.wild
  BY SaveDataIs, SMTT(60)
<1>10. q.table = table /\ q.disk = [table |-> table, data |-> w] /\ q.ok = r.ok /\ q.wild = r.wild
  BY <1>1, <1>8, <1>9, SaveTableIs, SMTT(60)
<1>11. w \in DataType
  BY <1>6, WriteType
<1> HIDE DEF w
<1>12. ASSUME NEW j \in Slots \ {i}, r.table[j].used
       PROVE  Entries(q.disk, q.table, j) = Entries(r.disk, r.table, j)
  <2>1. rest[j].used /\ rest[j] = r.table[j] /\ table[j] = r.table[j]
    BY <1>5, <1>7, <1>12
  <2>2. ReadSectors(w, rest[j].start, rest[j].size)
          = ReadSectors(r.disk.data, rest[j].start, rest[j].size)
    <3>1. Room(rest, s, Len(cells))
      BY <1>6 DEF Room
    <3>2. QED
      BY <1>4, <2>1, <3>1, OthersRead, SMTT(60) DEF w
  <2>3. QED
    BY <1>10, <2>1, <2>2, SMTT(60) DEF Entries
<1>13. ASSUME NEW k \in 1 .. n
       PROVE  /\ Entries(q.disk, q.table, i)[k] \in {cells[k], Unread}
              /\ CeilDiv(n) < COUNT_MOD => Entries(q.disk, q.table, i)[k] = cells[k]
  <2>1. Entries(q.disk, q.table, i) = ReadSectors(w, s, n)
    BY <1>7, <1>10, SMTT(60) DEF Entries
  <2>2. s + CeilDiv(n) < SECTORS
    BY <1>6, SMTT(60) DEF FreeAt
  <2>3. QED
    BY <1>6, <2>1, <2>2, ReadWritten, SMTT(60) DEF w
<1>14. QED
  BY <1>7, <1>10, <1>11, <1>12, <1>13, SMTT(60) DEF Edited, q

-----------------------------------------------------------------------------
(* The entries remove_file_from_dir keeps                                  *)

\* Where the k-th entry kept stood when the p-th is left out.
Skip(p, k) == IF k < p THEN k ELSE k + 1

\* The p-th entry is i's and no other is; or none, when p is behind them.
Only(entries, m, i, p) == \A k \in 1 .. m : entries[k].idx = i <=> k = p

\* The entries but the p-th.
AllBut(kept, entries, m, p) ==
    /\ Len(kept) = IF p = m + 1 THEN m ELSE m - 1
    /\ \A k \in 1 .. m - 1 : kept[k] = entries[Skip(p, k)]

\* The loop leaves out the one entry of i.
LEMMA KeptFacts ==
    \A i : \A m \in Nat : \A entries \in [1 .. m -> Cell] : \A p \in 1 .. m + 1 :
      (/\ Only(entries, m, i, p))
      => AllBut(Kept(entries, m, i), entries, m, p)
\* f[k] is what the loop has kept of the first k entries.
<1> DEFINE Keeps(entries, m, i, f) ==
      f = [k \in 0 .. m |-> IF k = 0 THEN <<>>
                            ELSE IF entries[k].idx # i THEN Append(f[k - 1], entries[k])
                            ELSE f[k - 1]]
<1> HIDE DEF Keeps
\* The loop has a result.
<1>KeepsExists. ASSUME NEW entries, NEW m \in Nat, NEW i
                PROVE  \E f : Keeps(entries, m, i, f)
  <2> USE <1>KeepsExists
  <2> DEFINE Bad == {n \in Nat : ~ \E f : Keeps(entries, n, i, f)}
  <2>1. ASSUME Bad # {}
        PROVE  FALSE
    <3>1. PICK n \in Bad : \A k \in Bad : n <= k
      BY <2>1, LowestFacts
    <3>2. CASE n = 0
      <4>1. Keeps(entries, 0, i, [k \in 0 .. 0 |-> <<>>])
        BY SMTT(60) DEF Keeps
      <4>2. QED
        BY <3>1, <3>2, <4>1
    <3>3. CASE n # 0
      <4>1. PICK g : Keeps(entries, n - 1, i, g)
        BY <3>1, <3>3, SMTT(60)
      <4> DEFINE last == IF entries[n].idx # i THEN Append(g[n - 1], entries[n]) ELSE g[n - 1]
      <4> DEFINE f == [k \in 0 .. n |-> IF k = n THEN last ELSE g[k]]
      <4>2. \A k \in 0 .. n : f[k] = IF k = 0 THEN <<>>
                                     ELSE IF entries[k].idx # i
                                          THEN Append(f[k - 1], entries[k])
                                          ELSE f[k - 1]
        <5>1. f[n] = last /\ \A k \in 0 .. n - 1 : f[k] = g[k]
          BY SMTT(60)
        <5>2. \A k \in 0 .. n - 1 : g[k] = IF k = 0 THEN <<>>
                                          ELSE IF entries[k].idx # i
                                               THEN Append(g[k - 1], entries[k])
                                               ELSE g[k - 1]
          BY <4>1 DEF Keeps
        <5> HIDE DEF f
        <5>3. f[n] = IF entries[n].idx # i THEN Append(f[n - 1], entries[n]) ELSE f[n - 1]
          BY <3>3, <5>1, SMTT(60)
        <5>4. ASSUME NEW k \in 1 .. n - 1
              PROVE  f[k] = IF entries[k].idx # i THEN Append(f[k - 1], entries[k]) ELSE f[k - 1]
          BY <5>1, <5>2, SMTT(60)
        <5>5. f[0] = <<>>
          BY <3>3, <5>1, <5>2, SMTT(60)
        <5>6. \A k \in 0 .. n : k = 0 \/ k = n \/ k \in 1 .. n - 1
          BY SMTT(60)
        <5>7. QED
          BY <3>3, <5>3, <5>4, <5>5, <5>6
      <4>3. Keeps(entries, n, i, f)
        BY <4>2 DEF Keeps
      <4>4. QED
        BY <3>1, <4>3
    <3>4. QED
      BY <3>2, <3>3
  <2>2. QED
    BY <2>1
<1> SUFFICES ASSUME NEW m \in Nat, NEW entries \in [1 .. m -> Cell], NEW i, NEW p \in 1 .. m + 1,
                Only(entries, m, i, p)
         PROVE  AllBut(Kept(entries, m, i), entries, m, p)
  OBVIOUS
<1> DEFINE f == CHOOSE f : Keeps(entries, m, i, f)
<1>1. Keeps(entries, m, i, f)
  BY <1>KeepsExists
<1>2. Kept(entries, m, i) = f[m]
  BY DEF Kept, Keeps
<1> HIDE DEF f
<1> DEFINE P(k) == /\ f[k] \in Seq(Cell) /\ Len(f[k]) = IF k < p THEN k ELSE k - 1
                   /\ \A l \in 1 .. Len(f[k]) : f[k][l] = entries[Skip(p, l)]
<1> DEFINE Bad == {k \in 0 .. m : ~ P(k)}
<1>3. P(0)
  <2>1. f[0] = <<>>
    BY <1>1, SMTT(60) DEF Keeps
  <2>2. QED
    BY <2>1, SMTT(60)
<1>4. ASSUME NEW k \in 1 .. m, P(k - 1) PROVE P(k)
  <2>0. k - 1 \in 0 .. m /\ k \in 0 .. m /\ k # 0 /\ entries[k] \in Cell
    BY SMTT(60)
  <2>1. f[k] = IF entries[k].idx # i THEN Append(f[k - 1], entries[k]) ELSE f[k - 1]
    BY <1>1, <2>0 DEF Keeps
  <2> DEFINE g == f[k - 1]
  <2>2. /\ g \in Seq(Cell) /\ Len(g) = IF k - 1 < p THEN k - 1 ELSE k - 2
        /\ \A l \in 1 .. Len(g) : g[l] = entries[Skip(p, l)]
    BY <1>4, SMTT(60)
  <2> HIDE DEF g
  <2>3. CASE k = p
    BY <2>1, <2>2, <2>3, SMTT(60) DEF g, Only
  <2>4. CASE k # p
    <3>1. f[k] = Append(g, entries[k])
      BY <2>1, <2>4 DEF g, Only
    <3>2. /\ f[k] \in Seq(Cell) /\ Len(f[k]) = Len(g) + 1
          /\ \A l \in 1 .. Len(g) : f[k][l] = g[l]
          /\ f[k][Len(g) + 1] = entries[k]
      <4>1. g \in Seq(Cell) /\ entries[k] \in Cell
        BY <2>0, <2>2
      <4>2. QED
        BY <3>1, <4>1, AppendFacts, SMTT(60)
    <3>3. Skip(p, Len(g) + 1) = k
      BY <2>2, <2>4, SMTT(60) DEF Skip
    <3>4. Len(g) \in Nat
      BY <2>2, SMTT(60)
    <3>5. \A l \in 1 .. Len(f[k]) : f[k][l] = entries[Skip(p, l)]
      <4>1. \A l \in 1 .. Len(f[k]) : l \in 1 .. Len(g) \/ l = Len(g) + 1
        BY <3>2, <3>4, SMTT(60)
      <4>2. f[k][Len(g) + 1] = entries[Skip(p, Len(g) + 1)]
        BY <3>2, <3>3
      <4>3. QED
        BY <2>2, <3>2, <4>1, <4>2
    <3>6. QED
      BY <2>2, <2>4, <3>2, <3>5, SMTT(60)
  <2>5. QED
    BY <2>3, <2>4
<1>5. ASSUME Bad # {} PROVE FALSE
  <2>1. Bad \in SUBSET Nat
    BY SMTT(60)
  <2>2. PICK k \in Bad : \A j \in Bad : k <= j
    BY <1>5, <2>1, LowestFacts
  <2>3. k # 0
    BY <1>3, <2>2
  <2>4. k \in 1 .. m /\ k - 1 \in 0 .. m /\ k - 1 \notin Bad
    BY <2>2, <2>3, SMTT(60)
  <2>5. P(k - 1)
    BY <2>4
  <2>6. QED
    BY <1>4, <2>2, <2>4, <2>5
<1>6. P(m)
  BY <1>5, SMTT(60)
<1>7. QED
  BY <1>2, <1>6, SMTT(60) DEF AllBut

-----------------------------------------------------------------------------
(* Listings                                                                *)

\* The root is slot 0 and no other.
Rooted(t) ==
    /\ t \in [Slots -> Entry]
    /\ t[0].used
    /\ \A j \in Slots : t[j].used => (t[j].type = "ROOT_DIRECTORY" <=> j = 0)

\* The files of t read as L.
Reads(t, L) == \A j \in Slots : t[j].used => L[j] \in [1 .. t[j].size -> Cell]

\* A file holds entries of slots in use, or of none; a directory only the former.
Entered(t, L) ==
    \A j \in Slots : t[j].used =>
      \A k \in 1 .. t[j].size :
         /\ L[j][k].idx = 0 => t[j].type = "FILE"
         /\ L[j][k].idx # 0 => t[L[j][k].idx].used

\* No slot but 0 has two entries.
Once(t, L) ==
    \A j, m \in Slots : t[j].used /\ t[m].used =>
      \A k \in 1 .. t[j].size, l \in 1 .. t[m].size :
         L[j][k].idx = L[m][l].idx /\ L[j][k].idx # 0 => j = m /\ k = l

\* A table whose directories are in order.
Sane(t, L) == Rooted(t) /\ Reads(t, L) /\ Entered(t, L) /\ Once(t, L)

\* A table that keeps the root, and the type of what it keeps.
LEMMA RootedAs ==
    ASSUME NEW t, Rooted(t), NEW t2 \in [Slots -> Entry], t2[0].used,
           \A j \in Slots : t2[j].used => \/ t[j].used /\ t2[j].type = t[j].type
                                          \/ j # 0 /\ t2[j].type # "ROOT_DIRECTORY"
    PROVE  Rooted(t2)
<1>1. ASSUME NEW j \in Slots, t2[j].used
      PROVE  t2[j].type = "ROOT_DIRECTORY" <=> j = 0
  BY <1>1 DEF Rooted
<1>2. QED
  BY <1>1 DEF Rooted

\* What an entry is of.
LEMMA SaneEntry ==
    ASSUME NEW t, NEW L, Sane(t, L), NEW j \in Slots, t[j].used, NEW k \in 1 .. t[j].size
    PROVE  /\ L[j][k] \in Cell /\ L[j][k].idx \in Slots
           /\ L[j][k].idx # 0 => t[L[j][k].idx].used
           /\ t[j].type # "FILE" => L[j][k].idx # 0
<1>1. L[j] \in [1 .. t[j].size -> Cell]
  BY DEF Sane, Reads
<1>2. L[j][k] \in Cell
  BY <1>1
<1>3. QED
  BY <1>2, CellIndex DEF Sane, Entered

\* Where an entry is.
LEMMA SaneOnce ==
    ASSUME NEW t, NEW L, Sane(t, L), NEW j \in Slots, NEW m \in Slots, t[j].used, t[m].used,
           NEW k \in 1 .. t[j].size, NEW l \in 1 .. t[m].size,
           L[j][k].idx = L[m][l].idx, L[j][k].idx # 0
    PROVE  j = m /\ k = l
BY SMTT(60) DEF Sane, Once

\* No file in use has an entry of i.
Unlisted(t, L, i) ==
    \A j \in Slots : t[j].used => \A k \in 1 .. t[j].size : L[j][k].idx # i

\* The k-th cell of j is of nobody, or the one entry that is new (in dir, at K, of
\* i), or the entry that stood at p[j][k] before.
Origin(t, L, t2, L2, p, dir, K, i, j, k) ==
    \/ L2[j][k].idx = 0 /\ t2[j].type = "FILE"
    \/ /\ L2[j][k].idx = i /\ j = dir /\ k = K
       /\ i \in Slots \ {0} /\ t2[i].used /\ Unlisted(t, L, i)
    \/ /\ t[j].used /\ t2[j].type = t[j].type
       /\ p[j][k] \in 1 .. t[j].size
       /\ L2[j][k].idx = L[j][p[j][k]].idx
       /\ L2[j][k].idx # 0 => t2[L2[j][k].idx].used

AllOrigins(t, L, t2, L2, p, dir, K, i) ==
    /\ \A j \in Slots : t2[j].used =>
         \A k \in 1 .. t2[j].size : Origin(t, L, t2, L2, p, dir, K, i, j, k)
    /\ \A j \in Slots : t2[j].used =>
         \A k, l \in 1 .. t2[j].size : p[j][k] = p[j][l] => k = l

\* A table whose entries all have an origin, no two the same, is in order.
LEMMA Relisted ==
    ASSUME NEW t, NEW L, Sane(t, L), NEW t2, NEW L2, NEW p, NEW dir, NEW K, NEW i,
           Rooted(t2), Reads(t2, L2), AllOrigins(t, L, t2, L2, p, dir, K, i)
    PROVE  Sane(t2, L2)
<1>1. ASSUME NEW j \in Slots, t2[j].used, NEW k \in 1 .. t2[j].size
      PROVE  /\ L2[j][k].idx = 0 => t2[j].type = "FILE"
             /\ L2[j][k].idx # 0 => t2[L2[j][k].idx].used
  <2>1. Origin(t, L, t2, L2, p, dir, K, i, j, k)
    BY <1>1 DEF AllOrigins
  <2>2. CASE /\ t[j].used /\ t2[j].type = t[j].type /\ p[j][k] \in 1 .. t[j].size
             /\ L2[j][k].idx = L[j][p[j][k]].idx
    <3>1. PICK a \in 1 .. t[j].size : a = p[j][k]
      BY <2>2
    <3>2. t[j].type # "FILE" => L[j][a].idx # 0
      BY <2>2, SaneEntry
    <3>3. L2[j][k].idx = 0 => t2[j].type = "FILE"
      BY <2>2, <3>1, <3>2
    <3>4. QED
      BY <2>1, <3>3 DEF Origin
  <2>3. QED
    BY <2>1, <2>2 DEF Origin
<1>2. ASSUME NEW j \in Slots, NEW m \in Slots, t2[j].used, t2[m].used,
             NEW k \in 1 .. t2[j].size, NEW l \in 1 .. t2[m].size,
             L2[j][k].idx = L2[m][l].idx, L2[j][k].idx # 0
      PROVE  j = m /\ k = l
  <2> DEFINE x == L2[j][k].idx
  <2>1. \/ x = i /\ j = dir /\ k = K /\ Unlisted(t, L, i)
        \/ t[j].used /\ p[j][k] \in 1 .. t[j].size /\ x = L[j][p[j][k]].idx
    BY <1>2, SMTT(60) DEF Origin, AllOrigins
  <2>2. \/ x = i /\ m = dir /\ l = K /\ Unlisted(t, L, i)
        \/ t[m].used /\ p[m][l] \in 1 .. t[m].size /\ x = L[m][p[m][l]].idx
    BY <1>2, SMTT(60) DEF Origin, AllOrigins
  <2> HIDE DEF x
  <2>3. CASE Unlisted(t, L, i) /\ x = i
    <3>1. j = dir /\ k = K
      BY <2>1, <2>3 DEF Unlisted
    <3>2. m = dir /\ l = K
      BY <2>2, <2>3 DEF Unlisted
    <3>3. QED
      BY <3>1, <3>2
  <2>4. CASE /\ t[j].used /\ p[j][k] \in 1 .. t[j].size /\ x = L[j][p[j][k]].idx
             /\ t[m].used /\ p[m][l] \in 1 .. t[m].size /\ x = L[m][p[m][l]].idx
    <3>1. x # 0
      BY <1>2 DEF x
    <3>2. PICK a \in 1 .. t[j].size, b \in 1 .. t[m].size : a = p[j][k] /\ b = p[m][l]
      BY <2>4
    <3>3. L[j][a].idx = L[m][b].idx /\ L[j][a].idx # 0
      BY <2>4, <3>1, <3>2
    <3>4. j = m /\ a = b
      BY <2>4, <3>3 DEF Sane, Once
    <3>5. p[j][k] = p[j][l]
      BY <3>2, <3>4
    <3>6. QED
      BY <1>2, <3>4, <3>5 DEF AllOrigins
  <2>5. QED
    BY <2>1, <2>2, <2>3, <2>4
<1>3. QED
  BY <1>1, <1>2, SMTT(60) DEF Sane, Entered, Once

-----------------------------------------------------------------------------
(* Paths                                                                   *)

\* A set of files in use with the root that paths do not leave.
Good(d, table, G) ==
    /\ table \in [Slots -> Entry]
    /\ G \subseteq {j \in Slots : table[j].used}
    /\ 0 \in G /\ table[0].type = "ROOT_DIRECTORY"
    /\ \A j \in Slots : table[j].used /\ table[j].type = "ROOT_DIRECTORY" => j = 0
    /\ \A j \in G : Entries(d, table, j) \in [1 .. table[j].size -> Cell]
    /\ \A j \in G : table[j].type # "FILE" =>
         \A k \in 1 .. table[j].size :
            table[Entries(d, table, j)[k].idx].used => Entries(d, table, j)[k].idx \in G

-----------------------------------------------------------------------------
(* Directories                                                             *)

\* What the files of a table read as.
Lists(d, table) == [j \in Slots |-> Entries(d, table, j)]

\* Files hold cells.
LEMMA ListsType ==
    ASSUME NEW d, d.data \in DataType, NEW table \in [Slots -> Entry], NEW j \in Slots
    PROVE  /\ Entries(d, table, j) \in [1 .. table[j].size -> Cell]
           /\ Lists(d, table)[j] = Entries(d, table, j)
           /\ table[j].size \in Nat
<1>1. table[j].start \in Nat /\ table[j].size \in Nat
  BY DEF Entry
<1>2. QED
  BY <1>1, ReadType DEF Entries, Lists

\* The files of a table read as Lists says.
LEMMA ListsRead ==
    ASSUME NEW d, d.data \in DataType, NEW table \in [Slots -> Entry]
    PROVE  Reads(table, Lists(d, table))
BY ListsType, SMTT(60) DEF Reads

\* A directory, with one entry more, is transferred by one command.
LEMMA DirectoryFits ==
    \A t, L : \A dir \in Slots :
      (/\ Sane(t, L)
       /\ t[dir].used
       /\ t[dir].type # "FILE")
      => /\ CeilDiv(t[dir].size) < COUNT_MOD
         /\ \A i \in Slots \ {0} : Unlisted(t, L, i) => CeilDiv(t[dir].size + 1) < COUNT_MOD
\* No n + 1 things have different places among n.
<1>Pigeonhole. ASSUME NEW n \in Nat, NEW f \in [1 .. n + 1 -> 1 .. n]
               PROVE  \E k, l \in 1 .. n + 1 : k # l /\ f[k] = f[l]
  <2> USE <1>Pigeonhole
  <2> DEFINE Injects(m) == \E g \in [1 .. m + 1 -> 1 .. m] :
                              \A k, l \in 1 .. m + 1 : g[k] = g[l] => k = l
  <2> DEFINE Bad == {m \in Nat : Injects(m)}
  <2>1. ASSUME Bad # {} PROVE FALSE
    <3>1. PICK m \in Bad : \A k \in Bad : m <= k
      BY <2>1, LowestFacts
    <3>2. PICK g \in [1 .. m + 1 -> 1 .. m] : \A k, l \in 1 .. m + 1 : g[k] = g[l] => k = l
      BY <3>1
    <3>3. m # 0
      <4>1. g[1] \in 1 .. m
        BY <3>1, SMTT(60)
      <4>2. QED
        BY <4>1, SMTT(60)
    <3> DEFINE h == [k \in 1 .. m |-> IF g[k] = m THEN g[m + 1] ELSE g[k]]
    <3>4. ASSUME NEW k \in 1 .. m PROVE h[k] \in 1 .. m - 1
      <4>1. k \in 1 .. m + 1 /\ m + 1 \in 1 .. m + 1 /\ k # m + 1
        BY <3>1, SMTT(60)
      <4>2. g[k] \in 1 .. m /\ g[m + 1] \in 1 .. m /\ g[k] # g[m + 1]
        BY <3>2, <4>1
      <4>3. h[k] = IF g[k] = m THEN g[m + 1] ELSE g[k]
        OBVIOUS
      <4> HIDE DEF h
      <4>4. PICK a \in 1 .. m, b \in 1 .. m : a = g[k] /\ b = g[m + 1]
        BY <4>2
      <4>5. m \in Nat /\ a # b /\ h[k] = IF a = m THEN b ELSE a
        BY <4>2, <4>3, <4>4
      <4>6. \A x \in 1 .. m : m \in Nat /\ x # m => x \in 1 .. m - 1
        BY SMTT(60)
      <4>7. QED
        BY <4>5, <4>6
    <3>5. ASSUME NEW k \in 1 .. m, NEW l \in 1 .. m, h[k] = h[l] PROVE k = l
      <4>1. /\ k \in 1 .. m + 1 /\ l \in 1 .. m + 1 /\ m + 1 \in 1 .. m + 1
            /\ k # m + 1 /\ l # m + 1
        BY <3>1, SMTT(60)
      <4>2. /\ h[k] = IF g[k] = m THEN g[m + 1] ELSE g[k]
            /\ h[l] = IF g[l] = m THEN g[m + 1] ELSE g[l]
        OBVIOUS
      <4> HIDE DEF h
      <4>3. QED
        BY <3>2, <3>5, <4>1, <4>2
    <3>6. (m - 1) + 1 = m /\ m - 1 \in Nat
      BY <3>1, <3>3, SMTT(60)
    <3>7. h \in [1 .. (m - 1) + 1 -> 1 .. m - 1]
      BY <3>4, <3>6
    <3> HIDE DEF h
    <3>8. Injects(m - 1)
      BY <3>5, <3>6, <3>7
    <3>9. m - 1 \in Bad
      BY <3>6, <3>8
    <3> HIDE DEF Bad
    <3>10. m <= m - 1
      BY <3>1, <3>9
    <3>11. QED
      BY <3>6, <3>10, SMTT(60)
  <2>2. ~ Injects(n)
    BY <2>1
  <2>3. QED
    BY <2>2
\* Different slots other than 0 are fewer than the table has.
<1>FewerThanSlots. ASSUME NEW n \in Nat, NEW f \in [1 .. n -> Slots \ {0}],
                          \A k, l \in 1 .. n : f[k] = f[l] => k = l
                   PROVE  n < FILE_TABLE_ENTRIES
  <2> USE <1>FewerThanSlots
  <2> DEFINE N == FILE_TABLE_ENTRIES - 1
  <2>0. FILE_TABLE_ENTRIES \in Nat \ {0} /\ N \in Nat
    BY FileSystemAssumption, SMTT(60)
  <2>1. ASSUME n >= N + 1 PROVE FALSE
    <3> DEFINE g == [k \in 1 .. N + 1 |-> f[k]]
    <3>1. \A k \in 1 .. N + 1 : k \in 1 .. n
      BY <2>0, <2>1, SMTT(60)
    <3>2. \A x \in Slots \ {0} : x \in 1 .. N
      BY <2>0, SMTT(60) DEF Slots
    <3>3. g \in [1 .. N + 1 -> 1 .. N]
      BY <3>1, <3>2
    <3>4. PICK k \in 1 .. N + 1, l \in 1 .. N + 1 : k # l /\ g[k] = g[l]
      BY <2>0, <3>3, <1>Pigeonhole
    <3>5. QED
      BY <3>1, <3>4
  <2>2. QED
    BY <2>0, <2>1, SMTT(60)
<1> SUFFICES ASSUME NEW t, NEW L, Sane(t, L), NEW dir \in Slots, t[dir].used, t[dir].type # "FILE"
         PROVE  /\ CeilDiv(t[dir].size) < COUNT_MOD
                /\ \A i \in Slots \ {0} : Unlisted(t, L, i) => CeilDiv(t[dir].size + 1) < COUNT_MOD
  OBVIOUS
<1> DEFINE n == t[dir].size
<1>0. /\ n \in Nat /\ FILE_TABLE_ENTRIES \in Nat /\ COUNT_MOD \in Nat
      /\ CeilDiv(FILE_TABLE_ENTRIES) \in Nat /\ CeilDiv(FILE_TABLE_ENTRIES) < COUNT_MOD
  BY FileSystemAssumption, DirectoryAssumption, CeilDivFacts DEF Sane, Rooted, Entry
<1>1. \A k \in 1 .. n : L[dir][k].idx \in Slots \ {0}
  BY SaneEntry
<1>2. \A k, l \in 1 .. n : L[dir][k].idx = L[dir][l].idx => k = l
  BY <1>1, SMTT(60) DEF Sane, Once
<1> HIDE DEF n
<1>3. ASSUME NEW m \in Nat, m < FILE_TABLE_ENTRIES PROVE CeilDiv(m) < COUNT_MOD
  <2>1. CeilDiv(m) \in Nat /\ CeilDiv(m) <= CeilDiv(FILE_TABLE_ENTRIES)
    BY <1>0, <1>3, CeilDivFacts, CeilDivGrows, SMTT(60)
  <2>2. QED
    BY <1>0, <2>1, SMTT(60)
<1>4. n < FILE_TABLE_ENTRIES
  <2> DEFINE f == [k \in 1 .. n |-> L[dir][k].idx]
  <2>1. f \in [1 .. n -> Slots \ {0}] /\ \A k, l \in 1 .. n : f[k] = f[l] => k = l
    BY <1>1, <1>2
  <2> HIDE DEF f
  <2>2. QED
    BY <1>0, <2>1, <1>FewerThanSlots
<1>5. ASSUME NEW i \in Slots \ {0}, Unlisted(t, L, i) PROVE n + 1 < FILE_TABLE_ENTRIES
  <2> DEFINE f == [k \in 1 .. n + 1 |-> IF k = n + 1 THEN i ELSE L[dir][k].idx]
  <2>1. \A k \in 1 .. n : L[dir][k].idx # i
    BY <1>5 DEF Unlisted, n
  <2>2. \A k \in 1 .. n + 1 : k = n + 1 \/ k \in 1 .. n
    BY <1>0, SMTT(60)
  <2>3. \A k \in 1 .. n + 1 : f[k] = IF k = n + 1 THEN i ELSE L[dir][k].idx
    OBVIOUS
  <2>4. f \in [1 .. n + 1 -> Slots \ {0}]
    BY <1>1, <2>2
  <2> HIDE DEF f
  <2>5. \A k, l \in 1 .. n + 1 : f[k] = f[l] => k = l
    BY <1>2, <2>1, <2>2, <2>3
  <2>6. n + 1 \in Nat
    BY <1>0, SMTT(60)
  <2>7. QED
    BY <2>4, <2>5, <2>6, <1>FewerThanSlots
<1>6. QED
  BY <1>0, <1>3, <1>4, <1>5, SMTT(60) DEF n

\* add_file_to_dir: one entry more, at the end.
LEMMA AddReads ==
    ASSUME NEW r, RunOK(r), r.disk.data \in DataType, NEW dir \in Slots, r.table[dir].used,
           NEW i, NEW name, [name |-> name, idx |-> i] \in Cell,
           NEW q, q = add_file_to_dir(r, dir, i, name)
    PROVE  \/ q = [r EXCEPT !.ok = FALSE]
           \/ /\ q.wild = r.wild
              /\ \E cells :
                   /\ Edited(r, q, dir, r.table[dir].size + 1, cells)
                   /\ \A k \in 1 .. r.table[dir].size :
                        cells[k] = Entries(r.disk, r.table, dir)[k]
                   /\ cells[r.table[dir].size + 1] = [name |-> name, idx |-> i]
<1> DEFINE old == Entries(r.disk, r.table, dir)
<1> DEFINE n == r.table[dir].size
<1> DEFINE new == [name |-> name, idx |-> i]
<1> DEFINE cells == Append(old, new)
<1>1. r.table \in [Slots -> Entry]
  BY DEF RunOK, TableOK
<1>2. n \in Nat /\ old \in [1 .. n -> Cell]
  BY <1>1, ListsType
<1>3. q = edit_file(r, dir, cells)
  BY DEF add_file_to_dir
<1> HIDE DEF old, n, new
<1>4. old \in Seq(Cell) /\ Len(old) = n /\ new \in Cell
  BY <1>2, BlockIsSeq DEF new
<1>5. /\ cells \in Seq(Cell) /\ Len(cells) = n + 1
      /\ \A k \in 1 .. n : cells[k] = old[k]
      /\ cells[n + 1] = new
  BY <1>2, <1>4, AppendFacts, SMTT(60)
<1> HIDE DEF cells
<1>6. cells \in [1 .. n + 1 -> Cell] /\ n + 1 \in Nat
  <2>1. cells \in [1 .. Len(cells) -> Cell]
    BY <1>5, SMTT(60)
  <2>2. QED
    BY <1>2, <1>5, <2>1, SMTT(60)
<1>7. CASE Space([r.table EXCEPT ![dir].used = FALSE], n + 1) = {}
  <2>1. Space([r.table EXCEPT ![dir].used = FALSE], Len(cells)) = {}
    BY <1>5, <1>7
  <2>2. edit_file(r, dir, cells) = [r EXCEPT !.ok = FALSE]
    BY <2>1, EditFails
  <2>3. QED
    BY <1>3, <2>2
<1>8. CASE Space([r.table EXCEPT ![dir].used = FALSE], n + 1) # {}
  <2>1. Edited(r, q, dir, n + 1, cells) /\ q.wild = r.wild
    BY <1>3, <1>5, <1>6, <1>8, EditReads, SMTT(60)
  <2>2. QED
    BY <1>5, <2>1 DEF n, old, new
<1>9. QED
  BY <1>7, <1>8

\* A run whose outcome is set differs in nothing else.
LEMMA OutcomeIs ==
    ASSUME NEW r, RunOK(r), NEW b
    PROVE  /\ [r EXCEPT !.ok = b] = [table |-> r.table, disk |-> r.disk, seen |-> r.seen,
                                     ok |-> b, wild |-> r.wild]
           /\ [r EXCEPT !.wild = b] = [table |-> r.table, disk |-> r.disk, seen |-> r.seen,
                                       ok |-> r.ok, wild |-> b]
BY SMTT(60) DEF RunOK

\* At most one of n entries is i's.
AtMostOne(e, n, i) == \A k, l \in 1 .. n : e[k].idx = i /\ e[l].idx = i => k = l

\* The entry of i among the n of dir is gone.
Removes(r, q, dir, i, e, n) ==
    \E p \in 1 .. n :
      /\ e[p].idx = i
      /\ q.wild = FALSE
      /\ \E cells : /\ Edited(r, q, dir, n - 1, cells)
                    /\ \A k \in 1 .. n - 1 : cells[k] = e[Skip(p, k)]

\* remove_file_from_dir runs wild, or the one entry of i is gone.
LEMMA RemoveReads ==
    ASSUME NEW r, RunOK(r), r.disk.data \in DataType, NEW dir \in Slots, r.table[dir].used,
           NEW i, AtMostOne(Entries(r.disk, r.table, dir), r.table[dir].size, i),
           NEW q, q = remove_file_from_dir(r, dir, i)
    PROVE  \/ q.wild = TRUE
           \/ Removes(r, q, dir, i, Entries(r.disk, r.table, dir), r.table[dir].size)
<1> DEFINE e == Entries(r.disk, r.table, dir)
<1> DEFINE n == r.table[dir].size
<1> DEFINE kept == Kept(e, n, i)
<1> DEFINE block == [k \in 1 .. n - 1 |-> IF k <= Len(kept) THEN kept[k] ELSE Unread]
<1> DEFINE cells == IF n = 0 THEN <<>> ELSE block
<1> DEFINE miscounted == Len(kept) = n
<1> DEFINE q2 == edit_file(r, dir, cells)
<1>1. r.table \in [Slots -> Entry] /\ TableOK(r.table)
  BY DEF RunOK, TableOK
<1>2. n \in Nat /\ e \in [1 .. n -> Cell]
  BY <1>1, ListsType
<1>3. q = [q2 EXCEPT !.wild = miscounted]
  BY DEF remove_file_from_dir
<1>4. \A k, l \in 1 .. n : e[k].idx = i /\ e[l].idx = i => k = l
  BY DEF AtMostOne
<1> HIDE DEF e, n
<1>5. Len(cells) \in Nat
  <2>1. CASE n = 0
    BY <2>1
  <2>2. CASE n # 0
    <3>1. n - 1 \in Nat /\ block = [k \in 1 .. n - 1 |-> block[k]] /\ cells = block
      BY <1>2, <2>2, SMTT(60)
    <3> HIDE DEF block, cells
    <3>2. QED
      BY <3>1, BlockLength
  <2>3. QED
    BY <2>1, <2>2
<1> HIDE DEF cells, miscounted
<1>6. RunOK(q2)
  BY <1>5, EditOK
<1> HIDE DEF q2
<1>7. q.table = q2.table /\ q.disk = q2.disk /\ q.ok = q2.ok /\ q.wild = miscounted
  BY <1>3, <1>6, OutcomeIs, SMTT(60)
<1>8. ASSUME \A k \in 1 .. n : e[k].idx # i PROVE q.wild = TRUE
  <2>1. n + 1 \in 1 .. n + 1 /\ \A k \in 1 .. n : k # n + 1
    BY <1>2, SMTT(60)
  <2>2. Only(e, n, i, n + 1)
    BY <1>8, <2>1 DEF Only
  <2>3. AllBut(kept, e, n, n + 1)
    BY <1>2, <2>1, <2>2, KeptFacts
  <2>4. QED
    BY <1>7, <2>3 DEF miscounted, AllBut
<1>9. ASSUME NEW p \in 1 .. n, e[p].idx = i
      PROVE  /\ q.wild = FALSE
             /\ \E c : /\ Edited(r, q, dir, n - 1, c)
                       /\ \A k \in 1 .. n - 1 : c[k] = e[Skip(p, k)]
  <2>1. /\ p \in 1 .. n + 1 /\ p # n + 1 /\ n # 0 /\ n - 1 \in Nat /\ n - 1 <= n
        /\ n - 1 # n
    BY <1>2, SMTT(60)
  <2>2. Only(e, n, i, p)
    BY <1>4, <1>9 DEF Only
  <2>3. Len(kept) = n - 1 /\ \A k \in 1 .. n - 1 : kept[k] = e[Skip(p, k)]
    <3>1. AllBut(kept, e, n, p)
      BY <1>2, <2>1, <2>2, KeptFacts
    <3>2. QED
      BY <2>1, <3>1 DEF AllBut
  <2>4. ~ miscounted
    BY <2>1, <2>3 DEF miscounted
  <2> HIDE DEF kept
  <2>5. cells = block /\ \A k \in 1 .. n - 1 : block[k] = e[Skip(p, k)]
    BY <2>1, <2>3, SMTT(60) DEF cells
  <2>6. \A k \in 1 .. n - 1 : Skip(p, k) \in 1 .. n
    BY <1>2, SMTT(60) DEF Skip
  <2>7. block \in [1 .. n - 1 -> Cell]
    BY <1>2, <2>5, <2>6
  <2>8. Len(block) = n - 1
    BY <2>1, <2>7, BlockLength
  <2> HIDE DEF block
  <2>9. Space([r.table EXCEPT ![dir].used = FALSE], n - 1) # {}
    BY <1>1, <2>1, OwnPlaceFits DEF n
  <2>10. Edited(r, q2, dir, n - 1, block)
    BY <2>1, <2>5, <2>7, <2>8, <2>9, EditReads DEF q2
  <2>11. Edited(r, q, dir, n - 1, block)
    BY <1>7, <2>10 DEF Edited
  <2>12. QED
    BY <1>7, <2>4, <2>5, <2>11, SMTT(60)
<1>10. q.wild = TRUE \/ Removes(r, q, dir, i, e, n)
  BY <1>8, <1>9 DEF Removes
<1>11. QED
  BY <1>10 DEF e, n

-----------------------------------------------------------------------------
(* Operations keep the directories in order                                *)

\* A disk whose files are apart and whose directories are in order.
DiskSane(d) == DiskOK(d) /\ d.data \in DataType /\ Sane(d.table, Lists(d, d.table))

\* The fields of an operation that begins.
LEMMA BeginIs ==
    /\ Begin.table = disk.table /\ Begin.disk = disk /\ Begin.ok = TRUE /\ Begin.wild = FALSE
    /\ Fail.table = disk.table /\ Fail.disk = disk /\ Fail.ok = FALSE /\ Fail.wild = FALSE
BY DEF Begin, Fail

\* Paths stay among the files of the disk, whatever other slots a table in memory
\* has in use.
LEMMA GoodFacts ==
    ASSUME NEW d, DiskSane(d), NEW table \in [Slots -> Entry], NEW G \in SUBSET Slots,
           0 \in G,
           \A j \in G : d.table[j].used /\ table[j] = d.table[j],
           \A j \in Slots : table[j].used /\ d.table[j].used => j \in G,
           \A j \in Slots : table[j].used /\ table[j].type = "ROOT_DIRECTORY" => j = 0
    PROVE  Good(d, table, G)
<1>1. /\ d.data \in DataType /\ Sane(d.table, Lists(d, d.table))
      /\ d.table \in [Slots -> Entry]
  BY DEF DiskSane, Sane, Rooted
<1>2. \A j \in G : /\ Entries(d, table, j) \in [1 .. table[j].size -> Cell]
                   /\ Entries(d, table, j) = Lists(d, d.table)[j]
  <2>1. SUFFICES ASSUME NEW j \in G
                 PROVE  /\ Entries(d, table, j) \in [1 .. table[j].size -> Cell]
                        /\ Entries(d, table, j) = Lists(d, d.table)[j]
    OBVIOUS
  <2>2. j \in Slots /\ table[j] = d.table[j]
    OBVIOUS
  <2>3. Entries(d, table, j) = Entries(d, d.table, j)
    BY <2>2 DEF Entries
  <2>4. /\ Entries(d, table, j) \in [1 .. table[j].size -> Cell]
        /\ Lists(d, d.table)[j] = Entries(d, d.table, j)
    BY <1>1, <2>2, ListsType, SMTT(60)
  <2>5. QED
    BY <2>3, <2>4
<1>3. ASSUME NEW j \in G, table[j].type # "FILE", NEW k \in 1 .. table[j].size,
             table[Entries(d, table, j)[k].idx].used
      PROVE  Entries(d, table, j)[k].idx \in G
  <2>1. PICK x \in Slots : x = Entries(d, table, j)[k].idx
    <3>1. Entries(d, table, j)[k] \in Cell
      BY <1>2
    <3>2. QED
      BY <3>1, CellIndex
  <2>2. x = Lists(d, d.table)[j][k].idx
    BY <1>2, <2>1
  <2>3. j \in Slots /\ d.table[j].used /\ d.table[j].type # "FILE" /\ k \in 1 .. d.table[j].size
    BY <1>3
  <2>4. d.table[x].used
    BY <1>1, <2>2, <2>3, SaneEntry
  <2>5. QED
    BY <1>3, <2>1, <2>4
<1>4. 0 \in Slots /\ table[0].type = "ROOT_DIRECTORY"
  BY <1>1 DEF Sane, Rooted
<1>5. G \subseteq {j \in Slots : table[j].used}
  OBVIOUS
<1>6. QED
  BY <1>2, <1>3, <1>4, <1>5 DEF Good

\* What a path leads to; it is the root only for the empty path.
LEMMA Resolved ==
    \A d, table, G, path, x :
      (/\ DiskSane(d)
       /\ Good(d, table, G)
       /\ \A j \in G : d.table[j].used /\ table[j] = d.table[j]
       /\ Len(path) \in Nat
       /\ x = resolve_path(d, table, path)
       /\ x # None)
      => x \in G /\ x \in Slots /\ table[x].used /\ (x = 0 <=> Len(path) = 0)
\* f[k] is where the first k names of a path lead.
<1> DEFINE Walk(d, table, path, m, f) ==
      f = [k \in 0 .. m |-> IF k = 0 THEN Lowest(Roots(table))
                            ELSE IF f[k - 1] = None THEN None
                            ELSE Lookup(d, table, f[k - 1], path[k], k = Len(path))]
<1> HIDE DEF Walk
\* The walk of resolve_path has a result.
<1>WalkExists. ASSUME NEW d, NEW table, NEW path, NEW m \in Nat
               PROVE  \E f : Walk(d, table, path, m, f)
  <2> USE <1>WalkExists
  <2> DEFINE Bad == {n \in Nat : ~ \E f : Walk(d, table, path, n, f)}
  <2>1. ASSUME Bad # {}
        PROVE  FALSE
    <3>1. PICK n \in Bad : \A k \in Bad : n <= k
      BY <2>1, LowestFacts
    <3>2. CASE n = 0
      <4>1. Walk(d, table, path, 0, [k \in 0 .. 0 |-> Lowest(Roots(table))])
        BY SMTT(60) DEF Walk
      <4>2. QED
        BY <3>1, <3>2, <4>1
    <3>3. CASE n # 0
      <4>1. PICK g : Walk(d, table, path, n - 1, g)
        BY <3>1, <3>3, SMTT(60)
      <4> DEFINE last == IF g[n - 1] = None THEN None
                         ELSE Lookup(d, table, g[n - 1], path[n], n = Len(path))
      <4> DEFINE f == [k \in 0 .. n |-> IF k = n THEN last ELSE g[k]]
      <4>2. \A k \in 0 .. n : f[k] = IF k = 0 THEN Lowest(Roots(table))
                                     ELSE IF f[k - 1] = None THEN None
                                     ELSE Lookup(d, table, f[k - 1], path[k], k = Len(path))
        BY <3>3, <4>1, SMTT(60) DEF Walk
      <4>3. Walk(d, table, path, n, f)
        BY <4>2 DEF Walk
      <4>4. QED
        BY <3>1, <4>3
    <3>4. QED
      BY <3>2, <3>3
  <2>2. QED
    BY <2>1
\* resolve_path returns where the walk ends.
<1>ResolveIs. ASSUME NEW d, NEW table, NEW path, Len(path) \in Nat, Roots(table) # {}
              PROVE  \E f : Walk(d, table, path, Len(path), f)
                              /\ resolve_path(d, table, path) = f[Len(path)]
  <2> USE <1>ResolveIs
  <2> DEFINE g == CHOOSE f : Walk(d, table, path, Len(path), f)
  <2>1. Walk(d, table, path, Len(path), g)
    BY <1>WalkExists
  <2>2. resolve_path(d, table, path) = g[Len(path)]
    BY DEF resolve_path, Walk
  <2>3. QED
    BY <2>1, <2>2
\* The k-th entry of dir is one that Lookup takes for x.
<1> DEFINE Hit(d, table, dir, name, last, x, k) ==
      /\ x = Entries(d, table, dir)[k].idx
      /\ Entries(d, table, dir)[k].name = name
      /\ table[x].used
      /\ last \/ table[x].type = "DIRECTORY"
<1> HIDE DEF Hit
\* Lookup returns what some entry with the name is of.
<1>LookupFacts. ASSUME NEW d, NEW table, NEW dir, NEW name, NEW last \in BOOLEAN,
                       NEW n \in Nat, Entries(d, table, dir) \in [1 .. n -> Cell],
                       Lookup(d, table, dir, name, last) # None
                PROVE  \E k \in 1 .. n :
                          Hit(d, table, dir, name, last, Lookup(d, table, dir, name, last), k)
  <2> USE <1>LookupFacts
  <2> DEFINE entries == Entries(d, table, dir)
  <2> DEFINE hits == {j \in DOMAIN entries :
                        /\ entries[j].name = name
                        /\ table[entries[j].idx].used
                        /\ last \/ table[entries[j].idx].type = "DIRECTORY"}
  <2>1. Lookup(d, table, dir, name, last) = IF hits = {} THEN None ELSE entries[Lowest(hits)].idx
    BY DEF Lookup
  <2>2. DOMAIN entries = 1 .. n
    OBVIOUS
  <2>3. hits # {}
    BY <2>1
  <2>4. 1 .. n \subseteq Nat /\ hits \subseteq DOMAIN entries
    BY SMTT(60)
  <2>5. Lowest(hits) \in hits
    BY <2>2, <2>3, <2>4, LowestFacts
  <2>6. QED
    BY <2>1, <2>2, <2>3, <2>5 DEF Hit
\* Some directory of G has an entry of x with the name.
<1> DEFINE Found(d, table, G, x, name) ==
      \E j \in G : /\ table[j].type # "FILE"
                   /\ \E k \in 1 .. table[j].size : /\ Entries(d, table, j)[k].idx = x
                                                    /\ Entries(d, table, j)[k].name = name
<1> HIDE DEF Found
\* The root is slot 0.
<1>RootIsZero. ASSUME NEW d, NEW table, NEW G, Good(d, table, G)
               PROVE  Roots(table) # {} /\ Lowest(Roots(table)) = 0
  <2> USE <1>RootIsZero
  <2>1. Roots(table) = {0}
    BY DEF Good, Roots
  <2>2. {0} \in SUBSET Nat /\ {0} # {}
    BY SMTT(60)
  <2>3. Lowest({0}) \in {0}
    BY <2>2, LowestFacts
  <2>4. QED
    BY <2>1, <2>3
\* What a path leads to is a file of G, and an entry led there.
<1>ResolveFacts. ASSUME NEW d, NEW table, NEW G, Good(d, table, G), NEW path, Len(path) \in Nat,
                        resolve_path(d, table, path) # None
                 PROVE  /\ resolve_path(d, table, path) \in G
                        /\ Len(path) = 0 => resolve_path(d, table, path) = 0
                        /\ Len(path) > 0 =>
                             Found(d, table, G, resolve_path(d, table, path), path[Len(path)])
  <2> USE <1>ResolveFacts
  <2> DEFINE m == Len(path)
  <2>1. Roots(table) # {} /\ Lowest(Roots(table)) = 0
    BY <1>RootIsZero
  <2>2. PICK f : Walk(d, table, path, m, f) /\ resolve_path(d, table, path) = f[m]
    BY <2>1, <1>ResolveIs
  <2> DEFINE P(k) == f[k] # None =>
                       /\ f[k] \in G
                       /\ k < m => table[f[k]].type # "FILE"
                       /\ k > 0 => Found(d, table, G, f[k], path[k])
  <2> DEFINE Bad == {k \in 0 .. m : ~ P(k)}
  <2>3. f[0] = 0
    BY <2>1, <2>2, SMTT(60) DEF Walk
  <2>4. P(0)
    <3>1. 0 \in G /\ table[0].type # "FILE"
      BY DEF Good
    <3>2. QED
      BY <2>3, <3>1, SMTT(60)
  <2>5. ASSUME NEW k \in 1 .. m, P(k - 1) PROVE P(k)
    <3>0. k \in 0 .. m /\ k # 0 /\ k - 1 < m
      BY SMTT(60)
    <3>1. f[k] = IF f[k - 1] = None THEN None
                 ELSE Lookup(d, table, f[k - 1], path[k], k = m)
      BY <2>2, <3>0 DEF Walk
    <3>2. SUFFICES ASSUME f[k] # None PROVE P(k)
      OBVIOUS
    <3> DEFINE dir == f[k - 1]
    <3>3. dir \in G /\ table[dir].type # "FILE"
      BY <2>5, <3>0, <3>1, <3>2
    <3>4. f[k] = Lookup(d, table, dir, path[k], k = m)
      BY <3>1, <3>2
    <3> DEFINE n == table[dir].size
    <3>5. n \in Nat /\ Entries(d, table, dir) \in [1 .. n -> Cell]
      BY <3>3 DEF Good, Entry
    <3> HIDE DEF dir, n
    <3>6. PICK j \in 1 .. n : /\ f[k] = Entries(d, table, dir)[j].idx
                              /\ Entries(d, table, dir)[j].name = path[k]
                              /\ table[Entries(d, table, dir)[j].idx].used
                              /\ k = m \/ table[Entries(d, table, dir)[j].idx].type = "DIRECTORY"
      <4>1. PICK last \in BOOLEAN : last <=> k = m
        OBVIOUS
      <4>2. Lookup(d, table, dir, path[k], k = m) = Lookup(d, table, dir, path[k], last)
        BY <4>1 DEF Lookup
      <4>3. Lookup(d, table, dir, path[k], last) # None
        BY <3>2, <3>4, <4>2
      <4>4. PICK j \in 1 .. n : Hit(d, table, dir, path[k], last,
                                    Lookup(d, table, dir, path[k], last), j)
        BY <3>5, <4>3, <1>LookupFacts
      <4>5. QED
        BY <3>4, <4>1, <4>2, <4>4 DEF Hit
    <3>7. f[k] \in G
      BY <3>3, <3>6 DEF Good, n
    <3>8. k < m => table[f[k]].type # "FILE"
      BY <3>6, SMTT(60)
    <3>9. Found(d, table, G, f[k], path[k])
      BY <3>3, <3>6 DEF Found, n
    <3>10. QED
      BY <3>7, <3>8, <3>9
  <2>6. ASSUME Bad # {} PROVE FALSE
    <3>1. Bad \in SUBSET Nat
      BY SMTT(60)
    <3>2. PICK k \in Bad : \A j \in Bad : k <= j
      BY <2>6, <3>1, LowestFacts
    <3>3. k # 0
      BY <2>4, <3>2
    <3>4. k \in 1 .. m /\ k - 1 \in 0 .. m /\ k - 1 \notin Bad
      BY <3>2, <3>3, SMTT(60)
    <3>5. P(k - 1)
      BY <3>4
    <3>6. QED
      BY <2>5, <3>2, <3>4, <3>5
  <2>7. P(m)
    BY <2>6, SMTT(60)
  <2>8. QED
    BY <2>2, <2>3, <2>7
<1> SUFFICES ASSUME NEW d, DiskSane(d), NEW table, NEW G, Good(d, table, G),
                \A j \in G : d.table[j].used /\ table[j] = d.table[j],
                NEW path, Len(path) \in Nat, NEW x, x = resolve_path(d, table, path), x # None
         PROVE  x \in G /\ x \in Slots /\ table[x].used /\ (x = 0 <=> Len(path) = 0)
  BY SMTT(60)
<1>1. /\ x \in G
      /\ Len(path) = 0 => x = 0
      /\ Len(path) > 0 => Found(d, table, G, x, path[Len(path)])
  BY <1>ResolveFacts
<1>2. x \in Slots /\ table[x].used
  BY <1>1 DEF Good
<1>3. ASSUME Len(path) > 0 PROVE x # 0
  <2>1. PICK j \in G : /\ table[j].type # "FILE"
                       /\ \E k \in 1 .. table[j].size : Entries(d, table, j)[k].idx = x
    BY <1>1, <1>3 DEF Found
  <2>2. PICK k \in 1 .. table[j].size : Entries(d, table, j)[k].idx = x
    BY <2>1
  <2>3. j \in Slots /\ table[j] = d.table[j] /\ d.table[j].used
    BY DEF Good
  <2>4. Lists(d, d.table)[j][k].idx = x
    BY <2>2, <2>3 DEF Lists, Entries
  <2>5. QED
    BY <2>1, <2>3, <2>4, SaneEntry, SMTT(60) DEF DiskSane
<1>4. QED
  BY <1>1, <1>2, <1>3, SMTT(60)

\* On the disk's own table.
LEMMA ResolvedOnDisk ==
    ASSUME NEW d, DiskSane(d), NEW path, Len(path) \in Nat,
           NEW x, x = resolve_path(d, d.table, path), x # None
    PROVE  x \in Slots /\ d.table[x].used /\ (x = 0 <=> Len(path) = 0)
<1> DEFINE G == {j \in Slots : d.table[j].used}
<1>1. /\ d.table \in [Slots -> Entry] /\ 0 \in G
      /\ \A j \in Slots : d.table[j].used /\ d.table[j].type = "ROOT_DIRECTORY" => j = 0
  BY FileSystemAssumption, SMTT(60) DEF DiskSane, Sane, Rooted, Slots
<1>2. Good(d, d.table, G)
  BY <1>1, GoodFacts
<1>3. \A j \in G : d.table[j].used
  OBVIOUS
<1> HIDE DEF G
<1>4. QED
  BY <1>2, <1>3, Resolved, SMTT(60)

\* A file of the disk that an operation does not touch.
LEMMA Untouched ==
    ASSUME NEW t, NEW L, NEW t2, NEW L2, NEW p, NEW dir, NEW K, NEW i,
           NEW j, NEW k \in 1 .. t[j].size,
           t[j].used, t2[j].type = t[j].type, L2[j][k].idx = L[j][k].idx, p[j][k] = k,
           L[j][k].idx # 0 => t2[L[j][k].idx].used
    PROVE  Origin(t, L, t2, L2, p, dir, K, i, j, k)
BY DEF Origin

\* The entries of dir, with one of i behind them; what does not come back from
\* the disk is no entry.
Added(t, L, L2, dir, i) ==
    LET n == t[dir].size
    IN  /\ \A k \in 1 .. n : L2[dir][k].idx \in {L[dir][k].idx, 0}
        /\ L2[dir][n + 1].idx \in {i, 0}
        /\ CeilDiv(n + 1) < COUNT_MOD =>
             /\ \A k \in 1 .. n : L2[dir][k].idx = L[dir][k].idx
             /\ L2[dir][n + 1].idx = i

\* The files of t are those of t2, but dir has one entry more and i may be new.
Grown(t, L, t2, L2, dir, i) ==
    /\ Rooted(t2) /\ Reads(t2, L2)
    /\ t2[dir].type = t[dir].type /\ t2[dir].size = t[dir].size + 1
    /\ \A j \in Slots \ {dir} :
         t[j].used => t2[j].type = t[j].type /\ t2[j].size = t[j].size /\ L2[j] = L[j]
    /\ \A j \in Slots : t[j].used => t2[j].used
    /\ t2[i].used
    /\ \A j \in Slots : t2[j].used /\ ~ t[j].used =>
         \A k \in 1 .. t2[j].size : L2[j][k].idx = 0 /\ t2[j].type = "FILE"

\* A directory that gets an entry of a file that had none.
LEMMA AddedSane ==
    ASSUME NEW t, NEW L, Sane(t, L), NEW t2, NEW L2, NEW dir \in Slots, t[dir].used,
           NEW i \in Slots \ {0}, Unlisted(t, L, i),
           Grown(t, L, t2, L2, dir, i), Added(t, L, L2, dir, i)
    PROVE  Sane(t2, L2)
<1> DEFINE n == t[dir].size
<1> DEFINE p == [j \in Slots |-> [k \in Nat |-> k]]
<1>0. n \in Nat
  BY DEF Sane, Rooted, Entry
<1>1. /\ Rooted(t2) /\ Reads(t2, L2)
      /\ t2 \in [Slots -> Entry]
      /\ \A j \in Slots : t[j].used => t2[j].type = t[j].type
      /\ t2[dir].size = n + 1 /\ t2[i].used
      /\ \A j \in Slots : t[j].used => t2[j].used
  BY DEF Grown, Rooted
<1>2. \A j \in Slots : \A k \in 1 .. t2[j].size : p[j][k] = k
  <2>1. \A j \in Slots : t2[j].size \in Nat
    BY <1>1 DEF Entry
  <2>2. QED
    BY <2>1, SMTT(60)
<1> HIDE DEF p
<1>3. ASSUME NEW j \in Slots, t[j].used, NEW k \in 1 .. t[j].size, k \in 1 .. t2[j].size,
             L2[j][k].idx = L[j][k].idx
      PROVE  Origin(t, L, t2, L2, p, dir, n + 1, i, j, k)
  <2>1. L[j][k].idx \in Slots /\ (L[j][k].idx # 0 => t[L[j][k].idx].used)
    BY <1>3, SaneEntry
  <2>2. L[j][k].idx # 0 => t2[L[j][k].idx].used
    BY <1>1, <2>1
  <2>3. t2[j].type = t[j].type /\ p[j][k] = k
    BY <1>1, <1>2, <1>3
  <2>4. QED
    BY <1>3, <2>2, <2>3, Untouched
<1>4. ASSUME NEW j \in Slots, t2[j].used, NEW k \in 1 .. t2[j].size
      PROVE  Origin(t, L, t2, L2, p, dir, n + 1, i, j, k)
  <2>1. CASE ~ t[j].used
    BY <1>4, <2>1 DEF Grown, Origin
  <2>2. CASE t[j].used /\ j # dir
    <3>1. k \in 1 .. t[j].size /\ L2[j] = L[j]
      BY <1>4, <2>2 DEF Grown
    <3>2. QED
      BY <1>3, <1>4, <2>2, <3>1
  <2>3. CASE j = dir
    <3>1. k \in 1 .. n \/ k = n + 1
      BY <1>0, <1>1, <1>4, <2>3, SMTT(60)
    <3>2. CASE L2[j][k].idx = 0 /\ t[j].type = "FILE"
      BY <1>1, <2>3, <3>2 DEF Origin
    <3>3. CASE k \in 1 .. n /\ L2[dir][k].idx = L[dir][k].idx
      BY <1>3, <1>4, <2>3, <3>3
    <3>4. CASE k = n + 1 /\ L2[dir][k].idx = i
      BY <1>1, <2>3, <3>4 DEF Origin
    <3>5. CASE t[dir].type # "FILE"
      <4>1. CeilDiv(n + 1) < COUNT_MOD
        BY <3>5, DirectoryFits
      <4>2. QED
        BY <3>1, <3>3, <3>4, <4>1 DEF Added
    <3>6. QED
      BY <2>3, <3>1, <3>2, <3>3, <3>4, <3>5 DEF Added
  <2>4. QED
    BY <2>1, <2>2, <2>3
<1>5. AllOrigins(t, L, t2, L2, p, dir, n + 1, i)
  BY <1>2, <1>4 DEF AllOrigins
<1>6. QED
  BY <1>1, <1>5, Relisted

\* The entries of dir without the one at P.
Dropped(t, L, L2, dir, P) ==
    LET n == t[dir].size
    IN  /\ P \in 1 .. n
        /\ \A k \in 1 .. n - 1 : L2[dir][k].idx \in {L[dir][Skip(P, k)].idx, 0}
        /\ CeilDiv(n - 1) < COUNT_MOD =>
             \A k \in 1 .. n - 1 : L2[dir][k].idx = L[dir][Skip(P, k)].idx

\* The files of t2 are those of t without F, and dir has one entry less.
Shrunk(t, L, t2, L2, dir, F) ==
    /\ Rooted(t2) /\ Reads(t2, L2)
    /\ \A j \in Slots : t2[j].used => t[j].used /\ t2[j].type = t[j].type
    /\ \A j \in Slots \ {dir} : t2[j].used => t2[j].size = t[j].size /\ L2[j] = L[j]
    /\ t2[dir].size = t[dir].size - 1
    /\ \A j \in Slots \ F : t[j].used => t2[j].used

\* No file that stays has an entry of a freed slot, but for the one at P of dir.
Cut(t, L, t2, dir, P, F) ==
    \A j \in Slots : t2[j].used =>
      \A k \in 1 .. t[j].size : L[j][k].idx \in F => j = dir /\ k = P

\* A directory that loses an entry, and files that are freed.
LEMMA DroppedSane ==
    ASSUME NEW t, NEW L, Sane(t, L), NEW t2, NEW L2, NEW dir \in Slots, t[dir].used,
           NEW P, NEW F, Dropped(t, L, L2, dir, P), Shrunk(t, L, t2, L2, dir, F),
           Cut(t, L, t2, dir, P, F)
    PROVE  /\ Sane(t2, L2)
           /\ L[dir][P].idx # 0 => Unlisted(t2, L2, L[dir][P].idx)
<1> DEFINE n == t[dir].size
<1> DEFINE p == [j \in Slots |-> [k \in Nat |-> IF j = dir THEN Skip(P, k) ELSE k]]
<1>0. n \in Nat /\ P \in 1 .. n
  BY DEF Sane, Rooted, Entry, Dropped
<1>1. /\ Rooted(t2) /\ Reads(t2, L2) /\ t2 \in [Slots -> Entry]
      /\ \A j \in Slots : t2[j].used => t[j].used /\ t2[j].type = t[j].type
      /\ t2[dir].size = n - 1
      /\ \A j \in Slots \ {dir} : t2[j].used => t2[j].size = t[j].size /\ L2[j] = L[j]
  BY DEF Shrunk, Rooted
<1>2. \A j \in Slots : \A k \in 1 .. t2[j].size : p[j][k] = IF j = dir THEN Skip(P, k) ELSE k
  <2>1. \A j \in Slots : t2[j].size \in Nat
    BY <1>1 DEF Entry
  <2>2. QED
    BY <2>1, SMTT(60)
<1> HIDE DEF p
<1>3. /\ \A k \in 1 .. n - 1 : Skip(P, k) \in 1 .. n /\ Skip(P, k) # P
      /\ \A k, l \in 1 .. n - 1 : Skip(P, k) = Skip(P, l) => k = l
  BY <1>0, SMTT(60) DEF Skip
<1>4. ASSUME NEW j \in Slots, t2[j].used, NEW k \in 1 .. t2[j].size
      PROVE  /\ p[j][k] \in 1 .. t[j].size /\ ~ (j = dir /\ p[j][k] = P)
             /\ \/ L2[j][k].idx = L[j][p[j][k]].idx
                \/ L2[j][k].idx = 0 /\ t[j].type = "FILE"
  <2>1. CASE j # dir
    <3>1. k \in 1 .. t[j].size /\ L2[j] = L[j] /\ p[j][k] = k
      BY <1>1, <1>2, <1>4, <2>1
    <3>2. QED
      BY <2>1, <3>1
  <2>2. CASE j = dir
    <3>1. k \in 1 .. n - 1 /\ p[j][k] = Skip(P, k)
      BY <1>1, <1>2, <1>4, <2>2
    <3>2. Skip(P, k) \in 1 .. n /\ Skip(P, k) # P
      BY <1>3, <3>1
    <3>3. L2[dir][k].idx = L[dir][Skip(P, k)].idx \/ L2[dir][k].idx = 0
      BY <3>1 DEF Dropped
    <3>4. CASE t[dir].type # "FILE"
      <4>1. CeilDiv(n) < COUNT_MOD
        BY <3>4, DirectoryFits
      <4>2. n - 1 \in Nat /\ n - 1 <= n
        BY <1>0, SMTT(60)
      <4>3. CeilDiv(n - 1) <= CeilDiv(n) /\ CeilDiv(n - 1) \in Nat /\ CeilDiv(n) \in Nat
        BY <1>0, <4>2, CeilDivGrows, CeilDivFacts
      <4>4. CeilDiv(n - 1) < COUNT_MOD
        BY <4>1, <4>3, FileSystemAssumption, SMTT(60)
      <4>5. L2[dir][k].idx = L[dir][Skip(P, k)].idx
        BY <3>1, <4>4 DEF Dropped
      <4>6. QED
        BY <2>2, <3>1, <3>2, <4>5
    <3>5. QED
      BY <2>2, <3>1, <3>2, <3>3, <3>4
  <2>3. QED
    BY <2>1, <2>2
<1>5. ASSUME NEW j \in Slots, t2[j].used, NEW k \in 1 .. t2[j].size
      PROVE  Origin(t, L, t2, L2, p, None, 0, 0, j, k)
  <2>1. PICK m \in 1 .. t[j].size : m = p[j][k]
    BY <1>4, <1>5
  <2>2. t[j].used /\ t2[j].type = t[j].type
    BY <1>1, <1>5
  <2>3. CASE L2[j][k].idx = L[j][m].idx
    <3>1. PICK x \in Slots : x = L[j][m].idx
      BY <2>2, SaneEntry
    <3>2. x # 0 => t[x].used
      BY <2>2, <3>1, SaneEntry
    <3>3. x \notin F
      BY <1>4, <1>5, <2>1, <3>1 DEF Cut
    <3>4. x # 0 => t2[x].used
      BY <3>2, <3>3 DEF Shrunk
    <3>5. QED
      BY <2>1, <2>2, <2>3, <3>1, <3>4 DEF Origin
  <2>4. CASE L2[j][k].idx = 0 /\ t[j].type = "FILE"
    BY <2>2, <2>4 DEF Origin
  <2>5. QED
    BY <1>4, <1>5, <2>1, <2>3, <2>4
<1>6. ASSUME NEW j \in Slots, t2[j].used, NEW k \in 1 .. t2[j].size, NEW l \in 1 .. t2[j].size,
             p[j][k] = p[j][l]
      PROVE  k = l
  <2>1. CASE j # dir
    BY <1>2, <1>6, <2>1, SMTT(60)
  <2>2. CASE j = dir
    BY <1>1, <1>2, <1>3, <1>6, <2>2, SMTT(60)
  <2>3. QED
    BY <2>1, <2>2
<1>7. AllOrigins(t, L, t2, L2, p, None, 0, 0)
  BY <1>5, <1>6 DEF AllOrigins
<1>8. Sane(t2, L2)
  BY <1>1, <1>7, Relisted
<1>9. ASSUME L[dir][P].idx # 0, NEW j \in Slots, t2[j].used, NEW k \in 1 .. t2[j].size,
             L2[j][k].idx = L[dir][P].idx
      PROVE  FALSE
  <2>1. PICK m \in 1 .. t[j].size : m = p[j][k]
    BY <1>4, <1>9
  <2>2. L[j][m].idx = L[dir][P].idx /\ ~ (j = dir /\ m = P) /\ t[j].used
    BY <1>1, <1>4, <1>9, <2>1
  <2>3. QED
    BY <1>0, <1>9, <2>2, SMTT(60) DEF Sane, Once
<1>10. QED
  BY <1>8, <1>9 DEF Unlisted

\* A run over the disk, some of whose files it has freed in memory.
Subset(r) ==
    /\ RunOK(r) /\ r.disk = disk /\ r.table \in [Slots -> Entry] /\ r.table[0].used
    /\ \A j \in Slots : r.table[j].used => r.table[j] = disk.table[j]

\* The run q has taken the entry at P of dir from the run r.
TakenOut(r, q, dir, P) ==
    /\ q.ok = r.ok /\ q.disk.table = q.table /\ q.disk.data \in DataType
    /\ q.table \in [Slots -> Entry]
    /\ \A j \in Slots \ {dir} : q.table[j] = r.table[j]
    /\ q.table[dir].used /\ q.table[dir].type = disk.table[dir].type
    /\ q.table[dir].size = disk.table[dir].size - 1
    /\ \A j \in Slots \ {dir} :
         r.table[j].used => Lists(q.disk, q.table)[j] = Lists(disk, disk.table)[j]
    /\ Dropped(disk.table, Lists(disk, disk.table), Lists(q.disk, q.table), dir, P)

\* i is not the root, or dir a directory, which has no entry of the root.
NoRootEntry(dir, i) == i # 0 \/ disk.table[dir].type # "FILE"

\* The run q has taken the entry of i, which is not the root, from the run r.
TakenFrom(r, q, dir, i) ==
    \E P \in 1 .. disk.table[dir].size :
      /\ TakenOut(r, q, dir, P) /\ Lists(disk, disk.table)[dir][P].idx = i /\ i # 0
      /\ q.wild = FALSE
=============================================================================
