--------------------------- MODULE DirectoryProofs ---------------------------
(***************************************************************************)
(* Proofs about the directories of module FileSystem: for every disk, set  *)
(* of names and sequence of operations, while the machine stays on each    *)
(* entry of a directory is a file in use, and no file has two.             *)
(*                                                                         *)
(* A disk is in order (DiskSane) when slot 0 is the root and no other, the *)
(* entries that files hold, regular files used as directories included,    *)
(* are of slots in use, and no slot has two of them.  An operation keeps   *)
(* that because every entry it leaves was there before, at a place of its  *)
(* own, or is the one it adds, of a file that had none (Relisted).         *)
(***************************************************************************)
EXTENDS FileSystemProofs

\* Steps are first-order reasoning unless they name another prover.
USE ZenonT(60)

\* filesystem_write_file on a file that exists: it has no entries any more.
LEMMA RewriteSane ==
    ASSUME DiskSane(disk), NEW i \in Slots, disk.table[i].used, disk.table[i].type = "FILE",
           NEW n \in Nat, NEW cells \in [1 .. n -> Cell], Len(cells) = n,
           \A k \in 1 .. n : cells[k].idx = 0
    PROVE  DiskSane(edit_file(Begin, i, cells).disk)
<1> DEFINE q == edit_file(Begin, i, cells)
<1> DEFINE t == disk.table
<1> DEFINE L == Lists(disk, disk.table)
<1>1. DiskOK(disk) /\ disk.data \in DataType /\ Sane(t, L) /\ t \in [Slots -> Entry]
  BY DEF DiskSane, Sane, Rooted
<1>2. RunOK(Begin) /\ RunOK(q)
  BY <1>1, BeginOK, EditOK
<1>3. CASE Space([Begin.table EXCEPT ![i].used = FALSE], Len(cells)) = {}
  <2>1. q = [Begin EXCEPT !.ok = FALSE]
    BY <1>3, EditFails
  <2>2. q.disk = disk
    BY <1>2, <2>1, BeginIs, OutcomeIs, SMTT(60)
  <2>3. QED
    BY <2>2
<1>4. CASE Space([Begin.table EXCEPT ![i].used = FALSE], Len(cells)) # {}
  <2>1. Edited(Begin, q, i, n, cells)
    BY <1>1, <1>2, <1>4, BeginIs, EditReads
  <2> HIDE DEF q, t
  <2> DEFINE t2 == q.table
  <2> DEFINE L2 == Lists(q.disk, q.table)
  <2> DEFINE p == [j \in Slots |-> [k \in Nat |-> k]]
  <2>2. /\ q.disk = [table |-> t2, data |-> q.disk.data] /\ q.disk.data \in DataType
        /\ t2 \in [Slots -> Entry]
        /\ \A j \in Slots \ {i} : t2[j] = t[j]
        /\ t2[i].used /\ t2[i].type = t[i].type /\ t2[i].size = n
    BY <2>1, BeginIs DEF Edited, t
  <2>3. /\ \A j \in Slots \ {i} : t[j].used => L2[j] = L[j]
        /\ \A k \in 1 .. n : L2[i][k] \in {cells[k], Unread}
    BY <2>1, BeginIs DEF Edited, t, Lists
  <2>4. Reads(t2, L2)
    BY <2>2, ListsType, SMTT(60) DEF Reads
  <2> HIDE DEF L2, L, t2
  <2>5. /\ \A j \in Slots : t2[j].used <=> t[j].used
        /\ \A j \in Slots : t2[j].type = t[j].type
    BY <2>2 DEF t
  <2>5a. Rooted(t2)
    <3>1. Rooted(t) /\ 0 \in Slots /\ t[0].used
      BY <1>1, FileSystemAssumption, SMTT(60) DEF Sane, Rooted, Slots
    <3>2. QED
      BY <2>2, <2>5, <3>1, RootedAs
  <2>6. \A j \in Slots : \A k \in 1 .. t2[j].size : p[j][k] = k
    <3>1. \A j \in Slots : t2[j].size \in Nat
      BY <2>2 DEF Entry
    <3>2. QED
      BY <3>1, SMTT(60)
  <2> HIDE DEF p
  <2>7. ASSUME NEW j \in Slots, t2[j].used, NEW k \in 1 .. t2[j].size
        PROVE  Origin(t, L, t2, L2, p, None, 0, 0, j, k)
    <3>1. CASE j = i
      <4>1. L2[i][k].idx = 0
        BY <2>2, <2>3, <2>7, <3>1, CellFacts
      <4>2. QED
        BY <2>2, <3>1, <4>1 DEF Origin, t
    <3>2. CASE j # i
      <4>1. t[j].used /\ t2[j] = t[j] /\ L2[j] = L[j] /\ k \in 1 .. t[j].size /\ p[j][k] = k
        BY <2>2, <2>3, <2>5, <2>6, <2>7, <3>2
      <4>2. L[j][k].idx # 0 => t[L[j][k].idx].used /\ L[j][k].idx \in Slots
        BY <1>1, <4>1, SaneEntry
      <4>3. L[j][k].idx # 0 => t2[L[j][k].idx].used
        BY <2>5, <4>2
      <4>4. QED
        BY <4>1, <4>3, Untouched
    <3>3. QED
      BY <3>1, <3>2
  <2>8. AllOrigins(t, L, t2, L2, p, None, 0, 0)
    BY <2>6, <2>7 DEF AllOrigins
  <2>9. Sane(t2, L2)
    BY <1>1, <2>4, <2>5a, <2>8, Relisted
  <2>10. q.disk.table = t2
    BY <2>2, SMTT(60)
  <2>11. DiskOK(q.disk)
    BY <1>2 DEF RunOK, q
  <2>12. QED
    BY <2>2, <2>9, <2>10, <2>11 DEF DiskSane, L2, t2, q
<1>5. QED
  BY <1>3, <1>4

\* filesystem_write_file on a path that leads nowhere.
LEMMA NewFileSane ==
    \A path, dir, name, r : \A n \in Nat : \A type \in {"FILE", "DIRECTORY"} : \A cells \in [1 .. n -> Cell] :
      (/\ DiskSane(disk)
       /\ Space(disk.table, n) # {}
       /\ FreeSlots(disk.table) # {}
       /\ Len(cells) = n
       /\ \A k \in 1 .. n : cells[k].idx = 0 /\ type = "FILE"
       /\ Len(path) \in Nat
       /\ dir = resolve_path(disk, NewTable(n, type), path)
       /\ dir # None
       /\ [name |-> name, idx |-> NewSlot] \in Cell
       /\ r = add_file_to_dir(Creating(n, type), dir, NewSlot, name)
       /\ r.ok)
      => DiskSane(SaveData(r, NewStart(n), cells).disk)
\* A run that creates a file before it has written anything.
<1>CreatingIs. ASSUME NEW n, NEW type
               PROVE  /\ Creating(n, type).table = NewTable(n, type) /\ Creating(n, type).disk = disk
                      /\ Creating(n, type).ok = TRUE /\ Creating(n, type).wild = FALSE
  BY <1>CreatingIs DEF Creating, Begin
\* A new file lies apart from the others of its table.
<1>FreeAround. ASSUME NEW table, TableOK(table), NEW i \in Slots, table[i].used, table[i].size > 0
               PROVE  FreeAt([table EXCEPT ![i].used = FALSE], table[i].start, CeilDiv(table[i].size))
  <2> USE <1>FreeAround
  <2> DEFINE rest == [table EXCEPT ![i].used = FALSE]
  <2>1. i \in Filled(table) /\ table \in [Slots -> Entry]
    BY DEF Filled, TableOK
  <2>2. /\ table[i].start \in Nat /\ table[i].start > FILE_TABLE_ENTRIES
        /\ End(table[i]) < SECTORS
    BY <2>1, FilledFacts
  <2>3. ASSUME NEW j \in Filled(rest)
        PROVE  j \in Filled(table) \ {i} /\ rest[j] = table[j]
    BY <2>1 DEF Filled, Entry
  <2> HIDE DEF rest
  <2>4. ASSUME NEW j \in Filled(rest)
        PROVE  End(rest[j]) <= table[i].start \/ End(table[i]) <= rest[j].start
    BY <2>1, <2>3 DEF TableOK, Apart
  <2>5. QED
    BY <2>2, <2>4 DEF FreeAt, End, rest
\* The directory of a new file is one of the files the disk has already.
<1>DirectoryIsOld. ASSUME DiskSane(disk), NEW n \in Nat, NEW type \in {"FILE", "DIRECTORY"},
                          Space(disk.table, n) # {}, FreeSlots(disk.table) # {},
                          NEW path, Len(path) \in Nat, NEW dir,
                          dir = resolve_path(disk, NewTable(n, type), path), dir # None
                   PROVE  dir \in Slots /\ disk.table[dir].used
  <2> USE <1>DirectoryIsOld
  <2> DEFINE table == NewTable(n, type)
  <2> DEFINE slot == NewSlot
  <2> DEFINE G == {j \in Slots : disk.table[j].used}
  <2>1. NewFacts(n, type, slot, NewStart(n), table)
    BY NewEntry DEF DiskSane
  <2> HIDE DEF table, slot
  <2>2. Rooted(disk.table) /\ 0 \in Slots
    BY FileSystemAssumption, SMTT(60) DEF DiskSane, Sane, Slots
  <2>3. \A j \in G : j # slot
    BY <2>1 DEF NewFacts
  <2>4. /\ table \in [Slots -> Entry] /\ 0 \in G
        /\ \A j \in G : disk.table[j].used /\ table[j] = disk.table[j]
        /\ \A j \in Slots : table[j].used /\ disk.table[j].used => j \in G
    BY <2>1, <2>2, <2>3 DEF NewFacts, Rooted
  <2>5. ASSUME NEW j \in Slots, table[j].used, table[j].type = "ROOT_DIRECTORY"
        PROVE  j = 0
    <3>1. j # slot
      BY <2>1, <2>5 DEF NewFacts
    <3>2. QED
      BY <2>1, <2>2, <2>5, <3>1 DEF NewFacts, Rooted
  <2> HIDE DEF G
  <2>6. G \in SUBSET Slots
    BY DEF G
  <2>7. Good(disk, table, G)
    BY <2>4, <2>5, <2>6, GoodFacts
  <2>8. dir \in G
    BY <2>4, <2>7, Resolved, SMTT(60) DEF table
  <2>9. QED
    BY <2>8 DEF G
\* The content of a new file is written.
<1> DEFINE Writes(r_, slot_, n_, cells_, q_) ==
      /\ RunOK(r_) /\ r_.disk.table = r_.table /\ r_.disk.data \in DataType
      /\ slot_ \in Slots /\ r_.table[slot_].used
      /\ n_ \in Nat /\ r_.table[slot_].size = n_
      /\ cells_ \in [1 .. n_ -> Cell] /\ Len(cells_) = n_
      /\ \A k \in 1 .. n_ : cells_[k].idx = 0
      /\ q_ = SaveData(r_, r_.table[slot_].start, cells_)
\* The other files read as before, and the new one has no entries.
<1> DEFINE Written(r_, slot_, n_, q_) ==
      /\ DiskOK(q_.disk) /\ q_.disk.table = r_.table /\ q_.disk.data \in DataType
      /\ \A j \in Slots \ {slot_} : r_.table[j].used =>
           Entries(q_.disk, r_.table, j) = Entries(r_.disk, r_.table, j)
      /\ \A k \in 1 .. n_ : Entries(q_.disk, r_.table, slot_)[k].idx = 0
<1> HIDE DEF Writes, Written
<1>NewFileReads. ASSUME NEW r, NEW slot, NEW n, NEW cells, NEW q, Writes(r, slot, n, cells, q)
                 PROVE  Written(r, slot, n, q)
  <2>0. /\ RunOK(r) /\ r.disk.table = r.table /\ r.disk.data \in DataType
        /\ slot \in Slots /\ r.table[slot].used
        /\ n \in Nat /\ r.table[slot].size = n
        /\ cells \in [1 .. n -> Cell] /\ Len(cells) = n
        /\ \A k \in 1 .. n : cells[k].idx = 0
        /\ q = SaveData(r, r.table[slot].start, cells)
    BY <1>NewFileReads DEF Writes
  <2> USE <2>0
  <2> DEFINE start == r.table[slot].start
  <2> DEFINE rest == [r.table EXCEPT ![slot].used = FALSE]
  <2> DEFINE data == WriteSectors(r.disk.data, start, cells)
  <2>1. TableOK(r.table) /\ r.table \in [Slots -> Entry] /\ start \in Nat
    BY DEF RunOK, TableOK, Entry
  <2>2. DiskOK(q.disk)
    BY SaveDataOK DEF RunOK
  <2>3. q.disk.table = r.table /\ q.disk.data = data
    BY SaveDataIs, SMTT(60)
  <2>4. data \in DataType
    BY <2>1, WriteType
  <2>5. /\ rest \in [Slots -> Entry]
        /\ \A j \in Slots : rest[j].used => rest[j] = r.table[j]
        /\ \A j \in Slots \ {slot} : rest[j] = r.table[j]
    BY <2>1 DEF Entry
  <2>6. n > 0 => FreeAt(rest, start, CeilDiv(n))
    BY <2>1, <1>FreeAround
  <2> HIDE DEF rest, start
  <2>7. TableOK(rest)
    BY <2>1, <2>5, FreeingKeepsTable
  <2>8. ASSUME NEW j \in Slots \ {slot}, r.table[j].used
        PROVE  Entries(q.disk, r.table, j) = Entries(r.disk, r.table, j)
    <3>1. rest[j] = r.table[j]
      BY <2>5
    <3>2. rest[j].used /\ j \in Slots /\ Room(rest, start, Len(cells))
      BY <2>1, <2>6, <2>8, <3>1 DEF Room
    <3>3. ReadSectors(data, rest[j].start, rest[j].size)
            = ReadSectors(r.disk.data, rest[j].start, rest[j].size)
      BY <2>7, <3>2, OthersRead, SMTT(60)
    <3>4. QED
      BY <2>3, <3>1, <3>3 DEF Entries
  <2>9. ASSUME NEW k \in 1 .. n
        PROVE  Entries(q.disk, r.table, slot)[k].idx = 0
    <3>1. ReadSectors(data, start, n)[k] \in {cells[k], Unread}
      BY <2>1, ReadWritten, SMTT(60)
    <3>2. Entries(q.disk, r.table, slot) = ReadSectors(data, start, n)
      BY <2>3 DEF Entries, start
    <3>3. QED
      BY <3>1, <3>2, CellFacts
  <2>10. QED
    BY <2>2, <2>3, <2>4, <2>8, <2>9 DEF Written
<1> SUFFICES ASSUME DiskSane(disk), NEW n \in Nat, NEW type \in {"FILE", "DIRECTORY"},
                Space(disk.table, n) # {}, FreeSlots(disk.table) # {},
                NEW cells \in [1 .. n -> Cell], Len(cells) = n,
                \A k \in 1 .. n : cells[k].idx = 0 /\ type = "FILE",
                NEW path, Len(path) \in Nat, NEW dir,
                dir = resolve_path(disk, NewTable(n, type), path), dir # None,
                NEW name, [name |-> name, idx |-> NewSlot] \in Cell,
                NEW r, r = add_file_to_dir(Creating(n, type), dir, NewSlot, name), r.ok
         PROVE  DiskSane(SaveData(r, NewStart(n), cells).disk)
  BY SMTT(60)
<1> DEFINE slot == NewSlot
<1> DEFINE r0 == Creating(n, type)
<1> DEFINE t == disk.table
<1> DEFINE L == Lists(disk, t)
<1> DEFINE q == SaveData(r, NewStart(n), cells)
<1> DEFINE t2 == r.table
<1> DEFINE L2 == Lists(q.disk, t2)
<1>1. DiskOK(disk) /\ disk.data \in DataType /\ Sane(t, L) /\ t \in [Slots -> Entry] /\ t[0].used
  BY DEF DiskSane, Sane, Rooted
<1>2. NewFacts(n, type, slot, NewStart(n), r0.table) /\ RunOK(r0)
  BY <1>1, NewEntry, <1>CreatingIs
<1>3. r0.disk = disk /\ r0.ok = TRUE
  BY <1>CreatingIs
<1>4. dir \in Slots /\ t[dir].used
  BY <1>DirectoryIsOld
<1>5. RunOK(r)
  BY <1>2, AddOK
<1> HIDE DEF slot, r0
<1>6. dir # slot /\ r0.table[dir] = t[dir] /\ slot \in Slots \ {0}
  BY <1>1, <1>2, <1>4 DEF NewFacts
<1>7. PICK c : /\ Edited(r0, r, dir, t[dir].size + 1, c)
               /\ \A k \in 1 .. t[dir].size : c[k] = Entries(disk, r0.table, dir)[k]
               /\ c[t[dir].size + 1] = [name |-> name, idx |-> slot]
  <2>1. \/ r = [r0 EXCEPT !.ok = FALSE]
        \/ \E c : /\ Edited(r0, r, dir, r0.table[dir].size + 1, c)
                  /\ \A k \in 1 .. r0.table[dir].size : c[k] = Entries(r0.disk, r0.table, dir)[k]
                  /\ c[r0.table[dir].size + 1] = [name |-> name, idx |-> slot]
    <3>1. r0.disk.data \in DataType /\ r0.table[dir].used
      BY <1>1, <1>3, <1>4, <1>6
    <3>2. r = add_file_to_dir(r0, dir, slot, name) /\ [name |-> name, idx |-> slot] \in Cell
      BY DEF r0, slot
    <3>3. QED
      BY <1>2, <1>4, <3>1, <3>2, AddReads, SMTT(60)
  <2>2. r # [r0 EXCEPT !.ok = FALSE]
    BY <1>2, OutcomeIs
  <2>3. QED
    BY <1>3, <1>6, <2>1, <2>2, SMTT(60)
<1>8. /\ r.disk.table = t2 /\ r.disk.data \in DataType /\ t2 \in [Slots -> Entry]
      /\ \A j \in Slots \ {dir} : t2[j] = r0.table[j]
      /\ t2[dir].used /\ t2[dir].type = t[dir].type /\ t2[dir].size = t[dir].size + 1
      /\ \A j \in Slots \ {dir} :
           r0.table[j].used => Entries(r.disk, t2, j) = Entries(disk, r0.table, j)
  <2>1. r.disk = [table |-> t2, data |-> r.disk.data]
    BY <1>7 DEF Edited
  <2>2. r.disk.table = t2
    BY <2>1, SMTT(60)
  <2>3. \A j \in Slots \ {dir} :
           r0.table[j].used => Entries(r.disk, t2, j) = Entries(r0.disk, r0.table, j)
    BY <1>7 DEF Edited
  <2>4. /\ r.disk.data \in DataType /\ t2 \in [Slots -> Entry]
        /\ \A j \in Slots \ {dir} : t2[j] = r0.table[j]
    BY <1>7 DEF Edited
  <2>5. t2[dir].used /\ t2[dir].type = r0.table[dir].type /\ t2[dir].size = t[dir].size + 1
    BY <1>7 DEF Edited
  <2> HIDE DEF t2
  <2>6. QED
    BY <1>3, <1>6, <2>2, <2>3, <2>4, <2>5
<1>9. \A j \in Slots \ {dir, slot} : t2[j] = t[j] /\ r0.table[j] = t[j]
  BY <1>2, <1>8, SMTT(60) DEF NewFacts
<1>10. /\ t2[slot].used /\ t2[slot].type = type /\ t2[slot].start = NewStart(n)
       /\ t2[slot].size = n /\ ~ t[slot].used
  BY <1>2, <1>6, <1>8, SMTT(60) DEF NewFacts
<1>11. /\ DiskOK(q.disk) /\ q.disk.table = t2 /\ q.disk.data \in DataType
       /\ \A j \in Slots \ {slot} : t2[j].used =>
            Entries(q.disk, t2, j) = Entries(r.disk, t2, j)
       /\ \A k \in 1 .. n : Entries(q.disk, t2, slot)[k].idx = 0
  <2>1. q = SaveData(r, r.table[slot].start, cells) /\ r.table[slot].size = n
    BY <1>10
  <2>2. slot \in Slots /\ r.table[slot].used /\ \A k \in 1 .. n : cells[k].idx = 0
    BY <1>6, <1>10
  <2>3. r.disk.table = r.table /\ r.disk.data \in DataType
    BY <1>8
  <2> HIDE DEF q
  <2>4. Writes(r, slot, n, cells, q)
    BY <1>5, <2>1, <2>2, <2>3 DEF Writes
  <2>5. Written(r, slot, n, q)
    BY <2>4, <1>NewFileReads
  <2>6. QED
    BY <2>5 DEF Written
<1> HIDE DEF q
<1>12. \A j \in Slots : L2[j] = Entries(q.disk, t2, j) /\ L[j] = Entries(disk, t, j)
  BY DEF Lists
<1>13. Reads(t2, L2)
  BY <1>8, <1>11, ListsType, SMTT(60) DEF Reads
<1>14. \A j \in Slots : r0.table[j] = t[j] => Entries(disk, r0.table, j) = L[j]
  BY <1>12 DEF Entries
<1> HIDE DEF t2, L2, L, t
<1>15. ASSUME NEW j \in Slots \ {dir}, t[j].used
       PROVE  t2[j] = t[j] /\ L2[j] = L[j]
  <2>1. j \in Slots \ {dir, slot}
    BY <1>10, <1>15
  <2>2. QED
    BY <1>8, <1>9, <1>11, <1>12, <1>14, <1>15, <2>1, SMTT(60)
<1>16. Rooted(t2)
  <2>1. Rooted(t) /\ 0 \in Slots
    BY <1>1, FileSystemAssumption, SMTT(60) DEF Sane, Slots
  <2>2. \A j \in Slots : \/ j = dir \/ j = slot \/ (j # dir /\ t2[j] = t[j])
    BY <1>9
  <2>3. \A j \in Slots : t2[j].used => \/ t[j].used /\ t2[j].type = t[j].type
                                       \/ j # 0 /\ t2[j].type # "ROOT_DIRECTORY"
    BY <1>4, <1>6, <1>8, <1>10, <2>2, SMTT(60)
  <2>4. t2[0].used
    BY <1>1, <1>8, <1>15, <2>1, SMTT(60)
  <2>5. t2 \in [Slots -> Entry]
    BY <1>8
  <2>6. QED
    BY <2>1, <2>3, <2>4, <2>5, RootedAs
<1>17. Grown(t, L, t2, L2, dir, slot)
  <2>1. \A j \in Slots : t[j].used => t2[j].used
    BY <1>8, <1>15, SMTT(60)
  <2>2. \A j \in Slots : t2[j].used /\ ~ t[j].used => j = slot
    BY <1>4, <1>9
  <2>3. \A k \in 1 .. n : L2[slot][k].idx = 0 /\ type = "FILE"
    BY <1>6, <1>11, <1>12
  <2>4. QED
    BY <1>8, <1>10, <1>13, <1>15, <1>16, <2>1, <2>2, <2>3, SMTT(60) DEF Grown
<1>18. Added(t, L, L2, dir, slot)
  <2>1. L2[dir] = Entries(r.disk, t2, dir)
    BY <1>4, <1>6, <1>8, <1>11, <1>12, SMTT(60)
  <2>2. \A k \in 1 .. t[dir].size + 1 :
           /\ L2[dir][k] \in {c[k], Unread}
           /\ CeilDiv(t[dir].size + 1) < COUNT_MOD => L2[dir][k] = c[k]
    BY <1>7, <2>1, SMTT(60) DEF Edited, t2
  <2>3. \A k \in 1 .. t[dir].size : c[k] = L[dir][k]
    BY <1>4, <1>6, <1>7, <1>14, SMTT(60)
  <2>4. c[t[dir].size + 1].idx = slot /\ Unread.idx = 0
    BY <1>7, CellFacts, SMTT(60)
  <2>5. t[dir].size \in Nat
    BY <1>1, <1>4 DEF Entry, t
  <2>6. /\ \A k \in 1 .. t[dir].size : k \in 1 .. t[dir].size + 1
        /\ t[dir].size + 1 \in 1 .. t[dir].size + 1
    BY <2>5, SMTT(60)
  <2>7. QED
    BY <2>2, <2>3, <2>4, <2>6, SMTT(60) DEF Added
<1>19. Unlisted(t, L, slot)
  BY <1>1, <1>6, <1>10, SaneEntry, SMTT(60) DEF Unlisted
<1>20. Sane(t2, L2)
  BY <1>1, <1>4, <1>6, <1>17, <1>18, <1>19, AddedSane DEF t
<1>21. QED
  BY <1>11, <1>20 DEF DiskSane, L2, q

\* remove_file_from_dir runs wild, or takes out the entry of i.
LEMMA TakesOut ==
    ASSUME DiskSane(disk), NEW r, Subset(r), NEW dir \in Slots, r.table[dir].used,
           NEW i, NoRootEntry(dir, i), NEW q, q = remove_file_from_dir(r, dir, i)
    PROVE  q.wild = TRUE \/ TakenFrom(r, q, dir, i)
<1> DEFINE t == disk.table
<1> DEFINE L == Lists(disk, disk.table)
<1> DEFINE n == t[dir].size
<1>1. disk.data \in DataType /\ Sane(t, L) /\ t \in [Slots -> Entry]
  BY DEF DiskSane, Sane, Rooted
<1>2. /\ RunOK(r) /\ r.disk = disk /\ r.table[dir] = t[dir] /\ t[dir].used
      /\ \A j \in Slots : r.table[j].used => Entries(disk, r.table, j) = L[j]
  BY DEF Subset, Lists, Entries
<1> HIDE DEF L
<1>3. \A k \in 1 .. n : i = 0 => L[dir][k].idx # i
  BY <1>1, <1>2, SaneEntry, SMTT(60) DEF NoRootEntry
<1>4. AtMostOne(L[dir], n, i)
  BY <1>1, <1>2, <1>3, SMTT(60) DEF Sane, Once, AtMostOne
<1>5. q.wild = TRUE \/ Removes(r, q, dir, i, L[dir], n)
  <2>1. Entries(r.disk, r.table, dir) = L[dir] /\ r.table[dir].size = n
    BY <1>2
  <2>2. r.disk.data \in DataType
    BY <1>1, <1>2
  <2>3. QED
    BY <1>2, <1>4, <2>1, <2>2, RemoveReads
<1>6. ASSUME NEW P \in 1 .. n, L[dir][P].idx = i, NEW cells,
             Edited(r, q, dir, n - 1, cells),
             \A k \in 1 .. n - 1 : cells[k] = L[dir][Skip(P, k)]
      PROVE  TakenOut(r, q, dir, P)
  <2> DEFINE L2 == Lists(q.disk, q.table)
  <2>1. /\ q.ok = r.ok /\ q.disk = [table |-> q.table, data |-> q.disk.data]
        /\ q.disk.data \in DataType /\ q.table \in [Slots -> Entry]
        /\ \A j \in Slots \ {dir} : q.table[j] = r.table[j]
    BY <1>6 DEF Edited
  <2>2. q.table[dir].used /\ q.table[dir].type = t[dir].type /\ q.table[dir].size = n - 1
    BY <1>2, <1>6 DEF Edited
  <2>3. q.disk.table = q.table
    BY <2>1, SMTT(60)
  <2>4. \A j \in Slots : L2[j] = Entries(q.disk, q.table, j)
    BY DEF Lists
  <2>5. \A j \in Slots \ {dir} : r.table[j].used =>
           Entries(q.disk, q.table, j) = Entries(r.disk, r.table, j)
    BY <1>6 DEF Edited
  <2>6. \A k \in 1 .. n - 1 :
           /\ Entries(q.disk, q.table, dir)[k] \in {cells[k], Unread}
           /\ CeilDiv(n - 1) < COUNT_MOD => Entries(q.disk, q.table, dir)[k] = cells[k]
    BY <1>6 DEF Edited
  <2> HIDE DEF L2
  <2>7. \A j \in Slots \ {dir} : r.table[j].used => L2[j] = L[j]
    BY <1>2, <2>4, <2>5
  <2>8. Dropped(t, L, L2, dir, P)
    BY <1>6, <2>4, <2>6, CellFacts, SMTT(60) DEF Dropped
  <2>9. QED
    BY <2>1, <2>2, <2>3, <2>7, <2>8 DEF TakenOut, L, L2
<1>7. QED
  BY <1>3, <1>5, <1>6 DEF L, Removes, TakenFrom

\* Of the files that stay, only i may have entries of freed ones.
Sealed(r, i) ==
    \A j \in Slots \ {i} : r.table[j].used =>
      \A k \in 1 .. r.table[j].size :
         LET x == Lists(disk, disk.table)[j][k].idx IN x # 0 => r.table[x].used

\* Both deletions: i leaves its directory, then the table.
LEMMA UnlinkSane ==
    ASSUME DiskSane(disk), NEW r, Subset(r), NEW dir \in Slots, r.table[dir].used,
           NEW i \in Slots, NoRootEntry(dir, i), Sealed(r, i),
           NEW u, u = Unlink(r, dir, i)
    PROVE  u.wild = TRUE \/ DiskSane(u.disk)
<1> DEFINE q == remove_file_from_dir(r, dir, i)
<1> DEFINE t == disk.table
<1> DEFINE L == Lists(disk, disk.table)
<1>1. /\ Sane(t, L) /\ RunOK(r)
  BY DEF DiskSane, Subset
<1>2. RunOK(q) /\ RunOK(u) /\ RunOK(Fail)
  BY <1>1, RemoveOK, UnlinkOK, BeginOK DEF DiskSane
<1>3. u = IF q.ok THEN SaveTable(q, Without(q.table, {i})) ELSE [Fail EXCEPT !.wild = q.wild]
  BY DEF Unlink
<1>q. q = remove_file_from_dir(r, dir, i)
  OBVIOUS
<1> HIDE DEF q
<1>4. CASE ~ q.ok
  <2>1. u.disk = disk
    BY <1>2, <1>3, <1>4, OutcomeIs, BeginIs
  <2>2. QED
    BY <2>1
<1>5. CASE q.wild = TRUE
  BY <1>2, <1>3, <1>5, SaveTableIs, OutcomeIs, SMTT(60)
<1>6. ASSUME q.ok, NEW P \in 1 .. t[dir].size, TakenOut(r, q, dir, P), L[dir][P].idx = i, i # 0
      PROVE  DiskSane(u.disk)
  <2> DEFINE t2 == Without(q.table, {i})
  <2> DEFINE L2 == Lists(u.disk, t2)
  <2> DEFINE F == {j \in Slots : ~ r.table[j].used} \cup {i}
  <2>t. u = SaveTable(q, t2)
    BY <1>3, <1>6
  <2> HIDE DEF t2
  <2>1. u.disk = [table |-> t2, data |-> q.disk.data]
    BY <1>2, <2>t, SaveTableIs, SMTT(60)
  <2>2. /\ q.disk.data \in DataType /\ q.table \in [Slots -> Entry]
        /\ \A j \in Slots \ {dir} : q.table[j] = r.table[j]
        /\ q.table[dir].used /\ q.table[dir].type = t[dir].type
        /\ q.table[dir].size = t[dir].size - 1
        /\ \A j \in Slots \ {dir} : r.table[j].used => Lists(q.disk, q.table)[j] = L[j]
        /\ Dropped(t, L, Lists(q.disk, q.table), dir, P)
    BY <1>6 DEF TakenOut
  <2>3. /\ r.table[0].used /\ r.table[dir] = t[dir]
        /\ \A j \in Slots : r.table[j].used => r.table[j] = t[j]
    BY DEF Subset
  <2> HIDE DEF L
  <2>4. /\ t2 \in [Slots -> Entry]
        /\ \A j \in Slots : /\ t2[j].type = q.table[j].type /\ t2[j].size = q.table[j].size
                            /\ t2[j].start = q.table[j].start
                            /\ t2[j].used <=> q.table[j].used /\ j # i
    BY <2>2 DEF Without, Entry, t2
  <2>5. u.disk.table = t2 /\ u.disk.data = q.disk.data
    BY <2>1, SMTT(60)
  <2>6. \A j \in Slots : L2[j] = Lists(q.disk, q.table)[j]
    BY <2>4, <2>5 DEF Lists, Entries
  <2>7. Reads(t2, L2)
    BY <2>2, <2>4, <2>5, ListsRead
  <2> HIDE DEF L2
  <2>8. \A j \in Slots : t2[j].used =>
           /\ j # i /\ r.table[j].used /\ t[j].used /\ t2[j].type = t[j].type
    BY <2>2, <2>3, <2>4, SMTT(60)
  <2>9. Rooted(t2)
    <3>1. Rooted(t) /\ 0 \in Slots
      BY <1>1, FileSystemAssumption, SMTT(60) DEF Sane, Slots
    <3>2. t2[0].used
      BY <1>6, <2>2, <2>3, <2>4, <3>1
    <3>3. t2 \in [Slots -> Entry]
      BY <2>4
    <3>4. \A j \in Slots : t2[j].used => \/ t[j].used /\ t2[j].type = t[j].type
                                         \/ j # 0 /\ t2[j].type # "ROOT_DIRECTORY"
      BY <2>8
    <3>5. QED
      BY <3>1, <3>2, <3>3, <3>4, RootedAs
  <2>10. Shrunk(t, L, t2, L2, dir, F)
    <3>1. \A j \in Slots \ {dir} : t2[j].used => t2[j].size = t[j].size /\ L2[j] = L[j]
      BY <2>2, <2>3, <2>4, <2>6, <2>8, SMTT(60)
    <3>2. t2[dir].size = t[dir].size - 1
      BY <2>2, <2>4
    <3>3. \A j \in Slots \ F : t[j].used => t2[j].used
      BY <2>2, <2>3, <2>4
    <3>4. QED
      BY <2>7, <2>8, <2>9, <3>1, <3>2, <3>3 DEF Shrunk
  <2>11. Dropped(t, L, L2, dir, P)
    BY <2>2, <2>6 DEF Dropped
  <2>12. Cut(t, L, t2, dir, P, F)
    <3>1. SUFFICES ASSUME NEW j \in Slots, t2[j].used, NEW k \in 1 .. t[j].size,
                          L[j][k].idx \in F
                   PROVE  j = dir /\ k = P
      BY DEF Cut
    <3>2. j # i /\ r.table[j].used /\ t[j].used /\ r.table[j] = t[j]
      BY <2>3, <2>8, <3>1
    <3>3. PICK x \in Slots : x = L[j][k].idx
      BY <1>1, <3>2, SaneEntry
    <3>4. x # 0
      BY <1>6, <2>3, <3>1, <3>3
    <3>5. r.table[x].used
      BY <3>2, <3>3, <3>4 DEF Sealed, L
    <3>6. x = i
      BY <3>1, <3>3, <3>5
    <3>7. QED
      <4>1. t[dir].used /\ L[j][k].idx = L[dir][P].idx /\ L[j][k].idx # 0
        BY <1>6, <2>3, <3>3, <3>4, <3>6 DEF L
      <4>2. QED
        BY <1>1, <3>2, <4>1, SaneOnce, SMTT(60)
  <2>13. Sane(t2, L2)
    <3>1. t[dir].used
      BY <2>3
    <3>2. QED
      BY <1>1, <2>10, <2>11, <2>12, <3>1, DroppedSane
  <2>14. DiskOK(u.disk)
    BY <1>2 DEF RunOK
  <2>15. QED
    BY <2>2, <2>5, <2>13, <2>14 DEF DiskSane, L2
<1>7. q.wild = TRUE \/ TakenFrom(r, q, dir, i)
  BY <1>q, TakesOut
<1>8. QED
  BY <1>4, <1>5, <1>6, <1>7 DEF TakenFrom

\* What the paths of callers are made of.
LEMMA PathFacts ==
    ASSUME NEW path \in Seq(Names)
    PROVE  /\ Len(path) \in Nat /\ Len(DirPath(path)) \in Nat
           /\ Len(path) = 0 => Len(DirPath(path)) = 0
           /\ StoredName(path) \in Names \cup {""}
<1>1. Len(path) \in Nat /\ path \in [1 .. Len(path) -> Names] /\ (Len(path) = 0 <=> path = <<>>)
  BY SMTT(60)
<1>2. CASE path = <<>>
  BY <1>1, <1>2 DEF DirPath, StoredName
<1>3. CASE path # <<>>
  <2>1. Len(path) # 0 /\ Len(path) \in 1 .. Len(path) /\ Len(path) - 1 \in 1 - 1 .. Len(path)
    BY <1>1, <1>3, SMTT(60)
  <2>2. SubSeq(path, 1, Len(path) - 1) \in Seq(Names)
    BY <1>3, SMTT(60)
  <2>3. Len(DirPath(path)) \in Nat
    BY <1>3, <2>2, SMTT(60) DEF DirPath
  <2>4. Stored[path[Len(path)]] \in Names
    BY <1>1, <2>1, NamesAssumption
  <2>5. QED
    BY <1>1, <1>3, <2>1, <2>3, <2>4 DEF StoredName
<1>4. QED
  BY <1>2, <1>3

\* filesystem_delete_file.
LEMMA DeleteFileSane ==
    ASSUME DiskSane(disk), NEW path \in Seq(Names),
           NEW u, u = filesystem_delete_file(path)
    PROVE  u.wild = TRUE \/ DiskSane(u.disk)
<1> DEFINE i == resolve_path(disk, disk.table, path)
<1> DEFINE dir == resolve_path(disk, disk.table, DirPath(path))
<1>1. u = IF i = None \/ dir = None THEN Fail ELSE Unlink(Begin, dir, i)
  BY DEF filesystem_delete_file
<1>2. CASE i = None \/ dir = None
  BY <1>1, <1>2, BeginIs
<1>3. CASE i # None /\ dir # None
  <2>1. /\ i \in Slots /\ disk.table[i].used /\ (i = 0 <=> Len(path) = 0)
        /\ dir \in Slots /\ disk.table[dir].used /\ (dir = 0 <=> Len(DirPath(path)) = 0)
    <3>1. Len(path) \in Nat /\ Len(DirPath(path)) \in Nat
      BY PathFacts
    <3>2. i \in Slots /\ disk.table[i].used /\ (i = 0 <=> Len(path) = 0)
      BY <1>3, <3>1, ResolvedOnDisk, SMTT(60)
    <3>3. dir \in Slots /\ disk.table[dir].used /\ (dir = 0 <=> Len(DirPath(path)) = 0)
      BY <1>3, <3>1, ResolvedOnDisk, SMTT(60)
    <3>4. QED
      BY <3>2, <3>3
  <2>2. Sane(disk.table, Lists(disk, disk.table)) /\ DiskOK(disk)
    BY DEF DiskSane
  <2>3. Rooted(disk.table)
    BY <2>2 DEF Sane
  <2>4. NoRootEntry(dir, i)
    BY <2>1, <2>3, PathFacts DEF NoRootEntry, Rooted
  <2>5. Subset(Begin)
    BY <2>2, <2>3, BeginOK, BeginIs DEF Subset, Rooted
  <2>6. Sealed(Begin, i)
    BY <2>2, BeginIs, SaneEntry DEF Sealed
  <2> HIDE DEF i, dir
  <2>7. QED
    BY <1>1, <1>3, <2>1, <2>4, <2>5, <2>6, BeginIs, UnlinkSane
<1>4. QED
  BY <1>2, <1>3

-----------------------------------------------------------------------------
(* What delete_directory_entries_recursive frees                           *)

\* filesystem_delete_directory: no file that stays has an entry of a freed one.
LEMMA DeleteDirectorySane ==
    \A u : \A path \in Seq(Names) :
      (/\ DiskSane(disk)
       /\ u = filesystem_delete_directory(path))
      => u.wild = TRUE \/ DiskSane(u.disk)
\* The files in use that have an entry in i.
<1> DEFINE Children(i) ==
      {x \in Slots : /\ disk.table[x].used
                     /\ \E k \in 1 .. disk.table[i].size : Lists(disk, disk.table)[i][k].idx = x}
<1> HIDE DEF Children
\* A set of files that holds what its directories list.
<1> DEFINE Closed(S) == \A y \in S : disk.table[y].type = "DIRECTORY" => Children(y) \subseteq S
<1> HIDE DEF Closed
<1>NestedIs. ASSUME DiskSane(disk), NEW i \in Slots
             PROVE  Nested(i) = {j \in Slots : \A S \in SUBSET Slots :
                                                 Children(i) \subseteq S /\ Closed(S) => j \in S}
  <2> USE <1>NestedIs
  <2> DEFINE listed(m) == {Entries(disk, disk.table, m)[k].idx : k \in 1 .. disk.table[m].size}
  <2> DEFINE children == [m \in Slots |-> {j \in listed(m) : disk.table[j].used}]
  <2> DEFINE closed(S) == \A m \in S : disk.table[m].type = "DIRECTORY" => children[m] \subseteq S
  <2>1. Nested(i) = {j \in Slots : \A S \in SUBSET Slots :
                                      children[i] \subseteq S /\ closed(S) => j \in S}
    BY DEF Nested
  <2>2. ASSUME NEW m \in Slots PROVE children[m] = Children(m)
    <3> DEFINE e == Entries(disk, disk.table, m)
    <3>1. e \in [1 .. disk.table[m].size -> Cell] /\ Lists(disk, disk.table)[m] = e
      BY ListsType DEF DiskSane, Sane, Rooted
    <3> HIDE DEF e
    <3>2. \A k \in 1 .. disk.table[m].size : e[k].idx \in Slots
      BY <3>1, CellIndex
    <3>3. children[m] = {j \in {e[k].idx : k \in 1 .. disk.table[m].size} : disk.table[j].used}
      BY DEF e
    <3>4. QED
      BY <3>1, <3>2, <3>3 DEF Children
  <2> HIDE DEF children
  <2>3. \A S \in SUBSET Slots : closed(S) <=> Closed(S)
    BY <2>2 DEF Closed
  <2> HIDE DEF closed
  <2>4. QED
    BY <2>1, <2>2, <2>3
\* Everything below the directory i has an entry in it or in a directory below it;
\* the root is not below it.
<1>NestedFacts. ASSUME DiskSane(disk), NEW i \in Slots, disk.table[i].used, disk.table[i].type = "DIRECTORY"
                PROVE  /\ Nested(i) \subseteq Slots /\ 0 \notin Nested(i)
                       /\ \A x \in Nested(i) : \E m \in Nested(i) \cup {i} :
                            m \in Slots /\ disk.table[m].used /\ x \in Children(m)
  <2> USE <1>NestedFacts
  <2> DEFINE N == Nested(i)
  <2> DEFINE Dir(m) == m \in Slots /\ disk.table[m].used /\ disk.table[m].type = "DIRECTORY"
  <2> DEFINE S == {x \in N : \E m \in N \cup {i} : Dir(m) /\ x \in Children(m)}
  <2>1. N = {j \in Slots : \A T \in SUBSET Slots :
                              Children(i) \subseteq T /\ Closed(T) => j \in T}
    BY <1>NestedIs
  <2> HIDE DEF N
  <2>2. \A m : Children(m) \subseteq Slots /\ \A x \in Children(m) : disk.table[x].used
    BY DEF Children
  <2>3. N \subseteq Slots /\ Children(i) \subseteq N
    BY <2>1, <2>2
  <2>4. ASSUME NEW y \in N, disk.table[y].type = "DIRECTORY" PROVE Children(y) \subseteq N
    BY <2>1, <2>2, <2>4 DEF Closed
  <2>5. S \in SUBSET Slots /\ Children(i) \subseteq S
    BY <2>3
  <2>6. Closed(S)
    <3>1. SUFFICES ASSUME NEW y \in S, disk.table[y].type = "DIRECTORY", NEW x \in Children(y)
                   PROVE  x \in S
      BY DEF Closed
    <3>2. y \in N /\ x \in N /\ Dir(y)
      BY <2>2, <2>3, <2>4, <3>1
    <3>3. QED
      BY <3>2
  <2>7. N \subseteq S
    BY <2>1, <2>5, <2>6
  <2>8. ASSUME NEW m, Dir(m), 0 \in Children(m) PROVE FALSE
    <3>1. PICK k \in 1 .. disk.table[m].size : Lists(disk, disk.table)[m][k].idx = 0
      BY <2>8 DEF Children
    <3>2. QED
      BY <2>8, <3>1, SaneEntry DEF DiskSane
  <2>9. QED
    BY <2>3, <2>7, <2>8 DEF N
\* A path in a table some of whose files are freed leads to one of the others.
<1>ResolvedInSubset. ASSUME DiskSane(disk), NEW r, Subset(r), NEW path, Len(path) \in Nat,
                            NEW x, x = resolve_path(disk, r.table, path), x # None
                     PROVE  x \in Slots /\ r.table[x].used
  <2> USE <1>ResolvedInSubset
  <2> DEFINE G == {j \in Slots : r.table[j].used}
  <2>1. Rooted(disk.table) /\ disk.table \in [Slots -> Entry] /\ 0 \in Slots
    BY FileSystemAssumption, SMTT(60) DEF DiskSane, Sane, Rooted, Slots
  <2>2. /\ r.table \in [Slots -> Entry] /\ 0 \in G /\ G \in SUBSET Slots
        /\ \A j \in G : disk.table[j].used /\ r.table[j] = disk.table[j]
        /\ \A j \in Slots : r.table[j].used /\ disk.table[j].used => j \in G
    BY <2>1 DEF Subset
  <2>3. \A j \in Slots : r.table[j].used /\ r.table[j].type = "ROOT_DIRECTORY" => j = 0
    BY <2>1 DEF Subset, Rooted
  <2> HIDE DEF G
  <2>4. Good(disk, r.table, G)
    BY <2>2, <2>3, GoodFacts
  <2>5. x \in G
    BY <2>2, <2>4, Resolved, SMTT(60)
  <2>6. QED
    BY <2>5 DEF G
<1> SUFFICES ASSUME DiskSane(disk), NEW path \in Seq(Names),
                NEW u, u = filesystem_delete_directory(path)
         PROVE  u.wild = TRUE \/ DiskSane(u.disk)
  OBVIOUS
<1> DEFINE i == resolve_path(disk, disk.table, path)
<1> DEFINE table == Without(disk.table, Nested(i))
<1> DEFINE r == [Begin EXCEPT !.table = table]
<1> DEFINE dir == resolve_path(disk, table, DirPath(path))
<1> DEFINE t == disk.table
<1> DEFINE L == Lists(disk, disk.table)
<1>1. u = IF i = None \/ t[i].type # "DIRECTORY" \/ dir = None THEN Fail
          ELSE Unlink(r, dir, i)
  BY DEF filesystem_delete_directory
<1>2. CASE i = None \/ t[i].type # "DIRECTORY" \/ dir = None
  BY <1>1, <1>2, BeginIs
<1>3. CASE i # None /\ t[i].type = "DIRECTORY" /\ dir # None
  <2>1. Len(path) \in Nat /\ Len(DirPath(path)) \in Nat
    BY PathFacts
  <2>2. i \in Slots /\ t[i].used
    BY <1>3, <2>1, ResolvedOnDisk
  <2>3. Sane(t, L) /\ DiskOK(disk) /\ TableOK(t)
    BY DEF DiskSane, DiskOK
  <2>4. Rooted(t) /\ t \in [Slots -> Entry] /\ 0 \in Slots
    BY <2>3, FileSystemAssumption, SMTT(60) DEF Sane, Rooted, Slots
  <2>5. /\ Nested(i) \subseteq Slots /\ 0 \notin Nested(i)
        /\ \A x \in Nested(i) : \E m \in Nested(i) \cup {i} :
             m \in Slots /\ t[m].used /\ x \in Children(m)
    BY <1>3, <2>2, <1>NestedFacts
  <2> HIDE DEF i
  <2>6. /\ table \in [Slots -> Entry]
        /\ \A j \in Slots : table[j].used <=> t[j].used /\ j \notin Nested(i)
        /\ \A j \in Slots : table[j].used => table[j] = t[j]
    BY <2>4 DEF Without, Entry
  <2>7. TableOK(table)
    BY <2>3, WithoutKeepsTable
  <2> HIDE DEF table
  <2>8. RunOK(r) /\ r.disk = disk /\ r.table = table
    BY <2>3, <2>7, BeginOK DEF Begin
  <2> HIDE DEF r
  <2>9. Subset(r)
    BY <2>4, <2>5, <2>6, <2>8 DEF Subset, Rooted
  <2>10. dir \in Slots /\ r.table[dir].used
    BY <1>3, <2>1, <2>8, <2>9, <1>ResolvedInSubset
  <2>11. NoRootEntry(dir, i)
    BY <1>3, <2>2, <2>4 DEF NoRootEntry, Rooted
  <2>12. Sealed(r, i)
    <3>1. SUFFICES ASSUME NEW j \in Slots \ {i}, r.table[j].used,
                          NEW k \in 1 .. r.table[j].size, L[j][k].idx # 0
                   PROVE  r.table[L[j][k].idx].used
      BY DEF Sealed
    <3>2. t[j].used /\ k \in 1 .. t[j].size /\ j \notin Nested(i)
      BY <2>6, <2>8, <3>1
    <3>3. PICK x \in Slots : x = L[j][k].idx
      BY <2>3, <3>2, SaneEntry
    <3>4. t[x].used
      BY <2>3, <3>1, <3>2, <3>3, SaneEntry
    <3>5. x \notin Nested(i)
      <4>1. SUFFICES ASSUME x \in Nested(i) PROVE FALSE
        OBVIOUS
      <4>2. PICK m \in Nested(i) \cup {i} : m \in Slots /\ t[m].used /\ x \in Children(m)
        BY <2>5, <4>1
      <4>3. PICK l \in 1 .. t[m].size : L[m][l].idx = x
        BY <4>2 DEF Children
      <4>4. j = m
        BY <2>3, <3>1, <3>2, <3>3, <4>2, <4>3, SaneOnce, SMTT(60)
      <4>5. QED
        BY <3>2, <4>2, <4>4
    <3>6. QED
      BY <2>6, <2>8, <3>3, <3>4, <3>5
  <2> HIDE DEF dir
  <2>13. QED
    BY <1>1, <1>3, <2>2, <2>9, <2>10, <2>11, <2>12, UnlinkSane
<1>4. QED
  BY <1>2, <1>3

\* What add_file_to_dir appends.
LEMMA EntryCell ==
    ASSUME NEW path \in Seq(Names), NEW i \in Slots
    PROVE  [name |-> StoredName(path), idx |-> i] \in Cell
BY PathFacts DEF Cell

\* add_file_to_dir after a step that ran wild.
LEMMA AddKeepsWild ==
    ASSUME NEW r, RunOK(r), NEW dir, NEW i, NEW name
    PROVE  add_file_to_dir(r, dir, i, name).wild = r.wild
<1> DEFINE cells == Append(Entries(r.disk, r.table, dir), [name |-> name, idx |-> i])
<1> DEFINE s == CHOOSE s \in Space([r.table EXCEPT ![dir].used = FALSE], Len(cells)) : TRUE
<1> DEFINE table == [r.table EXCEPT ![dir].start = s, ![dir].size = Len(cells)]
<1>1. add_file_to_dir(r, dir, i, name) \in
        {[r EXCEPT !.ok = FALSE], SaveTable(SaveData(r, s, cells), table)}
  BY DEF add_file_to_dir, edit_file
<1> HIDE DEF cells, s, table
<1>2. [r EXCEPT !.ok = FALSE].wild = r.wild
  BY OutcomeIs
<1>3. RunOK(SaveData(r, s, cells)) /\ SaveData(r, s, cells).wild = r.wild
  BY SaveDataOK, SaveDataIs, SMTT(60)
<1>4. SaveTable(SaveData(r, s, cells), table).wild = r.wild
  BY <1>3, SaveTableIs, SMTT(60)
<1>5. QED
  BY <1>1, <1>2, <1>4

\* The disk a run leaves behind that wrote its table last.
LEMMA RunSane ==
    ASSUME NEW r, RunOK(r), r.disk.table = r.table, r.disk.data \in DataType,
           Sane(r.table, Lists(r.disk, r.table))
    PROVE  DiskSane(r.disk)
BY DEF DiskSane, RunOK

\* remove_file_from_dir on the disk: i has no entry any more.
LEMMA TakenSane ==
    ASSUME DiskSane(disk), NEW q, RunOK(q), NEW dir \in Slots, disk.table[dir].used,
           NEW i, TakenFrom(Begin, q, dir, i)
    PROVE  /\ q.disk.table = q.table /\ q.disk.data \in DataType
           /\ Sane(q.table, Lists(q.disk, q.table)) /\ Unlisted(q.table, Lists(q.disk, q.table), i)
           /\ \A j \in Slots : disk.table[j].used => q.table[j].used
<1> DEFINE t == disk.table
<1> DEFINE L == Lists(disk, disk.table)
<1> DEFINE t2 == q.table
<1> DEFINE L2 == Lists(q.disk, q.table)
<1>1. PICK P \in 1 .. t[dir].size : TakenOut(Begin, q, dir, P) /\ L[dir][P].idx = i /\ i # 0
  BY DEF TakenFrom
<1>2. /\ q.disk.table = t2 /\ q.disk.data \in DataType /\ t2 \in [Slots -> Entry]
      /\ \A j \in Slots \ {dir} : t2[j] = t[j]
      /\ t2[dir].used /\ t2[dir].type = t[dir].type /\ t2[dir].size = t[dir].size - 1
      /\ \A j \in Slots \ {dir} : t[j].used => L2[j] = L[j]
      /\ Dropped(t, L, L2, dir, P)
  BY <1>1, BeginIs DEF TakenOut
<1>3. Reads(t2, L2)
  BY <1>2, ListsRead
<1>4. Sane(t, L)
  BY DEF DiskSane
<1> HIDE DEF L, L2, t2
<1>5. \A j \in Slots : /\ t2[j].used => t[j].used /\ t2[j].type = t[j].type
                       /\ t[j].used => t2[j].used
  BY <1>2
<1>6. Rooted(t2)
  <2>1. Rooted(t) /\ 0 \in Slots /\ t[0].used
    BY <1>4, FileSystemAssumption, SMTT(60) DEF Sane, Rooted, Slots
  <2>2. t2[0].used /\ t2 \in [Slots -> Entry]
    BY <1>2, <1>5, <2>1
  <2>3. \A j \in Slots : t2[j].used => \/ t[j].used /\ t2[j].type = t[j].type
                                       \/ j # 0 /\ t2[j].type # "ROOT_DIRECTORY"
    BY <1>5
  <2>4. QED
    BY <2>1, <2>2, <2>3, RootedAs
<1>7. Shrunk(t, L, t2, L2, dir, {})
  <2>1. \A j \in Slots \ {dir} : t2[j].used => t2[j].size = t[j].size /\ L2[j] = L[j]
    BY <1>2, <1>5
  <2>2. QED
    BY <1>2, <1>3, <1>5, <1>6, <2>1 DEF Shrunk
<1>8. Cut(t, L, t2, dir, P, {})
  BY DEF Cut
<1>9. Sane(t2, L2) /\ (L[dir][P].idx # 0 => Unlisted(t2, L2, L[dir][P].idx))
  BY <1>2, <1>4, <1>7, <1>8, DroppedSane
<1>10. Unlisted(t2, L2, i)
  BY <1>1, <1>9 DEF L
<1>11. QED
  BY <1>2, <1>5, <1>9, <1>10 DEF L2, t2

\* add_file_to_dir of a file that has no entry.
LEMMA AddSane ==
    ASSUME NEW r, RunOK(r), r.disk.table = r.table, r.disk.data \in DataType,
           Sane(r.table, Lists(r.disk, r.table)),
           NEW i \in Slots \ {0}, r.table[i].used, Unlisted(r.table, Lists(r.disk, r.table), i),
           NEW dir \in Slots, r.table[dir].used,
           NEW name, [name |-> name, idx |-> i] \in Cell,
           NEW q, q = add_file_to_dir(r, dir, i, name)
    PROVE  DiskSane(q.disk)
<1> DEFINE t == r.table
<1> DEFINE L == Lists(r.disk, r.table)
<1> DEFINE n == t[dir].size
<1>1. CASE q = [r EXCEPT !.ok = FALSE]
  <2>1. q.disk = r.disk
    BY <1>1, OutcomeIs, SMTT(60)
  <2>2. QED
    BY <2>1, RunSane
<1>2. ASSUME NEW c, Edited(r, q, dir, n + 1, c),
             \A k \in 1 .. n : c[k] = Entries(r.disk, r.table, dir)[k],
             c[n + 1] = [name |-> name, idx |-> i]
      PROVE  DiskSane(q.disk)
  <2> DEFINE t2 == q.table
  <2> DEFINE L2 == Lists(q.disk, q.table)
  <2>1. /\ q.disk = [table |-> t2, data |-> q.disk.data] /\ q.disk.data \in DataType
        /\ t2 \in [Slots -> Entry]
        /\ \A j \in Slots \ {dir} : t2[j] = t[j]
        /\ t2[dir].used /\ t2[dir].type = t[dir].type /\ t2[dir].size = n + 1
    BY <1>2 DEF Edited
  <2>2. \A j \in Slots \ {dir} : t[j].used => L2[j] = L[j]
    BY <1>2 DEF Edited, Lists
  <2>3. \A k \in 1 .. n + 1 : /\ L2[dir][k] \in {c[k], Unread}
                              /\ CeilDiv(n + 1) < COUNT_MOD => L2[dir][k] = c[k]
    BY <1>2 DEF Edited, Lists
  <2>4. \A k \in 1 .. n : c[k] = L[dir][k]
    BY <1>2 DEF Lists
  <2>5. q.disk.table = t2
    BY <2>1, SMTT(60)
  <2>6. Reads(t2, L2)
    BY <2>1, ListsRead
  <2> HIDE DEF t2, L2, L
  <2>7. \A j \in Slots : /\ t2[j].used => t[j].used /\ t2[j].type = t[j].type
                         /\ t[j].used => t2[j].used
    BY <2>1
  <2>8. Rooted(t2)
    <3>1. Rooted(t) /\ 0 \in Slots /\ t[0].used
      BY FileSystemAssumption, SMTT(60) DEF Sane, Rooted, Slots
    <3>2. t2[0].used /\ t2 \in [Slots -> Entry]
      BY <2>1, <2>7, <3>1
    <3>3. \A j \in Slots : t2[j].used => \/ t[j].used /\ t2[j].type = t[j].type
                                         \/ j # 0 /\ t2[j].type # "ROOT_DIRECTORY"
      BY <2>7
    <3>4. QED
      BY <3>1, <3>2, <3>3, RootedAs
  <2>9. Grown(t, L, t2, L2, dir, i)
    BY <2>1, <2>2, <2>6, <2>7, <2>8 DEF Grown
  <2>10. Added(t, L, L2, dir, i)
    <3>1. n \in Nat
      BY DEF Sane, Rooted, Entry
    <3>2. /\ \A k \in 1 .. n : k \in 1 .. n + 1
          /\ n + 1 \in 1 .. n + 1
      BY <3>1, SMTT(60)
    <3>3. c[n + 1].idx = i /\ Unread.idx = 0
      BY <1>2, CellFacts, SMTT(60)
    <3>4. QED
      BY <2>3, <2>4, <3>2, <3>3, SMTT(60) DEF Added
  <2>11. Sane(t2, L2)
    BY <2>9, <2>10, AddedSane DEF L
  <2>12. RunOK(q)
    BY AddOK
  <2>13. QED
    BY <2>1, <2>5, <2>11, <2>12, RunSane DEF t2, L2
<1>3. QED
  BY <1>1, <1>2, AddReads, SMTT(60)

\* filesystem_move_file: a file that leaves one directory is entered in another, or
\* in none when that has no room.
LEMMA MoveFileSane ==
    ASSUME DiskSane(disk), NEW path \in Seq(Names), NEW new_path \in Seq(Names),
           NEW u, u = filesystem_move_file(path, new_path)
    PROVE  u.wild = TRUE \/ DiskSane(u.disk)
<1> DEFINE i == resolve_path(disk, disk.table, path)
<1> DEFINE dir == resolve_path(disk, disk.table, DirPath(path))
<1> DEFINE new_dir == resolve_path(disk, disk.table, DirPath(new_path))
<1> DEFINE removed == remove_file_from_dir(Begin, dir, i)
<1> DEFINE r == [removed EXCEPT !.ok = TRUE]
<1> DEFINE added == add_file_to_dir(r, new_dir, i, StoredName(new_path))
<1>1. u = IF i = None \/ dir = None \/ new_dir = None THEN Fail ELSE [added EXCEPT !.ok = TRUE]
  BY DEF filesystem_move_file
<1>2. CASE i = None \/ dir = None \/ new_dir = None
  BY <1>1, <1>2, BeginIs
<1>3. CASE i # None /\ dir # None /\ new_dir # None
  <2>1. /\ Len(path) \in Nat /\ Len(DirPath(path)) \in Nat /\ Len(DirPath(new_path)) \in Nat
        /\ Len(path) = 0 => Len(DirPath(path)) = 0
    BY PathFacts
  <2>2. i \in Slots /\ disk.table[i].used /\ (i = 0 <=> Len(path) = 0)
    BY <1>3, <2>1, ResolvedOnDisk, SMTT(60)
  <2>3. dir \in Slots /\ disk.table[dir].used /\ (dir = 0 <=> Len(DirPath(path)) = 0)
    BY <1>3, <2>1, ResolvedOnDisk, SMTT(60)
  <2>4. new_dir \in Slots /\ disk.table[new_dir].used
    BY <1>3, <2>1, ResolvedOnDisk
  <2> HIDE DEF i, dir, new_dir
  <2>5. DiskOK(disk) /\ Rooted(disk.table)
    BY DEF DiskSane, Sane
  <2>6. NoRootEntry(dir, i)
    BY <2>1, <2>2, <2>3, <2>5 DEF NoRootEntry, Rooted
  <2>7. Subset(Begin)
    BY <2>5, BeginOK, BeginIs DEF Subset, Rooted
  <2>8. Begin.table[dir].used
    BY <2>3, BeginIs
  <2>9. removed.wild = TRUE \/ TakenFrom(Begin, removed, dir, i)
    BY <2>3, <2>6, <2>7, <2>8, TakesOut
  <2>10. RunOK(removed)
    BY <2>5, BeginOK, RemoveOK
  <2> HIDE DEF removed
  <2>11. /\ RunOK(r) /\ r.table = removed.table /\ r.disk = removed.disk
         /\ r.wild = removed.wild
    <3>1. RunOK(r)
      BY <2>10, OutcomeOK
    <3>2. r = [table |-> removed.table, disk |-> removed.disk, seen |-> removed.seen,
               ok |-> TRUE, wild |-> removed.wild]
      BY <2>10, OutcomeIs
    <3> HIDE DEF r
    <3>3. QED
      BY <3>1, <3>2
  <2> HIDE DEF r
  <2>12. RunOK(added) /\ added.wild = r.wild
    BY <2>11, AddOK, AddKeepsWild, SMTT(60)
  <2>13. CASE removed.wild = TRUE
    <3>1. added.wild = TRUE
      BY <2>11, <2>12, <2>13
    <3> HIDE DEF added
    <3>2. u.wild = TRUE
      BY <1>1, <1>3, <2>12, <3>1, OutcomeIs
    <3>3. QED
      BY <3>2
  <2>14. CASE TakenFrom(Begin, removed, dir, i)
    <3>1. i \in Slots \ {0}
      BY <2>2, <2>14 DEF TakenFrom
    <3>2. /\ r.disk.table = r.table /\ r.disk.data \in DataType
          /\ Sane(r.table, Lists(r.disk, r.table)) /\ Unlisted(r.table, Lists(r.disk, r.table), i)
          /\ r.table[i].used /\ r.table[new_dir].used
      BY <2>2, <2>3, <2>4, <2>10, <2>11, <2>14, TakenSane
    <3>3. [name |-> StoredName(new_path), idx |-> i] \in Cell
      BY <2>2, EntryCell
    <3>4. DiskSane(added.disk)
      BY <2>4, <2>11, <3>1, <3>2, <3>3, AddSane
    <3> HIDE DEF added
    <3>5. u.disk = added.disk
      BY <1>1, <1>3, <2>12, OutcomeIs, SMTT(60)
    <3>6. QED
      BY <3>4, <3>5
  <2>15. QED
    BY <2>9, <2>13, <2>14
<1>4. QED
  BY <1>2, <1>3

\* filesystem_write_file.
LEMMA WriteFileSane ==
    ASSUME DiskSane(disk), NEW path \in Seq(Names), NEW type \in {"FILE", "DIRECTORY"},
           NEW n \in Nat, NEW cells \in [1 .. n -> Cell], Len(cells) = n,
           \A k \in 1 .. n : cells[k].idx = 0 /\ type = "FILE",
           NEW u, u = filesystem_write_file(path, type, cells)
    PROVE  DiskSane(u.disk)
<1> DEFINE i == resolve_path(disk, disk.table, path)
<1> DEFINE space == Space(disk.table, n)
<1> DEFINE dir == resolve_path(disk, NewTable(n, type), DirPath(path))
<1> DEFINE r == add_file_to_dir(Creating(n, type), dir, NewSlot, StoredName(path))
<1>1. u = IF i # None
          THEN IF disk.table[i].type = "FILE" THEN edit_file(Begin, i, cells) ELSE Fail
          ELSE IF space = {} \/ FreeSlots(disk.table) = {} \/ dir = None \/ ~ r.ok
               THEN Fail
               ELSE SaveData(r, NewStart(n), cells)
  BY SMTT(60) DEF filesystem_write_file, Creating, NewTable, NewSlot, NewStart
<1>2. Len(path) \in Nat /\ Len(DirPath(path)) \in Nat
  BY PathFacts
<1>3. DiskSane(Fail.disk)
  BY BeginIs
<1>4. CASE i # None /\ disk.table[i].type = "FILE"
  <2>1. i \in Slots /\ disk.table[i].used
    BY <1>2, <1>4, ResolvedOnDisk
  <2> HIDE DEF i
  <2>2. DiskSane(edit_file(Begin, i, cells).disk)
    BY <1>4, <2>1, RewriteSane
  <2>3. QED
    BY <1>1, <1>4, <2>2
<1>5. CASE i = None /\ space # {} /\ FreeSlots(disk.table) # {} /\ dir # None /\ r.ok
  <2>1. NewSlot \in Slots
    BY <1>5, NewEntry DEF DiskSane, NewFacts
  <2>2. [name |-> StoredName(path), idx |-> NewSlot] \in Cell
    BY <2>1, EntryCell
  <2> HIDE DEF r, dir
  <2>3. DiskSane(SaveData(r, NewStart(n), cells).disk)
    BY <1>2, <1>5, <2>2, NewFileSane DEF r, dir
  <2>4. QED
    BY <1>1, <1>5, <2>3
<1>6. QED
  BY <1>1, <1>3, <1>4, <1>5

\* What callers write are no entries.
LEMMA ContentsCells ==
    ASSUME NEW cells \in Contents
    PROVE  \E n \in Nat : /\ cells \in [1 .. n -> Cell] /\ Len(cells) = n
                          /\ \A k \in 1 .. n : cells[k].idx = 0
<1>1. PICK n \in Sizes, v \in Data : cells = [k \in 1 .. n |-> [name |-> v, idx |-> 0]]
  BY SMTT(60) DEF Contents
<1>2. n \in Nat /\ 0 \in Slots
  BY FileSystemAssumption, SMTT(60) DEF Slots
<1>3. [name |-> v, idx |-> 0] \in Cell
  BY <1>2 DEF Cell
<1>4. Len(cells) = n
  <2>1. cells = [k \in 1 .. n |-> cells[k]]
    BY <1>1
  <2>2. QED
    BY <1>2, <2>1, BlockLength
<1>5. QED
  BY <1>1, <1>2, <1>3, <1>4

\* An operation that runs to its end.
LEMMA CompleteSane ==
    ASSUME DiskSane(disk), NEW r, r.wild = TRUE \/ DiskSane(r.disk), Complete(r)
    PROVE  DiskSane(disk')
<1>1. disk' = IF r.wild THEN disk ELSE r.disk
  BY DEF Complete
<1>2. CASE r.wild
  <2>1. disk' = disk
    BY <1>1, <1>2
  <2>2. QED
    BY <2>1
<1>3. CASE ~ r.wild
  <2>1. disk' = r.disk /\ DiskSane(r.disk)
    BY <1>1, <1>3
  <2>2. QED
    BY <2>1
<1>4. QED
  BY <1>2, <1>3

LEMMA StepSane ==
    ASSUME DiskSane(disk), [Operation]_vars
    PROVE  DiskSane(disk')
<1>1. CASE UNCHANGED vars
  BY <1>1 DEF vars
<1>2. CASE Operation
  <2>1. PICK path \in Paths :
            \/ \E cells \in Contents : WriteFile(path, cells)
            \/ CreateDirectory(path)
            \/ DeleteFile(path)
            \/ DeleteDirectory(path)
            \/ \E new_path \in Paths : MoveFile(path, new_path)
    BY <1>2 DEF Operation
  <2>2. path \in Seq(Names) /\ \A new_path \in Paths : new_path \in Seq(Names)
    BY NamesAssumption
  <2>3. ASSUME NEW cells \in Contents, WriteFile(path, cells) PROVE DiskSane(disk')
    <3>1. PICK n \in Nat : /\ cells \in [1 .. n -> Cell] /\ Len(cells) = n
                           /\ \A k \in 1 .. n : cells[k].idx = 0
      BY <2>3, ContentsCells
    <3>2. \A k \in 1 .. n : cells[k].idx = 0 /\ "FILE" = "FILE"
      BY <3>1
    <3>3. DiskSane(filesystem_write_file(path, "FILE", cells).disk)
      BY <2>2, <3>1, <3>2, WriteFileSane
    <3>4. Complete(filesystem_write_file(path, "FILE", cells))
      BY <2>3 DEF WriteFile
    <3>5. QED
      BY <3>3, <3>4, CompleteSane
  <2>4. CASE CreateDirectory(path)
    <3>1. 0 \in Nat /\ <<>> \in [1 .. 0 -> Cell] /\ Len(<<>>) = 0
      BY SMTT(60)
    <3>2. \A k \in 1 .. 0 : <<>>[k].idx = 0 /\ "DIRECTORY" = "FILE"
      BY SMTT(60)
    <3>3. DiskSane(filesystem_write_file(path, "DIRECTORY", <<>>).disk)
      BY <2>2, <3>1, <3>2, WriteFileSane
    <3>4. Complete(filesystem_write_file(path, "DIRECTORY", <<>>))
      BY <2>4 DEF CreateDirectory
    <3>5. QED
      BY <3>3, <3>4, CompleteSane
  <2>5. CASE DeleteFile(path)
    <3>1. Complete(filesystem_delete_file(path))
      BY <2>5 DEF DeleteFile
    <3>2. QED
      BY <2>2, <3>1, DeleteFileSane, CompleteSane
  <2>6. CASE DeleteDirectory(path)
    <3>1. Complete(filesystem_delete_directory(path))
      BY <2>6 DEF DeleteDirectory
    <3>2. QED
      BY <2>2, <3>1, DeleteDirectorySane, CompleteSane
  <2>7. ASSUME NEW new_path \in Paths, MoveFile(path, new_path) PROVE DiskSane(disk')
    <3>1. Complete(filesystem_move_file(path, new_path))
      BY <2>7 DEF MoveFile
    <3>2. QED
      BY <2>2, <3>1, MoveFileSane, CompleteSane
  <2>8. QED
    BY <2>1, <2>3, <2>4, <2>5, <2>6, <2>7
<1>3. QED
  BY <1>1, <1>2

\* On a new disk the root has no entries.
LEMMA InitSane == Init => DiskSane(disk)
<1> SUFFICES ASSUME Init PROVE DiskSane(disk)
  OBVIOUS
<1> DEFINE blank == [i \in Slots |-> [used |-> FALSE, type |-> "FILE", start |-> 0, size |-> 0]]
<1> DEFINE data == [x \in 0 .. SECTORS - 1 |-> [k \in 1 .. SECTOR_SIZE |-> Zero]]
<1> DEFINE t == [i \in Slots |->
                   IF i = 0 THEN [used |-> TRUE, type |-> "ROOT_DIRECTORY",
                                  start |-> 1 + FILE_TABLE_SECTORS, size |-> 0]
                   ELSE [used |-> FALSE, type |-> "FILE", start |-> 0, size |-> 0]]
<1>1. DiskOK(disk)
  BY InitOK
<1>2. Roots(blank) = {}
  BY DEF Roots
<1>3. disk = ensure_root([table |-> blank, data |-> data])
  BY DEF Init
<1>4. data \in DataType
  BY CellFacts DEF DataType
<1>5. t \in [Slots -> Entry]
  BY FileSystemAssumption, SMTT(60) DEF Entry
<1>6. 0 \in Slots
  BY FileSystemAssumption, SMTT(60) DEF Slots
<1>7. t[0].used /\ t[0].type = "ROOT_DIRECTORY" /\ t[0].size = 0
  BY <1>6
<1>8. \A j \in Slots : t[j].used => j = 0
  OBVIOUS
<1> HIDE DEF blank, data
<1>9. disk.table = t /\ disk.data = data
  BY <1>2, <1>3 DEF ensure_root
<1> HIDE DEF t
<1> DEFINE L == Lists(disk, disk.table)
<1>10. Reads(t, L)
  BY <1>4, <1>5, <1>9, ListsRead
<1>11. Rooted(t)
  BY <1>5, <1>6, <1>7, <1>8 DEF Rooted
<1>12. \A j \in Slots : t[j].used => 1 .. t[j].size = {}
  BY <1>7, <1>8, SMTT(60)
<1> HIDE DEF L
<1>13. Entered(t, L) /\ Once(t, L)
  BY <1>12 DEF Entered, Once
<1>14. QED
  BY <1>1, <1>4, <1>9, <1>10, <1>11, <1>13 DEF DiskSane, Sane, L

\* A disk in order lists each file once.
LEMMA SaneListed == DiskSane(disk) => EachListedOnce
<1> SUFFICES ASSUME DiskSane(disk) PROVE EachListedOnce
  OBVIOUS
<1> DEFINE t == disk.table
<1> DEFINE L == Lists(disk, disk.table)
<1>1. Sane(t, L) /\ Rooted(t) /\ t \in [Slots -> Entry]
  BY DEF DiskSane, Sane, Rooted
<1>2. disk \in Disk
  <2>1. disk = [table |-> t, data |-> disk.data] /\ disk.data \in DataType
    BY DEF DiskSane, DiskOK
  <2>2. QED
    BY <1>1, <2>1 DEF Disk, DataType
<1>3. ASSUME NEW l \in Listings
      PROVE  \E j \in Slots : \E k \in 1 .. t[j].size :
                /\ l = <<j, k>> /\ Listed(l) = L[j][k].idx
                /\ t[j].used /\ t[j].type # "FILE"
  <2>1. PICK j \in Directories : l \in {<<j, k>> : k \in 1 .. t[j].size}
    BY <1>3 DEF Listings
  <2>2. PICK k \in 1 .. t[j].size : l = <<j, k>>
    BY <2>1
  <2>3. j \in Slots /\ t[j].used /\ t[j].type # "FILE"
    BY <2>1 DEF Directories
  <2>4. Listed(l) = L[j][k].idx
    BY <2>2, <2>3 DEF Listed, Lists
  <2>5. QED
    BY <2>2, <2>3, <2>4
<1> HIDE DEF L
<1>4. ASSUME NEW l \in Listings
      PROVE  t[Listed(l)].used /\ t[Listed(l)].type # "ROOT_DIRECTORY"
  <2>1. PICK j \in Slots : \E k \in 1 .. t[j].size :
                /\ Listed(l) = L[j][k].idx /\ t[j].used /\ t[j].type # "FILE"
    BY <1>3, <1>4
  <2>2. PICK k \in 1 .. t[j].size : Listed(l) = L[j][k].idx
    BY <2>1
  <2>3. Listed(l) \in Slots /\ Listed(l) # 0 /\ t[Listed(l)].used
    BY <1>1, <2>1, <2>2, SaneEntry
  <2>4. QED
    BY <1>1, <2>3 DEF Rooted
<1>5. ASSUME NEW l \in Listings, NEW m \in Listings, Listed(l) = Listed(m) PROVE l = m
  <2>1. PICK j \in Slots : \E k \in 1 .. t[j].size :
                /\ l = <<j, k>> /\ Listed(l) = L[j][k].idx /\ t[j].used /\ t[j].type # "FILE"
    BY <1>3, <1>5
  <2>2. PICK k \in 1 .. t[j].size : l = <<j, k>> /\ Listed(l) = L[j][k].idx
    BY <2>1
  <2>3. PICK j2 \in Slots : \E k2 \in 1 .. t[j2].size :
                /\ m = <<j2, k2>> /\ Listed(m) = L[j2][k2].idx /\ t[j2].used
    BY <1>3, <1>5
  <2>4. PICK k2 \in 1 .. t[j2].size : m = <<j2, k2>> /\ Listed(m) = L[j2][k2].idx
    BY <2>3
  <2>5. L[j][k].idx # 0
    BY <1>1, <2>1, SaneEntry
  <2>6. j = j2 /\ k = k2
    BY <1>1, <1>5, <2>1, <2>2, <2>3, <2>4, <2>5, SaneOnce, SMTT(60)
  <2>7. QED
    BY <2>2, <2>4, <2>6
<1>6. QED
  BY <1>2, <1>4, <1>5 DEF EachListedOnce

\* While the machine stays on, no file has two entries, none is left of a file that
\* is gone, and the root has none.
THEOREM EntriesStayUnique == Spec => []EachListedOnce
<1>1. Init => DiskSane(disk)
  BY InitSane
<1>2. DiskSane(disk) /\ [Operation]_vars => DiskSane(disk)'
  BY StepSane
<1>3. DiskSane(disk) => EachListedOnce
  BY SaneListed
<1>4. QED
  BY <1>1, <1>2, <1>3, PTL DEF Spec
=============================================================================
