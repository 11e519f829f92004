----------------------------- MODULE FileSystem ------------------------------
(***************************************************************************)
(* The filesystem of src/src/filesystem.c.  A syscall runs with interrupts *)
(* off, so an operation is one step; power can fail inside it, after any   *)
(* of its writes to the disk.                                              *)
(*                                                                         *)
(* The unit of size is sizeof(dir_entry_t): a file is a whole number of    *)
(* cells, and a cell is a directory entry or a piece of a user's data.  A  *)
(* path is the sequence of its names, the root the empty sequence.         *)
(* Operations load the file table, work on it in memory and write it back; *)
(* between operations only the disk matters.                               *)
(***************************************************************************)
EXTENDS Integers, Sequences

CONSTANTS
    SECTORS,             \* sector_count
    SECTOR_SIZE,         \* cells in a sector
    FILE_TABLE_ENTRIES,  \* slots of the file table
    FILE_TABLE_SECTORS,  \* sectors the file table fills
    COUNT_MOD,           \* 2^8: the sector count of an ATA command wraps here
    WORD,                \* 2^32
    Names,               \* the names in paths
    Stored,              \* Stored[n]: what a dir_entry_t keeps of the name n
    Paths,               \* the paths callers use
    Data,                \* what callers write
    Sizes                \* how much they write

ASSUME FileSystemAssumption ==
    /\ SECTORS \in Nat /\ SECTOR_SIZE \in Nat \ {0}
    /\ FILE_TABLE_ENTRIES \in Nat \ {0} /\ FILE_TABLE_SECTORS \in Nat
    /\ COUNT_MOD \in Nat \ {0} /\ WORD \in Nat
    /\ FILE_TABLE_ENTRIES + 1 < SECTORS /\ SECTORS < WORD
    /\ Sizes \subseteq Nat

ASSUME NamesAssumption ==
    /\ Stored \in [Names -> Names]
    /\ Paths \subseteq Seq(Names)
    /\ "" \notin Names \cup Data /\ "unread" \notin Names \cup Data

VARIABLES
    disk,       \* the file table and the data sectors
    wild,       \* remove_file_from_dir miscounted: see there
    call        \* history: the last operation, and whether it returned true

vars == <<disk, wild, call>>

Slots == 0 .. FILE_TABLE_ENTRIES - 1
None == -1

\* file_entry_t; used: magic_number is MAGIC_NUMBER.
Entry == [used : BOOLEAN, type : {"FILE", "DIRECTORY", "ROOT_DIRECTORY"},
          start : Nat, size : Nat]
Cell == [name : Names \cup Data \cup {"", "unread"}, idx : Slots]
Zero == [name |-> "", idx |-> 0]
Unread == [name |-> "unread", idx |-> 0]    \* memory that was never written
Disk == [table : [Slots -> Entry],
         data : [0 .. SECTORS - 1 -> [1 .. SECTOR_SIZE -> Cell]]]

-----------------------------------------------------------------------------
(* Sectors: read_sectors, write_sectors                                    *)

CeilDiv(n) == (n + SECTOR_SIZE - 1) \div SECTOR_SIZE

\* One command transfers a directory that lists every slot of the table.
ASSUME DirectoryAssumption == CeilDiv(FILE_TABLE_ENTRIES) < COUNT_MOD

\* Mistake: one sector too many.
TransferredAndOne(lba, n) == CeilDiv(n) + 1

\* The sectors an ATA command transfers; none when it is refused.
Transferred(lba, n) ==
    LET count == CeilDiv(n) % COUNT_MOD
    IN  IF lba + count >= SECTORS THEN 0 ELSE count

ReadSectors(data, lba, n) ==
    [k \in 1 .. n |->
        LET sector == (k - 1) \div SECTOR_SIZE
        IN  IF sector < Transferred(lba, n)
            THEN data[lba + sector][((k - 1) % SECTOR_SIZE) + 1] ELSE Unread]

\* Mistake: a last sector that is not full is left out.
WriteFullSectors(data, lba, cells) ==
    [x \in DOMAIN data |->
        IF x \in lba .. lba + (Len(cells) \div SECTOR_SIZE) - 1
        THEN SubSeq(cells, (x - lba) * SECTOR_SIZE + 1, (x - lba + 1) * SECTOR_SIZE)
        ELSE data[x]]

\* The last sector is filled up with zeros.
WriteSectors(data, lba, cells) ==
    [x \in DOMAIN data |->
        IF x \in lba .. lba + Transferred(lba, Len(cells)) - 1
        THEN [k \in 1 .. SECTOR_SIZE |->
                LET at == (x - lba) * SECTOR_SIZE + k
                IN  IF at <= Len(cells) THEN cells[at] ELSE Zero]
        ELSE data[x]]

-----------------------------------------------------------------------------
(* Space: find_space_for_file, find_file_entry_slot                        *)

End(entry) == entry.start + CeilDiv(entry.size)

Filled(table) == {i \in Slots : table[i].used /\ table[i].size > 0}

\* Disk order; entries with the same start keep the order of the table.
Precedes(table, i, j) ==
    \/ table[i].start < table[j].start
    \/ table[i].start = table[j].start /\ i < j

\* prev_end when the loop has passed the entries of a set: the end of the last
\* of them in disk order.  (The one element of a set.)
PrevEnd(table, passed) ==
    IF passed = {} THEN {FILE_TABLE_ENTRIES + 1}
    ELSE {End(table[i]) : i \in {i \in passed :
                                   \A j \in passed \ {i} : Precedes(table, j, i)}}

\* Mistake: a gap that is one sector short will do.
GapOneShort(table, n, i) ==
    {s \in PrevEnd(table, {j \in Filled(table) : Precedes(table, j, i)}) :
        table[i].start + 1 - s >= CeilDiv(n)}

\* The gap in front of entry i begins at one of these when n cells fit into it.
GapBefore(table, n, i) ==
    {s \in PrevEnd(table, {j \in Filled(table) : Precedes(table, j, i)}) :
        (IF table[i].start > s THEN table[i].start - s ELSE 0) >= CeilDiv(n)}

\* The first gap that is large enough, the trailing one (in 32-bit arithmetic)
\* last; empty when find_space_for_file returns false.
Space(table, n) ==
    LET fit == {i \in Filled(table) : GapBefore(table, n, i) # {}}
        first == {i \in fit : \A j \in fit \ {i} : Precedes(table, i, j)}
    IN  IF fit # {} THEN UNION {GapBefore(table, n, i) : i \in first}
        ELSE {s \in PrevEnd(table, Filled(table)) :
                (SECTORS - 1 - s) % WORD >= CeilDiv(n)}

Lowest(slots) == CHOOSE i \in slots : \A j \in slots : i <= j

FreeSlots(table) == {i \in Slots : ~ table[i].used}

-----------------------------------------------------------------------------
(* Paths: find_root, resolve_path, split_path                              *)

Roots(table) == {i \in Slots : table[i].used /\ table[i].type = "ROOT_DIRECTORY"}

Entries(d, table, dir) ==
    ReadSectors(d.data, table[dir].start, table[dir].size)

\* The first entry of dir with the name that is in use and, unless it is the
\* last part of the path, a directory.
Lookup(d, table, dir, name, is_last_part) ==
    LET entries == Entries(d, table, dir)
        hits == {j \in DOMAIN entries :
                   /\ entries[j].name = name
                   /\ table[entries[j].idx].used
                   /\ is_last_part \/ table[entries[j].idx].type = "DIRECTORY"}
    IN  IF hits = {} THEN None ELSE entries[Lowest(hits)].idx

resolve_path(d, table, path) ==
    LET walk[k \in 0 .. Len(path)] ==
            IF k = 0 THEN Lowest(Roots(table))
            ELSE IF walk[k - 1] = None THEN None
            ELSE Lookup(d, table, walk[k - 1], path[k], k = Len(path))
    IN  IF Roots(table) = {} THEN None ELSE walk[Len(path)]

DirPath(path) == IF path = <<>> THEN <<>> ELSE SubSeq(path, 1, Len(path) - 1)
StoredName(path) == IF path = <<>> THEN "" ELSE Stored[path[Len(path)]]

-----------------------------------------------------------------------------
(* Steps of an operation.  A run holds the table in memory, the disk, the  *)
(* disks it left behind on the way (what a power failure can reveal), what *)
(* the operation returns and whether it ran wild.                          *)

Begin == [table |-> disk.table, disk |-> disk, seen |-> {disk}, ok |-> TRUE,
          wild |-> FALSE]

Fail == [Begin EXCEPT !.ok = FALSE]

Write(r, d) == [r EXCEPT !.disk = d, !.seen = @ \cup {d}]

SaveTable(r, table) ==
    [Write(r, [r.disk EXCEPT !.table = table]) EXCEPT !.table = table]

SaveData(r, lba, cells) ==
    Write(r, [r.disk EXCEPT !.data = WriteSectors(@, lba, cells)])

\* edit_file: the file moves to the first place that holds it, which may
\* overlap the one it has.  The data is written first, then the table.
edit_file(r, i, cells) ==
    LET space == Space([r.table EXCEPT ![i].used = FALSE], Len(cells))
        s == CHOOSE s \in space : TRUE
    IN  IF ~ r.table[i].used \/ space = {} THEN [r EXCEPT !.ok = FALSE]
        ELSE SaveTable(SaveData(r, s, cells),
                       [r.table EXCEPT ![i].start = s, ![i].size = Len(cells)])

add_file_to_dir(r, dir, i, name) ==
    edit_file(r, dir, Append(Entries(r.disk, r.table, dir),
                             [name |-> name, idx |-> i]))

\* Mistake: the entry stays.
KeepEntry(r, dir, i) == r

\* The loop of remove_file_from_dir: the entries that are not i's.
Kept(entries, size, i) ==
    LET kept[k \in 0 .. size] ==
            IF k = 0 THEN <<>>
            ELSE IF entries[k].idx # i THEN Append(kept[k - 1], entries[k])
            ELSE kept[k - 1]
    IN  kept[size]

\* remove_file_from_dir copies the entries that are not i's into a block that
\* holds one entry less than before.  When none is i's it writes past the end of
\* the block or, in an empty directory, the count wraps below zero: wild, and
\* what follows is not modelled.
remove_file_from_dir(r, dir, i) ==
    LET entries == Entries(r.disk, r.table, dir)
        size == r.table[dir].size
        kept == Kept(entries, size, i)
        cells == IF size = 0 THEN <<>>
                 ELSE [k \in 1 .. size - 1 |-> IF k <= Len(kept) THEN kept[k] ELSE Unread]
    IN  [edit_file(r, dir, cells) EXCEPT !.wild = Len(kept) = size]

\* The slots delete_directory_entries_recursive frees: everything in use that is
\* listed in the directory or in a directory below it.
Nested(dir) ==
    LET listed(i) == {Entries(disk, disk.table, i)[k].idx : k \in 1 .. disk.table[i].size}
        children == [i \in Slots |-> {j \in listed(i) : disk.table[j].used}]
        closed(S) == \A i \in S : disk.table[i].type = "DIRECTORY" => children[i] \subseteq S
    IN  {j \in Slots : \A S \in SUBSET Slots : children[dir] \subseteq S /\ closed(S) => j \in S}

\* The table with some slots freed.
Without(table, slots) ==
    [i \in Slots |-> IF i \in slots THEN [table[i] EXCEPT !.used = FALSE] ELSE table[i]]

-----------------------------------------------------------------------------
(* The operations, as runs                                                 *)

filesystem_write_file(path, type, cells) ==
    LET i == resolve_path(disk, disk.table, path)
        space == Space(disk.table, Len(cells))
        start == CHOOSE s \in space : TRUE
        slot == Lowest(FreeSlots(disk.table))
        table == [disk.table EXCEPT ![slot] =
                    [used |-> TRUE, type |-> type, start |-> start, size |-> Len(cells)]]
        dir == resolve_path(disk, table, DirPath(path))
        r == add_file_to_dir([Begin EXCEPT !.table = table], dir, slot, StoredName(path))
    IN  IF i # None
        THEN IF disk.table[i].type = "FILE" THEN edit_file(Begin, i, cells) ELSE Fail
        ELSE IF space = {} \/ FreeSlots(disk.table) = {} \/ dir = None \/ ~ r.ok
             THEN Fail
             ELSE SaveData(r, start, cells)

\* The end of both deletions: i leaves its directory, then the table.
Unlink(r, dir, i) ==
    LET removed == remove_file_from_dir(r, dir, i)
    IN  IF removed.ok THEN SaveTable(removed, Without(removed.table, {i}))
        ELSE [Fail EXCEPT !.wild = removed.wild]

filesystem_delete_file(path) ==
    LET i == resolve_path(disk, disk.table, path)
        dir == resolve_path(disk, disk.table, DirPath(path))
    IN  IF i = None \/ dir = None THEN Fail ELSE Unlink(Begin, dir, i)

\* Mistake: the table is saved as soon as the contents are wiped out.
WipeSavedFirst(path) ==
    LET i == resolve_path(disk, disk.table, path)
        r == SaveTable(Begin, Without(disk.table, Nested(i)))
        dir == resolve_path(disk, r.table, DirPath(path))
    IN  IF i = None THEN Fail
        ELSE IF disk.table[i].type # "DIRECTORY" THEN Fail
        ELSE IF dir = None THEN [r EXCEPT !.ok = FALSE] ELSE Unlink(r, dir, i)

filesystem_delete_directory(path) ==
    LET i == resolve_path(disk, disk.table, path)
        table == Without(disk.table, Nested(i))
        dir == resolve_path(disk, table, DirPath(path))
    IN  IF i = None THEN Fail
        ELSE IF disk.table[i].type # "DIRECTORY" \/ dir = None THEN Fail
        ELSE Unlink([Begin EXCEPT !.table = table], dir, i)

\* What the two steps return is not looked at.
filesystem_move_file(path, new_path) ==
    LET i == resolve_path(disk, disk.table, path)
        dir == resolve_path(disk, disk.table, DirPath(path))
        new_dir == resolve_path(disk, disk.table, DirPath(new_path))
        removed == remove_file_from_dir(Begin, dir, i)
        added == add_file_to_dir([removed EXCEPT !.ok = TRUE], new_dir, i, StoredName(new_path))
    IN  IF i = None \/ dir = None \/ new_dir = None THEN Fail
        ELSE [added EXCEPT !.ok = TRUE]

\* The table ensure_root writes on a disk that has no root.
ensure_root(d) ==
    IF Roots(d.table) # {} THEN d
    ELSE [d EXCEPT !.table = [i \in Slots |->
            IF i = 0 THEN [used |-> TRUE, type |-> "ROOT_DIRECTORY",
                           start |-> 1 + FILE_TABLE_SECTORS, size |-> 0]
            ELSE [used |-> FALSE, type |-> "FILE", start |-> 0, size |-> 0]]]

-----------------------------------------------------------------------------
(* The specification                                                       *)

\* A disk without a filesystem, after filesystem_init.
Init ==
    /\ disk = ensure_root([table |-> [i \in Slots |-> [used |-> FALSE, type |-> "FILE",
                                                       start |-> 0, size |-> 0]],
                           data |-> [x \in 0 .. SECTORS - 1 |->
                                       [k \in 1 .. SECTOR_SIZE |-> Zero]]])
    /\ wild = FALSE
    /\ call = [op |-> "init", path |-> <<>>, to |-> <<>>, cells |-> <<>>, ok |-> TRUE]

Record(op, path, to, cells, ok) ==
    call' = [op |-> op, path |-> path, to |-> to, cells |-> cells, ok |-> ok]

\* The operation runs to its end.
Complete(r) ==
    /\ ~ wild
    /\ wild' = r.wild
    /\ disk' = IF r.wild THEN disk ELSE r.disk

\* Power fails after one of its writes, or before the first, and comes back.
Interrupted(r) ==
    /\ ~ wild /\ ~ r.wild
    /\ \E d \in r.seen : disk' = ensure_root(d)
    /\ Record("power", <<>>, <<>>, <<>>, FALSE)
    /\ UNCHANGED wild

WriteFile(path, cells) ==
    LET r == filesystem_write_file(path, "FILE", cells)
    IN  Complete(r) /\ Record("write", path, path, cells, r.ok)

CreateDirectory(path) ==
    LET r == filesystem_write_file(path, "DIRECTORY", <<>>)
    IN  Complete(r) /\ Record("mkdir", path, path, <<>>, r.ok)

DeleteFile(path) ==
    LET r == filesystem_delete_file(path)
    IN  Complete(r) /\ Record("rm", path, path, <<>>, r.ok)

DeleteDirectory(path) ==
    LET r == filesystem_delete_directory(path)
    IN  Complete(r) /\ Record("rmdir", path, path, <<>>, r.ok)

MoveFile(path, new_path) ==
    LET r == filesystem_move_file(path, new_path)
    IN  Complete(r) /\ Record("mv", path, new_path, <<>>, r.ok)

Contents == {[k \in 1 .. n |-> [name |-> v, idx |-> 0]] : n \in Sizes, v \in Data}

Operation ==
    \E path \in Paths :
        \/ \E cells \in Contents : WriteFile(path, cells)
        \/ CreateDirectory(path)
        \/ DeleteFile(path)
        \/ DeleteDirectory(path)
        \/ \E new_path \in Paths : MoveFile(path, new_path)

PowerFailure ==
    \E path \in Paths :
        \/ \E cells \in Contents : Interrupted(filesystem_write_file(path, "FILE", cells))
        \/ Interrupted(filesystem_write_file(path, "DIRECTORY", <<>>))
        \/ Interrupted(filesystem_delete_file(path))
        \/ Interrupted(filesystem_delete_directory(path))
        \/ \E new_path \in Paths : Interrupted(filesystem_move_file(path, new_path))

\* The machine stays on.
Spec == Init /\ [][Operation]_vars

\* Power may fail at any time.
FailureSpec == Init /\ [][Operation \/ PowerFailure]_vars

-----------------------------------------------------------------------------
(* Properties                                                              *)

\* The files of a table are apart from each other, from the superblock and the
\* file table, and from the last sector, which write_sectors refuses.
Apart(table) ==
    \A i \in Filled(table) :
        /\ table[i].start > FILE_TABLE_ENTRIES
        /\ End(table[i]) < SECTORS
        /\ \A j \in Filled(table) \ {i} :
             End(table[i]) <= table[j].start \/ End(table[j]) <= table[i].start

\* No two files share a sector: whatever order find_space_for_file meets the
\* files in, however they grow, move and reuse each other's place, and wherever
\* power fails.
ExtentsApart == Apart(disk.table)

\* The disk always holds a root directory, so ensure_root never finds reason to
\* erase the file table: not after a deletion that power cut short, and not
\* when a directory such a deletion damaged is deleted in turn.
RootKept == Roots(disk.table) # {}

\* While the machine stays on, each entry of a directory is a file in use, no
\* file is listed twice, and the root nowhere: a slot that a deletion frees and a
\* new file takes is never reached through an old entry.  What resolve_path and
\* the deletions index file_table with is always a slot of it.
Directories == {i \in Slots : disk.table[i].used /\ disk.table[i].type # "FILE"}
Listings == UNION {{<<i, k>> : k \in 1 .. disk.table[i].size} : i \in Directories}
Listed(l) == Entries(disk, disk.table, l[1])[l[2]].idx

EachListedOnce ==
    /\ disk \in Disk
    /\ \A l \in Listings : disk.table[Listed(l)].used
    /\ \A l \in Listings : disk.table[Listed(l)].type # "ROOT_DIRECTORY"
    /\ \A l, m \in Listings : Listed(l) = Listed(m) => l = m

Content(d, i) == Entries(d, d.table, i)
Resolves(d, path) == resolve_path(d, d.table, path)

\* The path p leads to the path q, or through it.
LeadsTo(p, q) == Len(p) <= Len(q) /\ SubSeq(q, 1, Len(p)) = p

\* An operation leaves every path alone that does not begin with a path it was
\* given: the path names the same file, and a regular file (other than one used
\* as a directory) the same data.  Files that move, grow and reuse slots and
\* sectors never disturb their neighbours.
OtherFilesKept ==
    [][~ wild' =>
         \A path \in Paths :
            LET i == Resolves(disk, path)
            IN  ~ LeadsTo(call'.path, path) /\ ~ LeadsTo(call'.to, path) =>
                    /\ Resolves(disk', path) = i
                    /\ \/ i = None
                       \/ disk.table[i].type # "FILE"
                       \/ path \in {DirPath(call'.path), DirPath(call'.to)}
                       \/ Content(disk', i) = Content(disk, i)]_vars

\* What write_file stored is what read_file returns.
ReadBack ==
    [][call'.op = "write" /\ call'.ok =>
         LET i == Resolves(disk', call'.path)
         IN  i # None => Content(disk', i) = call'.cells]_vars
=============================================================================
