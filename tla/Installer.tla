------------------------------ MODULE Installer ------------------------------
(***************************************************************************)
(* bios_install of src/limine-binary/limine.c: finding the partition table *)
(* of a disk, turning the GPT of an ISOHYBRID image into an MBR, the       *)
(* checks, the choice of the place for stage 2, and the writes.            *)
(*                                                                         *)
(* A disk is a function from its sectors of 512 bytes to what they hold; a *)
(* logical block is lb_size sectors, and a structure that starts a block   *)
(* is in the block's first sector.  A checksum is what it is formed from.  *)
(* Any write may fail half way; the sectors of unreadable cannot be read.  *)
(* The undo is the one module Device shows: what was saved is put back.    *)
(***************************************************************************)
EXTENDS Integers, Sequences, FiniteSets, FiniteSetsExt, SequencesExt

CONSTANTS
    Disks,                  \* the disks to install to
    lb_guesses,             \* block sizes to look for: 1, 4, 8 sectors
    ARRAY,                  \* sectors UEFI reserves for the entries (32)
    GPT_MAX_ARRAY_SIZE,     \* sectors an entry array may take (2048)
    MBR_ENTRIES,            \* entries in the table of an MBR (4)
    SECTOR_MAX,             \* the last sector an MBR can name (2^32 - 1)
    GAP,                    \* the first sector a partition may start at (63)
    ISO,                    \* the sector with an image's signature (64)
    MIN_PART,               \* sectors a boot partition has at least (64)
    Stage2Sizes,            \* sectors of the image's second stage (51)
    PartIndexes,            \* partition numbers on the command line; 0 is none
    CYLINDERS, HEADS, SECTORS   \* of an address in an MBR (1024, 255, 63)

VARIABLES
    disk, unreadable,
    start,          \* history: the disk before the installation
    options,        \* [force, gpt2mbr_allowed, part_ndx, stage2]
    pc,
    gpt,            \* there is a GPT, not converted
    lb_size, gpt_header, gpt_header_lba,    \* if there is one, what was found
    guess, places, budget,  \* of gpt_locate_header: the block size looked for,
                            \* the blocks still to look at, the array bytes left
    wipes,          \* sectors still to be zeroed, in order
    parts,          \* part_to_conv: the partitions of the new MBR
    mbr, any_active, entry,                 \* of the checks of the MBR
    stage2_loc, stage2_max,
    kept,           \* timestamp and orig_mbr: fields of sector 0 to write back
    saved,          \* what the writes replaced
    writes,         \* entries in the undo list
    faults          \* history: a read or write has failed

foundVars == <<gpt, lb_size, gpt_header, gpt_header_lba>>
searchVars == <<guess, places, budget>>
tableVars == <<foundVars, searchVars>>
mbrVars == <<mbr, any_active, entry>>
placeVars == <<stage2_loc, stage2_max, kept>>
writeVars == <<disk, saved, writes, faults>>
fixedVars == <<unreadable, start, options>>
vars == <<fixedVars, writeVars, pc, tableVars, wipes, parts, mbrVars, placeVars>>

----------------------------------------------------------------------------
(* What a sector holds. *)

Zero == [kind |-> "zero"]
Stage2 == [kind |-> "stage2"]

NoEntry == [flag |-> "off", type |-> "none", first |-> 0, count |-> 0, chs |-> <<>>]

\* code, stamp, id, table and signature are the fields of sector 0, fat says
\* that a file system left its name in it.
BlankMbr ==
    [kind |-> "mbr", code |-> "blank", to |-> 0, fat |-> FALSE, stamp |-> "blank",
     id |-> "blank", table |-> [n \in 1 .. MBR_ENTRIES |-> NoEntry], sig |-> FALSE]

Readable(s) == s \in DOMAIN disk \ unreadable

----------------------------------------------------------------------------
(* GUID partition tables. *)

RoundUp(n, d) == (n + d - 1) \div d

\* What is left of the budget, and whether the header passed.
gpt_verify_header(h, lba, lb, device_blocks, limit) ==
    LET array_end == h.array_lba + RoundUp(h.array_size, lb)
        array == h.array_lba * lb
        paid == /\ h.kind = "header" /\ h.my_lba = lba /\ h.crc
                /\ h.array_size # 0 /\ h.array_size <= GPT_MAX_ARRAY_SIZE
                /\ h.array_size <= limit
                /\ h.first_usable <= h.last_usable
                /\ IF h.array_lba < h.first_usable
                   THEN array_end <= h.first_usable
                   ELSE h.array_lba > h.last_usable /\ array_end <= lba
                /\ device_blocks # 0 =>
                     h.last_usable < device_blocks /\ array_end <= device_blocks
    IN  [ok |-> paid /\ Readable(array) /\ disk[array] = h.entries,
         budget |-> IF paid THEN limit - h.array_size ELSE limit]

\* The last byte of the block can be read.
device_block_present(block, lb) == Readable(block * lb + lb - 1)

\* The second loop of device_last_block.
RECURSIVE Halve(_, _, _)
Halve(lo, hi, lb) ==
    LET mid == lo + (hi - lo) \div 2
    IN  IF lo + 1 >= hi THEN lo
        ELSE IF device_block_present(mid, lb) THEN Halve(mid, hi, lb)
        ELSE Halve(lo, mid, lb)

\* The first one: lo is present, and hi is twice it.
RECURSIVE Double(_, _, _)
Double(lo, hi, lb) ==
    IF device_block_present(hi, lb) THEN Double(hi, 2 * hi, lb)
                                    ELSE Halve(lo, hi, lb)

\* Mistake: the first block that is absent.
device_last_block_Next(lb) ==
    IF device_block_present(0, lb) THEN Double(0, 1, lb) + 1 ELSE -1

\* The last block of the device, or -1 when the first cannot be read.
device_last_block(lb) ==
    IF device_block_present(0, lb) THEN Double(0, 1, lb) ELSE -1

gpt_protective_mbr ==
    \E n \in 1 .. MBR_ENTRIES : disk[0].table[n].type = "ee"

\* Where gpt_locate_header looks after the primary header: the last block, then
\* the one a header that did not verify names.
candidates(lb) ==
    LET last == device_last_block(lb)
        named == IF Readable(lb) /\ disk[lb].kind = "header"
                    /\ disk[lb].alternate_lba > 1
                 THEN <<disk[lb].alternate_lba>> ELSE <<>>
    IN  IF last >= 1 THEN <<last>> \o SelectSeq(named, LAMBDA lba : lba # last)
                     ELSE named

\* The blocks looked at, in order.
Places(lb) == IF gpt_protective_mbr THEN <<1>> \o candidates(lb) ELSE <<1>>

----------------------------------------------------------------------------
(* Steps that end an installation, and writes. *)

goto_cleanup(fault) ==
    /\ pc' = "undo"
    /\ faults' = (faults \/ fault)
    /\ UNCHANGED <<fixedVars, disk, saved, writes, tableVars, wipes, parts, mbrVars,
                   placeVars>>

\* Mistake: the old contents are not saved.
device_write_Unsaved(at, new, n) ==
    /\ at \subseteq DOMAIN disk \ unreadable
    /\ disk' = [s \in DOMAIN disk |-> IF s \in at THEN new[s] ELSE disk[s]]
    /\ writes' = writes + n
    /\ UNCHANGED <<saved, faults>>

\* n calls of device_write that replace the sectors of at.
device_write(at, new, n) ==
    /\ at \subseteq DOMAIN disk \ unreadable
    /\ disk' = [s \in DOMAIN disk |-> IF s \in at THEN new[s] ELSE disk[s]]
    /\ saved' = [s \in DOMAIN saved \cup at |->
                   IF s \in DOMAIN saved THEN saved[s] ELSE disk[s]]
    /\ writes' = writes + n
    /\ UNCHANGED faults

\* The write fails; some of its sectors are written, and not saved.
write_fails(at, new) ==
    /\ \E done \in {{s \in at : s < k} : k \in at} :
         disk' = [s \in DOMAIN disk |->
                    IF s \in done THEN new[s] ELSE disk[s]]
    /\ faults' = TRUE
    /\ pc' = "undo"
    /\ UNCHANGED <<fixedVars, saved, writes, tableVars, wipes, parts, mbrVars,
                   placeVars>>

\* A write that may fail; then says what a complete one changes besides.
Write(at, new, n, then) ==
    \/ device_write(at, new, n) /\ then
    \/ write_fails(at, new)

Write0(new, n, then) == Write({0}, [s \in {0} |-> new], n, then)

----------------------------------------------------------------------------
(* The probe, and the conversion of a GPT. *)

\* The next block size.
NextGuess ==
    /\ pc = "locate" /\ places = <<>> /\ guess < Len(lb_guesses)
    /\ guess' = guess + 1
    /\ places' = Places(lb_guesses[guess + 1])
    /\ UNCHANGED <<fixedVars, writeVars, pc, foundVars, budget, wipes, parts, mbrVars,
                   placeVars>>

\* A block is read and verified; the first header that passes is the table's.
Try ==
    /\ pc = "locate" /\ places # <<>>
    /\ LET lb == lb_guesses[guess]
           lba == Head(places)
           v == gpt_verify_header(disk[lba * lb], lba, lb,
                                  device_last_block(lb) + 1, budget)
       IN  \/ /\ ~Readable(lba * lb)
              /\ places' = Tail(places)
              /\ UNCHANGED <<pc, foundVars, budget>>
           \/ /\ Readable(lba * lb) /\ ~v.ok
              /\ places' = Tail(places)
              /\ budget' = v.budget
              /\ UNCHANGED <<pc, foundVars>>
           \/ /\ Readable(lba * lb) /\ v.ok
              /\ gpt' = TRUE /\ lb_size' = lb /\ gpt_header_lba' = lba
              /\ gpt_header' = disk[lba * lb]
              /\ pc' = "iso"
              /\ places' = <<>>
              /\ budget' = v.budget
    /\ UNCHANGED <<fixedVars, writeVars, guess, wipes, parts, mbrVars, placeVars>>

NotLocated ==
    /\ pc = "locate" /\ places = <<>> /\ guess = Len(lb_guesses)
    /\ pc' = "iso"
    /\ UNCHANGED <<fixedVars, writeVars, tableVars, wipes, parts, mbrVars,
                   placeVars>>

\* The entries of the table.
entries == disk[gpt_header.array_lba * lb_size].list

ConvTypes == {"efi", "data", "hfs"}

\* An address for the table of an MBR; the last there is, when it is too large.
lba2chs(lba) ==
    IF lba \div (HEADS * SECTORS) >= CYLINDERS
    THEN <<CYLINDERS - 1, HEADS - 1, SECTORS>>
    ELSE <<lba \div (HEADS * SECTORS), (lba \div SECTORS) % HEADS,
           (lba % SECTORS) + 1>>

ToMbr(e) ==
    LET first == e.first * lb_size
        count == (e.last - e.first + 1) * lb_size
    IN  [flag |-> "off", type |-> e.type, first |-> first, count |-> count,
         chs |-> <<lba2chs(first), lba2chs(first + count - 1)>>]

used == SelectSeq(entries, LAMBDA e : e.used)

convertible ==
    /\ Len(used) <= MBR_ENTRIES
    /\ \A n \in DOMAIN used :
         /\ used[n].last >= used[n].first
         /\ (used[n].last + 1) * lb_size - 1 <= SECTOR_MAX
         /\ used[n].type \in ConvTypes

part_to_conv == [n \in DOMAIN used |-> ToMbr(used[n])]

alt_reserve == 1 + RoundUp(ARRAY, lb_size)

\* Mistake: only the header the table names.
alternates_Named ==
    IF gpt_header.alternate_lba >= alt_reserve THEN <<gpt_header.alternate_lba>>
                                               ELSE <<>>

\* The alternate headers to look for.
alternates ==
    LET named == IF gpt_header_lba # 1 THEN <<gpt_header_lba>>
                 ELSE IF gpt_header.alternate_lba >= alt_reserve
                 THEN <<gpt_header.alternate_lba>> ELSE <<>>
        last == device_last_block(lb_size)
    IN  IF last >= alt_reserve /\ last \notin ToSet(named) THEN Append(named, last)
                                                        ELSE named

\* The ones that are there.
probed ==
    SelectSeq(alternates, LAMBDA lba :
        Readable(lba * lb_size) /\ disk[lba * lb_size].kind = "header")

\* Mistake: the whole reserve, whatever the table says is usable.
AlternateBlocks_All(lba) ==
    [n \in 1 .. alt_reserve |-> lba - alt_reserve + n]

\* The blocks that are erased for an alternate header: none when the subtraction
\* wraps around.
AlternateBlocks(lba) ==
    LET first == Max({lba - (alt_reserve - 1), gpt_header.last_usable + 1})
    IN  IF lba < alt_reserve - 1 THEN <<>>
        ELSE [n \in 1 .. lba - first + 1 |-> first + n - 1]

PrimaryBlocks ==
    LET reserve == Min({gpt_header.first_usable, 2 + RoundUp(ARRAY, lb_size)})
    IN  [n \in 1 .. reserve |-> n - 1]

\* An image with a GPT that an MBR can hold.
ToConvert ==
    /\ gpt /\ options.gpt2mbr_allowed
    /\ Readable(ISO) /\ disk[ISO].kind = "iso" /\ convertible

NoConversion ==
    /\ pc = "iso" /\ ~ToConvert
    /\ gpt /\ options.gpt2mbr_allowed => Readable(ISO)
    /\ pc' = IF gpt THEN "choose" ELSE "signature"
    /\ UNCHANGED <<fixedVars, writeVars, tableVars, wipes, parts, mbrVars, placeVars>>

IsoUnreadable ==
    /\ pc = "iso" /\ gpt /\ options.gpt2mbr_allowed /\ ~Readable(ISO)
    /\ goto_cleanup(TRUE)

\* Mistake: the low partition is left to the checks of the MBR.
WillNotConvert_Late ==
    \E n \in DOMAIN probed : gpt_header.last_usable >= probed[n]

\* A partition too low, or an alternate header in the usable range.
WillNotConvert ==
    \/ \E n \in DOMAIN part_to_conv : part_to_conv[n].first < GAP
    \/ \E n \in DOMAIN probed : gpt_header.last_usable >= probed[n]

ConversionRefused ==
    pc = "iso" /\ ToConvert /\ WillNotConvert /\ goto_cleanup(FALSE)

\* Every erase is settled before the first.
Convert ==
    /\ pc = "iso" /\ ToConvert /\ ~WillNotConvert
    /\ LET alternate(n) ==
             IF n \in DOMAIN probed THEN AlternateBlocks(probed[n]) ELSE <<>>
       IN  wipes' = PrimaryBlocks \o alternate(1) \o alternate(2)
    /\ parts' = part_to_conv
    /\ pc' = "wipe"
    /\ UNCHANGED <<fixedVars, writeVars, tableVars, mbrVars, placeVars>>

BlockSectors(lba) == lba * lb_size .. lba * lb_size + lb_size - 1

Erased(lba) ==
    [s \in BlockSectors(lba) |-> IF s = 0 THEN BlankMbr ELSE Zero]

Wipe ==
    /\ pc = "wipe" /\ wipes # <<>>
    /\ Write(BlockSectors(Head(wipes)), Erased(Head(wipes)), 1,
             /\ wipes' = Tail(wipes)
             /\ UNCHANGED <<fixedVars, pc, tableVars, parts, mbrVars, placeVars>>)

\* The disk ID, five writes for each entry, and the signature.
NewTable ==
    [disk[0] EXCEPT !.id = "guid", !.sig = TRUE,
        !.table = [n \in 1 .. MBR_ENTRIES |->
                     IF n \in DOMAIN parts THEN parts[n] ELSE @[n]]]

WriteTable ==
    /\ pc = "wipe" /\ wipes = <<>>
    /\ Write0(NewTable, 5 + 5 * Len(parts),
              /\ gpt' = FALSE
              /\ pc' = "signature"
              /\ UNCHANGED <<fixedVars, lb_size, gpt_header, gpt_header_lba, searchVars, wipes,
                             parts, mbrVars, placeVars>>)

----------------------------------------------------------------------------
(* The checks of an MBR. *)

CheckSignature ==
    /\ pc = "signature"
    /\ \/ /\ options.force /\ ~disk[0].sig
          /\ Write0([disk[0] EXCEPT !.sig = TRUE], 1,
                    UNCHANGED <<fixedVars, pc, tableVars, wipes, parts, mbrVars,
                                placeVars>>)
       \/ /\ disk[0].sig \/ ~options.force
          /\ mbr' = disk[0].sig
          /\ any_active' = FALSE /\ entry' = 1
          /\ pc' = "entries"
          /\ UNCHANGED <<fixedVars, writeVars, tableVars, wipes, parts, placeVars>>

\* The flag without the bits that are not 0x80.
Masked(flag) == IF flag = "badon" THEN "on" ELSE IF flag = "badoff" THEN "off" ELSE flag

too_low(e) == e.type # "none" /\ e.first < GAP

\* One of the four entries.  A flag that is wrong is repaired with --force, and a
\* partition that is too low ends the installation after that.
CheckEntry ==
    /\ pc = "entries" /\ entry <= MBR_ENTRIES
    /\ LET e == disk[0].table[entry]
           new == [disk[0] EXCEPT !.table[entry].flag = Masked(@)]
       IN  \/ /\ e.flag # Masked(e.flag) /\ options.force
              /\ Write0(new, 1, UNCHANGED <<fixedVars, pc, tableVars, wipes, parts,
                                            mbrVars, placeVars>>)
           \/ /\ e.flag = Masked(e.flag) \/ ~options.force
              /\ IF too_low(e) THEN goto_cleanup(FALSE)
                 ELSE /\ mbr' = (mbr /\ e.flag = Masked(e.flag))
                      /\ any_active' = (any_active \/ Masked(e.flag) = "on")
                      /\ entry' = entry + 1
                      /\ UNCHANGED <<fixedVars, writeVars, pc, tableVars, wipes,
                                     parts, placeVars>>

\* What validate_or_force looks for behind sector s: the name of a file system in
\* the sector, the mark of ext2 two sectors on.
Hints(s) ==
    {t \in {s} : (disk[t].kind = "mbr" /\ disk[t].fat) \/ disk[t].kind = "fat"}
    \cup {t \in {s + 2} : disk[t].kind = "ext"}

WithoutHint(s) == IF disk[s].kind = "mbr" THEN [disk[s] EXCEPT !.fat = FALSE] ELSE Zero

\* validate_or_force(s * 512): a file system is refused or, with --force, its
\* marks are erased: four writes for the names, one for the mark.
validate_or_force(s, valid, invalid) ==
    IF ~Readable(s) \/ ~Readable(s + 2) THEN goto_cleanup(TRUE)
    ELSE \/ Hints(s) = {} /\ valid
         \/ Hints(s) # {} /\ ~options.force /\ invalid
         \/ /\ Hints(s) # {} /\ options.force
            /\ LET t == Min(Hints(s))
                   new == [u \in {t} |-> WithoutHint(t)]
               IN  Write({t}, new, IF t = s THEN 4 ELSE 1,
                         UNCHANGED <<fixedVars, pc, tableVars, wipes, parts,
                                     mbrVars, placeVars>>)

CheckHints ==
    /\ pc = "entries" /\ entry > MBR_ENTRIES
    /\ IF ~mbr THEN goto_cleanup(FALSE)
       ELSE validate_or_force(0,
              /\ pc' = "active"
              /\ UNCHANGED <<fixedVars, writeVars, tableVars, wipes, parts, mbrVars,
                             placeVars>>,
              goto_cleanup(FALSE))

\* Without an active partition the first is made one.
SetActive ==
    /\ pc = "active" /\ ~any_active
    /\ Write0([disk[0] EXCEPT !.table[1].flag = "on"], 1,
              /\ any_active' = TRUE
              /\ UNCHANGED <<fixedVars, pc, tableVars, wipes, parts, mbr, entry,
                             placeVars>>)

\* Stage 2 goes behind the MBR.
PlaceInGap ==
    /\ pc = "active" /\ any_active
    /\ stage2_loc' = 1 /\ stage2_max' = GAP - 1
    /\ pc' = "save"
    /\ UNCHANGED <<fixedVars, writeVars, tableVars, wipes, parts, mbrVars, kept>>

----------------------------------------------------------------------------
(* The partition for stage 2, with a GPT. *)

\* The partition on the command line, or the first of the right type: 0 is an
\* error.
partition_num ==
    LET n == options.part_ndx
        boot == {k \in DOMAIN entries : entries[k].type = "bios"}
    IN  IF n = 0 THEN Min(boot \cup {Len(entries) + 1}) % (Len(entries) + 1)
        ELSE IF n \in DOMAIN entries /\ entries[n].used
                /\ (options.force \/ entries[n].type = "bios")
        THEN n ELSE 0

part_fits(e) == e.last >= e.first /\ (e.last - e.first + 1) * lb_size >= MIN_PART

ChoosePartition ==
    /\ pc = "choose"
    /\ IF partition_num = 0 \/ ~part_fits(entries[partition_num])
       THEN goto_cleanup(FALSE)
       ELSE LET e == entries[partition_num]
            IN  /\ stage2_loc' = e.first * lb_size
                /\ stage2_max' = (e.last - e.first + 1) * lb_size
                /\ pc' = "validate"
                /\ UNCHANGED <<fixedVars, writeVars, tableVars, wipes, parts, mbrVars,
                               kept>>

ValidatePartition ==
    /\ pc = "validate"
    /\ validate_or_force(stage2_loc,
         /\ pc' = "save"
         /\ UNCHANGED <<fixedVars, writeVars, tableVars, wipes, parts, mbrVars,
                        placeVars>>,
         goto_cleanup(FALSE))

----------------------------------------------------------------------------
(* The writes of the boot code. *)

\* The timestamp and the table of sector 0 are read back; the size of stage 2 is
\* checked last.
SaveTable ==
    /\ pc = "save"
    /\ IF options.stage2 > stage2_max THEN goto_cleanup(FALSE)
       ELSE /\ kept' = disk[0]
            /\ pc' = "boot"
            /\ UNCHANGED <<fixedVars, writeVars, tableVars, wipes, parts, mbrVars,
                           stage2_loc, stage2_max>>

\* The first sector of the image: its table is empty.
BootSector == [BlankMbr EXCEPT !.code = "limine", !.stamp = "image", !.sig = TRUE]

WriteBoot ==
    /\ pc = "boot"
    /\ Write0(BootSector, 1,
              /\ pc' = "stage2"
              /\ UNCHANGED <<fixedVars, tableVars, wipes, parts, mbrVars, placeVars>>)

Stage2Sectors == stage2_loc .. stage2_loc + options.stage2 - 1

WriteStage2 ==
    /\ pc = "stage2"
    /\ Write(Stage2Sectors, [s \in Stage2Sectors |-> Stage2], 1,
             /\ pc' = "back"
             /\ UNCHANGED <<fixedVars, tableVars, wipes, parts, mbrVars, placeVars>>)

\* Mistake: the table is not written back.
WrittenBack_NoTable == [disk[0] EXCEPT !.to = stage2_loc, !.stamp = kept.stamp]

\* The place of stage 2, the timestamp, and the disk ID and table.
WrittenBack ==
    [disk[0] EXCEPT !.to = stage2_loc, !.stamp = kept.stamp, !.id = kept.id,
                    !.table = kept.table]

WriteBack ==
    /\ pc = "back"
    /\ Write0(WrittenBack, 3,
              /\ pc' = "flush"
              /\ UNCHANGED <<fixedVars, tableVars, wipes, parts, mbrVars, placeVars>>)

Flush ==
    /\ pc = "flush"
    /\ \/ /\ pc' = "done"
          /\ UNCHANGED <<fixedVars, writeVars, tableVars, wipes, parts, mbrVars,
                         placeVars>>
       \/ goto_cleanup(TRUE)

\* cleanup: reverse_uninstall_data and uninstall.
Undo ==
    /\ pc = "undo"
    /\ disk' = [s \in DOMAIN disk |->
                  IF s \in DOMAIN saved THEN saved[s] ELSE disk[s]]
    /\ pc' = "failed"
    /\ UNCHANGED <<fixedVars, saved, writes, faults, tableVars, wipes, parts, mbrVars,
                   placeVars>>

----------------------------------------------------------------------------
Options ==
    [force : BOOLEAN, gpt2mbr_allowed : BOOLEAN, part_ndx : PartIndexes,
     stage2 : Stage2Sizes]

\* The arguments, and device_init, which reads the first sector.
InitWith(d, o) ==
    /\ disk = d.disk /\ unreadable = d.unreadable /\ 0 \notin d.unreadable
    /\ start = disk
    /\ options = o
    /\ pc = "locate"
    /\ gpt = FALSE /\ lb_size = 1 /\ gpt_header = Zero /\ gpt_header_lba = 0
    /\ guess = 0 /\ places = <<>> /\ budget = 2 * GPT_MAX_ARRAY_SIZE
    /\ wipes = <<>> /\ parts = <<>>
    /\ mbr = FALSE /\ any_active = FALSE /\ entry = 1
    /\ stage2_loc = 1 /\ stage2_max = GAP - 1 /\ kept = BlankMbr
    /\ saved = <<>> /\ writes = 0 /\ faults = FALSE

Init == \E d \in Disks, o \in Options : InitWith(d, o)

Next ==
    \/ NextGuess \/ Try \/ NotLocated
    \/ NoConversion \/ IsoUnreadable \/ ConversionRefused \/ Convert
    \/ Wipe \/ WriteTable \/ CheckSignature \/ CheckEntry \/ CheckHints
    \/ SetActive \/ PlaceInGap \/ ChoosePartition \/ ValidatePartition
    \/ SaveTable \/ WriteBoot \/ WriteStage2 \/ WriteBack \/ Flush \/ Undo

----------------------------------------------------------------------------
(* Properties. *)

Located == gpt_header.kind = "header"

Extent(type, first, count) == [type |-> type, first |-> first, count |-> count]

\* The partitions a GPT or an MBR lists, in sectors.
GptExtents(d) ==
    {Extent(e.type, e.first * lb_size, (e.last - e.first + 1) * lb_size) :
       e \in {x \in ToSet(d[gpt_header.array_lba * lb_size].list) : x.used}}

MbrExtents(d) ==
    {Extent(e.type, e.first, e.count) :
       e \in {x \in {d[0].table[n] : n \in 1 .. MBR_ENTRIES} : x.type # "none"}}

Before == IF Located THEN GptExtents(start) ELSE MbrExtents(start)

SectorsOf(extent) == extent.first .. extent.first + extent.count - 1

\* Whatever fails and whatever is forced, no step writes a sector of a partition,
\* other than the one that stage 2 is put in.
PartitionsKept ==
    \A extent \in Before :
        \/ gpt /\ extent.first = stage2_loc
        \/ \A s \in SectorsOf(extent) \cap DOMAIN disk : disk[s] = start[s]

\* The addresses of an entry in cylinders, heads and sectors name the sectors it
\* has, or are the largest there are.
ChsAgrees(e) ==
    \A k \in {1, 2} :
        LET chs == e.chs[k]
            lba == IF k = 1 THEN e.first ELSE e.first + e.count - 1
        IN  \/ (chs[1] * HEADS + chs[2]) * SECTORS + chs[3] - 1 = lba
            \/ /\ chs = <<CYLINDERS - 1, HEADS - 1, SECTORS>>
               /\ lba >= CYLINDERS * HEADS * SECTORS

\* After an installation the disk lists the partitions it listed before, with the
\* same sectors, in the same GPT or in the MBR that takes its place, where both
\* addresses of an entry agree; and the boot sector leads to all of stage 2.
InstallationComplete ==
    pc = "done" =>
        /\ IF gpt THEN /\ disk[gpt_header_lba * lb_size] = gpt_header
                       /\ GptExtents(disk) = Before
                       /\ disk[0].table = start[0].table
                  ELSE MbrExtents(disk) = Before
        /\ \A n \in DOMAIN parts : ChsAgrees(parts[n])
        /\ disk[0].code = "limine" /\ disk[0].sig
        /\ \A s \in disk[0].to .. disk[0].to + options.stage2 - 1 : disk[s] = Stage2

\* What the search for a table should find: of every block size in turn the
\* primary header or, if the MBR is a protective one, that of the last block or
\* the one the primary names.
Verifies(lb, lba) ==
    /\ lba * lb \in DOMAIN disk
    /\ gpt_verify_header(disk[lba * lb], lba, lb,
                         Cardinality(DOMAIN disk) \div lb, 2 * GPT_MAX_ARRAY_SIZE).ok

Wanted(lb) ==
    LET last == Cardinality(DOMAIN disk) \div lb - 1
        named == IF disk[lb].kind = "header" THEN disk[lb].alternate_lba ELSE 0
    IN  IF Verifies(lb, 1) THEN 1
        ELSE IF ~gpt_protective_mbr THEN 0
        ELSE IF last > 0 /\ Verifies(lb, last) THEN last
        ELSE IF named > 1 /\ Verifies(lb, named) THEN named
        ELSE 0

\* The table that is found is the one that should be, although the end of the
\* device is found by probing, on a device that can be read.
LocatesGenuine ==
    pc = "iso" /\ unreadable = {} =>
        LET sizes == {n \in DOMAIN lb_guesses : Wanted(lb_guesses[n]) # 0}
            best == lb_guesses[Min(sizes)]
        IN  IF sizes = {} THEN ~gpt
            ELSE gpt /\ lb_size = best /\ gpt_header_lba = Wanted(best)

\* A converted disk has one table: no GPT is found on it any more, and neither
\* the alternate header the table named nor one in the last block is left
\* ("leaving either behind is what makes a GPT-aware reader disagree with the MBR
\* this conversion writes").
OneTableLeft ==
    pc = "done" /\ Located /\ ~gpt =>
        /\ ~gpt_protective_mbr
        /\ \A lb \in ToSet(lb_guesses) : ~Verifies(lb, 1)
        /\ unreadable = {} =>
             \A lba \in {gpt_header_lba, gpt_header.alternate_lba,
                        Cardinality(DOMAIN disk) \div lb_size - 1} :
                 lba * lb_size \in DOMAIN disk =>
                     disk[lba * lb_size].kind # "header"

\* Once the conversion has begun to write, only a device that fails ends the
\* installation ("a rejection knowable in advance must not depend on the undo
\* succeeding").  The image's second stage fits behind an MBR, and what is written
\* fits the undo list: 100 entries for the erased blocks and 141 in all, of 256,
\* with the sizes of the code.
ConversionStands ==
    /\ pc \in {"undo", "failed"} /\ parts # <<>> /\ options.stage2 < GAP => faults
    /\ writes <= IF pc = "wipe" THEN 3 * ARRAY + 4
                                ELSE 3 * ARRAY + 6 * MBR_ENTRIES + 21

\* An installation that is refused leaves the disk as it found it.
RefusedLeavesDisk == pc = "failed" /\ ~faults => disk = start
==============================================================================
