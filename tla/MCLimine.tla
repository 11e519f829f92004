------------------------------- MODULE MCLimine ------------------------------
(* Limine for TLC: disks of sixteen to twenty sectors, with logical blocks   *)
(* of one sector and of two, and files of a few characters.                  *)
EXTENDS Limine

\* It begins as its own second character goes on.
SmallSignature == <<"+", "+", "C">>

SmallFiles == UNION {[1 .. n -> {"+", "C", "x"}] : n \in {0, 4, 5, 6, 7}}

Guesses == <<1, 2>>

Part(type, first, last) ==
    [used |-> type # "none", type |-> type, first |-> first, last |-> last]

Unused == Part("none", 0, 0)

Array(list) == [kind |-> "array", list |-> list]

Data(s) == [kind |-> "data", id |-> s]

\* Entry lists, in blocks of one sector: boot partitions, partitions that can be
\* converted, one that is too low, too many, one that is reversed.
Lists1 ==
    {<<Unused, Part("bios", 6, 9), Part("data", 10, 11)>>,
     <<Part("efi", 6, 8), Part("data", 9, 11)>>,
     <<Part("hfs", 6, 9), Part("data", 10, 13)>>,
     <<Part("data", 6, 9), Part("bios", 10, 11)>>,
     <<Part("efi", 4, 6)>>,
     <<Part("efi", 6, 7), Part("data", 8, 9), Part("data", 10, 11)>>,
     <<Part("bios", 9, 8)>>}

\* In blocks of two sectors.
Lists2 == {<<Part("bios", 3, 4)>>, <<Unused, Part("efi", 3, 4)>>}

EntryOf(type, flag, first, count) ==
    [flag |-> flag, type |-> type, first |-> first, count |-> count, chs |-> <<>>]

Mbr(table, sig, fat) ==
    [BlankMbr EXCEPT !.code = "old", !.stamp = "old", !.id = "old", !.sig = sig,
                     !.fat = fat,
                     !.table = [n \in 1 .. MBR_ENTRIES |->
                                 IF n \in DOMAIN table THEN table[n] ELSE NoEntry]]

Protective == Mbr(<<EntryOf("ee", "off", 1, 15)>>, TRUE, FALSE)

Header(my, other, first, last, array, list, crc) ==
    [kind |-> "header", my_lba |-> my, alternate_lba |-> other,
     first_usable |-> first, last_usable |-> last, array_lba |-> array,
     array_size |-> 1, entries |-> Array(list), crc |-> crc]

\* A sector of data, of a file system if marks says so; the image's signature.
Filled(n, iso, marks) ==
    [s \in 0 .. n - 1 |->
        IF iso /\ s = ISO THEN [kind |-> "iso"]
        ELSE IF s \in DOMAIN marks THEN [kind |-> marks[s]]
        ELSE Data(s)]

NoMarks == [s \in {} |-> ""]

Over(d, changes) ==
    [s \in DOMAIN d |-> IF s \in DOMAIN changes THEN changes[s] ELSE d[s]]

Readably(d) == [disk |-> d, unreadable |-> {}]

\* A GPT with blocks of lb sectors on a device of n sectors.  p and a say whether
\* the headers are intact; last is the last usable block, two or more in front of
\* the alternate header.
Gpt(n, lb, iso, marks, mbr0, list, first, last, alt, p, a) ==
    Over(Filled(n, iso, marks),
         [s \in {0, lb, 2 * lb, (alt - 1) * lb, alt * lb} |->
            CASE s = 0 -> mbr0
              [] s = lb -> Header(1, alt, first, last, 2, list, p)
              [] s = alt * lb -> Header(alt, 1, first, last, alt - 1, list, a)
              [] OTHER -> Array(list)])

\* Headers in every state, with the alternate in the last block.
Whole ==
    {Gpt(16, 1, iso, NoMarks, mbr0, list, 3, 13, 15, p, a) :
       iso \in BOOLEAN, mbr0 \in {Protective, Mbr(<<>>, TRUE, FALSE)},
       list \in Lists1, p \in BOOLEAN, a \in BOOLEAN}

\* No primary table is left.
Gone == {Over(d, [s \in {1, 2} |-> Data(s)]) : d \in {w \in Whole : w[1].crc}}

\* A disk imaged onto a larger one, with what was in the larger one's last block.
Imaged ==
    {Over(Gpt(20, 1, TRUE, NoMarks, Protective, list, 6, 12, 14, p, TRUE), end) :
       list \in {<<Part("efi", 6, 8), Part("data", 9, 11)>>,
                 <<Part("bios", 6, 9)>>},
       p \in BOOLEAN,
       end \in {NoMarks, [s \in {19} |-> Header(19, 1, 6, 12, 18, <<>>, FALSE)],
               [s \in {18, 19} |->
                  IF s = 18 THEN Array(<<Part("data", 7, 12)>>)
                  ELSE Header(19, 1, 6, 12, 18, <<Part("data", 7, 12)>>, TRUE)]}}

\* The array of the primary table is damaged.
Damaged == {Over(d, [s \in {2} |-> Data(2)]) : d \in Imaged}

\* An alternate header in what its own table calls usable.
Inside ==
    {Gpt(16, 1, TRUE, NoMarks, Protective, <<Part("data", 6, 8)>>, 3, 14, 12, TRUE,
         TRUE)}

\* Blocks of two sectors; a device may end in the middle of one.
Blocks2 ==
    {Gpt(n, 2, iso, NoMarks, Protective, list, 3, 5, 7, p, a) :
       n \in {16, 17}, iso \in BOOLEAN, list \in Lists2, p \in BOOLEAN,
       a \in BOOLEAN}

\* A file system in the boot partition.
Marked ==
    {Gpt(16, 1, FALSE, marks, Protective, <<Part("bios", 6, 9)>>, 3, 12, 15, TRUE,
         TRUE) :
       marks \in {[s \in {6} |-> "fat"], [s \in {8} |-> "ext"],
                  [s \in {6, 8} |-> IF s = 6 THEN "fat" ELSE "ext"]}}

Tables ==
    {<<>>,
     <<EntryOf("data", "on", 6, 4), EntryOf("data", "off", 10, 3)>>,
     <<EntryOf("data", "badon", 6, 4), EntryOf("data", "badoff", 10, 3)>>,
     <<EntryOf("data", "badoff", 6, 4)>>,
     <<EntryOf("none", "badon", 0, 0), EntryOf("data", "off", 4, 3)>>}

MbrDisks ==
    {Over(Filled(16, FALSE, marks), [s \in {0} |-> Mbr(table, sig, fat)]) :
       table \in Tables, sig \in BOOLEAN, fat \in BOOLEAN,
       marks \in {NoMarks, [s \in {2} |-> "ext"]}}

\* Sectors that cannot be read: the signature, one the search for the end of the
\* device meets, the last, one that stage 2 needs.
Failing ==
    {[disk |-> d, unreadable |-> {s}] :
       d \in Imaged \cup Marked \cup {Over(Filled(16, FALSE, NoMarks),
                 [s \in {0} |-> Mbr(<<EntryOf("data", "on", 6, 4)>>, TRUE, FALSE)])},
       s \in {2, 4, 7, 14, 15}}

SmallDisks ==
    Failing \cup {Readably(d) : d \in Whole \cup Gone \cup Imaged \cup Damaged \cup Inside
                                      \cup Blocks2 \cup Marked \cup MbrDisks}
=============================================================================
