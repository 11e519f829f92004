---------------------------- MODULE MCFileSystem -----------------------------
(* FileSystem for TLC: a small disk and paths of at most two names.         *)
EXTENDS FileSystem, TLC

CONSTANTS a, b, u

\* No name is long enough to be cut.
Whole == [n \in Names |-> n]

\* Two names in the root and one below the first of them.
Tree == {<<a>>, <<b>>, <<a, b>>}

\* One name in the root and two below it.
Below == {<<a>>, <<a, a>>, <<a, b>>}

\* What tells two states apart: not the last call, which is history, nor a table
\* slot that is not in use, nor where an empty file starts.  Nothing follows a
\* wild state.
Table == [i \in Slots |-> LET e == disk.table[i]
                          IN  <<e.used, IF e.used THEN e.type ELSE "",
                                IF e.used THEN e.size ELSE 0,
                                IF i \in Filled(disk.table) THEN e.start ELSE 0>>]

DiskView == IF wild THEN <<>> ELSE <<Table, disk.data>>

\* While the machine stays on, the sectors no file owns are written before they
\* are read again.
Owned(x) == \E i \in Filled(disk.table) :
                x \in disk.table[i].start .. End(disk.table[i]) - 1

OwnedView ==
    IF wild THEN <<>>
    ELSE <<Table, [x \in DOMAIN disk.data |-> IF Owned(x) THEN disk.data[x] ELSE <<>>]>>
=============================================================================
