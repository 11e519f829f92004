------------------------------ MODULE MCDevice -------------------------------
(* Device for TLC: a medium of a few blocks of two bytes.                    *)
EXTENDS Device

\* Inside a block, over one boundary or two, and over the end of the medium.
SmallRanges == {<<0, 1>>, <<1, 2>>, <<2, 2>>, <<1, 4>>, <<4, 3>>}
=============================================================================
