-------------------------------- MODULE Heap --------------------------------
(***************************************************************************)
(* What a heap promises its callers: the blocks handed out and not yet     *)
(* freed lie inside the heap and never overlap.  How the heap finds a      *)
(* block, and when it gives up, is left open.                              *)
(***************************************************************************)
EXTENDS Integers

CONSTANT HEAP_SIZE      \* bytes in the heap

VARIABLE allocated      \* the blocks handed out and not yet freed

\* A block is its first byte (an offset from the start of the heap) and its
\* length, the header included.
Block == [addr : 0 .. HEAP_SIZE, size : 1 .. HEAP_SIZE]

End(b) == b.addr + b.size

\* Two blocks that share no byte.
Apart(b, c) == End(b) <= c.addr \/ End(c) <= b.addr

Init == allocated = {}

\* The caller receives some block that overlaps no other.
Allocate(b) ==
    /\ End(b) <= HEAP_SIZE
    /\ \A c \in allocated : Apart(b, c)
    /\ allocated' = allocated \cup {b}

\* The caller gives a block back.
Release(b) == b \in allocated /\ allocated' = allocated \ {b}

Next == \E b \in Block : Allocate(b) \/ Release(b)

Spec == Init /\ [][Next]_allocated
=============================================================================
