------------------------------ MODULE Allocator ------------------------------
(***************************************************************************)
(* The heap of src/src/memory/allocator.c: malloc_internal and             *)
(* free_internal over one free list (the kernel's, or a process's).        *)
(*                                                                         *)
(* The linked list of block_t headers is the sequence of its blocks, in    *)
(* list order.  The header in front of a block handed out keeps its size;  *)
(* allocated holds those blocks.  Addresses are offsets from the start of  *)
(* the heap, in bytes.                                                     *)
(***************************************************************************)
EXTENDS Integers, Sequences

CONSTANTS
    HEAP_SIZE,      \* bytes in the heap (HEAP_SIZE in allocator.h)
    HEADER,         \* sizeof(block_t)
    ALIGN,          \* ALIGN in allocator.c
    WORD,           \* 2^64, where size_t wraps
    Requests        \* the sizes callers ask for

\* size_t holds every size the heap computes: ALIGN_UP(size + HEADER) does not
\* wrap for any size a caller asks for.
ASSUME AllocatorAssumption ==
    /\ HEAP_SIZE \in Nat /\ HEADER \in Nat /\ ALIGN \in Nat /\ WORD \in Nat
    /\ ALIGN > 0
    /\ HEAP_SIZE > HEADER
    /\ Requests \subseteq Nat
    /\ \A size \in Requests : size + HEADER + ALIGN <= WORD

VARIABLES
    free_list,      \* the free blocks, in list order
    allocated       \* the blocks handed out and not yet freed

vars == <<free_list, allocated>>

Block == [addr : 0 .. HEAP_SIZE, size : 1 .. HEAP_SIZE]

End(b) == b.addr + b.size

\* The list with b linked in as its i-th block.
LinkAt(list, i, b) == SubSeq(list, 1, i - 1) \o <<b>> \o SubSeq(list, i, Len(list))

\* The list without its i-th block.
UnlinkAt(list, i) == SubSeq(list, 1, i - 1) \o SubSeq(list, i + 1, Len(list))

Apart(b, c) == End(b) <= c.addr \/ End(c) <= b.addr

-----------------------------------------------------------------------------
\* allocator_heap_init: one free block, the whole heap.
Init ==
    /\ free_list = <<[addr |-> 0, size |-> HEAP_SIZE]>>
    /\ allocated = {}

-----------------------------------------------------------------------------
(* malloc_internal                                                         *)

\* ALIGN_UP(size + sizeof(block_t)) in size_t arithmetic.
BlockSize(size) ==
    LET sum == (size + HEADER + (ALIGN - 1)) % WORD
    IN  sum - (sum % ALIGN)

\* The loop stops at the first block that is large enough.
FirstFit(i, n) ==
    /\ free_list[i].size >= n
    /\ \A j \in 1 .. i - 1 : free_list[j].size < n

\* The rest of the block can hold a header and another allocation.
CanSplit(b, n) == b.size - n >= HEADER + ALIGN

\* Mistake: the header's bytes are not part of the block handed out.
SplitTooEarly(i, n) ==
    LET b == free_list[i]
    IN  /\ CanSplit(b, n)
        /\ free_list' = [free_list EXCEPT ![i] = [addr |-> b.addr + n - HEADER,
                                                  size |-> b.size - n + HEADER]]
        /\ allocated' = allocated \cup {[addr |-> b.addr, size |-> n]}

Split(i, n) ==
    LET b == free_list[i]
    IN  /\ CanSplit(b, n)
        /\ free_list' = [free_list EXCEPT ![i] = [addr |-> b.addr + n,
                                                  size |-> b.size - n]]
        /\ allocated' = allocated \cup {[addr |-> b.addr, size |-> n]}

\* The remainder stays inside the block handed out.
UseEntireBlock(i, n) ==
    /\ ~ CanSplit(free_list[i], n)
    /\ free_list' = UnlinkAt(free_list, i)
    /\ allocated' = allocated \cup {free_list[i]}

\* A request of no bytes and a request no block satisfies both return null.
MallocNull(size) ==
    /\ \/ size = 0
       \/ \A i \in DOMAIN free_list : free_list[i].size < BlockSize(size)
    /\ UNCHANGED vars

Malloc(size) ==
    /\ size # 0
    /\ \E i \in DOMAIN free_list :
         /\ FirstFit(i, BlockSize(size))
         /\ Split(i, BlockSize(size)) \/ UseEntireBlock(i, BlockSize(size))

-----------------------------------------------------------------------------
(* free_internal                                                           *)

\* Mistake: the freed block goes to the head of the list.
InsertAtHead(k, b) == k = 0

\* The insertion loop leaves k blocks in front of the freed one.
InsertionPoint(k, b) ==
    /\ \A j \in 1 .. k : free_list[j].addr < b.addr
    /\ k < Len(free_list) => free_list[k + 1].addr >= b.addr

\* Merges the i-th block with its successor when they touch.
Coalesce(list, i) ==
    IF /\ i \in 1 .. Len(list) - 1
       /\ End(list[i]) = list[i + 1].addr
    THEN UnlinkAt([list EXCEPT ![i].size = @ + list[i + 1].size], i + 1)
    ELSE list

\* Mistake: no merge with the predecessor.
FreeForward(b) ==
    /\ \E k \in 0 .. Len(free_list) :
         /\ InsertionPoint(k, b)
         /\ free_list' = Coalesce(LinkAt(free_list, k + 1, b), k + 1)
    /\ allocated' = allocated \ {b}

\* free(null) changes nothing.  A caller passes a pointer it got from malloc
\* and has not freed; the block is inserted, then merged with its successor
\* and with its predecessor.
Free(b) ==
    /\ \E k \in 0 .. Len(free_list) :
         /\ InsertionPoint(k, b)
         /\ free_list' = Coalesce(Coalesce(LinkAt(free_list, k + 1, b), k + 1), k)
    /\ allocated' = allocated \ {b}

-----------------------------------------------------------------------------
Next ==
    \/ \E size \in Requests : Malloc(size) \/ MallocNull(size)
    \/ \E b \in allocated : Free(b)

Spec == Init /\ [][Next]_vars

-----------------------------------------------------------------------------
(* Properties                                                              *)

\* Every block, free or handed out, begins in the heap and is not empty.
TypeOK ==
    /\ free_list \in Seq(Block)
    /\ allocated \subseteq Block

\* No two blocks, free or handed out, share a byte, and none leaves the heap:
\* malloc never hands out memory that is in use, whatever was split and merged
\* before.
NoOverlap ==
    /\ \A b \in allocated : End(b) <= HEAP_SIZE
    /\ \A b, c \in allocated : b # c => Apart(b, c)
    /\ \A i \in DOMAIN free_list : End(free_list[i]) <= HEAP_SIZE
    /\ \A i \in DOMAIN free_list : \A b \in allocated : Apart(free_list[i], b)
    /\ \A i, j \in DOMAIN free_list : i < j => End(free_list[i]) <= free_list[j].addr

\* Every byte of the heap is in a free block or in one handed out: splitting,
\* using an entire block and coalescing lose none.
Bytes(b) == b.addr .. End(b) - 1

NothingLost ==
    \A x \in 0 .. HEAP_SIZE - 1 :
        \/ \E i \in DOMAIN free_list : x \in Bytes(free_list[i])
        \/ \E b \in allocated : x \in Bytes(b)

\* Freeing merges: no two neighbours in the free list touch, so a run of free
\* bytes is one block and a request that fits it is served.
FullyCoalesced ==
    \A i \in 1 .. Len(free_list) - 1 : End(free_list[i]) # free_list[i + 1].addr

\* Every block is longer than the header that free_internal writes into it.
HeaderFits ==
    /\ \A i \in DOMAIN free_list : free_list[i].size > HEADER
    /\ \A b \in allocated : b.size > HEADER

\* When everything has been freed the heap is one block again, whatever the
\* order of the mallocs and frees: fragmentation is never permanent.
WholeAgain ==
    allocated = {} => free_list = <<[addr |-> 0, size |-> HEAP_SIZE]>>

\* The blocks tile the heap: whatever was split, used whole and merged before, no
\* byte is in two blocks or in none, every block has room for its header, and a
\* run of free bytes is one block, so that a request that fits it is served.
HeapTiled == NoOverlap /\ NothingLost /\ FullyCoalesced /\ HeaderFits

\* The allocator implements the promise of module Heap.
Promise == INSTANCE Heap
ImplementsHeap == Promise!Spec
=============================================================================
