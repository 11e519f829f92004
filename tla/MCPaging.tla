------------------------------ MODULE MCPaging -------------------------------
(* Paging for TLC: memory maps of a few frames of four bytes.                *)
EXTENDS Paging

\* The bootloader's tables between two usable regions.  pmm_init frees the frame
\* behind the first one, too.
TwoRegions ==
    <<[base |-> 4, length |-> 8, usable |-> TRUE],
      [base |-> 12, length |-> 8, usable |-> FALSE],
      [base |-> 20, length |-> 76, usable |-> TRUE]>>

\* The kernel's heap, in the kernel half, and its allocator_data in the lower.
KernelPages == {<<128, 129>>, <<2, 2>>}

\* A segment that needs two page tables, and a heap that shares a page with it.
SegmentPages == {<<3, 4>>}
HeapPages == {<<4, 5>>}
=============================================================================
