------------------------------- MODULE Frames --------------------------------
(***************************************************************************)
(* The physical memory manager of src/src/memory/pmm.c: a bitmap with one  *)
(* bit per frame, set up from the bootloader's memory map.  The bitmap is  *)
(* the set of frames whose bit is set; a frame is named by its number, and *)
(* frame 0 is the address null.                                            *)
(***************************************************************************)
EXTENDS Integers, Sequences, FiniteSetsExt

CONSTANTS
    FRAME_SIZE,     \* bytes in a frame
    MemoryMap       \* the bootloader's map: base, length (in bytes), usable

Limit(entry) == entry.base + entry.length

UsableEntries == {k \in DOMAIN MemoryMap : MemoryMap[k].usable}

top_of_ram == Max({Limit(MemoryMap[k]) : k \in UsableEntries} \cup {0})

total_frames == top_of_ram \div FRAME_SIZE

pmm_bitmap_size == (total_frames + 7) \div 8

\* The frames the allocator can hand out, and frame 0.
Frame == 0 .. total_frames - 1

\* The map ends somewhere, usable memory is whole frames and leaves out frame 0,
\* as the bootloader promises, and there is room for the bitmap.
ASSUME FramesAssumption ==
    /\ FRAME_SIZE \in Nat \ {0}
    /\ MemoryMap \in Seq([base : Nat, length : Nat, usable : BOOLEAN])
    /\ top_of_ram \in Nat
    /\ \A k \in UsableEntries :
         /\ MemoryMap[k].base >= FRAME_SIZE
         /\ MemoryMap[k].base % FRAME_SIZE = 0 /\ MemoryMap[k].length % FRAME_SIZE = 0
    /\ \E k \in UsableEntries : MemoryMap[k].length >= pmm_bitmap_size

-----------------------------------------------------------------------------
(* pmm_init                                                                *)

\* The bitmap goes to the start of the first usable region that is large enough.
BitmapEntry ==
    Min({k \in UsableEntries : MemoryMap[k].length >= pmm_bitmap_size})

bitmap_phys == MemoryMap[BitmapEntry].base

\* The region that holds the bitmap now starts behind it.
Adjusted(k) ==
    IF k = BitmapEntry
    THEN [MemoryMap[k] EXCEPT !.base = @ + pmm_bitmap_size,
                              !.length = @ - pmm_bitmap_size]
    ELSE MemoryMap[k]

\* The frames from the one that holds start to the one that holds end, both
\* included.
Region(start, end) == start \div FRAME_SIZE .. end \div FRAME_SIZE

BitmapFrames == Region(bitmap_phys, bitmap_phys + pmm_bitmap_size)

Freed == UNION {Region(Adjusted(k).base, Limit(Adjusted(k))) : k \in UsableEntries}

\* Mistake: the bitmap is not reserved again.
InitWithoutBitmap == Frame \ Freed

\* Every bit is set, the usable regions are freed, the bitmap is reserved again.
\* Bits from total_frames on are outside the loop of pmm_alloc_frame.
pmm_init ==
    (Frame \ Freed) \cup (BitmapFrames \cap Frame)

-----------------------------------------------------------------------------
(* Frames are handed out and given back                                    *)

Free(reserved) == Frame \ reserved

\* pmm_alloc_frame: the first free frame, or null (0) when there is none.
pmm_alloc_frame(reserved) ==
    IF Free(reserved) = {} THEN 0 ELSE Min(Free(reserved))

\* pmm_set_frame
pmm_set_frame(reserved, frame, used) ==
    IF used THEN reserved \cup {frame} ELSE reserved \ {frame}

-----------------------------------------------------------------------------
\* The bytes of a frame the map calls usable.
UsableBytes(frame) ==
    {x \in frame * FRAME_SIZE .. (frame + 1) * FRAME_SIZE - 1 :
        \E k \in UsableEntries : MemoryMap[k].base <= x /\ x < Limit(MemoryMap[k])}
=============================================================================
