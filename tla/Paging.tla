------------------------------- MODULE Paging --------------------------------
(***************************************************************************)
(* The virtual memory manager of src/src/memory/vmm.c over the frames of   *)
(* pmm.c: four-level page tables in frames, address spaces that share the  *)
(* kernel half, and vmm_alloc with its rollback.                           *)
(*                                                                         *)
(* mem is what the frames used as tables hold; what other frames hold does *)
(* not matter.  Virtual addresses are page numbers.  An entry that is not  *)
(* present is NotPresent: the code never looks at the rest of it.          *)
(*                                                                         *)
(* Callers of the memory manager run with interrupts off.  A loop over     *)
(* pages (vmm_alloc, vmm_free, vmm_edit_pages) takes one step per page,    *)
(* and nothing else happens during it.                                     *)
(***************************************************************************)
EXTENDS Frames, FiniteSets

CONSTANTS
    ENTRIES,        \* entries in a table (512)
    LIMINE,         \* the frame of the bootloader's tables of the kernel half
    KernelRanges,   \* <<first, last>>: pages kernel code maps at boot
    Segments,       \* <<first, last>>: pages of a program's segments
    Heaps,          \* <<first, last>>: pages of a process's heap
    MaxSpaces       \* bound: processes in one behaviour

Index == 0 .. ENTRIES - 1

Page == 0 .. ENTRIES * ENTRIES * ENTRIES * ENTRIES - 1

PML4_INDEX(page) == (page \div (ENTRIES * ENTRIES * ENTRIES)) % ENTRIES
PDPT_INDEX(page) == (page \div (ENTRIES * ENTRIES)) % ENTRIES

\* Mistake: the shift of another level.
PD_INDEX_Shifted(page) == PDPT_INDEX(page)

PD_INDEX(page) == (page \div ENTRIES) % ENTRIES
PT_INDEX(page) == page % ENTRIES

\* The entries of a PML4 that are the kernel's: 256 to 511 in the code.
KernelHalf == ENTRIES \div 2 .. ENTRIES - 1

Flags == {"table", "kernel", "user"}

NotPresent == [present |-> FALSE, addr |-> 0, flags |-> "none"]

To(frame, flags) == [present |-> TRUE, addr |-> frame, flags |-> flags]

Entry == {NotPresent} \cup {To(f, flags) : f \in Frame, flags \in Flags}

EmptyTable == [i \in Index |-> NotPresent]

\* A range is pages of one half, and the bootloader's tables are in memory that
\* is not usable.
ASSUME PagingAssumption ==
    /\ ENTRIES \in Nat /\ ENTRIES >= 2
    /\ LIMINE \in pmm_init /\ LIMINE # 0 /\ UsableBytes(LIMINE) = {}
    /\ KernelRanges \cup Segments \cup Heaps \subseteq Page \X Page
    /\ \A range \in Segments \cup Heaps : \A page \in range[1] .. range[2] :
         PML4_INDEX(page) \notin KernelHalf
    /\ MaxSpaces \in Nat

VARIABLES
    reserved,       \* pmm_bitmap: the frames whose bit is set
    mem,            \* what tables hold
    kernel_PML4,    \* the kernel process's PML4
    spaces,         \* the PML4s of the processes
    current_PML4,
    call,           \* the loop that is under way
    phase,          \* "run"; "panic"; "wild": frame 0 was taken for a table
    before          \* history: mem when the loop began

vars == <<reserved, mem, kernel_PML4, spaces, current_PML4, call, phase, before>>

\* first, last: the pages of the loop; page: the next one.  "undo" is the
\* rollback of vmm_alloc.
Call == [op : {"none", "alloc", "undo", "free", "edit"},
         first : Nat, last : Int, page : Nat, flags : Flags \cup {"none"}]

NoCall == [op |-> "none", first |-> 0, last |-> 0, page |-> 0, flags |-> "none"]

Idle == phase = "run" /\ call.op = "none"

-----------------------------------------------------------------------------
(* Tables                                                                  *)

\* The entry with index i of the table that e points to.
Child(m, e, i) == IF e.present THEN m[e.addr][i] ELSE NotPresent

\* The entry of the page directory that covers the page.
TableEntry(m, space, page) ==
    Child(m, Child(m, m[space][PML4_INDEX(page)], PDPT_INDEX(page)), PD_INDEX(page))

\* The walk of vmm_is_mapped, vmm_virt_to_phys, vmm_unmap_page, vmm_edit_page.
PageEntry(m, space, page) == Child(m, TableEntry(m, space, page), PT_INDEX(page))

\* The state of the memory manager inside vmm_map_page: bitmap and tables, the table
\* reached, and whether null was taken for a table on the way.
Walk(r, m, table) == [reserved |-> r, mem |-> m, at |-> table, null |-> FALSE]

\* One level of vmm_map_page: the table below entry i of the table reached, made
\* when there is none.  pmm_alloc_frame's null has hhdm_offset added before it
\* is compared with null: the comparison is never true, and frame 0 is cleared
\* and used.
Descend(w, i) ==
    LET e == w.mem[w.at][i]
        f == pmm_alloc_frame(w.reserved)
    IN  IF e.present
        THEN [w EXCEPT !.at = e.addr]
        ELSE [reserved |-> pmm_set_frame(w.reserved, f, TRUE),
              mem |-> [w.mem EXCEPT ![f] = EmptyTable, ![w.at][i] = To(f, "table")],
              at |-> f,
              null |-> w.null \/ f = 0]

\* The page table for the page.
DescendToTable(r, m, page) ==
    Descend(Descend(Descend(Walk(r, m, current_PML4), PML4_INDEX(page)),
                    PDPT_INDEX(page)),
            PD_INDEX(page))

-----------------------------------------------------------------------------
(* vmm_init, vmm_create_PML4, vmm_copy_kernel_PML4, vmm_set_PML4           *)

\* vmm_init: a PML4 with the kernel half of the bootloader's.  Null is not noticed.
Init ==
    LET f == pmm_alloc_frame(pmm_init)
    IN  /\ reserved = pmm_set_frame(pmm_init, f, TRUE)
        /\ kernel_PML4 = f
        /\ mem = [[t \in Frame |-> EmptyTable] EXCEPT ![f][ENTRIES - 1] = To(LIMINE, "table")]
        /\ spaces = {}
        /\ current_PML4 = f
        /\ call = NoCall
        /\ phase = IF f = 0 THEN "wild" ELSE "run"
        /\ before = <<>>

\* Mistake: every entry is copied.
WholeCopied(m, to) == [m EXCEPT ![to] = m[kernel_PML4]]

\* Mistake: the loop starts one entry too late.
CopiedFromNext(m, to) ==
    [m EXCEPT ![to] = [i \in Index |-> IF i \in KernelHalf \ {ENTRIES \div 2}
                                      THEN m[kernel_PML4][i] ELSE @[i]]]

\* vmm_copy_kernel_PML4 from the kernel's PML4.
KernelHalfCopied(m, to) ==
    [m EXCEPT ![to] = [i \in Index |-> IF i \in KernelHalf THEN m[kernel_PML4][i] ELSE @[i]]]

\* Kernel code has mapped the range.
KernelHas(range) ==
    \A page \in range[1] .. range[2] : PageEntry(mem, kernel_PML4, page).present

\* The start of program_loader_load_elf64: vmm_create_PML4, the kernel half,
\* vmm_set_PML4.  Null is not noticed here either.
CreateSpace ==
    LET f == pmm_alloc_frame(reserved)
    IN  /\ Idle
        /\ \A range \in KernelRanges : KernelHas(range)
        /\ Cardinality(spaces) < MaxSpaces
        /\ reserved' = pmm_set_frame(reserved, f, TRUE)
        /\ mem' = KernelHalfCopied([mem EXCEPT ![f] = EmptyTable], f)
        /\ spaces' = spaces \cup {f}
        /\ current_PML4' = f
        /\ phase' = IF f = 0 THEN "wild" ELSE phase
        /\ UNCHANGED <<kernel_PML4, call, before>>

\* The end of process_scheduler_next_process, and, for the kernel's PML4, its
\* beginning.
Switch(space) ==
    /\ Idle
    /\ mem' = KernelHalfCopied(mem, space)
    /\ current_PML4' = space
    /\ UNCHANGED <<reserved, kernel_PML4, spaces, call, phase, before>>

-----------------------------------------------------------------------------
(* Loops over the pages of a range                                         *)

Begin(op, range, flags) ==
    /\ Idle
    /\ call' = [op |-> op, first |-> range[1], last |-> range[2], page |-> range[1],
                flags |-> flags]
    /\ before' = mem
    /\ UNCHANGED <<reserved, mem, kernel_PML4, spaces, current_PML4, phase>>

\* Kernel code maps its memory once, at boot, before there are processes
\* (allocator_heap_init); later only processes get memory (the loader).
AllocBegins ==
    \/ /\ spaces = {}
       /\ \E range \in KernelRanges : ~ KernelHas(range) /\ Begin("alloc", range, "kernel")
    \/ /\ current_PML4 # kernel_PML4
       /\ \/ \E range \in Segments : Begin("alloc", range, "kernel")
          \/ \E range \in Heaps : Begin("alloc", range, "user")

\* The loader makes segments accessible to the process; a process's heap is
\* freed when it is removed.
EditBegins ==
    /\ current_PML4 # kernel_PML4
    /\ \E range \in Segments : Begin("edit", range, "user")

FreeBegins ==
    /\ current_PML4 # kernel_PML4
    /\ \E range \in Heaps : Begin("free", range, "none")

MorePages == call.page <= call.last

InLoop(op) == phase = "run" /\ call.op = op /\ MorePages

NextPage == call' = [call EXCEPT !.page = @ + 1]

\* Mistake: the rollback starts at the second page.
RollBackFromNext ==
    call' = [call EXCEPT !.op = "undo", !.last = call.page - 1, !.page = call.first + 1]

\* failed_i: the pages before the current one are unmapped again.
RollBack == call' = [call EXCEPT !.op = "undo", !.last = call.page - 1, !.page = call.first]

\* The page table entry of the page becomes e.
Updated(m, page, e) ==
    [m EXCEPT ![TableEntry(m, current_PML4, page).addr][PT_INDEX(page)] = e]

\* Mistake: the frame is not given back.
FrameKept(w, f) == w.reserved

\* vmm_map_page failed: vmm_alloc gives the frame back.
FrameGivenBack(w, f) == pmm_set_frame(w.reserved, f, FALSE)

\* One iteration of vmm_alloc: a frame, then vmm_map_page, which makes the tables it needs
\* and refuses a page that is mapped.
AllocPage ==
    LET f == pmm_alloc_frame(reserved)
        w == DescendToTable(pmm_set_frame(reserved, f, TRUE), mem, call.page)
        i == PT_INDEX(call.page)
    IN  /\ InLoop("alloc")
        /\ \/ /\ f = 0
              /\ RollBack
              /\ UNCHANGED <<reserved, mem, phase>>
           \/ /\ f # 0
              /\ w.mem[w.at][i].present
              /\ reserved' = FrameGivenBack(w, f)
              /\ mem' = w.mem
              /\ RollBack
              /\ phase' = IF w.null THEN "wild" ELSE phase
           \/ /\ f # 0
              /\ ~ w.mem[w.at][i].present
              /\ reserved' = w.reserved
              /\ mem' = [w.mem EXCEPT ![w.at][i] = To(f, call.flags)]
              /\ NextPage
              /\ phase' = IF w.null THEN "wild" ELSE phase
        /\ UNCHANGED <<kernel_PML4, spaces, current_PML4, before>>

\* One iteration of vmm_free, and of the rollback: vmm_unmap_page.
UnmapPage ==
    LET e == PageEntry(mem, current_PML4, call.page)
    IN  /\ InLoop("undo") \/ InLoop("free")
        /\ IF e.present
           THEN /\ reserved' = pmm_set_frame(reserved, e.addr, FALSE)
                /\ mem' = Updated(mem, call.page, NotPresent)
           ELSE UNCHANGED <<reserved, mem>>
        /\ NextPage
        /\ UNCHANGED <<kernel_PML4, spaces, current_PML4, phase, before>>

\* One iteration of vmm_edit_pages: vmm_edit_page with no new frame.
EditPage ==
    LET e == PageEntry(mem, current_PML4, call.page)
    IN  /\ InLoop("edit")
        /\ mem' = IF e.present
                  THEN Updated(mem, call.page, To(e.addr, call.flags))
                  ELSE mem
        /\ NextPage
        /\ UNCHANGED <<reserved, kernel_PML4, spaces, current_PML4, phase, before>>

\* The loop is over.  A kernel that cannot map its heap panics
\* (process_scheduler_init).
Return ==
    /\ phase = "run" /\ call.op # "none" /\ ~ MorePages
    /\ call' = NoCall
    /\ before' = <<>>
    /\ phase' = IF call.op = "undo" /\ current_PML4 = kernel_PML4 THEN "panic" ELSE phase
    /\ UNCHANGED <<reserved, mem, kernel_PML4, spaces, current_PML4>>

-----------------------------------------------------------------------------
Next ==
    \/ CreateSpace
    \/ \E space \in spaces \cup {kernel_PML4} : Switch(space)
    \/ AllocBegins \/ EditBegins \/ FreeBegins
    \/ AllocPage \/ UnmapPage \/ EditPage \/ Return

Spec == Init /\ [][Next]_vars

-----------------------------------------------------------------------------
(* Properties                                                              *)

PML4s == spaces \cup {kernel_PML4}

\* The frames that the entries of these tables point to.
Below(tables) ==
    {f \in Frame : \E t \in tables, i \in Index : mem[t][i].present /\ mem[t][i].addr = f}

\* The tables of every address space, and the frames they map.
PDPTs == Below(PML4s)
Directories == Below(PDPTs)
PageTables == Below(Directories)
Tables == PML4s \cup PDPTs \cup Directories \cup PageTables
Mapped == Below(PageTables)

\* The frame bitmap and the page tables agree: a frame taken since pmm_init is a
\* table or is mapped, so none is lost by a failed vmm_alloc or an unmapping,
\* and a frame in use is never free to be handed out again.
BitmapIsExact ==
    phase = "run" => reserved = pmm_init \cup Tables \cup Mapped

\* A frame has one owner: no two entries of tables in use point to it, apart
\* from the entries of the kernel half that all PML4s share, and no entry
\* points to a PML4.  No page of one process is ever visible in another.
OneOwner ==
    phase = "run" =>
        \A t, u \in Tables : \A i, j \in Index :
            mem[t][i].present =>
                /\ mem[t][i].addr \notin PML4s
                /\ mem[u][j].present /\ mem[u][j].addr = mem[t][i].addr =>
                       /\ i = j
                       /\ t = u \/ ({t, u} \subseteq PML4s /\ i \in KernelHalf)

\* Every process has the whole kernel half: interrupts and syscalls find the
\* kernel whichever PML4 is loaded.
KernelHalfShared ==
    phase = "run" =>
        \A space \in spaces : \A i \in KernelHalf : mem[space][i] = mem[kernel_PML4][i]

\* The bitmap is never overwritten: pmm_init frees the rest of its region from
\* the middle of a frame, and yet no frame that holds a byte of it is free, is a
\* table or is mapped.
BitmapKept ==
    LET own == {x \div FRAME_SIZE : x \in bitmap_phys .. bitmap_phys + pmm_bitmap_size - 1}
    IN  own \cap (Free(reserved) \cup Tables \cup Mapped) = {}

Returns(op) == call.op = op /\ call'.op = "none"

\* A vmm_alloc that fails, at whichever page and for whichever reason, leaves
\* every page of every address space as it was before the call, although the
\* tables it made stay.
FailedAllocRestores ==
    [][Returns("undo") =>
         \A space \in PML4s, page \in Page :
             PageEntry(mem, space, page) = PageEntry(before, space, page)]_vars

\* vmm_alloc, vmm_free and vmm_edit_pages leave pages outside their range and
\* other address spaces alone, and vmm_edit_pages leaves every page where it is.
OtherPagesKept ==
    [][call.op # "none" /\ call'.op = "none" =>
         \A space \in PML4s, page \in Page :
             LET old == PageEntry(before, space, page)
                 new == PageEntry(mem, space, page)
             IN  \/ old = new
                 \/ /\ space = current_PML4
                    /\ page \in call.first .. call.last
                    /\ call.op = "edit" => new = [old EXCEPT !.flags = "user"]]_vars
=============================================================================
