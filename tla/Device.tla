------------------------------- MODULE Device --------------------------------
(***************************************************************************)
(* The block layer of the boot loader's installer, src/limine-binary/      *)
(* limine.c: a cache of one block in front of the device, a list of what   *)
(* every write replaced, and the undo that writes it back, after a failure *)
(* or in a later run from a file.                                          *)
(*                                                                         *)
(* Any seek, read, write or flush of the device may fail.  A failed write  *)
(* of a block leaves the block on the medium as it was, or with a first    *)
(* part of the new bytes, or with all of them.  The installer itself is    *)
(* any sequence of reads and writes (module Installer has the real one).   *)
(***************************************************************************)
EXTENDS Integers, Sequences

CONSTANTS
    block_size,             \* bytes in a block
    Blocks,                 \* blocks of the medium
    UNINSTALL_DATA_MAX,     \* entries in the undo list (256)
    Ranges,                 \* <<loc, count>>: what the installer may access
    MaxRequests             \* bound: reads and writes in one installation

VARIABLES
    disk,               \* the medium
    cached_block,       \* the block in the cache, or NoBlock
    cache,              \* its bytes
    cache_state,
    uninstall_data,     \* [loc, data], in the order of the writes, then reversed
    udfile,             \* the undo file; NoFile if it was not written whole
    pc,
    request,            \* the call of device_read_raw or of the write loop
    progress,           \* its progress
    got,                \* the bytes read so far
    saving,             \* [loc, data, old]: the write under way, or NoRequest
    broken,             \* history: addresses of the write that was given up
    requests,           \* how many requests the installer has made
    i, retry, print_write_fail, print_cache_flush_fail      \* of uninstall()

cacheVars == <<cached_block, cache, cache_state>>
callVars == <<request, progress, got, saving, broken>>
undoVars == <<i, retry, print_write_fail, print_cache_flush_fail>>
vars == <<disk, cacheVars, uninstall_data, udfile, pc, callVars, requests,
          undoVars>>

ASSUME DeviceAssumption ==
    /\ block_size \in Nat \ {0} /\ Blocks \in Nat \ {0}
    /\ UNINSTALL_DATA_MAX \in Nat /\ MaxRequests \in Nat
    /\ Ranges \subseteq Nat \X (Nat \ {0})

Addr == 0 .. Blocks * block_size - 1
Offset == 0 .. block_size - 1
NoBlock == -1
Request == [kind : {"read", "write"}, loc : Nat, data : Seq(Nat)]
NoRequest == [kind |-> "none"]
NoFile == [whole |-> FALSE, entries |-> <<>>]

\* The medium before the installation.  Every byte differs, so that one put
\* back in the wrong place is seen.
Original == [a \in Addr |-> a]

\* The bytes of the n-th request.
Bytes(n, count) == [j \in 1 .. count |-> 100 * n + j]

----------------------------------------------------------------------------
(* The cache of one block. *)

\* The medium with the first n bytes of the cache written to its block.
Written(n) ==
    [a \in Addr |-> IF a \div block_size = cached_block /\ a % block_size < n
                    THEN cache[a % block_size] ELSE disk[a]]

\* Mistake: clean whatever fflush() answered.
device_flush_cache_Unchecked(ok) ==
    \/ cache_state = "CLEAN" /\ ok /\ UNCHANGED <<disk, cache_state>>
    \/ /\ cache_state = "DIRTY" /\ ok
       /\ disk' \in {Written(n) : n \in 0 .. block_size}
       /\ cache_state' = "CLEAN"

device_flush_cache(ok) ==
    \/ cache_state = "CLEAN" /\ ok /\ UNCHANGED <<disk, cache_state>>
    \/ /\ cache_state = "DIRTY" /\ ok
       /\ disk' = Written(block_size)
       /\ cache_state' = "CLEAN"
    \/ /\ cache_state = "DIRTY" /\ ~ok
       /\ disk' \in {Written(n) : n \in 0 .. block_size}
       /\ UNCHANGED cache_state

\* Mistake: the cached block keeps its name when the read comes up short.
device_cache_block_Stale(b, ok) ==
    \/ cached_block = b /\ ok /\ UNCHANGED <<disk, cacheVars>>
    \/ /\ cached_block # b /\ ~ok
       /\ device_flush_cache(FALSE) /\ UNCHANGED <<cached_block, cache>>
    \/ /\ cached_block # b
       /\ device_flush_cache(TRUE)
       /\ \/ /\ ~ok /\ cached_block' = cached_block
             /\ \E n \in Offset :
                  cache' = [o \in Offset |->
                      IF o < n /\ b < Blocks
                      THEN disk'[b * block_size + o] ELSE cache[o]]
          \/ /\ ok /\ b < Blocks
             /\ cached_block' = b
             /\ cache' = [o \in Offset |-> disk'[b * block_size + o]]

\* A seek that fails leaves the cache as it is.  A read that fails, past the end
\* of the medium or in it, may have copied a first part of the block.
device_cache_block(b, ok) ==
    \/ cached_block = b /\ ok /\ UNCHANGED <<disk, cacheVars>>
    \/ /\ cached_block # b /\ ~ok
       /\ device_flush_cache(FALSE) /\ UNCHANGED <<cached_block, cache>>
    \/ /\ cached_block # b
       /\ device_flush_cache(TRUE)
       /\ \/ ~ok /\ UNCHANGED <<cached_block, cache>>
          \/ /\ ~ok /\ cached_block' = NoBlock
             /\ \E n \in Offset :
                  cache' = [o \in Offset |->
                      IF o < n /\ b < Blocks
                      THEN disk'[b * block_size + o] ELSE cache[o]]
          \/ /\ ok /\ b < Blocks
             /\ cached_block' = b
             /\ cache' = [o \in Offset |-> disk'[b * block_size + o]]

----------------------------------------------------------------------------
(* device_read_raw and the loop of device_write_raw: the block is cached in   *)
(* one step, its part of the request copied in the next.                      *)

block == (request.loc + progress) \div block_size
offset == (request.loc + progress) % block_size

chunk ==
    LET rest == Len(request.data) - progress
    IN  IF rest > block_size - offset THEN block_size - offset ELSE rest

Unfinished == request # NoRequest /\ progress < Len(request.data)

CallRead(loc, count) ==
    /\ request' = [kind |-> "read", loc |-> loc, data |-> Bytes(0, count)]
    /\ progress' = 0 /\ got' = <<>>

CallWrite(loc, data) ==
    /\ request' = [kind |-> "write", loc |-> loc, data |-> data]
    /\ progress' = 0 /\ got' = <<>>

\* device_cache_block(block) in either loop, when the block is not cached.
Fetch ==
    /\ Unfinished /\ cached_block # block
    /\ device_cache_block(block, TRUE)
    /\ UNCHANGED <<uninstall_data, udfile, pc, callVars, requests, undoVars>>

\* The memcpy() of a piece from or to the cached block.
Copy ==
    /\ Unfinished /\ cached_block = block
    /\ progress' = progress + chunk
    /\ IF request.kind = "read"
       THEN /\ got' = got \o [j \in 1 .. chunk |-> cache[offset + j - 1]]
            /\ UNCHANGED cacheVars
       ELSE /\ cache' = [o \in Offset |->
                 IF o \in offset .. offset + chunk - 1
                 THEN request.data[progress + o - offset + 1] ELSE cache[o]]
            /\ cache_state' = "DIRTY"
            /\ UNCHANGED <<cached_block, got>>
    /\ UNCHANGED <<disk, uninstall_data, udfile, pc, request, saving, broken,
                   requests, undoVars>>

\* Either loop when the block cannot be cached.
Fail ==
    /\ Unfinished /\ cached_block # block
    /\ device_cache_block(block, FALSE)
    /\ request' = NoRequest
    /\ UNCHANGED <<progress, got>>

----------------------------------------------------------------------------
(* The installer. *)

\* A request the installer makes.
Ask == pc = "running" /\ request = NoRequest /\ requests < MaxRequests

device_read_raw(range) ==
    /\ Ask /\ requests' = requests + 1
    /\ CallRead(range[1], range[2])
    /\ UNCHANGED <<disk, cacheVars, uninstall_data, udfile, pc, saving, broken,
                   undoVars>>

ReadDone ==
    /\ request.kind = "read" /\ ~Unfinished /\ saving = NoRequest
    /\ request' = NoRequest
    /\ UNCHANGED <<disk, cacheVars, uninstall_data, udfile, pc, progress, got,
                   saving, broken, requests, undoVars>>

\* The macro device_read gives the installation up, the probes for a table go on.
ReadFailed ==
    /\ pc = "running" /\ request.kind = "read" /\ saving = NoRequest
    /\ Fail
    /\ pc' \in {"running", "cleanup"}
    /\ UNCHANGED <<uninstall_data, udfile, saving, broken, requests, undoVars>>

\* Up to skip_save: the old bytes are read first.
device_write_raw(range) ==
    /\ Ask /\ requests' = requests + 1
    /\ Len(uninstall_data) < UNINSTALL_DATA_MAX
    /\ saving' = [loc |-> range[1], data |-> Bytes(requests + 1, range[2]),
                  old |-> <<>>]
    /\ CallRead(range[1], range[2])
    /\ UNCHANGED <<disk, cacheVars, uninstall_data, udfile, pc, broken, undoVars>>

\* The undo list is full, or malloc() fails.
WriteRefused ==
    /\ Ask /\ requests' = requests + 1
    /\ pc' = "cleanup"
    /\ UNCHANGED <<disk, cacheVars, uninstall_data, udfile, callVars, undoVars>>

\* skip_save, in a write that saves.
Saved ==
    /\ request.kind = "read" /\ ~Unfinished /\ saving # NoRequest
    /\ saving' = [saving EXCEPT !.old = got]
    /\ CallWrite(saving.loc, saving.data)
    /\ UNCHANGED <<disk, cacheVars, uninstall_data, udfile, pc, broken, requests,
                   undoVars>>

WriteDone ==
    /\ pc = "running" /\ request.kind = "write" /\ ~Unfinished
    /\ uninstall_data' =
         Append(uninstall_data, [loc |-> saving.loc, data |-> saving.old])
    /\ request' = NoRequest /\ saving' = NoRequest
    /\ UNCHANGED <<disk, cacheVars, udfile, pc, progress, got, broken, requests,
                   undoVars>>

\* Nothing is kept of a write that fails, whatever it has written.
WriteFailed ==
    /\ pc = "running" /\ saving # NoRequest
    /\ Fail
    /\ saving' = NoRequest
    /\ broken' = IF request.kind = "write"
                 THEN saving.loc .. saving.loc + Len(saving.data) - 1 ELSE {}
    /\ pc' = "cleanup"
    /\ UNCHANGED <<uninstall_data, udfile, requests, undoVars>>

\* The flush at the end of bios_install.
Finish(ok) ==
    /\ pc = "running" /\ request = NoRequest
    /\ device_flush_cache(ok)
    /\ pc' = IF ok THEN "installed" ELSE "cleanup"
    /\ UNCHANGED <<cached_block, cache, uninstall_data, udfile, callVars, requests,
                   undoVars>>

\* One of the checks of bios_install says no.
Reject ==
    /\ pc = "running" /\ request = NoRequest
    /\ pc' = "cleanup"
    /\ UNCHANGED <<disk, cacheVars, uninstall_data, udfile, callVars, requests,
                   undoVars>>

\* Mistake: the list is left as it is.
reverse_uninstall_data_Forgotten == uninstall_data

reverse_uninstall_data ==
    [k \in 1 .. Len(uninstall_data) |-> uninstall_data[(Len(uninstall_data) - k) + 1]]

\* cleanup, when the installation is complete: what store_uninstall_data answers
\* is not looked at.
store_uninstall_data ==
    /\ pc = "installed"
    /\ uninstall_data' = reverse_uninstall_data
    /\ udfile' \in {[whole |-> TRUE, entries |-> reverse_uninstall_data], NoFile}
    /\ pc' = "exited"
    /\ UNCHANGED <<disk, cacheVars, callVars, requests, undoVars>>

----------------------------------------------------------------------------
(* uninstall(): every entry is written, a write that fails once again. *)

DropCache ==
    /\ cache_state' = "CLEAN"
    /\ cached_block' = NoBlock
    /\ UNCHANGED cache

Uninstall ==
    /\ DropCache
    /\ i' = 1 /\ retry' = FALSE
    /\ print_write_fail' = FALSE /\ print_cache_flush_fail' = FALSE
    /\ pc' = "undo"
    /\ UNCHANGED <<disk, udfile, callVars, requests>>

\* cleanup, when the installation failed.
Cleanup ==
    /\ pc = "cleanup"
    /\ uninstall_data' = reverse_uninstall_data
    /\ Uninstall

\* bios-install --uninstall: another run of the program, which may be repeated.
UninstallMode ==
    /\ pc \in {"exited", "undone"}
    /\ udfile.whole
    /\ uninstall_data' = udfile.entries
    /\ Uninstall

UndoWrite ==
    /\ pc = "undo" /\ request = NoRequest /\ i <= Len(uninstall_data)
    /\ CallWrite(uninstall_data[i].loc, uninstall_data[i].data)
    /\ UNCHANGED <<disk, cacheVars, uninstall_data, udfile, pc, saving, broken,
                   requests, undoVars>>

UndoWritten ==
    /\ pc = "undo" /\ request # NoRequest /\ ~Unfinished
    /\ i' = i + 1 /\ retry' = FALSE
    /\ request' = NoRequest
    /\ UNCHANGED <<disk, cacheVars, uninstall_data, udfile, pc, progress, got,
                   saving, broken, requests, print_write_fail,
                   print_cache_flush_fail>>

\* Mistake: every failure is tried again.
UndoFailed_Forever ==
    /\ pc = "undo" /\ Fail
    /\ pc' = "retry"
    /\ UNCHANGED <<uninstall_data, udfile, saving, broken, requests, undoVars>>

UndoFailed ==
    /\ pc = "undo" /\ Fail
    /\ IF retry
       THEN i' = i + 1 /\ retry' = FALSE
            /\ print_write_fail' = TRUE /\ UNCHANGED pc
       ELSE pc' = "retry" /\ UNCHANGED <<i, retry, print_write_fail>>
    /\ UNCHANGED <<uninstall_data, udfile, saving, broken, requests,
                   print_cache_flush_fail>>

\* Before the second try the cache is flushed, then dropped.
RetryFlush(ok) ==
    /\ pc = "retry"
    /\ device_flush_cache(ok)
    /\ print_cache_flush_fail' = (print_cache_flush_fail \/ ~ok)
    /\ pc' = "drop"
    /\ UNCHANGED <<cached_block, cache, uninstall_data, udfile, callVars, requests,
                   i, retry, print_write_fail>>

RetryDrop ==
    /\ pc = "drop"
    /\ DropCache
    /\ retry' = TRUE
    /\ pc' = "undo"
    /\ UNCHANGED <<disk, uninstall_data, udfile, callVars, requests, i,
                   print_write_fail, print_cache_flush_fail>>

UndoEnd(ok) ==
    /\ pc = "undo" /\ request = NoRequest /\ i > Len(uninstall_data)
    /\ device_flush_cache(ok)
    /\ print_cache_flush_fail' = (print_cache_flush_fail \/ ~ok)
    /\ pc' = "undone"
    /\ UNCHANGED <<cached_block, cache, uninstall_data, udfile, callVars, requests,
                   i, retry, print_write_fail>>

----------------------------------------------------------------------------
\* device_init leaves block 0 in the cache.
Init ==
    /\ disk = Original
    /\ cached_block = 0
    /\ cache = [o \in Offset |-> Original[o]]
    /\ cache_state = "CLEAN"
    /\ uninstall_data = <<>>
    /\ udfile = NoFile
    /\ pc = "running"
    /\ request = NoRequest /\ progress = 0 /\ got = <<>>
    /\ saving = NoRequest /\ broken = {}
    /\ requests = 0
    /\ i = 1 /\ retry = FALSE
    /\ print_write_fail = FALSE /\ print_cache_flush_fail = FALSE

Installing ==
    \/ \E range \in Ranges : device_read_raw(range) \/ device_write_raw(range)
    \/ ReadDone \/ ReadFailed \/ WriteRefused \/ Saved \/ WriteDone
    \/ WriteFailed \/ Reject \/ store_uninstall_data
    \/ \E ok \in BOOLEAN : Finish(ok)

Undoing ==
    \/ Cleanup \/ UndoWrite \/ UndoWritten \/ UndoFailed \/ RetryDrop
    \/ \E ok \in BOOLEAN : RetryFlush(ok) \/ UndoEnd(ok)

Next == Installing \/ Undoing \/ UninstallMode \/ Fetch \/ Copy

\* The program is one process and keeps running; nobody need uninstall.
Spec == Init /\ [][Next]_vars /\ WF_vars(Installing \/ Undoing \/ Fetch \/ Copy)

----------------------------------------------------------------------------
(* Properties. *)

TypeOK ==
    /\ disk \in [Addr -> Nat]
    /\ cached_block \in -1 .. Blocks - 1
    /\ cache \in [Offset -> Nat]
    /\ cache_state \in {"CLEAN", "DIRTY"}
    /\ Len(uninstall_data) <= UNINSTALL_DATA_MAX
    /\ pc \in {"running", "installed", "cleanup", "exited", "undo", "retry",
               "drop", "undone"}
    /\ progress \in Nat /\ requests \in 0 .. MaxRequests

\* The disk as the program sees it.
View ==
    [a \in Addr |-> IF a \div block_size = cached_block
                    THEN cache[a % block_size] ELSE disk[a]]

Content == INSTANCE Disk WITH content <- View, stable <- disk

\* The cache cannot be told from a disk without one (Disk): whatever fails, a
\* read returns the bytes last written, a write changes no others, and what
\* reaches the medium is what was written.
ImplementsDisk == Content!Spec

\* An installation that says it succeeded is on the medium, all of it.
InstalledIsDurable == pc = "installed" => disk = View

\* The addresses the undo list has bytes for.
Kept ==
    UNION {uninstall_data[n].loc ..
             uninstall_data[n].loc + Len(uninstall_data[n].data) - 1 :
             n \in DOMAIN uninstall_data}

\* An undo that reports no failure, of a failed installation or of a complete
\* one, has put back every byte, whatever failed before: all but the bytes that
\* only the write given up half way wrote, of which uninstall() knows nothing.
UndoRestores ==
    pc = "undone" /\ ~print_write_fail /\ ~print_cache_flush_fail =>
        \A a \in Addr : a \notin broken \/ a \in Kept => disk[a] = Original[a]

\* An undo that has begun ends, however often the device fails: an entry is
\* tried twice at most.
UndoEnds == pc = "cleanup" ~> pc = "undone"
==============================================================================
