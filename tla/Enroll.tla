-------------------------------- MODULE Enroll -------------------------------
(***************************************************************************)
(* enroll_config of src/limine-binary/limine.c: the checksum of a          *)
(* configuration is put behind a signature in the boot loader's file.      *)
(***************************************************************************)
EXTENDS Integers, Sequences, FiniteSets

CONSTANTS
    Files,      \* the files, as sequences of characters
    SIGNATURE,  \* CONFIG_B2SUM_SIGNATURE
    SUM         \* the characters of a checksum (128)

VARIABLES
    file,               \* the file on disk
    original,           \* history: the file before
    bootloader,         \* the copy in memory
    digit,              \* what the checksum is made of: "h", or "0" with --reset
    step,
    pos, checked_count, \* i, counted from 1, and checked_count of the search
    checksum_loc        \* where the checksum goes, 0 if it was not found

enrollVars == <<file, original, bootloader, digit, step, pos, checked_count,
                checksum_loc>>

ASSUME EnrollAssumption ==
    SUM \in Nat /\ SIGNATURE # <<>> /\ \A f \in Files : f \in Seq(STRING)

\* The file is opened, is large enough, and is read; or not.
Open ==
    /\ step = "open"
    /\ \/ /\ Len(file) >= Len(SIGNATURE) + SUM
          /\ bootloader' = file
          /\ step' = "search"
       \/ step' = "failed" /\ UNCHANGED bootloader
    /\ UNCHANGED <<file, original, digit, pos, checked_count, checksum_loc>>

\* Mistake: a failed match is not looked at again.
Restart_Next == pos' = pos + 1

\* i -= checked_count, and the i++ of the loop.
Restart == pos' = pos - checked_count + 1

\* One round of the search.
Search ==
    /\ step = "search" /\ pos - 1 + SUM < Len(bootloader)
    /\ IF bootloader[pos] # SIGNATURE[checked_count + 1]
       THEN Restart /\ checked_count' = 0 /\ UNCHANGED <<checksum_loc, step>>
       ELSE /\ checked_count' = checked_count + 1
            /\ pos' = pos + 1
            /\ IF checked_count + 1 = Len(SIGNATURE)
               THEN checksum_loc' = pos + 1 /\ step' = "write"
               ELSE UNCHANGED <<checksum_loc, step>>
    /\ UNCHANGED <<file, original, bootloader, digit>>

NotFound ==
    /\ step = "search" /\ pos - 1 + SUM >= Len(bootloader)
    /\ step' = "failed"
    /\ UNCHANGED <<file, original, bootloader, digit, pos, checked_count, checksum_loc>>

Patched ==
    [k \in DOMAIN bootloader |->
        IF k \in checksum_loc .. checksum_loc + SUM - 1 THEN digit ELSE bootloader[k]]

\* The whole file is written.  It may fail after any part of it.
WriteFile ==
    /\ step = "write"
    /\ bootloader' = Patched
    /\ \/ file' = Patched /\ step' = "done"
       \/ /\ \E n \in 0 .. Len(file) :
               file' = [k \in DOMAIN file |-> IF k <= n THEN Patched[k] ELSE file[k]]
          /\ step' = "failed"
    /\ UNCHANGED <<original, digit, pos, checked_count, checksum_loc>>

\* The arguments: a file, and a checksum or --reset.
EnrollInitWith(f, d) ==
    /\ file = f /\ original = f /\ bootloader = <<>>
    /\ digit = d
    /\ step = "open"
    /\ pos = 1 /\ checked_count = 0 /\ checksum_loc = 0

EnrollInit == \E f \in Files, d \in {"h", "0"} : EnrollInitWith(f, d)

EnrollNext == Open \/ Search \/ NotFound \/ WriteFile

----------------------------------------------------------------------------
(* Properties. *)

\* Where a checksum may go: behind a signature, with room for it.
SumPlaces(f) ==
    {k \in 1 .. Len(f) :
       /\ k > Len(SIGNATURE) /\ k + SUM - 1 <= Len(f)
       /\ \A n \in DOMAIN SIGNATURE : f[k - Len(SIGNATURE) + n - 1] = SIGNATURE[n]}

\* The search finds the first signature that has room behind it, and fails only
\* when there is none, also when the signature begins inside a part of itself.
\* Nothing of the file but the checksum behind it changes, even when writing fails.
FindsFirst ==
    /\ checksum_loc # 0 =>
         /\ checksum_loc \in SumPlaces(original)
         /\ \A k \in SumPlaces(original) : checksum_loc <= k
    /\ step = "search" /\ pos - 1 + SUM >= Len(bootloader) => SumPlaces(original) = {}
    /\ Len(file) = Len(original)
    /\ \A k \in DOMAIN file :
         file[k] = original[k] \/ k \in checksum_loc .. checksum_loc + SUM - 1
==============================================================================
