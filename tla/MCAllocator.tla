---------------------------- MODULE MCAllocator -----------------------------
(* Allocator for TLC: a heap of 22 words of 2 bytes, headers of 2 words.    *)
EXTENDS Allocator
=============================================================================
