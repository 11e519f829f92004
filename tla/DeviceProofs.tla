---------------------------- MODULE DeviceProofs -----------------------------
(***************************************************************************)
(* Proofs about module Device: for every block size, medium and sequence   *)
(* of requests, and whatever fails, the cache cannot be told from a disk   *)
(* without one, what is reported installed is on the medium, and an undo   *)
(* that reports no failure has put back every byte but those of a write    *)
(* that was given up half way.                                             *)
(*                                                                         *)
(* The heart of the argument is that the cached block is the medium's      *)
(* whenever it is CLEAN (Clean), also after a flush or a read that failed. *)
(***************************************************************************)
EXTENDS Device, TLAPS

\* Steps are first-order reasoning unless they name another prover.
USE ZenonT(60)

-----------------------------------------------------------------------------
(* Blocks and offsets                                                      *)

LEMMA DivMod ==
    ASSUME NEW x \in Nat, NEW d \in Nat \ {0}
    PROVE  /\ x \div d \in Nat /\ x % d \in 0 .. d - 1
           /\ x = d * (x \div d) + (x % d)
BY SMTT(60)

\* A product grows with its first factor.
LEMMA ProductGrows ==
    ASSUME NEW b \in Nat, NEW c \in Nat, NEW d \in Nat, b < c
    PROVE  d * b + d <= d * c /\ d * b \in Nat /\ d * c \in Nat
BY SMTT(60)

\* An address has one block and one offset in it.
LEMMA Split ==
    ASSUME NEW d \in Nat \ {0}, NEW b \in Nat, NEW o \in 0 .. d - 1,
           NEW x \in Nat, x = d * b + o
    PROVE  x \div d = b /\ x % d = o
<1>1. /\ x \div d \in Nat /\ x % d \in 0 .. d - 1
      /\ x = d * (x \div d) + (x % d)
  BY DivMod
<1>2. PICK q \in Nat : q = x \div d
  BY <1>1
<1>3. PICK r \in 0 .. d - 1 : r = x % d
  BY <1>1
<1>4. d * q + r = d * b + o
  BY <1>1, <1>2, <1>3
<1>5. CASE q < b
  <2>1. d * q + d <= d * b /\ d * q \in Nat /\ d * b \in Nat
    BY <1>5, ProductGrows
  <2>2. QED
    BY <1>4, <2>1, SMTT(60)
<1>6. CASE b < q
  <2>1. d * b + d <= d * q /\ d * q \in Nat /\ d * b \in Nat
    BY <1>6, ProductGrows
  <2>2. QED
    BY <1>4, <2>1, SMTT(60)
<1>7. CASE b = q
  <2>0. q < q + 1 /\ q + 1 \in Nat
    BY SMTT(60)
  <2>1. PICK p \in Nat : p = d * q
    BY <2>0, ProductGrows
  <2>2. r = o
    BY <1>4, <1>7, <2>1, SMTT(60)
  <2>3. QED
    BY <1>2, <1>3, <1>7, <2>2
<1>8. QED
  BY <1>5, <1>6, <1>7, SMTT(60)

\* The blocks and offsets of the medium's addresses.
LEMMA AddrFacts ==
    /\ block_size \in Nat \ {0} /\ Blocks \in Nat \ {0}
    /\ Offset \subseteq Nat /\ Addr \subseteq Nat
    /\ \A a \in Nat : /\ a \div block_size \in Nat /\ a % block_size \in Offset
                      /\ a = block_size * (a \div block_size) + (a % block_size)
    /\ \A b \in Nat, o \in Offset :
         b < Blocks => /\ b * block_size + o \in Addr
                       /\ (b * block_size + o) \div block_size = b
                       /\ (b * block_size + o) % block_size = o
<1>1. block_size \in Nat \ {0} /\ Blocks \in Nat \ {0}
  BY DeviceAssumption
<1>2. Offset \subseteq Nat
  BY <1>1, SMTT(60) DEF Offset
<1>3. Blocks * block_size \in Nat /\ Addr \subseteq Nat
  BY <1>1, SMTT(60) DEF Addr
<1>4. ASSUME NEW a \in Nat
      PROVE  /\ a \div block_size \in Nat /\ a % block_size \in Offset
             /\ a = block_size * (a \div block_size) + (a % block_size)
  BY <1>1, DivMod DEF Offset
<1>5. ASSUME NEW b \in Nat, NEW o \in Offset, b < Blocks
      PROVE  /\ b * block_size + o \in Addr
             /\ (b * block_size + o) \div block_size = b
             /\ (b * block_size + o) % block_size = o
  <2>1. PICK x \in Nat : x = block_size * b
    BY <1>1, SMTT(60)
  <2>2. b * block_size = x /\ Blocks * block_size = block_size * Blocks
    BY <1>1, <2>1, SMTT(60)
  <2>3. x + block_size <= block_size * Blocks /\ block_size * Blocks \in Nat
    BY <1>1, <1>5, <2>1, ProductGrows
  <2>4. x + o \in Addr /\ x + o \in Nat
    BY <1>1, <1>2, <2>2, <2>3, SMTT(60) DEF Addr, Offset
  <2>5. (x + o) \div block_size = b /\ (x + o) % block_size = o
    BY <1>1, <2>1, <2>4, Split, SMTT(60) DEF Offset
  <2>6. QED
    BY <2>2, <2>4, <2>5
<1>6. QED
  BY <1>1, <1>2, <1>3, <1>4, <1>5

-----------------------------------------------------------------------------
(* The cache                                                               *)

Entry == [loc : Nat, data : Seq(Nat)]

CacheOK ==
    /\ disk \in [Addr -> Nat]
    /\ cached_block \in -1 .. Blocks - 1
    /\ cache \in [Offset -> Nat]
    /\ cache_state \in {"CLEAN", "DIRTY"}

\* A clean block is as it is on the medium, and there is no dirty one without a
\* name.
Clean ==
    /\ cached_block = NoBlock => cache_state = "CLEAN"
    /\ cache_state = "CLEAN" =>
         \A a \in Addr : a \div block_size = cached_block => cache[a % block_size] = disk[a]

LEMMA ViewFacts ==
    ASSUME CacheOK
    PROVE  /\ View \in [Addr -> Nat]
           /\ \A a \in Addr : View[a] = IF a \div block_size = cached_block
                                        THEN cache[a % block_size] ELSE disk[a]
           /\ Clean /\ cache_state = "CLEAN" => View = disk
<1>1. \A a \in Addr : a \in Nat /\ a % block_size \in Offset
  BY AddrFacts
<1>2. /\ View \in [Addr -> Nat]
      /\ \A a \in Addr : View[a] = IF a \div block_size = cached_block
                                   THEN cache[a % block_size] ELSE disk[a]
  BY <1>1 DEF CacheOK, View
<1>3. ASSUME Clean, cache_state = "CLEAN" PROVE View = disk
  <2>1. \A a \in Addr : View[a] = disk[a]
    BY <1>2, <1>3 DEF Clean
  <2>2. QED
    BY <1>2, <2>1, SMTT(60) DEF CacheOK
<1>4. QED
  BY <1>2, <1>3

\* Parts of the block reach the medium, all of it when the flush succeeds.
LEMMA FlushFacts ==
    ASSUME CacheOK, Clean, NEW ok \in BOOLEAN, device_flush_cache(ok)
    PROVE  /\ disk' \in [Addr -> Nat]
           /\ cache_state' \in {"CLEAN", "DIRTY"}
           /\ \A a \in Addr : /\ disk'[a] \in {disk[a], View[a]}
                              /\ a \div block_size # cached_block => disk'[a] = disk[a]
           /\ ok => disk' = View /\ cache_state' = "CLEAN"
           /\ ~ok => cache_state = "DIRTY" /\ cache_state' = "DIRTY"
<1> USE DEF CacheOK
<1>1. \A a \in Addr : a \in Nat /\ a % block_size \in Offset
  BY AddrFacts
<1>2. /\ View \in [Addr -> Nat]
      /\ \A a \in Addr : View[a] = IF a \div block_size = cached_block
                                   THEN cache[a % block_size] ELSE disk[a]
  BY ViewFacts
<1>3. ASSUME NEW n \in 0 .. block_size
      PROVE  /\ Written(n) \in [Addr -> Nat]
             /\ \A a \in Addr :
                  /\ Written(n)[a] \in {disk[a], View[a]}
                  /\ a \div block_size # cached_block => Written(n)[a] = disk[a]
  BY <1>1, <1>2 DEF Written
<1>4. Written(block_size) = View
  <2>1. \A a \in Addr : a % block_size < block_size
    BY <1>1, AddrFacts, SMTT(60) DEF Offset
  <2>2. \A a \in Addr : Written(block_size)[a] = View[a]
    BY <1>2, <2>1 DEF Written
  <2>3. Written(block_size) \in [Addr -> Nat]
    BY <1>1 DEF Written
  <2>4. QED
    BY <1>2, <2>2, <2>3, SMTT(60)
<1>5. CASE cache_state = "CLEAN" /\ ok /\ UNCHANGED <<disk, cache_state>>
  BY <1>5, ViewFacts
<1>6. CASE cache_state = "DIRTY" /\ ok /\ disk' = Written(block_size) /\ cache_state' = "CLEAN"
  BY <1>2, <1>3, <1>4, <1>6, AddrFacts
<1>7. CASE /\ cache_state = "DIRTY" /\ ~ok
           /\ disk' \in {Written(n) : n \in 0 .. block_size}
           /\ UNCHANGED cache_state
  <2>1. PICK n \in 0 .. block_size : disk' = Written(n)
    BY <1>7
  <2>2. QED
    BY <1>3, <1>7, <2>1
<1>8. QED
  BY <1>5, <1>6, <1>7 DEF device_flush_cache

\* What is seen depends on the medium outside the cached block only.
LEMMA SameView ==
    ASSUME CacheOK, CacheOK',
           \A a \in Addr : View[a] = IF a \div block_size = cached_block'
                                     THEN cache'[a % block_size] ELSE disk'[a]
    PROVE  View' = View
<1>1. View' = [a \in Addr |-> IF a \div block_size = cached_block'
                              THEN cache'[a % block_size] ELSE disk'[a]]
  BY DEF View
<1>2. \A a \in Addr : View'[a] = View[a]
  BY <1>1
<1>3. QED
  BY <1>1, <1>2 DEF View

\* A flush by itself.
LEMMA FlushOnly ==
    ASSUME CacheOK, Clean, NEW ok \in BOOLEAN, device_flush_cache(ok),
           UNCHANGED <<cached_block, cache>>
    PROVE  /\ CacheOK' /\ Clean' /\ View' = View
           /\ \A a \in Addr : disk'[a] \in {disk[a], View[a]}
           /\ ok => cache_state' = "CLEAN"
<1>1. /\ disk' \in [Addr -> Nat]
      /\ cache_state' \in {"CLEAN", "DIRTY"}
      /\ \A a \in Addr : /\ disk'[a] \in {disk[a], View[a]}
                         /\ a \div block_size # cached_block => disk'[a] = disk[a]
      /\ ok => disk' = View /\ cache_state' = "CLEAN"
      /\ ~ok => cache_state = "DIRTY" /\ cache_state' = "DIRTY"
  BY FlushFacts
<1>2. \A a \in Addr : View[a] = IF a \div block_size = cached_block
                                THEN cache[a % block_size] ELSE disk[a]
  BY ViewFacts
<1>3. CacheOK'
  BY <1>1 DEF CacheOK
<1>4. View' = View
  BY <1>1, <1>2, <1>3, SameView
<1>5. Clean'
  <2>1. cached_block' = NoBlock => cache_state' = "CLEAN"
    BY <1>1 DEF Clean
  <2>2. cache_state' = "CLEAN" => disk' = View
    BY <1>1
  <2>3. QED
    BY <1>2, <2>1, <2>2 DEF Clean
<1>6. QED
  BY <1>1, <1>3, <1>4, <1>5

\* device_cache_block: whatever fails, what is seen is what was seen.
LEMMA CacheBlockFacts ==
    ASSUME CacheOK, Clean, NEW b \in Nat, NEW ok \in BOOLEAN, device_cache_block(b, ok)
    PROVE  /\ CacheOK' /\ Clean' /\ View' = View
           /\ \A a \in Addr : disk'[a] \in {disk[a], View[a]}
<1>1. CASE cached_block = b /\ ok /\ UNCHANGED <<disk, cacheVars>>
  BY <1>1 DEF CacheOK, Clean, View, cacheVars
<1>2. CASE /\ cached_block # b /\ ~ok
           /\ device_flush_cache(FALSE) /\ UNCHANGED <<cached_block, cache>>
  BY <1>2, FlushOnly
<1>3. CASE device_flush_cache(TRUE) /\ UNCHANGED <<cached_block, cache>>
  BY <1>3, FlushOnly
<1>4. ASSUME device_flush_cache(TRUE)
      PROVE  /\ disk' \in [Addr -> Nat] /\ disk' = View /\ cache_state' = "CLEAN"
             /\ \A a \in Addr : disk'[a] \in {disk[a], View[a]}
  BY <1>4, FlushFacts
<1>5. ASSUME device_flush_cache(TRUE), CacheOK',
             \A a \in Addr : a \div block_size = cached_block' =>
                               cache'[a % block_size] = disk'[a]
      PROVE  Clean' /\ View' = View
  <2>1. Clean'
    BY <1>4, <1>5 DEF Clean
  <2>2. View' = View
    BY <1>4, <1>5, SameView
  <2>3. QED
    BY <2>1, <2>2
<1>6. ASSUME NEW n \in Offset, device_flush_cache(TRUE), cached_block' = NoBlock,
             cache' = [o \in Offset |-> IF o < n /\ b < Blocks
                                        THEN disk'[b * block_size + o] ELSE cache[o]]
      PROVE  CacheOK' /\ Clean' /\ View' = View
  <2>1. \A o \in Offset : b < Blocks => b * block_size + o \in Addr
    BY AddrFacts
  <2>2. cache' \in [Offset -> Nat]
    BY <1>4, <1>6, <2>1 DEF CacheOK
  <2>3. CacheOK'
    <3>1. NoBlock \in -1 .. Blocks - 1
      BY DeviceAssumption, SMTT(60) DEF NoBlock
    <3>2. QED
      BY <1>4, <1>6, <2>2, <3>1 DEF CacheOK
  <2>4. \A a \in Addr : a \div block_size # cached_block'
    <3>1. \A a \in Addr : a \div block_size \in Nat
      BY AddrFacts
    <3>2. QED
      BY <1>6, <3>1, SMTT(60) DEF NoBlock
  <2>5. QED
    BY <1>5, <1>6, <2>3, <2>4
<1>7. ASSUME device_flush_cache(TRUE), b < Blocks, cached_block' = b,
             cache' = [o \in Offset |-> disk'[b * block_size + o]]
      PROVE  CacheOK' /\ Clean' /\ View' = View
  <2>1. \A o \in Offset : b * block_size + o \in Addr
    BY <1>7, AddrFacts
  <2>2. cache' \in [Offset -> Nat]
    BY <1>4, <1>7, <2>1 DEF CacheOK
  <2>3. CacheOK'
    <3>1. b \in -1 .. Blocks - 1
      BY <1>7, DeviceAssumption, SMTT(60)
    <3>2. QED
      BY <1>4, <1>7, <2>2, <3>1 DEF CacheOK
  <2>4. ASSUME NEW a \in Addr, a \div block_size = b
        PROVE  cache'[a % block_size] = disk'[a]
    <3>1. /\ a % block_size \in Offset
          /\ a = block_size * b + (a % block_size)
      BY <2>4, AddrFacts
    <3>2. block_size * b = b * block_size
      BY DeviceAssumption, SMTT(60)
    <3>3. QED
      BY <1>7, <3>1, <3>2
  <2>5. QED
    BY <1>5, <1>7, <2>3, <2>4
<1>8. QED
  BY <1>1, <1>2, <1>3, <1>4, <1>6, <1>7 DEF device_cache_block

-----------------------------------------------------------------------------
(* Pieces of a request                                                     *)

\* The part of the request that is copied next lies in the cached block.
LEMMA PieceFacts ==
    ASSUME CacheOK, request \in Request, progress \in Nat, Unfinished, cached_block = block
    PROVE  /\ chunk \in 1 .. Len(request.data) /\ progress + chunk <= Len(request.data)
           /\ offset \in Offset /\ offset + chunk <= block_size
           /\ \E first \in Nat :
                /\ request.loc + progress = first + offset
                /\ \A o \in Offset : /\ first + o \in Addr
                                     /\ (first + o) \div block_size = cached_block
                                     /\ (first + o) % block_size = o
                /\ \A a \in Addr : a \div block_size = cached_block =>
                                     a = first + (a % block_size)
<1>1. request.loc \in Nat /\ request.data \in Seq(Nat) /\ Len(request.data) \in Nat
  BY SMTT(60) DEF Request
<1>2. PICK p \in Nat : p = request.loc + progress
  BY <1>1, SMTT(60)
<1>3. /\ offset \in Offset /\ block \in Nat
      /\ p = block_size * block + offset
  BY <1>2, AddrFacts DEF offset, block
<1>4. block_size \in Nat \ {0} /\ offset \in Nat /\ offset < block_size
  BY <1>3, DeviceAssumption, SMTT(60) DEF Offset
<1>5. progress < Len(request.data)
  BY DEF Unfinished
<1>6. /\ chunk \in 1 .. Len(request.data) /\ progress + chunk <= Len(request.data)
      /\ offset + chunk <= block_size
  BY <1>1, <1>4, <1>5, SMTT(60) DEF chunk
<1>7. block < Blocks
  BY <1>3, DeviceAssumption, SMTT(60) DEF CacheOK
<1>8. PICK first \in Nat : first = block_size * block
  BY <1>3, <1>4, SMTT(60)
<1>9. first = block * block_size
  BY <1>3, <1>4, <1>8, SMTT(60)
<1>10. \A o \in Offset : /\ first + o \in Addr
                         /\ (first + o) \div block_size = cached_block
                         /\ (first + o) % block_size = o
  BY <1>3, <1>7, <1>9, AddrFacts
<1>11. \A a \in Addr : a \div block_size = cached_block => a = first + (a % block_size)
  BY <1>8, AddrFacts
<1>12. request.loc + progress = first + offset
  BY <1>2, <1>3, <1>8
<1>13. QED
  BY <1>3, <1>6, <1>8, <1>10, <1>11, <1>12

\* What is read is what is seen.
LEMMA ReadFacts ==
    ASSUME CacheOK, request \in Request, progress \in Nat, Unfinished, cached_block = block
    PROVE  /\ Content!Piece(chunk) \subseteq Addr
           /\ [j \in 1 .. chunk |-> cache[offset + j - 1]]
                = [j \in 1 .. chunk |-> View[request.loc + progress + j - 1]]
           /\ [j \in 1 .. chunk |-> cache[offset + j - 1]] \in Seq(Nat)
<1>1. PICK first \in Nat :
         /\ request.loc + progress = first + offset
         /\ \A o \in Offset : /\ first + o \in Addr
                              /\ (first + o) \div block_size = cached_block
                              /\ (first + o) % block_size = o
  BY PieceFacts
<1>2. /\ chunk \in Nat /\ offset \in Nat /\ offset + chunk <= block_size
      /\ block_size \in Nat
  BY PieceFacts, DeviceAssumption, SMTT(60) DEF Offset, Request
<1>3. ASSUME NEW j \in 1 .. chunk
      PROVE  /\ offset + j - 1 \in Offset
             /\ request.loc + progress + j - 1 = first + (offset + j - 1)
  BY <1>1, <1>2, SMTT(60) DEF Offset
<1>4. \A a \in Addr : View[a] = IF a \div block_size = cached_block
                                THEN cache[a % block_size] ELSE disk[a]
  BY ViewFacts
<1>5. ASSUME NEW j \in 1 .. chunk
      PROVE  /\ View[request.loc + progress + j - 1] = cache[offset + j - 1]
             /\ cache[offset + j - 1] \in Nat
             /\ request.loc + progress + j - 1 \in Addr
  BY <1>1, <1>3, <1>4, SMTT(60) DEF CacheOK
<1>6. Content!Piece(chunk) \subseteq Addr
  <2>1. ASSUME NEW x \in Content!Piece(chunk) PROVE x \in Addr
    <3>1. request.loc + progress \in Nat
      BY <1>1, <1>2, SMTT(60)
    <3>2. PICK j \in 1 .. chunk : x = request.loc + progress + j - 1
      <4>1. /\ x \in Int /\ x - (request.loc + progress) + 1 \in 1 .. chunk
            /\ x = request.loc + progress + (x - (request.loc + progress) + 1) - 1
        BY <1>2, <2>1, <3>1, SMTT(60) DEF Content!Piece
      <4>2. QED
        BY <4>1
    <3>3. QED
      BY <1>5, <3>2
  <2>2. QED
    BY <2>1
<1>7. [j \in 1 .. chunk |-> cache[offset + j - 1]]
         = [j \in 1 .. chunk |-> View[request.loc + progress + j - 1]]
  BY <1>5
<1>8. [j \in 1 .. chunk |-> cache[offset + j - 1]] \in Seq(Nat)
  <2>1. [j \in 1 .. chunk |-> cache[offset + j - 1]] \in [1 .. chunk -> Nat]
    BY <1>5
  <2>2. QED
    BY <1>2, <2>1, SMTT(60)
<1>9. QED
  BY <1>6, <1>7, <1>8

\* What is written is seen, and nothing else changes.
LEMMA WriteFacts ==
    ASSUME CacheOK, request \in Request, progress \in Nat, Unfinished, cached_block = block,
           cache' = [o \in Offset |->
                       IF o \in offset .. offset + chunk - 1
                       THEN request.data[progress + o - offset + 1] ELSE cache[o]],
           cache_state' = "DIRTY", UNCHANGED <<disk, cached_block>>
    PROVE  /\ CacheOK'
           /\ View' = [a \in Addr |-> IF a \in Content!Piece(chunk)
                                      THEN request.data[a - request.loc + 1] ELSE View[a]]
<1>1. PICK first \in Nat :
         /\ request.loc + progress = first + offset
         /\ \A o \in Offset : /\ first + o \in Addr
                              /\ (first + o) \div block_size = cached_block
                              /\ (first + o) % block_size = o
         /\ \A a \in Addr : a \div block_size = cached_block => a = first + (a % block_size)
  BY PieceFacts
<1>a. request.loc + progress = first + offset
  BY <1>1
<1>2. /\ request.loc \in Nat /\ request.data \in Seq(Nat) /\ Len(request.data) \in Nat
      /\ \A n \in 1 .. Len(request.data) : request.data[n] \in Nat
  BY SMTT(60) DEF Request
<1>3. /\ chunk \in Nat /\ offset \in Nat /\ offset + chunk <= block_size
      /\ progress + chunk <= Len(request.data) /\ block_size \in Nat
  BY <1>2, PieceFacts, DeviceAssumption, SMTT(60) DEF Offset
<1>4. \A o \in offset .. offset + chunk - 1 :
         o \in Int /\ progress + o - offset + 1 \in 1 .. Len(request.data)
  <2>1. progress \in Nat
    BY PieceFacts
  <2>2. Len(request.data) \in Nat
    BY <1>2
  <2>3. QED
    BY <1>3, <2>1, <2>2, SMTT(60)
<1>5. cache' \in [Offset -> Nat]
  BY <1>2, <1>4 DEF CacheOK
<1>6. CacheOK'
  BY <1>5 DEF CacheOK
<1>7. ASSUME NEW a \in Addr
      PROVE  (IF a \div block_size = cached_block THEN cache'[a % block_size] ELSE disk[a])
               = IF a \in Content!Piece(chunk)
                 THEN request.data[a - request.loc + 1] ELSE View[a]
  <2>1. a \in Nat /\ a % block_size \in Offset /\ a % block_size \in Nat
    BY AddrFacts
  <2>2. View[a] = IF a \div block_size = cached_block THEN cache[a % block_size] ELSE disk[a]
    BY ViewFacts
  <2>3. CASE a \div block_size = cached_block
    <3>1. PICK o \in Offset : o = a % block_size /\ a = first + o /\ o \in Nat
      BY <1>1, <2>1, <2>3
    <3>2. a \in Content!Piece(chunk) <=> o \in offset .. offset + chunk - 1
      BY <1>a, <1>2, <1>3, <3>1, SMTT(60) DEF Content!Piece
    <3>3. progress + o - offset + 1 = a - request.loc + 1
      <4>1. request.loc \in Nat /\ offset \in Nat /\ a = first + o /\ o \in Nat
        BY <1>2, <1>3, <3>1
      <4>2. QED
        BY <1>a, <4>1, SMTT(60)
    <3>4. cache'[o] = IF o \in offset .. offset + chunk - 1
                      THEN request.data[progress + o - offset + 1] ELSE cache[o]
      BY <3>1
    <3>5. QED
      BY <2>2, <2>3, <3>1, <3>2, <3>3, <3>4
  <2>4. CASE a \div block_size # cached_block
    <3>1. a \notin Content!Piece(chunk)
      <4>1. SUFFICES ASSUME a \in Content!Piece(chunk) PROVE FALSE
        OBVIOUS
      <4>2. a >= first + offset /\ a <= first + offset + chunk - 1
        BY <1>1, <1>2, <1>3, <2>1, <4>1, SMTT(60) DEF Content!Piece
      <4>3. PICK o \in Offset : a = first + o
        <5>1. a - first \in Offset /\ a = first + (a - first)
          BY <1>3, <2>1, <4>2, SMTT(60) DEF Offset
        <5>2. QED
          BY <5>1
      <4>4. QED
        BY <1>1, <2>4, <4>3
    <3>2. QED
      BY <2>2, <2>4, <3>1
  <2>5. QED
    BY <2>3, <2>4
<1>8. View' = [a \in Addr |-> IF a \div block_size = cached_block
                              THEN cache'[a % block_size] ELSE disk[a]]
  BY SMTT(60) DEF View
<1>9. QED
  BY <1>6, <1>7, <1>8

-----------------------------------------------------------------------------
(* The invariant                                                           *)

CallOK ==
    /\ request \in Request \cup {NoRequest}
    /\ progress \in Nat /\ got \in Seq(Nat)
    /\ request # NoRequest => progress <= Len(request.data)
    /\ saving \in [loc : Nat, data : Seq(Nat), old : Seq(Nat)] \cup {NoRequest}
    /\ requests \in 0 .. MaxRequests

ListOK ==
    /\ uninstall_data \in Seq(Entry) /\ Len(uninstall_data) <= UNINSTALL_DATA_MAX
    /\ udfile \in [whole : BOOLEAN, entries : Seq(Entry)]
    /\ Len(udfile.entries) <= UNINSTALL_DATA_MAX
    /\ i \in Nat \ {0}

\* Where the program is tells what is under way: a write of the installer has an
\* entry of the undo list left for it, and nothing is under way, or left in the
\* cache, once the installation is complete.
PhaseOK ==
    /\ pc \in {"running", "installed", "cleanup", "exited", "undo", "retry",
               "drop", "undone"}
    /\ pc \notin {"running", "undo"} => request = NoRequest
    /\ saving # NoRequest => /\ pc = "running" /\ request # NoRequest
                             /\ Len(uninstall_data) < UNINSTALL_DATA_MAX
    /\ pc = "running" /\ request.kind = "write" => saving # NoRequest
    /\ pc = "installed" => cache_state = "CLEAN"

IInv == CacheOK /\ Clean /\ CallOK /\ ListOK /\ PhaseOK

\* The kinds of requests there are.
LEMMA RequestFacts ==
    /\ \A r \in Request : r.kind \in {"read", "write"} /\ r # NoRequest
                          /\ r.loc \in Nat /\ r.data \in Seq(Nat)
    /\ NoRequest.kind = "none"
    /\ \A r \in [loc : Nat, data : Seq(Nat), old : Seq(Nat)] :
         r.loc \in Nat /\ r.data \in Seq(Nat) /\ r.old \in Seq(Nat)
BY SMTT(60) DEF Request, NoRequest

LEMMA BytesFacts ==
    ASSUME NEW n \in Nat, NEW count \in Nat
    PROVE  Bytes(n, count) \in Seq(Nat)
<1>1. Bytes(n, count) \in [1 .. count -> Nat]
  BY SMTT(60) DEF Bytes
<1>2. QED
  BY <1>1, SMTT(60)

LEMMA RangeFacts ==
    ASSUME NEW range \in Ranges
    PROVE  range[1] \in Nat /\ range[2] \in Nat
BY DeviceAssumption

LEMMA InitOK == Init => IInv /\ Content!Init
<1> SUFFICES ASSUME Init PROVE IInv /\ Content!Init
  OBVIOUS
<1>1. Original \in [Addr -> Nat] /\ \A a \in Addr : Original[a] = a
  BY AddrFacts DEF Original
<1>2. \A o \in Offset : o \in Addr
  <2>1. \A o \in Offset : 0 * block_size + o \in Addr
    <3>1. 0 \in Nat /\ 0 < Blocks
      BY DeviceAssumption, SMTT(60)
    <3>2. QED
      BY <3>1, AddrFacts
  <2>2. \A o \in Offset : 0 * block_size + o = o
    BY DeviceAssumption, SMTT(60) DEF Offset
  <2>3. QED
    BY <2>1, <2>2
<1>3. CacheOK
  BY <1>1, <1>2, DeviceAssumption, SMTT(60) DEF Init, CacheOK
<1>4. Clean
  <2>1. ASSUME NEW a \in Addr, a \div block_size = 0
        PROVE  a % block_size = a /\ a % block_size \in Offset
    <3>1. a = block_size * 0 + (a % block_size) /\ a % block_size \in Offset
      BY <2>1, AddrFacts
    <3>2. PICK o \in Offset : o = a % block_size
      BY <3>1
    <3>3. block_size * 0 + o = o
      BY DeviceAssumption, SMTT(60) DEF Offset
    <3>4. QED
      BY <3>1, <3>2, <3>3
  <2>2. QED
    BY <2>1 DEF Init, Clean, NoBlock
<1>5. CallOK
  BY DeviceAssumption, SMTT(60) DEF Init, CallOK
<1>6. ListOK
  BY DeviceAssumption, SMTT(60) DEF Init, ListOK, NoFile
<1>7. PhaseOK
  BY RequestFacts DEF Init, PhaseOK
<1>8. View = disk
  BY <1>3, <1>4, ViewFacts DEF Init
<1>9. Content!Init
  BY <1>3, <1>8 DEF Init, Content!Init, CacheOK
<1>10. QED
  BY <1>3, <1>4, <1>5, <1>6, <1>7, <1>9 DEF IInv

-----------------------------------------------------------------------------
(* Steps                                                                   *)

\* What a step of Disk's is, by what it does to the medium and to what is seen.
Settled == \A a \in Addr : disk'[a] \in {disk[a], View[a]}

Seen == CacheOK' /\ Clean' /\ View' = View /\ Settled

Mapped == [Content!Next]_(Content!vars)

\* The medium changes, or nothing.
LEMMA WriteMaps ==
    ASSUME CacheOK, View' = View, Settled, UNCHANGED <<request, progress, got>>
    PROVE  Mapped
<1>1. DOMAIN disk = Addr
  BY DEF CacheOK
<1>2. Content!Write
  BY <1>1 DEF Content!Write, Content!Settle, Settled
<1>3. QED
  BY <1>2 DEF Mapped, Content!Next

LEMMA EndMaps ==
    ASSUME CacheOK, View' = View, Settled, request # NoRequest, request' = NoRequest,
           UNCHANGED <<progress, got>>
    PROVE  Mapped
<1>1. DOMAIN disk = Addr
  BY DEF CacheOK
<1>2. Content!End
  BY <1>1 DEF Content!End, Content!Settle, Settled
<1>3. QED
  BY <1>2 DEF Mapped, Content!Next

LEMMA BeginMaps ==
    ASSUME View' = View, disk' = disk,
           request = NoRequest \/ progress = Len(request.data),
           request' \in Request, progress' = 0, got' = <<>>
    PROVE  Mapped
<1>1. Content!Begin
  BY DEF Content!Begin
<1>2. QED
  BY <1>1 DEF Mapped, Content!Next

\* The cache is dropped.
LEMMA DropMaps ==
    ASSUME CacheOK, Clean, DropCache, UNCHANGED <<disk, request, progress, got>>
    PROVE  CacheOK' /\ Clean' /\ Mapped
<1>1. cached_block' = NoBlock /\ cache_state' = "CLEAN" /\ cache' = cache /\ disk' = disk
  BY DEF DropCache
<1>2. CacheOK'
  <2>1. NoBlock \in -1 .. Blocks - 1
    BY DeviceAssumption, SMTT(60) DEF NoBlock
  <2>2. QED
    BY <1>1, <2>1 DEF CacheOK
<1>3. \A a \in Addr : a \div block_size # NoBlock
  <2>1. \A a \in Addr : a \div block_size \in Nat
    BY AddrFacts
  <2>2. QED
    BY <2>1, SMTT(60) DEF NoBlock
<1>4. Clean'
  BY <1>1, <1>3 DEF Clean
<1>5. View' = disk'
  <2>1. View' = [a \in Addr |-> disk'[a]]
    BY <1>1, <1>3 DEF View
  <2>2. QED
    BY <1>2, <2>1 DEF CacheOK
<1>6. DOMAIN disk = Addr
  BY DEF CacheOK
<1>7. Content!Forget
  BY <1>1, <1>5, <1>6 DEF Content!Forget, Content!Settle
<1>8. QED
  BY <1>2, <1>4, <1>7 DEF Mapped, Content!Next

LEMMA SameCache ==
    ASSUME CacheOK, Clean, UNCHANGED <<disk, cacheVars>>
    PROVE  Seen
BY DEF CacheOK, Clean, View, Settled, Seen, cacheVars

\* A request is under way.
LEMMA UnderWay ==
    ASSUME IInv, Unfinished
    PROVE  /\ request \in Request /\ block \in Nat
           /\ pc # "installed" /\ pc \in {"running", "undo"}
<1>1. request \in Request
  BY DEF IInv, CallOK, Unfinished
<1>2. pc \in {"running", "undo"}
  BY DEF IInv, PhaseOK, Unfinished
<1>3. block \in Nat
  <2>1. request.loc + progress \in Nat
    BY <1>1, SMTT(60) DEF IInv, CallOK, Request
  <2>2. QED
    BY <2>1, AddrFacts DEF block
<1>4. QED
  BY <1>1, <1>2, <1>3

LEMMA FetchOK == IInv /\ Fetch => IInv' /\ Mapped
<1> SUFFICES ASSUME IInv, Fetch PROVE IInv' /\ Mapped
  OBVIOUS
<1>1. block \in Nat /\ pc # "installed"
  BY UnderWay DEF Fetch
<1>2. /\ CacheOK' /\ Clean' /\ View' = View
      /\ \A a \in Addr : disk'[a] \in {disk[a], View[a]}
  BY <1>1, CacheBlockFacts DEF Fetch, IInv
<1>3. Mapped
  BY <1>2, WriteMaps DEF Fetch, IInv, Settled, callVars
<1>4. CallOK' /\ ListOK' /\ PhaseOK'
  BY <1>1 DEF IInv, CallOK, ListOK, PhaseOK, Fetch, callVars, undoVars
<1>5. QED
  BY <1>2, <1>3, <1>4 DEF IInv

LEMMA CopyOK == IInv /\ Copy => IInv' /\ Mapped
<1> SUFFICES ASSUME IInv, Copy PROVE IInv' /\ Mapped
  OBVIOUS
<1>1. /\ Unfinished /\ cached_block = block /\ progress' = progress + chunk
      /\ UNCHANGED <<disk, uninstall_data, udfile, pc, request, saving, broken,
                     requests, undoVars>>
  BY DEF Copy
<1>2. request \in Request /\ pc # "installed" /\ request # NoRequest
  BY <1>1, UnderWay DEF Unfinished
<1>3. CacheOK /\ Clean /\ progress \in Nat
  BY DEF IInv, CallOK
<1>4. /\ chunk \in 1 .. Len(request.data) /\ progress + chunk <= Len(request.data)
      /\ Len(request.data) \in Nat
  BY <1>1, <1>2, <1>3, PieceFacts, SMTT(60) DEF Request
<1>5. Content!Piece(chunk) \subseteq Addr
  BY <1>1, <1>2, <1>3, ReadFacts
<1>6. ListOK'
  BY <1>1 DEF IInv, ListOK, undoVars
<1>7. PhaseOK'
  BY <1>1, <1>2 DEF IInv, PhaseOK
<1>8. ASSUME got' \in Seq(Nat) PROVE CallOK'
  BY <1>1, <1>4, <1>8, SMTT(60) DEF IInv, CallOK
<1>9. ASSUME Content!Serve(chunk) PROVE Mapped
  BY <1>2, <1>4, <1>9 DEF Mapped, Content!Next
<1>10. CASE request.kind = "read"
  <2>1. /\ got' = got \o [j \in 1 .. chunk |-> cache[offset + j - 1]]
        /\ UNCHANGED cacheVars
    BY <1>10 DEF Copy
  <2>2. /\ [j \in 1 .. chunk |-> cache[offset + j - 1]]
             = [j \in 1 .. chunk |-> View[request.loc + progress + j - 1]]
        /\ [j \in 1 .. chunk |-> cache[offset + j - 1]] \in Seq(Nat)
    BY <1>1, <1>2, <1>3, ReadFacts
  <2>3. got' \in Seq(Nat)
    BY <2>1, <2>2, SMTT(60) DEF IInv, CallOK
  <2>4. CacheOK' /\ Clean' /\ View' = View
    BY <1>1, <1>3, <2>1, SameCache DEF Seen
  <2>5. Content!Serve(chunk)
    BY <1>1, <1>4, <1>5, <1>10, <2>1, <2>2, <2>4 DEF Content!Serve
  <2>6. QED
    BY <1>6, <1>7, <1>8, <1>9, <2>3, <2>4, <2>5 DEF IInv
<1>11. CASE request.kind # "read"
  <2>1. /\ cache' = [o \in Offset |->
                       IF o \in offset .. offset + chunk - 1
                       THEN request.data[progress + o - offset + 1] ELSE cache[o]]
        /\ cache_state' = "DIRTY"
        /\ UNCHANGED <<cached_block, got>>
    BY <1>11 DEF Copy
  <2>2. /\ CacheOK'
        /\ View' = [a \in Addr |-> IF a \in Content!Piece(chunk)
                                   THEN request.data[a - request.loc + 1] ELSE View[a]]
    BY <1>1, <1>2, <1>3, <2>1, WriteFacts
  <2>3. Clean'
    <3>1. block # NoBlock
      BY <1>1, UnderWay, SMTT(60) DEF NoBlock
    <3>2. QED
      BY <1>1, <2>1, <3>1 DEF Clean
  <2>4. Content!Serve(chunk)
    BY <1>1, <1>4, <1>5, <1>11, <2>1, <2>2 DEF Content!Serve
  <2>5. got' \in Seq(Nat)
    BY <2>1 DEF IInv, CallOK
  <2>6. QED
    BY <1>6, <1>7, <1>8, <1>9, <2>2, <2>3, <2>4, <2>5 DEF IInv
<1>12. QED
  BY <1>10, <1>11

\* Either loop gives up.
LEMMA FailOK ==
    ASSUME IInv, Fail
    PROVE  /\ CacheOK' /\ Clean' /\ Mapped
           /\ request # NoRequest /\ pc \in {"running", "undo"}
           /\ request' = NoRequest /\ UNCHANGED <<progress, got>>
<1>1. /\ Unfinished /\ device_cache_block(block, FALSE) /\ request' = NoRequest
      /\ UNCHANGED <<progress, got>>
  BY DEF Fail
<1>2. block \in Nat /\ pc \in {"running", "undo"} /\ request # NoRequest
  BY <1>1, UnderWay DEF Unfinished
<1>3. /\ CacheOK' /\ Clean' /\ View' = View
      /\ \A a \in Addr : disk'[a] \in {disk[a], View[a]}
  BY <1>1, <1>2, CacheBlockFacts DEF IInv
<1>4. Mapped
  BY <1>1, <1>2, <1>3, EndMaps DEF IInv, Settled
<1>5. QED
  BY <1>1, <1>2, <1>3, <1>4

-----------------------------------------------------------------------------
(* The installer                                                           *)

\* A step of the program between requests that leaves cache and medium alone.
LEMMA QuietStep ==
    ASSUME IInv, UNCHANGED <<disk, cacheVars, request, progress, got>>
    PROVE  CacheOK' /\ Clean' /\ Mapped
<1>1. CacheOK' /\ Clean' /\ View' = View /\ Settled
  BY SameCache DEF IInv, Seen
<1>2. QED
  BY <1>1, WriteMaps DEF IInv

\* A request begins.
LEMMA RequestBegins ==
    ASSUME IInv, UNCHANGED <<disk, cacheVars>>,
           request = NoRequest \/ ~Unfinished,
           NEW loc \in Nat, NEW data \in Seq(Nat), NEW kind \in {"read", "write"},
           request' = [kind |-> kind, loc |-> loc, data |-> data],
           progress' = 0, got' = <<>>
    PROVE  /\ CacheOK' /\ Clean' /\ Mapped
           /\ request' \in Request /\ request' # NoRequest /\ request'.kind = kind
           /\ progress' <= Len(request'.data)
<1>1. CacheOK' /\ Clean' /\ View' = View /\ disk' = disk
  BY SameCache DEF IInv, Seen
<1>2. request' \in Request /\ request'.kind = kind /\ request'.data = data
  BY DEF Request
<1>3. request = NoRequest \/ progress = Len(request.data)
  BY SMTT(60) DEF IInv, CallOK, Unfinished, Request
<1>4. Mapped
  BY <1>1, <1>2, <1>3, BeginMaps
<1>5. request' # NoRequest /\ progress' <= Len(request'.data)
  BY <1>2, RequestFacts, SMTT(60)
<1>6. QED
  BY <1>1, <1>2, <1>4, <1>5

LEMMA AskOK ==
    ASSUME IInv, NEW range \in Ranges, device_read_raw(range) \/ device_write_raw(range)
    PROVE  IInv' /\ Mapped
<1>1. range[1] \in Nat /\ range[2] \in Nat
  BY RangeFacts
<1>2. Bytes(0, range[2]) \in Seq(Nat)
  BY <1>1, BytesFacts
<1>3. /\ Ask /\ requests' = requests + 1 /\ CallRead(range[1], range[2])
      /\ UNCHANGED <<disk, cacheVars, uninstall_data, udfile, pc, broken, undoVars>>
  BY DEF device_read_raw, device_write_raw
<1>4. /\ CacheOK' /\ Clean' /\ Mapped
      /\ request' \in Request /\ request' # NoRequest /\ request'.kind = "read"
      /\ progress' <= Len(request'.data)
  BY <1>1, <1>2, <1>3, RequestBegins DEF Ask, CallRead
<1>5. /\ saving' \in [loc : Nat, data : Seq(Nat), old : Seq(Nat)] \cup {NoRequest}
      /\ saving' # NoRequest => Len(uninstall_data) < UNINSTALL_DATA_MAX
  <2>1. CASE device_read_raw(range)
    BY <2>1 DEF device_read_raw, IInv, CallOK, PhaseOK
  <2>2. CASE device_write_raw(range)
    <3>1. Bytes(requests + 1, range[2]) \in Seq(Nat)
      <4>1. requests + 1 \in Nat
        BY DeviceAssumption, SMTT(60) DEF IInv, CallOK
      <4>2. QED
        BY <1>1, <4>1, BytesFacts
    <3>2. /\ saving' = [loc |-> range[1], data |-> Bytes(requests + 1, range[2]), old |-> <<>>]
          /\ Len(uninstall_data) < UNINSTALL_DATA_MAX
      BY <2>2 DEF device_write_raw
    <3>3. <<>> \in Seq(Nat)
      BY SMTT(60)
    <3>4. QED
      BY <1>1, <3>1, <3>2, <3>3
  <2>3. QED
    BY <2>1, <2>2
<1>6. CallOK'
  BY <1>3, <1>4, <1>5, DeviceAssumption, SMTT(60) DEF IInv, CallOK, Ask, CallRead
<1>7. ListOK'
  BY <1>3 DEF IInv, ListOK, undoVars
<1>8. PhaseOK'
  BY <1>3, <1>4, <1>5 DEF IInv, PhaseOK, Ask
<1>9. QED
  BY <1>4, <1>6, <1>7, <1>8 DEF IInv

LEMMA ReadDoneOK == IInv /\ ReadDone => IInv' /\ Mapped
<1> SUFFICES ASSUME IInv, ReadDone PROVE IInv' /\ Mapped
  OBVIOUS
<1>1. request # NoRequest
  BY RequestFacts DEF ReadDone
<1>2. CacheOK' /\ Clean' /\ View' = View /\ Settled
  BY SameCache DEF IInv, Seen, ReadDone
<1>3. Mapped
  BY <1>1, <1>2, EndMaps DEF IInv, ReadDone
<1>4. CallOK' /\ ListOK' /\ PhaseOK'
  BY RequestFacts DEF IInv, CallOK, ListOK, PhaseOK, ReadDone, undoVars, cacheVars
<1>5. QED
  BY <1>2, <1>3, <1>4 DEF IInv

LEMMA FailuresOK == IInv /\ (ReadFailed \/ WriteFailed \/ UndoFailed) => IInv' /\ Mapped
<1> SUFFICES ASSUME IInv, ReadFailed \/ WriteFailed \/ UndoFailed PROVE IInv' /\ Mapped
  OBVIOUS
<1>1. Fail
  BY DEF ReadFailed, WriteFailed, UndoFailed
<1>2. /\ CacheOK' /\ Clean' /\ Mapped
      /\ request' = NoRequest /\ UNCHANGED <<progress, got>>
  BY <1>1, FailOK
<1>3. /\ saving' \in {saving, NoRequest} /\ requests' = requests
      /\ UNCHANGED <<uninstall_data, udfile>>
  BY DEF ReadFailed, WriteFailed, UndoFailed
<1>4. CallOK'
  BY <1>2, <1>3 DEF IInv, CallOK
<1>5. i' \in {i, i + 1}
  BY DEF ReadFailed, WriteFailed, UndoFailed, undoVars
<1>6. ListOK'
  BY <1>3, <1>5, SMTT(60) DEF IInv, ListOK
<1>7. PhaseOK'
  <2>1. pc' \in {"running", "cleanup", "undo", "retry"}
    BY DEF ReadFailed, WriteFailed, UndoFailed
  <2>2. saving' = NoRequest
    BY DEF ReadFailed, WriteFailed, UndoFailed, IInv, PhaseOK
  <2>3. QED
    BY <1>2, <2>1, <2>2, RequestFacts DEF PhaseOK
<1>8. QED
  BY <1>2, <1>4, <1>6, <1>7 DEF IInv

\* The installation is given up between two requests.
LEMMA GiveUpOK == IInv /\ (WriteRefused \/ Reject) => IInv' /\ Mapped
<1> SUFFICES ASSUME IInv, WriteRefused \/ Reject PROVE IInv' /\ Mapped
  OBVIOUS
<1>1. /\ request = NoRequest /\ pc' = "cleanup" /\ requests' \in 0 .. MaxRequests
      /\ UNCHANGED <<disk, cacheVars, uninstall_data, udfile, callVars, undoVars>>
  BY DeviceAssumption, SMTT(60) DEF WriteRefused, Reject, Ask, IInv, CallOK
<1>2. CacheOK' /\ Clean' /\ Mapped
  BY <1>1, QuietStep DEF callVars
<1>3. saving = NoRequest
  BY <1>1 DEF IInv, PhaseOK
<1>4. CallOK' /\ ListOK'
  BY <1>1 DEF IInv, CallOK, ListOK, callVars, undoVars
<1>5. PhaseOK'
  BY <1>1, <1>3, RequestFacts DEF PhaseOK, callVars
<1>6. QED
  BY <1>2, <1>4, <1>5 DEF IInv

LEMMA SavedOK == IInv /\ Saved => IInv' /\ Mapped
<1> SUFFICES ASSUME IInv, Saved PROVE IInv' /\ Mapped
  OBVIOUS
<1>1. /\ ~Unfinished /\ saving # NoRequest /\ saving' = [saving EXCEPT !.old = got]
      /\ CallWrite(saving.loc, saving.data)
      /\ UNCHANGED <<disk, cacheVars, uninstall_data, udfile, pc, broken, requests,
                     undoVars>>
  BY DEF Saved
<1>2. /\ saving \in [loc : Nat, data : Seq(Nat), old : Seq(Nat)] /\ got \in Seq(Nat)
      /\ saving.loc \in Nat /\ saving.data \in Seq(Nat)
  BY <1>1 DEF IInv, CallOK
<1>3. /\ saving' \in [loc : Nat, data : Seq(Nat), old : Seq(Nat)]
      /\ saving' # NoRequest
  <2>1. saving' = [loc |-> saving.loc, data |-> saving.data, old |-> got]
    BY <1>1, <1>2
  <2>2. QED
    BY <1>2, <2>1 DEF NoRequest
<1>4. /\ CacheOK' /\ Clean' /\ Mapped
      /\ request' \in Request /\ request' # NoRequest /\ request'.kind = "write"
      /\ progress' <= Len(request'.data)
  BY <1>1, <1>2, RequestBegins DEF CallWrite
<1>5. CallOK'
  BY <1>1, <1>3, <1>4, SMTT(60) DEF IInv, CallOK, CallWrite
<1>6. ListOK' /\ PhaseOK'
  BY <1>1, <1>3, <1>4 DEF IInv, ListOK, PhaseOK, undoVars
<1>7. QED
  BY <1>4, <1>5, <1>6 DEF IInv

LEMMA WriteDoneOK == IInv /\ WriteDone => IInv' /\ Mapped
<1> SUFFICES ASSUME IInv, WriteDone PROVE IInv' /\ Mapped
  OBVIOUS
<1>1. /\ pc = "running" /\ request.kind = "write"
      /\ uninstall_data' = Append(uninstall_data, [loc |-> saving.loc, data |-> saving.old])
      /\ request' = NoRequest /\ saving' = NoRequest
      /\ UNCHANGED <<disk, cacheVars, udfile, pc, progress, got, broken, requests,
                     undoVars>>
  BY DEF WriteDone
<1>2. request # NoRequest
  BY <1>1, RequestFacts
<1>3. /\ saving \in [loc : Nat, data : Seq(Nat), old : Seq(Nat)]
      /\ Len(uninstall_data) < UNINSTALL_DATA_MAX
  BY <1>1 DEF IInv, CallOK, PhaseOK
<1>4. CacheOK' /\ Clean' /\ View' = View /\ Settled
  BY <1>1, SameCache DEF IInv, Seen
<1>5. Mapped
  BY <1>1, <1>2, <1>4, EndMaps DEF IInv
<1>6. CallOK'
  BY <1>1 DEF IInv, CallOK
<1>7. ListOK'
  <2>1. [loc |-> saving.loc, data |-> saving.old] \in Entry
    BY <1>3 DEF Entry
  <2>2. /\ uninstall_data' \in Seq(Entry)
        /\ Len(uninstall_data') = Len(uninstall_data) + 1
    BY <1>1, <2>1, SMTT(60) DEF IInv, ListOK
  <2>3. Len(uninstall_data) \in Nat
    BY SMTT(60) DEF IInv, ListOK
  <2>4. QED
    BY <1>1, <1>3, <2>2, <2>3, DeviceAssumption, SMTT(60) DEF IInv, ListOK, undoVars
<1>8. PhaseOK'
  BY <1>1, RequestFacts DEF IInv, PhaseOK
<1>9. QED
  BY <1>4, <1>5, <1>6, <1>7, <1>8 DEF IInv

\* Flushes.
LEMMA FlushStepOK ==
    ASSUME IInv, NEW ok \in BOOLEAN, Finish(ok) \/ RetryFlush(ok) \/ UndoEnd(ok)
    PROVE  IInv' /\ Mapped
<1>1. /\ device_flush_cache(ok) /\ i' = i
      /\ UNCHANGED <<cached_block, cache, uninstall_data, udfile, callVars, requests>>
  BY DEF Finish, RetryFlush, UndoEnd, undoVars
<1>2. /\ CacheOK' /\ Clean' /\ View' = View
      /\ \A a \in Addr : disk'[a] \in {disk[a], View[a]}
      /\ ok => cache_state' = "CLEAN"
  BY <1>1, FlushOnly DEF IInv
<1>3. Mapped
  BY <1>1, <1>2, WriteMaps DEF IInv, Settled, callVars
<1>4. CallOK' /\ ListOK'
  BY <1>1 DEF IInv, CallOK, ListOK, callVars
<1>5. /\ request = NoRequest /\ saving = NoRequest
      /\ pc' \in {"installed", "cleanup", "drop", "undone"}
      /\ pc' = "installed" => ok
  BY DEF Finish, RetryFlush, UndoEnd, IInv, PhaseOK
<1>6. PhaseOK'
  BY <1>1, <1>2, <1>5, RequestFacts DEF PhaseOK, callVars
<1>7. QED
  BY <1>2, <1>3, <1>4, <1>6 DEF IInv

-----------------------------------------------------------------------------
(* The undo                                                                *)

LEMMA ReverseFacts ==
    ASSUME IInv
    PROVE  /\ reverse_uninstall_data \in Seq(Entry)
           /\ Len(reverse_uninstall_data) = Len(uninstall_data)
<1>1. PICK n \in Nat : n = Len(uninstall_data)
  BY SMTT(60) DEF IInv, ListOK
<1>2. \A k \in 1 .. n : uninstall_data[(n - k) + 1] \in Entry
  <2>1. \A k \in 1 .. n : (n - k) + 1 \in 1 .. n
    BY SMTT(60)
  <2>2. QED
    BY <1>1, <2>1, SMTT(60) DEF IInv, ListOK
<1>3. reverse_uninstall_data = [k \in 1 .. n |-> uninstall_data[(n - k) + 1]]
  BY <1>1 DEF reverse_uninstall_data
<1>4. reverse_uninstall_data \in [1 .. n -> Entry]
  BY <1>2, <1>3
<1>5. QED
  BY <1>1, <1>4, SMTT(60)

LEMMA StoreOK == IInv /\ store_uninstall_data => IInv' /\ Mapped
<1> SUFFICES ASSUME IInv, store_uninstall_data PROVE IInv' /\ Mapped
  OBVIOUS
<1>1. /\ pc = "installed" /\ pc' = "exited" /\ uninstall_data' = reverse_uninstall_data
      /\ udfile' \in {[whole |-> TRUE, entries |-> reverse_uninstall_data], NoFile}
      /\ UNCHANGED <<disk, cacheVars, callVars, requests, undoVars>>
  BY DEF store_uninstall_data
<1>2. /\ reverse_uninstall_data \in Seq(Entry)
      /\ Len(reverse_uninstall_data) <= UNINSTALL_DATA_MAX
  BY ReverseFacts DEF IInv, ListOK
<1>3. CacheOK' /\ Clean' /\ Mapped
  BY <1>1, QuietStep DEF callVars
<1>4. CallOK'
  BY <1>1 DEF IInv, CallOK, callVars
<1>5. ListOK'
  <2>1. /\ udfile' \in [whole : BOOLEAN, entries : Seq(Entry)]
        /\ Len(udfile'.entries) <= UNINSTALL_DATA_MAX
    <3>1. CASE udfile' = [whole |-> TRUE, entries |-> reverse_uninstall_data]
      BY <1>2, <3>1
    <3>2. CASE udfile' = NoFile
      BY <3>2, DeviceAssumption, SMTT(60) DEF NoFile
    <3>3. QED
      BY <1>1, <3>1, <3>2
  <2>2. QED
    BY <1>1, <1>2, <2>1 DEF IInv, ListOK, undoVars
<1>6. PhaseOK'
  BY <1>1, RequestFacts DEF IInv, PhaseOK, callVars
<1>7. QED
  BY <1>3, <1>4, <1>5, <1>6 DEF IInv

LEMMA UninstallOK == IInv /\ (Cleanup \/ UninstallMode) => IInv' /\ Mapped
<1> SUFFICES ASSUME IInv, Cleanup \/ UninstallMode PROVE IInv' /\ Mapped
  OBVIOUS
<1>1. /\ pc \in {"cleanup", "exited", "undone"} /\ pc' = "undo" /\ DropCache /\ i' = 1
      /\ UNCHANGED <<disk, udfile, callVars, requests>>
      /\ uninstall_data' \in {reverse_uninstall_data, udfile.entries}
  BY DEF Cleanup, UninstallMode, Uninstall
<1>2. CacheOK' /\ Clean' /\ Mapped
  BY <1>1, DropMaps DEF IInv, callVars
<1>3. CallOK'
  BY <1>1 DEF IInv, CallOK, callVars
<1>4. uninstall_data' \in Seq(Entry) /\ Len(uninstall_data') <= UNINSTALL_DATA_MAX
  BY <1>1, ReverseFacts DEF IInv, ListOK
<1>5. ListOK'
  BY <1>1, <1>4, SMTT(60) DEF IInv, ListOK
<1>6. PhaseOK'
  BY <1>1, RequestFacts DEF IInv, PhaseOK, callVars
<1>7. QED
  BY <1>2, <1>3, <1>5, <1>6 DEF IInv

LEMMA UndoWriteOK == IInv /\ UndoWrite => IInv' /\ Mapped
<1> SUFFICES ASSUME IInv, UndoWrite PROVE IInv' /\ Mapped
  OBVIOUS
<1>1. /\ pc = "undo" /\ request = NoRequest /\ i <= Len(uninstall_data)
      /\ CallWrite(uninstall_data[i].loc, uninstall_data[i].data)
      /\ UNCHANGED <<disk, cacheVars, uninstall_data, udfile, pc, saving, broken,
                     requests, undoVars>>
  BY DEF UndoWrite
<1>2. i \in 1 .. Len(uninstall_data)
  BY <1>1, SMTT(60) DEF IInv, ListOK
<1>3. uninstall_data[i] \in Entry
  BY <1>2, SMTT(60) DEF IInv, ListOK
<1>4. uninstall_data[i].loc \in Nat /\ uninstall_data[i].data \in Seq(Nat)
  BY <1>3 DEF Entry
<1>5. /\ CacheOK' /\ Clean' /\ Mapped
      /\ request' \in Request /\ request' # NoRequest /\ request'.kind = "write"
      /\ progress' <= Len(request'.data)
  BY <1>1, <1>4, RequestBegins DEF CallWrite
<1>6. CallOK'
  BY <1>1, <1>5, SMTT(60) DEF IInv, CallOK, CallWrite
<1>7. ListOK' /\ PhaseOK'
  BY <1>1, <1>5 DEF IInv, ListOK, PhaseOK, undoVars
<1>8. QED
  BY <1>5, <1>6, <1>7 DEF IInv

LEMMA UndoWrittenOK == IInv /\ UndoWritten => IInv' /\ Mapped
<1> SUFFICES ASSUME IInv, UndoWritten PROVE IInv' /\ Mapped
  OBVIOUS
<1>1. CacheOK' /\ Clean' /\ View' = View /\ Settled
  BY SameCache DEF IInv, Seen, UndoWritten
<1>2. Mapped
  BY <1>1, EndMaps DEF IInv, UndoWritten
<1>3. CallOK' /\ ListOK'
  BY SMTT(60) DEF IInv, CallOK, ListOK, UndoWritten
<1>4. PhaseOK'
  BY RequestFacts DEF IInv, PhaseOK, UndoWritten
<1>5. QED
  BY <1>1, <1>2, <1>3, <1>4 DEF IInv

LEMMA RetryDropOK == IInv /\ RetryDrop => IInv' /\ Mapped
<1> SUFFICES ASSUME IInv, RetryDrop PROVE IInv' /\ Mapped
  OBVIOUS
<1>1. CacheOK' /\ Clean' /\ Mapped
  BY DropMaps DEF IInv, RetryDrop, callVars
<1>2. CallOK' /\ ListOK'
  BY DEF IInv, CallOK, ListOK, RetryDrop, callVars
<1>3. PhaseOK'
  BY RequestFacts DEF IInv, PhaseOK, RetryDrop, callVars
<1>4. QED
  BY <1>1, <1>2, <1>3 DEF IInv

-----------------------------------------------------------------------------
(* Results                                                                 *)

LEMMA NextOK == IInv /\ [Next]_vars => IInv' /\ Mapped
<1> SUFFICES ASSUME IInv, [Next]_vars PROVE IInv' /\ Mapped
  OBVIOUS
<1>1. CASE Installing
  <2>1. CASE \E range \in Ranges : device_read_raw(range) \/ device_write_raw(range)
    BY <2>1, AskOK
  <2>2. CASE \E ok \in BOOLEAN : Finish(ok)
    BY <2>2, FlushStepOK
  <2>3. QED
    BY <1>1, <2>1, <2>2, ReadDoneOK, FailuresOK, GiveUpOK, SavedOK, WriteDoneOK, StoreOK
       DEF Installing
<1>2. CASE Undoing
  <2>1. CASE \E ok \in BOOLEAN : RetryFlush(ok) \/ UndoEnd(ok)
    BY <2>1, FlushStepOK
  <2>2. QED
    BY <1>2, <2>1, UninstallOK, UndoWriteOK, UndoWrittenOK, FailuresOK, RetryDropOK
       DEF Undoing
<1>3. CASE UninstallMode \/ Fetch \/ Copy
  BY <1>3, UninstallOK, FetchOK, CopyOK
<1>4. CASE UNCHANGED vars
  <2>1. CacheOK' /\ Clean' /\ Mapped
    BY <1>4, QuietStep DEF vars, callVars
  <2>2. CallOK' /\ ListOK' /\ PhaseOK'
    BY <1>4 DEF vars, callVars, cacheVars, undoVars, IInv, CallOK, ListOK, PhaseOK
  <2>3. QED
    BY <2>1, <2>2 DEF IInv
<1>5. QED
  BY <1>1, <1>2, <1>3, <1>4 DEF Next

LEMMA SpecIInv == Spec => []IInv
<1>1. Init => IInv
  BY InitOK
<1>2. IInv /\ [Next]_vars => IInv'
  BY NextOK
<1>3. QED
  BY <1>1, <1>2, PTL DEF Spec

\* The state of limine.c's block layer keeps its type: no entry is stored behind
\* the end of uninstall_data, in particular, however writes fail.
THEOREM TypeCorrect == Spec => []TypeOK
<1>1. IInv => TypeOK
  BY DEF IInv, CacheOK, CallOK, ListOK, PhaseOK, TypeOK
<1>2. QED
  BY <1>1, SpecIInv, PTL

\* When bios_install has said that it succeeded, device_flush_cache has put every
\* byte it wrote on the medium.
THEOREM InstalledStaysDurable == Spec => []InstalledIsDurable
<1>1. IInv => InstalledIsDurable
  BY ViewFacts DEF IInv, PhaseOK, InstalledIsDurable
<1>2. QED
  BY <1>1, SpecIInv, PTL

\* device_read_raw and device_write_raw implement a disk without a cache, whichever
\* seeks, reads, writes and flushes fail.
THEOREM CacheIsInvisible == Spec => ImplementsDisk
<1>1. Init => Content!Init
  BY InitOK
<1>2. IInv /\ [Next]_vars => [Content!Next]_(Content!vars)
  BY NextOK DEF Mapped
<1>3. QED
  BY <1>1, <1>2, SpecIInv, PTL DEF Spec, ImplementsDisk, Content!Spec

-----------------------------------------------------------------------------
(***************************************************************************)
(* The undo.  Writes overlap, so an entry of the undo list need not hold   *)
(* original bytes.  The argument goes address by address: of the entries   *)
(* with a byte for an address the first one written holds the original     *)
(* byte, and it is the last one to be written back.                        *)
(***************************************************************************)

\* An entry of the list, or a request, has a byte for the address.
Covers(e, a) == e.loc <= a /\ a < e.loc + Len(e.data)

ByteFor(e, a) == e.data[a - e.loc + 1]

CoveredIn(l, a) == \E n \in 1 .. Len(l) : Covers(l[n], a)

FirstIsOriginal(l) ==
    \A a \in Addr, n \in 1 .. Len(l) :
        Covers(l[n], a) /\ (\A m \in 1 .. Len(l) : m < n => ~Covers(l[m], a))
          => ByteFor(l[n], a) = Original[a]

LastIsOriginal(l) ==
    \A a \in Addr, n \in 1 .. Len(l) :
        Covers(l[n], a) /\ (\A m \in 1 .. Len(l) : m > n => ~Covers(l[m], a))
          => ByteFor(l[n], a) = Original[a]

\* The list is in the order of the writes until the installation ends.
InOrder == pc \in {"running", "cleanup", "installed"}

OrderOK ==
    IF InOrder THEN FirstIsOriginal(uninstall_data) /\ udfile.whole = FALSE
               ELSE /\ LastIsOriginal(uninstall_data)
                    /\ udfile.whole = TRUE => udfile.entries = uninstall_data

\* The address belongs to the write that is under way.
Writing(a) == saving # NoRequest /\ request.kind = "write" /\ Covers(saving, a)

\* What no entry has a byte for is as it was, in the cache and on the medium.
RestOK ==
    /\ pc = "running" => broken = {}
    /\ \A a \in Addr :
         CoveredIn(uninstall_data, a) \/ a \in broken \/ Writing(a)
           \/ (View[a] = Original[a] /\ disk[a] = Original[a])

\* The write under way has read what is seen or, later, has saved what was seen.
SavingOK ==
    saving # NoRequest =>
        /\ request.loc = saving.loc /\ Len(request.data) = Len(saving.data)
        /\ request.kind = "read" =>
             /\ Len(got) = progress
             /\ \A a \in Addr : request.loc <= a /\ a < request.loc + progress =>
                                  got[a - request.loc + 1] = View[a]
        /\ request.kind = "write" =>
             /\ Len(saving.old) = Len(saving.data)
             /\ \A a \in Addr : Covers(saving, a) /\ ~CoveredIn(uninstall_data, a) =>
                                  saving.old[a - saving.loc + 1] = Original[a]

\* No entry behind the n-th has a byte for the address.
NoneAfter(n, a) ==
    \A m \in 1 .. Len(uninstall_data) : m > n => ~Covers(uninstall_data[m], a)

Undo == pc \in {"undo", "retry", "drop", "undone"}
NoFailure == print_write_fail = FALSE /\ print_cache_flush_fail = FALSE

UndoCallOK ==
    /\ print_write_fail \in BOOLEAN /\ print_cache_flush_fail \in BOOLEAN
    /\ pc = "undo" /\ request # NoRequest =>
         /\ i <= Len(uninstall_data) /\ request.kind = "write"
         /\ request.loc = uninstall_data[i].loc /\ request.data = uninstall_data[i].data
    /\ pc = "undone" => i > Len(uninstall_data)
    /\ pc \in {"drop", "undone"} /\ NoFailure => cache_state = "CLEAN"

\* What has been written back for the last time is original.
UndoneOK ==
    Undo /\ NoFailure =>
        /\ \A a \in Addr : CoveredIn(uninstall_data, a) /\ NoneAfter(i - 1, a) =>
                             View[a] = Original[a]
        /\ pc = "undo" /\ request # NoRequest =>
             \A a \in Addr :
                 Covers(request, a) /\ a < request.loc + progress /\ NoneAfter(i, a)
                   => View[a] = Original[a]

UInv == OrderOK /\ RestOK /\ SavingOK /\ UndoCallOK /\ UndoneOK

-----------------------------------------------------------------------------
(* What steps have in common                                               *)

LEMMA EntryFacts ==
    ASSUME ListOK
    PROVE  /\ Len(uninstall_data) \in Nat
           /\ \A n \in 1 .. Len(uninstall_data) :
                /\ uninstall_data[n].loc \in Nat /\ uninstall_data[n].data \in Seq(Nat)
                /\ Len(uninstall_data[n].data) \in Nat
<1>1. uninstall_data \in Seq(Entry)
  BY DEF ListOK
<1>2. \A n \in 1 .. Len(uninstall_data) : uninstall_data[n] \in Entry
  BY <1>1, SMTT(60)
<1>3. QED
  BY <1>1, <1>2, SMTT(60) DEF Entry

\* Steps that change nothing of what is seen keep what no entry has a byte for.
LEMMA RestKept ==
    ASSUME RestOK, Seen, pc' = "running" => broken' = {},
           \A a \in Addr :
             CoveredIn(uninstall_data, a) \/ a \in broken \/ Writing(a)
               => CoveredIn(uninstall_data', a) \/ a \in broken' \/ Writing(a)'
    PROVE  RestOK'
<1>1. ASSUME NEW a \in Addr,
             ~(CoveredIn(uninstall_data', a) \/ a \in broken' \/ Writing(a)')
      PROVE  View'[a] = Original[a] /\ disk'[a] = Original[a]
  <2>1. View[a] = Original[a] /\ disk[a] = Original[a]
    BY <1>1 DEF RestOK
  <2>2. View' = View /\ disk'[a] \in {disk[a], View[a]}
    BY DEF Seen, Settled
  <2>3. QED
    BY <2>1, <2>2
<1>2. QED
  BY <1>1 DEF RestOK, Original

\* A flush, alone or before a block is cached, changes nothing of what is seen.
LEMMA FetchSeen ==
    ASSUME IInv, Fetch
    PROVE  Seen
<1>1. block \in Nat
  BY UnderWay DEF Fetch
<1>2. QED
  BY <1>1, CacheBlockFacts DEF Fetch, IInv, Seen, Settled

LEMMA FailSeen ==
    ASSUME IInv, Fail
    PROVE  Seen /\ request' = NoRequest
<1>1. block \in Nat
  BY UnderWay DEF Fail
<1>2. QED
  BY <1>1, CacheBlockFacts DEF Fail, IInv, Seen, Settled

LEMMA FlushSeen ==
    ASSUME IInv, NEW ok \in BOOLEAN, device_flush_cache(ok), UNCHANGED <<cached_block, cache>>
    PROVE  Seen /\ (ok => cache_state' = "CLEAN")
BY FlushOnly DEF IInv, Seen, Settled

\* A read, and a write that saves, belong to the installation.
LEMMA PhaseFacts ==
    ASSUME IInv, UndoCallOK
    PROVE  /\ request.kind = "read" => pc = "running"
           /\ saving # NoRequest => pc = "running" /\ request \in Request
           /\ pc \notin {"running", "undo"} => request = NoRequest
           /\ request = NoRequest => request.kind = "none" /\ saving = NoRequest
           /\ \A a : Writing(a) => saving # NoRequest /\ request.kind = "write"
<1>1. request.kind = "read" => pc = "running"
  BY RequestFacts DEF IInv, PhaseOK, UndoCallOK
<1>2. saving # NoRequest => pc = "running" /\ request \in Request
  BY DEF IInv, PhaseOK, CallOK
<1>3. /\ pc \notin {"running", "undo"} => request = NoRequest
      /\ request = NoRequest => request.kind = "none" /\ saving = NoRequest
  BY RequestFacts DEF IInv, PhaseOK
<1>4. QED
  BY <1>1, <1>2, <1>3 DEF Writing

\* While the installation runs nothing is undone.
LEMMA InstallStep ==
    ASSUME UInv, pc = "running", pc' \in {"running", "cleanup", "installed"},
           UNCHANGED <<udfile, undoVars>>, FirstIsOriginal(uninstall_data')
    PROVE  OrderOK' /\ UndoCallOK' /\ UndoneOK'
<1>1. OrderOK'
  BY DEF UInv, OrderOK, InOrder
<1>2. UndoCallOK'
  BY DEF UInv, UndoCallOK, undoVars
<1>3. UndoneOK'
  BY DEF UndoneOK, Undo
<1>4. QED
  BY <1>1, <1>2, <1>3

-----------------------------------------------------------------------------
(* The installation                                                        *)

LEMMA AskUndo ==
    ASSUME IInv, UInv, NEW range \in Ranges, device_read_raw(range) \/ device_write_raw(range)
    PROVE  UInv'
<1>1. /\ Ask /\ CallRead(range[1], range[2])
      /\ UNCHANGED <<disk, cacheVars, uninstall_data, udfile, pc, broken, undoVars>>
  BY DEF device_read_raw, device_write_raw
<1>2. pc = "running" /\ saving = NoRequest /\ \A a : ~Writing(a)
  BY <1>1, PhaseFacts DEF Ask, UInv
<1>3. Seen
  BY <1>1, SameCache DEF IInv
<1>4. RestOK'
  BY <1>1, <1>2, <1>3, RestKept DEF UInv, RestOK
<1>5. SavingOK'
  <2>1. CASE device_read_raw(range)
    BY <1>2, <2>1 DEF device_read_raw, SavingOK
  <2>2. CASE device_write_raw(range)
    <3>1. /\ request'.loc = range[1] /\ request'.kind = "read"
          /\ request'.data = Bytes(0, range[2]) /\ progress' = 0 /\ got' = <<>>
          /\ saving'.loc = range[1] /\ saving'.data = Bytes(requests + 1, range[2])
      BY <1>1, <2>2, SMTT(60) DEF device_write_raw, CallRead
    <3>2. range[1] \in Nat /\ range[2] \in Nat
      BY RangeFacts
    <3>3. Len(Bytes(0, range[2])) = range[2] /\ Len(Bytes(requests + 1, range[2])) = range[2]
      BY <3>2, SMTT(60) DEF Bytes
    <3>4. \A a \in Addr : ~(range[1] <= a /\ a < range[1] + 0)
      <4>1. \A a \in Addr : a \in Nat
        BY AddrFacts
      <4>2. QED
        BY <3>2, <4>1, SMTT(60)
    <3>5. QED
      BY <3>1, <3>3, <3>4 DEF SavingOK
  <2>3. QED
    BY <2>1, <2>2
<1>6. OrderOK' /\ UndoCallOK' /\ UndoneOK'
  <2>1. FirstIsOriginal(uninstall_data')
    BY <1>1, <1>2 DEF UInv, OrderOK, InOrder
  <2>2. QED
    BY <1>1, <1>2, <2>1, InstallStep
<1>7. QED
  BY <1>4, <1>5, <1>6 DEF UInv

\* A read ends, or the installation is given up with no write under way.
LEMMA NoWriteUndo ==
    ASSUME IInv, UInv, Seen, pc = "running", pc' \in {"running", "cleanup", "installed"},
           \A a : ~Writing(a), saving' = NoRequest, broken' = {},
           UNCHANGED <<uninstall_data, udfile, undoVars>>
    PROVE  UInv'
<1>1. RestOK'
  BY RestKept DEF UInv, RestOK
<1>2. SavingOK'
  BY DEF SavingOK
<1>3. OrderOK' /\ UndoCallOK' /\ UndoneOK'
  <2>1. FirstIsOriginal(uninstall_data')
    BY DEF UInv, OrderOK, InOrder
  <2>2. QED
    BY <2>1, InstallStep
<1>4. QED
  BY <1>1, <1>2, <1>3 DEF UInv

LEMMA EndsUndo ==
    ASSUME IInv, UInv,
           \/ ReadDone \/ ReadFailed \/ WriteRefused \/ Reject
           \/ \E ok \in BOOLEAN : Finish(ok)
    PROVE  UInv'
<1>1. pc = "running" /\ saving = NoRequest
  BY PhaseFacts DEF ReadDone, ReadFailed, WriteRefused, Reject, Finish, Ask, UInv
<1>2. /\ \A a : ~Writing(a)
      /\ broken = {}
  BY <1>1 DEF Writing, UInv, RestOK
<1>3. /\ pc' \in {"running", "cleanup", "installed"}
      /\ saving' = saving /\ broken' = broken
      /\ UNCHANGED <<uninstall_data, udfile, undoVars>>
  BY <1>1 DEF ReadDone, ReadFailed, WriteRefused, Reject, Finish, callVars
<1>4. Seen
  <2>1. CASE ReadDone \/ WriteRefused \/ Reject
    BY <2>1, SameCache DEF ReadDone, WriteRefused, Reject, IInv
  <2>2. CASE ReadFailed
    BY <2>2, FailSeen DEF ReadFailed
  <2>3. CASE \E ok \in BOOLEAN : Finish(ok)
    BY <2>3, FlushSeen DEF Finish
  <2>4. QED
    BY <2>1, <2>2, <2>3
<1>5. QED
  BY <1>1, <1>2, <1>3, <1>4, NoWriteUndo

\* What was read is saved, original where no entry has a byte yet.
LEMMA SavedUndo ==
    ASSUME IInv, UInv, Saved
    PROVE  UInv'
<1>1. /\ request.kind = "read" /\ ~Unfinished /\ saving # NoRequest
      /\ saving' = [saving EXCEPT !.old = got]
      /\ request' = [kind |-> "write", loc |-> saving.loc, data |-> saving.data]
      /\ UNCHANGED <<disk, cacheVars, uninstall_data, udfile, pc, broken, undoVars>>
  BY DEF Saved, CallWrite
<1>2. pc = "running" /\ request \in Request /\ \A a : ~Writing(a)
  BY <1>1, PhaseFacts DEF UInv, Writing
<1>3. saving \in [loc : Nat, data : Seq(Nat), old : Seq(Nat)]
  BY <1>1 DEF IInv, CallOK
<1>4. /\ saving'.loc = saving.loc /\ saving'.data = saving.data /\ saving'.old = got
      /\ request'.loc = saving.loc /\ request'.data = saving.data
      /\ request'.kind = "write"
  BY <1>1, <1>3
<1>5. Seen
  BY <1>1, SameCache DEF IInv
<1>6. RestOK'
  BY <1>1, <1>2, <1>5, RestKept DEF UInv, RestOK
<1>7. SavingOK'
  <2>1. /\ request.loc = saving.loc /\ Len(request.data) = Len(saving.data)
        /\ Len(got) = progress
        /\ \A a \in Addr : request.loc <= a /\ a < request.loc + progress =>
                             got[a - request.loc + 1] = View[a]
    BY <1>1 DEF UInv, SavingOK
  <2>2. progress = Len(request.data)
    BY <1>1, <1>2, RequestFacts, SMTT(60) DEF Unfinished, IInv, CallOK, Request
  <2>3. ASSUME NEW a \in Addr, Covers(saving, a), ~CoveredIn(uninstall_data, a)
        PROVE  got[a - saving.loc + 1] = Original[a]
    <3>1. View[a] = Original[a]
      BY <1>2, <2>3 DEF UInv, RestOK
    <3>2. QED
      BY <2>1, <2>2, <2>3, <3>1 DEF Covers
  <2>4. \A a \in Addr : Covers(saving', a) => Covers(saving, a)
    BY <1>4 DEF Covers
  <2>5. QED
    BY <1>1, <1>4, <2>1, <2>2, <2>3, <2>4 DEF SavingOK
<1>8. OrderOK' /\ UndoCallOK' /\ UndoneOK'
  <2>1. FirstIsOriginal(uninstall_data')
    BY <1>1, <1>2 DEF UInv, OrderOK, InOrder
  <2>2. QED
    BY <1>1, <1>2, <2>1, InstallStep
<1>9. QED
  BY <1>6, <1>7, <1>8 DEF UInv

\* Of the entries with a byte for an address the first holds the original one: the
\* new entry is the first only where there was none.
LEMMA WriteDoneUndo ==
    ASSUME IInv, UInv, WriteDone
    PROVE  UInv'
<1> DEFINE e == [loc |-> saving.loc, data |-> saving.old]
           n == Len(uninstall_data)
<1>1. /\ pc = "running" /\ request.kind = "write"
      /\ uninstall_data' = Append(uninstall_data, e) /\ saving' = NoRequest
      /\ UNCHANGED <<disk, cacheVars, udfile, pc, broken, undoVars>>
  BY DEF WriteDone
<1>2. saving # NoRequest
  BY <1>1 DEF IInv, PhaseOK
<1>3. saving \in [loc : Nat, data : Seq(Nat), old : Seq(Nat)]
  BY <1>2 DEF IInv, CallOK
<1>4. /\ Len(saving.old) = Len(saving.data)
      /\ \A a \in Addr : Covers(saving, a) /\ ~CoveredIn(uninstall_data, a) =>
                           saving.old[a - saving.loc + 1] = Original[a]
  BY <1>1, <1>2 DEF UInv, SavingOK
<1>5. /\ n \in Nat /\ Len(uninstall_data') = n + 1 /\ uninstall_data'[n + 1] = e
      /\ \A m \in 1 .. n : uninstall_data'[m] = uninstall_data[m]
  <2>1. uninstall_data \in Seq(Entry) /\ e \in Entry
    BY <1>3 DEF IInv, ListOK, Entry
  <2>2. QED
    BY <1>1, <2>1, SMTT(60)
<1>6. \A a : Covers(e, a) <=> Covers(saving, a)
  BY <1>4 DEF Covers
<1>7. \A a : CoveredIn(uninstall_data', a) <=> CoveredIn(uninstall_data, a) \/ Covers(e, a)
  <2> HIDE DEF e
  <2>1. 1 .. n + 1 = 1 .. n \cup {n + 1}
    BY <1>5, SMTT(60)
  <2>2. QED
    BY <1>5, <2>1 DEF CoveredIn
<1>8. Seen
  BY <1>1, SameCache DEF IInv
<1>9. RestOK'
  <2>1. \A a : Writing(a) => CoveredIn(uninstall_data', a)
    BY <1>6, <1>7 DEF Writing
  <2>2. QED
    BY <1>1, <1>7, <1>8, <2>1, RestKept DEF UInv, RestOK
<1>10. SavingOK'
  BY <1>1 DEF SavingOK
<1>11. FirstIsOriginal(uninstall_data')
  <2>1. ASSUME NEW a \in Addr, NEW k \in 1 .. n + 1, Covers(uninstall_data'[k], a),
               \A m \in 1 .. n + 1 : m < k => ~Covers(uninstall_data'[m], a)
        PROVE  ByteFor(uninstall_data'[k], a) = Original[a]
    <3>1. CASE k \in 1 .. n
      <4>1. \A m \in 1 .. n : m < k => ~Covers(uninstall_data[m], a)
        BY <1>5, <2>1, SMTT(60)
      <4>2. FirstIsOriginal(uninstall_data)
        BY <1>1 DEF UInv, OrderOK, InOrder
      <4>3. QED
        BY <1>5, <2>1, <3>1, <4>1, <4>2 DEF FirstIsOriginal
    <3>2. CASE k = n + 1
      <4>1. \A m \in 1 .. n : ~Covers(uninstall_data[m], a)
        BY <1>5, <2>1, <3>2, SMTT(60)
      <4>2. ~CoveredIn(uninstall_data, a)
        BY <4>1 DEF CoveredIn
      <4>3. Covers(saving, a)
        BY <1>5, <1>6, <2>1, <3>2
      <4>4. QED
        BY <1>4, <1>5, <3>2, <4>2, <4>3, SMTT(60) DEF ByteFor
    <3>3. QED
      BY <1>5, <3>1, <3>2, SMTT(60)
  <2>2. QED
    BY <1>5, <2>1 DEF FirstIsOriginal
<1>12. OrderOK' /\ UndoCallOK' /\ UndoneOK'
  BY <1>1, <1>11, InstallStep
<1>13. QED
  BY <1>9, <1>10, <1>12 DEF UInv

\* Nothing is kept of a write that fails, but it had changed nothing if it failed
\* while it was reading.
LEMMA WriteFailedUndo ==
    ASSUME IInv, UInv, WriteFailed
    PROVE  UInv'
<1>1. /\ pc = "running" /\ saving # NoRequest /\ saving' = NoRequest /\ pc' = "cleanup"
      /\ broken' = IF request.kind = "write"
                   THEN saving.loc .. saving.loc + Len(saving.data) - 1 ELSE {}
      /\ UNCHANGED <<uninstall_data, udfile, undoVars>>
  BY DEF WriteFailed
<1>2. Seen
  BY FailSeen DEF WriteFailed
<1>3. CASE request.kind # "write"
  <2>1. \A a : ~Writing(a)
    BY <1>3 DEF Writing
  <2>2. QED
    BY <1>1, <1>2, <1>3, <2>1, NoWriteUndo
<1>4. CASE request.kind = "write"
  <2>1. saving.loc \in Nat /\ Len(saving.data) \in Nat
    BY <1>1, SMTT(60) DEF IInv, CallOK
  <2>2. \A a \in Addr : a \in Nat
    BY AddrFacts
  <2>3. \A a \in Addr : Writing(a) => a \in broken'
    BY <1>1, <1>4, <2>1, <2>2, SMTT(60) DEF Writing, Covers
  <2>4. broken = {}
    BY <1>1 DEF UInv, RestOK
  <2>5. RestOK'
    BY <1>1, <1>2, <2>3, <2>4, RestKept DEF UInv
  <2>6. SavingOK'
    BY <1>1 DEF SavingOK
  <2>7. FirstIsOriginal(uninstall_data')
    BY <1>1 DEF UInv, OrderOK, InOrder
  <2>8. OrderOK' /\ UndoCallOK' /\ UndoneOK'
    BY <1>1, <2>7, InstallStep
  <2>9. QED
    BY <2>5, <2>6, <2>8 DEF UInv
<1>5. QED
  BY <1>3, <1>4

-----------------------------------------------------------------------------
(* Blocks and pieces                                                       *)

LEMMA FetchUndo ==
    ASSUME IInv, UInv, Fetch
    PROVE  UInv'
<1>1. UNCHANGED <<uninstall_data, udfile, pc, request, progress, got, saving, broken,
                  i, print_write_fail, print_cache_flush_fail>>
  BY DEF Fetch, callVars, undoVars
<1>2. Seen /\ View' = View
  BY FetchSeen DEF Seen
<1>3. pc \in {"running", "undo"}
  BY UnderWay DEF Fetch
<1>4. OrderOK'
  BY <1>1 DEF UInv, OrderOK, InOrder
<1>5. RestOK'
  <2>1. \A a : Writing(a)' <=> Writing(a)
    BY <1>1 DEF Writing, Covers
  <2>2. QED
    BY <1>1, <1>2, <2>1, RestKept DEF UInv, RestOK
<1>6. SavingOK'
  <2>1. \A a : Covers(saving', a) <=> Covers(saving, a)
    BY <1>1
  <2>2. QED
    BY <1>1, <1>2, <2>1 DEF UInv, SavingOK
<1>7. UndoCallOK'
  BY <1>1, <1>3 DEF UInv, UndoCallOK
<1>8. UndoneOK'
  <2>1. \A n, a : NoneAfter(n, a)' <=> NoneAfter(n, a)
    BY <1>1 DEF NoneAfter
  <2>2. Undo' = Undo /\ NoFailure' = NoFailure
    BY <1>1 DEF Undo, NoFailure
  <2>3. QED
    BY <1>1, <1>2, <2>1, <2>2 DEF UInv, UndoneOK
<1>9. QED
  BY <1>4, <1>5, <1>6, <1>7, <1>8 DEF UInv

\* A piece is read.
LEMMA CopyReadUndo ==
    ASSUME IInv, UInv, Copy, request.kind = "read"
    PROVE  UInv'
<1>1. /\ Unfinished /\ cached_block = block /\ progress' = progress + chunk
      /\ got' = got \o [j \in 1 .. chunk |-> cache[offset + j - 1]]
      /\ UNCHANGED <<disk, cacheVars, uninstall_data, udfile, pc, request, saving, broken,
                     undoVars>>
  BY DEF Copy
<1>2. pc = "running" /\ \A a : ~Writing(a)
  BY PhaseFacts DEF UInv, Writing
<1>3. Seen /\ View' = View
  BY <1>1, SameCache DEF IInv, Seen
<1>4. RestOK'
  BY <1>1, <1>2, <1>3, RestKept DEF UInv, RestOK
<1>5. SavingOK'
  <2>1. SUFFICES ASSUME saving # NoRequest PROVE SavingOK'
    BY <1>1 DEF SavingOK
  <2>2. /\ request.loc = saving.loc /\ Len(request.data) = Len(saving.data)
        /\ Len(got) = progress
        /\ \A a \in Addr : request.loc <= a /\ a < request.loc + progress =>
                             got[a - request.loc + 1] = View[a]
    BY <2>1 DEF UInv, SavingOK
  <2>3. request \in Request /\ progress \in Nat /\ got \in Seq(Nat)
    BY <1>1, UnderWay DEF IInv, CallOK
  <2>4. chunk \in Nat /\ request.loc \in Nat
    BY <1>1, <2>3, PieceFacts, RequestFacts, SMTT(60) DEF IInv, Request
  <2> DEFINE new == [j \in 1 .. chunk |-> View[request.loc + progress + j - 1]]
  <2>5. got' = got \o new /\ new \in Seq(Nat)
    BY <1>1, <2>3, ReadFacts DEF IInv
  <2>6. Len(new) = chunk
    BY <2>4, SMTT(60)
  <2>7. /\ Len(got') = progress + chunk
        /\ \A k \in 1 .. progress : got'[k] = got[k]
        /\ \A k \in progress + 1 .. progress + chunk : got'[k] = new[k - progress]
    <3> HIDE DEF new
    <3>1. Len(got) = progress
      BY <2>2
    <3>2. Len(got \o new) = Len(got) + Len(new)
      BY <2>3, <2>5, SMTT(60)
    <3>3. Len(got') = progress + chunk
      BY <2>5, <2>6, <3>1, <3>2
    <3>4. QED
      BY <2>3, <2>4, <2>5, <2>6, <3>1, <3>3, SMTT(60)
  <2>8. ASSUME NEW a \in Addr, request.loc <= a, a < request.loc + (progress + chunk)
        PROVE  got'[a - request.loc + 1] = View[a]
    <3>1. a \in Nat
      BY AddrFacts
    <3>2. CASE a < request.loc + progress
      <4>1. a - request.loc + 1 \in 1 .. progress
        BY <2>3, <2>4, <2>8, <3>1, <3>2, SMTT(60)
      <4>2. QED
        BY <2>2, <2>7, <2>8, <3>2, <4>1
    <3>3. CASE a >= request.loc + progress
      <4>1. PICK k \in progress + 1 .. progress + chunk : k = a - request.loc + 1
        BY <2>3, <2>4, <2>8, <3>1, <3>3, SMTT(60)
      <4>2. /\ k - progress \in 1 .. chunk
            /\ request.loc + progress + (k - progress) - 1 = a
        <5>1. progress \in Nat /\ request.loc \in Nat /\ chunk \in Nat
          BY <2>3, <2>4
        <5>2. QED
          BY <3>1, <4>1, <5>1, SMTT(60)
      <4>3. got'[k] = new[k - progress]
        BY <2>7
      <4>4. new[k - progress] = View[request.loc + progress + (k - progress) - 1]
        BY <4>2
      <4>5. QED
        BY <4>1, <4>2, <4>3, <4>4
    <3>4. QED
      BY <2>3, <2>4, <3>1, <3>2, <3>3, SMTT(60)
  <2>9. QED
    <3> HIDE DEF new
    <3>1. QED
      BY <1>1, <1>3, <2>2, <2>7, <2>8 DEF SavingOK
<1>6. OrderOK' /\ UndoCallOK' /\ UndoneOK'
  <2>1. FirstIsOriginal(uninstall_data')
    BY <1>1, <1>2 DEF UInv, OrderOK, InOrder
  <2>2. QED
    BY <1>1, <1>2, <2>1, InstallStep
<1>7. QED
  BY <1>4, <1>5, <1>6 DEF UInv

\* A piece is written: what is seen changes at addresses of the request alone.
LEMMA CopyWriteFacts ==
    ASSUME IInv, Copy, request.kind # "read"
    PROVE  /\ request \in Request /\ request # NoRequest /\ pc \in {"running", "undo"}
           /\ request.kind = "write" /\ progress \in Nat /\ chunk \in Nat
           /\ progress' = progress + chunk
           /\ \A a \in Addr :
                 \/ View'[a] = View[a]
                      /\ (a < request.loc + progress \/ a >= request.loc + progress')
                 \/ Covers(request, a) /\ View'[a] = ByteFor(request, a)
           /\ UNCHANGED <<disk, uninstall_data, udfile, pc, request, saving, broken,
                          undoVars>>
<1>1. /\ Unfinished /\ cached_block = block /\ progress' = progress + chunk
      /\ cache' = [o \in Offset |->
                     IF o \in offset .. offset + chunk - 1
                     THEN request.data[progress + o - offset + 1] ELSE cache[o]]
      /\ cache_state' = "DIRTY"
      /\ UNCHANGED <<cached_block, disk, uninstall_data, udfile, pc, request, saving, broken,
                     undoVars>>
  BY DEF Copy
<1>2. request \in Request /\ request # NoRequest /\ pc \in {"running", "undo"}
  BY <1>1, UnderWay DEF Unfinished
<1>3. CacheOK /\ progress \in Nat
  BY DEF IInv, CallOK
<1>4. /\ chunk \in Nat /\ progress + chunk <= Len(request.data)
      /\ request.loc \in Nat /\ Len(request.data) \in Nat
  BY <1>1, <1>2, <1>3, PieceFacts, SMTT(60) DEF Request
<1>5. View' = [a \in Addr |-> IF a \in Content!Piece(chunk)
                              THEN request.data[a - request.loc + 1] ELSE View[a]]
  BY <1>1, <1>2, <1>3, WriteFacts
<1>6. ASSUME NEW a \in Addr
      PROVE  \/ View'[a] = View[a]
                  /\ (a < request.loc + progress \/ a >= request.loc + progress')
             \/ Covers(request, a) /\ View'[a] = ByteFor(request, a)
  <2>1. a \in Nat
    BY AddrFacts
  <2>2. CASE a \in Content!Piece(chunk)
    <3>1. Covers(request, a)
      BY <1>3, <1>4, <2>1, <2>2, SMTT(60) DEF Covers, Content!Piece
    <3>2. QED
      BY <1>5, <2>2, <3>1 DEF ByteFor
  <2>3. CASE a \notin Content!Piece(chunk)
    <3>1. a < request.loc + progress \/ a >= request.loc + progress'
      BY <1>1, <1>3, <1>4, <2>1, <2>3, SMTT(60) DEF Content!Piece
    <3>2. QED
      BY <1>5, <2>3, <3>1
  <2>4. QED
    BY <2>2, <2>3
<1>7. request.kind = "write"
  BY <1>2, RequestFacts
<1>8. QED
  BY <1>1, <1>2, <1>3, <1>4, <1>6, <1>7

LEMMA CopyWriteUndo ==
    ASSUME IInv, UInv, Copy, request.kind # "read"
    PROVE  UInv'
<1>1. /\ request \in Request /\ request # NoRequest /\ pc \in {"running", "undo"}
      /\ request.kind = "write" /\ progress \in Nat /\ chunk \in Nat
      /\ progress' = progress + chunk
      /\ UNCHANGED <<disk, uninstall_data, udfile, pc, request, saving, broken, undoVars>>
  BY CopyWriteFacts
<1>2. \A a \in Addr :
         \/ View'[a] = View[a]
              /\ (a < request.loc + progress \/ a >= request.loc + progress')
         \/ Covers(request, a) /\ View'[a] = ByteFor(request, a)
  BY CopyWriteFacts
<1>3. OrderOK'
  BY <1>1 DEF UInv, OrderOK, InOrder
<1>4. SavingOK'
  <2>1. \A a : Covers(saving', a) <=> Covers(saving, a)
    BY <1>1
  <2>2. QED
    BY <1>1, <2>1 DEF UInv, SavingOK
<1>5. UndoCallOK'
  BY <1>1 DEF UInv, UndoCallOK, undoVars
<1>6. \A a : Writing(a)' <=> Writing(a)
  BY <1>1 DEF Writing, Covers
<1>7. CASE pc = "running"
  <2>1. saving # NoRequest
    BY <1>1, <1>7 DEF IInv, PhaseOK
  <2>2. \A a : Covers(request, a) => Writing(a)
    BY <1>1, <2>1 DEF UInv, SavingOK, Writing, Covers
  <2>3. RestOK'
    <3>1. ASSUME NEW a \in Addr, ~CoveredIn(uninstall_data, a), a \notin broken, ~Writing(a)
          PROVE  View'[a] = Original[a] /\ disk'[a] = Original[a]
      BY <1>1, <1>2, <2>2, <3>1 DEF UInv, RestOK
    <3>2. pc' = "running" => broken' = {}
      BY <1>1 DEF UInv, RestOK
    <3>3. QED
      BY <1>1, <1>6, <3>1, <3>2 DEF RestOK, Original
  <2>4. UndoneOK'
    BY <1>1, <1>7 DEF UndoneOK, Undo
  <2>5. QED
    BY <1>3, <1>4, <1>5, <2>3, <2>4 DEF UInv
<1>8. CASE pc = "undo"
  <2>1. /\ i \in 1 .. Len(uninstall_data) /\ Len(uninstall_data) \in Nat
        /\ request.loc = uninstall_data[i].loc /\ request.data = uninstall_data[i].data
    BY <1>1, <1>8, SMTT(60) DEF UInv, UndoCallOK, IInv, ListOK
  <2>2. \A a : /\ Covers(request, a) <=> Covers(uninstall_data[i], a)
               /\ ByteFor(request, a) = ByteFor(uninstall_data[i], a)
    BY <2>1 DEF Covers, ByteFor
  <2>3. \A a : Covers(request, a) => CoveredIn(uninstall_data, a)
    BY <2>1, <2>2 DEF CoveredIn
  <2>4. RestOK'
    <3>1. ASSUME NEW a \in Addr, ~CoveredIn(uninstall_data, a), a \notin broken, ~Writing(a)
          PROVE  View'[a] = Original[a] /\ disk'[a] = Original[a]
      BY <1>1, <1>2, <2>3, <3>1 DEF UInv, RestOK
    <3>2. QED
      BY <1>1, <1>6, <1>8, <3>1 DEF RestOK, Original
  <2>5. UndoneOK'
    <3>1. SUFFICES ASSUME NoFailure PROVE UndoneOK'
      BY <1>1 DEF UndoneOK, NoFailure, undoVars
    <3>2. i' = i /\ \A n, a : NoneAfter(n, a)' <=> NoneAfter(n, a)
      BY <1>1 DEF NoneAfter, undoVars
    <3>3. ASSUME NEW a \in Addr, CoveredIn(uninstall_data, a), NoneAfter(i - 1, a)
          PROVE  View'[a] = Original[a]
      <4>1. ~Covers(request, a)
        BY <2>1, <2>2, <3>3, SMTT(60) DEF NoneAfter
      <4>2. View[a] = Original[a]
        BY <1>8, <3>1, <3>3 DEF UInv, UndoneOK, Undo
      <4>3. QED
        BY <1>2, <4>1, <4>2
    <3>4. ASSUME NEW a \in Addr, Covers(request, a), a < request.loc + progress',
                 NoneAfter(i, a)
          PROVE  View'[a] = Original[a]
      <4>1. CASE View'[a] = View[a] /\ (a < request.loc + progress \/ a >= request.loc + progress')
        <5>1. a \in Nat /\ request.loc \in Nat
          BY <1>1, AddrFacts, RequestFacts
        <5>2. a < request.loc + progress
          BY <1>1, <3>4, <4>1, <5>1, SMTT(60)
        <5>3. QED
          BY <1>1, <1>8, <3>1, <3>4, <4>1, <5>2 DEF UInv, UndoneOK, Undo
      <4>2. CASE View'[a] = ByteFor(request, a)
        <5>1. LastIsOriginal(uninstall_data)
          BY <1>8 DEF UInv, OrderOK, InOrder
        <5>2. ByteFor(uninstall_data[i], a) = Original[a]
          BY <2>1, <2>2, <3>4, <5>1 DEF LastIsOriginal, NoneAfter
        <5>3. QED
          BY <2>2, <4>2, <5>2
      <4>3. QED
        BY <1>2, <4>1, <4>2
    <3>5. QED
      BY <1>1, <3>2, <3>3, <3>4 DEF UndoneOK, Original
  <2>6. QED
    BY <1>3, <1>4, <1>5, <2>4, <2>5 DEF UInv
<1>9. QED
  BY <1>1, <1>7, <1>8

-----------------------------------------------------------------------------
(* The undo                                                                *)

\* Reversed, the list has the first entry for an address last.
LEMMA ReverseUndo ==
    ASSUME IInv, FirstIsOriginal(uninstall_data)
    PROVE  /\ LastIsOriginal(reverse_uninstall_data)
           /\ \A a : CoveredIn(reverse_uninstall_data, a) <=> CoveredIn(uninstall_data, a)
<1>1. PICK n \in Nat : n = Len(uninstall_data)
  BY SMTT(60) DEF IInv, ListOK
<1> DEFINE r == reverse_uninstall_data
<1>2. r = [k \in 1 .. n |-> uninstall_data[(n - k) + 1]]
  BY <1>1 DEF reverse_uninstall_data
<1>3. Len(r) = n
  BY <1>1, ReverseFacts
<1> HIDE DEF r
<1>4. \A k \in 1 .. n : /\ n - k + 1 \in 1 .. n
                        /\ r[k] = uninstall_data[n - k + 1]
                        /\ uninstall_data[k] = r[n - k + 1]
  <2>1. \A k \in 1 .. n : n - k + 1 \in 1 .. n /\ n - (n - k + 1) + 1 = k
    BY SMTT(60)
  <2>2. QED
    BY <1>2, <2>1
<1>5. \A a : CoveredIn(r, a) <=> CoveredIn(uninstall_data, a)
  BY <1>1, <1>3, <1>4 DEF CoveredIn
<1>6. ASSUME NEW a \in Addr, NEW k \in 1 .. n, Covers(r[k], a),
             \A m \in 1 .. n : m > k => ~Covers(r[m], a)
      PROVE  ByteFor(r[k], a) = Original[a]
  <2>1. PICK q \in 1 .. n : q = n - k + 1
    BY <1>4
  <2>2. \A m \in 1 .. n : m < q => n - m + 1 > k
    BY <2>1, SMTT(60)
  <2>3. \A m \in 1 .. n : m < q => ~Covers(uninstall_data[m], a)
    BY <1>4, <1>6, <2>2
  <2>4. r[k] = uninstall_data[q]
    BY <1>4, <2>1
  <2>5. QED
    BY <1>1, <1>6, <2>3, <2>4 DEF FirstIsOriginal
<1>7. LastIsOriginal(r)
  BY <1>3, <1>6 DEF LastIsOriginal
<1>8. QED
  BY <1>5, <1>7 DEF r

LEMMA StoreUndo ==
    ASSUME IInv, UInv, store_uninstall_data
    PROVE  UInv'
<1>1. /\ pc = "installed" /\ pc' = "exited" /\ uninstall_data' = reverse_uninstall_data
      /\ udfile' \in {[whole |-> TRUE, entries |-> reverse_uninstall_data], NoFile}
      /\ UNCHANGED <<disk, cacheVars, request, saving, broken, undoVars>>
  BY DEF store_uninstall_data, callVars
<1>2. saving = NoRequest /\ \A a : ~Writing(a)
  BY <1>1, PhaseFacts DEF UInv
<1>3. FirstIsOriginal(uninstall_data)
  BY <1>1 DEF UInv, OrderOK, InOrder
<1>4. Seen
  BY <1>1, SameCache DEF IInv
<1>5. OrderOK'
  BY <1>1, <1>3, ReverseUndo, SMTT(60) DEF OrderOK, InOrder, NoFile
<1>6. RestOK'
  BY <1>1, <1>2, <1>3, <1>4, ReverseUndo, RestKept DEF UInv
<1>7. SavingOK' /\ UndoCallOK' /\ UndoneOK'
  BY <1>1, <1>2 DEF UInv, SavingOK, UndoCallOK, UndoneOK, Undo, undoVars
<1>8. QED
  BY <1>5, <1>6, <1>7 DEF UInv

\* Dropping the cache shows what is on the medium.
LEMMA DropView ==
    ASSUME IInv, DropCache, UNCHANGED disk
    PROVE  View' = disk
<1>1. cached_block' = NoBlock /\ disk' = disk
  BY DEF DropCache
<1>2. \A a \in Addr : a \div block_size # NoBlock
  <2>1. \A a \in Addr : a \div block_size \in Nat
    BY AddrFacts
  <2>2. QED
    BY <2>1, SMTT(60) DEF NoBlock
<1>3. View' = [a \in Addr |-> disk[a]]
  BY <1>1, <1>2 DEF View
<1>4. QED
  BY <1>3 DEF IInv, CacheOK

LEMMA DropRest ==
    ASSUME IInv, UInv, DropCache, UNCHANGED <<disk, saving, broken>>,
           saving = NoRequest, pc' # "running",
           \A a : CoveredIn(uninstall_data, a) => CoveredIn(uninstall_data', a)
    PROVE  RestOK'
<1>1. \A a : ~Writing(a) /\ ~Writing(a)'
  BY DEF Writing
<1>2. View' = disk
  BY DropView
<1>3. \A a \in Addr : CoveredIn(uninstall_data', a) \/ a \in broken'
                        \/ (View'[a] = Original[a] /\ disk'[a] = Original[a])
  BY <1>1, <1>2 DEF UInv, RestOK
<1>4. QED
  BY <1>3 DEF RestOK, Original

LEMMA UninstallUndo ==
    ASSUME IInv, UInv, Cleanup \/ UninstallMode
    PROVE  UInv'
<1>1. /\ pc \in {"cleanup", "exited", "undone"} /\ pc' = "undo" /\ DropCache /\ i' = 1
      /\ print_write_fail' = FALSE /\ print_cache_flush_fail' = FALSE
      /\ UNCHANGED <<disk, udfile, request, saving, broken>>
  BY DEF Cleanup, UninstallMode, Uninstall, callVars
<1>2. saving = NoRequest /\ request = NoRequest
  BY <1>1, PhaseFacts DEF UInv
<1>3. OrderOK' /\ \A a : CoveredIn(uninstall_data, a) => CoveredIn(uninstall_data', a)
  <2>1. CASE Cleanup
    <3>1. pc = "cleanup" /\ uninstall_data' = reverse_uninstall_data
      BY <2>1 DEF Cleanup
    <3>2. FirstIsOriginal(uninstall_data) /\ udfile.whole = FALSE
      BY <3>1 DEF UInv, OrderOK, InOrder
    <3>3. QED
      BY <1>1, <3>1, <3>2, ReverseUndo DEF OrderOK, InOrder
  <2>2. CASE UninstallMode
    <3>1. /\ pc \in {"exited", "undone"} /\ udfile.whole = TRUE
          /\ uninstall_data' = udfile.entries
      BY <2>2 DEF UninstallMode, IInv, ListOK
    <3>2. LastIsOriginal(uninstall_data) /\ udfile.entries = uninstall_data
      BY <3>1 DEF UInv, OrderOK, InOrder
    <3>3. QED
      BY <1>1, <3>1, <3>2 DEF OrderOK, InOrder
  <2>3. QED
    BY <2>1, <2>2
<1>4. RestOK'
  BY <1>1, <1>2, <1>3, DropRest
<1>5. SavingOK' /\ UndoCallOK'
  BY <1>1, <1>2 DEF SavingOK, UndoCallOK
<1>6. UndoneOK'
  <2>1. \A a : ~(CoveredIn(uninstall_data', a) /\ NoneAfter(i - 1, a)')
    BY <1>1, SMTT(60) DEF CoveredIn, NoneAfter
  <2>2. QED
    BY <1>1, <1>2, <2>1 DEF UndoneOK
<1>7. QED
  BY <1>3, <1>4, <1>5, <1>6 DEF UInv

\* Steps of uninstall() that leave the list as it is.
LEMMA UndoStep ==
    ASSUME IInv, UInv, Seen, pc \in {"undo", "retry"},
           pc' \in {"undo", "retry", "drop", "undone"},
           UNCHANGED <<uninstall_data, udfile, saving, broken>>
    PROVE  OrderOK' /\ RestOK' /\ SavingOK'
<1>1. saving = NoRequest
  BY PhaseFacts DEF UInv
<1>2. OrderOK'
  BY DEF UInv, OrderOK, InOrder
<1>3. RestOK'
  <2>1. \A a : ~Writing(a)
    BY <1>1 DEF Writing
  <2>2. QED
    BY <2>1, RestKept DEF UInv
<1>4. QED
  BY <1>1, <1>2, <1>3 DEF SavingOK

LEMMA UndoWriteUndo ==
    ASSUME IInv, UInv, UndoWrite
    PROVE  UInv'
<1>1. /\ pc = "undo" /\ i <= Len(uninstall_data) /\ progress' = 0
      /\ request' = [kind |-> "write", loc |-> uninstall_data[i].loc,
                     data |-> uninstall_data[i].data]
      /\ UNCHANGED <<disk, cacheVars, uninstall_data, udfile, pc, saving, broken,
                     i, print_write_fail, print_cache_flush_fail>>
  BY DEF UndoWrite, CallWrite, undoVars
<1>2. Seen /\ View' = View
  BY <1>1, SameCache DEF IInv, Seen
<1>3. OrderOK' /\ RestOK' /\ SavingOK'
  BY <1>1, <1>2, UndoStep
<1>4. UndoCallOK'
  BY <1>1 DEF UInv, UndoCallOK
<1>5. UndoneOK'
  <2>1. \A n, a : NoneAfter(n, a)' <=> NoneAfter(n, a)
    BY <1>1 DEF NoneAfter
  <2>2. uninstall_data[i].loc \in Nat
    BY <1>1, EntryFacts, SMTT(60) DEF IInv, ListOK
  <2>3. \A a \in Addr : a \in Nat
    BY AddrFacts
  <2>4. \A a \in Addr : ~(Covers(request', a) /\ a < request'.loc + progress')
    BY <1>1, <2>2, <2>3, SMTT(60) DEF Covers
  <2>5. Undo' = Undo /\ NoFailure' = NoFailure
    BY <1>1 DEF Undo, NoFailure
  <2>6. QED
    BY <1>1, <1>2, <2>1, <2>4, <2>5 DEF UInv, UndoneOK
<1>6. QED
  BY <1>3, <1>4, <1>5 DEF UInv

LEMMA UndoWrittenUndo ==
    ASSUME IInv, UInv, UndoWritten
    PROVE  UInv'
<1>1. /\ pc = "undo" /\ request # NoRequest /\ ~Unfinished /\ i' = i + 1
      /\ request' = NoRequest
      /\ UNCHANGED <<disk, cacheVars, uninstall_data, udfile, pc, saving, broken,
                     print_write_fail, print_cache_flush_fail>>
  BY DEF UndoWritten
<1>2. Seen /\ View' = View
  BY <1>1, SameCache DEF IInv, Seen
<1>3. OrderOK' /\ RestOK' /\ SavingOK'
  BY <1>1, <1>2, UndoStep
<1>4. UndoCallOK'
  BY <1>1 DEF UInv, UndoCallOK
<1>5. UndoneOK'
  <2>1. SUFFICES ASSUME NoFailure PROVE UndoneOK'
    BY <1>1 DEF UndoneOK, NoFailure
  <2>2. /\ i \in 1 .. Len(uninstall_data)
        /\ request.loc = uninstall_data[i].loc /\ request.data = uninstall_data[i].data
    BY <1>1, SMTT(60) DEF UInv, UndoCallOK, IInv, ListOK
  <2>3. progress = Len(request.data)
    BY <1>1, SMTT(60) DEF Unfinished, IInv, CallOK, Request
  <2>4. ASSUME NEW a \in Addr, CoveredIn(uninstall_data, a), NoneAfter(i, a)
        PROVE  View[a] = Original[a]
    <3>1. CASE Covers(uninstall_data[i], a)
      <4>1. Covers(request, a) /\ a < request.loc + progress
        BY <2>2, <2>3, <3>1 DEF Covers
      <4>2. QED
        BY <1>1, <2>1, <2>4, <4>1 DEF UInv, UndoneOK, Undo
    <3>2. CASE ~Covers(uninstall_data[i], a)
      <4>1. NoneAfter(i - 1, a)
        BY <2>2, <2>4, <3>2, SMTT(60) DEF NoneAfter
      <4>2. QED
        BY <1>1, <2>1, <2>4, <4>1 DEF UInv, UndoneOK, Undo
    <3>3. QED
      BY <3>1, <3>2
  <2>5. \A a : NoneAfter(i - 1, a)' <=> NoneAfter(i, a)
    BY <1>1, <2>2, SMTT(60) DEF NoneAfter
  <2>6. QED
    BY <1>1, <1>2, <2>4, <2>5 DEF UndoneOK, Original
<1>6. QED
  BY <1>3, <1>4, <1>5 DEF UInv

LEMMA UndoFailedUndo ==
    ASSUME IInv, UInv, UndoFailed
    PROVE  UInv'
<1>1. /\ pc = "undo" /\ pc' \in {"undo", "retry"}
      /\ print_write_fail' = TRUE \/ UNCHANGED <<i, print_write_fail>>
      /\ UNCHANGED <<uninstall_data, udfile, saving, broken, print_cache_flush_fail>>
  BY DEF UndoFailed
<1>2. Seen /\ View' = View /\ request' = NoRequest
  BY FailSeen DEF UndoFailed, Seen
<1>3. OrderOK' /\ RestOK' /\ SavingOK'
  BY <1>1, <1>2, UndoStep
<1>4. UndoCallOK'
  BY <1>1, <1>2 DEF UInv, UndoCallOK
<1>5. UndoneOK'
  <2>1. CASE print_write_fail' = TRUE
    BY <2>1 DEF UndoneOK, NoFailure
  <2>2. CASE UNCHANGED <<i, print_write_fail>>
    <3>1. \A n, a : NoneAfter(n, a)' <=> NoneAfter(n, a)
      BY <1>1 DEF NoneAfter
    <3>2. Undo /\ NoFailure' = NoFailure
      BY <1>1, <2>2 DEF Undo, NoFailure
    <3>3. QED
      BY <1>1, <1>2, <2>2, <3>1, <3>2 DEF UInv, UndoneOK
  <2>3. QED
    BY <1>1, <2>1, <2>2
<1>6. QED
  BY <1>3, <1>4, <1>5 DEF UInv

\* A flush that fails is reported, one that succeeds leaves the cache clean.
LEMMA UndoFlushUndo ==
    ASSUME IInv, UInv, NEW ok \in BOOLEAN, RetryFlush(ok) \/ UndoEnd(ok)
    PROVE  UInv'
<1>1. /\ pc \in {"undo", "retry"} /\ pc' \in {"drop", "undone"}
      /\ pc' = "undone" => i > Len(uninstall_data)
      /\ device_flush_cache(ok)
      /\ print_cache_flush_fail' = (print_cache_flush_fail \/ ~ok)
      /\ UNCHANGED <<cached_block, cache, uninstall_data, udfile, request, saving, broken,
                     i, print_write_fail>>
  BY DEF RetryFlush, UndoEnd, callVars
<1>2. Seen /\ View' = View /\ (ok => cache_state' = "CLEAN")
  BY <1>1, FlushSeen DEF Seen
<1>3. OrderOK' /\ RestOK' /\ SavingOK'
  BY <1>1, <1>2, UndoStep
<1>4. NoFailure' => NoFailure /\ ok
  BY <1>1 DEF NoFailure, UInv, UndoCallOK
<1>5. UndoCallOK'
  BY <1>1, <1>2, <1>4 DEF UInv, UndoCallOK
<1>6. UndoneOK'
  <2>1. \A n, a : NoneAfter(n, a)' <=> NoneAfter(n, a)
    BY <1>1 DEF NoneAfter
  <2>2. Undo
    BY <1>1 DEF Undo
  <2>3. QED
    BY <1>1, <1>2, <1>4, <2>1, <2>2 DEF UInv, UndoneOK
<1>7. QED
  BY <1>3, <1>5, <1>6 DEF UInv

\* What is dropped before a second try is on the medium, or was reported.
LEMMA RetryDropUndo ==
    ASSUME IInv, UInv, RetryDrop
    PROVE  UInv'
<1>1. /\ pc = "drop" /\ pc' = "undo" /\ DropCache
      /\ UNCHANGED <<disk, uninstall_data, udfile, request, saving, broken, i,
                     print_write_fail, print_cache_flush_fail>>
  BY DEF RetryDrop, callVars
<1>2. saving = NoRequest /\ request = NoRequest
  BY <1>1, PhaseFacts DEF UInv
<1>3. OrderOK'
  BY <1>1 DEF UInv, OrderOK, InOrder
<1>4. RestOK'
  BY <1>1, <1>2, DropRest
<1>5. SavingOK' /\ UndoCallOK'
  <2>1. UndoCallOK
    BY DEF UInv
  <2>2. SavingOK'
    BY <1>1, <1>2 DEF SavingOK
  <2>3. UndoCallOK'
    BY <1>1, <1>2, <2>1 DEF UndoCallOK
  <2>4. QED
    BY <2>2, <2>3
<1>6. UndoneOK'
  <2>1. SUFFICES ASSUME NoFailure PROVE UndoneOK'
    BY <1>1 DEF UndoneOK, NoFailure
  <2>2. cache_state = "CLEAN"
    BY <1>1, <2>1 DEF UInv, UndoCallOK
  <2>3. View = disk
    BY <2>2, ViewFacts DEF IInv
  <2>4. View' = View
    BY <1>1, <2>3, DropView
  <2>5. \A n, a : NoneAfter(n, a)' <=> NoneAfter(n, a)
    BY <1>1 DEF NoneAfter
  <2>6. Undo
    BY <1>1 DEF Undo
  <2>7. QED
    BY <1>1, <1>2, <2>1, <2>4, <2>5, <2>6 DEF UInv, UndoneOK
<1>7. QED
  BY <1>3, <1>4, <1>5, <1>6 DEF UInv

-----------------------------------------------------------------------------
(* Results                                                                 *)

LEMMA InitUndo == Init => UInv
<1> SUFFICES ASSUME Init PROVE UInv
  OBVIOUS
<1>1. View = disk
  BY InitOK, ViewFacts DEF Init, IInv
<1>2. OrderOK
  BY SMTT(60) DEF Init, OrderOK, InOrder, FirstIsOriginal, NoFile
<1>3. RestOK
  BY <1>1 DEF Init, RestOK
<1>4. SavingOK /\ UndoCallOK /\ UndoneOK
  BY DEF Init, SavingOK, UndoCallOK, UndoneOK, Undo
<1>5. QED
  BY <1>2, <1>3, <1>4 DEF UInv

LEMMA StutterUndo ==
    ASSUME IInv, UInv, UNCHANGED vars
    PROVE  UInv'
<1>1. UNCHANGED <<disk, cacheVars, cache_state, uninstall_data, udfile, pc, request, progress,
                  got, saving, broken, i, print_write_fail, print_cache_flush_fail>>
  BY DEF vars, cacheVars, callVars, undoVars
<1>2. Seen /\ View' = View
  BY <1>1, SameCache DEF IInv, Seen
<1>3. \A a : /\ Covers(saving', a) <=> Covers(saving, a)
             /\ Covers(request', a) <=> Covers(request, a)
             /\ Writing(a)' <=> Writing(a)
             /\ \A n : NoneAfter(n, a)' <=> NoneAfter(n, a)
  BY <1>1 DEF Writing, NoneAfter, Covers
<1>4. OrderOK'
  BY <1>1 DEF UInv, OrderOK, InOrder
<1>5. RestOK'
  BY <1>1, <1>2, <1>3, RestKept DEF UInv, RestOK
<1>6. SavingOK'
  BY <1>1, <1>2, <1>3 DEF UInv, SavingOK
<1>7. UndoCallOK'
  BY <1>1 DEF UInv, UndoCallOK, NoFailure
<1>8. UndoneOK'
  <2>1. Undo' = Undo /\ NoFailure' = NoFailure
    BY <1>1 DEF Undo, NoFailure
  <2>2. QED
    BY <1>1, <1>2, <1>3, <2>1 DEF UInv, UndoneOK
<1>9. QED
  BY <1>4, <1>5, <1>6, <1>7, <1>8 DEF UInv

LEMMA NextUndo == IInv /\ UInv /\ [Next]_vars => UInv'
<1> SUFFICES ASSUME IInv, UInv, [Next]_vars PROVE UInv'
  OBVIOUS
<1>1. CASE Installing
  <2>1. CASE \E range \in Ranges : device_read_raw(range) \/ device_write_raw(range)
    BY <2>1, AskUndo
  <2>2. CASE \/ ReadDone \/ ReadFailed \/ WriteRefused \/ Reject
             \/ \E ok \in BOOLEAN : Finish(ok)
    BY <2>2, EndsUndo
  <2>3. QED
    BY <1>1, <2>1, <2>2, SavedUndo, WriteDoneUndo, WriteFailedUndo, StoreUndo
       DEF Installing
<1>2. CASE Undoing
  <2>1. CASE \E ok \in BOOLEAN : RetryFlush(ok) \/ UndoEnd(ok)
    BY <2>1, UndoFlushUndo
  <2>2. QED
    BY <1>2, <2>1, UninstallUndo, UndoWriteUndo, UndoWrittenUndo, UndoFailedUndo,
       RetryDropUndo DEF Undoing
<1>3. CASE UninstallMode \/ Fetch \/ Copy
  BY <1>3, UninstallUndo, FetchUndo, CopyReadUndo, CopyWriteUndo
<1>4. CASE UNCHANGED vars
  BY <1>4, StutterUndo
<1>5. QED
  BY <1>1, <1>2, <1>3, <1>4 DEF Next

\* At the end the medium holds what is seen, and no entry is left.
LEMMA UndoneRestores == IInv /\ UInv => UndoRestores
<1> SUFFICES ASSUME IInv, UInv, pc = "undone", ~print_write_fail, ~print_cache_flush_fail,
                    NEW a \in Addr, a \notin broken \/ a \in Kept
             PROVE  disk[a] = Original[a]
  BY DEF UndoRestores
<1>1. NoFailure /\ Undo
  BY DEF UInv, UndoCallOK, NoFailure, Undo
<1>2. CASE CoveredIn(uninstall_data, a)
  <2>1. i > Len(uninstall_data) /\ cache_state = "CLEAN"
    BY <1>1 DEF UInv, UndoCallOK
  <2>2. i \in Nat /\ Len(uninstall_data) \in Nat
    BY SMTT(60) DEF IInv, ListOK
  <2>3. NoneAfter(i - 1, a)
    BY <2>1, <2>2, SMTT(60) DEF NoneAfter
  <2>4. View[a] = Original[a]
    BY <1>1, <1>2, <2>3 DEF UInv, UndoneOK
  <2>5. View = disk
    BY <2>1, ViewFacts DEF IInv
  <2>6. QED
    BY <2>4, <2>5
<1>3. CASE ~CoveredIn(uninstall_data, a)
  <2>1. a \notin Kept
    <3>1. SUFFICES ASSUME NEW n \in DOMAIN uninstall_data,
                          a \in uninstall_data[n].loc ..
                                  uninstall_data[n].loc + Len(uninstall_data[n].data) - 1
                   PROVE  FALSE
      BY DEF Kept
    <3>2. n \in 1 .. Len(uninstall_data)
      BY SMTT(60) DEF IInv, ListOK
    <3>3. uninstall_data[n].loc \in Nat /\ Len(uninstall_data[n].data) \in Nat
      BY <3>2, EntryFacts DEF IInv
    <3>4. Covers(uninstall_data[n], a)
      BY <3>1, <3>3, SMTT(60) DEF Covers
    <3>5. QED
      BY <1>3, <3>2, <3>4 DEF CoveredIn
  <2>2. ~Writing(a)
    BY PhaseFacts DEF UInv
  <2>3. QED
    BY <1>3, <2>1, <2>2 DEF UInv, RestOK
<1>4. QED
  BY <1>2, <1>3

\* An uninstall() that printed no warning has put back every byte the installer
\* replaced, in whatever order writes overlapped and whichever calls failed on the
\* way: all but those of the one write it gave up half way.
THEOREM UndoPutsBack == Spec => []UndoRestores
<1>1. Init => UInv
  BY InitUndo
<1>2. IInv /\ UInv /\ [Next]_vars => UInv'
  BY NextUndo
<1>3. IInv /\ UInv => UndoRestores
  BY UndoneRestores
<1>4. QED
  BY <1>1, <1>2, <1>3, SpecIInv, PTL DEF Spec
=============================================================================
