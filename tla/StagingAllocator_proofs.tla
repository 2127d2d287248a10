----------------------- MODULE StagingAllocator_proofs ----------------------
(***************************************************************************)
(* For every number of holders, every set of sizes, chunk sizes and        *)
(* alignment: the staging allocator never hands out a byte twice, never    *)
(* forgets a buffer, and implements StagingAbs.                            *)
(***************************************************************************)
EXTENDS StagingAllocator, StagingRanges_proofs

(* The free list never covers bytes behind the end of the chunk. *)
FreeInsideChunk ==
  \A b \in Buffers : \A r \in free[b] : End(r) <= size[b]

(* What an allocation in a list says about the buffer it lies in. *)
HeldWellPlaced ==
  \A h \in Holders : \A a \in held[h] :
    IF a.dedicated
    THEN a.buffer \notin ChunkBuffers /\ a.offset = 0
    ELSE a.buffer \in ChunkBuffers /\ End(a) <= size[a.buffer]

(* The bytes of an allocation are not on the free list of its chunk. *)
HeldNotFree ==
  \A h \in Holders : \A a \in held[h] : \A r \in free[a.buffer] :
    ~a.dedicated => ~SameBytes(a, r)

(* The inductive strengthening of NoOverlap and NoBufferLeak. *)
IInv ==
  /\ TypeOK
  /\ FreeInsideChunk
  /\ HeldWellPlaced
  /\ HeldNotFree
  /\ Coalesced
  /\ NoOverlap
  /\ NoBufferLeak

(* Before initialize_vma_runtime there is no chunk, no list and no buffer. *)
LEMMA InitIInv == Init => IInv
  <1> SUFFICES ASSUME Init PROVE IInv
    OBVIOUS
  <1>1. /\ ChunkBuffers = {}
        /\ \A h \in Holders : held[h] = {}
        /\ \A b \in Buffers : free[b] = {}
    BY DEF Init, ChunkBuffers
  <1>2. TypeOK
    BY DEF Init, TypeOK, Usages
  <1>3. FreeInsideChunk /\ HeldWellPlaced /\ HeldNotFree /\ Coalesced /\ NoOverlap
    BY <1>1 DEF FreeInsideChunk, HeldWellPlaced, HeldNotFree, Coalesced, NoOverlap
  <1>4. NoBufferLeak
    BY <1>1 DEF Init, NoBufferLeak, Held, DedicatedBuffers
  <1>5. QED
    BY <1>2, <1>3, <1>4 DEF IInv

(* destroy_vma_runtime leaves what there was before initialize_vma_runtime. *)
LEMMA DestroyStep == ASSUME IInv, DestroyVmaRuntime PROVE IInv'
  <1>1. /\ ChunkBuffers' = {}
        /\ \A h \in Holders : held'[h] = {}
        /\ \A b \in Buffers : free'[b] = {}
    BY DEF DestroyVmaRuntime, ChunkBuffers
  <1>2. TypeOK'
    BY DEF IInv, DestroyVmaRuntime, TypeOK, Usages
  <1>3. (FreeInsideChunk /\ HeldWellPlaced /\ HeldNotFree /\ Coalesced /\ NoOverlap)'
    BY <1>1 DEF FreeInsideChunk, HeldWellPlaced, HeldNotFree, Coalesced, NoOverlap
  <1>4. driver' = {}
    BY DEF DestroyVmaRuntime, IInv, NoBufferLeak
  <1>5. NoBufferLeak'
    BY <1>1, <1>4 DEF NoBufferLeak, Held, DedicatedBuffers
  <1>6. QED
    BY <1>2, <1>3, <1>5 DEF IInv

(* What it means for a holder to receive one allocation. *)
LEMMA HoldAdds ==
  ASSUME TypeOK, NEW h \in Holders, NEW b \in Buffers, NEW o \in Nat,
         NEW n \in Nat \ {0}, NEW d \in BOOLEAN, Hold(h, b, o, n, d)
  PROVE  LET a == [buffer |-> b, offset |-> o, size |-> n, dedicated |-> d]
         IN  /\ a \in StagingAllocation
             /\ held' \in [Holders -> SUBSET StagingAllocation]
             /\ \A g \in Holders : \A c \in held'[g] :
                  c \in StagingAllocation /\ (c \in held[g] \/ (g = h /\ c = a))
             /\ \A g \in Holders : held[g] \subseteq held'[g]
             /\ a \in held'[h]
             /\ DedicatedBuffers(Held)' =
                  DedicatedBuffers(Held) \union (IF d THEN {b} ELSE {})
  <1> DEFINE a == [buffer |-> b, offset |-> o, size |-> n, dedicated |-> d]
  <1>1. a \in StagingAllocation
    BY DEF StagingAllocation
  <1>2. held' = [held EXCEPT ![h] = @ \union {a}]
    BY DEF Hold
  <1>3. \A g \in Holders : held'[g] = IF g = h THEN held[h] \union {a} ELSE held[g]
    BY <1>2 DEF TypeOK
  <1>4. held' \in [Holders -> SUBSET StagingAllocation]
    BY <1>1, <1>2 DEF TypeOK
  <1>5. Held' = Held \union {a}
    BY <1>3 DEF Held
  <1>6. DedicatedBuffers(Held)' = DedicatedBuffers(Held) \union (IF d THEN {b} ELSE {})
    <2>1. a.buffer = b /\ a.dedicated = d
      OBVIOUS
    <2>2. ASSUME NEW x
          PROVE  x \in DedicatedBuffers(Held)' <=> \E c \in Held' : c.dedicated /\ c.buffer = x
      BY DEF DedicatedBuffers
    <2>3. ASSUME NEW x
          PROVE  x \in DedicatedBuffers(Held) <=> \E c \in Held : c.dedicated /\ c.buffer = x
      BY DEF DedicatedBuffers
    <2> HIDE DEF a
    <2>4. CASE d
      <3>1. \A x : x \in DedicatedBuffers(Held)' <=> x \in DedicatedBuffers(Held) \/ x = b
        BY <1>5, <2>1, <2>2, <2>3, <2>4
      <3>2. QED
        BY <2>4, <3>1
    <2>5. CASE ~d
      <3>1. \A x : x \in DedicatedBuffers(Held)' <=> x \in DedicatedBuffers(Held)
        BY <1>5, <2>1, <2>2, <2>3, <2>5
      <3>2. QED
        BY <2>5, <3>1
    <2>6. QED
      BY <2>4, <2>5
  <1>7. QED
    BY <1>1, <1>3, <1>4, <1>6

(* Every allocation in a list lies in a buffer that exists. *)
LEMMA HeldExists ==
  ASSUME HeldWellPlaced, NoBufferLeak, NEW h \in Holders, NEW a \in held[h]
  PROVE  a.buffer \in driver
  <1>1. CASE a.dedicated
    BY <1>1 DEF NoBufferLeak, DedicatedBuffers, Held
  <1>2. CASE ~a.dedicated
    BY <1>2 DEF NoBufferLeak, HeldWellPlaced
  <1>3. QED
    BY <1>1, <1>2

(* A new allocation that shares no byte with an old one keeps lists disjoint. *)
LEMMA NoOverlapAdds ==
  ASSUME TypeOK, NoOverlap, NEW h \in Holders,
         NEW a, a.offset \in Nat, a.size \in Nat,
         \A g \in Holders : \A c \in held'[g] :
           c \in StagingAllocation /\ (c \in held[g] \/ (g = h /\ c = a)),
         \A g \in Holders : \A c \in held[g] : a.buffer = c.buffer => ~SameBytes(a, c)
  PROVE  NoOverlap'
  <1>1. SUFFICES ASSUME NEW f \in Holders, NEW g \in Holders,
                        NEW x \in held'[f], NEW y \in held'[g],
                        x.buffer = y.buffer, SameBytes(x, y)
                 PROVE  f = g /\ x = y
    BY DEF NoOverlap, SameBytes, End
  <1>2. SameBytes(y, x)
    BY <1>1 DEF SameBytes
  <1>3. CASE x \in held[f] /\ y \in held[g]
    BY <1>1, <1>3 DEF NoOverlap
  <1>4. CASE f = h /\ x = a /\ y \in held[g]
    BY <1>1, <1>4
  <1>5. CASE g = h /\ y = a /\ x \in held[f]
    BY <1>1, <1>2, <1>5
  <1>6. CASE f = h /\ x = a /\ g = h /\ y = a
    BY <1>6
  <1>7. QED
    BY <1>3, <1>4, <1>5, <1>6

(* A dedicated upload lies alone in a buffer that did not exist. *)
LEMMA DedicatedStep ==
  ASSUME IInv, NEW h \in Holders, NEW n \in Sizes, AllocateDedicated(h, n)
  PROVE  IInv'
  <1>1. PICK b \in Buffers \ driver :
          driver' = driver \union {b} /\ Hold(h, b, 0, n, TRUE)
    BY DEF AllocateDedicated
  <1> DEFINE a == [buffer |-> b, offset |-> 0, size |-> n, dedicated |-> TRUE]
  <1>2. /\ TypeOK /\ n \in Nat \ {0}
        /\ UNCHANGED <<runtime, chunks, size, usage, free>>
        /\ UNCHANGED ChunkBuffers
    BY StagingAssumption DEF IInv, AllocateDedicated, ChunkBuffers
  <1>3. /\ a \in StagingAllocation
        /\ held' \in [Holders -> SUBSET StagingAllocation]
        /\ \A g \in Holders : \A c \in held'[g] :
             c \in StagingAllocation /\ (c \in held[g] \/ (g = h /\ c = a))
        /\ DedicatedBuffers(Held)' = DedicatedBuffers(Held) \union {b}
    BY <1>1, <1>2, HoldAdds
  <1>4. \A g \in Holders : \A c \in held[g] : c.buffer # b
    BY <1>1, HeldExists DEF IInv
  <1>5. b \notin ChunkBuffers
    BY <1>1 DEF IInv, NoBufferLeak
  <1>6. TypeOK'
    BY <1>1, <1>2, <1>3 DEF TypeOK
  <1>7. FreeInsideChunk' /\ Coalesced'
    BY <1>2 DEF IInv, FreeInsideChunk, Coalesced
  <1>8. HeldWellPlaced'
    BY <1>2, <1>3, <1>5 DEF IInv, HeldWellPlaced
  <1>9. HeldNotFree'
    BY <1>2, <1>3 DEF IInv, HeldNotFree
  <1>10. NoOverlap'
    <2>1. a.offset \in Nat /\ a.size \in Nat /\ a.buffer = b
      BY <1>2
    <2> HIDE DEF a
    <2>2. QED
      BY <1>2, <1>3, <1>4, <2>1, NoOverlapAdds DEF IInv
  <1>11. NoBufferLeak'
    BY <1>1, <1>2, <1>3 DEF IInv, NoBufferLeak
  <1>12. QED
    BY <1>6, <1>7, <1>8, <1>9, <1>10, <1>11 DEF IInv

(* The chunk that serves a request gives away bytes of one free range. *)
LEMMA FromChunkStep ==
  ASSUME IInv, NEW h \in Holders, NEW n \in Sizes, NEW u \in Usages,
         AllocateFromChunk(h, n, u)
  PROVE  IInv'
  <1>0. PICK i \in DOMAIN chunks : \E r \in free[chunks[i]] :
          /\ Fits(r, n)
          /\ free' = [free EXCEPT ![chunks[i]] = Carve(@, r, n)]
          /\ Hold(h, chunks[i], align_up(r.offset), n, FALSE)
    BY DEF AllocateFromChunk, FirstFit
  <1>1. PICK r \in free[chunks[i]] :
          /\ Fits(r, n)
          /\ free' = [free EXCEPT ![chunks[i]] = Carve(@, r, n)]
          /\ Hold(h, chunks[i], align_up(r.offset), n, FALSE)
    BY <1>0
  <1> DEFINE b == chunks[i]
             o == align_up(r.offset)
             a == [buffer |-> b, offset |-> o, size |-> n, dedicated |-> FALSE]
             cut == [offset |-> o, size |-> n]
             rest == Carve(free[b], r, n)
  <1>2. /\ TypeOK /\ n \in Nat \ {0}
        /\ UNCHANGED <<runtime, chunks, size, usage, driver>>
        /\ UNCHANGED ChunkBuffers
        /\ b \in Buffers /\ b \in ChunkBuffers
    BY StagingAssumption DEF IInv, AllocateFromChunk, ChunkBuffers, TypeOK
  <1>3. /\ free[b] \in SUBSET StagingChunkRange
        /\ r \in StagingChunkRange /\ r.offset \in Nat /\ r.size \in Nat
        /\ Separate(free[b])
    BY <1>2 DEF TypeOK, IInv, Coalesced, Separate, StagingChunkRange
  <1>4. o \in Nat
    BY <1>3, AlignUp
  <1>5. free' = [free EXCEPT ![b] = rest]
    BY <1>1
  <1>6. \A c \in Buffers : free'[c] = IF c = b THEN rest ELSE free[c]
    BY <1>2, <1>5 DEF TypeOK
  <1>7. /\ Inside(cut, r)
        /\ \A x \in rest : ~SameBytes(cut, x)
    BY <1>1, <1>2, <1>3, CarveTakes
  <1>8. \A x \in rest : /\ x \in StagingChunkRange
                        /\ x \in free[b] \/ Inside(x, r)
    BY <1>1, <1>2, <1>3, CarvePieces
  <1>9. Separate(rest)
    BY <1>1, <1>2, <1>3, CarveSeparate
  <1>10. /\ a \in StagingAllocation
         /\ held' \in [Holders -> SUBSET StagingAllocation]
         /\ \A g \in Holders : \A c \in held'[g] :
              c \in StagingAllocation /\ (c \in held[g] \/ (g = h /\ c = a))
         /\ DedicatedBuffers(Held)' = DedicatedBuffers(Held)
    BY <1>1, <1>2, <1>4, HoldAdds
  <1>11. TypeOK'
    BY <1>2, <1>5, <1>8, <1>10 DEF TypeOK
  <1>12. FreeInsideChunk'
    <2>1. SUFFICES ASSUME NEW x \in rest PROVE End(x) <= size[b]
      BY <1>2, <1>6 DEF IInv, FreeInsideChunk
    <2>2. End(r) <= size[b] /\ (x \in free[b] => End(x) <= size[b])
      BY <1>2 DEF IInv, FreeInsideChunk
    <2>3. x.offset \in Nat /\ x.size \in Nat /\ size[b] \in Nat
      BY <1>2, <1>8 DEF StagingChunkRange, TypeOK
    <2>4. QED
      BY <1>3, <1>8, <2>2, <2>3 DEF Inside, End
  <1>13. HeldWellPlaced'
    <2>1. End(cut) <= size[b]
      <3>1. End(r) <= size[b] /\ size[b] \in Nat
        BY <1>2 DEF IInv, FreeInsideChunk, TypeOK
      <3>2. QED
        BY <1>2, <1>3, <1>4, <1>7, <3>1 DEF Inside, End
    <2>2. End(a) <= size[b]
      BY <2>1 DEF End
    <2>3. a.buffer \in ChunkBuffers /\ a.buffer = b /\ a.dedicated = FALSE
      BY <1>2
    <2> HIDE DEF a, b
    <2>4. SUFFICES ASSUME NEW g \in Holders, NEW c \in held'[g]
                   PROVE  IF c.dedicated
                          THEN c.buffer \notin ChunkBuffers /\ c.offset = 0
                          ELSE c.buffer \in ChunkBuffers /\ End(c) <= size[c.buffer]
      BY <1>2 DEF HeldWellPlaced
    <2>5. CASE c \in held[g]
      BY <2>5 DEF IInv, HeldWellPlaced
    <2>6. CASE c = a
      BY <2>2, <2>3, <2>6
    <2>7. QED
      BY <1>10, <2>5, <2>6
  <1>14. HeldNotFree'
    <2>1. SUFFICES ASSUME NEW g \in Holders, NEW c \in held'[g], ~c.dedicated,
                          NEW x \in free'[c.buffer]
                   PROVE  ~SameBytes(c, x)
      BY DEF HeldNotFree, SameBytes, End
    <2>2. c \in StagingAllocation /\ c.buffer \in Buffers
          /\ c.offset \in Nat /\ c.size \in Nat
      BY <1>10, <2>1 DEF StagingAllocation
    <2>3. CASE c \in held[g] /\ c.buffer = b
      <3>1. x \in rest
        BY <1>6, <2>1, <2>2, <2>3
      <3>2. ~SameBytes(c, r) /\ (x \in free[b] => ~SameBytes(c, x))
        BY <1>1, <2>1, <2>3 DEF IInv, HeldNotFree
      <3>3. x.offset \in Nat /\ x.size \in Nat
        BY <1>8, <3>1 DEF StagingChunkRange
      <3>4. QED
        BY <1>3, <1>8, <2>2, <3>1, <3>2, <3>3 DEF SameBytes, Inside, End
    <2>4. CASE c \in held[g] /\ c.buffer # b
      BY <1>6, <2>1, <2>2, <2>4 DEF IInv, HeldNotFree
    <2>5. CASE c = a
      <3>1. x \in rest
        BY <1>2, <1>6, <2>1, <2>5
      <3>2. ~SameBytes(cut, x)
        BY <1>7, <3>1
      <3>3. QED
        BY <2>5, <3>2 DEF SameBytes, End
    <2>6. QED
      BY <1>10, <2>3, <2>4, <2>5
  <1>15. Coalesced'
    BY <1>6, <1>9 DEF IInv, Coalesced, Separate
  <1>16. NoOverlap'
    <2>1. SUFFICES ASSUME NEW g \in Holders, NEW c \in held[g], c.buffer = b
                   PROVE  ~SameBytes(a, c)
      BY <1>2, <1>4, <1>10, NoOverlapAdds DEF IInv
    <2>2. ~c.dedicated
      BY <1>2, <2>1 DEF IInv, HeldWellPlaced
    <2>3. ~SameBytes(c, r)
      BY <1>1, <2>1, <2>2 DEF IInv, HeldNotFree
    <2>4. c.offset \in Nat /\ c.size \in Nat
      BY <1>2 DEF TypeOK, StagingAllocation
    <2>5. ~SameBytes(c, cut)
      BY <1>2, <1>3, <1>4, <1>7, <2>3, <2>4 DEF SameBytes, Inside, End
    <2>6. QED
      BY <2>5 DEF SameBytes, End
  <1>17. NoBufferLeak'
    BY <1>2, <1>10 DEF IInv, NoBufferLeak
  <1>18. QED
    BY <1>11, <1>12, <1>13, <1>14, <1>15, <1>16, <1>17 DEF IInv

(* A new chunk is one free range, on a buffer nothing lies in. *)
LEMMA FromNewChunkStep ==
  ASSUME IInv, NEW h \in Holders, NEW n \in Sizes, NEW u \in Usages,
         AllocateFromNewChunk(h, n, u)
  PROVE  IInv'
  <1> DEFINE least == align_up(n)
             usual == align_up(DefaultChunkSize[u])
             chunk_size == IF least > usual THEN least ELSE usual
             whole == [offset |-> 0, size |-> chunk_size]
             rest == Carve({whole}, whole, n)
             cut == [offset |-> 0, size |-> n]
  <1>1. PICK b \in Buffers \ driver :
          /\ driver' = driver \union {b}
          /\ chunks' = Append(chunks, b)
          /\ size' = [size EXCEPT ![b] = chunk_size]
          /\ usage' = [usage EXCEPT ![b] = u]
          /\ free' = [free EXCEPT ![b] = rest]
          /\ Hold(h, b, 0, n, FALSE)
    BY DEF AllocateFromNewChunk
  <1> DEFINE a == [buffer |-> b, offset |-> 0, size |-> n, dedicated |-> FALSE]
  <1>2. TypeOK /\ n \in Nat \ {0} /\ UNCHANGED runtime
    BY StagingAssumption DEF IInv, AllocateFromNewChunk
  <1>3. /\ least \in Nat /\ usual \in Nat /\ n <= least
        /\ chunk_size \in Nat \ {0} /\ n <= chunk_size
    <2>1. DefaultChunkSize[u] \in Nat
      BY StagingAssumption
    <2>2. /\ least \in Nat /\ usual \in Nat /\ n <= least
      BY <1>2, <2>1, AlignUp
    <2>3. QED
      BY <1>2, <2>2
  <1>4. align_up(0) = 0
    BY AlignmentAssumption DEF align_up
  <1> HIDE DEF chunk_size
  <1>5. /\ {whole} \in SUBSET StagingChunkRange /\ Separate({whole})
        /\ Padding(whole) = 0 /\ Fits(whole, n)
    BY <1>2, <1>3, <1>4 DEF StagingChunkRange, Separate, Padding, Fits
  <1>6. /\ \A x \in rest : ~SameBytes(cut, x)
        /\ \A x \in rest : x \in StagingChunkRange /\ Inside(x, whole)
        /\ Separate(rest)
    <2>1. \A x \in rest : ~SameBytes(cut, x)
      BY <1>2, <1>4, <1>5, CarveTakes
    <2>2. \A x \in rest : x \in StagingChunkRange /\ Inside(x, whole)
      BY <1>2, <1>5, CarvePieces
    <2>3. QED
      BY <1>2, <1>5, <2>1, <2>2, CarveSeparate
  <1> HIDE DEF rest
  <1>7. \A c \in Buffers : /\ free'[c] = IF c = b THEN rest ELSE free[c]
                           /\ size'[c] = IF c = b THEN chunk_size ELSE size[c]
    BY <1>1, <1>2 DEF TypeOK
  <1>8. ChunkBuffers' = ChunkBuffers \union {b}
    <2>1. chunks \in Seq(Buffers) /\ b \in Buffers
      BY <1>2 DEF TypeOK
    <2>2. /\ DOMAIN chunks = 1 .. Len(chunks) /\ DOMAIN chunks' = 1 .. Len(chunks) + 1
          /\ Len(chunks) \in Nat
          /\ \A j \in 1 .. Len(chunks) : chunks'[j] = chunks[j]
          /\ chunks'[Len(chunks) + 1] = b
      BY <1>1, <2>1
    <2>3. QED
      BY <2>2 DEF ChunkBuffers
  <1>9. /\ a \in StagingAllocation
        /\ held' \in [Holders -> SUBSET StagingAllocation]
        /\ \A g \in Holders : \A c \in held'[g] :
             c \in StagingAllocation /\ (c \in held[g] \/ (g = h /\ c = a))
        /\ DedicatedBuffers(Held)' = DedicatedBuffers(Held)
    BY <1>1, <1>2, HoldAdds
  <1>10. /\ a.offset = 0 /\ a.size = n /\ a.buffer = b /\ a.dedicated = FALSE
         /\ End(a) <= chunk_size
    BY <1>2, <1>3 DEF End
  <1>11. \A g \in Holders : \A c \in held[g] : c.buffer # b /\ c.buffer \in Buffers
    BY <1>1, <1>2, HeldExists DEF IInv, TypeOK, StagingAllocation
  <1>12. TypeOK'
    BY <1>1, <1>2, <1>3, <1>6, <1>9 DEF TypeOK
  <1>13. FreeInsideChunk'
    <2>1. ASSUME NEW x \in rest PROVE End(x) <= chunk_size
      BY <1>3, <1>6 DEF Inside, End
    <2>2. QED
      BY <1>7, <2>1 DEF IInv, FreeInsideChunk
  <1> HIDE DEF a
  <1>14. HeldWellPlaced'
    BY <1>7, <1>8, <1>9, <1>10, <1>11 DEF IInv, HeldWellPlaced
  <1>15. HeldNotFree'
    <2>1. SUFFICES ASSUME NEW g \in Holders, NEW c \in held'[g], ~c.dedicated,
                          NEW x \in free'[c.buffer]
                   PROVE  ~SameBytes(c, x)
      BY DEF HeldNotFree, SameBytes, End
    <2>2. CASE c \in held[g]
      BY <1>7, <1>11, <2>1, <2>2 DEF IInv, HeldNotFree
    <2>3. CASE c = a
      <3>1. x \in rest
        BY <1>7, <1>10, <2>1, <2>3
      <3>2. ~SameBytes(cut, x)
        BY <1>6, <3>1
      <3>3. QED
        BY <1>10, <2>3, <3>2 DEF SameBytes, End
    <2>4. QED
      BY <1>9, <2>2, <2>3
  <1>16. Coalesced'
    BY <1>6, <1>7 DEF IInv, Coalesced, Separate
  <1>17. NoOverlap'
    BY <1>2, <1>9, <1>10, <1>11, NoOverlapAdds DEF IInv
  <1>18. NoBufferLeak'
    BY <1>1, <1>8, <1>9 DEF IInv, NoBufferLeak
  <1>19. QED
    BY <1>12, <1>13, <1>14, <1>15, <1>16, <1>17, <1>18 DEF IInv

(* A list gives back what it holds, and no other list is touched. *)
LEMMA ReleaseStep ==
  ASSUME IInv, NEW h \in Holders, ReleaseStagingAllocations(h)
  PROVE  IInv'
  <1> DEFINE R(b) == free[b] \union Ranges(held[h], b)
  <1>1. /\ TypeOK
        /\ UNCHANGED <<runtime, chunks, size, usage>>
        /\ UNCHANGED ChunkBuffers
        /\ driver' = driver \ DedicatedBuffers(held[h])
        /\ held' = [held EXCEPT ![h] = {}]
    BY DEF IInv, ReleaseStagingAllocations, ChunkBuffers
  <1>2. \A b \in Buffers :
          \/ b \in ChunkBuffers /\ free'[b] = Merge(R(b))
          \/ free'[b] = free[b]
    BY DEF ReleaseStagingAllocations
  <1>3. /\ held' \in [Holders -> SUBSET StagingAllocation]
        /\ held'[h] = {}
        /\ \A g \in Holders \ {h} : held'[g] = held[g]
    BY <1>1 DEF TypeOK
  <1>4. ASSUME NEW b \in Buffers
        PROVE  /\ R(b) \in SUBSET StagingChunkRange
               /\ \A r \in R(b) : r \in free[b] \/ \E a \in held[h] :
                    /\ ~a.dedicated /\ a.buffer = b
                    /\ r.offset = a.offset /\ r.size = a.size /\ End(r) = End(a)
    <2>1. /\ \A a \in held[h] : a \in StagingAllocation
          /\ free[b] \in SUBSET StagingChunkRange
      BY <1>1 DEF TypeOK
    <2>2. QED
      BY <2>1 DEF Ranges, StagingAllocation, StagingChunkRange, End
  <1>5. ASSUME NEW b \in Buffers, NEW m \in Merge(R(b))
        PROVE  m \in StagingChunkRange
    BY <1>4, MergeRun
  <1>6. TypeOK'
    <2>1. free' \in [Buffers -> SUBSET StagingChunkRange]
      <3>1. \A b \in Buffers : free'[b] \in SUBSET StagingChunkRange
        BY <1>1, <1>2, <1>5 DEF TypeOK
      <3>2. free' = [b \in Buffers |-> free'[b]]
        BY DEF ReleaseStagingAllocations
      <3>3. QED
        BY <3>1, <3>2
    <2>2. QED
      BY <1>1, <1>3, <2>1 DEF TypeOK
  <1>7. FreeInsideChunk'
    <2>1. SUFFICES ASSUME NEW b \in Buffers, b \in ChunkBuffers, NEW m \in Merge(R(b))
                   PROVE  End(m) <= size[b]
      BY <1>1, <1>2 DEF IInv, FreeInsideChunk
    <2>2. PICK q \in R(b) : End(m) = End(q)
      BY <1>4, MergeRun
    <2>3. QED
      BY <1>4, <2>2 DEF IInv, FreeInsideChunk, HeldWellPlaced
  <1>8. HeldWellPlaced'
    BY <1>1, <1>3 DEF IInv, HeldWellPlaced
  <1>9. HeldNotFree'
    <2>1. SUFFICES ASSUME NEW g \in Holders \ {h}, NEW c \in held[g], ~c.dedicated,
                          NEW x \in free'[c.buffer]
                   PROVE  ~SameBytes(c, x)
      BY <1>3 DEF HeldNotFree, SameBytes, End
    <2> DEFINE b == c.buffer
    <2>2. b \in Buffers /\ c.offset \in Nat /\ c.size \in Nat \ {0}
      BY <1>1 DEF TypeOK, StagingAllocation
    <2>3. ASSUME NEW r \in R(b)
          PROVE  ~SameBytes(c, r)
      <3>1. CASE r \in free[b]
        BY <2>1, <3>1 DEF IInv, HeldNotFree
      <3>2. ASSUME NEW a \in held[h], a.buffer = b, r.offset = a.offset, End(r) = End(a)
            PROVE  ~SameBytes(c, r)
        <4>1. ~SameBytes(c, a)
          BY <3>2 DEF IInv, NoOverlap
        <4>2. QED
          BY <3>2, <4>1 DEF SameBytes
      <3>3. QED
        BY <1>4, <2>2, <3>1, <3>2
    <2>4. CASE x \in free[b]
      BY <2>3, <2>4
    <2>5. CASE x \in Merge(R(b))
      BY <1>4, <2>2, <2>3, <2>5, MergeInvents
    <2>6. QED
      BY <1>2, <2>1, <2>2, <2>4, <2>5
  <1>10. Coalesced'
    <2>1. SUFFICES ASSUME NEW b \in Buffers PROVE Separate(free'[b])
      BY DEF Coalesced, Separate, End
    <2>2. Separate(free[b])
      BY DEF IInv, Coalesced, Separate
    <2>3. Separate(Merge(R(b)))
      BY <1>4, MergeSeparate
    <2> HIDE DEF R
    <2>4. CASE free'[b] = Merge(R(b))
      BY <2>3, <2>4
    <2>5. CASE free'[b] = free[b]
      BY <2>2, <2>5
    <2>6. QED
      BY <1>2, <2>4, <2>5
  <1>11. NoOverlap'
    BY <1>3 DEF IInv, NoOverlap
  <1>12. NoBufferLeak'
    <2>1. ASSUME NEW a \in held[h], a.dedicated, NEW g \in Holders \ {h}, NEW c \in held[g]
          PROVE  a.buffer # c.buffer
      <3>1. a \in StagingAllocation /\ c \in StagingAllocation
        BY <1>1 DEF TypeOK
      <3>2. SUFFICES ASSUME a.buffer = c.buffer PROVE SameBytes(a, c)
        BY <2>1 DEF IInv, NoOverlap
      <3>3. a.offset = 0 /\ c.offset = 0
        BY <2>1, <3>2 DEF IInv, HeldWellPlaced
      <3>4. QED
        BY <3>1, <3>3 DEF SameBytes, End, StagingAllocation
    <2>2. DedicatedBuffers(Held)' = DedicatedBuffers(Held) \ DedicatedBuffers(held[h])
      <3>1. \A c \in Held' : \E g \in Holders \ {h} : c \in held[g]
        BY <1>3 DEF Held
      <3>2. \A g \in Holders \ {h} : \A c \in held[g] : c \in Held'
        BY <1>3 DEF Held
      <3>3. \A c \in Held : c \in held[h] \/ \E g \in Holders \ {h} : c \in held[g]
        BY DEF Held
      <3>4. \A g \in Holders : \A c \in held[g] : c \in Held
        BY DEF Held
      <3>5. ASSUME NEW x \in DedicatedBuffers(Held)'
            PROVE  x \in DedicatedBuffers(Held) \ DedicatedBuffers(held[h])
        BY <2>1, <3>1, <3>4, <3>5 DEF DedicatedBuffers
      <3>6. ASSUME NEW x \in DedicatedBuffers(Held), x \notin DedicatedBuffers(held[h])
            PROVE  x \in DedicatedBuffers(Held)'
        BY <3>2, <3>3, <3>6 DEF DedicatedBuffers
      <3>7. QED
        BY <3>5, <3>6
    <2>3. DedicatedBuffers(held[h]) \intersect ChunkBuffers = {}
      BY DEF IInv, HeldWellPlaced, DedicatedBuffers
    <2>4. QED
      BY <1>1, <2>2, <2>3 DEF IInv, NoBufferLeak
  <1>13. QED
    BY <1>6, <1>7, <1>8, <1>9, <1>10, <1>11, <1>12 DEF IInv

(* No operation on the staging memory of a device breaks the invariant. *)
LEMMA NextIInv == IInv /\ [Next]_vars => IInv'
  <1> SUFFICES ASSUME IInv, [Next]_vars PROVE IInv'
    OBVIOUS
  <1>1. CASE InitializeVmaRuntime
    <2>1. /\ UNCHANGED <<chunks, size, usage, free, held, driver>>
          /\ runtime' \in {"none", "ready", "failed"}
      BY <1>1 DEF InitializeVmaRuntime
    <2>2. /\ UNCHANGED ChunkBuffers /\ UNCHANGED DedicatedBuffers(Held)
      BY <2>1 DEF ChunkBuffers, Held
    <2>3. TypeOK'
      BY <2>1 DEF IInv, TypeOK
    <2>4. QED
      BY <2>1, <2>2, <2>3 DEF IInv, FreeInsideChunk, HeldWellPlaced, HeldNotFree,
            Coalesced, NoOverlap, NoBufferLeak
  <1>2. CASE DestroyVmaRuntime
    BY <1>2, DestroyStep
  <1>3. ASSUME NEW h \in Holders, ReleaseStagingAllocations(h) PROVE IInv'
    BY <1>3, ReleaseStep
  <1>4. ASSUME NEW h \in Holders, NEW n \in Sizes, AllocateDedicated(h, n) PROVE IInv'
    BY <1>4, DedicatedStep
  <1>5. ASSUME NEW h \in Holders, NEW n \in Sizes, NEW u \in Usages, AllocateFromChunk(h, n, u)
        PROVE  IInv'
    BY <1>5, FromChunkStep
  <1>6. ASSUME NEW h \in Holders, NEW n \in Sizes, NEW u \in Usages, AllocateFromNewChunk(h, n, u)
        PROVE  IInv'
    BY <1>6, FromNewChunkStep
  <1>7. CASE UNCHANGED vars
    <2>1. /\ UNCHANGED <<runtime, chunks, size, usage, free, held, driver>>
          /\ UNCHANGED ChunkBuffers /\ UNCHANGED DedicatedBuffers(Held)
      BY <1>7 DEF vars, ChunkBuffers, Held
    <2>2. TypeOK'
      BY <2>1 DEF IInv, TypeOK
    <2>3. QED
      BY <2>1, <2>2 DEF IInv, FreeInsideChunk, HeldWellPlaced, HeldNotFree,
            Coalesced, NoOverlap, NoBufferLeak
  <1>8. QED
    BY <1>1, <1>2, <1>3, <1>4, <1>5, <1>6, <1>7 DEF Next

(* Every reachable state satisfies the inductive invariant. *)
THEOREM SpecIInv == Spec => []IInv
  <1>1. Init => IInv
    BY InitIInv
  <1>2. IInv /\ [Next]_vars => IInv'
    BY NextIInv
  <1>3. QED
    BY <1>1, <1>2, PTL DEF Spec

(* The variables of the allocator keep their types: free ranges and held
   allocations have natural offsets and are never empty. *)
THEOREM SpecTypeOK == Spec => []TypeOK
  <1>1. IInv => TypeOK
    BY DEF IInv
  <1>2. QED
    BY <1>1, SpecIInv, PTL

(* No byte of staging memory is in two lists, or twice in one: allocate_from_chunk,
   merge_chunk_free_ranges and the dedicated path never alias uploads. *)
THEOREM SpecNoOverlap == Spec => []NoOverlap
  <1>1. IInv => NoOverlap
    BY DEF IInv
  <1>2. QED
    BY <1>1, SpecIInv, PTL

(* Two free ranges of a chunk never touch: merge_chunk_free_ranges leaves no two
   neighbours, and no split creates any. *)
THEOREM SpecCoalesced == Spec => []Coalesced
  <1>1. IInv => Coalesced
    BY DEF IInv
  <1>2. QED
    BY <1>1, SpecIInv, PTL

(* The buffers in the driver are the chunks and the dedicated buffers in some
   list, so that nothing is leaked and nothing in use is destroyed. *)
THEOREM SpecNoBufferLeak == Spec => []NoBufferLeak
  <1>1. IInv => NoBufferLeak
    BY DEF IInv
  <1>2. QED
    BY <1>1, SpecIInv, PTL

-----------------------------------------------------------------------------
(* Conservation: what is neither free nor held does not exist.             *)

(* Byte x of chunk b is in some list. *)
Taken(b, x) ==
  \E g \in Holders : \E a \in held[g] :
    a.buffer = b /\ ~a.dedicated /\ a.offset <= x /\ x < End(a)

(* The half of Conservation that no other conjunct says: no byte is lost. *)
Complete ==
  \A b \in ChunkBuffers : \A x \in 0 .. size[b] - 1 : Covered(free[b], x) \/ Taken(b, x)

(* A pooled allocation starts where align_up put it. *)
Aligned ==
  \A h \in Holders : \A a \in held[h] : ~a.dedicated => a.offset % Alignment = 0

CInv == IInv /\ Complete /\ Aligned

(* A chunk that serves a request keeps every byte it does not give away. *)
LEMMA FromChunkLosesNothing ==
  ASSUME CInv, NEW h \in Holders, NEW n \in Sizes, NEW u \in Usages,
         AllocateFromChunk(h, n, u)
  PROVE  Complete' /\ Aligned'
  <1>0. PICK i \in DOMAIN chunks : \E r \in free[chunks[i]] :
          /\ Fits(r, n)
          /\ free' = [free EXCEPT ![chunks[i]] = Carve(@, r, n)]
          /\ Hold(h, chunks[i], align_up(r.offset), n, FALSE)
    BY DEF AllocateFromChunk, FirstFit
  <1>1. PICK r \in free[chunks[i]] :
          /\ Fits(r, n)
          /\ free' = [free EXCEPT ![chunks[i]] = Carve(@, r, n)]
          /\ Hold(h, chunks[i], align_up(r.offset), n, FALSE)
    BY <1>0
  <1> DEFINE b == chunks[i]
             o == align_up(r.offset)
             a == [buffer |-> b, offset |-> o, size |-> n, dedicated |-> FALSE]
  <1>2. /\ TypeOK /\ Complete /\ Aligned /\ n \in Nat \ {0}
        /\ UNCHANGED size /\ UNCHANGED ChunkBuffers
        /\ b \in Buffers /\ ChunkBuffers \subseteq Buffers
    BY StagingAssumption DEF CInv, IInv, AllocateFromChunk, ChunkBuffers, TypeOK
  <1>3. free[b] \in SUBSET StagingChunkRange /\ r.offset \in Nat
    BY <1>2 DEF TypeOK, StagingChunkRange
  <1>4. o \in Nat /\ o % Alignment = 0
    BY <1>3, AlignUp, AlignedUp
  <1>5. \A c \in Buffers : free'[c] = IF c = b THEN Carve(free[b], r, n) ELSE free[c]
    BY <1>1, <1>2 DEF TypeOK
  <1> HIDE DEF b, o
  <1>6. /\ \A g \in Holders : held[g] \subseteq held'[g]
        /\ \A g \in Holders : \A c \in held'[g] : c \in held[g] \/ c = a
        /\ a \in held'[h]
    BY <1>1, <1>2, <1>4, HoldAdds DEF b, o
  <1>7. a.buffer = b /\ a.offset = o /\ End(a) = o + n /\ ~a.dedicated
    BY DEF End
  <1> HIDE DEF a
  <1>8. Aligned'
    BY <1>2, <1>4, <1>6, <1>7 DEF Aligned
  <1>9. ASSUME NEW c \in ChunkBuffers, NEW x \in 0 .. size[c] - 1
        PROVE  Covered(free'[c], x) \/ Taken(c, x)'
    <2>1. size[c] \in Nat /\ x \in Nat
      BY <1>2 DEF TypeOK
    <2>2. Covered(free[c], x) \/ Taken(c, x)
      BY <1>2 DEF Complete
    <2>3. Taken(c, x) => Taken(c, x)'
      BY <1>6 DEF Taken, End
    <2>4. CASE Covered(free[c], x) /\ c # b
      BY <1>2, <1>5, <2>4
    <2>5. CASE Covered(free[c], x) /\ c = b
      <3>1. Covered(Carve(free[b], r, n), x) \/ (o <= x /\ x < o + n)
        BY <1>1, <1>2, <1>3, <2>1, <2>5, CarveCovers DEF b, o
      <3>2. (o <= x /\ x < o + n) => Taken(c, x)'
        BY <1>6, <1>7, <2>5 DEF Taken, End
      <3>3. QED
        BY <1>2, <1>5, <2>5, <3>1, <3>2
    <2>6. QED
      BY <2>2, <2>3, <2>4, <2>5
  <1>10. Complete'
    BY <1>2, <1>9 DEF Complete
  <1>11. QED
    BY <1>8, <1>10

(* Every byte of a new chunk is free, but for those the request gets. *)
LEMMA FromNewChunkLosesNothing ==
  ASSUME CInv, NEW h \in Holders, NEW n \in Sizes, NEW u \in Usages,
         AllocateFromNewChunk(h, n, u)
  PROVE  Complete' /\ Aligned'
  <1> DEFINE least == align_up(n)
             usual == align_up(DefaultChunkSize[u])
             chunk_size == IF least > usual THEN least ELSE usual
             whole == [offset |-> 0, size |-> chunk_size]
             rest == Carve({whole}, whole, n)
  <1>1. PICK b \in Buffers \ driver :
          /\ chunks' = Append(chunks, b)
          /\ size' = [size EXCEPT ![b] = chunk_size]
          /\ free' = [free EXCEPT ![b] = rest]
          /\ Hold(h, b, 0, n, FALSE)
    BY DEF AllocateFromNewChunk
  <1> DEFINE a == [buffer |-> b, offset |-> 0, size |-> n, dedicated |-> FALSE]
  <1>2. /\ TypeOK /\ Complete /\ Aligned /\ n \in Nat \ {0}
        /\ ChunkBuffers \subseteq Buffers
    BY StagingAssumption DEF CInv, IInv, AllocateFromNewChunk, ChunkBuffers, TypeOK
  <1>3. chunk_size \in Nat \ {0} /\ n <= chunk_size
    <2>1. DefaultChunkSize[u] \in Nat
      BY StagingAssumption
    <2>2. /\ least \in Nat /\ usual \in Nat /\ n <= least
      BY <1>2, <2>1, AlignUp
    <2>3. QED
      BY <1>2, <2>2
  <1>4. align_up(0) = 0 /\ 0 % Alignment = 0
    BY AlignmentAssumption DEF align_up
  <1> HIDE DEF chunk_size
  <1>5. {whole} \in SUBSET StagingChunkRange /\ Fits(whole, n)
    BY <1>2, <1>3, <1>4 DEF StagingChunkRange, Padding, Fits
  <1>6. \A c \in Buffers : /\ free'[c] = IF c = b THEN rest ELSE free[c]
                           /\ size'[c] = IF c = b THEN chunk_size ELSE size[c]
    BY <1>1, <1>2 DEF TypeOK
  <1>7. ChunkBuffers' = ChunkBuffers \union {b}
    <2>1. chunks \in Seq(Buffers) /\ b \in Buffers
      BY <1>2 DEF TypeOK
    <2>2. /\ DOMAIN chunks = 1 .. Len(chunks) /\ DOMAIN chunks' = 1 .. Len(chunks) + 1
          /\ Len(chunks) \in Nat
          /\ \A j \in 1 .. Len(chunks) : chunks'[j] = chunks[j]
          /\ chunks'[Len(chunks) + 1] = b
      BY <1>1, <2>1
    <2>3. QED
      BY <2>2 DEF ChunkBuffers
  <1>8. /\ \A g \in Holders : held[g] \subseteq held'[g]
        /\ \A g \in Holders : \A c \in held'[g] : c \in held[g] \/ c = a
        /\ a \in held'[h]
    BY <1>1, <1>2, HoldAdds
  <1>9. a.buffer = b /\ a.offset = 0 /\ End(a) = n /\ ~a.dedicated
    BY <1>2 DEF End
  <1> HIDE DEF a
  <1>10. Aligned'
    BY <1>2, <1>4, <1>8, <1>9 DEF Aligned
  <1>11. ASSUME NEW c \in ChunkBuffers, c # b, NEW x \in 0 .. size[c] - 1
         PROVE  Covered(free'[c], x) \/ Taken(c, x)'
    <2>1. Covered(free[c], x) \/ Taken(c, x)
      BY <1>2 DEF Complete
    <2>2. Taken(c, x) => Taken(c, x)'
      BY <1>8 DEF Taken, End
    <2>3. QED
      BY <1>2, <1>6, <1>11, <2>1, <2>2
  <1>12. ASSUME NEW x \in 0 .. chunk_size - 1
         PROVE  Covered(rest, x) \/ Taken(b, x)'
    <2>1. x \in Nat /\ Covered({whole}, x)
      BY <1>3 DEF Covered, End
    <2>2. Covered(rest, x) \/ (align_up(0) <= x /\ x < align_up(0) + n)
      BY <1>2, <1>5, <2>1, CarveCovers
    <2>3. x < n => Taken(b, x)'
      BY <1>8, <1>9, <2>1 DEF Taken, End
    <2>4. QED
      BY <1>2, <1>4, <2>1, <2>2, <2>3
  <1> HIDE DEF rest
  <1>13. Complete'
    BY <1>1, <1>2, <1>6, <1>7, <1>11, <1>12 DEF Complete
  <1>14. QED
    BY <1>10, <1>13

(* What a list gives back is free again, and merging loses none of it. *)
LEMMA ReleaseLosesNothing ==
  ASSUME CInv, NEW h \in Holders, ReleaseStagingAllocations(h)
  PROVE  Complete' /\ Aligned'
  <1> DEFINE R(b) == free[b] \union Ranges(held[h], b)
  <1>1. /\ TypeOK /\ Complete /\ Aligned /\ FreeInsideChunk /\ HeldWellPlaced
        /\ UNCHANGED size /\ UNCHANGED ChunkBuffers
        /\ held' = [held EXCEPT ![h] = {}]
        /\ ChunkBuffers \subseteq Buffers
    BY DEF CInv, IInv, ReleaseStagingAllocations, ChunkBuffers, TypeOK
  <1>2. \A b \in ChunkBuffers :
          free'[b] = IF Ranges(held[h], b) # {} THEN Merge(R(b)) ELSE free[b]
    BY <1>1 DEF ReleaseStagingAllocations
  <1>3. \A g \in Holders : held'[g] = IF g = h THEN {} ELSE held[g]
    BY <1>1 DEF TypeOK
  <1>4. Aligned'
    BY <1>1, <1>3 DEF Aligned
  <1>5. ASSUME NEW b \in ChunkBuffers, NEW x \in 0 .. size[b] - 1
        PROVE  Covered(free'[b], x) \/ Taken(b, x)'
    <2>1. size[b] \in Nat /\ x \in Nat /\ free[b] \in SUBSET StagingChunkRange
      BY <1>1 DEF TypeOK
    <2>2. Covered(free[b], x) \/ Taken(b, x)
      BY <1>1 DEF Complete
    <2>3. R(b) \in SUBSET StagingChunkRange /\ \A r \in R(b) : End(r) <= size[b]
      <3>1. \A a \in held[h] : a \in StagingAllocation
        BY <1>1 DEF TypeOK
      <3>2. \A r \in Ranges(held[h], b) : r \in StagingChunkRange /\ End(r) <= size[b]
        BY <1>1, <3>1 DEF Ranges, StagingAllocation, StagingChunkRange, End, HeldWellPlaced
      <3>3. \A r \in free[b] : End(r) <= size[b]
        BY <1>1 DEF FreeInsideChunk
      <3>4. QED
        BY <2>1, <3>2, <3>3
    <2>4. ASSUME NEW a \in held[h], a.buffer = b, ~a.dedicated, a.offset <= x, x < End(a)
          PROVE  Ranges(held[h], b) # {} /\ Covered(R(b), x)
      <3> DEFINE r == [offset |-> a.offset, size |-> a.size]
      <3>1. r \in Ranges(held[h], b)
        BY <2>4 DEF Ranges
      <3>2. r.offset <= x /\ x < End(r)
        BY <2>4 DEF End
      <3> HIDE DEF r
      <3>3. QED
        BY <3>1, <3>2 DEF Covered
    <2>5. Covered(free[b], x) => Covered(R(b), x)
      BY DEF Covered
    <2>6. Covered(Merge(R(b)), x) <=> Covered(R(b), x)
      BY <2>1, <2>3, MergeCovers
    <2> HIDE DEF R
    <2>7. CASE Covered(free[b], x)
      BY <1>2, <2>5, <2>6, <2>7
    <2>8. CASE Taken(b, x)
      <3>0. PICK g \in Holders : \E a \in held[g] :
              a.buffer = b /\ ~a.dedicated /\ a.offset <= x /\ x < End(a)
        BY <2>8 DEF Taken
      <3>1. PICK a \in held[g] :
              a.buffer = b /\ ~a.dedicated /\ a.offset <= x /\ x < End(a)
        BY <3>0
      <3>2. CASE g = h
        BY <1>2, <2>4, <2>6, <3>1, <3>2
      <3>3. CASE g # h
        BY <1>3, <3>1, <3>3 DEF Taken, End
      <3>4. QED
        BY <3>2, <3>3
    <2>9. QED
      BY <2>2, <2>7, <2>8
  <1>6. Complete'
    BY <1>1, <1>5 DEF Complete
  <1>7. QED
    BY <1>4, <1>6

(* No operation loses a byte or hands one out at an unaligned offset. *)
LEMMA NextCInv == CInv /\ [Next]_vars => CInv'
  <1> SUFFICES ASSUME CInv, [Next]_vars PROVE CInv'
    OBVIOUS
  <1>0. IInv /\ IInv' /\ TypeOK /\ Complete /\ Aligned
    BY NextIInv DEF CInv, IInv
  <1> SUFFICES Complete' /\ Aligned'
    BY <1>0 DEF CInv
  <1>1. ASSUME UNCHANGED <<chunks, size, free, held>> PROVE Complete' /\ Aligned'
    <2>1. UNCHANGED ChunkBuffers
      BY <1>1 DEF ChunkBuffers
    <2>2. QED
      BY <1>0, <1>1, <2>1 DEF Complete, Aligned, Taken
  <1>2. CASE InitializeVmaRuntime
    BY <1>1, <1>2 DEF InitializeVmaRuntime
  <1>3. CASE DestroyVmaRuntime
    <2>1. ChunkBuffers' = {} /\ \A h \in Holders : held'[h] = {}
      BY <1>3 DEF DestroyVmaRuntime, ChunkBuffers
    <2>2. QED
      BY <2>1 DEF Complete, Aligned
  <1>4. ASSUME NEW h \in Holders, ReleaseStagingAllocations(h) PROVE Complete' /\ Aligned'
    BY <1>4, ReleaseLosesNothing
  <1>5. ASSUME NEW h \in Holders, NEW n \in Sizes, AllocateDedicated(h, n)
        PROVE  Complete' /\ Aligned'
    <2>1. PICK b \in Buffers : Hold(h, b, 0, n, TRUE)
      BY <1>5 DEF AllocateDedicated
    <2>2. /\ UNCHANGED <<size, free>> /\ UNCHANGED ChunkBuffers
          /\ n \in Nat \ {0}
      BY <1>5, StagingAssumption DEF AllocateDedicated, ChunkBuffers
    <2> DEFINE a == [buffer |-> b, offset |-> 0, size |-> n, dedicated |-> TRUE]
    <2>3. /\ \A g \in Holders : held[g] \subseteq held'[g]
          /\ \A g \in Holders : \A c \in held'[g] : c \in held[g] \/ c = a
      BY <1>0, <2>1, <2>2, HoldAdds
    <2>4. a.dedicated
      OBVIOUS
    <2> HIDE DEF a
    <2>5. Aligned'
      BY <1>0, <2>3, <2>4 DEF Aligned
    <2>6. \A c, x : Taken(c, x) => Taken(c, x)'
      BY <2>3 DEF Taken, End
    <2>7. Complete'
      BY <1>0, <2>2, <2>6 DEF Complete
    <2>8. QED
      BY <2>5, <2>7
  <1>6. ASSUME NEW h \in Holders, NEW n \in Sizes, NEW u \in Usages, AllocateFromChunk(h, n, u)
        PROVE  Complete' /\ Aligned'
    BY <1>6, FromChunkLosesNothing
  <1>7. ASSUME NEW h \in Holders, NEW n \in Sizes, NEW u \in Usages, AllocateFromNewChunk(h, n, u)
        PROVE  Complete' /\ Aligned'
    BY <1>7, FromNewChunkLosesNothing
  <1>8. CASE UNCHANGED vars
    BY <1>1, <1>8 DEF vars
  <1>9. QED
    BY <1>2, <1>3, <1>4, <1>5, <1>6, <1>7, <1>8 DEF Next

(* Every reachable state satisfies the stronger invariant. *)
LEMMA SpecCInv == Spec => []CInv
  <1>1. Init => CInv
    <2> SUFFICES ASSUME Init PROVE CInv
      OBVIOUS
    <2>1. ChunkBuffers = {} /\ \A h \in Holders : held[h] = {}
      BY DEF Init, ChunkBuffers
    <2>2. QED
      BY <2>1, InitIInv DEF CInv, Complete, Aligned
  <1>2. QED
    BY <1>1, NextCInv, PTL DEF Spec

(* Every byte of every chunk is free or held and never both, whatever is split,
   padded, given back and merged, for every alignment, set of sizes and chunk size. *)
THEOREM SpecConservation == Spec => []Conservation
  <1>1. CInv => Conservation
    <2> SUFFICES ASSUME CInv, NEW b \in ChunkBuffers, NEW x \in 0 .. size[b] - 1
                 PROVE  Covered(free[b], x) <=> ~\E a \in Held :
                          a.buffer = b /\ ~a.dedicated /\ a.offset <= x /\ x < End(a)
      BY DEF Conservation
    <2>1. TypeOK /\ HeldNotFree /\ Complete /\ b \in Buffers
      BY DEF CInv, IInv, ChunkBuffers, TypeOK
    <2>2. (\E a \in Held : a.buffer = b /\ ~a.dedicated /\ a.offset <= x /\ x < End(a))
            <=> Taken(b, x)
      BY DEF Held, Taken
    <2>3. Covered(free[b], x) \/ Taken(b, x)
      BY <2>1 DEF Complete
    <2>4. ASSUME Covered(free[b], x), Taken(b, x) PROVE FALSE
      <3>1. PICK r \in free[b] : r.offset <= x /\ x < End(r)
        BY <2>4 DEF Covered
      <3>0. PICK g \in Holders : \E a \in held[g] :
              a.buffer = b /\ ~a.dedicated /\ a.offset <= x /\ x < End(a)
        BY <2>4 DEF Taken
      <3>2. PICK a \in held[g] :
              a.buffer = b /\ ~a.dedicated /\ a.offset <= x /\ x < End(a)
        BY <3>0
      <3>3. /\ r.offset \in Nat /\ r.size \in Nat /\ a.offset \in Nat /\ a.size \in Nat
            /\ x \in Int
        BY <2>1 DEF TypeOK, StagingChunkRange, StagingAllocation
      <3>4. SameBytes(a, r)
        BY <3>1, <3>2, <3>3 DEF SameBytes, End
      <3>5. QED
        BY <2>1, <3>2, <3>4 DEF HeldNotFree
    <2>5. QED
      BY <2>2, <2>3, <2>4
  <1>2. QED
    BY <1>1, SpecCInv, PTL

(* A pooled allocation starts at a multiple of the alignment inside a live chunk, so
   that a storage buffer descriptor may point at it. *)
THEOREM SpecHeldInsideChunk == Spec => []HeldInsideChunk
  <1>1. CInv => HeldInsideChunk
    <2> SUFFICES ASSUME CInv, NEW a \in Held, ~a.dedicated
                 PROVE  /\ a.buffer \in ChunkBuffers
                        /\ a.offset % Alignment = 0
                        /\ End(a) <= size[a.buffer]
      BY DEF HeldInsideChunk
    <2>1. PICK h \in Holders : a \in held[h]
      BY DEF Held
    <2>2. QED
      BY <2>1 DEF CInv, IInv, Aligned, HeldWellPlaced
  <1>2. QED
    BY <1>1, SpecCInv, PTL

-----------------------------------------------------------------------------
(* Refinement: the pooled allocator implements StagingAbs.                 *)

BlockOf(a) == [buffer |-> a.buffer, offset |-> a.offset, size |-> a.size]

BlockMap == [h \in Holders |-> BlocksOf(h)]

(* One allocation that overlaps no other is a grant of the abstract spec. *)
LEMMA HoldRefines ==
  ASSUME TypeOK, TypeOK', NEW h \in Holders, NEW b \in Buffers, NEW o \in Nat,
         NEW n \in Nat \ {0}, NEW d \in BOOLEAN, Hold(h, b, o, n, d),
         driver \subseteq driver', b \in driver',
         \A g \in Holders : \A c \in held[g] :
           b = c.buffer => ~SameBytes([offset |-> o, size |-> n], c)
  PROVE  Abs!Grant(h)
  <1> DEFINE a == [buffer |-> b, offset |-> o, size |-> n, dedicated |-> d]
             k == [buffer |-> b, offset |-> o, size |-> n]
  <1>1. \A g \in Holders : held'[g] = IF g = h THEN held[h] \union {a} ELSE held[g]
    BY DEF Hold, TypeOK
  <1>2. \A g \in Holders : BlockMap'[g] = IF g = h THEN BlockMap[h] \union {k} ELSE BlockMap[g]
    <2>1. ASSUME NEW g \in Holders
          PROVE  BlockMap'[g] = {BlockOf(c) : c \in held'[g]} /\ BlockMap[g] = {BlockOf(c) : c \in held[g]}
      BY DEF BlockMap, BlocksOf, BlockOf
    <2>2. BlockOf(a) = k
      BY DEF BlockOf
    <2> HIDE DEF a, k
    <2>3. BlockMap'[h] = BlockMap[h] \union {k}
      BY <1>1, <2>1, <2>2
    <2>4. \A g \in Holders \ {h} : BlockMap'[g] = BlockMap[g]
      BY <1>1, <2>1
    <2>5. QED
      BY <2>3, <2>4
  <1>3. BlockMap' = [BlockMap EXCEPT ![h] = @ \union {k}]
    <2> HIDE DEF k
    <2>1. BlockMap = [g \in Holders |-> BlockMap[g]] /\ BlockMap' = [g \in Holders |-> BlockMap'[g]]
      BY DEF BlockMap
    <2> HIDE DEF BlockMap
    <2>2. QED
      BY <1>2, <2>1
  <1>4. k \in BlockMap'[h] /\ k \in Abs!Block
    BY <1>2 DEF Abs!Block
  <1>5. ASSUME NEW g \in Holders, NEW c \in BlockMap[g]
        PROVE  ~Abs!Overlap(k, c)
    <2>1. PICK x \in held[g] : c = BlockOf(x)
      BY DEF BlockMap, BlocksOf, BlockOf
    <2>2. b = x.buffer => ~SameBytes([offset |-> o, size |-> n], x)
      OBVIOUS
    <2>3. QED
      BY <2>1, <2>2 DEF Abs!Overlap, SameBytes, End, BlockOf
  <1>6. driver' \subseteq Buffers
    BY DEF TypeOK
  <1>7. k.buffer = b
    OBVIOUS
  <1> HIDE DEF k
  <1>8. QED
    BY <1>3, <1>4, <1>5, <1>6, <1>7 DEF Abs!Grant, BlockMap

(* Each step of the allocator is a step of the abstract specification or none. *)
LEMMA StepRefines ==
  ASSUME IInv, IInv', [Next]_vars
  PROVE  [Abs!Next]_(Abs!vars)
  <1>1. TypeOK /\ TypeOK' /\ HeldWellPlaced /\ HeldNotFree /\ NoBufferLeak
    BY DEF IInv
  <1>2. CASE InitializeVmaRuntime
    BY <1>2 DEF InitializeVmaRuntime, Abs!vars, BlocksOf
  <1>3. CASE DestroyVmaRuntime
    <2>1. driver' = {} /\ \A h \in Holders : held'[h] = {}
      BY <1>1, <1>3 DEF DestroyVmaRuntime, NoBufferLeak
    <2>2. Abs!Discard
      BY <2>1 DEF Abs!Discard, BlocksOf
    <2>3. QED
      BY <2>2 DEF Abs!Next
  <1>4. ASSUME NEW h \in Holders, ReleaseStagingAllocations(h)
        PROVE  Abs!Next
    <2>1. /\ held' = [held EXCEPT ![h] = {}]
          /\ driver' \subseteq driver
      BY <1>4 DEF ReleaseStagingAllocations
    <2>2. \A g \in Holders : held'[g] = IF g = h THEN {} ELSE held[g]
      BY <1>1, <2>1 DEF TypeOK
    <2>3. \A g \in Holders : BlockMap'[g] = IF g = h THEN {} ELSE BlockMap[g]
      BY <2>2 DEF BlockMap, BlocksOf
    <2>4. BlockMap' = [BlockMap EXCEPT ![h] = {}]
      <3>1. BlockMap = [g \in Holders |-> BlockMap[g]] /\ BlockMap' = [g \in Holders |-> BlockMap'[g]]
        BY DEF BlockMap
      <3> HIDE DEF BlockMap
      <3>2. QED
        BY <2>3, <3>1
    <2>5. \A g \in Holders \ {h} : \A c \in BlockMap[g] : c.buffer \in driver'
      <3>1. SUFFICES ASSUME NEW g \in Holders \ {h}, NEW x \in held[g]
                     PROVE  x.buffer \in driver'
        BY DEF BlockMap, BlocksOf
      <3>2. x \in held'[g]
        BY <2>2
      <3>3. QED
        BY <3>2, HeldExists DEF IInv, HeldWellPlaced, NoBufferLeak, DedicatedBuffers, Held
    <2>6. QED
      BY <2>1, <2>4, <2>5 DEF Abs!Next, Abs!Return, BlockMap
  <1>5. ASSUME NEW h \in Holders, NEW n \in Sizes, AllocateDedicated(h, n)
        PROVE  Abs!Next
    <2>1. PICK b \in Buffers \ driver :
            driver' = driver \union {b} /\ Hold(h, b, 0, n, TRUE)
      BY <1>5 DEF AllocateDedicated
    <2>2. n \in Nat \ {0}
      BY <1>5, StagingAssumption DEF AllocateDedicated
    <2>3. \A g \in Holders : \A c \in held[g] : b # c.buffer
      BY <1>1, <2>1, HeldExists
    <2>4. Abs!Grant(h)
      BY <1>1, <2>1, <2>2, <2>3, HoldRefines
    <2>5. QED
      BY <2>4 DEF Abs!Next
  <1>6. ASSUME NEW h \in Holders, NEW n \in Sizes, NEW u \in Usages, AllocateFromNewChunk(h, n, u)
        PROVE  Abs!Next
    <2>1. PICK b \in Buffers \ driver :
            driver' = driver \union {b} /\ Hold(h, b, 0, n, FALSE)
      BY <1>6 DEF AllocateFromNewChunk
    <2>2. n \in Nat \ {0}
      BY <1>6, StagingAssumption DEF AllocateFromNewChunk
    <2>3. \A g \in Holders : \A c \in held[g] : b # c.buffer
      BY <1>1, <2>1, HeldExists
    <2>4. Abs!Grant(h)
      BY <1>1, <2>1, <2>2, <2>3, HoldRefines
    <2>5. QED
      BY <2>4 DEF Abs!Next
  <1>7. ASSUME NEW h \in Holders, NEW n \in Sizes, NEW u \in Usages, AllocateFromChunk(h, n, u)
        PROVE  Abs!Next
    <2>1. PICK i \in DOMAIN chunks : \E r \in free[chunks[i]] :
            Fits(r, n) /\ Hold(h, chunks[i], align_up(r.offset), n, FALSE)
      BY <1>7 DEF AllocateFromChunk, FirstFit
    <2> DEFINE b == chunks[i]
    <2>2. PICK r \in free[b] : Fits(r, n) /\ Hold(h, b, align_up(r.offset), n, FALSE)
      BY <2>1
    <2>3. /\ b \in Buffers /\ b \in ChunkBuffers
          /\ driver' = driver /\ b \in driver'
          /\ n \in Nat \ {0}
      BY <1>1, <1>7, StagingAssumption DEF TypeOK, ChunkBuffers, NoBufferLeak, AllocateFromChunk
    <2>4. /\ free[b] \in SUBSET StagingChunkRange
          /\ r.offset \in Nat /\ r.size \in Nat /\ align_up(r.offset) \in Nat
          /\ Separate(free[b])
      <3>1. free[b] \in SUBSET StagingChunkRange
        BY <1>1, <2>3 DEF TypeOK
      <3>2. r.offset \in Nat /\ r.size \in Nat
        BY <3>1 DEF StagingChunkRange
      <3>3. Separate(free[b])
        BY <2>3 DEF IInv, Coalesced, Separate
      <3>4. QED
        BY <3>1, <3>2, <3>3, AlignUp
    <2>5. Inside([offset |-> align_up(r.offset), size |-> n], r)
      BY <2>2, <2>3, <2>4, CarveTakes
    <2>6. ASSUME NEW g \in Holders, NEW c \in held[g], b = c.buffer
          PROVE  ~SameBytes([offset |-> align_up(r.offset), size |-> n], c)
      <3>1. ~SameBytes(c, r)
        BY <1>1, <2>3, <2>6 DEF HeldWellPlaced, HeldNotFree
      <3>2. c.offset \in Nat /\ c.size \in Nat
        BY <1>1 DEF TypeOK, StagingAllocation
      <3>3. QED
        BY <2>3, <2>4, <2>5, <3>1, <3>2 DEF SameBytes, Inside, End
    <2>7. Abs!Grant(h)
      BY <1>1, <2>2, <2>3, <2>4, <2>6, HoldRefines
    <2>8. QED
      BY <2>7 DEF Abs!Next
  <1>8. CASE UNCHANGED vars
    BY <1>8 DEF vars, Abs!vars, BlocksOf
  <1>9. QED
    BY <1>2, <1>3, <1>4, <1>5, <1>6, <1>7, <1>8 DEF Next

(* The pooled allocator, with its chunks, splits and merges, is one way to hand out
   private blocks of memory as StagingAbs promises. *)
THEOREM SpecImplementsAbs == Spec => ImplementsAbs
  <1>1. Init => Abs!Init
    BY DEF Init, Abs!Init, BlocksOf
  <1>2. IInv /\ IInv' /\ [Next]_vars => [Abs!Next]_(Abs!vars)
    BY StepRefines
  <1>3. QED
    BY <1>1, <1>2, SpecIInv, PTL DEF Spec, Abs!Spec, ImplementsAbs
=============================================================================
