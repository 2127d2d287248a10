-------------------------- MODULE StagingAllocator --------------------------
(***************************************************************************)
(* The staging memory of one device: layer_staging_allocations.cpp on top  *)
(* of the VmaRuntime of layer_vma_runtime.cpp.                             *)
(*                                                                         *)
(* A chunk is a VkBuffer cut up by first fit; its free list is kept sorted *)
(* and merged, so that it is represented here by the set of its ranges     *)
(* (module StagingRanges; FreeList relates the two).  Every operation on   *)
(* chunks holds staging_mutex from its first read to its last write, so    *)
(* that each is one action; the dedicated path runs outside of the lock    *)
(* and touches nothing but the driver.  A request the driver refuses       *)
(* leaves no trace and is not a step.                                      *)
(***************************************************************************)
EXTENDS StagingRanges, Sequences

CONSTANTS
  Holders,          \* a command buffer's list, or the list of a decode under way
  Buffers,          \* VkBuffer handles, reused by the driver once destroyed
  Sizes,            \* byte sizes callers ask for
  DefaultChunkSize, \* usage -> kCpuUploadStagingChunkSize, kDefaultStagingChunkSize
  MaxPooledSize     \* kMaxPooledCpuUploadSize

Usages == {"upload", "copy"}  \* TRANSFER_SRC and mapped; TRANSFER_DST | STORAGE

ASSUME StagingAssumption ==
  /\ Sizes \subseteq Nat
  /\ DefaultChunkSize \in [Usages -> Nat \ {0}]
  /\ MaxPooledSize \in Nat

VARIABLES
  runtime,  \* "none", "ready", or "failed": initialized without an allocator
  chunks,   \* staging_chunks: the chunks' buffers, in creation order
  size,     \* StagingChunk::size, by buffer
  usage,    \* StagingChunk::usage, by buffer
  free,     \* StagingChunk::free_ranges, by buffer
  held,     \* holder -> the StagingAllocations in its list
  driver    \* buffers that exist in the driver

vars == <<runtime, chunks, size, usage, free, held, driver>>

\* One piece of staging memory; a dedicated one is a whole VkBuffer.
StagingAllocation ==
  [buffer : Buffers, offset : Nat, size : Nat \ {0}, dedicated : BOOLEAN]

ChunkBuffers == {chunks[i] : i \in DOMAIN chunks}
Held == UNION {held[h] : h \in Holders}

TypeOK ==
  /\ runtime \in {"none", "ready", "failed"}
  /\ chunks \in Seq(Buffers)
  /\ size \in [Buffers -> Nat]
  /\ usage \in [Buffers -> Usages]
  /\ free \in [Buffers -> SUBSET StagingChunkRange]
  /\ held \in [Holders -> SUBSET StagingAllocation]
  /\ driver \subseteq Buffers

-----------------------------------------------------------------------------
(* Allocation.                                                             *)

PoolLimit(u) == [upload |-> {n \in Sizes : n <= MaxPooledSize}, copy |-> Sizes][u]

\* The chunk at place i can serve n bytes for u: an upload skips unmapped chunks,
\* and no chunk has the usage bits of the other kind.
Serves(i, n, u) == usage[chunks[i]] = u /\ \E r \in free[chunks[i]] : Fits(r, n)

NoChunkServes(n, u) == \A i \in DOMAIN chunks : ~Serves(i, n, u)

\* Mutant of Hold: the dedicated flag is not set.
Hold_NoFlag(h, b, o, n, d) ==
  held' = [held EXCEPT ![h] =
             @ \union {[buffer |-> b, offset |-> o, size |-> n, dedicated |-> FALSE]}]

\* The caller tracks the new allocation.
Hold(h, b, o, n, d) ==
  held' = [held EXCEPT ![h] =
             @ \union {[buffer |-> b, offset |-> o, size |-> n, dedicated |-> d]}]

\* create_*_for_region served by the first chunk with a large enough range.
AllocateFromChunk(h, n, u) ==
  /\ runtime = "ready" /\ n # 0
  /\ n \in PoolLimit(u)
  /\ \E i \in DOMAIN chunks :
       LET b == chunks[i] IN
       /\ Serves(i, n, u)
       /\ \A j \in 1 .. i - 1 : ~Serves(j, n, u)
       /\ \E r \in free[b] :
            /\ FirstFit(free[b], n, r)
            /\ free' = [free EXCEPT ![b] = Carve(@, r, n)]
            /\ Hold(h, b, align_up(r.offset), n, FALSE)
  /\ UNCHANGED <<runtime, chunks, size, usage, driver>>

\* create_*_for_region when no chunk can serve it and the driver grants a new one.
AllocateFromNewChunk(h, n, u) ==
  /\ runtime = "ready" /\ n # 0
  /\ n \in PoolLimit(u)
  /\ NoChunkServes(n, u)
  /\ \E b \in Buffers \ driver :
       LET least == align_up(n)
           usual == align_up(DefaultChunkSize[u])
           chunk_size == IF least > usual THEN least ELSE usual
           whole == [offset |-> 0, size |-> chunk_size]
       IN
       /\ driver' = driver \union {b}
       /\ chunks' = Append(chunks, b)
       /\ size' = [size EXCEPT ![b] = chunk_size]
       /\ usage' = [usage EXCEPT ![b] = u]
       /\ free' = [free EXCEPT ![b] = Carve({whole}, whole, n)]
       /\ Hold(h, b, 0, n, FALSE)
  /\ UNCHANGED runtime

\* An upload too large to pool, or one for which no chunk could be had.
AllocateDedicated(h, n) ==
  /\ runtime = "ready" /\ n # 0
  /\ n \in PoolLimit("upload") => NoChunkServes(n, "upload")
  /\ \E b \in Buffers \ driver :
       /\ driver' = driver \union {b}
       /\ Hold(h, b, 0, n, TRUE)
  /\ UNCHANGED <<runtime, chunks, size, usage, free>>

-----------------------------------------------------------------------------
(* Release.                                                                *)

Ranges(A, b) ==
  {[offset |-> a.offset, size |-> a.size] : a \in {a \in A : ~a.dedicated /\ a.buffer = b}}

DedicatedBuffers(A) == {a.buffer : a \in {a \in A : a.dedicated}}

\* release_staging_allocations on the list of one holder.
ReleaseStagingAllocations(h) ==
  /\ runtime = "ready"
  /\ held[h] # {}
  /\ driver' = driver \ DedicatedBuffers(held[h])
  /\ free' = [b \in Buffers |->
                IF b \in ChunkBuffers /\ Ranges(held[h], b) # {}
                THEN Merge(free[b] \union Ranges(held[h], b))
                ELSE free[b]]
  /\ held' = [held EXCEPT ![h] = {}]
  /\ UNCHANGED <<runtime, chunks, size, usage>>

-----------------------------------------------------------------------------
(* Lifetime of the runtime.                                                *)

\* initialize_vma_runtime; a failure is final for this runtime.
InitializeVmaRuntime ==
  /\ runtime = "none"
  /\ runtime' \in {"ready", "failed"}
  /\ UNCHANGED <<chunks, size, usage, free, held, driver>>

\* layer_DestroyDevice: every list is released, then destroy_vma_runtime.
DestroyVmaRuntime ==
  /\ runtime # "none"
  /\ runtime' = "none"
  /\ driver' = (driver \ DedicatedBuffers(Held)) \ ChunkBuffers
  /\ chunks' = <<>>
  /\ size' = [b \in Buffers |-> 0]
  /\ usage' = [b \in Buffers |-> "upload"]
  /\ free' = [b \in Buffers |-> {}]
  /\ held' = [h \in Holders |-> {}]

Init ==
  /\ runtime = "none"
  /\ chunks = <<>>
  /\ size = [b \in Buffers |-> 0]
  /\ usage = [b \in Buffers |-> "upload"]
  /\ free = [b \in Buffers |-> {}]
  /\ held = [h \in Holders |-> {}]
  /\ driver = {}

Next ==
  \/ InitializeVmaRuntime
  \/ DestroyVmaRuntime
  \/ \E h \in Holders :
       \/ ReleaseStagingAllocations(h)
       \/ \E n \in Sizes :
            \/ AllocateDedicated(h, n)
            \/ \E u \in Usages : AllocateFromChunk(h, n, u) \/ AllocateFromNewChunk(h, n, u)

Spec == Init /\ [][Next]_vars

-----------------------------------------------------------------------------
(* Properties.                                                             *)

\* Two lists never hold a byte of the same buffer, and neither do two
\* allocations of one list: a second decode cannot overwrite texels a first one
\* has staged and the GPU has not read yet.
NoOverlap ==
  \A g, h \in Holders : \A a \in held[g], c \in held[h] :
    (a.buffer = c.buffer /\ SameBytes(a, c)) => (g = h /\ a = c)

\* Every byte of a chunk is either free or held, and never both: splitting,
\* padding and merging neither lose memory nor hand out memory in use.
Conservation ==
  \A b \in ChunkBuffers : \A x \in 0 .. size[b] - 1 :
    Covered(free[b], x) <=> ~\E a \in Held :
      a.buffer = b /\ ~a.dedicated /\ a.offset <= x /\ x < End(a)

\* No two free ranges of a chunk touch: a chunk nobody uses is one range again,
\* so that it can serve a request of its full size.
Coalesced ==
  \A b \in Buffers : \A p, q \in free[b] :
    p # q => End(p) < q.offset \/ End(q) < p.offset

\* Nothing the driver created is forgotten, and nothing destroyed is still held.
NoBufferLeak == driver = ChunkBuffers \union DedicatedBuffers(Held)

\* A pooled allocation starts at an aligned offset of a live chunk and ends in it.
HeldInsideChunk ==
  \A a \in Held :
    ~a.dedicated => /\ a.buffer \in ChunkBuffers
                    /\ a.offset % Alignment = 0
                    /\ End(a) <= size[a.buffer]

BlocksOf(h) ==
  {[buffer |-> a.buffer, offset |-> a.offset, size |-> a.size] : a \in held[h]}

Abs == INSTANCE StagingAbs WITH buffers <- driver, blocks <- [h \in Holders |-> BlocksOf(h)]

\* The pooled allocator is one way to hand out private blocks.
ImplementsAbs == Abs!Spec
=============================================================================
