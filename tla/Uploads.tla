------------------------------- MODULE Uploads -------------------------------
(***************************************************************************)
(* Where the CPU decode of a copied buffer takes its bytes from: the maps  *)
(* of buffer bindings and of memory mappings, the pointer found through    *)
(* them, the cache of decoded textures, and the addressing of compressed   *)
(* blocks (layer_entry.cpp, bcn_cpu_decode_region).                        *)
(*                                                                         *)
(* Memory is an array of compressed blocks.  The host fills a memory with  *)
(* a pattern, whose blocks all differ: block n of pattern p is <<p, n>>.   *)
(* The layer reads at recording time, through a pointer it uses after the  *)
(* lock is released, once for the hash and once to decode.  Meanwhile the  *)
(* application may write, unmap or free the memory, all of which Vulkan    *)
(* allows; vkDestroyBuffer and vkFreeMemory are not intercepted.           *)
(*                                                                         *)
(* The clock of the cache shows in the order of its entries, least         *)
(* recently used first.  The dispatch keys of buffers and memories are     *)
(* taken to tell them apart.                                               *)
(***************************************************************************)
EXTENDS Integers, FiniteSetsExt, SequencesExt

CONSTANTS
  Threads,        \* application threads
  Memories,       \* VkDeviceMemory handles; the driver reuses freed ones
  Buffers,        \* VkBuffer handles
  MemorySize,     \* blocks of a memory
  Ranges,         \* the ranges of memory that are mapped: an offset and a size
  BindOffsets,    \* where in its memory a buffer is bound
  Addresses,      \* host addresses the driver maps memory at
  Patterns,       \* what the host writes
  HashOf,         \* hash_cpu_decode_source, of a pattern's blocks
  Regions,        \* the regions of copies
  MaxUpload,      \* cpu_fallback_max_upload_mb, in decoded blocks
  MaxBytes,       \* kCpuDecodedTextureCacheMaxBytes, in decoded blocks
  MaxEntryBytes,  \* kCpuDecodedTextureCacheMaxEntryBytes
  MaxDisturbed,   \* bound: disturbed reads and entries that came of them, at a time
  None

\* A region in blocks: its offset in the buffer, the blocks copied, the row pitch and
\* the rows of a slice (bufferRowLength, bufferImageHeight), and the slices, which are
\* array layers or depth slices.
Region == [offset : Nat, width : Nat \ {0}, height : Nat \ {0},
           pitch : Nat \ {0}, rows : Nat \ {0}, slices : Nat \ {0}]

ASSUME UploadsAssumption ==
  /\ MemorySize \in Nat \ {0}
  /\ MaxUpload \in Nat /\ MaxDisturbed \in Nat
  /\ MaxEntryBytes \in Nat /\ MaxBytes \in Nat /\ MaxEntryBytes <= MaxBytes
  /\ BindOffsets \subseteq 0..(MemorySize - 1)
  /\ \A r \in Ranges : r \in [offset : 0..(MemorySize - 1), size : 1..(MemorySize + 1)]
  /\ \A r \in Regions : r \in Region /\ r.width <= r.pitch /\ r.height <= r.rows
  /\ None \notin Memories \union Addresses \union Patterns

VARIABLES
  \* the driver and the application
  holds,     \* memory -> the pattern in it, None if it is not allocated
  mapping,   \* memory -> its mapping
  binding,   \* buffer -> its memory and offset
  \* the layer
  bindings,  \* g_buffer_bindings
  maps,      \* g_memory_maps
  cache,     \* g_cpu_decoded_texture_cache
  bytes,     \* g_cpu_decoded_texture_cache_bytes
  \* calls under way
  at, call,  \* thread -> its next step and its locals
  \* history
  orphaned,  \* memories freed while the layer had a map entry for them
  disturbed, \* threads whose source was written or unmapped since they resolved it
  suspect    \* cache keys stored by such a thread

app_vars == <<holds, mapping, binding>>
layer_vars == <<bindings, maps>>
cache_vars == <<cache, bytes>>
vars == <<holds, mapping, binding, bindings, maps, cache, bytes, at, call,
          orphaned, disturbed, suspect>>

Cells == 0..(MemorySize - 1)
WholeSize == MemorySize + 1
Mapping == [address : Addresses, offset : Cells, size : 1..WholeSize]
NoMapping == [address |-> None, offset |-> 0, size |-> 0]
Binding == [memory : Memories, offset : Cells]
NoBinding == [memory |-> None, offset |-> 0]

\* The blocks a read finds: a pattern and the place of the first block.
Source == [pattern : Patterns, first : Nat]
NoSource == [pattern |-> None, first |-> 0]
NoRegion == [offset |-> 0, width |-> 0, height |-> 0, pitch |-> 0, rows |-> 0, slices |-> 0]
NoTexels == [source |-> NoSource, width |-> 0, height |-> 0]
NoCall == [memory |-> None, buffer |-> None, region |-> NoRegion, slice |-> 0,
           address |-> None, start |-> 0, hash |-> <<>>, texels |-> NoTexels]

\* A hash, of a pattern and a place; what the cache keeps; the locals of a call.
Hash == {HashOf[p] : p \in Patterns} \X Nat
Key == [width : Nat, height : Nat, pitch : Nat, rows : Nat, hash : Hash]
Texels == [source : Source, width : Nat, height : Nat]
Entry == [key : Key, texels : Texels]
Locals ==
  [memory : Memories \union {None}, buffer : Buffers \union {None},
   region : Regions \union {NoRegion}, slice : Nat, address : Addresses \union {None},
   start : Nat, hash : Hash \union {<<>>}, texels : Texels \union {NoTexels}]

TypeOK ==
  /\ holds \in [Memories -> Patterns \union {None}]
  /\ mapping \in [Memories -> Mapping \union {NoMapping}]
  /\ binding \in [Buffers -> Binding \union {NoBinding}]
  /\ bindings \in [Buffers -> Binding \union {NoBinding}]
  /\ maps \in [Memories -> Mapping \union {NoMapping}]
  /\ cache \in Seq(Entry)
  /\ bytes \in Nat
  /\ at \in [Threads -> {"idle", "track_map", "unmap", "resolve", "hash", "decode", "stage"}]
  /\ call \in [Threads -> Locals]
  /\ \A t \in Threads :
       call[t].region # NoRegion => call[t].slice \in 0..(call[t].region.slices - 1)
  /\ orphaned \subseteq Memories
  /\ disturbed \subseteq Threads
  /\ suspect \subseteq Key

Init ==
  /\ holds = [m \in Memories |-> None]
  /\ mapping = [m \in Memories |-> NoMapping]
  /\ binding = [b \in Buffers |-> NoBinding]
  /\ bindings = [b \in Buffers |-> NoBinding]
  /\ maps = [m \in Memories |-> NoMapping]
  /\ cache = <<>>
  /\ bytes = 0
  /\ at = [t \in Threads |-> "idle"]
  /\ call = [t \in Threads |-> NoCall]
  /\ orphaned = {}
  /\ disturbed = {}
  /\ suspect = {}

-----------------------------------------------------------------------------
(* Memory, buffers and mappings.                                           *)

Goto(t, step, c) == at' = [at EXCEPT ![t] = step] /\ call' = [call EXCEPT ![t] = c]
Return(t) == Goto(t, "idle", NoCall) /\ disturbed' = disturbed \ {t}

Copying(b) == \E t \in Threads : call[t].buffer = b

\* A thread at a time maps or unmaps a memory.
Handled(m) == \E t \in Threads : call[t].memory = m

\* A thread has a pointer into m and is not done with it.
ReadersOf(m) ==
  {t \in Threads : at[t] \in {"hash", "decode"} /\ call[t].address = mapping[m].address}

\* The bound on what writing to, unmapping or freeing m disturbs.
MayDisturb(m) == Cardinality(disturbed \union ReadersOf(m)) + Cardinality(suspect) <= MaxDisturbed

AllocateMemory(m, p) ==
  /\ holds[m] = None
  /\ holds' = [holds EXCEPT ![m] = p]
  /\ UNCHANGED <<mapping, binding, layer_vars, cache_vars, at, call, orphaned, disturbed, suspect>>

\* vkFreeMemory, with the buffers bound to m, none of which is in a call; the layer
\* does not notice.
FreeMemory(m) ==
  /\ holds[m] # None /\ MayDisturb(m)
  /\ ~Handled(m)
  /\ \A b \in Buffers : binding[b].memory = m => ~Copying(b)
  /\ holds' = [holds EXCEPT ![m] = None]
  /\ mapping' = [mapping EXCEPT ![m] = NoMapping]
  /\ binding' = [b \in Buffers |-> IF binding[b].memory = m THEN NoBinding ELSE binding[b]]
  /\ orphaned' = IF maps[m] # NoMapping THEN orphaned \union {m} ELSE orphaned
  /\ disturbed' = disturbed \union ReadersOf(m)
  /\ UNCHANGED <<layer_vars, cache_vars, at, call, suspect>>

\* layer_BindBufferMemory and bind_buffer_memory2_common, for a new buffer.
BindBufferMemory(b, m, offset) ==
  /\ binding[b] = NoBinding /\ holds[m] # None
  /\ binding' = [binding EXCEPT ![b] = [memory |-> m, offset |-> offset]]
  /\ bindings' = [bindings EXCEPT ![b] = [memory |-> m, offset |-> offset]]
  /\ UNCHANGED <<holds, mapping, maps, cache_vars, at, call, orphaned, disturbed, suspect>>

\* vkDestroyBuffer: the entry stays.
DestroyBuffer(b) ==
  /\ binding[b] # NoBinding /\ ~Copying(b)
  /\ binding' = [binding EXCEPT ![b] = NoBinding]
  /\ UNCHANGED <<holds, mapping, layer_vars, cache_vars, at, call, orphaned, disturbed, suspect>>

\* layer_MapMemory: the driver's mapping ...
MapMemory(t, m, range) ==
  /\ at[t] = "idle"
  /\ holds[m] # None /\ mapping[m] = NoMapping /\ ~Handled(m)
  /\ \E a \in Addresses :
       /\ \A n \in Memories : mapping[n].address # a
       /\ mapping' = [mapping EXCEPT ![m] =
                        [address |-> a, offset |-> range.offset, size |-> range.size]]
  /\ Goto(t, "track_map", [NoCall EXCEPT !.memory = m])
  /\ UNCHANGED <<holds, binding, layer_vars, cache_vars, orphaned, disturbed, suspect>>

\* ... and then the entry.
TrackMap(t) ==
  /\ at[t] = "track_map"
  /\ maps' = [maps EXCEPT ![call[t].memory] = mapping[call[t].memory]]
  /\ orphaned' = orphaned \ {call[t].memory}
  /\ Return(t)
  /\ UNCHANGED <<app_vars, bindings, cache_vars, suspect>>

\* Mutant of UnmapMemory: the entry stays.
UnmapMemory_KeepEntry(t, m) ==
  /\ at[t] = "idle"
  /\ mapping[m] # NoMapping /\ ~Handled(m)
  /\ Goto(t, "unmap", [NoCall EXCEPT !.memory = m])
  /\ UNCHANGED <<app_vars, layer_vars, cache_vars, orphaned, disturbed, suspect>>

\* layer_UnmapMemory: first the entry ...
UnmapMemory(t, m) ==
  /\ at[t] = "idle"
  /\ mapping[m] # NoMapping /\ ~Handled(m)
  /\ maps' = [maps EXCEPT ![m] = NoMapping]
  /\ Goto(t, "unmap", [NoCall EXCEPT !.memory = m])
  /\ UNCHANGED <<app_vars, bindings, cache_vars, orphaned, disturbed, suspect>>

\* ... and then the driver.
DriverUnmap(t) ==
  /\ at[t] = "unmap" /\ MayDisturb(call[t].memory)
  /\ mapping' = [mapping EXCEPT ![call[t].memory] = NoMapping]
  /\ Goto(t, "idle", NoCall)
  /\ disturbed' = disturbed \union ReadersOf(call[t].memory)
  /\ UNCHANGED <<holds, binding, layer_vars, cache_vars, orphaned, suspect>>

\* The host writes to mapped memory.
HostWrite(m, p) ==
  /\ mapping[m] # NoMapping /\ holds[m] # p /\ MayDisturb(m)
  /\ holds' = [holds EXCEPT ![m] = p]
  /\ disturbed' = disturbed \union ReadersOf(m)
  /\ UNCHANGED <<mapping, binding, layer_vars, cache_vars, at, call, orphaned, suspect>>

\* vkDestroyDevice, when no call is under way: layer_DestroyDevice erases the device's
\* entries and keeps the cache.
DestroyDevice ==
  /\ \A t \in Threads : at[t] = "idle"
  /\ holds' = [m \in Memories |-> None]
  /\ mapping' = [m \in Memories |-> NoMapping]
  /\ binding' = [b \in Buffers |-> NoBinding]
  /\ bindings' = [b \in Buffers |-> NoBinding]
  /\ maps' = [m \in Memories |-> NoMapping]
  /\ orphaned' = {}
  /\ UNCHANGED <<cache_vars, at, call, disturbed, suspect>>

-----------------------------------------------------------------------------
(* A copied region.                                                        *)

SliceStride(r) == r.pitch * r.rows
Footprint(r) == (r.height - 1) * r.pitch + r.width

\* vkCmdCopyBufferToImage of a region inside the buffer, which ends with its memory.
CopyBufferToImage(t, b, r) ==
  /\ at[t] = "idle"
  /\ binding[b] # NoBinding
  /\ binding[b].offset + r.offset + (r.slices - 1) * SliceStride(r) + Footprint(r) <= MemorySize
  /\ Goto(t, "resolve", [NoCall EXCEPT !.buffer = b, !.region = r])
  /\ UNCHANGED <<app_vars, layer_vars, cache_vars, orphaned, disturbed, suspect>>

\* src_offset in try_cpu_decode_copy_regions
SliceOffset(t) == call[t].region.offset + call[t].slice * SliceStride(call[t].region)

\* resolve_mapped_buffer_source: a pointer, if the bytes lie inside the mapping; if not,
\* or if the texels are too many to upload, the copy fails.  (What fails gives the staged
\* slices back.)
Resolve(t) ==
  /\ at[t] = "resolve"
  /\ LET b == bindings[call[t].buffer]
         m == IF b = NoBinding THEN NoMapping ELSE maps[b.memory]
         start == b.offset + SliceOffset(t) - m.offset
     IN IF /\ m # NoMapping
           /\ start >= 0
           /\ m.size = WholeSize \/ start + Footprint(call[t].region) <= m.size
           /\ call[t].region.width * call[t].region.height <= MaxUpload
          THEN /\ Goto(t, "hash", [call[t] EXCEPT !.address = m.address, !.start = start])
               /\ disturbed' = IF b.memory \in orphaned THEN disturbed \union {t} ELSE disturbed
          ELSE Return(t)
  /\ UNCHANGED <<app_vars, layer_vars, cache_vars, orphaned, suspect>>

\* What a read at the thread's pointer may find: anything, if nothing is mapped there.
SourcesAt(t) ==
  LET M == {m \in Memories : mapping[m].address = call[t].address}
  IN IF M = {} THEN [pattern : Patterns, first : {0}]
     ELSE {[pattern |-> holds[m], first |-> mapping[m].offset + call[t].start] : m \in M}

-----------------------------------------------------------------------------
(* The cache.                                                              *)

\* Mutant of CacheKey: the contents are not compared.
CacheKey_NoHash(t, h) == call[t].region

\* CpuDecodedTextureCacheKey
CacheKey(t, h) ==
  LET r == call[t].region
  IN [width |-> r.width, height |-> r.height, pitch |-> r.pitch, rows |-> r.rows, hash |-> h]

Keys == {cache[n].key : n \in DOMAIN cache}
SizeOf(entry) == entry.texels.width * entry.texels.height
Position(k) == CHOOSE n \in DOMAIN cache : cache[n].key = k
EntryOf(k) == cache[Position(k)]
Others(k) == IF k \in Keys THEN RemoveAt(cache, Position(k)) ELSE cache

DoneReading(t, h, texels) ==
  [call[t] EXCEPT !.address = None, !.start = 0, !.hash = h, !.texels = texels]

\* hash_cpu_decode_source of the bytes at the pointer, and then
\* try_get_cpu_decoded_texture_cache: a hit is the most recently used entry now.
HashAndFind(t) ==
  /\ at[t] = "hash"
  /\ \E s \in SourcesAt(t) :
       LET h == <<HashOf[s.pattern], s.first>>
           k == CacheKey(t, h)
       IN IF k \in Keys
            THEN /\ cache' = Append(Others(k), EntryOf(k))
                 /\ Goto(t, "stage", DoneReading(t, h, EntryOf(k).texels))
                 /\ disturbed' = IF k \in suspect THEN disturbed \union {t} ELSE disturbed
            ELSE /\ Goto(t, "decode", [call[t] EXCEPT !.hash = h])
                 /\ UNCHANGED <<cache, disturbed>>
  /\ UNCHANGED <<app_vars, layer_vars, bytes, orphaned, suspect>>

BytesOf(entries) ==
  LET sum[n \in 0..Len(entries)] == IF n = 0 THEN 0 ELSE sum[n - 1] + SizeOf(entries[n])
  IN sum[Len(entries)]

\* Mutant of Pruned: the newest entry goes first.
Pruned_Newest(entries, total) ==
  LET n == Min({k \in 0..Len(entries) :
             \/ total - BytesOf(SubSeq(entries, Len(entries) - k + 1, Len(entries))) <= MaxBytes
             \/ k = Len(entries)})
  IN [entries |-> SubSeq(entries, 1, Len(entries) - n),
      total |-> total - BytesOf(SubSeq(entries, Len(entries) - n + 1, Len(entries)))]

\* As few of the oldest entries as must go for the rest to fit.
Evicted(entries, total) ==
  Min({k \in 0..Len(entries) :
         total - BytesOf(SubSeq(entries, 1, k)) <= MaxBytes \/ k = Len(entries)})

\* prune_cpu_decoded_texture_cache_locked: the oldest entries go until the rest fits.
Pruned(entries, total) ==
  LET n == Evicted(entries, total)
  IN [entries |-> SubSeq(entries, n + 1, Len(entries)),
      total |-> total - BytesOf(SubSeq(entries, 1, n))]

\* The entries of the cache and their bytes, once texels are stored under k.
StoredUnder(k, texels) ==
  LET entry == [key |-> k, texels |-> texels]
      replaced == IF k \in Keys THEN SizeOf(EntryOf(k)) ELSE 0
  IN Pruned(Append(Others(k), entry), bytes - replaced + SizeOf(entry))

\* Mutant of Decode: two threads that missed the same key both append.
Decode_NoLookup(t) ==
  /\ at[t] = "decode"
  /\ LET r == call[t].region
         k == CacheKey(t, call[t].hash)
     IN IF SliceStride(r) <= Footprint(r)
          THEN \E s \in SourcesAt(t) :
                 LET texels == [source |-> s, width |-> r.width, height |-> r.height]
                     after == Pruned(Append(cache, [key |-> k, texels |-> texels]),
                                     bytes + r.width * r.height)
                 IN /\ Goto(t, "stage", DoneReading(t, call[t].hash, texels))
                    /\ cache' = after.entries
                    /\ bytes' = after.total
                    /\ suspect' = IF t \in disturbed THEN suspect \union {k} ELSE suspect
                    /\ UNCHANGED disturbed
          ELSE Return(t) /\ UNCHANGED <<cache_vars, suspect>>
  /\ UNCHANGED <<app_vars, layer_vars, orphaned>>

\* bcn_cpu_decode_region reads the source again; it is given the footprint of the copy
\* and wants whole rows of whole images.  store_cpu_decoded_texture_cache then keeps what
\* it made under the hash taken before.
Decode(t) ==
  /\ at[t] = "decode"
  /\ LET r == call[t].region
         k == CacheKey(t, call[t].hash)
     IN IF SliceStride(r) <= Footprint(r)
          THEN \E s \in SourcesAt(t) :
                 LET texels == [source |-> s, width |-> r.width, height |-> r.height]
                     after == StoredUnder(k, texels)
                 IN /\ Goto(t, "stage", DoneReading(t, call[t].hash, texels))
                    /\ IF r.width * r.height <= MaxEntryBytes
                         THEN /\ cache' = after.entries
                              /\ bytes' = after.total
                              /\ suspect' = {key \in (IF t \in disturbed THEN suspect \union {k}
                                                                         ELSE suspect \ {k}) :
                                               \E n \in DOMAIN cache' : cache'[n].key = key}
                         ELSE UNCHANGED <<cache_vars, suspect>>
                    /\ UNCHANGED disturbed
          ELSE Return(t) /\ UNCHANGED <<cache_vars, suspect>>
  /\ UNCHANGED <<app_vars, layer_vars, orphaned>>

\* Mutant of Stage: a slice too many.
Stage_OneMore(t) ==
  /\ at[t] = "stage"
  /\ \/ Return(t)
     \/ /\ call[t].slice < call[t].region.slices
        /\ Goto(t, "resolve", [NoCall EXCEPT !.buffer = call[t].buffer, !.region = call[t].region,
                                             !.slice = call[t].slice + 1])
        /\ disturbed' = disturbed \ {t}
  /\ UNCHANGED <<app_vars, layer_vars, cache_vars, orphaned, suspect>>

\* create_cpu_upload_staging_for_region: a staged slice.  If there is no room the copy
\* fails; after the last slice the copies are recorded.
Stage(t) ==
  /\ at[t] = "stage"
  /\ \/ Return(t)
     \/ /\ call[t].slice + 1 < call[t].region.slices
        /\ Goto(t, "resolve", [NoCall EXCEPT !.buffer = call[t].buffer, !.region = call[t].region,
                                             !.slice = call[t].slice + 1])
        /\ disturbed' = disturbed \ {t}
  /\ UNCHANGED <<app_vars, layer_vars, cache_vars, orphaned, suspect>>

Next ==
  \/ \E m \in Memories :
       \/ FreeMemory(m)
       \/ \E p \in Patterns : AllocateMemory(m, p) \/ HostWrite(m, p)
       \/ \E b \in Buffers, offset \in BindOffsets : BindBufferMemory(b, m, offset)
  \/ \E b \in Buffers : DestroyBuffer(b)
  \/ \E t \in Threads :
       \/ \E m \in Memories :
            \/ UnmapMemory(t, m)
            \/ \E range \in Ranges : MapMemory(t, m, range)
       \/ \E b \in Buffers, r \in Regions : CopyBufferToImage(t, b, r)
       \/ TrackMap(t) \/ DriverUnmap(t)
       \/ Resolve(t) \/ HashAndFind(t) \/ Decode(t) \/ Stage(t)
  \/ DestroyDevice

Spec == Init /\ [][Next]_vars

-----------------------------------------------------------------------------
(* Properties.                                                             *)

\* Where the slice being copied starts, by Vulkan's addressing of buffers.
SliceStart(t) ==
  binding[call[t].buffer].offset + call[t].region.offset
    + call[t].slice * SliceStride(call[t].region)

\* If the application leaves the source alone while a copy is recorded and has not freed
\* its memory mapped, then what the CPU decode reads through its pointer, after the lock is
\* released, lies inside the live mapping of the buffer's own memory, at the address
\* Vulkan gives the slice (resolve_mapped_buffer_source).
ReadsTheBuffer ==
  \A t \in Threads : at[t] \in {"hash", "decode"} /\ t \notin disturbed =>
    LET mp == mapping[binding[call[t].buffer].memory]
    IN /\ mp.address = call[t].address
       /\ mp.offset + call[t].start = SliceStart(t)
       /\ \/ mp.size = WholeSize
          \/ call[t].start + Footprint(call[t].region) <= mp.size

\* Decoded or cached, by whichever thread and whatever was freed, remapped or stored in
\* between, the texels a copy uploads have the shape of its region and come from blocks
\* with its hash at the slice's own address; only a source that was disturbed, now or when
\* the entry was stored, is excepted (try_cpu_decode_copy_regions).
UploadsMatchSource ==
  \A t \in Threads : at[t] = "stage" /\ t \notin disturbed =>
    LET texels == call[t].texels
    IN /\ texels.width = call[t].region.width /\ texels.height = call[t].region.height
       /\ <<HashOf[texels.source.pattern], texels.source.first>> = call[t].hash
       /\ binding[call[t].buffer] # NoBinding => texels.source.first = SliceStart(t)

\* The cache has an entry for a key at most, its count of bytes is what the entries hold,
\* within the limit, and no entry is larger than an entry may be: also when two threads
\* missed the same key and both store it (store_cpu_decoded_texture_cache).
CacheWithinLimits ==
  /\ IsInjective([n \in DOMAIN cache |-> cache[n].key])
  /\ bytes = BytesOf(cache) /\ bytes <= MaxBytes
  /\ \A n \in DOMAIN cache : SizeOf(cache[n]) <= MaxEntryBytes

\* A store does not push out an entry used since an older one that stays
\* (prune_cpu_decoded_texture_cache_locked), and what was just stored is in the cache.
EvictsOldestFirst ==
  [][\A t \in Threads : at[t] = "decode" /\ at'[t] = "stage"
                       /\ call[t].region.width * call[t].region.height <= MaxEntryBytes =>
       /\ \E n \in DOMAIN cache' : cache'[n].key = CacheKey(t, call[t].hash)
       /\ \A i, j \in DOMAIN cache :
            i < j /\ cache[i] \in ToSet(cache') /\ cache[j].key # CacheKey(t, call[t].hash)
              => cache[j] \in ToSet(cache')]_vars

=============================================================================
