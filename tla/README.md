# ExynosTools Vulkan layer in TLA+

The repository is a Vulkan layer (`VkLayer_vortek_xclipse`) that sits between an application and a
driver without BCn texture support.  It creates BCn images in a replacement format ("virtual"
images), decodes compressed uploads on the CPU, translates copies between images whose real formats
differ, and recycles the memory and descriptor sets that these translations need.  Every entry point
may be called by several application threads.  This directory models the parts of `src/src/layer`
in which state is shared between calls and threads, checks them with TLC and proves with TLAPS, for
every value of the constants, the safety properties that hold (sections 3 and 4, with the exceptions
named at the end of section 4).

## 1. Inventory

File names are relative to `src/src/layer`.

| Component | State | Operations | Talks to |
|---|---|---|---|
| Staging allocator (`layer_staging_allocations.cpp`, `layer_vma_runtime.cpp`) | `VmaRuntime::staging_chunks`, each with a sorted, merged free list; under `staging_mutex` | `create_cpu_upload_staging_for_region`, `create_staging_copy_for_region`, `release_staging_allocations`, `initialize_`/`destroy_vma_runtime` | VMA and the driver; CPU decode allocates, the command buffer hooks release |
| Command buffers (`layer_command_buffer_hooks.cpp`, `_ownership.cpp`, `_resources.cpp`) | command buffer -> device and pool; command buffer -> staging allocations and descriptor sets; two mutexes | create, destroy, reset a pool; allocate, free, begin, reset command buffers; track, take | releases to the staging allocator and the descriptor caches; every `vkCmd*` hook resolves its device here |
| Translated image copies (`layer_compute_runtime.cpp`, `layer_entry.cpp` 1313-1374, 1862-2213, 4908-5089) | `g_storage_views` (`g_lock`); descriptor pools, cached and recycled sets, cache records (`descriptor_mutex`) | `get_or_create_storage_view`, `prepare_special_copy_descriptor_set`, `allocate_decode_descriptor_set`, `release_descriptor_sets`, `record_special_copy_region` | called by `vkCmdCopyImage(2)`; sets are tracked per command buffer; images' destruction destroys the views |
| Image virtualization and routing (`layer_image_virtualization.cpp`, `layer_copy_image_routing.cpp`, `layer_entry.cpp` 2353-2528, 4450-4624, 5091-5460) | `g_virtual_images`, `g_tracked_images`, `g_image_to_device`, `g_decode_image_state` (`g_lock`) | create, destroy an image; decode a buffer copy, block and retry; route copies and blits | decode uses the staging allocator, a special route the translated copies |
| CPU decode (`layer_bcn_cpu_decoder.cpp`, `layer_entry.cpp` 1487-1860, 4204-4339) | decoded texture cache (LRU, 64 MiB), `g_buffer_bindings`, `g_memory_maps` | bind, map, unmap; decode a region | reads mapped application memory; staging takes the texels |
| Compute runtime (`layer_compute_runtime.cpp`, `layer_pipeline_selection.cpp`) | pipelines, pipeline cache and its file, `initialized`/`available` | initialize (also a prewarm at device creation), destroy | driver, one file |
| Telemetry (`layer_telemetry.cpp`) | pending and recycled timestamp query pools, statistics | begin, end, collect, recycle | around translated copies and at every release; in this build it does nothing (section 5) |
| Instances and devices (`layer_entry.cpp` 2530-4202, `layer_global_state.cpp`) | dispatch tables and runtimes per instance, physical device and device | create, enumerate, destroy | owns all of the above |
| Formats and features (`layer_format_virtualization.cpp`, `layer_image_virtualization.cpp`, queries in `layer_entry.cpp` 640-980, 3080-3610) | cache of native support, cached feature answer | choose a replacement, report features, formats and image formats, create images and views | image creation, property queries |
| Settings (`layer_settings_runtime.cpp`) | one snapshot | refresh at `vkCreateInstance` | read by formats and copies |
| LSFG snapshot, struct cloning, arena, logging | read once or none | pure helpers | everything |

What is hard here:

* *interleaving* - handlers take a lock, leave it, call the driver and take it again: views that two
  threads create at once, retry counts stored from an old snapshot, descriptor sets written between
  two critical sections;
* *handle reuse* - every map is keyed by handles (or by the word behind them) that the driver gives
  out again after a destroy;
* *ordering against the GPU* - a resource may be recycled only when no recording that may still be
  executed refers to it, and the hooks release before, after or instead of the driver's own call;
* *partial failure* - a copy of several regions, a pool reset, the growth of a pool can fail half way;
* *life cycles* - a runtime that is initialized once, whoever comes first, object by object, and torn
  down with the device; a file that outlives the process, is shared with others and may be torn;
  caches that outlive what they describe;
* *memory of others* - the CPU decode reads application memory through maps that do not see every
  call that changes it, after it has left the lock;
* *two answers to one question* - what a query promises and what a creation does are decided apart;
* *fragmentation* - long sequences of allocations and releases of staging memory;
* *progress* - an image whose decode failed skips its copies and must be tried again.

What makes each component correct: staging memory is exclusive and conserved; a command buffer's
resources are in one place and come back exactly when its recording can no longer run; a translated
copy binds live views of its own images through a set nobody else uses; the image maps agree with
the driver, and bytes of one format never reach an image of another; a decode reads the bytes Vulkan
means, and the texture cache returns them again only for the same data; every object made on a device
has one owner and goes with the device; a query's promise is kept by the creation, and every virtual
image can be viewed and decoded.  `PROJECT.json` lists the
hazards line by line with the properties that cover them.

## 2. Modules

| Module | What it is |
|---|---|
| `StagingAbs` | abstract specification: holders own exclusive blocks; a buffer lives as long as its blocks |
| `StagingRanges` | the free-list arithmetic on sets of ranges: `align_up`, `Fits`, `FirstFit`, `Carve` (split), `Merge` |
| `StagingAllocator` | the allocator of a device over `StagingRanges`; implements `StagingAbs` |
| `FreeList` | the vector the code really keeps, shown to follow `StagingRanges` |
| `StagingRanges_proofs` | lemmas on the arithmetic, and theorems on `FreeList` |
| `StagingAllocator_proofs` | theorems on the allocator |
| `CommandBuffers` | pools, command buffers, their ownership maps, and the resources of their recordings |
| `CommandBuffers_proofs` | theorems on it |
| `DescriptorSets` | storage views and descriptor sets of translated copies |
| `DescriptorSets_proofs` | theorems on it |
| `VirtualImages` | virtual images, their maps, transfers to them, blocking and retry |
| `VirtualImages_proofs` | theorems on it |
| `DeviceRuntime` | the life of devices under one key: the compute runtime, its pipeline cache and the file behind it |
| `DeviceRuntime_proofs` | theorems on it |
| `Uploads` | bindings, mappings, the pointer into mapped memory, the decoded texture cache |
| `Uploads_proofs` | theorems on it |
| `Formats` | instances and physical devices; what queries answer, what is created; views and decode formats |
| `Formats_proofs` | theorems on it |
| `MCStaging`, `MCCommandBuffers`, `MCDescriptorSets`, `MCVirtualImages`, `MCUploads`, `MCFormats` | small instances for TLC (`DeviceRuntime.cfg`, `LazyRetry.cfg` and `FreeList.cfg` need no module) |

A definition whose comment begins with "Mutant" is no part of a specification: it is the plausible
bug that a run must be able to see.

### Staging memory

State and code: `runtime` is `initialized` and `allocator`; `chunks`, `size`, `usage`, `free` are the
fields of `staging_chunks`; `held` are the vectors of `StagingAllocation`s, one for each holder - first
the local vector of a decode, later, the same allocations, the vector of a command buffer; `driver` is
the set of `VkBuffer`s that exist.  `AllocateFromChunk`, `AllocateFromNewChunk` and
`AllocateDedicated` are the three ways through `create_*_for_region`; `ReleaseStagingAllocations` is
the whole loop over one vector, merging included; `DestroyVmaRuntime` is the end of
`layer_DestroyDevice`.  Each action is one section under `staging_mutex`, so that threads do not
interleave inside of it (the dedicated path, outside of the lock, touches only the driver).
`create_staging_copy_for_region` is reached only from the GPU decode path, which has no caller; it is
modelled because it shares the chunks.

A free list is a *set* of ranges in `StagingAllocator`: the code sorts and sweeps after every
release and a split keeps the order.  `FreeList` justifies it: there the list is a sequence,
first fit is the first element that fits, a release pushes, sorts (`Sorted`) and sweeps (`Swept`, one
`SweepStep` for each element) for each allocation of the vector in any order (`Released`), and
`FollowsRanges` says that each step is one of the set operations.
`VkDeviceSize` has 64 bits; the sizes in question are at most a few MiB and do not overflow.

### Command buffers

Each hook is a sequence of lock sections and driver calls, and `at`, `in_pool`, `target`, `hands`
are a thread's place in it, its arguments and its local vectors.  `state` and `uses` are what the
driver and the GPU know: which commands may still run and what they refer to.  The orders are the
code's: begin and reset ask the driver first and release afterwards, free and destroy release first,
a pool reset takes first, asks, and releases on success.  The three ownership maps have one key and
are written together, hence one function `owner`.  `KeyOf` stands for `dispatch_key`, the first
word of the object behind the handle.  The application synchronizes pools as Vulkan demands
(`Enters`) and does not touch what the GPU executes.

### Translated copies

One call of `try_special_copy_image_regions` is: for each region and each side look up the view
(`FindView`, shared lock), create it (`CreateView`, no lock), enter it (`EmplaceView`, lock), then
take a cached set (`TakeCached`, lock) or allocate (`AllocateSet`, lock) and write it (`UpdateSet`;
the write itself is not under the lock, but the set is in one thread's hands), and at last record
(`RecordCopies`).  `Fail` and `FailAfterGrowth` are refusals of the driver.  `DestroyImage` comes
between any two steps of calls about other images.  A view's handle is reused after its destruction:
`written` remembers what a set really refers to, `Gone` once that view is destroyed.

### Virtual images

`format` and `asked` are what the driver made and what the application asked for; `virtual`,
`tracked`, `decode_state` are the maps.  Creation and destruction are two steps each (driver and
maps), so that a handle can be reused between them by another thread.  A buffer copy is the
snapshot (`CopyBufferToImage`), then skip, unblock, decode, block, and the second look-up before the
driver gets the copy (`ForwardCopy`).  `sent` is the last transfer the driver got untranslated;
`skipped` is a history variable.  That an external BCn image is not replaced for LSFG, that no
format can replace it, or that it is supported natively, is one choice (`real = f`).

### The life of a device

`runtime` are the flags of the `ComputeRuntime`, `handles` what it holds, `made` the objects the driver
has, `refuses` what the driver of this device may refuse: any objects, and a pipeline cache with the data
of a file, whole or torn.  `UseRuntime` and `LockRuntime` are the entry into
`initialize_compute_runtime` under `init_mutex`, `MakeObject` and `RefuseObject` one object of it,
`MakePipelines` the loop over the shader kinds.  The pipeline cache is made in the steps of
`create_runtime_pipeline_cache`: `ReadCacheFile` fills `initial_data` (the result of `read_binary_file` is
not looked at, so that a failed read leaves a vector of the right size with the wrong bytes), `RefuseData`
is a refusal of the first try, after which the second has no data, and `RefuseObject` a refusal without
data, which ends the initialization.  `DestroyDevice`, `PersistCache`, `WriteCache`, `DestroyRuntime`,
`DriverDestroyDevice` are `layer_DestroyDevice` in its order.  The file has one path for all devices and
processes (`default_pipeline_cache_path`), hence `OthersWriteCache` at any moment, also between the
size and the bytes that a reader takes.  `Crash` may come anywhere; the file, torn or not, is the only
thing that is left.

### Uploads

Memory is an array of compressed blocks with a pattern in it.  `binding`, `mapping` are the driver's,
`bindings`, `maps` the layer's two tables.  A copy is `Resolve` (the pointer, under the lock), `HashAndFind`
(first read), `Decode` (second read, and the store), `Stage`, for each slice.  Between any two of them
the application may write, unmap and free.  `disturbed` remembers whose source was touched since it
was resolved, `suspect` what such a thread stored: the properties speak of all the others.  The cache is
a sequence, least recently used first, which is what its clock amounts to.  What the block decoder
computes from a block is left out: a texel block is the compressed block it came from.  `Decode` keeps
the size check of `bcn_cpu_decode_region`: a region whose pitch or image height pads it never decodes.

### Formats

`stands` says what a handle of a physical device stands for; `owner`, `runtime`, `native` are the
layer's maps; `Driver` gives every device's capabilities.  The paths of a query (`QueryVirtualizes`,
`Prepared`, `Normalized`) and of a creation (`CanVirtualize`, `Virtualized`) are kept as apart as the code
has them.  One image at a time is enough, since images do not interact here; its views accumulate.
`ViewFormat` and `DecodeAfterView` are `create_virtualized_image_view`.

What the two paths decide on differs in one flag: the creation asks for MUTABLE_FORMAT when the format
has an sRGB pair (`layer_image_virtualization.cpp:59-61`), the query that vouches for it does not
(`layer_entry.cpp:3379`).  A driver may by Vulkan refuse an image for any flag (`refuses`), and for one that
refused this flag `QueryMatchesCreate` is false: TLC finds an image that is refused although it was
promised.  The project takes it that no driver does (`MutableSupported`, which `MCFormats` assumes by
name).  The lists of view formats are not modelled: a creation's is compiled out, and a query's is rewritten
without a part in any decision.

## 3. Runs

| Run | Checks | Instance | Shows |
|---|---|---|---|
| `staging` | `TypeOK`, `NoOverlap`, `Conservation`, `Coalesced`, `NoBufferLeak`, `HeldInsideChunk`, `ImplementsAbs` | 2 holders, 2 buffers, sizes {0,1,3,6}, alignment 2, chunks of 9 -> 10 and 2 bytes, pooled up to 4 | padding, splits, merges, full chunks, chunks larger than the default, dedicated uploads and reuse of buffers all occur |
| `free_list` | `SortedApart`, `FollowsRanges` | chunk of 10, sizes {1,2,3,5}, alignment 2 | every shape of fragmentation with up to five live ranges |
| `command_buffers` | `TypeOK`, `SafeRelease`, `OnePlace`, `OwnersExist`, `OwnerMatchesDriver`, `TrackedIsUsed` | 2 threads, 2 pools, 3 command buffers, 2 resources, own keys | safe release and exact tracking under handle reuse |
| `loader_keys` | `SafeRelease`, violated | 2 command buffers, one key | see finding 1 |
| `special_copies` | `TypeOK`, `ViewsAccounted`, `ViewsInUseLive`, `SetsInOnePlace`, `NoOtherImage` | 2 threads, 2 images, 3 views, 2 sets, 2 regions, pools 1, 2, ... | the creation race, failures, growth; cached sets are never bound for another live image |
| `cached_sets` | `CopiesUseTheirImages`, violated | 1 thread, 2 images | see finding 2 |
| `virtual_images` | `TypeOK`, `MapsMatchDriver`, `NoForeignBytes`, `SkipsBounded`, `RetryEventually` | 2 threads, 2 images, retry every 3rd copy, history up to 8 | handle reuse, double look-up, routing; a blocked image is tried again |
| `device_lifetime` | `TypeOK`, `HandlesMatchDriver`, `ChildrenGone`, `OnlyDriverFails` | 2 threads, 2 shader kinds, any refusals | device after device under one key, refusals, other writers and crashes anywhere |
| `lazy_retry` | `RetriesLazily`, violated | 2 threads, 1 kind, always prewarmed | see finding 3 |
| `uploads` | `TypeOK`, `ReadsTheBuffer`, `UploadsMatchSource`, `CacheWithinLimits`, `EvictsOldestFirst` | 2 threads, a memory of 3 blocks, a buffer bound at 1, 2 patterns, 3 regions, cache of 2 blocks | eviction, two threads that miss one key, sources that change while they are read |
| `formats` | `TypeOK`, `QueryMatchesCreate`, `CacheTellsTheTruth`, `PromisesKept`, `ViewsValid`, `VirtualImagesDecodable` | 2 instances, 2 handles, 3 devices, 5 requests, 3 shapes | handles that change devices, each path of the decisions |
| `settings` | `OverridesApply`, violated | the same, with one set of overrides | see finding 4 |

Bounds.  Two of each kind of actor are what the races need (one that acts, one that disturbs); a third
view is needed for two threads to race while another view lives, a third command buffer for one to be
freed while two others use the two resources.  Pools of descriptor sets are bounded by the number of
sets.  `MaxSkipped` caps the history variable above the value at which the invariant would fail (3 is the
interval: the bound is 2 * 7 / 2 = 7).  Two shader kinds let one pipeline be refused and another made;
what a file holds is all of what was written, something else, or nothing, since the layer looks at no more.
One memory and one address are enough for a stale map
entry, since reuse of the handle and of the address is what makes it harmful; a cache of two blocks
holds one entry of the two-block region or two of the others, so that stores replace and evict.
`MaxDisturbed` bounds the reads that are disturbed, and the entries that came of them, at one time;
the steps that would disturb more wait.  The devices of `MCFormats` are one of each kind the code
tells apart (an Xclipse without compressed formats, one with them and without storage of the small
replacements, another vendor's with BC1 only), its requests one for each path (external memory, cube
and view type, sRGB, 3D, sparse), its shapes one within and two beyond some device's limits.  Symmetry is
used in runs without liveness properties only.

Fairness.  Only `FairSpec` of `VirtualImages` states any: a thread inside a handler takes its next
step (weak fairness of `Step(t)`).  No handler waits for another thread - the locks are held for a
map access and always released - so that the scheduler alone justifies it.  That the application
goes on copying is the hypothesis of `RetryEventually`, not an assumption.

### Findings

1. **loader_keys.** `dispatch_key` reads the first word behind a handle.  Under a Vulkan loader it is
   the dispatch table of the device, equal for all its command buffers; then their resource vectors
   are one, and freeing or beginning one command buffer recycles what the others use, against
   "Liberacion segura por command buffer/pool" (`docs/XCLIPSE_COMPAT_MATRIX.md:85`).  The run
   `command_buffers` assumes that keys tell command buffers apart; it shows that the hooks are right but
   for the key.  The theorems of `CommandBuffers_proofs` do not assume it: they say what is left when
   command buffers share a key.
   The maps of images, buffers, physical devices and devices have such keys, too.  The other modules
   identify these by their handles, that is, all results about them assume that their first words tell
   them apart; behind images and buffers there are the driver's own objects, and what these begin with
   is nothing the repository says.
2. **cached_sets.** The descriptor cache is keyed by view handles and is not purged when an image and
   its views are destroyed; under a reused handle it yields a set that refers to the dead view, against
   "Descriptor set reuse and cache-by-resource-key" (`CHANGELOG_V3.1.txt:11`).  `NoOtherImage` of the
   passing run shows how far it goes: never to *another* live image.
3. **lazy_retry.** A prewarm that fails is final: the runtime is marked as initialized before anything is
   made (`layer_compute_runtime.cpp:697`), and every later caller gets the old answer, against "The layer
   will retry lazily on first BCn decode/copy use" (`layer_entry.cpp:1953`).
4. **settings.** The code that would read `VkLayerSettingsCreateInfoEXT` is guarded by `#ifdef` of an
   enumerator and never compiled (`layer_settings_runtime.cpp:300`), against "Runtime overrides can still
   use VkLayerSettingsCreateInfoEXT" (line 322).  All other results about formats are about the defaults.

One observation is no finding, since nothing in the repository says otherwise: two threads that skip
copies of one image overwrite each other's counts, so that more copies than the interval may be skipped;
`SkipsBounded` gives the worst case for two threads, (n-1)(n+4)/2, or 2142 for n = 64; the formula was
found by checking n = 1..5 and is proved for every n.

`SafeRelease` speaks of command buffers that may still be executed.  It exempts those in the middle of
being freed, whose resources the hooks recycle before the driver has the handles back
(`layer_command_buffer_hooks.cpp:349`): Vulkan forbids to execute them from that call on.

## 4. Theorems

`StagingAllocator_proofs` proves, for every set of holders and buffers, all sizes, chunk sizes and
alignments, under `AlignmentAssumption` (the alignment is positive: the code takes at least 16) and
`StagingAssumption` (sizes are natural, default chunk sizes positive):

* `SpecTypeOK`, `SpecNoOverlap`, `SpecCoalesced`, `SpecNoBufferLeak`, `SpecConservation`,
  `SpecHeldInsideChunk`: the invariants of these names;
* `SpecImplementsAbs`: `Spec => Abs!Spec`, the refinement of `StagingAbs` with the holders' blocks and
  the driver's buffers read off `held` and `driver`.

`NoOverlap` is not inductive: nothing in it says that free ranges are disjoint from held ones.  The
inductive invariant `IInv` adds `FreeInsideChunk` (no free range reaches behind its chunk),
`HeldWellPlaced` (a pooled allocation lies in a live chunk and inside it, a dedicated one in a buffer
that is no chunk), `HeldNotFree` (no byte is held and free), and uses `Coalesced` (so that two free
ranges do not share bytes: cutting one must not leave the same bytes free in another) and
`NoBufferLeak` (so that a new buffer has no allocation in it yet).  `StagingRanges_proofs` has what is
needed of the arithmetic: cutting removes exactly the bytes given out and leaves pieces inside
the old range (`CarvePieces`, `CarveTakes`, `CarveSeparate`), merging adds no byte and leaves no two
ranges that touch (`MergeRun`, `MergeInvents`, `MergeSeparate`).  Each operation then has a lemma of
its own, `NextIInv` puts them together, and the refinement follows step by step from `IInv`.
`Conservation` needs that merging covers every byte (`MergeCovers`): of the runs of bytes around it
there is a longest one, by the least number principle (`LeastNumber`), which takes the place of
induction.  `HeldInsideChunk` needs that `align_up` returns a multiple (`AlignedUp`).

`StagingRanges_proofs` proves, under `FreeListAssumption` (the chunk and the sizes are positive):

* `AlwaysSortedApart`, `AlwaysFollowsRanges`: the vector of free ranges does what the sets do, so that
  the theorems on `StagingAllocator` hold of the lists the code keeps.

The invariant `ListInv` says that the list is in order and apart, that live ranges share no bytes with
each other or with it, and are finitely many.  Two lists in order that cover the same bytes are the
same (`CoverDetermines`), so it is enough that sweeping keeps the bytes (`SweptSays`) and leaves the
ranges apart: then it is `Merge`, whatever the order of the releases.  `Swept` and `Released` are
recursive functions; what each round keeps is carried upwards from the first (`Upwards`, again by the
least number principle).

`CommandBuffers_proofs` proves, for every set of threads, pools, command buffers and resources, and for
every `KeyOf`, also one that gives all command buffers the same key:

* `TypeAlways`, `AlwaysOnePlace`, `OwnersAlwaysExist`.

None of these is inductive: between two lock sections of a hook a resource is in no map, and an entry of
the ownership maps may be that of another command buffer with the key.  The inductive invariant says
what holds there: `Exclusive` (a handler has its pool to itself, and its command buffers are of that
pool), `OwnersFiled` (an entry has a command buffer with its key, in its pool, that no handler is about to
file or to free: entries go before their command buffers and come after them) and `OncePlaced` (each
resource is free, abandoned, tracked or in one thread's hands).  A pool that is destroyed then has no entry
left, because all of its command buffers are on their way.  No hypothesis on the keys that the code
would justify makes `SafeRelease`, the exact `OwnerMatchesDriver` and `TrackedIsUsed` true; they are
checked under own keys and not proved.

`DescriptorSets_proofs` proves, for every set of threads, images, views and sets:

* `TypeAlways`, `ViewsAlwaysAccounted`, `ViewsInUseAlwaysLive`, `SetsAlwaysInOnePlace`,
  `NeverAnotherImage`.

`NoOtherImage` speaks of recorded copies; what makes it true is spread over the calls that prepare
them and over what the caches and records say.  The inductive invariant follows a set through them:
`CallsInOrder` (the locals of a call, step by step), `CreatedApart` (a view that is not entered yet is
in one thread's hands), `ViewsInUse` (a call's views are the map's entries for its images, which cannot
be destroyed meanwhile), `OncePlaced` (every allocated set is in one cache, call or command buffer),
`Recorded` (what a set refers to is what its record says, or gone) and `SetsRefer` (the sets of a call
and of a recording refer to views of their images, or to nothing that lives).  A set under a key that
is found again refers to the live views of this key or to destroyed ones; a cached set can be stale
(finding 2) but never belong to somebody else.

`DeviceRuntime_proofs` proves, for every set of threads and of shader kinds, under
`DeviceRuntimeAssumption` (there is a shader kind, none is named like another object, and prewarming is a
yes or a no):

* `TypeAlways`, `HandlesAlwaysMatch`, `ChildrenAlwaysGone`, `OnlyDriverEverFails`.

The invariant adds `OneMaker` (one thread makes objects, and the runtime holds exactly those before the
next) and `OfDevice` (a runtime that was never initialized holds nothing, a device that is gone has no
runtime, and nobody works on a device that is being destroyed).  `OnlyDriverFails` speaks of callers; a
caller may also fail because one before it did (finding 3), so that `GivenUp` says it of the runtime: one
that nobody is making and that is not available was given up for an object this device's driver may
refuse.  The first try with the data of the file does not matter because a refusal of it leads to the second.

`VirtualImages_proofs` proves, for every set of threads and image handles and every retry interval:

* `TypeCorrect`, `MapsAlwaysMatchDriver`, `NeverForeignBytes`;
* `TwoThreadsSkipsBounded`: `SkipsBounded`, if there are at most two threads.

`MapsMatchDriver` speaks of images the application knows; it is not inductive, because between the
driver's answer and the maps an image exists that nobody knows, and another thread may destroy and
create under the same handle.  The inductive invariant adds `OneOwner` (a handle that is being created
or destroyed is in one thread's hands, and a transfer's images are known), `MapsOf` (what the maps say
of a handle in each phase of its life), `NativeSound` (a route found native stays so until its transfer
reaches the driver, since neither image can be destroyed meanwhile) and `CountsBounded` (the counter a
thread carries).

`SkipsBounded` is a worst case over interleavings, so its invariant must say how many copies may still
be skipped.  `HasRoom` does, for each pair of steps the two threads may be at: with d copies left until
an attempt is due, a pair can skip d(d+3)/2, because each time one thread runs the d copies and the
other then stores the count it read before them, which leaves d - 1; a thread about to block the image
starts this anew.  Each step of a copy has a lemma in these numbers (`RoomStart`, `RoomSkip`,
`RoomBlock` ...) and one that finds the numbers in the state.  With more threads more stale counts are
about and the bound is larger; no theorem is stated for them.

`Uploads_proofs` proves, for every set of threads, memories, buffers, regions, patterns and every size
of the cache:

* `TypeAlways`, `AlwaysReadsTheBuffer`, `UploadsAlwaysMatch`, `CacheAlwaysWithinLimits` and the action
  property `AlwaysEvictsOldestFirst`.

The invariant adds `CallsInOrder`, `HandledOnce` and `MappedApart` (one thread maps or unmaps a memory,
and mappings share no address), `MapsRight` (what the layer knows of bound buffers and mapped memory is
what the driver has, but for memory freed while mapped), `HashRight` (the hash a thread carries is that
of the bytes it will decode, unless its source was touched) and `CacheRight` (an entry's texels have
the size and the hash of its key, unless a disturbed thread stored it).  The bytes of the cache are
sums over a sequence: two sequences with the same entries have the same sum (`SumsAgree`), so that
taking one entry out, putting one last and pruning from the front have the counts the code keeps
(`OthersSays`, `AppendedSays`, `PrunedSays`).

`Formats_proofs` proves, for every set of instances, handles, devices, capabilities and requests:

* `TypeAlways`;

* `CacheAlwaysTrue`: a cached answer about native support is that of the device behind the handle.
  The invariant adds `Registrations` (a registered handle stands for a device of its owner, and the
  layer's record of it is true), so that the purge at an instance's end takes every entry whose device
  goes, and that only registered handles have entries;
* `QueryAlwaysMatchesCreate`: with a true cache, what the layer decides of a handle is a function of the
  device and the request (`Should`), whatever was asked before; the last query and the last image are
  then what this function makes of them, and the two paths agree by comparing the functions.  Its
  hypothesis is `MutableSupported` (section 2, Formats), without which it is false;
* `ViewsAlwaysValid` and `AlwaysDecodable`: a virtual image is described by what `Virtualized` made of
  its request, whatever the driver supports, and its decode format by the views it had.

* `PromisesAlwaysKept`: not true of every driver (one that refuses even the formats Vulkan requires
  breaks it), hence with the hypothesis `RequiredFormats`: what Vulkan requires of all devices.  The
  devices of `MCFormats` meet it (`RequiredByVulkan`, which TLC evaluates).  The promise of a query is
  carried to the creation by the same functions of device and request.

Only model-checked: liveness (`RetryEventually`), which this prover does not treat; and `SafeRelease`,
`OwnerMatchesDriver` and `TrackedIsUsed`, which hold for keys that tell command buffers apart and are false
for those of a loader.  What the refuted runs check is false, so that there is nothing to prove.  Three
hypotheses of theorems go beyond the named assumptions on the constants: `RequiredFormats`,
`MutableSupported` and, of `TwoThreadsSkipsBounded`, that there are at most two threads; the runs of these
properties meet them.

## 5. Not modelled, and why

* The decoding kernels, shaders and barriers: data or driver work without shared state.  One remark on
  a barrier: `try_cpu_decode_copy_regions` moves all mip levels and layers from the layout of the copied
  one (`layer_entry.cpp` 1807), right only if they share it; layouts are the application's and not kept.
* The vendored allocator (VMA) and decoder (bcdec) are taken as the driver is: they grant or refuse.
* Code that cannot run in this build: the GPU decode (`build_decode_region_plan`,
  `record_decode_region`, `prepare_decode_descriptor_set` have no caller), the descriptor buffer
  (`kEnableDescriptorBufferFastPath` is false), the GPU micro-benchmarks with their timestamp query pools
  (`microbenchmark_enabled` keeps its default, false, because of finding 4: `begin_gpu_microbenchmark`
  returns at `layer_telemetry.cpp:293`, and there is nothing to collect), the depth format override (its
  setting keeps the default "none"), the sources of settings other than the defaults, the rewriting of a
  created image's format list.
* Dispatch tables, proc-address look-up, loader negotiation, lists of extensions, features added to
  `vkCreateDevice`: tables written once and read.
* Struct cloning, logging, the arena, the LSFG snapshot: sequential and pure.

## 6. Plan

Done, in this order: staging memory (the memory under every upload), command buffers (when it is
recycled), translated copies, virtual images, the life of a device, uploads, formats; theorems on all of
them, one for each safety property that a run checks and that holds without an assumption the code does
not justify.

Next theorems: a bound of `SkipsBounded` for any number of threads.  Next modules: the features and
extensions `vkCreateDevice` adds, against what the virtual formats need of the device.
