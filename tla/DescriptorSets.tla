--------------------------- MODULE DescriptorSets ---------------------------
(***************************************************************************)
(* What a translated image copy binds: the storage views of its images     *)
(* (get_or_create_storage_view) and the descriptor sets that refer to them *)
(* (prepare_special_copy_descriptor_set), both cached and shared by all    *)
(* threads.  A call of try_special_copy_image_regions is a sequence of     *)
(* lock sections; calls of several threads, and vkDestroyImage, interleave *)
(* between them.                                                           *)
(*                                                                         *)
(* One device whose compute runtime is initialized and does not use        *)
(* descriptor buffers.  Each thread records into a command buffer of its   *)
(* own (CommandBuffers.tla has their life cycle).  Every region of a copy  *)
(* has the same mip level and layer, so an image has one cached view.  The *)
(* sampler is the same in every key and left out.                          *)
(***************************************************************************)
EXTENDS Integers, Sequences, FiniteSets

CONSTANTS
  Threads,          \* application threads, each with its command buffer
  Images,           \* VkImage handles
  Views,            \* VkImageView handles; the driver reuses destroyed ones
  Sets,             \* descriptor sets the driver can allocate
  MaxRegions,       \* bound on the regions of one copy
  InitialCapacity,  \* descriptor_pool_capacity after initialization
  GrowthCap,        \* descriptor_pool_growth_cap
  Fallback,         \* kDescriptorPoolInitialMaxSetsFallback
  NoImage, NoView, Gone

ASSUME DescriptorSetsAssumption ==
  /\ MaxRegions \in Nat \ {0}
  /\ InitialCapacity \in Nat \ {0} /\ GrowthCap \in Nat \ {0} /\ Fallback \in Nat \ {0}
  /\ NoImage \notin Images /\ NoView \notin Views /\ Gone \notin Views \union {NoView}

VARIABLES
  \* the driver
  images,         \* images that exist
  view_image,     \* view -> its image, NoImage if there is no such view
  written,        \* set -> the views it refers to; Gone once destroyed
  in_pool,        \* set -> index of the pool it is allocated from, 0 if it is not
  \* the layer
  storage_views,  \* g_storage_views: image -> view
  pools,          \* descriptor_pools: their maxSets, newest last
  cached,         \* cached_special_copy_descriptor_sets: key -> sets
  recycled,       \* recycled_descriptor_sets
  record,         \* descriptor_set_cache_records: set -> key
  tracked,        \* thread -> sets its command buffer holds
  copies,         \* thread -> the recorded copies whose images still exist
  at, call        \* thread -> next step of the copy it is in, and its locals

driver_vars == <<images, view_image, written, in_pool>>
cache_vars == <<cached, recycled, record>>
vars == <<images, view_image, written, in_pool, storage_views, pools,
          cached, recycled, record, tracked, copies, at, call>>

Key == [dst : Views, src : Views]
NoKey == [dst |-> NoView, src |-> NoView]
Copy == [set : Sets, dst : Images, src : Images]

NoCall == [image |-> [dst |-> NoImage, src |-> NoImage], view |-> NoKey, side |-> "src",
           created |-> NoView, set |-> {}, prepared |-> {}, left |-> 0]

Locals ==
  [image : [dst : Images \union {NoImage}, src : Images \union {NoImage}],
   view : [dst : Views \union {NoView}, src : Views \union {NoView}],
   side : {"src", "dst"}, created : Views \union {NoView},
   set : SUBSET Sets, prepared : SUBSET Sets, left : 0..MaxRegions]

Steps == {"idle", "find", "create", "emplace", "take", "allocate", "update", "record"}

TypeOK ==
  /\ images \subseteq Images
  /\ view_image \in [Views -> Images \union {NoImage}]
  /\ written \in [Sets -> [dst : Views \union {NoView, Gone}, src : Views \union {NoView, Gone}]]
  /\ pools \in Seq(Nat \ {0})
  /\ in_pool \in [Sets -> 0..Len(pools)]
  /\ storage_views \in [Images -> Views \union {NoView}]
  /\ cached \in [Key -> SUBSET Sets]
  /\ recycled \subseteq Sets
  /\ record \in [Sets -> Key \union {NoKey}]
  /\ tracked \in [Threads -> SUBSET Sets]
  /\ copies \in [Threads -> SUBSET Copy]
  /\ at \in [Threads -> Steps]
  /\ call \in [Threads -> Locals]

Init ==
  /\ images = {}
  /\ view_image = [v \in Views |-> NoImage]
  /\ written = [s \in Sets |-> NoKey]
  /\ in_pool = [s \in Sets |-> 0]
  /\ storage_views = [i \in Images |-> NoView]
  /\ pools = <<InitialCapacity>>
  /\ cached = [k \in Key |-> {}]
  /\ recycled = {}
  /\ record = [s \in Sets |-> NoKey]
  /\ tracked = [t \in Threads |-> {}]
  /\ copies = [t \in Threads |-> {}]
  /\ at = [t \in Threads |-> "idle"]
  /\ call = [t \in Threads |-> NoCall]

-----------------------------------------------------------------------------
(* The driver, and where a set goes when nobody needs it.                  *)

Live(v) == view_image[v] # NoImage

\* vkDestroyImageView for the views V: a set that refers to one dangles.
DestroyViews(V) ==
  /\ view_image' = [v \in Views |-> IF v \in V THEN NoImage ELSE view_image[v]]
  /\ written' = [s \in Sets |->
                   [side \in {"dst", "src"} |->
                      IF written[s][side] \in V THEN Gone ELSE written[s][side]]]

\* release_descriptor_sets: back under the key recorded for the set, if any.
ReleaseDescriptorSets(S) ==
  /\ cached' = [k \in Key |-> cached[k] \union {s \in S : record[s] = k}]
  /\ recycled' = recycled \union {s \in S : record[s] = NoKey}

Goto(t, step) == at' = [at EXCEPT ![t] = step]

Return(t) == Goto(t, "idle") /\ call' = [call EXCEPT ![t] = NoCall]

-----------------------------------------------------------------------------
(* Images.                                                                 *)

CreateImage(i) ==
  /\ i \notin images
  /\ images' = images \union {i}
  /\ UNCHANGED <<view_image, written, in_pool, storage_views, pools, cache_vars,
                 tracked, copies, at, call>>

\* layer_DestroyImage with cleanup_destroyed_image_tracking.  The image is in no call
\* under way; a recording that uses it may remain, but is not submitted any more.
\* The descriptor caches are left alone.
DestroyImage(i) ==
  /\ i \in images
  /\ \A t \in Threads : i \notin {call[t].image.dst, call[t].image.src}
  /\ images' = images \ {i}
  /\ DestroyViews({storage_views[i]})
  /\ storage_views' = [storage_views EXCEPT ![i] = NoView]
  /\ copies' = [t \in Threads |-> {c \in copies[t] : i \notin {c.dst, c.src}}]
  /\ UNCHANGED <<in_pool, pools, cache_vars, tracked, at, call>>

-----------------------------------------------------------------------------
(* A translated copy: for each region the source's view, the destination's *)
(* view and a descriptor set.                                              *)

\* try_special_copy_image_regions, once the copy is accepted and planned: an image
\* has its own format, so classify_copy_image_route leaves no copy within one image.
Start(t, dst, src, n) ==
  /\ at[t] = "idle"
  /\ dst # src
  /\ {dst, src} \subseteq images
  /\ Goto(t, "find")
  /\ call' = [call EXCEPT ![t] =
                [NoCall EXCEPT !.image = [dst |-> dst, src |-> src], !.left = n]]
  /\ UNCHANGED <<driver_vars, storage_views, pools, cache_vars, tracked, copies>>

ImageWanted(t) == call[t].image[call[t].side]

\* The view for one side is found; the other side or the descriptor set is next.
UseView(t, v) ==
  /\ Goto(t, IF call[t].side = "src" THEN "find" ELSE "take")
  /\ call' = [call EXCEPT ![t] = [@ EXCEPT !.view[call[t].side] = v,
                                           !.created = NoView, !.side = "dst"]]

\* get_or_create_storage_view: the lookup under the shared lock ...
FindView(t) ==
  /\ at[t] = "find"
  /\ LET v == storage_views[ImageWanted(t)]
     IN IF v # NoView THEN UseView(t, v) ELSE Goto(t, "create") /\ UNCHANGED call
  /\ UNCHANGED <<driver_vars, storage_views, pools, cache_vars, tracked, copies>>

\* ... without a lock, the driver's new view ...
CreateView(t) ==
  /\ at[t] = "create"
  /\ \E v \in Views :
       /\ ~Live(v)
       /\ view_image' = [view_image EXCEPT ![v] = ImageWanted(t)]
       /\ call' = [call EXCEPT ![t].created = v]
  /\ Goto(t, "emplace")
  /\ UNCHANGED <<images, written, in_pool, storage_views, pools, cache_vars, tracked, copies>>

\* Mutants of EmplaceView: the second thread keeps its own view, or destroys it and uses it.
EmplaceView_KeepLoser(t) ==
  /\ at[t] = "emplace"
  /\ LET i == ImageWanted(t)
         winner == IF storage_views[i] = NoView THEN call[t].created ELSE storage_views[i]
     IN storage_views' = [storage_views EXCEPT ![i] = winner] /\ UseView(t, winner)
  /\ UNCHANGED <<driver_vars, pools, cache_vars, tracked, copies>>

EmplaceView_UseLoser(t) ==
  /\ at[t] = "emplace"
  /\ LET i == ImageWanted(t)
         winner == IF storage_views[i] = NoView THEN call[t].created ELSE storage_views[i]
     IN /\ storage_views' = [storage_views EXCEPT ![i] = winner]
        /\ UseView(t, call[t].created)
        /\ DestroyViews({call[t].created} \ {winner})
  /\ UNCHANGED <<images, in_pool, pools, cache_vars, tracked, copies>>

\* ... and the emplacement under the lock: the thread that comes second destroys
\* its own view and uses the other's.
EmplaceView(t) ==
  /\ at[t] = "emplace"
  /\ LET i == ImageWanted(t)
         winner == IF storage_views[i] = NoView THEN call[t].created ELSE storage_views[i]
     IN /\ storage_views' = [storage_views EXCEPT ![i] = winner]
        /\ UseView(t, winner)
        /\ DestroyViews({call[t].created} \ {winner})
  /\ UNCHANGED <<images, in_pool, pools, cache_vars, tracked, copies>>

\* The region holds set s; the next region or the recording is next.
UseSet(t, s) ==
  /\ Goto(t, IF call[t].left = 1 THEN "record" ELSE "find")
  /\ call' = [call EXCEPT ![t] =
                [call[t] EXCEPT !.prepared = @ \union {s}, !.set = {}, !.left = @ - 1,
                                !.side = "src", !.view = NoKey]]

CopyKey(t) == [dst |-> call[t].view.dst, src |-> call[t].view.src]

\* Mutant of TakeCached: the set stays in the cache.
TakeCached_Keep(t) ==
  /\ at[t] = "take"
  /\ IF cached[CopyKey(t)] = {}
       THEN Goto(t, "allocate") /\ UNCHANGED call
       ELSE \E s \in cached[CopyKey(t)] : UseSet(t, s)
  /\ UNCHANGED <<driver_vars, storage_views, pools, cache_vars, tracked, copies>>

\* Mutant of TakeCached: the comparison of keys forgets which view is the source.
TakeCached_EitherOrder(t) ==
  /\ at[t] = "take"
  /\ LET views == {call[t].view.dst, call[t].view.src}
         found == {k \in Key : cached[k] # {} /\ {k.dst, k.src} = views}
     IN IF found = {}
          THEN Goto(t, "allocate") /\ UNCHANGED <<cached, record, call>>
          ELSE \E k \in found : \E s \in cached[k] :
                 /\ cached' = [cached EXCEPT ![k] = @ \ {s}]
                 /\ record' = [record EXCEPT ![s] = CopyKey(t)]
                 /\ UseSet(t, s)
  /\ UNCHANGED <<driver_vars, storage_views, pools, recycled, tracked, copies>>

\* prepare_special_copy_descriptor_set: a set cached under the key, bound as it is ...
TakeCached(t) ==
  /\ at[t] = "take"
  /\ IF cached[CopyKey(t)] = {}
       THEN Goto(t, "allocate") /\ UNCHANGED <<cached, record, call>>
       ELSE \E s \in cached[CopyKey(t)] :
              /\ cached' = [cached EXCEPT ![CopyKey(t)] = @ \ {s}]
              /\ record' = [record EXCEPT ![s] = CopyKey(t)]
              /\ UseSet(t, s)
  /\ UNCHANGED <<driver_vars, storage_views, pools, recycled, tracked, copies>>

Used(p) == Cardinality({s \in Sets : in_pool[s] = p})

\* The size of the next pool when the newest has size n.
NextCapacity(n) ==
  IF n < GrowthCap THEN (IF 2 * n < GrowthCap THEN 2 * n ELSE GrowthCap) ELSE n + Fallback

\* Mutant of AllocateSet: a set from a pool that is not kept.
AllocateSet_LosePool(t) ==
  /\ at[t] = "allocate"
  /\ \E s \in Sets :
       /\ in_pool[s] = 0
       /\ LET room == {p \in DOMAIN pools : Used(p) < pools[p]}
          IN in_pool' = [in_pool EXCEPT ![s] =
                           IF room = {} THEN Len(pools) + 1
                           ELSE CHOOSE p \in room : \A q \in room : q <= p]
       /\ call' = [call EXCEPT ![t].set = {s}]
  /\ Goto(t, "update")
  /\ UNCHANGED <<images, view_image, written, storage_views, pools, cache_vars, tracked, copies>>

\* ... or one of allocate_decode_descriptor_set: a recycled one, one of the newest
\* pool with room, or one of a larger pool ...
AllocateSet(t) ==
  /\ at[t] = "allocate"
  /\ IF recycled # {}
       THEN \E s \in recycled :
              /\ recycled' = recycled \ {s}
              /\ call' = [call EXCEPT ![t].set = {s}]
              /\ UNCHANGED <<in_pool, pools>>
       ELSE \E s \in Sets :
              /\ in_pool[s] = 0
              /\ LET room == {p \in DOMAIN pools : Used(p) < pools[p]}
                 IN IF room # {}
                      THEN /\ in_pool' = [in_pool EXCEPT ![s] =
                                            CHOOSE p \in room : \A q \in room : q <= p]
                           /\ UNCHANGED pools
                      ELSE /\ pools' = Append(pools, NextCapacity(pools[Len(pools)]))
                           /\ in_pool' = [in_pool EXCEPT ![s] = Len(pools) + 1]
              /\ call' = [call EXCEPT ![t].set = {s}]
              /\ UNCHANGED recycled
  /\ Goto(t, "update")
  /\ UNCHANGED <<images, view_image, written, storage_views, cached, record, tracked, copies>>

\* ... written without a lock, and then recorded under the key.
UpdateSet(t) ==
  /\ at[t] = "update"
  /\ \E s \in call[t].set :
       /\ written' = [written EXCEPT ![s] = call[t].view]
       /\ record' = [record EXCEPT ![s] = CopyKey(t)]
       /\ UseSet(t, s)
  /\ UNCHANGED <<images, view_image, in_pool, storage_views, pools, cached, recycled,
                 tracked, copies>>

\* The driver refuses a view, a set or a pool: release_prepared_special_copy_regions.
Fail(t) ==
  /\ at[t] \in {"create", "allocate"}
  /\ ReleaseDescriptorSets(call[t].prepared)
  /\ Return(t)
  /\ UNCHANGED <<driver_vars, storage_views, pools, record, tracked, copies>>

\* The larger pool is made and kept, and yet the driver refuses a set from it.
FailAfterGrowth(t) ==
  /\ at[t] = "allocate"
  /\ recycled = {}
  /\ \A p \in DOMAIN pools : Used(p) = pools[p]
  /\ pools' = Append(pools, NextCapacity(pools[Len(pools)]))
  /\ ReleaseDescriptorSets(call[t].prepared)
  /\ Return(t)
  /\ UNCHANGED <<driver_vars, storage_views, record, tracked, copies>>

\* record_special_copy_region for every region
RecordCopies(t) ==
  /\ at[t] = "record"
  /\ tracked' = [tracked EXCEPT ![t] = @ \union call[t].prepared]
  /\ copies' = [copies EXCEPT ![t] = @ \union
                  {[set |-> s, dst |-> call[t].image.dst, src |-> call[t].image.src] :
                     s \in call[t].prepared}]
  /\ Return(t)
  /\ UNCHANGED <<driver_vars, storage_views, pools, cache_vars>>

\* The thread's command buffer is begun, reset or freed.
ReleaseCommandBuffer(t) ==
  /\ at[t] = "idle" /\ tracked[t] # {}
  /\ ReleaseDescriptorSets(tracked[t])
  /\ tracked' = [tracked EXCEPT ![t] = {}]
  /\ copies' = [copies EXCEPT ![t] = {}]
  /\ UNCHANGED <<driver_vars, storage_views, pools, record, at, call>>

Next ==
  \/ \E i \in Images : CreateImage(i) \/ DestroyImage(i)
  \/ \E t \in Threads :
       \/ \E dst, src \in Images, n \in 1..MaxRegions : Start(t, dst, src, n)
       \/ FindView(t) \/ CreateView(t) \/ EmplaceView(t)
       \/ TakeCached(t) \/ AllocateSet(t) \/ UpdateSet(t)
       \/ Fail(t) \/ FailAfterGrowth(t)
       \/ RecordCopies(t) \/ ReleaseCommandBuffer(t)

Spec == Init /\ [][Next]_vars

-----------------------------------------------------------------------------
(* Properties.                                                             *)

\* The layer keeps every view it makes and no other: a live view is the map's entry
\* for its image, which exists, or in the hands of one thread about to enter it.
ViewsAccounted ==
  /\ \A i \in Images : storage_views[i] # NoView => view_image[storage_views[i]] = i
  /\ \A v \in Views : Live(v) =>
       /\ view_image[v] \in images
       /\ \/ storage_views[view_image[v]] = v
          \/ \E t \in Threads : at[t] = "emplace" /\ call[t].created = v

\* Whichever thread wins the race to create it, the view a copy is about to use is a
\* live view of the image the copy is about.
ViewsInUseLive ==
  \A t \in Threads : \A side \in {"dst", "src"} :
    call[t].view[side] # NoView => view_image[call[t].view[side]] = call[t].image[side]

PlacesOf(s) ==
  {<<"cached", k>> : k \in {k \in Key : s \in cached[k]}}
    \union {<<"recycled">> : x \in {x \in {s} : s \in recycled}}
    \union {<<"call", t>> : t \in {t \in Threads : s \in call[t].set \union call[t].prepared}}
    \union {<<"tracked", t>> : t \in {t \in Threads : s \in tracked[t]}}

\* A set is in one place, from its allocation on: one key's cache, one call or one
\* command buffer.  No set is lost, none is bound by two recordings.
SetsInOnePlace ==
  \A s \in Sets : Cardinality(PlacesOf(s)) = (IF in_pool[s] = 0 THEN 0 ELSE 1)

\* A recorded copy never reads or writes another image that exists: each side of
\* its set refers to a view of that side's image, or to a view that is gone.
NoOtherImage ==
  \A t \in Threads : \A c \in copies[t] : \A side \in {"dst", "src"} :
    LET v == written[c.set][side] IN v = Gone \/ view_image[v] = c[side]

\* "Cache by resource key": a recorded copy between two images that still exist
\* refers to the views of these two images.
CopiesUseTheirImages ==
  \A t \in Threads : \A c \in copies[t] : \A side \in {"dst", "src"} :
    written[c.set][side] = storage_views[c[side]]
=============================================================================
